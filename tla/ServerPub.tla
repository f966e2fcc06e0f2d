------------------------------ MODULE ServerPub ------------------------------
(***************************************************************************)
(* The publishing server (Server/src/ServerPub.cpp) and the video frames   *)
(* that are pushed to it (FrameNode::framePush).                           *)
(*                                                                         *)
(* Values and text streams wait in one queue per type, each standing for a *)
(* LockFreeDoubleQueue that no late writer races.  Frames wait in a double *)
(* list of their own, under a mutex.  The publisher thread swaps all of    *)
(* them, one after the other, and sends what it got.                       *)
(***************************************************************************)
EXTENDS Integers, Sequences, SequencesExt, FiniteSets, FiniteSetsExt, Functions

CONSTANTS Types,       \* the types of the queues, in the order of the source
          Frame,       \* the frames, each in a node of its own
          Capacity,    \* of a queue
          MaxMessages  \* bound: publishing starts below this number of messages

ASSUME ServerPubAssumption ==
    /\ Types \in Seq(STRING) /\ IsInjective(Types)
    /\ IsFiniteSet(Frame) /\ "nobody" \notin Frame
    /\ Capacity \in Nat /\ MaxMessages \in Nat

VARIABLES queue,      \* per type: appended, not yet swapped
          reading,    \* per type: the buffer the sender owns
          list,       \* _queue1Frame and _queue2Frame
          writing,    \* the list _isWritingTo1 selects
          mutex,      \* who holds _mutexQueueFrame: a frame's pusher, or nobody
          watchers,   \* per frame: countWatchers
          push,       \* per frame: where the call of framePush is
          target,     \* per frame: the list its call found to be written to
          step,       \* of sendToClient
          published,  \* the messages so far: they are numbered
          due,        \* history: what sendToClient found when it began
          sent        \* history: what it sent

vars == <<queue, reading, list, writing, mutex, watchers, push, target, step, published,
          due, sent>>

Type == Range(Types)
N == Len(Types)
Nobody == "nobody"
Message(name) == [name |-> name, n |-> published + 1]

\* After n messages that were sent.
InitAfter(n) ==
    /\ queue = [t \in Type |-> <<>>]
    /\ reading = [t \in Type |-> <<>>]
    /\ list = <<<<>>, <<>>>>
    /\ writing = 1
    /\ mutex = Nobody
    /\ watchers \in [Frame -> 0 .. 1]
    /\ push = [f \in Frame |-> "out"]
    /\ target = [f \in Frame |-> 1]
    /\ step = 0
    /\ published = n
    /\ due = {}
    /\ sent = <<>>
Init == InitAfter(0)

history == <<due, sent>>
frameVars == <<list, writing, mutex, watchers, push, target>>

-----------------------------------------------------------------------------
(* The threads of the robot program *)

\* publishBool, publishInt, publishFloat, publishStr, publishStream
PublishFor(t) ==
    /\ published' = published + 1
    /\ queue' = IF Len(queue[t]) < Capacity
                THEN [queue EXCEPT ![t] = Append(@, Message(t))] ELSE queue
    /\ UNCHANGED <<reading, frameVars, step, history>>
Publish(t) == published < MaxMessages /\ PublishFor(t)

\* FrameNode::framePush, under the mutex of the node.  A frame nobody watches goes
\* nowhere; nor does one of a size that is not that of its picture, or of an unknown
\* name (it throws).
FramePush(f) ==
    /\ push[f] = "out"
    /\ published < MaxMessages
    /\ \/ watchers[f] > 0 /\ push' = [push EXCEPT ![f] = "publishing"]
       \/ push' = push
    /\ UNCHANGED <<queue, reading, list, writing, mutex, watchers, target, step, published,
                   history>>

\* enableStreamingFrame and disableStreamingFrame wait for the mutex of the node.  Once
\* no frame will be pushed any more it does not matter who watches.
Watch(f) ==
    /\ push[f] = "out"
    /\ published < MaxMessages
    /\ watchers' = [watchers EXCEPT ![f] = 1 - @]
    /\ UNCHANGED <<queue, reading, list, writing, mutex, push, target, step, published, history>>

KeptList == list[writing]
ClearedList == <<>>

\* publishFrame takes the mutex and empties the list it will write to ...
Clear(f) ==
    /\ push[f] = "publishing"
    /\ mutex = Nobody
    /\ mutex' = f
    /\ push' = [push EXCEPT ![f] = "cleared"]
    /\ list' = [list EXCEPT ![writing] = ClearedList]
    /\ target' = [target EXCEPT ![f] = writing]
    /\ UNCHANGED <<queue, reading, writing, watchers, step, published, due, sent>>

\* ... appends the frame, and releases both mutexes.
Fill(f) ==
    /\ push[f] = "cleared"
    /\ published' = published + 1
    /\ list' = [list EXCEPT ![target[f]] = Append(@, Message(f))]
    /\ push' = [push EXCEPT ![f] = "out"]
    /\ mutex' = Nobody
    /\ UNCHANGED <<queue, reading, writing, watchers, target, step, history>>

-----------------------------------------------------------------------------
(* The publisher thread: sendToClient *)

BeginSend ==
    /\ step = 0
    /\ step' = 1
    /\ due' = (UNION {Range(queue[t]) : t \in Type}) \cup Range(list[writing])
    /\ UNCHANGED <<queue, reading, frameVars, published, sent>>

SwappedAllButLast(t) == IF t = Last(Types) THEN <<>> ELSE queue[t]
Swapped(t) == queue[t]

\* swapBuffer: the queues, one after the other ...
SwapQueue ==
    /\ step \in 1 .. N
    /\ LET t == Types[step]
       IN  /\ reading' = [reading EXCEPT ![t] = Swapped(t)]
           /\ queue' = [queue EXCEPT ![t] = <<>>]
    /\ step' = step + 1
    /\ UNCHANGED <<frameVars, published, history>>

AnyTime == TRUE
MutexFree == mutex = Nobody

NotFlipped == writing
Flipped == 3 - writing

\* ... then the frames, under the mutex.
SwapFrames ==
    /\ step = N + 1
    /\ MutexFree
    /\ writing' = Flipped
    /\ step' = step + 1
    /\ UNCHANGED <<queue, reading, list, mutex, watchers, push, target, published, history>>

\* What was swapped is sent, type after type.
SendQueue ==
    /\ step \in N + 2 .. 2 * N + 1
    /\ LET t == Types[step - N - 1]
       IN  /\ sent' = sent \o reading[t]
           /\ reading' = [reading EXCEPT ![t] = <<>>]
    /\ step' = step + 1
    /\ UNCHANGED <<queue, frameVars, published, due>>

\* The list is read and emptied without the mutex.
SendFrame ==
    /\ step = 2 * N + 2
    /\ list[3 - writing] # <<>>
    /\ sent' = Append(sent, Head(list[3 - writing]))
    /\ list' = [list EXCEPT ![3 - writing] = Tail(@)]
    /\ UNCHANGED <<queue, reading, writing, mutex, watchers, push, target, step, published,
                   due>>

EndSend ==
    /\ step = 2 * N + 2
    /\ list[3 - writing] = <<>>
    /\ step' = 0
    /\ UNCHANGED <<queue, reading, frameVars, published, history>>

-----------------------------------------------------------------------------
Sender == BeginSend \/ SwapQueue \/ SwapFrames \/ SendQueue \/ SendFrame \/ EndSend

Next ==
    \/ \E t \in Type : Publish(t)
    \/ \E f \in Frame : FramePush(f) \/ Watch(f) \/ Clear(f) \/ Fill(f)
    \/ Sender

Spec == Init /\ [][Next]_vars

\* The publisher runs for ever and a pusher that has the mutex ends its call.
FairSpec == Spec /\ WF_vars(Sender) /\ \A f \in Frame : WF_vars(Fill(f))

-----------------------------------------------------------------------------
(* Properties *)

Messages == [name : Type \cup Frame, n : 1 .. MaxMessages + Cardinality(Frame)]

\* Types; a list never holds more than one frame.
TypeOK ==
    /\ \A t \in Type : /\ queue[t] \in Seq(Messages) /\ Len(queue[t]) <= Capacity
                       /\ reading[t] \in Seq(Messages)
    /\ \A b \in {1, 2} : list[b] \in Seq(Messages) /\ Len(list[b]) <= 1
    /\ writing \in {1, 2} /\ mutex \in Frame \cup {Nobody}
    /\ watchers \in [Frame -> 0 .. 1]
    /\ push \in [Frame -> {"out", "publishing", "cleared"}]
    /\ target \in [Frame -> {1, 2}]
    /\ step \in 0 .. 2 * N + 2
    /\ published \in Nat
    /\ due \subseteq Messages /\ sent \in Seq(Messages)

\* The sender walks its list without the mutex: no pusher is changing that list.
ListsApart ==
    step = 2 * N + 2 => \A f \in Frame : push[f] = "cleared" => target[f] = writing

\* What was waiting when sendToClient began is sent when it ends, a frame unless a
\* newer one took its place: nothing waits for more than one period.
SentInOnePeriod ==
    step = 0 => \A m \in due :
        \/ m \in Range(sent)
        \/ m.name \in Frame /\ \E x \in Range(sent) : x.name \in Frame /\ x.n > m.n

\* A frame that was published is sent, or a newer one is.
FrameFlows ==
    \A n \in 1 .. MaxMessages + Cardinality(Frame) :
        (\E b \in {1, 2} : \E m \in Range(list[b]) : m.n = n)
            ~> \E m \in Range(sent) : m.name \in Frame /\ m.n >= n
=============================================================================
