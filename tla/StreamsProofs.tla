---------------------------- MODULE StreamsProofs ----------------------------
(***************************************************************************)
(* The publishing server and the text streams, for any types, frames,      *)
(* threads that write and shells.                                          *)
(***************************************************************************)
EXTENDS Streams, FiniteSetTheorems, SequenceTheorems, TLAPS

\* The publishing server's part of a step: the stream's threads publish as well.
PubNext ==
    \/ \E t \in Type : PublishFor(t)
    \/ \E f \in Frame : FramePush(f) \/ Watch(f) \/ Clear(f) \/ Fill(f)
    \/ Sender

\* A message of a queue, and one of a list.
Msg == [name : Type \cup Frame, n : Nat]
Framed == [name : Frame, n : Nat]

PubTypes ==
    /\ queue \in [Type -> Seq(Msg)] /\ reading \in [Type -> Seq(Msg)]
    /\ list \in [{1, 2} -> Seq(Framed)] /\ writing \in {1, 2}
    /\ push \in [Frame -> {"out", "publishing", "cleared"}]
    /\ target \in [Frame -> {1, 2}]
    /\ step \in 0 .. 2 * N + 2
    /\ published \in Nat
    /\ sent \in Seq(Msg)

\* A call that has emptied a list has the mutex, and that list is the one written to;
\* what waits in a list was published before.
ListsOK ==
    /\ \A f \in Frame : push[f] = "cleared" => mutex = f /\ target[f] = writing
    /\ \A b \in {1, 2} : \A x \in Range(list[b]) : x.n <= published

-----------------------------------------------------------------------------
(* Sequences *)

\* What is in a sequence that has grown or lost its head.
LEMMA RangeAppend ==
    ASSUME NEW S, NEW s \in Seq(S), NEW x \in S
    PROVE  Append(s, x) \in Seq(S) /\ Range(Append(s, x)) = Range(s) \cup {x}
<1>1. /\ Append(s, x) \in Seq(S) /\ Len(Append(s, x)) = Len(s) + 1
      /\ \A i \in 1 .. Len(s) : Append(s, x)[i] = s[i]
      /\ Append(s, x)[Len(s) + 1] = x
      OBVIOUS
<1>2. Range(s) = {s[i] : i \in 1 .. Len(s)}
      BY DEF Range
<1>3. Range(Append(s, x)) = {Append(s, x)[i] : i \in 1 .. Len(s) + 1}
      BY <1>1 DEF Range
<1> HIDE DEF Range
<1>4. ASSUME NEW y PROVE y \in Range(Append(s, x)) <=> y \in Range(s) \cup {x}
  <2>1. Len(s) \in Nat /\ 1 .. Len(s) + 1 = (1 .. Len(s)) \cup {Len(s) + 1}
        OBVIOUS
  <2> QED BY <1>1, <1>2, <1>3, <2>1
<1> QED BY <1>1, <1>4

\* What is in two sequences is in the one that joins them.
LEMMA RangeConcat ==
    ASSUME NEW S, NEW s \in Seq(S), NEW t \in Seq(S)
    PROVE  s \o t \in Seq(S) /\ Range(s) \subseteq Range(s \o t) /\ Range(t) \subseteq Range(s \o t)
<1>1. /\ s \o t \in Seq(S) /\ Len(s \o t) = Len(s) + Len(t)
      /\ \A i \in 1 .. Len(s) : (s \o t)[i] = s[i]
      /\ \A i \in 1 .. Len(t) : (s \o t)[Len(s) + i] = t[i]
      BY ConcatProperties
<1>2. /\ Range(s) = {s[i] : i \in 1 .. Len(s)} /\ Range(t) = {t[i] : i \in 1 .. Len(t)}
      /\ Range(s \o t) = {(s \o t)[i] : i \in 1 .. Len(s) + Len(t)}
  <2>1. DOMAIN s = 1 .. Len(s) /\ DOMAIN t = 1 .. Len(t)
        OBVIOUS
  <2>2. DOMAIN (s \o t) = 1 .. Len(s) + Len(t)
        BY <1>1
  <2> QED BY <2>1, <2>2 DEF Range
<1>3. ASSUME NEW i \in 1 .. Len(s) PROVE s[i] \in Range(s \o t)
  <2>1. i \in 1 .. Len(s) + Len(t)
        OBVIOUS
  <2> QED BY <1>1, <1>2, <2>1
<1>4. ASSUME NEW i \in 1 .. Len(t) PROVE t[i] \in Range(s \o t)
  <2>1. Len(s) + i \in 1 .. Len(s) + Len(t)
        OBVIOUS
  <2> QED BY <1>1, <1>2, <2>1
<1> QED BY <1>1, <1>2, <1>3, <1>4

\* A sequence is its head and its tail.
LEMMA RangeTail ==
    ASSUME NEW S, NEW s \in Seq(S), s # <<>>
    PROVE  /\ Head(s) \in S /\ Tail(s) \in Seq(S) /\ Head(s) \in Range(s)
           /\ Range(s) = {Head(s)} \cup Range(Tail(s))
<1>1. /\ Head(s) \in S /\ Tail(s) \in Seq(S) /\ Head(s) = s[1]
      /\ Len(s) \in Nat /\ Len(s) >= 1 /\ Len(Tail(s)) = Len(s) - 1
      /\ \A i \in 1 .. Len(s) - 1 : Tail(s)[i] = s[i + 1]
      OBVIOUS
<1>2. /\ Range(s) = {s[i] : i \in 1 .. Len(s)}
      /\ Range(Tail(s)) = {Tail(s)[i] : i \in 1 .. Len(s) - 1}
  <2>1. DOMAIN Tail(s) = 1 .. Len(s) - 1 /\ DOMAIN s = 1 .. Len(s)
        BY <1>1
  <2> QED BY <2>1 DEF Range
<1>3. ASSUME NEW y \in Range(s) PROVE y = Head(s) \/ y \in Range(Tail(s))
  <2>1. PICK i \in 1 .. Len(s) : y = s[i]
        BY <1>2
  <2>2. CASE i # 1
    <3>1. i - 1 \in 1 .. Len(s) - 1 /\ Tail(s)[i - 1] = s[i]
          BY <1>1, <2>2
    <3> QED BY <1>2, <2>1, <3>1
  <2> QED BY <1>1, <2>1, <2>2
<1>4. ASSUME NEW y \in Range(Tail(s)) PROVE y \in Range(s)
  <2>1. PICK i \in 1 .. Len(s) - 1 : y = Tail(s)[i]
        BY <1>2
  <2>2. i + 1 \in 1 .. Len(s) /\ y = s[i + 1]
        BY <1>1, <2>1
  <2> QED BY <1>2, <2>2
<1>5. Head(s) \in Range(s)
      BY <1>1, <1>2
<1> QED BY <1>1, <1>3, <1>4, <1>5

-----------------------------------------------------------------------------
(* The publishing server *)

\* The types are those in the list, each of them once.
LEMMA TypesAre ==
    /\ N \in Nat /\ "Stream" \in Type /\ Nobody \notin Frame
    /\ \A k \in 1 .. N : Types[k] \in Type
    /\ \A k, l \in 1 .. N : Types[k] = Types[l] => k = l
    /\ \A t \in Type : \E k \in 1 .. N : t = Types[k]
<1>1. Types \in Seq(STRING) /\ IsInjective(Types) /\ "Stream" \in Type /\ Nobody \notin Frame
      BY ServerPubAssumption, StreamsAssumption DEF Nobody
<1>2. Len(Types) \in Nat /\ DOMAIN Types = 1 .. Len(Types)
      BY <1>1
<1> QED BY <1>1, <1>2 DEF N, Type, Range, IsInjective

\* A step of the whole is one of the publishing server, or leaves it alone.
LEMMA PubSteps == [StreamsNext]_streamsVars => [PubNext]_vars
<1> SUFFICES ASSUME [StreamsNext]_streamsVars PROVE [PubNext]_vars
    OBVIOUS
<1>1. ASSUME NEW w \in Writer, WriterStep(w) PROVE PubNext \/ UNCHANGED vars
  <2>1. CASE PublishStream(w)
        BY <2>1, TypesAre DEF PublishStream, PubNext
  <2> QED BY <1>1, <2>1 DEF WriterStep, BeginWrite, EndWrite, KeepText, Sync, ClearBuffer, pubVars
<1>2. ASSUME NEW s \in Shell, CatStep(s) PROVE UNCHANGED vars
      BY <1>2 DEF CatStep, EnableStreaming, SetCallback, UnsetCallback, ClearStream,
                  DisableStreaming, Hear, CallHandler, ShowText, pubVars
<1>3. ASSUME NEW t \in Type, Publish(t) PROVE PubNext
      BY <1>3 DEF Publish, PubNext
<1> QED BY <1>1, <1>2, <1>3 DEF StreamsNext, PubNext, streamsVars, pubVars

\* What waits in a list is a message.
LEMMA FramedIsMsg == Framed \subseteq Msg
<1> SUFFICES ASSUME NEW m \in Framed PROVE m \in Msg
    OBVIOUS
<1>1. PICK a \in Frame, n \in Nat : m = [name |-> a, n |-> n]
      BY DEF Framed
<1> QED BY <1>1 DEF Msg

\* What is appended is a message.
LEMMA Messaged ==
    ASSUME PubTypes
    PROVE  /\ \A t \in Type : Message(t) \in Msg
           /\ \A f \in Frame : Message(f) \in Framed
           /\ \A x : Message(x).n = published + 1
BY DEF PubTypes, Message, Msg, Framed

\* The invariants hold at the beginning, also after messages that were sent.
LEMMA InitPub ==
    ASSUME NEW n \in Nat, InitAfter(n)
    PROVE  PubTypes /\ ListsOK
<1>1. list \in [{1, 2} -> Seq(Framed)] /\ \A b \in {1, 2} : list[b] = <<>>
  <2>1. list = <<<<>>, <<>>>>
        BY DEF InitAfter
  <2>2. list = [b \in {1, 2} |-> <<>>]
    <3>1. DOMAIN list = {1, 2} /\ list[1] = <<>> /\ list[2] = <<>>
          BY <2>1
    <3>2. list \in [1 .. 2 -> {<<>>}] /\ 1 .. 2 = {1, 2}
          BY <2>1
    <3> QED BY <3>1, <3>2
  <2>3. <<>> \in Seq(Framed)
        OBVIOUS
  <2> QED BY <2>2, <2>3
<1>2. \A b \in {1, 2} : Range(list[b]) = {}
      BY <1>1 DEF Range
<1>3. PubTypes
      BY <1>1, TypesAre DEF InitAfter, PubTypes
<1>4. ListsOK
      BY <1>2 DEF InitAfter, ListsOK
<1> QED BY <1>3, <1>4

\* The queues keep their types when something is published.
LEMMA PublishTypes ==
    ASSUME PubTypes, NEW t \in Type, PublishFor(t)
    PROVE  /\ PubTypes'
           /\ \A u \in Type : Range(queue[u]) \subseteq Range(queue'[u])
<1>1. CASE Len(queue[t]) < Capacity
  <2>1. queue' = [queue EXCEPT ![t] = Append(queue[t], Message(t))]
        BY <1>1 DEF PublishFor
  <2>2. /\ Append(queue[t], Message(t)) \in Seq(Msg)
        /\ Range(queue[t]) \subseteq Range(Append(queue[t], Message(t)))
        BY Messaged, RangeAppend DEF PubTypes
  <2>3. queue' \in [Type -> Seq(Msg)] /\ \A u \in Type : Range(queue[u]) \subseteq Range(queue'[u])
        BY <2>1, <2>2 DEF PubTypes
  <2> QED BY <2>3 DEF PublishFor, PubTypes, frameVars, history
<1>2. CASE ~(Len(queue[t]) < Capacity)
      BY <1>2 DEF PublishFor, PubTypes, frameVars, history
<1> QED BY <1>1, <1>2

\* The sender's steps keep the types.
LEMMA SenderTypes == PubTypes /\ Sender => PubTypes'
<1> SUFFICES ASSUME PubTypes, Sender PROVE PubTypes'
    OBVIOUS
<1> USE TypesAre
<1>1. CASE BeginSend
      BY <1>1 DEF BeginSend, PubTypes, frameVars
<1>2. CASE SwapQueue
  <2> DEFINE t == Types[step]
  <2>1. /\ t \in Type /\ reading' = [reading EXCEPT ![t] = queue[t]]
        /\ queue' = [queue EXCEPT ![t] = <<>>]
        BY <1>2 DEF SwapQueue, Swapped
  <2>2. reading' \in [Type -> Seq(Msg)] /\ queue' \in [Type -> Seq(Msg)]
        BY <2>1 DEF PubTypes
  <2> QED BY <1>2, <2>2 DEF SwapQueue, PubTypes, frameVars, history
<1>3. CASE SwapFrames
      BY <1>3 DEF SwapFrames, Flipped, PubTypes, history
<1>4. CASE SendQueue
  <2> DEFINE t == Types[step - N - 1]
  <2>1. step - N - 1 \in 1 .. N
        BY <1>4 DEF SendQueue
  <2>2. /\ t \in Type /\ sent' = sent \o reading[t] /\ reading' = [reading EXCEPT ![t] = <<>>]
        BY <1>4, <2>1 DEF SendQueue
  <2>3. reading' \in [Type -> Seq(Msg)] /\ sent' \in Seq(Msg)
        BY <2>2, RangeConcat DEF PubTypes
  <2> QED BY <1>4, <2>3 DEF SendQueue, PubTypes, frameVars
<1>5. CASE SendFrame
  <2> DEFINE b == 3 - writing
  <2>1. b \in {1, 2} /\ list[b] \in Seq(Framed) /\ list[b] # <<>>
        BY <1>5 DEF SendFrame, PubTypes
  <2>2. Head(list[b]) \in Framed /\ Tail(list[b]) \in Seq(Framed)
        BY <2>1, RangeTail
  <2>4. Head(list[b]) \in Msg
        BY <2>2, FramedIsMsg
  <2>3. sent' \in Seq(Msg) /\ list' \in [{1, 2} -> Seq(Framed)]
        BY <1>5, <2>1, <2>2, <2>4 DEF SendFrame, PubTypes
  <2> QED BY <1>5, <2>3 DEF SendFrame, PubTypes
<1>6. CASE EndSend
      BY <1>6 DEF EndSend, PubTypes, frameVars, history
<1> QED BY <1>1, <1>2, <1>3, <1>4, <1>5, <1>6 DEF Sender

\* Every step of the publishing server keeps its types.
LEMMA NextTypes == PubTypes /\ [PubNext]_vars => PubTypes'
<1> SUFFICES ASSUME PubTypes, [PubNext]_vars PROVE PubTypes'
    OBVIOUS
<1>1. ASSUME NEW f \in Frame, FramePush(f) PROVE PubTypes'
      BY <1>1 DEF FramePush, PubTypes, history
<1>2. ASSUME NEW f \in Frame, Watch(f) PROVE PubTypes'
      BY <1>2 DEF Watch, PubTypes, history
<1>3. ASSUME NEW f \in Frame, Clear(f) PROVE PubTypes'
  <2>1. list' \in [{1, 2} -> Seq(Framed)]
        BY <1>3 DEF Clear, ClearedList, PubTypes
  <2> QED BY <1>3, <2>1 DEF Clear, PubTypes
<1>4. ASSUME NEW f \in Frame, Fill(f) PROVE PubTypes'
  <2>1. Append(list[target[f]], Message(f)) \in Seq(Framed)
        BY Messaged, RangeAppend DEF PubTypes
  <2>2. list' \in [{1, 2} -> Seq(Framed)]
        BY <1>4, <2>1 DEF Fill, PubTypes
  <2> QED BY <1>4, <2>2 DEF Fill, PubTypes, history
<1>5. CASE UNCHANGED vars
      BY <1>5 DEF vars, PubTypes
<1> QED BY <1>1, <1>2, <1>3, <1>4, <1>5, PublishTypes, SenderTypes DEF PubNext

\* The lists and the mutex, from step to step.
LEMMA NextLists == PubTypes /\ ListsOK /\ [PubNext]_vars => ListsOK'
<1> SUFFICES ASSUME PubTypes, ListsOK, [PubNext]_vars PROVE ListsOK'
    OBVIOUS
<1> USE TypesAre
<1>0. \A b \in {1, 2} : \A x \in Range(list[b]) : x \in Framed /\ x.n \in Nat /\ x.n <= published
  <2>1. \A b \in {1, 2} : list[b] \in Seq(Framed)
        BY DEF PubTypes
  <2>2. ASSUME NEW b \in {1, 2}, NEW x \in Range(list[b]) PROVE x \in Framed
        BY <2>1, <2>2 DEF Range
  <2> QED BY <2>2 DEF ListsOK, Framed
<1>1. ASSUME NEW t \in Type, PublishFor(t) PROVE ListsOK'
  <2>1. \A b \in {1, 2} : \A x \in Range(list[b]) : x.n <= published + 1
        BY <1>0 DEF PubTypes
  <2> QED BY <1>1, <2>1 DEF PublishFor, ListsOK, frameVars
<1>2. ASSUME NEW f \in Frame, FramePush(f) \/ Watch(f) PROVE ListsOK'
      BY <1>2 DEF FramePush, Watch, ListsOK, PubTypes
<1>3. ASSUME NEW f \in Frame, Clear(f) PROVE ListsOK'
  <2>1. /\ list' = [list EXCEPT ![writing] = <<>>] /\ push' = [push EXCEPT ![f] = "cleared"]
        /\ target' = [target EXCEPT ![f] = writing] /\ mutex = Nobody /\ mutex' = f
        /\ writing' = writing /\ published' = published
        BY <1>3 DEF Clear, ClearedList
  <2>2. \A g \in Frame : push[g] # "cleared"
        BY <2>1 DEF ListsOK
  <2>3. \A g \in Frame : push'[g] = "cleared" => mutex' = g /\ target'[g] = writing'
        BY <2>1, <2>2 DEF PubTypes
  <2>4. Range(<<>>) = {}
        BY DEF Range
  <2>5. \A b \in {1, 2} : \A x \in Range(list'[b]) : x.n <= published'
        BY <2>1, <2>4 DEF ListsOK, PubTypes
  <2> QED BY <2>3, <2>5 DEF ListsOK
<1>4. ASSUME NEW f \in Frame, Fill(f) PROVE ListsOK'
  <2> DEFINE b == target[f]
  <2>1. /\ list' = [list EXCEPT ![b] = Append(list[b], Message(f))]
        /\ push' = [push EXCEPT ![f] = "out"] /\ published' = published + 1
        /\ target' = target /\ writing' = writing /\ push[f] = "cleared"
        BY <1>4 DEF Fill
  <2>2. b \in {1, 2} /\ mutex = f /\ b = writing
        BY <2>1 DEF ListsOK, PubTypes
  <2>3. \A g \in Frame : push'[g] # "cleared"
        BY <2>1, <2>2 DEF ListsOK, PubTypes
  <2>4. Range(Append(list[b], Message(f))) = Range(list[b]) \cup {Message(f)}
        BY <2>2, Messaged, RangeAppend DEF PubTypes
  <2>5. ASSUME NEW c \in {1, 2}, NEW x \in Range(list'[c]) PROVE x.n <= published'
    <3>1. x \in Range(list[c]) \/ x = Message(f)
          BY <2>1, <2>4, <2>5 DEF PubTypes
    <3>2. CASE x \in Range(list[c])
          BY <1>0, <2>1, <3>2 DEF PubTypes
    <3>3. CASE x = Message(f)
          BY <2>1, <3>3, Messaged DEF PubTypes
    <3> QED BY <3>1, <3>2, <3>3
  <2> QED BY <2>3, <2>5 DEF ListsOK
<1>5. ASSUME SwapFrames PROVE ListsOK'
  <2>1. \A g \in Frame : push[g] # "cleared"
        BY <1>5 DEF SwapFrames, MutexFree, ListsOK
  <2> QED BY <1>5, <2>1 DEF SwapFrames, ListsOK
<1>6. ASSUME SendFrame PROVE ListsOK'
  <2> DEFINE b == 3 - writing
  <2>1. b \in {1, 2} /\ list[b] \in Seq(Framed) /\ list[b] # <<>>
        BY <1>6 DEF SendFrame, PubTypes
  <2>2. Range(Tail(list[b])) \subseteq Range(list[b])
        BY <2>1, RangeTail
  <2>3. /\ list' = [list EXCEPT ![b] = Tail(list[b])]
        /\ push' = push /\ mutex' = mutex /\ target' = target
        /\ writing' = writing /\ published' = published
        BY <1>6 DEF SendFrame
  <2>4. \A c \in {1, 2} : Range(list'[c]) \subseteq Range(list[c])
        BY <2>1, <2>2, <2>3 DEF PubTypes
  <2> QED BY <2>3, <2>4 DEF ListsOK
<1>7. ASSUME BeginSend \/ SwapQueue \/ SendQueue \/ EndSend PROVE ListsOK'
      BY <1>7 DEF BeginSend, SwapQueue, SendQueue, EndSend, ListsOK, frameVars
<1>8. CASE UNCHANGED vars
      BY <1>8 DEF vars, ListsOK
<1> QED BY <1>1, <1>2, <1>3, <1>4, <1>5, <1>6, <1>7, <1>8 DEF PubNext, Sender

-----------------------------------------------------------------------------
(* What was waiting when sendToClient began *)

\* A frame of the set is newer.
Newer(S, m) == \E x \in S : x.name \in Frame /\ x.n > m.n
\* The message is in the set, or a newer frame is if it is one.
Kept(S, m) == m \in S \/ (m.name \in Frame /\ Newer(S, m))

\* It is sent, or waits in a queue or a list the sender will still come to; a pusher
\* that has emptied the list will put a newer frame into it.
OnItsWay(m) ==
    \/ Kept(Range(sent), m)
    \/ \E k \in 1 .. N : step \in 1 .. k /\ m \in Range(queue[Types[k]])
    \/ \E k \in 1 .. N : step \in k + 1 .. N + 1 + k /\ m \in Range(reading[Types[k]])
    \/ /\ step \in 1 .. N + 1 /\ m.name \in Frame /\ m.n <= published
       /\ Kept(Range(list[writing]), m) \/ \E f \in Frame : push[f] = "cleared"
    \/ /\ step \in N + 2 .. 2 * N + 2 /\ m.name \in Frame
       /\ Kept(Range(list[3 - writing]), m)
DueOK == due \subseteq Msg /\ \A m \in due : OnItsWay(m)

\* What waits in a queue or a list is a message.
LEMMA RangesAre ==
    ASSUME PubTypes
    PROVE  /\ \A t \in Type : Range(queue[t]) \subseteq Msg /\ Range(reading[t]) \subseteq Msg
           /\ \A b \in {1, 2} : Range(list[b]) \subseteq Framed
<1>1. ASSUME NEW S, NEW s \in Seq(S) PROVE Range(s) \subseteq S
      BY DEF Range
<1>2. /\ \A t \in Type : queue[t] \in Seq(Msg) /\ reading[t] \in Seq(Msg)
      /\ \A b \in {1, 2} : list[b] \in Seq(Framed)
      BY DEF PubTypes
<1> QED BY <1>1, <1>2

\* A larger set keeps as much.
LEMMA KeptIn ==
    ASSUME NEW S, NEW T, S \subseteq T, NEW m, Kept(S, m)
    PROVE  Kept(T, m)
BY DEF Kept, Newer

\* A set with a frame that is newer than all messages keeps them.
LEMMA KeptByNewest ==
    ASSUME PubTypes, NEW f \in Frame, NEW T, Message(f) \in T,
           NEW m \in Msg, m.name \in Frame, m.n <= published
    PROVE  Kept(T, m)
<1>1. Message(f).name \in Frame /\ Message(f).n = published + 1
      BY DEF Message
<1>2. m.n \in Nat /\ published \in Nat
      BY DEF PubTypes, Msg
<1>3. Message(f).n > m.n
      BY <1>1, <1>2
<1> QED BY <1>1, <1>3 DEF Kept, Newer

\* The calls of the program's threads leave it on its way.
LEMMA ThreadsDue ==
    ASSUME PubTypes, ListsOK, DueOK, NEW t \in Type, NEW f,
           \/ PublishFor(t)
           \/ f \in Frame /\ (FramePush(f) \/ Watch(f) \/ Clear(f) \/ Fill(f))
    PROVE  DueOK'
<1>1. step' = step /\ due' = due /\ sent' = sent /\ reading' = reading /\ writing' = writing
      BY DEF PublishFor, FramePush, Watch, Clear, Fill, history, frameVars
<1>2. \A u \in Type : Range(queue[u]) \subseteq Range(queue'[u])
      BY PublishTypes DEF FramePush, Watch, Clear, Fill
<1>3. published \in Nat /\ published' \in Nat /\ published <= published'
      BY DEF PublishFor, FramePush, Watch, Clear, Fill, PubTypes
<1>4. ASSUME NEW m \in due, m.name \in Frame, m.n <= published, step \in 1 .. N + 1,
             Kept(Range(list[writing]), m) \/ \E g \in Frame : push[g] = "cleared"
      PROVE  Kept(Range(list'[writing]), m) \/ \E g \in Frame : push'[g] = "cleared"
  <2>1. CASE PublishFor(t) \/ (f \in Frame /\ Watch(f))
        BY <1>4, <2>1 DEF PublishFor, Watch, frameVars
  <2>2. CASE f \in Frame /\ FramePush(f)
        BY <1>4, <2>2 DEF FramePush, PubTypes
  <2>3. CASE f \in Frame /\ Clear(f)
    <3>1. push'[f] = "cleared"
          BY <2>3 DEF Clear, PubTypes
    <3> QED BY <2>3, <3>1
  <2>4. CASE f \in Frame /\ Fill(f)
    <3> DEFINE b == writing
    <3>1. target[f] = b /\ b \in {1, 2} /\ list' = [list EXCEPT ![b] = Append(list[b], Message(f))]
          BY <2>4 DEF Fill, ListsOK, PubTypes
    <3>2. Message(f) \in Range(list'[b])
          BY <2>4, <3>1, Messaged, RangeAppend DEF PubTypes
    <3>3. m \in Msg
          BY <1>4 DEF DueOK
    <3> QED BY <1>4, <2>4, <3>2, <3>3, KeptByNewest
  <2> QED BY <2>1, <2>2, <2>3, <2>4
<1>5. ASSUME NEW m \in due, Kept(Range(list[3 - writing]), m)
      PROVE  Kept(Range(list'[3 - writing]), m)
  <2>1. writing \in {1, 2} /\ 3 - writing \in {1, 2} /\ 3 - writing # writing
        BY DEF PubTypes
  <2>2. list'[3 - writing] = list[3 - writing]
    <3>1. CASE PublishFor(t) \/ (f \in Frame /\ (Watch(f) \/ FramePush(f)))
          BY <3>1 DEF PublishFor, Watch, FramePush, frameVars
    <3>2. CASE f \in Frame /\ Clear(f)
          BY <2>1, <3>2 DEF Clear, PubTypes
    <3>3. CASE f \in Frame /\ Fill(f)
          BY <2>1, <3>3 DEF Fill, ListsOK, PubTypes
    <3> QED BY <3>1, <3>2, <3>3
  <2> QED BY <1>5, <2>2
<1>6. ASSUME NEW m \in due PROVE OnItsWay(m)'
  <2>1. OnItsWay(m) /\ m \in Msg
        BY DEF DueOK
  <2>2. \A k \in 1 .. N : Types[k] \in Type
        BY TypesAre
  <2>3. m.n \in Nat
        BY <2>1 DEF Msg
  <2>4. m.n <= published => m.n <= published'
        BY <1>3, <2>3
  <2>5. CASE Kept(Range(sent), m)
        BY <2>5, <1>1 DEF OnItsWay, Kept, Newer
  <2>6. CASE \E k \in 1 .. N : step \in 1 .. k /\ m \in Range(queue[Types[k]])
    <3>1. PICK k \in 1 .. N : step \in 1 .. k /\ m \in Range(queue[Types[k]])
          BY <2>6
    <3>2. step' \in 1 .. k /\ m \in Range(queue[Types[k]])'
          BY <3>1, <1>1, <1>2, <2>2
    <3> QED BY <3>2 DEF OnItsWay
  <2>7. CASE \E k \in 1 .. N : step \in k + 1 .. N + 1 + k /\ m \in Range(reading[Types[k]])
        BY <2>7, <1>1 DEF OnItsWay
  <2>8. CASE /\ step \in 1 .. N + 1 /\ m.name \in Frame /\ m.n <= published
             /\ Kept(Range(list[writing]), m) \/ \E g \in Frame : push[g] = "cleared"
    <3>1. Kept(Range(list[writing]), m)' \/ \E g \in Frame : push'[g] = "cleared"
          BY <2>8, <1>1, <1>4 DEF Kept, Newer
    <3> QED BY <2>8, <3>1, <1>1, <2>4 DEF OnItsWay
  <2>9. CASE /\ step \in N + 2 .. 2 * N + 2 /\ m.name \in Frame
             /\ Kept(Range(list[3 - writing]), m)
    <3>1. Kept(Range(list[3 - writing]), m)'
          BY <2>9, <1>1, <1>5 DEF Kept, Newer
    <3> QED BY <2>9, <3>1, <1>1 DEF OnItsWay
  <2> QED BY <2>1, <2>5, <2>6, <2>7, <2>8, <2>9 DEF OnItsWay
<1> QED BY <1>1, <1>6 DEF DueOK

\* sendToClient begins with what waits.
LEMMA BeginDue ==
    ASSUME PubTypes, ListsOK, BeginSend
    PROVE  DueOK'
<1>1. /\ step' = 1 /\ queue' = queue /\ list' = list /\ writing' = writing
      /\ published' = published
      /\ due' = (UNION {Range(queue[t]) : t \in Type}) \cup Range(list[writing])
      BY DEF BeginSend, frameVars
<1>2. writing \in {1, 2} /\ Range(list[writing]) \subseteq Framed
      BY RangesAre DEF PubTypes
<1>5. ASSUME NEW m \in due' PROVE m \in Range(list[writing]) \/ \E t \in Type : m \in Range(queue[t])
  <2> DEFINE U == UNION {Range(queue[t]) : t \in Type}
  <2>1. due' = U \cup Range(list[writing])
        BY <1>1
  <2>2. ASSUME m \in U PROVE \E t \in Type : m \in Range(queue[t])
    <3>1. PICK r \in {Range(queue[t]) : t \in Type} : m \in r
          BY <2>2
    <3> QED BY <3>1
  <2> HIDE DEF U
  <2> QED BY <1>5, <2>1, <2>2
<1>3. due' \subseteq Msg
  <2>1. \A t \in Type : Range(queue[t]) \subseteq Msg
        BY RangesAre
  <2> QED BY <1>2, <1>5, <2>1, FramedIsMsg
<1>4. ASSUME NEW m \in due' PROVE OnItsWay(m)'
  <2>1. CASE \E t \in Type : m \in Range(queue[t])
    <3>1. PICK t \in Type : m \in Range(queue[t])
          BY <2>1
    <3>2. PICK k \in 1 .. N : t = Types[k]
          BY TypesAre
    <3>3. step' \in 1 .. k /\ m \in Range(queue[Types[k]])'
          BY <1>1, <3>1, <3>2, TypesAre
    <3> QED BY <3>3 DEF OnItsWay
  <2>2. CASE m \in Range(list[writing])
    <3>1. m.name \in Frame
          BY <1>2, <2>2 DEF Framed
    <3>2. m.n <= published
          BY <1>2, <2>2 DEF ListsOK
    <3>3. step' \in 1 .. N + 1 /\ Kept(Range(list[writing]), m)'
          BY <1>1, <2>2, TypesAre DEF Kept
    <3> QED BY <1>1, <3>1, <3>2, <3>3 DEF OnItsWay
  <2> QED BY <1>5, <2>1, <2>2
<1> QED BY <1>3, <1>4 DEF DueOK

\* A queue is swapped after the other: what it held is in the buffer that is read.
LEMMA SwapQueueDue ==
    ASSUME PubTypes, DueOK, SwapQueue
    PROVE  DueOK'
<1>1. /\ step \in 1 .. N /\ step' = step + 1
      /\ reading' = [reading EXCEPT ![Types[step]] = queue[Types[step]]]
      /\ queue' = [queue EXCEPT ![Types[step]] = <<>>]
      /\ list' = list /\ writing' = writing /\ push' = push /\ published' = published
      /\ due' = due /\ sent' = sent
      BY DEF SwapQueue, Swapped, frameVars, history
<1>2. /\ N \in Nat /\ \A k \in 1 .. N : Types[k] \in Type
      /\ \A k \in 1 .. N : k # step => Types[k] # Types[step]
      BY <1>1, TypesAre
<1>3. /\ reading'[Types[step]] = queue[Types[step]]
      /\ \A k \in 1 .. N : k # step => /\ reading'[Types[k]] = reading[Types[k]]
                                       /\ queue'[Types[k]] = queue[Types[k]]
      BY <1>1, <1>2 DEF PubTypes
<1>4. ASSUME NEW m \in due PROVE OnItsWay(m)'
  <2>1. OnItsWay(m)
        BY DEF DueOK
  <2>2. CASE Kept(Range(sent), m)
        BY <2>2, <1>1 DEF OnItsWay, Kept, Newer
  <2>3. CASE \E k \in 1 .. N : step \in 1 .. k /\ m \in Range(queue[Types[k]])
    <3>1. PICK k \in 1 .. N : step \in 1 .. k /\ m \in Range(queue[Types[k]])
          BY <2>3
    <3>2. CASE k = step
      <4>1. step' \in k + 1 .. N + 1 + k
            BY <1>1, <1>2, <3>2
      <4> QED BY <1>3, <3>1, <3>2, <4>1 DEF OnItsWay
    <3>3. CASE k # step
      <4>1. step' \in 1 .. k
            BY <1>1, <1>2, <3>1, <3>3
      <4> QED BY <1>3, <3>1, <3>3, <4>1 DEF OnItsWay
    <3> QED BY <3>2, <3>3
  <2>4. CASE \E k \in 1 .. N : step \in k + 1 .. N + 1 + k /\ m \in Range(reading[Types[k]])
    <3>1. PICK k \in 1 .. N : step \in k + 1 .. N + 1 + k /\ m \in Range(reading[Types[k]])
          BY <2>4
    <3>2. k # step /\ step' \in k + 1 .. N + 1 + k
          BY <1>1, <1>2, <3>1
    <3> QED BY <1>3, <3>1, <3>2 DEF OnItsWay
  <2>5. CASE /\ step \in 1 .. N + 1 /\ m.name \in Frame /\ m.n <= published
             /\ Kept(Range(list[writing]), m) \/ \E f \in Frame : push[f] = "cleared"
    <3>1. step' \in 1 .. N + 1
          BY <1>1, <1>2
    <3>2. Kept(Range(list[writing]), m)' \/ \E f \in Frame : push'[f] = "cleared"
          BY <1>1, <2>5 DEF Kept, Newer
    <3> QED BY <1>1, <2>5, <3>1, <3>2 DEF OnItsWay
  <2>6. ~(step \in N + 2 .. 2 * N + 2)
        BY <1>1, <1>2
  <2> QED BY <2>1, <2>2, <2>3, <2>4, <2>5, <2>6 DEF OnItsWay
<1> QED BY <1>1, <1>4 DEF DueOK

\* The lists are swapped when no pusher is between emptying one and filling it.
LEMMA SwapFramesDue ==
    ASSUME PubTypes, ListsOK, DueOK, SwapFrames
    PROVE  DueOK'
<1>1. /\ step = N + 1 /\ step' = step + 1 /\ mutex = Nobody /\ writing' = 3 - writing
      /\ queue' = queue /\ reading' = reading /\ list' = list /\ due' = due /\ sent' = sent
      BY DEF SwapFrames, MutexFree, Flipped, history
<1>2. N \in Nat /\ writing \in {1, 2} /\ 3 - writing' = writing
      BY <1>1, TypesAre DEF PubTypes
<1>3. \A f \in Frame : push[f] # "cleared"
      BY <1>1, TypesAre DEF ListsOK
<1>4. ASSUME NEW m \in due PROVE OnItsWay(m)'
  <2>1. OnItsWay(m)
        BY DEF DueOK
  <2>2. CASE Kept(Range(sent), m)
        BY <2>2, <1>1 DEF OnItsWay, Kept, Newer
  <2>3. ~ \E k \in 1 .. N : step \in 1 .. k
        BY <1>1, <1>2
  <2>4. CASE \E k \in 1 .. N : step \in k + 1 .. N + 1 + k /\ m \in Range(reading[Types[k]])
    <3>1. PICK k \in 1 .. N : step \in k + 1 .. N + 1 + k /\ m \in Range(reading[Types[k]])
          BY <2>4
    <3>2. step' \in k + 1 .. N + 1 + k
          BY <1>1, <1>2
    <3> QED BY <1>1, <3>1, <3>2 DEF OnItsWay
  <2>5. CASE m.name \in Frame /\ Kept(Range(list[writing]), m)
    <3>1. step' \in N + 2 .. 2 * N + 2
          BY <1>1, <1>2
    <3>2. Kept(Range(list[3 - writing]), m)'
          BY <1>1, <1>2, <2>5 DEF Kept, Newer
    <3> QED BY <2>5, <3>1, <3>2 DEF OnItsWay
  <2>6. ~(step \in N + 2 .. 2 * N + 2)
        BY <1>1, <1>2
  <2> QED BY <1>3, <2>1, <2>2, <2>3, <2>4, <2>5, <2>6 DEF OnItsWay
<1> QED BY <1>1, <1>4 DEF DueOK

\* The buffer of a queue is sent.
LEMMA SendQueueDue ==
    ASSUME PubTypes, DueOK, SendQueue
    PROVE  DueOK'
<1> DEFINE j == step - N - 1
<1>1. /\ step \in N + 2 .. 2 * N + 1 /\ step' = step + 1
      /\ sent' = sent \o reading[Types[j]]
      /\ reading' = [reading EXCEPT ![Types[j]] = <<>>]
      /\ list' = list /\ writing' = writing /\ due' = due
      BY DEF SendQueue, frameVars
<1>2. N \in Nat /\ j \in 1 .. N /\ step = N + 1 + j
      BY <1>1, TypesAre
<1> HIDE DEF j
<1>3. /\ \A k \in 1 .. N : Types[k] \in Type
      /\ \A k \in 1 .. N : k # j => reading'[Types[k]] = reading[Types[k]]
      BY <1>1, <1>2, TypesAre DEF PubTypes
<1>4. /\ Range(sent) \subseteq Range(sent')
      /\ Range(reading[Types[j]]) \subseteq Range(sent')
      BY <1>1, <1>2, <1>3, RangeConcat DEF PubTypes
<1>5. ASSUME NEW m \in due PROVE OnItsWay(m)'
  <2>1. OnItsWay(m)
        BY DEF DueOK
  <2>2. CASE Kept(Range(sent), m)
        BY <2>2, <1>4, KeptIn DEF OnItsWay
  <2>3. ~ \E k \in 1 .. N : step \in 1 .. k
        BY <1>1, <1>2
  <2>4. CASE \E k \in 1 .. N : step \in k + 1 .. N + 1 + k /\ m \in Range(reading[Types[k]])
    <3>1. PICK k \in 1 .. N : step \in k + 1 .. N + 1 + k /\ m \in Range(reading[Types[k]])
          BY <2>4
    <3>2. CASE k = j
          BY <1>4, <3>1, <3>2 DEF OnItsWay, Kept
    <3>3. CASE k # j
      <4>1. step' \in k + 1 .. N + 1 + k
            BY <1>1, <1>2, <3>1, <3>3
      <4> QED BY <1>3, <3>1, <3>3, <4>1 DEF OnItsWay
    <3> QED BY <3>2, <3>3
  <2>5. ~(step \in 1 .. N + 1)
        BY <1>1, <1>2
  <2>6. CASE m.name \in Frame /\ Kept(Range(list[3 - writing]), m)
    <3>1. step' \in N + 2 .. 2 * N + 2
          BY <1>1, <1>2
    <3>2. Kept(Range(list[3 - writing]), m)'
          BY <1>1, <2>6 DEF Kept, Newer
    <3> QED BY <2>6, <3>1, <3>2 DEF OnItsWay
  <2> QED BY <2>1, <2>2, <2>3, <2>4, <2>5, <2>6 DEF OnItsWay
<1> QED BY <1>1, <1>5 DEF DueOK

\* A frame of the list is sent.
LEMMA SendFrameDue ==
    ASSUME PubTypes, DueOK, SendFrame
    PROVE  DueOK'
<1> DEFINE b == 3 - writing
<1>1. /\ step = 2 * N + 2 /\ step' = step /\ list[b] # <<>>
      /\ sent' = Append(sent, Head(list[b]))
      /\ list' = [list EXCEPT ![b] = Tail(list[b])]
      /\ writing' = writing /\ due' = due
      BY DEF SendFrame
<1>2. N \in Nat /\ b \in {1, 2} /\ list[b] \in Seq(Framed)
      BY TypesAre DEF PubTypes
<1>3. /\ Head(list[b]) \in Framed
      /\ Range(list[b]) = {Head(list[b])} \cup Range(Tail(list[b]))
      BY <1>1, <1>2, RangeTail
<1>4. Range(sent') = Range(sent) \cup {Head(list[b])}
  <2>1. Head(list[b]) \in Msg /\ sent \in Seq(Msg)
        BY <1>3, FramedIsMsg DEF PubTypes
  <2> QED BY <1>1, <2>1, RangeAppend
<1>5. Range(list'[b]) = Range(Tail(list[b]))
      BY <1>1, <1>2 DEF PubTypes
<1>6. ASSUME NEW m \in due PROVE OnItsWay(m)'
  <2>1. OnItsWay(m)
        BY DEF DueOK
  <2>2. CASE Kept(Range(sent), m)
        BY <2>2, <1>4, KeptIn DEF OnItsWay
  <2>3. ~ \E k \in 1 .. N : step \in 1 .. k \/ step \in k + 1 .. N + 1 + k
        BY <1>1, <1>2
  <2>4. ~(step \in 1 .. N + 1)
        BY <1>1, <1>2
  <2>5. CASE m.name \in Frame /\ Kept(Range(list[b]), m)
    <3>1. Kept(Range(sent'), m) \/ Kept(Range(list'[b]), m)
          BY <1>3, <1>4, <1>5, <2>5 DEF Kept, Newer
    <3>2. step' \in N + 2 .. 2 * N + 2
          BY <1>1, <1>2
    <3> QED BY <1>1, <2>5, <3>1, <3>2 DEF OnItsWay, Kept, Newer
  <2> QED BY <2>1, <2>2, <2>3, <2>4, <2>5 DEF OnItsWay
<1> QED BY <1>1, <1>6 DEF DueOK

\* When it ends nothing waits that did when it began.
LEMMA EndDue ==
    ASSUME PubTypes, DueOK, EndSend
    PROVE  DueOK'
<1>1. /\ step = 2 * N + 2 /\ list[3 - writing] = <<>> /\ due' = due /\ sent' = sent
      BY DEF EndSend, history
<1>2. N \in Nat /\ Range(<<>>) = {}
      BY TypesAre DEF Range
<1>3. ~(step \in 1 .. N + 1) /\ ~ \E k \in 1 .. N : step \in 1 .. k \/ step \in k + 1 .. N + 1 + k
      BY <1>1, <1>2
<1>4. \A m : ~Kept(Range(list[3 - writing]), m)
      BY <1>1, <1>2 DEF Kept, Newer
<1>5. \A m \in due : Kept(Range(sent), m)
      BY <1>3, <1>4 DEF DueOK, OnItsWay
<1> QED BY <1>1, <1>5 DEF DueOK, OnItsWay, Kept, Newer

\* Every step of the publishing server leaves it on its way.
LEMMA NextDue == PubTypes /\ ListsOK /\ DueOK /\ [PubNext]_vars => DueOK'
<1> SUFFICES ASSUME PubTypes, ListsOK, DueOK, [PubNext]_vars PROVE DueOK'
    OBVIOUS
<1>1. CASE \E t \in Type : PublishFor(t)
      BY <1>1, ThreadsDue
<1>2. ASSUME NEW f \in Frame, FramePush(f) \/ Watch(f) \/ Clear(f) \/ Fill(f) PROVE DueOK'
      BY <1>2, ThreadsDue, TypesAre
<1>3. CASE Sender
      BY <1>3, BeginDue, SwapQueueDue, SwapFramesDue, SendQueueDue, SendFrameDue, EndDue DEF Sender
<1>4. CASE UNCHANGED vars
      BY <1>4 DEF vars, DueOK, OnItsWay, Kept, Newer
<1> QED BY <1>1, <1>2, <1>3, <1>4 DEF PubNext

-----------------------------------------------------------------------------
(* What the publishing server guarantees *)

PubIInv == PubTypes /\ ListsOK /\ DueOK

\* It holds at the beginning ...
LEMMA PubInit == ASSUME NEW n \in Nat, InitAfter(n) PROVE PubIInv
<1>1. due = {}
      BY DEF InitAfter
<1> QED BY <1>1, InitPub DEF PubIInv, DueOK

\* ... and after every step ...
LEMMA PubStep == PubIInv /\ [StreamsNext]_streamsVars => PubIInv'
BY PubSteps, NextTypes, NextLists, NextDue DEF PubIInv

\* ... and says what it is for.
LEMMA PubSafe == PubIInv => ListsApart /\ SentInOnePeriod
<1> SUFFICES ASSUME PubIInv PROVE ListsApart /\ SentInOnePeriod
    OBVIOUS
<1>1. ListsApart
      BY DEF PubIInv, ListsOK, ListsApart
<1>2. ASSUME step = 0, NEW m \in due PROVE Kept(Range(sent), m)
  <2>1. /\ ~(step \in 1 .. N + 1) /\ ~(step \in N + 2 .. 2 * N + 2)
        /\ ~ \E k \in 1 .. N : step \in 1 .. k \/ step \in k + 1 .. N + 1 + k
        BY <1>2, TypesAre
  <2> QED BY <1>2, <2>1 DEF PubIInv, DueOK, OnItsWay
<1>3. SentInOnePeriod
      BY <1>2 DEF SentInOnePeriod, Kept, Newer
<1> QED BY <1>1, <1>3

\* The sender walks and empties its list of frames without the mutex of the other one,
\* while no thread of the program is filling that list (sendToClient, publishFrame).
THEOREM Apart == StreamsSpec => []ListsApart
<1>1. Init => PubIInv
      BY PubInit DEF Init
<1> QED BY <1>1, PubStep, PubSafe, PTL DEF StreamsSpec

\* What was waiting when sendToClient began was sent when it ends, a frame unless a newer
\* one took its place, however the calls of the program's threads fall between the swaps.
THEOREM OnePeriod == StreamsSpec => []SentInOnePeriod
<1>1. Init => PubIInv
      BY PubInit DEF Init
<1> QED BY <1>1, PubStep, PubSafe, PTL DEF StreamsSpec

-----------------------------------------------------------------------------
(* Frames, from the call that pushes one to the client *)

\* Whoever has the mutex of the frames has emptied the list it writes to, and will fill it.
HolderFills ==
    /\ mutex # Nobody => \E f \in Frame : mutex = f /\ push[f] = "cleared"
    /\ \A f \in Frame : push[f] = "cleared" => list[target[f]] = <<>>

\* No queue grows over its capacity, and no list over one frame.
Bounded ==
    /\ \A t \in Type : Len(queue[t]) <= Capacity
    /\ \A b \in {1, 2} : Len(list[b]) <= 1

\* The sender can go on, or waits for a call that only has its frame to append.
SenderGoesOn ==
    /\ step \in 0 .. 2 * N + 2
    /\ step = N + 1 => MutexFree \/ \E f \in Frame : push[f] = "cleared"

\* The n-th message, a frame, or a newer frame was sent, waits in a list, or will be put
\* into the list that a call has emptied.
Flowing(n) ==
    \/ \E m \in Range(sent) : m.name \in Frame /\ m.n >= n
    \/ \E b \in {1, 2} : \E m \in Range(list[b]) : m.n >= n
    \/ n <= published /\ \E f \in Frame : push[f] = "cleared"

\* A frame that was put into a list is never lost, but for a newer one ...
FramesFlow == \A n \in Nat : Flowing(n) => Flowing(n)'

\* ... and the sender, whatever the others do, sends what it has, step after step.
SenderAdvances ==
    \/ /\ step' = step /\ writing' = writing
       /\ \/ list'[3 - writing] = list[3 - writing]
          \/ Len(list'[3 - writing]) < Len(list[3 - writing])
    \/ step' = IF step = 2 * N + 2 THEN 0 ELSE step + 1

\* The beginning.
LEMMA InitFrames == ASSUME NEW n \in Nat, InitAfter(n) PROVE HolderFills /\ Bounded
<1>1. \A b \in {1, 2} : list[b] = <<>>
      BY DEF InitAfter
<1>2. \A t \in Type : queue[t] = <<>>
      BY DEF InitAfter
<1>3. Capacity \in Nat /\ Len(<<>>) = 0
      BY ServerPubAssumption
<1>4. HolderFills
      BY DEF InitAfter, HolderFills
<1> QED BY <1>1, <1>2, <1>3, <1>4 DEF Bounded

\* Every step keeps both.
LEMMA NextFrames ==
    PubTypes /\ ListsOK /\ HolderFills /\ Bounded /\ [PubNext]_vars => HolderFills' /\ Bounded'
<1> SUFFICES ASSUME PubTypes, ListsOK, HolderFills, Bounded, [PubNext]_vars
             PROVE  HolderFills' /\ Bounded'
    OBVIOUS
<1> USE TypesAre
<1>0. /\ Capacity \in Nat /\ Len(<<>>) = 0
      /\ \A t \in Type : queue[t] \in Seq(Msg)
      /\ \A b \in {1, 2} : list[b] \in Seq(Framed)
      BY ServerPubAssumption DEF PubTypes
<1>1. ASSUME NEW t \in Type, PublishFor(t) PROVE HolderFills' /\ Bounded'
  <2>1. HolderFills' /\ list' = list
        BY <1>1 DEF PublishFor, HolderFills, frameVars
  <2>2. CASE Len(queue[t]) < Capacity
    <3>1. queue' = [queue EXCEPT ![t] = Append(queue[t], Message(t))]
          BY <1>1, <2>2 DEF PublishFor
    <3>2. Len(Append(queue[t], Message(t))) <= Capacity
      <4>1. Message(t) \in Msg
            BY Messaged
      <4>2. Len(Append(queue[t], Message(t))) = Len(queue[t]) + 1 /\ Len(queue[t]) \in Nat
            BY <1>0, <4>1
      <4> QED BY <1>0, <2>2, <4>2
    <3>3. \A u \in Type : Len(queue'[u]) <= Capacity
          BY <3>1, <3>2 DEF Bounded, PubTypes
    <3> QED BY <2>1, <3>3 DEF Bounded
  <2>3. CASE ~(Len(queue[t]) < Capacity)
        BY <1>1, <2>1, <2>3 DEF PublishFor, Bounded
  <2> QED BY <2>2, <2>3
<1>2. ASSUME NEW f \in Frame, FramePush(f) \/ Watch(f) PROVE HolderFills' /\ Bounded'
  <2>1. UNCHANGED <<list, queue, mutex, target>>
        BY <1>2 DEF FramePush, Watch
  <2>2. \A g \in Frame : push'[g] = "cleared" <=> push[g] = "cleared"
        BY <1>2 DEF FramePush, Watch, PubTypes
  <2> QED BY <2>1, <2>2 DEF HolderFills, Bounded
<1>3. ASSUME NEW f \in Frame, Clear(f) PROVE HolderFills' /\ Bounded'
  <2>1. /\ list' = [list EXCEPT ![writing] = <<>>] /\ push' = [push EXCEPT ![f] = "cleared"]
        /\ target' = [target EXCEPT ![f] = writing] /\ mutex' = f /\ queue' = queue
        /\ \A g \in Frame : push[g] # "cleared"
        BY <1>3 DEF Clear, ClearedList, ListsOK
  <2>2. HolderFills'
        BY <2>1 DEF HolderFills, PubTypes
  <2>3. \A b \in {1, 2} : Len(list'[b]) <= 1
        BY <1>0, <2>1 DEF Bounded, PubTypes
  <2> QED BY <2>1, <2>2, <2>3 DEF Bounded
<1>4. ASSUME NEW f \in Frame, Fill(f) PROVE HolderFills' /\ Bounded'
  <2> DEFINE b == target[f]
  <2>1. /\ list' = [list EXCEPT ![b] = Append(list[b], Message(f))] /\ push[f] = "cleared"
        /\ push' = [push EXCEPT ![f] = "out"] /\ mutex' = Nobody /\ queue' = queue
        BY <1>4 DEF Fill
  <2>2. b \in {1, 2} /\ list[b] = <<>> /\ \A g \in Frame \ {f} : push[g] # "cleared"
        BY <2>1 DEF ListsOK, HolderFills, PubTypes
  <2>3. HolderFills'
        BY <2>1, <2>2 DEF HolderFills, PubTypes
  <2>4. Len(Append(<<>>, Message(f))) = 1
        OBVIOUS
  <2>5. \A c \in {1, 2} : Len(list'[c]) <= 1
        BY <2>1, <2>2, <2>4 DEF Bounded, PubTypes
  <2> QED BY <2>1, <2>3, <2>5 DEF Bounded
<1>5. ASSUME SwapQueue PROVE HolderFills' /\ Bounded'
  <2>1. UNCHANGED <<list, mutex, target, push>>
        BY <1>5 DEF SwapQueue, frameVars
  <2>2. \A t \in Type : queue'[t] = <<>> \/ queue'[t] = queue[t]
        BY <1>5 DEF SwapQueue, PubTypes
  <2> QED BY <1>0, <2>1, <2>2 DEF HolderFills, Bounded
<1>6. ASSUME SendFrame PROVE HolderFills' /\ Bounded'
  <2> DEFINE b == 3 - writing
  <2>1. /\ b \in {1, 2} /\ list[b] # <<>> /\ list' = [list EXCEPT ![b] = Tail(list[b])]
        /\ UNCHANGED <<queue, mutex, target, push>>
        BY <1>6 DEF SendFrame, PubTypes
  <2>2. Len(Tail(list[b])) <= 1
    <3>1. Len(Tail(list[b])) = Len(list[b]) - 1 /\ Len(list[b]) \in Nat /\ Len(list[b]) <= 1
          BY <1>0, <2>1 DEF Bounded
    <3> QED BY <3>1
  <2>3. \A f \in Frame : push[f] = "cleared" => target[f] # b
        BY <2>1 DEF ListsOK, PubTypes
  <2>4. HolderFills'
        BY <2>1, <2>3 DEF HolderFills, PubTypes
  <2>5. \A c \in {1, 2} : Len(list'[c]) <= 1
        BY <2>1, <2>2 DEF Bounded, PubTypes
  <2> QED BY <2>1, <2>4, <2>5 DEF Bounded
<1>7. ASSUME BeginSend \/ SwapFrames \/ SendQueue \/ EndSend PROVE HolderFills' /\ Bounded'
      BY <1>7 DEF BeginSend, SwapFrames, SendQueue, EndSend, HolderFills, Bounded, frameVars
<1>8. CASE UNCHANGED vars
      BY <1>8 DEF vars, HolderFills, Bounded
<1> QED BY <1>1, <1>2, <1>3, <1>4, <1>5, <1>6, <1>7, <1>8 DEF PubNext, Sender

\* A frame stays in its list, is replaced by a newer one, or is sent.
LEMMA FrameStays == PubTypes /\ ListsOK /\ [PubNext]_vars => FramesFlow
<1> SUFFICES ASSUME PubTypes, ListsOK, [PubNext]_vars, NEW n \in Nat, Flowing(n)
             PROVE  Flowing(n)'
    BY DEF FramesFlow
<1> USE TypesAre
<1> DEFINE Out(S) == \E m \in S : m.name \in Frame /\ m.n >= n
           Waits(S) == \E m \in S : m.n >= n
<1>0. /\ published \in Nat /\ writing \in {1, 2} /\ list \in [{1, 2} -> Seq(Framed)]
      /\ \A b \in {1, 2} : list[b] \in Seq(Framed)
      /\ \A b \in {1, 2} : \A m \in Range(list[b]) : m.n \in Nat /\ m.n <= published
  <2>1. /\ published \in Nat /\ writing \in {1, 2} /\ list \in [{1, 2} -> Seq(Framed)]
        /\ \A b \in {1, 2} : list[b] \in Seq(Framed)
        BY DEF PubTypes
  <2>2. ASSUME NEW b \in {1, 2}, NEW m \in Range(list[b]) PROVE m.n \in Nat /\ m.n <= published
    <3>1. m \in Framed
          BY <2>2, RangesAre
    <3> QED BY <2>2, <3>1 DEF Framed, ListsOK
  <2> QED BY <2>1, <2>2
<1>1. ASSUME NEW t \in Type, PublishFor(t) PROVE Flowing(n)'
  <2>1. UNCHANGED <<list, push, sent>> /\ published' = published + 1
        BY <1>1 DEF PublishFor, frameVars, history
  <2>2. n <= published => n <= published'
        BY <1>0, <2>1
  <2> QED BY <2>1, <2>2 DEF Flowing
<1>2. ASSUME NEW f \in Frame, FramePush(f) \/ Watch(f) PROVE Flowing(n)'
  <2>1. UNCHANGED <<list, sent, published>>
        BY <1>2 DEF FramePush, Watch, history
  <2>2. \A g \in Frame : push'[g] = "cleared" <=> push[g] = "cleared"
        BY <1>2 DEF FramePush, Watch, PubTypes
  <2> QED BY <2>1, <2>2 DEF Flowing
<1>3. ASSUME NEW f \in Frame, Clear(f) PROVE Flowing(n)'
  <2>1. /\ push' = [push EXCEPT ![f] = "cleared"] /\ sent' = sent /\ published' = published
        BY <1>3 DEF Clear
  <2>2. push'[f] = "cleared"
        BY <2>1 DEF PubTypes
  <2>3. CASE Out(Range(sent))
        BY <2>1, <2>3 DEF Flowing
  <2>4. CASE n <= published
        BY <2>1, <2>2, <2>4 DEF Flowing
  <2>5. ASSUME NEW b \in {1, 2}, NEW m \in Range(list[b]), m.n >= n PROVE n <= published
    <3>1. m.n \in Nat /\ m.n <= published
          BY <1>0, <2>5
    <3> QED BY <1>0, <2>5, <3>1
  <2> QED BY <2>3, <2>4, <2>5 DEF Flowing
<1>4. ASSUME NEW f \in Frame, Fill(f) PROVE Flowing(n)'
  <2> DEFINE b == target[f]
  <2>1. /\ list' = [list EXCEPT ![b] = Append(list[b], Message(f))] /\ b \in {1, 2}
        /\ sent' = sent /\ published' = published + 1
        BY <1>4 DEF Fill, PubTypes, history
  <2>2. Range(list'[b]) = Range(list[b]) \cup {Message(f)}
    <3>1. list[b] \in Seq(Framed) /\ Message(f) \in Framed
          BY <1>0, <2>1, Messaged
    <3>2. Range(Append(list[b], Message(f))) = Range(list[b]) \cup {Message(f)}
          BY <3>1, RangeAppend
    <3> QED BY <1>0, <2>1, <3>2
  <2>3. \A c \in {1, 2} : Range(list[c]) \subseteq Range(list'[c])
        BY <1>0, <2>1, <2>2
  <2>4. n <= published => Message(f).n >= n
        BY <1>0, Messaged
  <2>5. Message(f) \in Range(list'[b])
        BY <2>2
  <2> QED BY <2>1, <2>3, <2>4, <2>5 DEF Flowing
<1>5. ASSUME SendFrame PROVE Flowing(n)'
  <2> DEFINE b == 3 - writing
  <2>1. /\ b \in {1, 2} /\ list[b] # <<>> /\ list' = [list EXCEPT ![b] = Tail(list[b])]
        /\ sent' = Append(sent, Head(list[b])) /\ UNCHANGED <<push, published>>
        BY <1>0, <1>5 DEF SendFrame
  <2>2. /\ Range(list[b]) = {Head(list[b])} \cup Range(Tail(list[b]))
        /\ Head(list[b]) \in Framed
        BY <1>0, <2>1, RangeTail
  <2>3. Range(sent') = Range(sent) \cup {Head(list[b])}
    <3>1. Head(list[b]) \in Msg /\ sent \in Seq(Msg)
          BY <2>2, FramedIsMsg DEF PubTypes
    <3> QED BY <2>1, <3>1, RangeAppend
  <2>4. Head(list[b]).name \in Frame
        BY <2>2 DEF Framed
  <2>5. CASE Out(Range(sent)) \/ (n <= published /\ \E f \in Frame : push[f] = "cleared")
        BY <2>1, <2>3, <2>5 DEF Flowing
  <2>6. ASSUME NEW c \in {1, 2}, NEW m \in Range(list[c]), m.n >= n PROVE Flowing(n)'
    <3>1. CASE c = b /\ m = Head(list[b])
          BY <2>3, <2>4, <2>6, <3>1 DEF Flowing
    <3>2. CASE ~(c = b /\ m = Head(list[b]))
      <4>1. m \in Range(list'[c])
            BY <1>0, <2>1, <2>2, <2>6, <3>2
      <4> QED BY <2>6, <4>1 DEF Flowing
    <3> QED BY <3>1, <3>2
  <2> QED BY <2>5, <2>6 DEF Flowing
<1>6. ASSUME SendQueue PROVE Flowing(n)'
  <2>1. UNCHANGED <<list, push, published>>
        BY <1>6 DEF SendQueue, frameVars
  <2>2. Range(sent) \subseteq Range(sent')
    <3>1. step - N - 1 \in 1 .. N
          BY <1>6 DEF SendQueue
    <3>2. Types[step - N - 1] \in Type /\ sent' = sent \o reading[Types[step - N - 1]]
          BY <1>6, <3>1 DEF SendQueue
    <3>3. reading[Types[step - N - 1]] \in Seq(Msg) /\ sent \in Seq(Msg)
          BY <3>2 DEF PubTypes
    <3> QED BY <3>2, <3>3, RangeConcat
  <2> QED BY <2>1, <2>2 DEF Flowing
<1>7. ASSUME BeginSend \/ SwapQueue \/ SwapFrames \/ EndSend PROVE Flowing(n)'
      BY <1>7 DEF BeginSend, SwapQueue, SwapFrames, EndSend, Flowing, frameVars, history
<1>8. CASE UNCHANGED vars
      BY <1>8 DEF vars, Flowing
<1> QED BY <1>1, <1>2, <1>3, <1>4, <1>5, <1>6, <1>7, <1>8 DEF PubNext, Sender

\* The sender only goes on, and nobody puts a frame into the list it empties.
LEMMA SenderSteps == PubTypes /\ ListsOK /\ [PubNext]_vars => SenderAdvances
<1> SUFFICES ASSUME PubTypes, ListsOK, [PubNext]_vars PROVE SenderAdvances
    OBVIOUS
<1> USE TypesAre
<1> DEFINE b == 3 - writing
<1>0. b \in {1, 2} /\ b # writing /\ list[b] \in Seq(Framed) /\ step \in 0 .. 2 * N + 2
      BY DEF PubTypes
<1>1. ASSUME NEW t \in Type, PublishFor(t) PROVE SenderAdvances
      BY <1>1 DEF PublishFor, frameVars, SenderAdvances
<1>2. ASSUME NEW f \in Frame, FramePush(f) \/ Watch(f) PROVE SenderAdvances
      BY <1>2 DEF FramePush, Watch, SenderAdvances
<1>3. ASSUME NEW f \in Frame, Clear(f) PROVE SenderAdvances
  <2>1. step' = step /\ writing' = writing /\ list'[b] = list[b]
        BY <1>0, <1>3 DEF Clear, PubTypes
  <2> QED BY <2>1 DEF SenderAdvances
<1>4. ASSUME NEW f \in Frame, Fill(f) PROVE SenderAdvances
  <2>1. target[f] = writing
        BY <1>4 DEF Fill, ListsOK
  <2>2. step' = step /\ writing' = writing /\ list'[b] = list[b]
        BY <1>0, <1>4, <2>1 DEF Fill, PubTypes
  <2> QED BY <2>2 DEF SenderAdvances
<1>5. ASSUME SendFrame PROVE SenderAdvances
  <2>1. step' = step /\ writing' = writing /\ list[b] # <<>> /\ list'[b] = Tail(list[b])
        BY <1>0, <1>5 DEF SendFrame, PubTypes
  <2>2. Len(Tail(list[b])) = Len(list[b]) - 1 /\ Len(list[b]) \in Nat
        BY <1>0, <2>1
  <2>3. Len(Tail(list[b])) < Len(list[b])
        BY <2>2
  <2> QED BY <2>1, <2>3 DEF SenderAdvances
<1>6. ASSUME BeginSend \/ SwapQueue \/ SwapFrames \/ SendQueue PROVE SenderAdvances
  <2>1. step' = step + 1 /\ step # 2 * N + 2
        BY <1>6 DEF BeginSend, SwapQueue, SwapFrames, SendQueue
  <2> QED BY <2>1 DEF SenderAdvances
<1>7. ASSUME EndSend PROVE SenderAdvances
      BY <1>7 DEF EndSend, SenderAdvances
<1>8. CASE UNCHANGED vars
      BY <1>8 DEF vars, SenderAdvances
<1> QED BY <1>1, <1>2, <1>3, <1>4, <1>5, <1>6, <1>7, <1>8 DEF PubNext, Sender

FrameIInv == PubIInv /\ HolderFills /\ Bounded

\* It holds at the beginning and after every step.
LEMMA FrameIInvHolds ==
    (Init => FrameIInv) /\ (FrameIInv /\ [StreamsNext]_streamsVars => FrameIInv')
<1>1. Init => FrameIInv
      BY PubInit, InitFrames DEF Init, FrameIInv
<1>2. FrameIInv /\ [StreamsNext]_streamsVars => FrameIInv'
      BY PubSteps, PubStep, NextFrames DEF FrameIInv, PubIInv
<1> QED BY <1>1, <1>2

\* No queue of the publishing server holds more than its capacity, and no list of frames
\* more than the newest one, however many threads publish (publishFrame empties the list
\* and fills it under one mutex).
THEOREM Bounds == StreamsSpec => []Bounded
<1>1. FrameIInv => Bounded
      BY DEF FrameIInv
<1> QED BY <1>1, FrameIInvHolds, PTL DEF StreamsSpec

\* The safety part of frames that are sent: a frame that was put into a list is there
\* until it is sent or a newer one takes its place, while the sender only ever waits for
\* a call that fills its list, goes round through its steps and empties what it has
\* swapped.  What is left is that the sender and such a call go on.
THEOREM Flow ==
    StreamsSpec => []SenderGoesOn /\ [][FramesFlow /\ SenderAdvances]_streamsVars
<1>1. FrameIInv => SenderGoesOn
      BY DEF FrameIInv, PubIInv, PubTypes, HolderFills, SenderGoesOn, MutexFree
<1>2. FrameIInv /\ [StreamsNext]_streamsVars => FramesFlow /\ SenderAdvances
      BY PubSteps, FrameStays, SenderSteps DEF FrameIInv, PubIInv
<1> QED BY <1>1, <1>2, FrameIInvHolds, PTL DEF StreamsSpec

-----------------------------------------------------------------------------
(* The threads that write to the stream *)

Uses == [pc : {"out", "writing", "written", "publishing", "clearing"}, id : Nat, seen : Seq(Nat)]
UseTypes == text \in Seq(Nat) /\ use \in [Writer -> Uses] /\ written \in Nat

\* A text that has left the buffer for a reason, or will when it is published.
Gone(x) ==
    \/ x \in raced \/ x \in flushed
    \/ \E v \in Writer : use[v].pc = "publishing" /\ x \in Range(use[v].seen)

\* While a thread writes, what it has read of the buffer is what is in it, up to texts that
\* are gone;
SeenOK ==
    \A w \in Writer : use[w].pc = "writing" =>
        \A x : ~Gone(x) => (x \in Range(text) <=> x \in Range(use[w].seen))
\* the buffer may be emptied once a thread is about to;
BufferOK ==
    \A u \in Writer : use[u].pc \in {"publishing", "clearing"} => \A x \in Range(text) : Gone(x)
\* two uses at a time race;
RacesOK ==
    \A u, v \in Writer : u # v /\ use[v].pc = "writing" /\ use[u].pc # "out" => use[v].id \in raced
\* and every text is being written, in the buffer, or gone.
TextsOK ==
    \A x \in 1 .. written :
        x \in Range(text) \/ Gone(x) \/ \E w \in Writer : use[w].pc = "writing" /\ use[w].id = x
TextIInv == UseTypes /\ SeenOK /\ BufferOK /\ RacesOK /\ TextsOK

textVars == <<text, use, written, raced, flushed>>

\* A step of the whole is one of a thread that writes, or leaves the texts alone.
LEMMA TextSteps == [StreamsNext]_streamsVars => (\E w \in Writer : WriterStep(w)) \/ UNCHANGED textVars
<1> SUFFICES ASSUME [StreamsNext]_streamsVars, ~ \E w \in Writer : WriterStep(w)
             PROVE  UNCHANGED textVars
    OBVIOUS
<1>1. ASSUME NEW s \in Shell, CatStep(s) PROVE UNCHANGED textVars
      BY <1>1 DEF CatStep, EnableStreaming, SetCallback, UnsetCallback, ClearStream,
                  DisableStreaming, Hear, CallHandler, ShowText, streamVars, textVars
<1>2. CASE UNCHANGED streamsVars
      BY <1>2 DEF streamsVars, streamVars, textVars
<1>3. CASE UNCHANGED streamVars
      BY <1>3 DEF streamVars, textVars
<1> QED BY <1>1, <1>2, <1>3 DEF StreamsNext

\* They begin with an empty buffer.
LEMMA TextInit == ASSUME NEW n \in Nat, NEW c, StreamsInitAfter(n, c) PROVE TextIInv
<1>1. UseTypes
  <2>1. NoUse \in Uses /\ <<>> \in Seq(Nat)
        BY DEF NoUse, Uses
  <2> QED BY <2>1 DEF StreamsInitAfter, UseTypes
<1>2. \A w \in Writer : use[w].pc = "out"
      BY DEF StreamsInitAfter, NoUse
<1>3. TextsOK
      BY DEF StreamsInitAfter, TextsOK, Gone
<1> QED BY <1>1, <1>2, <1>3 DEF TextIInv, SeenOK, BufferOK, RacesOK

\* A thread begins to write, and races those that use the stream.
LEMMA BeginTexts ==
    ASSUME TextIInv, NEW w \in Writer, BeginWrite(w)
    PROVE  TextIInv'
<1> USE DEF TextIInv
<1>1. /\ use[w].pc = "out" /\ written' = written + 1 /\ text' = text /\ flushed' = flushed
      /\ use' = [use EXCEPT ![w] = [pc |-> "writing", id |-> written + 1, seen |-> text]]
      /\ raced' = raced \cup OthersWrite(w) \cup (IF OthersUse(w) THEN {written + 1} ELSE {})
      BY DEF BeginWrite, Base
<1>2. UseTypes'
  <2>1. [pc |-> "writing", id |-> written + 1, seen |-> text] \in Uses
        BY DEF UseTypes, Uses
  <2> QED BY <1>1, <2>1 DEF UseTypes
<1>3. /\ use'[w].pc = "writing" /\ use'[w].id = written + 1 /\ use'[w].seen = text
      /\ \A v \in Writer : v # w => use'[v] = use[v]
      BY <1>1 DEF UseTypes
<1>4. \A x : Gone(x) => Gone(x)'
  <2> SUFFICES ASSUME NEW x, Gone(x) PROVE Gone(x)'
      OBVIOUS
  <2>1. CASE x \in raced \/ x \in flushed
        BY <1>1, <2>1 DEF Gone
  <2>2. ASSUME NEW v \in Writer, use[v].pc = "publishing" /\ x \in Range(use[v].seen) PROVE Gone(x)'
    <3>1. use'[v] = use[v]
          BY <1>1, <1>3, <2>2
    <3> QED BY <2>2, <3>1 DEF Gone
  <2> QED BY <2>1, <2>2 DEF Gone
<1>5. SeenOK'
      BY <1>1, <1>3, <1>4 DEF SeenOK
<1>6. BufferOK'
      BY <1>1, <1>3, <1>4 DEF BufferOK
<1>7. RacesOK'
  <2> SUFFICES ASSUME NEW u \in Writer, NEW v \in Writer, u # v, use'[v].pc = "writing",
                      use'[u].pc # "out"
               PROVE  use'[v].id \in raced'
      BY DEF RacesOK
  <2>1. CASE v = w
    <3>1. OthersUse(w)
          BY <1>3, <2>1 DEF OthersUse
    <3> QED BY <1>1, <1>3, <2>1, <3>1
  <2>2. CASE v # w /\ u = w
    <3>1. use[v].id \in OthersWrite(w)
          BY <1>3, <2>2 DEF OthersWrite
    <3> QED BY <1>1, <1>3, <2>2, <3>1
  <2>3. CASE v # w /\ u # w
        BY <1>1, <1>3, <2>3 DEF RacesOK
  <2> QED BY <2>1, <2>2, <2>3
<1>8. TextsOK'
  <2> SUFFICES ASSUME NEW x \in 1 .. written'
               PROVE  \/ x \in Range(text') \/ Gone(x)'
                      \/ \E v \in Writer : use'[v].pc = "writing" /\ use'[v].id = x
      BY DEF TextsOK
  <2>1. x = written + 1 \/ x \in 1 .. written
        BY <1>1 DEF UseTypes
  <2>2. ASSUME NEW v \in Writer, use[v].pc = "writing", use[v].id = x
        PROVE  use'[v].pc = "writing" /\ use'[v].id = x
        BY <1>1, <1>3, <2>2
  <2> QED BY <1>1, <1>3, <1>4, <2>1, <2>2 DEF TextsOK
<1> QED BY <1>2, <1>5, <1>6, <1>7, <1>8

\* It ends its text behind what it has read, or behind what is there.
LEMMA EndTexts ==
    ASSUME TextIInv, NEW w \in Writer, EndWrite(w)
    PROVE  TextIInv'
<1> USE DEF TextIInv
<1> DEFINE id == use[w].id
<1>1. /\ use[w].pc = "writing" /\ raced' = raced /\ flushed' = flushed /\ written' = written
      /\ use' = [use EXCEPT ![w] = [pc |-> "written", id |-> 0, seen |-> <<>>]]
      BY DEF EndWrite
<1>2. PICK t \in {use[w].seen, text} : text' = Append(t, id)
      BY DEF EndWrite, Base
<1>3. t \in Seq(Nat) /\ id \in Nat
      BY DEF UseTypes, Uses
<1>4. text' \in Seq(Nat) /\ Range(text') = Range(t) \cup {id}
      BY <1>2, <1>3, RangeAppend
<1>5. UseTypes'
  <2>1. [pc |-> "written", id |-> 0, seen |-> <<>>] \in Uses
        BY DEF Uses
  <2> QED BY <1>1, <1>4, <2>1 DEF UseTypes
<1>6. use'[w].pc = "written" /\ \A v \in Writer : v # w => use'[v] = use[v]
      BY <1>1 DEF UseTypes
<1>7. \A x : Gone(x) <=> Gone(x)'
      BY <1>1, <1>6 DEF Gone
<1>8. \A x : ~Gone(x) => (x \in Range(t) <=> x \in Range(text))
      BY <1>1, <1>2 DEF SeenOK
<1>9. (\E v \in Writer : v # w /\ use[v].pc # "out") => Gone(id)
      BY <1>1 DEF RacesOK, Gone
<1> HIDE DEF id
<1>10. SeenOK'
  <2> SUFFICES ASSUME NEW v \in Writer, use'[v].pc = "writing", NEW x, ~Gone(x)'
               PROVE  x \in Range(text') <=> x \in Range(use'[v].seen)
      BY DEF SeenOK
  <2>1. v # w /\ use'[v] = use[v]
        BY <1>6
  <2>2. x # id
        BY <1>7, <1>9, <2>1
  <2>3. x \in Range(text) <=> x \in Range(use[v].seen)
        BY <1>7, <2>1 DEF SeenOK
  <2> QED BY <1>4, <1>7, <1>8, <2>1, <2>2, <2>3
<1>11. BufferOK'
  <2> SUFFICES ASSUME NEW u \in Writer, use'[u].pc \in {"publishing", "clearing"},
                      NEW x \in Range(text')
               PROVE  Gone(x)
      BY <1>7 DEF BufferOK
  <2>1. u # w /\ use[u].pc \in {"publishing", "clearing"}
        BY <1>6
  <2>2. Gone(id) /\ \A y \in Range(text) : Gone(y)
        BY <1>9, <2>1 DEF BufferOK
  <2> QED BY <1>4, <1>8, <2>2
<1>12. RacesOK'
  <2> SUFFICES ASSUME NEW u \in Writer, NEW v \in Writer, u # v, use'[v].pc = "writing",
                      use'[u].pc # "out"
               PROVE  use'[v].id \in raced
      BY <1>1 DEF RacesOK
  <2>1. v # w /\ use'[v] = use[v] /\ use[u].pc # "out"
        BY <1>1, <1>6
  <2> QED BY <2>1 DEF RacesOK
<1>13. TextsOK'
  <2> SUFFICES ASSUME NEW x \in 1 .. written, ~Gone(x)
               PROVE  \/ x \in Range(text')
                      \/ \E v \in Writer : use'[v].pc = "writing" /\ use'[v].id = x
      BY <1>1, <1>7 DEF TextsOK
  <2>1. CASE x \in Range(text)
        BY <1>4, <1>8, <2>1
  <2>2. ASSUME NEW v \in Writer, use[v].pc = "writing", use[v].id = x
        PROVE  x \in Range(text') \/ (use'[v].pc = "writing" /\ use'[v].id = x)
    <3>1. CASE v = w
          BY <1>4, <2>2, <3>1 DEF id
    <3>2. CASE v # w
          BY <1>6, <2>2, <3>2
    <3> QED BY <3>1, <3>2
  <2> QED BY <2>1, <2>2 DEF TextsOK
<1> QED BY <1>5, <1>10, <1>11, <1>12, <1>13

\* The text stays in the buffer.
LEMMA KeepTexts ==
    ASSUME TextIInv, NEW w \in Writer, KeepText(w)
    PROVE  TextIInv'
<1> USE DEF TextIInv
<1>1. /\ use[w].pc = "written" /\ use' = [use EXCEPT ![w] = NoUse]
      /\ text' = text /\ written' = written /\ raced' = raced /\ flushed' = flushed
      BY DEF KeepText
<1>2. UseTypes'
  <2>1. NoUse \in Uses
        BY DEF NoUse, Uses
  <2> QED BY <1>1, <2>1 DEF UseTypes
<1>3. use'[w].pc = "out" /\ \A v \in Writer : v # w => use'[v] = use[v]
      BY <1>1 DEF UseTypes, NoUse
<1>4. \A x : Gone(x) <=> Gone(x)'
      BY <1>1, <1>3 DEF Gone
<1>5. SeenOK' /\ BufferOK'
      BY <1>1, <1>3, <1>4 DEF SeenOK, BufferOK
<1>6. RacesOK'
  <2> SUFFICES ASSUME NEW u \in Writer, NEW v \in Writer, u # v, use'[v].pc = "writing",
                      use'[u].pc # "out"
               PROVE  use'[v].id \in raced
      BY <1>1 DEF RacesOK
  <2>1. v # w /\ u # w /\ use'[v] = use[v] /\ use'[u] = use[u]
        BY <1>3
  <2> QED BY <2>1 DEF RacesOK
<1>7. TextsOK'
  <2>1. \A v \in Writer : use[v].pc = "writing" => v # w /\ use'[v] = use[v]
        BY <1>1, <1>3
  <2> QED BY <1>1, <1>4, <2>1 DEF TextsOK
<1> QED BY <1>2, <1>5, <1>6, <1>7

\* What is in the buffer is read to be published, or nobody watches.
LEMMA SyncTexts ==
    ASSUME TextIInv, NEW w \in Writer, Sync(w)
    PROVE  TextIInv'
<1> USE DEF TextIInv
<1>1. /\ use[w].pc = "written" /\ text' = text /\ written' = written /\ raced' = raced
      /\ \/ /\ use' = [use EXCEPT ![w] = [pc |-> "publishing", id |-> 0, seen |-> text]]
            /\ flushed' = flushed
         \/ /\ use' = [use EXCEPT ![w].pc = "clearing"]
            /\ flushed' = flushed \cup Range(text)
      BY DEF Sync
<1>2. UseTypes'
  <2>1. [pc |-> "publishing", id |-> 0, seen |-> text] \in Uses
        BY DEF UseTypes, Uses
  <2>2. use[w] \in Uses
        BY DEF UseTypes
  <2>3. [use[w] EXCEPT !.pc = "clearing"] \in Uses
        BY <2>2 DEF Uses
  <2> QED BY <1>1, <2>1, <2>3 DEF UseTypes
<1>3. /\ use'[w].pc \in {"publishing", "clearing"}
      /\ use'[w].pc = "publishing" => use'[w].seen = text
      /\ use'[w].pc = "clearing" => flushed' = flushed \cup Range(text)
      /\ \A v \in Writer : v # w => use'[v] = use[v]
  <2>1. use[w] \in Uses
        BY DEF UseTypes
  <2>2. [use[w] EXCEPT !.pc = "clearing"].pc = "clearing"
        BY <2>1 DEF Uses
  <2>3. CASE use' = [use EXCEPT ![w] = [pc |-> "publishing", id |-> 0, seen |-> text]]
        BY <2>3 DEF UseTypes
  <2>4. CASE use' = [use EXCEPT ![w].pc = "clearing"] /\ flushed' = flushed \cup Range(text)
    <3>1. use'[w] = [use[w] EXCEPT !.pc = "clearing"] /\ \A v \in Writer : v # w => use'[v] = use[v]
          BY <2>4 DEF UseTypes
    <3>2. use'[w].pc = "clearing"
          BY <2>2, <3>1
    <3> QED BY <2>4, <3>1, <3>2
  <2> QED BY <1>1, <2>3, <2>4
<1>4. \A x \in Range(text) : Gone(x)'
      BY <1>3 DEF Gone
<1>5. \A x : Gone(x) => Gone(x)'
  <2> SUFFICES ASSUME NEW x, Gone(x) PROVE Gone(x)'
      OBVIOUS
  <2>1. CASE x \in raced \/ x \in flushed
        BY <1>1, <2>1 DEF Gone
  <2>2. ASSUME NEW v \in Writer, use[v].pc = "publishing" /\ x \in Range(use[v].seen) PROVE Gone(x)'
    <3>1. use'[v] = use[v]
          BY <1>1, <1>3, <2>2
    <3> QED BY <2>2, <3>1 DEF Gone
  <2> QED BY <2>1, <2>2 DEF Gone
<1>6. SeenOK' /\ BufferOK'
      BY <1>1, <1>3, <1>4, <1>5 DEF SeenOK, BufferOK
<1>7. \A v \in Writer : use'[v].pc = "writing" => v # w /\ use'[v] = use[v] /\ use[v].pc = "writing"
      BY <1>3
<1>8. RacesOK'
  <2> SUFFICES ASSUME NEW u \in Writer, NEW v \in Writer, u # v, use'[v].pc = "writing",
                      use'[u].pc # "out"
               PROVE  use'[v].id \in raced
      BY <1>1 DEF RacesOK
  <2>1. use'[v] = use[v] /\ use[v].pc = "writing" /\ use[u].pc # "out"
        BY <1>1, <1>3, <1>7
  <2> QED BY <2>1 DEF RacesOK
<1>9. TextsOK'
  <2>1. \A v \in Writer : use[v].pc = "writing" => use'[v] = use[v]
        BY <1>1, <1>3
  <2> QED BY <1>1, <1>5, <2>1 DEF TextsOK
<1> QED BY <1>2, <1>6, <1>8, <1>9

\* What was read is published.
LEMMA PublishTexts ==
    ASSUME TextIInv, NEW w \in Writer, PublishStream(w)
    PROVE  TextIInv'
<1> USE DEF TextIInv
<1>1. /\ use[w].pc = "publishing" /\ text' = text /\ written' = written /\ raced' = raced
      /\ use' = [use EXCEPT ![w] = [pc |-> "clearing", id |-> 0, seen |-> <<>>]]
      /\ flushed' = flushed \cup Range(use[w].seen)
      BY DEF PublishStream
<1>2. UseTypes'
  <2>1. [pc |-> "clearing", id |-> 0, seen |-> <<>>] \in Uses
        BY DEF Uses
  <2> QED BY <1>1, <2>1 DEF UseTypes
<1>3. use'[w].pc = "clearing" /\ \A v \in Writer : v # w => use'[v] = use[v]
      BY <1>1 DEF UseTypes
<1>4. \A x : Gone(x) => Gone(x)'
  <2> SUFFICES ASSUME NEW x, Gone(x) PROVE Gone(x)'
      OBVIOUS
  <2>1. CASE x \in raced \/ x \in flushed
        BY <1>1, <2>1 DEF Gone
  <2>2. ASSUME NEW v \in Writer, use[v].pc = "publishing" /\ x \in Range(use[v].seen) PROVE Gone(x)'
    <3>1. CASE v = w
          BY <1>1, <2>2, <3>1 DEF Gone
    <3>2. CASE v # w
          BY <1>3, <2>2, <3>2 DEF Gone
    <3> QED BY <3>1, <3>2
  <2> QED BY <2>1, <2>2 DEF Gone
<1>5. SeenOK' /\ BufferOK'
      BY <1>1, <1>3, <1>4 DEF SeenOK, BufferOK
<1>6. RacesOK'
  <2> SUFFICES ASSUME NEW u \in Writer, NEW v \in Writer, u # v, use'[v].pc = "writing",
                      use'[u].pc # "out"
               PROVE  use'[v].id \in raced
      BY <1>1 DEF RacesOK
  <2>1. use'[v] = use[v] /\ use[v].pc = "writing" /\ use[u].pc # "out"
        BY <1>1, <1>3
  <2> QED BY <2>1 DEF RacesOK
<1>7. TextsOK'
  <2>1. \A v \in Writer : use[v].pc = "writing" => use'[v] = use[v]
        BY <1>1, <1>3
  <2> QED BY <1>1, <1>4, <2>1 DEF TextsOK
<1> QED BY <1>2, <1>5, <1>6, <1>7

\* The buffer is emptied: all that is in it is gone.
LEMMA ClearTexts ==
    ASSUME TextIInv, NEW w \in Writer, ClearBuffer(w)
    PROVE  TextIInv'
<1> USE DEF TextIInv
<1>1. /\ use[w].pc = "clearing" /\ text' = <<>> /\ use' = [use EXCEPT ![w] = NoUse]
      /\ written' = written /\ raced' = raced /\ flushed' = flushed
      BY DEF ClearBuffer
<1>2. UseTypes'
  <2>1. NoUse \in Uses /\ <<>> \in Seq(Nat)
        BY DEF NoUse, Uses
  <2> QED BY <1>1, <2>1 DEF UseTypes
<1>3. use'[w].pc = "out" /\ \A v \in Writer : v # w => use'[v] = use[v]
      BY <1>1 DEF UseTypes, NoUse
<1>4. \A x : Gone(x) <=> Gone(x)'
      BY <1>1, <1>3 DEF Gone
<1>5. \A x \in Range(text) : Gone(x)
      BY <1>1 DEF BufferOK
<1>6. Range(text') = {}
      BY <1>1 DEF Range
<1>7. SeenOK'
  <2> SUFFICES ASSUME NEW v \in Writer, use'[v].pc = "writing", NEW x, ~Gone(x)
               PROVE  x \in Range(text') <=> x \in Range(use'[v].seen)
      BY <1>4 DEF SeenOK
  <2>1. use'[v] = use[v] /\ use[v].pc = "writing"
        BY <1>3
  <2> QED BY <1>5, <1>6, <2>1 DEF SeenOK
<1>8. BufferOK'
      BY <1>6 DEF BufferOK
<1>9. RacesOK'
  <2> SUFFICES ASSUME NEW u \in Writer, NEW v \in Writer, u # v, use'[v].pc = "writing",
                      use'[u].pc # "out"
               PROVE  use'[v].id \in raced
      BY <1>1 DEF RacesOK
  <2>1. use'[v] = use[v] /\ use'[u] = use[u]
        BY <1>3
  <2> QED BY <2>1 DEF RacesOK
<1>10. TextsOK'
  <2>1. \A v \in Writer : use[v].pc = "writing" => use'[v] = use[v]
        BY <1>1, <1>3
  <2> QED BY <1>1, <1>4, <1>5, <2>1 DEF TextsOK
<1> QED BY <1>2, <1>7, <1>8, <1>9, <1>10

\* Every step keeps count of the texts.
LEMMA TextStep == TextIInv /\ [StreamsNext]_streamsVars => TextIInv'
<1>1. ASSUME TextIInv, UNCHANGED textVars PROVE TextIInv'
      BY <1>1 DEF TextIInv, UseTypes, SeenOK, BufferOK, RacesOK, TextsOK, Gone, textVars
<1> QED BY <1>1, TextSteps, BeginTexts, EndTexts, KeepTexts, SyncTexts, PublishTexts, ClearTexts
        DEF WriterStep

\* A text is lost on its way to publishStream only if another thread used the stream while
\* it was written, by any number of threads that write, flush or do not, although
\* StreamBuffer::sync empties a buffer that it shares without a mutex.
THEOREM Written == StreamsSpec => []LostOnlyIfRaced
<1>1. StreamsInit => TextIInv
      BY TextInit DEF StreamsInit
<1>2. TextIInv => LostOnlyIfRaced
  <2> SUFFICES ASSUME TextIInv, NEW x \in 1 .. written, x \notin flushed, x \notin raced
               PROVE  x \in OnTheWay
      BY DEF LostOnlyIfRaced
  <2>1. CASE x \in Range(text)
        BY <2>1 DEF OnTheWay
  <2>2. ASSUME NEW w \in Writer, use[w].id = x PROVE x \in OnTheWay
        BY <2>2 DEF OnTheWay
  <2>3. ASSUME NEW v \in Writer, use[v].pc = "publishing", x \in Range(use[v].seen)
        PROVE  x \in OnTheWay
    <3> DEFINE S == {Range(use[w].seen) : w \in {u \in Writer : use[u].pc = "publishing"}}
    <3>1. Range(use[v].seen) \in S
          BY <2>3
    <3>2. OnTheWay = Range(text) \cup {use[w].id : w \in Writer} \cup UNION S
          BY DEF OnTheWay
    <3> HIDE DEF S
    <3>3. x \in UNION S
          BY <2>3, <3>1
    <3> QED BY <3>2, <3>3
  <2> QED BY <2>1, <2>2, <2>3 DEF TextIInv, TextsOK, Gone
<1> QED BY <1>1, <1>2, TextStep, PTL DEF StreamsSpec

-----------------------------------------------------------------------------
(* The shells *)

\* The handler is set while the user watches; a text that is shown behind its back was
\* being handled when the handler was removed.
HandlerOK ==
    /\ cat \in [Shell -> {"out", "enabled", "watching", "unset", "closed"}]
    /\ callback \in [Shell -> BOOLEAN]
    /\ handling \in [Shell -> {"idle", "found", "printing", "terminated"}]
    /\ late \in [Shell -> {0, 1}]
    /\ \A s \in Shell : /\ callback[s] <=> cat[s] = "watching"
                        /\ callback[s] \/ handling[s] = "printing" => late[s] = 0

\* The shells that have enabled the stream and not disabled it.
Inside == {s \in Shell : cat[s] # "out"}
CatIInv == HandlerOK /\ streamWatchers = Cardinality(Inside)

\* Nobody watches at the beginning.
LEMMA CatInit == ASSUME NEW n, NEW c, StreamsInitAfter(n, c) PROVE CatIInv
<1>1. HandlerOK
      BY DEF StreamsInitAfter, HandlerOK
<1>2. Inside = {}
      BY DEF StreamsInitAfter, Inside
<1>3. streamWatchers = Cardinality(Inside)
      BY <1>2, FS_EmptySet DEF StreamsInitAfter
<1> QED BY <1>1, <1>3 DEF CatIInv

\* The steps of a shell keep the handler and the user's thread together ...
LEMMA CatHandler ==
    ASSUME HandlerOK, NEW s \in Shell, CatStep(s)
    PROVE  HandlerOK'
<1> USE DEF HandlerOK
<1>1. CASE EnableStreaming(s)
      BY <1>1 DEF EnableStreaming, Goes
<1>2. CASE SetCallback(s)
      BY <1>2 DEF SetCallback, Goes
<1>3. CASE UnsetCallback(s)
      BY <1>3 DEF UnsetCallback, Goes, Unset
<1>4. CASE ClearStream(s)
      BY <1>4 DEF ClearStream, Goes
<1>5. CASE DisableStreaming(s)
      BY <1>5 DEF DisableStreaming, Goes
<1>6. CASE Hear(s)
      BY <1>6 DEF Hear
<1>7. CASE CallHandler(s)
      BY <1>7 DEF CallHandler
<1>8. CASE ShowText(s)
      BY <1>8 DEF ShowText
<1> QED BY <1>1, <1>2, <1>3, <1>4, <1>5, <1>6, <1>7, <1>8 DEF CatStep

\* ... and the count of those that watch.
LEMMA CatCount ==
    ASSUME CatIInv, NEW s \in Shell, CatStep(s)
    PROVE  streamWatchers' = Cardinality(Inside')
<1>1. IsFiniteSet(Inside)
      BY StreamsAssumption, FS_Subset DEF Inside
<1>2. CASE EnableStreaming(s)
  <2>1. s \notin Inside /\ Inside' = Inside \cup {s}
        BY <1>2 DEF EnableStreaming, Goes, Inside, CatIInv, HandlerOK
  <2>2. streamWatchers' = streamWatchers + 1
        BY <1>2 DEF EnableStreaming, Enabled
  <2> QED BY <1>1, <2>1, <2>2, FS_AddElement DEF CatIInv
<1>3. CASE DisableStreaming(s)
  <2>1. s \in Inside /\ Inside' = Inside \ {s}
        BY <1>3 DEF DisableStreaming, Goes, Inside, CatIInv, HandlerOK
  <2>2. /\ Cardinality(Inside') = Cardinality(Inside) - 1
        /\ Cardinality(Inside) \in Nat /\ Cardinality(Inside') \in Nat
    <3>1. IsFiniteSet(Inside')
          BY <1>1, <2>1, FS_Subset
    <3> QED BY <1>1, <2>1, <3>1, FS_RemoveElement, FS_CardinalityType
  <2>3. streamWatchers > 0
        BY <2>2 DEF CatIInv
  <2>4. streamWatchers' = streamWatchers - 1
        BY <1>3, <2>3 DEF DisableStreaming, Disabled
  <2> QED BY <2>2, <2>4 DEF CatIInv
<1>4. ASSUME NEW a, NEW b, a # "out", b # "out", Goes(s, a, b), streamWatchers' = streamWatchers
      PROVE  streamWatchers' = Cardinality(Inside')
  <2>1. Inside' = Inside
        BY <1>4 DEF Goes, Inside, CatIInv, HandlerOK
  <2> QED BY <1>4, <2>1 DEF CatIInv
<1>5. CASE SetCallback(s) \/ UnsetCallback(s) \/ ClearStream(s)
  <2>1. streamWatchers' = streamWatchers
        BY <1>5 DEF SetCallback, UnsetCallback, ClearStream, streamVars
  <2>2. \/ Goes(s, "enabled", "watching") \/ Goes(s, "watching", "unset") \/ Goes(s, "unset", "closed")
        BY <1>5 DEF SetCallback, UnsetCallback, ClearStream
  <2> QED BY <1>4, <2>1, <2>2
<1>6. CASE Hear(s) \/ CallHandler(s) \/ ShowText(s)
      BY <1>6 DEF Hear, CallHandler, ShowText, streamVars, Inside, CatIInv
<1> QED BY <1>2, <1>3, <1>5, <1>6 DEF CatStep

\* The other steps leave the shells alone.
LEMMA CatInvStep == CatIInv /\ [StreamsNext]_streamsVars => CatIInv'
<1> SUFFICES ASSUME CatIInv, [StreamsNext]_streamsVars PROVE CatIInv'
    OBVIOUS
<1>1. ASSUME NEW s \in Shell, CatStep(s) PROVE CatIInv'
      BY <1>1, CatHandler, CatCount DEF CatIInv
<1>2. ASSUME UNCHANGED <<streamWatchers, shellVars>> PROVE CatIInv'
      BY <1>2 DEF shellVars, CatIInv, HandlerOK, Inside
<1>3. ASSUME NEW w \in Writer, WriterStep(w) PROVE UNCHANGED <<streamWatchers, shellVars>>
      BY <1>3 DEF WriterStep, BeginWrite, EndWrite, KeepText, Sync, PublishStream, ClearBuffer
<1>4. CASE UNCHANGED <<streamVars, shellVars>>
      BY <1>2, <1>4 DEF streamVars
<1>5. CASE UNCHANGED streamsVars
      BY <1>2, <1>5 DEF streamsVars, streamVars
<1> QED BY <1>1, <1>2, <1>3, <1>4, <1>5 DEF StreamsNext

\* A cat that ends leaves nothing behind, in any number of shells: not more than the one
\* text that was being handled is shown after its handler was removed, and the stream is
\* watched by the shells that have enabled it and not disabled it (CatCommand::process).
THEOREM Leaving == StreamsSpec => []CatLeavesNothing
<1>1. StreamsInit => CatIInv
      BY CatInit DEF StreamsInit
<1>2. CatIInv => CatLeavesNothing
  <2> SUFFICES ASSUME CatIInv PROVE CatLeavesNothing
      OBVIOUS
  <2>1. \A s \in Shell : late[s] <= 1
        BY DEF CatIInv, HandlerOK
  <2> QED BY <2>1 DEF CatIInv, Inside, CatLeavesNothing
<1> QED BY <1>1, <1>2, CatInvStep, PTL DEF StreamsSpec

-----------------------------------------------------------------------------
(* The types of the stream *)

\* The texts so far are numbered, and whoever writes has one of them.
Numbered == 1 .. MaxTexts
BoundedUses == [pc : {"out", "writing", "written", "publishing", "clearing"},
                id : 0 .. MaxTexts, seen : Seq(Numbered)]
TextTypes ==
    /\ written \in 0 .. MaxTexts /\ text \in Seq(Numbered)
    /\ use \in [Writer -> BoundedUses]
    /\ \A w \in Writer : use[w].pc = "writing" => use[w].id \in Numbered

\* They are so after every step.
LEMMA TextTypesStep == TextTypes /\ [StreamsNext]_streamsVars => TextTypes'
<1> SUFFICES ASSUME TextTypes, [StreamsNext]_streamsVars PROVE TextTypes'
    OBVIOUS
<1>1. MaxTexts \in Nat
      BY StreamsAssumption
<1>2. CASE UNCHANGED textVars
      BY <1>2 DEF textVars, TextTypes
<1>3. ASSUME NEW w \in Writer, WriterStep(w) PROVE TextTypes'
  <2>1. use[w] \in BoundedUses /\ <<>> \in Seq(Numbered)
        BY DEF TextTypes
  <2>2. CASE BeginWrite(w)
    <3>1. /\ written' = written + 1 /\ written < MaxTexts /\ text' = text
          /\ use' = [use EXCEPT ![w] = [pc |-> "writing", id |-> written + 1, seen |-> text]]
          BY <2>2 DEF BeginWrite, Base
    <3>2. written + 1 \in Numbered /\ written + 1 \in 0 .. MaxTexts
          BY <1>1, <3>1 DEF TextTypes, Numbered
    <3>3. [pc |-> "writing", id |-> written + 1, seen |-> text] \in BoundedUses
          BY <3>2 DEF BoundedUses, TextTypes
    <3> QED BY <3>1, <3>2, <3>3 DEF TextTypes
  <2>3. CASE EndWrite(w)
    <3>1. PICK t \in {use[w].seen, text} : text' = Append(t, use[w].id)
          BY <2>3 DEF EndWrite, Base
    <3>2. use[w].pc = "writing" /\ written' = written
          /\ use' = [use EXCEPT ![w] = [pc |-> "written", id |-> 0, seen |-> <<>>]]
          BY <2>3 DEF EndWrite
    <3>3. text' \in Seq(Numbered)
      <4>1. t \in Seq(Numbered) /\ use[w].id \in Numbered
            BY <2>1, <3>1, <3>2 DEF TextTypes, BoundedUses
      <4> QED BY <3>1, <4>1
    <3>4. [pc |-> "written", id |-> 0, seen |-> <<>>] \in BoundedUses
          BY <1>1, <2>1 DEF BoundedUses
    <3> QED BY <3>2, <3>3, <3>4 DEF TextTypes
  <2>4. ASSUME NEW new \in BoundedUses, new.pc # "writing", use' = [use EXCEPT ![w] = new],
               text' \in {text, <<>>}, written' = written
        PROVE  TextTypes'
        BY <2>1, <2>4 DEF TextTypes
  <2>5. NoUse \in BoundedUses /\ NoUse.pc # "writing"
        BY <1>1, <2>1 DEF NoUse, BoundedUses
  <2>6. CASE KeepText(w) \/ ClearBuffer(w)
        BY <2>4, <2>5, <2>6 DEF KeepText, ClearBuffer
  <2>7. CASE Sync(w)
    <3> DEFINE picture == [use EXCEPT ![w] = [pc |-> "publishing", id |-> 0, seen |-> text]]
    <3>1. CASE use' = picture
      <4>1. [pc |-> "publishing", id |-> 0, seen |-> text] \in BoundedUses
            BY <1>1 DEF BoundedUses, TextTypes
      <4> QED BY <2>4, <2>7, <3>1, <4>1 DEF Sync
    <3>2. CASE use' # picture
      <4>1. [use[w] EXCEPT !.pc = "clearing"] \in BoundedUses
            BY <2>1 DEF BoundedUses
      <4>2. [use[w] EXCEPT !.pc = "clearing"].pc = "clearing"
            BY <2>1 DEF BoundedUses
      <4>3. use' = [use EXCEPT ![w] = [use[w] EXCEPT !.pc = "clearing"]]
            BY <2>7, <3>2 DEF Sync
      <4> QED BY <2>4, <2>7, <4>1, <4>2, <4>3 DEF Sync
    <3> QED BY <3>1, <3>2
  <2>8. CASE PublishStream(w)
    <3>1. [pc |-> "clearing", id |-> 0, seen |-> <<>>] \in BoundedUses
          BY <1>1, <2>1 DEF BoundedUses
    <3> QED BY <2>4, <2>8, <3>1 DEF PublishStream
  <2> QED BY <1>3, <2>2, <2>3, <2>6, <2>7, <2>8 DEF WriterStep
<1> QED BY <1>2, <1>3, TextSteps

\* The texts in the buffer are texts that were written, and a stream is never watched by
\* more than all shells, nor by less than none.
THEOREM TypeCorrect == StreamsSpec => []StreamsTypeOK
<1>1. StreamsInit => TextTypes /\ CatIInv
  <2> SUFFICES ASSUME StreamsInit PROVE TextTypes
      BY CatInit DEF StreamsInit
  <2>1. MaxTexts \in Nat
        BY StreamsAssumption
  <2>2. NoUse \in BoundedUses /\ NoUse.pc # "writing" /\ <<>> \in Seq(Numbered)
        BY <2>1 DEF NoUse, BoundedUses
  <2> QED BY <2>1, <2>2 DEF StreamsInit, StreamsInitAfter, TextTypes
<1>2. ASSUME TextTypes, CatIInv PROVE StreamsTypeOK
  <2>1. streamWatchers \in 0 .. Cardinality(Shell)
    <3>1. Inside \subseteq Shell /\ IsFiniteSet(Shell)
          BY StreamsAssumption DEF Inside
    <3>2. /\ Cardinality(Inside) \in Nat /\ Cardinality(Shell) \in Nat
          /\ Cardinality(Inside) <= Cardinality(Shell)
          BY <3>1, FS_Subset, FS_CardinalityType
    <3> QED BY <1>2, <3>2 DEF CatIInv
  <2> QED BY <1>2, <2>1 DEF TextTypes, BoundedUses, Numbered, CatIInv, HandlerOK, StreamsTypeOK
<1> QED BY <1>1, <1>2, TextTypesStep, CatInvStep, PTL DEF StreamsSpec
=============================================================================
