------------------------------ MODULE Lifecycle ------------------------------
(***************************************************************************)
(* Starting and stopping the RhIO servers (Server/src/RhIO.cpp): the three *)
(* server threads, the counter start() waits for, the flags stop() sets,   *)
(* and the two global pointers that lead the threads of the robot program  *)
(* to objects that live on the stacks of the server threads.               *)
(*                                                                         *)
(* An object is known by the number of the start() that created it; 0 is   *)
(* the null pointer, or no object.                                         *)
(***************************************************************************)
EXTENDS Integers, FiniteSets

CONSTANTS MaxStarts,  \* bound: calls of start()
          MayFail     \* the servers whose thread may throw

Servers == {"rep", "pub", "log"}
\* Those a global pointer, ServerStream or ServerLogging, leads to.
Pointed == {"pub", "log"}

ASSUME LifecycleAssumption == MaxStarts \in Nat /\ MayFail \subseteq Servers

VARIABLES initServerCount,
          serverStarting,  \* what started() returns
          over,            \* per server: serverThread*Over
          thread,          \* per server: where its thread is
          object,          \* per server: the object on the thread's stack
          pointer,         \* ServerStream and ServerLogging
          main,            \* where the thread that starts and stops is
          caller, target,  \* where another thread is, and the pointer it read
          early,           \* history: its call began before start() had returned
          starts,          \* history: the calls of start()
          stopped,         \* history: stop() was called
          corrupt          \* history: the calls that went through a pointer to nothing

vars == <<initServerCount, serverStarting, over, thread, object, pointer, main,
          caller, target, early, starts, stopped, corrupt>>

Init ==
    /\ initServerCount = 0
    /\ serverStarting = FALSE
    /\ over = [s \in Servers |-> FALSE]
    /\ thread = [s \in Servers |-> "none"]
    /\ object = [s \in Servers |-> 0]
    /\ pointer = [s \in Pointed |-> 0]
    /\ main = "out"
    /\ caller = "out" /\ target = 0 /\ early = FALSE
    /\ starts = 0
    /\ stopped = FALSE
    /\ corrupt = {}

callerVars == <<caller, target, early, corrupt>>

-----------------------------------------------------------------------------
(* start() and stop() *)

\* A program starts the servers again only after it stopped them.
Start ==
    /\ main = "out"
    /\ starts < MaxStarts
    /\ main' = "starting"
    /\ starts' = starts + 1
    /\ serverStarting' = TRUE
    /\ UNCHANGED <<initServerCount, over, thread, object, pointer, callerVars, stopped>>

Spawn ==
    /\ main = "starting"
    /\ main' = "waiting"
    /\ initServerCount' = 0
    /\ over' = [s \in Servers |-> FALSE]
    /\ thread' = [s \in Servers |-> "created"]
    /\ UNCHANGED <<serverStarting, object, pointer, callerVars, starts, stopped>>

AllReady == initServerCount = 3

StartReturns ==
    /\ main = "waiting"
    /\ AllReady
    /\ main' = "running"
    /\ UNCHANGED <<initServerCount, serverStarting, over, thread, object, pointer,
                   callerVars, starts, stopped>>

AskedPointed == [s \in Servers |-> s \in Pointed]
Asked == [s \in Servers |-> TRUE]

Stop ==
    /\ main = "running"
    /\ stopped' = TRUE
    /\ IF initServerCount > 0
       THEN over' = Asked /\ main' = "joining"
       ELSE UNCHANGED over /\ main' = "out"
    /\ UNCHANGED <<initServerCount, serverStarting, thread, object, pointer, callerVars, starts>>

JoinedPubLog == \A s \in Pointed : thread[s] = "ended"
Joined == \A s \in Servers : thread[s] = "ended"

\* The joins and deletes: nothing is seen between them.
StopReturns ==
    /\ main = "joining"
    /\ Joined
    /\ main' = "out"
    /\ UNCHANGED <<initServerCount, serverStarting, over, thread, object, pointer,
                   callerVars, starts, stopped>>

-----------------------------------------------------------------------------
(* runServerRep, runServerPub and runServerLog *)

\* The server is constructed, then the pointer is set to it.
Construct(s) ==
    /\ thread[s] = "created"
    /\ thread' = [thread EXCEPT ![s] = "constructed"]
    /\ object' = [object EXCEPT ![s] = starts]
    /\ UNCHANGED <<initServerCount, serverStarting, over, pointer, main, callerVars,
                   starts, stopped>>

ConstructedOrNot(s) == thread[s] \in {"created", "constructed"}
Constructed(s) == thread[s] = "constructed"

SetPointer(s) ==
    /\ Constructed(s)
    /\ thread' = [thread EXCEPT ![s] = "pointed"]
    /\ pointer' = IF s \in Pointed THEN [pointer EXCEPT ![s] = starts] ELSE pointer
    /\ UNCHANGED <<initServerCount, serverStarting, over, object, main, callerVars,
                   starts, stopped>>

CountedBefore(s) == thread[s] \in {"constructed", "pointed"}
Counted(s) == thread[s] = "pointed"

Count(s) ==
    /\ Counted(s)
    /\ thread' = [thread EXCEPT ![s] = "looping"]
    /\ initServerCount' = initServerCount + 1
    /\ UNCHANGED <<serverStarting, over, object, pointer, main, callerVars, starts, stopped>>

NotCountedOut == initServerCount
CountedOut == initServerCount - 1

\* An iteration of the loop that finds the flag set.
Leave(s) ==
    /\ thread[s] = "looping"
    /\ over[s]
    /\ thread' = [thread EXCEPT ![s] = "leaving"]
    /\ initServerCount' = CountedOut
    /\ UNCHANGED <<serverStarting, over, object, pointer, main, callerVars, starts, stopped>>

\* The object goes out of scope with the function; the pointer stays.
End(s) ==
    /\ thread[s] = "leaving"
    /\ thread' = [thread EXCEPT ![s] = "ended"]
    /\ object' = [object EXCEPT ![s] = 0]
    /\ UNCHANGED <<initServerCount, serverStarting, over, pointer, main, callerVars, starts, stopped>>

\* An exception leaves the constructor or the loop: raiseSignalAndHold, in a
\* program that catches the signal, holds the thread for ever.
Throw(s) ==
    /\ s \in MayFail
    /\ thread[s] \in {"created", "looping"}
    /\ thread' = [thread EXCEPT ![s] = IF @ = "looping" THEN "held" ELSE "failed"]
    /\ object' = [object EXCEPT ![s] = 0]
    /\ UNCHANGED <<initServerCount, serverStarting, over, pointer, main, callerVars,
                   starts, stopped>>

-----------------------------------------------------------------------------
(* Another thread of the program, that sets values or writes the logs *)

\* A setter checks its pointer; writeLogs does not, and is called if started().
Call(s) ==
    /\ caller = "out"
    /\ IF s = "pub" THEN pointer[s] # 0 ELSE serverStarting
    /\ caller' = s
    /\ target' = pointer[s]
    /\ early' = (main # "running")
    /\ UNCHANGED <<initServerCount, serverStarting, over, thread, object, pointer, main,
                   starts, stopped, corrupt>>

\* The call uses the object, publishFrame or writeLogsToFile.
Use ==
    /\ caller # "out"
    /\ caller' = "out"
    /\ target' = 0
    /\ early' = FALSE
    /\ corrupt' = IF target = 0 \/ object[caller] # target
                  THEN corrupt \cup {<<caller, early>>} ELSE corrupt
    /\ UNCHANGED <<initServerCount, serverStarting, over, thread, object, pointer, main,
                   starts, stopped>>

-----------------------------------------------------------------------------
Thread(s) == Construct(s) \/ SetPointer(s) \/ Count(s) \/ Leave(s) \/ End(s)

Next ==
    \/ Start \/ Spawn \/ StartReturns \/ Stop \/ StopReturns
    \/ \E s \in Servers : Thread(s) \/ Throw(s)
    \/ \E s \in Pointed : Call(s)
    \/ Use

Spec == Init /\ [][Next]_vars

\* The threads are scheduled and the loops come round: no request, packet or log
\* blocks one for ever (the reply server waits 500 ms at most for a request).
FairSpec ==
    /\ Spec
    /\ WF_vars(Spawn) /\ WF_vars(StartReturns) /\ WF_vars(StopReturns)
    /\ \A s \in Servers : WF_vars(Thread(s))

-----------------------------------------------------------------------------
(* Properties *)

Generation == 0 .. MaxStarts

\* Types.
TypeOK ==
    /\ serverStarting \in BOOLEAN /\ over \in [Servers -> BOOLEAN]
    /\ thread \in [Servers -> {"none", "created", "constructed", "pointed", "looping",
                               "leaving", "ended", "held", "failed"}]
    /\ object \in [Servers -> Generation] /\ pointer \in [Pointed -> Generation]
    /\ main \in {"out", "starting", "waiting", "running", "joining"}
    /\ caller \in Pointed \cup {"out"} /\ target \in Generation
    /\ starts \in Generation /\ stopped \in BOOLEAN /\ early \in BOOLEAN
    /\ corrupt \in SUBSET (Pointed \X BOOLEAN)

Failed == \E s \in Servers : thread[s] \in {"held", "failed"}

\* When start() has returned, until stop() is called or a server thread throws,
\* both pointers lead to the servers that this start() created.
RunningMeansServed ==
    main = "running" /\ ~Failed =>
        /\ \A s \in Servers : thread[s] = "looping" /\ object[s] = starts
        /\ \A s \in Pointed : pointer[s] = starts

\* When stop() has returned no server thread is left, so that start() may be
\* called again: the threads of two starts never mix.
StoppedMeansOver ==
    main \in {"out", "starting"} /\ ~Failed =>
        /\ initServerCount = 0
        /\ \A s \in Servers : thread[s] \in {"none", "ended"} /\ object[s] = 0

\* Both, and initServerCount, which start() waits for, is the number of threads between
\* their increment and their decrement, those that threw in their loop included.
ServersFollowCalls ==
    /\ RunningMeansServed /\ StoppedMeansOver
    /\ initServerCount = Cardinality({s \in Servers : thread[s] \in {"looping", "held"}})

\* Until stop() is called or a server throws, a thread that sets values is safe from
\* the moment it sees the pointer, even before start() has returned, and a thread
\* that writes the logs is safe if start() had returned.  started() does not tell:
\* it is true from the beginning of start(), and for ever.
CallsSafeUntilStop ==
    corrupt \subseteq {<<"log", TRUE>>} \/ stopped \/ Failed

\* start() returns and stop() returns, unless a server thread throws.
StartAndStopEnd ==
    /\ main = "starting" ~> main = "running" \/ Failed
    /\ main = "joining" ~> main = "out" \/ Failed
=============================================================================
