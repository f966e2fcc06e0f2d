---------------------------- MODULE ServersProofs ----------------------------
(***************************************************************************)
(* The servers' threads between start() and stop(), for any number of      *)
(* starts and any servers that throw.  Where the main thread is bounds     *)
(* where each server thread may be (Stage), and that says what its object  *)
(* and its pointer are (Places).  A server that threw keeps the main       *)
(* thread from ever coming back to where start() may be called.            *)
(*                                                                         *)
(* Then the logging server itself, while it runs: see "The history".       *)
(***************************************************************************)
EXTENDS Lifecycle, ServerLog, FiniteSetTheorems, SequenceTheorems, TLAPS

\* The threads that have counted and not yet discounted themselves.
Counting == {s \in Servers : thread[s] \in {"looping", "held"}}

\* Where the main thread is, and where the thread of a server may then be.
Stage(s) ==
    /\ main \in {"out", "starting"} => thread[s] \in {"none", "ended"}
    /\ main = "waiting" =>
          /\ thread[s] \in {"created", "constructed", "pointed", "looping", "held", "failed"}
          /\ ~over[s]
    /\ main = "running" => thread[s] \in {"looping", "held"} /\ ~over[s]
    /\ main = "joining" => thread[s] \in {"looping", "leaving", "ended", "held"}

\* The object is there from its construction to the end of the thread; the pointer
\* leads to this start's object once it was set, and never to one that is not there
\* yet.
Places(s) ==
    /\ object[s] = IF thread[s] \in {"constructed", "pointed", "looping", "leaving"}
                   THEN starts ELSE 0
    /\ s \in Pointed =>
          /\ thread[s] \in {"pointed", "looping", "leaving", "held"} => pointer[s] = starts
          /\ ~stopped /\ pointer[s] # 0 => thread[s] \in {"pointed", "looping", "held"}

ServerOK == \A s \in Servers : Stage(s) /\ Places(s)

CountOK ==
    /\ initServerCount = Cardinality(Counting)
    /\ main # "out" => starts > 0
    /\ main = "joining" => stopped

\* Until stop() or an exception, a setter's pointer leads to the object it was read
\* from, and so does that of a log that was called after start().
CallsOK ==
    ~stopped /\ ~Failed =>
        /\ caller = "pub" => target = starts /\ thread["pub"] \in {"pointed", "looping"}
        /\ caller = "log" /\ ~early => target = starts /\ main = "running"
        /\ corrupt \subseteq {<<"log", TRUE>>}

\* The inductive invariant.
IInv == TypeOK /\ ServerOK /\ CountOK /\ CallsOK

\* There are three servers, as AllReady counts them.
LEMMA ThreeServers == IsFiniteSet(Servers) /\ Cardinality(Servers) = 3
<1>1. IsFiniteSet({}) /\ Cardinality({}) = 0
      BY FS_EmptySet
<1>2. IsFiniteSet({"rep"}) /\ Cardinality({"rep"}) = 1
      BY FS_Singleton
<1>3. IsFiniteSet({"rep", "pub"}) /\ Cardinality({"rep", "pub"}) = 2
  <2>1. {"rep", "pub"} = {"rep"} \cup {"pub"} /\ "pub" \notin {"rep"}
        OBVIOUS
  <2> QED BY <1>2, <2>1, FS_AddElement
<1>4. Servers = {"rep", "pub"} \cup {"log"} /\ "log" \notin {"rep", "pub"}
      BY DEF Servers
<1> QED BY <1>3, <1>4, FS_AddElement

\* A start that has counted three threads has counted each of them.
LEMMA AllCounted ==
    /\ IsFiniteSet(Counting)
    /\ Cardinality(Counting) \in 0 .. 3
    /\ Cardinality(Counting) = 3 => Counting = Servers
<1>1. Counting \subseteq Servers
      BY DEF Counting
<1>2. /\ IsFiniteSet(Counting) /\ Cardinality(Counting) <= 3
      /\ Cardinality(Counting) = 3 => Counting = Servers
      BY <1>1, ThreeServers, FS_Subset
<1>3. Cardinality(Counting) \in Nat
      BY <1>2, FS_CardinalityType
<1> QED BY <1>2, <1>3

\* An exception stays visible: start() is not called again after it.
LEMMA FailedStays ==
    ASSUME TypeOK, ServerOK, [Next]_vars, Failed
    PROVE  Failed'
<1>1. PICK s \in Servers : thread[s] \in {"held", "failed"}
      BY DEF Failed
<1>2. CASE Spawn
      BY <1>1, <1>2 DEF Spawn, ServerOK, Stage
<1>3. CASE \E r \in Servers : Thread(r) \/ Throw(r)
  <2>1. PICK r \in Servers : Thread(r) \/ Throw(r)
        BY <1>3
  <2>2. r # s
        BY <1>1, <2>1 DEF Thread, Construct, SetPointer, Constructed, Count, Counted, Leave,
                          End, Throw
  <2>3. thread'[s] = thread[s]
        BY <2>1, <2>2 DEF Thread, Construct, SetPointer, Count, Leave, End, Throw, TypeOK
  <2> QED BY <1>1, <2>3 DEF Failed
<1>4. CASE UNCHANGED thread
      BY <1>1, <1>4 DEF Failed
<1> QED BY <1>2, <1>3, <1>4
        DEF Next, vars, Start, StartReturns, Stop, StopReturns, Call, Use

\* The invariant holds before the first start().
LEMMA InitIInv == Init => IInv
<1> SUFFICES ASSUME Init PROVE IInv
    OBVIOUS
<1>1. TypeOK
  <2>1. 0 \in Generation
        BY LifecycleAssumption DEF Generation
  <2>2. /\ over \in [Servers -> BOOLEAN] /\ object \in [Servers -> Generation]
        /\ pointer \in [Pointed -> Generation]
        /\ thread \in [Servers -> {"none", "created", "constructed", "pointed", "looping",
                                   "leaving", "ended", "held", "failed"}]
        BY <2>1 DEF Init
  <2> QED BY <2>1, <2>2 DEF Init, TypeOK
<1>2. ServerOK
      BY DEF Init, ServerOK, Stage, Places
<1>3. Counting = {}
      BY DEF Init, Counting
<1>4. CountOK
      BY <1>3, FS_EmptySet DEF Init, CountOK
<1>5. CallsOK
      BY DEF Init, CallsOK
<1> QED BY <1>1, <1>2, <1>4, <1>5 DEF IInv

\* Every step keeps the types.
LEMMA NextTypes == TypeOK /\ [Next]_vars => TypeOK'
<1> SUFFICES ASSUME TypeOK, [Next]_vars PROVE TypeOK'
    OBVIOUS
<1> USE DEF TypeOK
<1>1. CASE Start
      BY <1>1, LifecycleAssumption DEF Start, Generation, callerVars
<1>2. CASE Spawn
      BY <1>2 DEF Spawn, callerVars
<1>3. CASE StartReturns
      BY <1>3 DEF StartReturns, callerVars
<1>4. CASE Stop
      BY <1>4 DEF Stop, Asked, callerVars
<1>5. CASE StopReturns
      BY <1>5 DEF StopReturns, callerVars
<1>6. ASSUME NEW s \in Servers, Thread(s) \/ Throw(s) PROVE TypeOK'
  <2>1. /\ object' \in [Servers -> Generation] /\ pointer' \in [Pointed -> Generation]
        /\ thread' \in [Servers -> {"none", "created", "constructed", "pointed", "looping",
                                    "leaving", "ended", "held", "failed"}]
        BY <1>6, LifecycleAssumption
           DEF Thread, Construct, SetPointer, Count, Leave, End, Throw, Generation
  <2>2. UNCHANGED <<serverStarting, over, main, callerVars, starts, stopped>>
        BY <1>6 DEF Thread, Construct, SetPointer, Count, Leave, End, Throw
  <2> QED BY <2>1, <2>2 DEF callerVars
<1>7. ASSUME NEW s \in Pointed, Call(s) PROVE TypeOK'
      BY <1>7 DEF Call
<1>8. CASE Use
  <2>1. 0 \in Generation
        BY LifecycleAssumption DEF Generation
  <2>2. corrupt' \in SUBSET (Pointed \X BOOLEAN)
        BY <1>8 DEF Use
  <2> QED BY <1>8, <2>1, <2>2 DEF Use
<1>9. CASE UNCHANGED vars
      BY <1>9 DEF vars
<1> QED BY <1>1, <1>2, <1>3, <1>4, <1>5, <1>6, <1>7, <1>8, <1>9 DEF Next

\* A step of one server's thread.
LEMMA ThreadKeeps ==
    ASSUME IInv, NEW s \in Servers, Thread(s) \/ Throw(s)
    PROVE  ServerOK' /\ CountOK'
<1> USE DEF IInv, TypeOK
<1>1. UNCHANGED <<main, over, starts, stopped>>
      BY DEF Thread, Construct, SetPointer, Count, Leave, End, Throw
<1>2. \A r \in Servers \ {s} :
          /\ thread'[r] = thread[r] /\ object'[r] = object[r]
          /\ r \in Pointed => pointer'[r] = pointer[r]
      BY DEF Thread, Construct, SetPointer, Count, Leave, End, Throw
<1>3. \A r \in Servers \ {s} : Stage(r)' /\ Places(r)'
      BY <1>1, <1>2 DEF ServerOK, Stage, Places
<1>4. Stage(s)' /\ Places(s)'
  <2> Stage(s) /\ Places(s) /\ (main = "joining" => stopped)
      BY DEF ServerOK, CountOK
  <2>1. CASE Construct(s)
        BY <1>1, <2>1 DEF Construct, Stage, Places
  <2>2. CASE SetPointer(s)
        BY <1>1, <2>2 DEF SetPointer, Constructed, Stage, Places
  <2>3. CASE Count(s)
        BY <1>1, <2>3 DEF Count, Counted, Stage, Places
  <2>4. CASE Leave(s)
        BY <1>1, <2>4 DEF Leave, Stage, Places
  <2>5. CASE End(s)
        BY <1>1, <2>5 DEF End, Stage, Places
  <2>6. CASE Throw(s)
        BY <1>1, <2>6 DEF Throw, Stage, Places
  <2> QED BY <2>1, <2>2, <2>3, <2>4, <2>5, <2>6 DEF Thread
<1>5. initServerCount' = Cardinality(Counting')
  <2> initServerCount = Cardinality(Counting) /\ IsFiniteSet(Counting)
      BY AllCounted DEF CountOK
  <2>1. CASE Count(s)
    <3>1. Counting' = Counting \cup {s} /\ s \notin Counting
          BY <1>2, <2>1 DEF Count, Counted, Counting
    <3> QED BY <2>1, <3>1, FS_AddElement DEF Count
  <2>2. CASE Leave(s)
    <3>1. Counting' = Counting \ {s} /\ s \in Counting
          BY <1>2, <2>2 DEF Leave, Counting
    <3> QED BY <2>2, <3>1, FS_RemoveElement DEF Leave, CountedOut
  <2>3. CASE Construct(s) \/ SetPointer(s) \/ End(s) \/ Throw(s)
    <3>1. thread'[s] \in {"looping", "held"} <=> thread[s] \in {"looping", "held"}
          BY <2>3 DEF Construct, SetPointer, Constructed, End, Throw
    <3>2. Counting' = Counting
          BY <1>2, <3>1 DEF Counting
    <3> QED BY <2>3, <3>2 DEF Construct, SetPointer, End, Throw
  <2> QED BY <2>1, <2>2, <2>3 DEF Thread
<1>6. CountOK'
      BY <1>1, <1>5 DEF CountOK
<1> QED BY <1>3, <1>4, <1>6 DEF ServerOK

\* Every step keeps where the threads, their objects and their pointers are.
LEMMA NextServers == IInv /\ [Next]_vars => ServerOK' /\ CountOK'
<1> SUFFICES ASSUME IInv, [Next]_vars PROVE ServerOK' /\ CountOK'
    OBVIOUS
<1> USE DEF IInv, TypeOK
<1>1. CASE Start
  <2>1. ServerOK'
        BY <1>1 DEF Start, ServerOK, Stage, Places
  <2>2. Counting' = Counting
        BY <1>1 DEF Start, Counting
  <2> QED BY <1>1, <2>1, <2>2 DEF Start, CountOK, Generation
<1>2. CASE Spawn
  <2>1. ServerOK'
        BY <1>2 DEF Spawn, ServerOK, Stage, Places
  <2>2. Counting' = {}
        BY <1>2 DEF Spawn, Counting
  <2> QED BY <1>2, <2>1, <2>2, FS_EmptySet DEF Spawn, CountOK
<1>3. CASE StartReturns
  <2>1. Counting = Servers
        BY <1>3, AllCounted DEF StartReturns, AllReady, CountOK
  <2>2. ServerOK'
        BY <1>3, <2>1 DEF StartReturns, Counting, ServerOK, Stage, Places
  <2>3. Counting' = Counting
        BY <1>3 DEF StartReturns, Counting
  <2> QED BY <1>3, <2>2, <2>3 DEF StartReturns, CountOK
<1>4. CASE Stop
  <2>1. Counting = Servers
        BY <1>4 DEF Stop, ServerOK, Stage, Counting
  <2>2. initServerCount > 0
        BY <2>1, ThreeServers DEF CountOK
  <2>3. ServerOK'
        BY <1>4, <2>2 DEF Stop, ServerOK, Stage, Places
  <2>4. Counting' = Counting
        BY <1>4 DEF Stop, Counting
  <2> QED BY <1>4, <2>2, <2>3, <2>4 DEF Stop, CountOK
<1>5. CASE StopReturns
  <2>1. ServerOK'
        BY <1>5 DEF StopReturns, Joined, ServerOK, Stage, Places
  <2>2. Counting' = Counting
        BY <1>5 DEF StopReturns, Counting
  <2> QED BY <1>5, <2>1, <2>2 DEF StopReturns, CountOK
<1>6. CASE \E s \in Servers : Thread(s) \/ Throw(s)
      BY <1>6, ThreadKeeps
<1>7. CASE \/ \E s \in Pointed : Call(s)
           \/ Use \/ UNCHANGED vars
  <2>1. UNCHANGED <<initServerCount, over, thread, object, pointer, main, starts, stopped>>
        BY <1>7 DEF Call, Use, vars
  <2>2. Counting' = Counting
        BY <2>1 DEF Counting
  <2>3. ServerOK'
        BY <2>1 DEF ServerOK, Stage, Places
  <2> QED BY <2>1, <2>2, <2>3 DEF CountOK
<1> QED BY <1>1, <1>2, <1>3, <1>4, <1>5, <1>6, <1>7 DEF Next

\* Every step keeps the promise to the callers.
LEMMA NextCalls == IInv /\ [Next]_vars => CallsOK'
<1> SUFFICES ASSUME IInv, [Next]_vars, ~stopped', ~Failed'
             PROVE  /\ caller' = "pub" => target' = starts' /\ thread'["pub"] \in {"pointed", "looping"}
                    /\ caller' = "log" /\ ~early' => target' = starts' /\ main' = "running"
                    /\ corrupt' \subseteq {<<"log", TRUE>>}
    BY DEF CallsOK
<1> USE DEF IInv, TypeOK
<1>1. ~Failed
      BY FailedStays
<1>2. ~stopped
      BY DEF Next, Thread, Start, Spawn, StartReturns, Stop, StopReturns, Construct, SetPointer,
             Count, Leave, End, Throw, Call, Use, vars
<1>3. /\ caller = "pub" => target = starts /\ thread["pub"] \in {"pointed", "looping"}
      /\ caller = "log" /\ ~early => target = starts /\ main = "running"
      /\ corrupt \subseteq {<<"log", TRUE>>}
      BY <1>1, <1>2 DEF CallsOK
<1>4. "pub" \in Servers /\ "log" \in Servers /\ "pub" \in Pointed /\ "log" \in Pointed
      BY DEF Servers, Pointed
<1>5. Stage("pub") /\ Places("pub") /\ Stage("log") /\ Places("log")
      BY <1>4 DEF ServerOK
<1>6. CASE Start \/ Spawn \/ StartReturns \/ StopReturns
  <2>1. UNCHANGED callerVars
        BY <1>6 DEF Start, Spawn, StartReturns, StopReturns
  <2>2. caller # "pub" \/ StartReturns
        BY <1>3, <1>5, <1>6, <1>2 DEF Start, Spawn, StopReturns, Stage, CountOK
  <2>3. caller # "log" \/ early
        BY <1>3, <1>6 DEF Start, Spawn, StartReturns, StopReturns
  <2> QED BY <1>3, <2>1, <2>2, <2>3 DEF callerVars, StartReturns
<1>7. CASE Stop
      BY <1>7 DEF Stop
<1>8. CASE \E s \in Servers : Thread(s) \/ Throw(s)
  <2>1. PICK s \in Servers : Thread(s) \/ Throw(s)
        BY <1>8
  <2>2. UNCHANGED <<callerVars, starts, main>>
        BY <2>1 DEF Thread, Construct, SetPointer, Count, Leave, End, Throw
  <2>3. ~Throw(s)
    <3>1. Throw(s) => thread'[s] \in {"held", "failed"}
          BY DEF Throw
    <3> QED BY <3>1 DEF Failed
  <2>4. thread["pub"] \in {"pointed", "looping"} => thread'["pub"] \in {"pointed", "looping"}
    <3>1. ~Leave("pub")
          BY <1>2, <1>5 DEF Leave, Stage, CountOK
    <3>2. CASE s = "pub"
          BY <2>1, <2>3, <3>1, <3>2
             DEF Thread, Construct, SetPointer, Constructed, Count, Counted, End
    <3>3. CASE s # "pub"
          BY <2>1, <3>3, <1>4 DEF Thread, Construct, SetPointer, Count, Leave, End, Throw
    <3> QED BY <3>2, <3>3
  <2> QED BY <1>3, <2>2, <2>4 DEF callerVars
<1>9. CASE \E s \in Pointed : Call(s)
  <2>1. PICK s \in Pointed : Call(s)
        BY <1>9
  <2>2. UNCHANGED <<thread, starts, main, corrupt>> /\ caller' = s /\ target' = pointer[s]
        BY <2>1 DEF Call
  <2>3. CASE s = "pub"
    <3>1. thread["pub"] \in {"pointed", "looping"}
          BY <1>1, <1>2, <1>4, <1>5, <2>1, <2>3 DEF Call, Places, Failed
    <3> QED BY <1>3, <1>4, <1>5, <2>2, <2>3, <3>1 DEF Places
  <2>4. CASE s = "log"
    <3>1. early' = (main # "running")
          BY <2>1 DEF Call
    <3>2. main = "running" => pointer["log"] = starts
          BY <1>4, <1>5 DEF Stage, Places
    <3> QED BY <1>3, <2>2, <2>4, <3>1, <3>2
  <2> QED BY <2>3, <2>4 DEF Pointed
<1>10. CASE Use
  <2>1. caller' = "out" /\ caller \in Pointed
        BY <1>10 DEF Use
  <2>2. CASE caller = "log" /\ early
        BY <1>3, <1>10, <2>1, <2>2 DEF Use
  <2>3. CASE caller = "pub" \/ ~early
    <3>1. target = starts /\ object[caller] = starts
          BY <1>1, <1>3, <1>4, <1>5, <2>1, <2>3 DEF Places, Stage, Failed, Pointed
    <3>2. starts # 0
          BY <1>3, <1>5, <2>1, <2>3 DEF CountOK, Stage, Pointed
    <3> QED BY <1>3, <1>10, <2>1, <3>1, <3>2 DEF Use
  <2> QED BY <2>1, <2>2, <2>3 DEF Pointed
<1>11. CASE UNCHANGED vars
       BY <1>3, <1>11 DEF vars
<1> QED BY <1>6, <1>7, <1>8, <1>9, <1>10, <1>11 DEF Next

\* The invariant holds in every state of the program.
LEMMA InductiveInvariant == Spec => []IInv
<1>1. IInv /\ [Next]_vars => IInv'
      BY NextTypes, NextServers, NextCalls DEF IInv
<1> QED BY <1>1, InitIInv, PTL DEF Spec

\* The states of the threads, objects and pointers are what they are taken for, and the
\* counter start() waits for stays between none and all of the servers.
THEOREM TypeCorrect == Spec => []TypeOK /\ [](initServerCount \in 0 .. 3)
<1>1. IInv => initServerCount \in 0 .. 3
  <2>1. IsFiniteSet(Counting) /\ Cardinality(Counting) \in Nat /\ Cardinality(Counting) <= 3
        BY ThreeServers, FS_Subset, FS_CardinalityType DEF Counting
  <2> QED BY <2>1 DEF IInv, CountOK
<1>2. IInv => TypeOK
      BY DEF IInv
<1> QED BY <1>1, <1>2, InductiveInvariant, PTL

\* After start() the three servers loop and the pointers lead to them, after stop() no
\* server is left, and initServerCount counts the threads that loop or have thrown in
\* their loop.
THEOREM Following == Spec => []ServersFollowCalls
<1>1. ASSUME IInv PROVE RunningMeansServed
  <2> SUFFICES ASSUME main = "running", ~Failed
               PROVE  /\ \A s \in Servers : thread[s] = "looping" /\ object[s] = starts
                      /\ \A s \in Pointed : pointer[s] = starts
      BY DEF RunningMeansServed
  <2>1. \A s \in Servers : thread[s] = "looping"
        BY <1>1 DEF IInv, ServerOK, Stage, Failed
  <2>2. Pointed \subseteq Servers
        BY DEF Pointed, Servers
  <2> QED BY <1>1, <2>1, <2>2 DEF IInv, ServerOK, Places
<1>2. ASSUME IInv PROVE StoppedMeansOver
  <2> SUFFICES ASSUME main \in {"out", "starting"}
               PROVE  /\ initServerCount = 0
                      /\ \A s \in Servers : thread[s] \in {"none", "ended"} /\ object[s] = 0
      BY DEF StoppedMeansOver
  <2>1. \A s \in Servers : thread[s] \in {"none", "ended"}
        BY <1>2 DEF IInv, ServerOK, Stage
  <2>2. Counting = {}
        BY <2>1 DEF Counting
  <2> QED BY <1>2, <2>1, <2>2, FS_EmptySet DEF IInv, ServerOK, Places, CountOK
<1>3. IInv => ServersFollowCalls
      BY <1>1, <1>2 DEF ServersFollowCalls, IInv, CountOK, Counting
<1> QED BY <1>3, InductiveInvariant, PTL

\* Until stop() or an exception, no setter and no log after start() goes through a
\* pointer to nothing.
THEOREM Calling == Spec => []CallsSafeUntilStop
<1>1. IInv => CallsSafeUntilStop
      BY DEF IInv, CallsOK, CallsSafeUntilStop
<1> QED BY <1>1, InductiveInvariant, PTL

\* The steps a server thread has left, from its creation to its end.
Left == [none |-> 0, created |-> 5, constructed |-> 4, pointed |-> 3, looping |-> 2, leaving |-> 1,
         ended |-> 0, held |-> 0, failed |-> 0]

\* While stop() joins, every thread has been asked to end.
AllAsked == main = "joining" => \A s \in Servers : over[s]

\* start() waits only for threads that have not counted themselves yet, and stop() only for
\* threads that have ended their loop or will in the next iteration.
NeverStuck ==
    ~Failed =>
        /\ main = "waiting" => \/ AllReady
                               \/ \E s \in Servers : thread[s] \in {"created", "constructed", "pointed"}
        /\ main = "joining" => \/ Joined
                               \/ \E s \in Servers : \/ thread[s] = "looping" /\ over[s]
                                                     \/ thread[s] = "leaving"

\* Meanwhile no thread steps back.
Advance ==
    main' = main => \A s \in Servers : thread'[s] = thread[s] \/ Left[thread'[s]] < Left[thread[s]]

\* Unless a server thread throws, start() and stop() wait for nothing but threads that can go
\* on, each of which has at most five steps to make and makes none twice: they return as soon
\* as these threads were scheduled often enough.
THEOREM Returning == Spec => []NeverStuck /\ [][Advance]_vars
<1>2. Init => AllAsked
      BY DEF Init, AllAsked
<1>3. IInv /\ AllAsked /\ [Next]_vars => AllAsked'
  <2> SUFFICES ASSUME IInv, AllAsked, [Next]_vars, main' = "joining"
               PROVE  \A s \in Servers : over'[s]
      BY DEF AllAsked
  <2>1. CASE Stop
        BY <2>1 DEF Stop, Asked
  <2>2. CASE ~Stop
    <3>1. main = "joining" /\ over' = over
          BY <2>2 DEF Next, Thread, Start, Spawn, StartReturns, StopReturns, Construct, SetPointer,
                      Count, Leave, End, Throw, Call, Use, vars
    <3> QED BY <3>1 DEF AllAsked
  <2> QED BY <2>1, <2>2
<1>4. IInv /\ AllAsked => NeverStuck
  <2> SUFFICES ASSUME IInv, AllAsked, ~Failed PROVE NeverStuck
      BY DEF NeverStuck
  <2>1. ASSUME main = "waiting", ~AllReady
        PROVE  \E s \in Servers : thread[s] \in {"created", "constructed", "pointed"}
    <3>1. Counting # Servers
          BY <2>1, ThreeServers DEF IInv, CountOK, AllReady
    <3>2. PICK s \in Servers : s \notin Counting
          BY <3>1 DEF Counting
    <3> QED BY <2>1, <3>2 DEF IInv, ServerOK, Stage, Counting, Failed
  <2>2. ASSUME main = "joining", ~Joined
        PROVE  \E s \in Servers : (thread[s] = "looping" /\ over[s]) \/ thread[s] = "leaving"
        BY <2>2 DEF IInv, ServerOK, Stage, Failed, AllAsked, Joined
  <2> QED BY <2>1, <2>2 DEF NeverStuck
<1>5. IInv /\ [Next]_vars => Advance
  <2> SUFFICES ASSUME IInv, [Next]_vars, main' = main, NEW s \in Servers
               PROVE  thread'[s] = thread[s] \/ Left[thread'[s]] < Left[thread[s]]
      BY DEF Advance
  <2>1. ASSUME NEW r \in Servers, Thread(r) \/ Throw(r)
        PROVE  thread'[s] = thread[s] \/ Left[thread'[s]] < Left[thread[s]]
    <3>1. CASE r = s
      <4>1. \/ thread[s] = "created" /\ thread'[s] \in {"constructed", "failed"}
            \/ thread[s] = "constructed" /\ thread'[s] = "pointed"
            \/ thread[s] = "pointed" /\ thread'[s] = "looping"
            \/ thread[s] = "looping" /\ thread'[s] \in {"leaving", "held"}
            \/ thread[s] = "leaving" /\ thread'[s] = "ended"
            BY <2>1, <3>1 DEF Thread, Construct, SetPointer, Constructed, Count, Counted, Leave, End,
                              Throw, IInv, TypeOK
      <4> QED BY <4>1 DEF Left
    <3>2. CASE r # s
          BY <2>1, <3>2 DEF Thread, Construct, SetPointer, Count, Leave, End, Throw, IInv, TypeOK
    <3> QED BY <3>1, <3>2
  <2>2. CASE Start \/ Spawn \/ StartReturns \/ Stop \/ StopReturns \/ (\E q \in Pointed : Call(q))
             \/ Use \/ UNCHANGED vars
        BY <2>2 DEF Start, Spawn, StartReturns, Stop, StopReturns, Call, Use, vars
  <2> QED BY <2>1, <2>2 DEF Next
<1> QED BY <1>2, <1>3, <1>4, <1>5, InductiveInvariant, PTL DEF Spec

-----------------------------------------------------------------------------
(***************************************************************************)
(* The history of the logging server, for any value types, names and       *)
(* numbers of values: the ids of a type tell its names apart, the points   *)
(* are the end of what was moved, translated (Translates), what was cut    *)
(* was outlived by something that was moved (CutIsOld), and nothing lies   *)
(* further before what was logged earlier than a timestamp may be late     *)
(* (OrderOK).  A file is such a history, clamped.                          *)
(***************************************************************************)

\* Ids are given in turn, one to a name.
IdsOK(ids) ==
    /\ IsFiniteSet(DOMAIN ids)
    /\ \A n \in DOMAIN ids : ids[n] \in Nat /\ ids[n] < Cardinality(DOMAIN ids)
    /\ \A m, n \in DOMAIN ids : ids[m] = ids[n] => m = n

\* The point p stands for the entry e.
Stands(ids, p, e) ==
    e.name \in DOMAIN ids /\ p.id = ids[e.name] /\ p.ts = e.ts /\ p.value = e.value

\* The points v are the end of the entries h; the last one always stays.
Translates(ids, h, v) ==
    /\ Len(v) <= Len(h) /\ (h # <<>> => v # <<>>)
    /\ \A i \in 1 .. Len(v) : Stands(ids, v[i], h[Cut(h, v) + i])

\* Something in the histories hs is younger by more than the length of the history.
Outlived(hs, ts) ==
    \E u \in Type : \E j \in 1 .. Len(hs[u]) : ts < hs[u][j].ts - LengthHistory

CutIsOld(hs, h, v) ==
    \A i \in 1 .. Cut(h, v) : LengthHistory > 0 /\ Outlived(hs, h[i].ts)

\* Sorted, but for timestamps that are late.
Sorted(s) == \A i, j \in 1 .. Len(s) : i < j => s[i].ts <= s[j].ts + MaxLag
Before(s, r) == \A i \in 1 .. Len(s), j \in 1 .. Len(r) : s[i].ts <= r[j].ts + MaxLag
Until(s, time) == \A i \in 1 .. Len(s) : s[i].ts <= time

History(ids, vs, hs) ==
    \A t \in Type : /\ IdsOK(ids[t]) /\ Translates(ids[t], hs[t], vs[t])
                    /\ CutIsOld(hs, hs[t], vs[t])

\* The histories, the buffers and the queues, one after the other.
Ordered(h, r, q, time) ==
    /\ Sorted(h) /\ Sorted(r) /\ Sorted(q)
    /\ Before(h, r) /\ Before(h, q) /\ Before(r, q)
    /\ Until(h, time) /\ Until(r, time) /\ Until(q, time)

\* Of each type.
OrderOK == \A t \in Type : Ordered(moved[t], reading[t], queue[t], clock)

\* The front of a history is not too old, by the newest of the histories.
FrontOK(vs, v) ==
    LengthHistory > 0 /\ Len(v) > 1 =>
        \A u \in Type : vs[u] # <<>> => v[1].ts >= Newest(vs[u]) - LengthHistory

\* So far as the tick has come.
ClampOK == \A k \in 1 .. N : step = 0 \/ step > 2 * N + k => FrontOK(values, values[Types[k]])

FileOK ==
    file = NoFile \/
        /\ file.values \in [Type -> Seq(Points)] /\ file.moved \in [Type -> Seq(Entries)]
        /\ History(file.mapping, file.values, file.moved)
        /\ \A t \in Type : /\ Sorted(file.moved[t])
                           /\ FrontOK(file.values, file.values[t])

\* The inductive invariant.
LogInv == LogTypeOK /\ History(mapping, values, moved) /\ OrderOK /\ ClampOK /\ FileOK

-----------------------------------------------------------------------------
\* The types have numbers, and no number is that of two types.
LEMMA TypeNumbers ==
    /\ N \in Nat /\ N > 0
    /\ \A k \in 1 .. N : Types[k] \in Type
    /\ \A t \in Type : \E k \in 1 .. N : Types[k] = t
    /\ \A k, l \in 1 .. N : Types[k] = Types[l] => k = l
<1>1. N \in Nat /\ N > 0 /\ DOMAIN Types = 1 .. N
  BY ServerLogAssumption DEF N
<1> QED
  BY <1>1, ServerLogAssumption DEF Type, Range, IsInjective

\* The length of the history is a number; less is never counted than was asked for when
\* the microseconds fit in an unsigned int.
LEMMA Lengths ==
    /\ LengthHistory \in Int
    /\ LengthHistory > 0 => LogLengthSecs # Forever
    /\ LogLengthSecs # Forever =>
          /\ LogLengthSecs * Second \in Nat
          /\ LengthHistory <= LogLengthSecs * Second
          /\ LogLengthSecs * Second < Wrap => LengthHistory = LogLengthSecs * Second
<1>1. CASE LogLengthSecs = Forever
  BY <1>1 DEF LengthHistory
<1>2. CASE LogLengthSecs # Forever
  <2>1. ASSUME NEW x \in Nat, NEW w \in Nat \ {0}
        PROVE  x % w \in Nat /\ x % w <= x /\ (x < w => x % w = x)
    OBVIOUS
  <2>2. LogLengthSecs * Second \in Nat /\ Wrap \in Nat \ {0}
    BY <1>2, ServerLogAssumption
  <2>3. LengthHistory = (LogLengthSecs * Second) % Wrap
    BY <1>2 DEF LengthHistory
  <2> QED
    BY <1>2, <2>1, <2>2, <2>3
<1> QED
  BY <1>1, <1>2

\* The ids new are the ids with the next one for n.
Learns(ids, n, new) ==
    /\ DOMAIN new = DOMAIN ids \cup {n} /\ \A m \in DOMAIN ids : new[m] = ids[m]
    /\ n \notin DOMAIN ids => new[n] = Cardinality(DOMAIN ids)

\* A name that is moved has an id of its own, and its point is the last.
LEMMA Appended ==
    ASSUME NEW ids, NEW h \in Seq(Entries), NEW v \in Seq(Points), NEW e \in Entries,
           IdsOK(ids), Translates(ids, h, v),
           NEW new, Learns(ids, e.name, new), NEW p \in Points, Stands(new, p, e)
    PROVE  /\ IdsOK(new) /\ Translates(new, Append(h, e), Append(v, p))
           /\ Cut(Append(h, e), Append(v, p)) = Cut(h, v)
<1> DEFINE names == DOMAIN ids
           more == names \cup {e.name}
<1>1. /\ IsFiniteSet(names) /\ Cardinality(names) \in Nat /\ IsFiniteSet(more)
      /\ Cardinality(more) = IF e.name \in names THEN Cardinality(names)
                             ELSE Cardinality(names) + 1
  BY FS_AddElement, FS_CardinalityType DEF IdsOK
<1>2. /\ DOMAIN new = more
      /\ \A m \in names : m \in more /\ new[m] = ids[m]
      /\ e.name \notin names => new[e.name] = Cardinality(names)
  BY DEF Learns
<1>3. /\ \A n \in names : ids[n] \in Nat /\ ids[n] < Cardinality(names)
      /\ \A m, n \in names : ids[m] = ids[n] => m = n
  BY DEF IdsOK
<1> HIDE DEF names, more
<1>4. \A m \in more : m \in names \/ m = e.name
  BY DEF more
<1>5. ASSUME NEW n \in more
      PROVE  new[n] \in Nat /\ new[n] < Cardinality(more)
  <2>1. CASE n \in names
    <3>1. new[n] = ids[n] /\ ids[n] \in Nat /\ ids[n] < Cardinality(names)
      BY <1>2, <1>3, <2>1
    <3>2. Cardinality(more) = Cardinality(names) \/ Cardinality(more) = Cardinality(names) + 1
      BY <1>1
    <3> QED
      BY <1>1, <3>1, <3>2
  <2>2. CASE n \notin names
    <3>1. n = e.name /\ new[n] = Cardinality(names)
      BY <1>2, <1>4, <2>2
    <3>2. Cardinality(more) = Cardinality(names) + 1
      BY <1>1, <2>2, <3>1
    <3> QED
      BY <1>1, <3>1, <3>2
  <2> QED
    BY <2>1, <2>2
<1>6. ASSUME NEW m \in more, NEW n \in more, new[m] = new[n]
      PROVE  m = n
  <2>1. ASSUME NEW a \in names, NEW b \in more, b \notin names
        PROVE  new[a] # new[b]
    <3>1. new[a] \in Nat /\ new[a] < Cardinality(names)
      BY <1>2, <1>3, <2>1
    <3>2. b = e.name /\ new[b] = Cardinality(names)
      BY <1>2, <1>4, <2>1
    <3> QED
      BY <1>1, <3>1, <3>2
  <2>2. m \in names <=> n \in names
    BY <1>6, <2>1
  <2>3. CASE m \in names
    <3>1. m \in names /\ n \in names
      BY <2>2, <2>3
    <3>2. ids[m] = ids[n]
      BY <1>2, <1>6, <3>1
    <3> QED
      BY <1>3, <3>1, <3>2
  <2>4. CASE m \notin names
    BY <1>4, <2>2, <2>4
  <2> QED
    BY <2>3, <2>4
<1>7. IdsOK(new)
  BY <1>1, <1>2, <1>5, <1>6 DEF IdsOK
<1> DEFINE h2 == Append(h, e)
           v2 == Append(v, p)
<1>8. /\ Len(h2) = Len(h) + 1 /\ Len(v2) = Len(v) + 1 /\ Len(h) \in Nat /\ Len(v) \in Nat
      /\ \A i \in 1 .. Len(h) : h2[i] = h[i]
      /\ \A i \in 1 .. Len(v) : v2[i] = v[i]
      /\ h2[Len(h) + 1] = e /\ v2[Len(v) + 1] = p
  OBVIOUS
<1>9. Len(v) <= Len(h) /\ \A i \in 1 .. Len(v) : Stands(ids, v[i], h[Cut(h, v) + i])
  BY DEF Translates
<1>10. v2 # <<>> /\ e.name \in more
  BY <1>8 DEF more
<1> HIDE DEF h2, v2
<1>11. Cut(h2, v2) = Cut(h, v) /\ Cut(h, v) \in Nat
  BY <1>8, <1>9 DEF Cut
<1>12. ASSUME NEW i \in 1 .. Len(v)
       PROVE  Stands(new, v2[i], h2[Cut(h, v) + i])
  <2>1. Cut(h, v) + i \in 1 .. Len(h)
    BY <1>8, <1>9 DEF Cut
  <2>2. h2[Cut(h, v) + i] = h[Cut(h, v) + i] /\ v2[i] = v[i]
    BY <1>8, <2>1
  <2> QED
    BY <1>2, <1>9, <2>2 DEF Stands, names
<1>13. Stands(new, v2[Len(v) + 1], h2[Cut(h, v) + (Len(v) + 1)])
  <2>1. Cut(h, v) + (Len(v) + 1) = Len(h) + 1
    BY <1>8 DEF Cut
  <2> QED
    BY <1>8, <2>1
<1>14. \A i \in 1 .. Len(v2) : Stands(new, v2[i], h2[Cut(h, v) + i])
  <2> TAKE i \in 1 .. Len(v2)
  <2>1. i \in 1 .. Len(v) \/ i = Len(v) + 1
    BY <1>8
  <2> QED
    BY <1>12, <1>13, <2>1
<1>15. Translates(new, h2, v2)
  <2>1. Len(v2) <= Len(h2)
    BY <1>8, <1>9
  <2>2. \A i \in 1 .. Len(v2) : Stands(new, v2[i], h2[Cut(h2, v2) + i])
    BY <1>11, <1>14
  <2> QED
    BY <1>10, <2>1, <2>2 DEF Translates
<1> QED
  BY <1>7, <1>11, <1>15 DEF h2, v2

\* The front of a history that is cut leaves its end.
LEMMA Popped ==
    ASSUME NEW ids, NEW h \in Seq(Entries), NEW v \in Seq(Points), Translates(ids, h, v),
           Len(v) > 1
    PROVE  /\ Tail(v) \in Seq(Points) /\ Translates(ids, h, Tail(v))
           /\ Cut(h, Tail(v)) = Cut(h, v) + 1
           /\ Newest(Tail(v)) = Newest(v) /\ Tail(v) # <<>>
<1> DEFINE r == Tail(v)
<1>1. /\ r \in Seq(Points) /\ Len(r) = Len(v) - 1 /\ Len(h) \in Nat /\ Len(v) \in Nat
      /\ \A i \in 1 .. Len(r) : r[i] = v[i + 1]
  <2>1. Len(h) \in Nat /\ Len(v) \in Nat /\ v # <<>>
    OBVIOUS
  <2>2. r \in Seq(Points) /\ Len(r) = Len(v) - 1
    BY <2>1
  <2>3. \A i \in 1 .. Len(r) : r[i] = v[i + 1]
    BY <2>1, <2>2
  <2> QED
    BY <2>1, <2>2, <2>3
<1> HIDE DEF r
<1>6. r # <<>>
  BY <1>1
<1>2. Len(v) <= Len(h) /\ \A i \in 1 .. Len(v) : Stands(ids, v[i], h[Cut(h, v) + i])
  BY DEF Translates
<1>3. Cut(h, r) = Cut(h, v) + 1 /\ Cut(h, v) \in Nat
  BY <1>1, <1>2 DEF Cut
<1>4. ASSUME NEW i \in 1 .. Len(r)
      PROVE  Stands(ids, r[i], h[Cut(h, r) + i])
  <2>1. i + 1 \in 1 .. Len(v) /\ Cut(h, r) + i = Cut(h, v) + (i + 1)
    BY <1>1, <1>3
  <2> QED
    BY <1>1, <1>2, <2>1
<1>5. Newest(r) = Newest(v)
  BY <1>1 DEF Newest
<1> QED
  BY <1>1, <1>2, <1>3, <1>4, <1>5, <1>6 DEF r, Translates

-----------------------------------------------------------------------------
\* Entries and points have a time.
LEMMA Timed ==
    /\ \A s \in Seq(Entries) : Len(s) \in Nat /\ \A i \in 1 .. Len(s) : s[i] \in Entries /\ s[i].ts \in Nat
    /\ \A s \in Seq(Points) : Len(s) \in Nat /\ \A i \in 1 .. Len(s) : s[i] \in Points /\ s[i].ts \in Nat
<1>1. \A e \in Entries : e.ts \in Nat
  BY DEF Entries
<1>2. \A p \in Points : p.ts \in Nat
  BY DEF Points
<1>3. ASSUME NEW s \in Seq(Entries)
      PROVE  Len(s) \in Nat /\ \A i \in 1 .. Len(s) : s[i] \in Entries
  OBVIOUS
<1>4. ASSUME NEW s \in Seq(Points)
      PROVE  Len(s) \in Nat /\ \A i \in 1 .. Len(s) : s[i] \in Points
  OBVIOUS
<1> QED
  BY <1>1, <1>2, <1>3, <1>4

\* A value that is logged now comes last.
LEMMA OrderLogged ==
    ASSUME NEW h \in Seq(Entries), NEW r \in Seq(Entries), NEW q \in Seq(Entries),
           NEW time \in Nat, NEW e \in Entries, Ordered(h, r, q, time),
           e.ts <= time, time <= e.ts + MaxLag
    PROVE  Ordered(h, r, Append(q, e), time)
<1> DEFINE p == Append(q, e)
<1>1. /\ Len(p) = Len(q) + 1 /\ Len(q) \in Nat /\ Len(h) \in Nat /\ Len(r) \in Nat
      /\ p[Len(q) + 1] = e /\ \A i \in 1 .. Len(q) : p[i] = q[i]
      /\ \A i \in 1 .. Len(p) : i \in 1 .. Len(q) \/ i = Len(q) + 1
  OBVIOUS
<1> HIDE DEF p
<1>12. e.ts \in Nat /\ MaxLag \in Nat
  BY ServerLogAssumption DEF Entries
<1>13. /\ \A i \in 1 .. Len(q) : q[i].ts \in Nat
       /\ \A i \in 1 .. Len(h) : h[i].ts \in Nat
       /\ \A i \in 1 .. Len(r) : r[i].ts \in Nat
  BY Timed
<1>14. \A x \in Nat : x <= time => x <= e.ts + MaxLag
  BY <1>12
<1>4. Until(p, time)
  BY <1>1 DEF Ordered, Until
<1>5. ASSUME NEW i \in 1 .. Len(p), NEW j \in 1 .. Len(p), i < j
      PROVE  p[i].ts <= p[j].ts + MaxLag
  <2>1. i \in 1 .. Len(q)
    BY <1>1, <1>5
  <2>2. CASE j = Len(q) + 1
    BY <1>1, <1>13, <1>14, <2>1, <2>2 DEF Ordered, Until
  <2>3. CASE j \in 1 .. Len(q)
    BY <1>1, <1>5, <2>1, <2>3 DEF Ordered, Sorted
  <2> QED
    BY <1>1, <2>2, <2>3
<1>2. Sorted(p) /\ Until(p, time)
  BY <1>4, <1>5 DEF Sorted
<1>3. Before(h, p) /\ Before(r, p)
  BY <1>1, <1>13, <1>14 DEF Ordered, Before, Until
<1> QED
  BY <1>2, <1>3 DEF Ordered, p

\* What was in the queue is in the buffer, and what is logged from now on comes later.
LEMMA OrderSwapped ==
    ASSUME NEW h, NEW r, NEW q, NEW time, Ordered(h, r, q, time)
    PROVE  Ordered(h, q, <<>>, time)
BY DEF Ordered, Sorted, Before, Until

\* The first of the buffer follows all that was moved.
LEMMA OrderMoved ==
    ASSUME NEW h \in Seq(Entries), NEW r \in Seq(Entries), NEW q \in Seq(Entries),
           NEW time \in Nat, r # <<>>, Ordered(h, r, q, time)
    PROVE  Ordered(Append(h, Head(r)), Tail(r), q, time)
<1> DEFINE a == Append(h, Head(r))
           b == Tail(r)
<1>1. Len(h) \in Nat /\ Len(r) \in Nat \ {0} /\ Len(q) \in Nat
  OBVIOUS
<1>2. /\ Len(a) = Len(h) + 1 /\ a[Len(h) + 1] = r[1] /\ \A i \in 1 .. Len(h) : a[i] = h[i]
      /\ \A i \in 1 .. Len(a) : i \in 1 .. Len(h) \/ i = Len(h) + 1
  BY <1>1
<1>3. /\ Len(b) = Len(r) - 1
      /\ \A i \in 1 .. Len(b) : b[i] = r[i + 1] /\ i + 1 \in 1 .. Len(r) /\ 1 < i + 1
  BY <1>1
<1>4. \A i \in 1 .. Len(r) : r[1].ts <= r[i].ts + MaxLag
  <2> TAKE i \in 1 .. Len(r)
  <2>1. i = 1 \/ 1 < i
    OBVIOUS
  <2>2. r[i].ts \in Nat /\ MaxLag \in Nat
    BY Timed, ServerLogAssumption
  <2> QED
    BY <1>1, <2>1, <2>2 DEF Ordered, Sorted
<1> HIDE DEF a, b
<1>8. 1 \in 1 .. Len(r)
  BY <1>1
<1>9. Until(a, time) /\ Before(a, q)
  BY <1>1, <1>2, <1>8 DEF Ordered, Until, Before
<1>10. ASSUME NEW i \in 1 .. Len(a), NEW j \in 1 .. Len(a), i < j
       PROVE  a[i].ts <= a[j].ts + MaxLag
  <2>1. i \in 1 .. Len(h)
    BY <1>1, <1>2, <1>10
  <2>2. CASE j = Len(h) + 1
    BY <1>2, <1>8, <2>1, <2>2 DEF Ordered, Before
  <2>3. CASE j \in 1 .. Len(h)
    BY <1>2, <1>10, <2>1, <2>3 DEF Ordered, Sorted
  <2> QED
    BY <1>2, <2>2, <2>3
<1>5. Sorted(a) /\ Until(a, time) /\ Before(a, q)
  BY <1>9, <1>10 DEF Sorted
<1>11. \A i, j \in 1 .. Len(b) : i < j => i + 1 < j + 1
  BY <1>1, <1>3
<1>12. Sorted(b)
  BY <1>3, <1>11 DEF Ordered, Sorted
<1>6. Sorted(b) /\ Until(b, time) /\ Before(b, q)
  BY <1>3, <1>12 DEF Ordered, Until, Before
<1>7. Before(a, b)
  BY <1>1, <1>2, <1>3, <1>4 DEF Ordered, Before
<1> QED
  BY <1>5, <1>6, <1>7 DEF Ordered, a, b

\* Time goes on.
LEMMA OrderLater ==
    ASSUME NEW h \in Seq(Entries), NEW r \in Seq(Entries), NEW q \in Seq(Entries),
           NEW time \in Nat, Ordered(h, r, q, time)
    PROVE  Ordered(h, r, q, time + 1)
<1> SUFFICES ASSUME NEW s \in Seq(Entries), Until(s, time) PROVE Until(s, time + 1)
  BY DEF Ordered
<1>1. ASSUME NEW i \in 1 .. Len(s)
      PROVE  s[i].ts <= time + 1
  <2>1. s[i].ts \in Nat
    BY Timed
  <2>2. s[i].ts <= time
    BY DEF Until
  <2> QED
    BY <2>1, <2>2
<1> QED
  BY <1>1 DEF Until

-----------------------------------------------------------------------------
\* What the types say of the entries and points.
LEMMA Stamps ==
    ASSUME LogTypeOK, NEW t \in Type
    PROVE  /\ queue[t] \in Seq(Entries) /\ reading[t] \in Seq(Entries) /\ moved[t] \in Seq(Entries)
           /\ values[t] \in Seq(Points) /\ \A i \in 1 .. Len(values[t]) : values[t][i].ts \in Nat
<1>1. values[t] \in Seq(Points)
  BY DEF LogTypeOK
<1>2. \A i \in 1 .. Len(values[t]) : values[t][i].ts \in Nat
  BY <1>1, Timed
<1> QED
  BY <1>1, <1>2 DEF LogTypeOK

\* Whether the front is to go.
LEMMA Fronts ==
    ASSUME LogTypeOK, NEW t \in Type
    PROVE  Excess(t) <=> ~FrontOK(values, values[t])
<1>1. ASSUME NEW u \in Type, values[u] # <<>>
      PROVE  Newest(values[u]) \in Nat
  <2>1. values[u] \in Seq(Points) /\ Len(values[u]) \in 1 .. Len(values[u])
    BY <1>1, Stamps
  <2> QED
    BY <2>1, Stamps DEF Newest
<1>2. Len(values[t]) > 1 => values[t][1].ts \in Nat
  BY Stamps
<1>3. LengthHistory \in Int
  BY Lengths
<1> DEFINE x == values[t][1].ts
<1>4. ASSUME Len(values[t]) > 1
      PROVE  TooOld(x) <=> \E u \in Type : values[u] # <<>> /\ ~(x >= Newest(values[u]) - LengthHistory)
  <2>1. x \in Nat
    BY <1>2, <1>4
  <2> HIDE DEF x
  <2> QED
    BY <1>1, <1>3, <2>1 DEF TooOld
<1> QED
  BY <1>4 DEF Excess, FrontOK

\* Initially there is nothing.
LEMMA LogInitInv == LogInit => LogInv
<1> SUFFICES ASSUME LogInit PROVE LogInv
  OBVIOUS
<1>1. LogTypeOK
  <2>1. <<>> \in Seq(Entries) /\ <<>> \in Seq(Points)
    OBVIOUS
  <2>2. <<>> \in [{} -> Nat]
    OBVIOUS
  <2>3. <<>> \in UNION {[names -> Nat] : names \in SUBSET Name}
    BY <2>2
  <2>4. {queue, reading, moved} \subseteq [Type -> Seq(Entries)] /\ values \in [Type -> Seq(Points)]
    BY <2>1 DEF LogInit
  <2>5. mapping \in [Type -> UNION {[names -> Nat] : names \in SUBSET Name}]
    BY <2>3 DEF LogInit
  <2>6. step \in 0 .. 3 * N /\ clock \in Nat /\ entries \in Nat
    BY TypeNumbers DEF LogInit
  <2> QED
    BY <2>4, <2>5, <2>6 DEF LogTypeOK
<1>2. History(mapping, values, moved)
  <2>1. IdsOK(<<>>)
    BY FS_EmptySet DEF IdsOK
  <2>2. Translates(<<>>, <<>>, <<>>) /\ CutIsOld(moved, <<>>, <<>>)
    BY DEF Translates, CutIsOld, Cut
  <2> QED
    BY <2>1, <2>2 DEF LogInit, History
<1>3. OrderOK
  BY DEF LogInit, OrderOK, Ordered, Sorted, Before, Until
<1>4. ClampOK
  BY TypeNumbers DEF LogInit, ClampOK, FrontOK
<1>5. FileOK
  BY DEF LogInit, FileOK
<1> QED
  BY <1>1, <1>2, <1>3, <1>4, <1>5 DEF LogInv

-----------------------------------------------------------------------------
\* A step that leaves the histories and the step of the tick alone.
LEMMA QuietStep ==
    ASSUME LogInv, UNCHANGED <<mapping, values, moved, step, file>>
    PROVE  History(mapping, values, moved)' /\ ClampOK' /\ FileOK'
<1>1. mapping' = mapping /\ values' = values /\ moved' = moved /\ step' = step /\ file' = file
  OBVIOUS
<1>2. History(mapping, values, moved)'
  BY <1>1 DEF LogInv, History, CutIsOld, Outlived
<1>3. ClampOK'
  BY <1>1 DEF LogInv, ClampOK, FrontOK
<1>4. FileOK'
  BY <1>1 DEF LogInv, FileOK, History, CutIsOld, Outlived, FrontOK
<1> QED
  BY <1>2, <1>3, <1>4

\* A step of the tick that leaves the histories alone and no type behind.
LEMMA TickStep ==
    ASSUME LogInv, UNCHANGED <<mapping, values, moved, file>>, step' \in 1 .. 3 * N,
           \A k \in 1 .. N : step' > 2 * N + k =>
               (step > 2 * N + k \/ FrontOK(values, values[Types[k]]))
    PROVE  History(mapping, values, moved)' /\ ClampOK' /\ FileOK'
<1>1. mapping' = mapping /\ values' = values /\ moved' = moved /\ file' = file
  OBVIOUS
<1>2. History(mapping, values, moved)'
  BY <1>1 DEF LogInv, History, CutIsOld, Outlived
<1>3. ASSUME NEW k \in 1 .. N, step' = 0 \/ step' > 2 * N + k
      PROVE  FrontOK(values, values[Types[k]])
  <2>1. step' > 2 * N + k
    BY <1>3
  <2> QED
    BY <2>1 DEF LogInv, ClampOK
<1>4. ClampOK'
  BY <1>1, <1>3 DEF ClampOK, FrontOK
<1>5. FileOK'
  BY <1>1 DEF LogInv, FileOK, History, CutIsOld, Outlived, FrontOK
<1> QED
  BY <1>2, <1>4, <1>5

\* Time passes.
LEMMA ElapseKeeps == LogInv /\ Elapse => LogInv'
<1> SUFFICES ASSUME LogInv, Elapse PROVE LogInv'
  OBVIOUS
<1>1. LogTypeOK'
  BY DEF LogInv, LogTypeOK, Elapse
<1>2. OrderOK'
  <2>1. /\ moved' = moved /\ reading' = reading /\ queue' = queue /\ clock' = clock + 1
        /\ clock \in Nat
    BY DEF Elapse, LogInv, LogTypeOK
  <2>2. ASSUME NEW t \in Type
        PROVE  Ordered(moved[t], reading[t], queue[t], clock + 1)
    BY <2>1, <2>2, OrderLater, Stamps DEF LogInv, OrderOK
  <2> QED
    BY <2>1, <2>2 DEF OrderOK
<1> QED
  BY <1>1, <1>2, QuietStep DEF LogInv, Elapse

\* A value is logged: it is the last of its queue, and late by MaxLag at most.
LEMMA LogValueKeeps ==
    ASSUME LogInv, NEW t \in Type, NEW n \in Name, LogValue(t, n)
    PROVE  LogInv'
<1>1. PICK lag \in 0 .. MaxLag :
          /\ lag <= clock
          /\ queue' = IF Room(t)
                      THEN [queue EXCEPT ![t] = Append(@, [name |-> n, ts |-> clock - lag,
                                                           value |-> entries])]
                      ELSE queue
  BY DEF LogValue
<1> DEFINE e == [name |-> n, ts |-> clock - lag, value |-> entries]
<1>2. e \in Entries /\ e.ts = clock - lag /\ clock \in Nat /\ entries \in Nat /\ MaxLag \in Nat
  <2>1. clock \in Nat /\ entries \in Nat /\ MaxLag \in Nat
    BY ServerLogAssumption DEF LogInv, LogTypeOK
  <2>2. clock - lag \in Nat
    BY <1>1, <2>1
  <2> QED
    BY <2>1, <2>2 DEF Entries
<1>3. queue \in [Type -> Seq(Entries)]
  BY DEF LogInv, LogTypeOK
<1>4. /\ queue' = [queue EXCEPT ![t] = Append(queue[t], e)] \/ queue' = queue
      /\ UNCHANGED <<reading, mapping, values, step, file, clock, moved>>
      /\ entries' = entries + 1
  BY <1>1 DEF LogValue
<1> HIDE DEF e
<1>5. queue' \in [Type -> Seq(Entries)]
  <2>1. Append(queue[t], e) \in Seq(Entries)
    BY <1>2, <1>3
  <2> QED
    BY <1>3, <1>4, <2>1
<1>6. LogTypeOK'
  BY <1>2, <1>4, <1>5 DEF LogInv, LogTypeOK
<1>7. OrderOK'
  <2>1. ASSUME NEW u \in Type
        PROVE  Ordered(moved[u], reading[u], queue'[u], clock)
    <3>1. e.ts <= clock /\ clock <= e.ts + MaxLag
      BY <1>1, <1>2
    <3>2. Ordered(moved[u], reading[u], queue[u], clock)
      BY <2>1 DEF LogInv, OrderOK
    <3>3. CASE queue'[u] = queue[u]
      BY <3>2, <3>3
    <3>4. CASE queue'[u] # queue[u]
      <4>1. queue'[u] = Append(queue[u], e)
        BY <1>3, <1>4, <3>4
      <4>2. Ordered(moved[u], reading[u], Append(queue[u], e), clock)
        BY <1>2, <3>1, <3>2, OrderLogged, Stamps DEF LogInv
      <4> QED
        BY <4>1, <4>2
    <3> QED
      BY <3>3, <3>4
  <2> QED
    BY <1>4, <2>1 DEF OrderOK
<1> QED
  BY <1>4, <1>6, <1>7, QuietStep DEF LogInv

\* A tick begins.
LEMMA BeginKeeps == LogInv /\ BeginTick => LogInv'
<1> SUFFICES ASSUME LogInv, BeginTick PROVE LogInv'
  OBVIOUS
<1>1. step' = 1 /\ N \in Nat /\ N > 0
  BY TypeNumbers DEF BeginTick
<1>2. step' \in 0 .. 3 * N /\ step' \in 1 .. 3 * N /\ \A k \in 1 .. N : ~(step' > 2 * N + k)
  BY <1>1
<1>3. LogTypeOK' /\ OrderOK'
  BY <1>2 DEF LogInv, LogTypeOK, OrderOK, BeginTick
<1>4. UNCHANGED <<mapping, values, moved, file>>
  BY DEF BeginTick
<1>5. History(mapping, values, moved)' /\ ClampOK' /\ FileOK'
  BY <1>2, <1>4, TickStep
<1> QED
  BY <1>3, <1>5 DEF LogInv

\* A queue becomes the buffer of the reader.
LEMMA SwapKeeps == LogInv /\ Swap => LogInv'
<1> SUFFICES ASSUME LogInv, Swap PROVE LogInv'
  OBVIOUS
<1>1. step \in 1 .. N /\ step' = step + 1 /\ N \in Nat /\ N > 0
  BY TypeNumbers DEF Swap
<1>2. step' \in 0 .. 3 * N /\ step' \in 1 .. 3 * N /\ \A k \in 1 .. N : ~(step' > 2 * N + k)
  BY <1>1
<1> DEFINE t == Types[step]
<1>3. /\ t \in Type
      /\ reading' = [reading EXCEPT ![t] = queue[t]] /\ queue' = [queue EXCEPT ![t] = <<>>]
      /\ UNCHANGED <<mapping, values, file, clock, entries, moved>>
  BY <1>1, TypeNumbers DEF Swap
<1> HIDE DEF t
<1>4. {queue, reading} \subseteq [Type -> Seq(Entries)]
  BY DEF LogInv, LogTypeOK
<1>5. /\ {queue', reading'} \subseteq [Type -> Seq(Entries)]
      /\ reading'[t] = queue[t] /\ queue'[t] = <<>>
      /\ \A u \in Type \ {t} : reading'[u] = reading[u] /\ queue'[u] = queue[u]
  BY <1>3, <1>4
<1>6. LogTypeOK'
  BY <1>2, <1>3, <1>5 DEF LogInv, LogTypeOK
<1>7. OrderOK'
  <2>1. ASSUME NEW u \in Type
        PROVE  Ordered(moved[u], reading'[u], queue'[u], clock)
    <3>1. Ordered(moved[u], reading[u], queue[u], clock)
      BY <2>1 DEF LogInv, OrderOK
    <3>2. CASE u = t
      BY <1>5, <3>1, <3>2, OrderSwapped
    <3>3. CASE u # t
      BY <1>5, <3>1, <3>3
    <3> QED
      BY <3>2, <3>3
  <2> QED
    BY <1>3, <2>1 DEF OrderOK
<1>8. History(mapping, values, moved)' /\ ClampOK' /\ FileOK'
  BY <1>2, <1>3, TickStep
<1> QED
  BY <1>6, <1>7, <1>8 DEF LogInv

\* All of a buffer is moved.
LEMMA EndTransferKeeps == LogInv /\ EndTransfer => LogInv'
<1> SUFFICES ASSUME LogInv, EndTransfer PROVE LogInv'
  OBVIOUS
<1>1. step \in N + 1 .. 2 * N /\ step' = step + 1 /\ N \in Nat /\ N > 0
  BY TypeNumbers DEF EndTransfer
<1>2. step' \in 0 .. 3 * N /\ step' \in 1 .. 3 * N /\ \A k \in 1 .. N : ~(step' > 2 * N + k)
  BY <1>1
<1>3. LogTypeOK' /\ OrderOK'
  BY <1>2 DEF LogInv, LogTypeOK, OrderOK, EndTransfer
<1>4. UNCHANGED <<mapping, values, moved, file>>
  BY DEF EndTransfer
<1>5. History(mapping, values, moved)' /\ ClampOK' /\ FileOK'
  BY <1>2, <1>4, TickStep
<1> QED
  BY <1>3, <1>5 DEF LogInv

\* What was outlived still is when more is moved.
LEMMA MoreOutlives ==
    ASSUME LogTypeOK, NEW t \in Type, NEW e \in Entries,
           NEW hs, hs = [moved EXCEPT ![t] = Append(moved[t], e)], NEW ts, Outlived(moved, ts)
    PROVE  Outlived(hs, ts)
<1>1. PICK u \in Type : \E j \in 1 .. Len(moved[u]) : ts < moved[u][j].ts - LengthHistory
  BY DEF Outlived
<1>2. PICK j \in 1 .. Len(moved[u]) : ts < moved[u][j].ts - LengthHistory
  BY <1>1
<1>3. moved[u] \in Seq(Entries) /\ moved \in [Type -> Seq(Entries)]
  BY DEF LogTypeOK
<1>4. j \in 1 .. Len(hs[u]) /\ hs[u][j] = moved[u][j]
  <2>1. CASE u = t
    <3>1. hs[u] = Append(moved[u], e)
      BY <1>3, <2>1
    <3> QED
      BY <1>3, <3>1
  <2>2. CASE u # t
    BY <1>3, <2>2
  <2> QED
    BY <2>1, <2>2
<1> QED
  BY <1>2, <1>4 DEF Outlived

\* One entry is moved and becomes a point.
LEMMA TransferKeeps == LogInv /\ Transfer => LogInv'
<1> SUFFICES ASSUME LogInv, Transfer PROVE LogInv'
  OBVIOUS
<1>1. step \in N + 1 .. 2 * N /\ N \in Nat /\ N > 0
  BY TypeNumbers DEF Transfer
<1> DEFINE t == Types[step - N]
           e == Head(reading[t])
           ids == Mapped(t, e.name)
           p == [id |-> ids[e.name], ts |-> e.ts, value |-> e.value]
<1>2. t \in Type
  <2>1. step - N \in 1 .. N
    BY <1>1
  <2> QED
    BY <2>1, TypeNumbers
<1>3. /\ reading[t] # <<>>
      /\ mapping' = [mapping EXCEPT ![t] = ids]
      /\ values' = [values EXCEPT ![t] = Append(values[t], p)]
      /\ moved' = [moved EXCEPT ![t] = Append(moved[t], e)]
      /\ reading' = [reading EXCEPT ![t] = Tail(reading[t])]
      /\ UNCHANGED <<queue, step, file, clock, entries>>
  BY DEF Transfer
<1>4. /\ {queue, reading, moved} \subseteq [Type -> Seq(Entries)] /\ values \in [Type -> Seq(Points)]
      /\ mapping \in [Type -> UNION {[names -> Nat] : names \in SUBSET Name}] /\ LogTypeOK
  BY DEF LogInv, LogTypeOK
<1> HIDE DEF t
<1>5. reading[t] \in Seq(Entries) /\ e \in Entries /\ Tail(reading[t]) \in Seq(Entries)
  <2>1. reading[t] \in Seq(Entries)
    BY <1>2, <1>4
  <2> QED
    BY <1>3, <2>1
<1>6. ids = [m \in DOMAIN mapping[t] \cup {e.name} |->
                IF m \in DOMAIN mapping[t] THEN mapping[t][m] ELSE Cardinality(DOMAIN mapping[t])]
  BY DEF Mapped, NextId
<1>7. e.name \in Name /\ e.ts \in Nat /\ e.value \in Nat
  BY <1>5 DEF Entries
<1> HIDE DEF e
<1>8. IdsOK(mapping[t]) /\ Translates(mapping[t], moved[t], values[t])
      /\ moved[t] \in Seq(Entries) /\ values[t] \in Seq(Points)
  BY <1>2, <1>4 DEF LogInv, History
<1>9. ids \in [DOMAIN mapping[t] \cup {e.name} -> Nat] /\ DOMAIN mapping[t] \subseteq Name
  <2>1. PICK names \in SUBSET Name : mapping[t] \in [names -> Nat]
    BY <1>2, <1>4
  <2>2. Cardinality(DOMAIN mapping[t]) \in Nat
    BY <1>8, FS_CardinalityType DEF IdsOK
  <2> QED
    BY <1>6, <2>1, <2>2
<1> HIDE DEF ids
<1>10. p \in Points
  BY <1>7, <1>9 DEF Points
<1>11. /\ IdsOK(ids) /\ Translates(ids, Append(moved[t], e), Append(values[t], p))
       /\ Cut(Append(moved[t], e), Append(values[t], p)) = Cut(moved[t], values[t])
  <2>1. p.id = ids[e.name] /\ p.ts = e.ts /\ p.value = e.value
    OBVIOUS
  <2> DEFINE m == mapping[t]
             h == moved[t]
             v == values[t]
  <2>2. h \in Seq(Entries) /\ v \in Seq(Points) /\ IdsOK(m) /\ Translates(m, h, v)
    BY <1>8
  <2>3. Learns(m, e.name, ids)
    BY <1>6 DEF Learns
  <2>5. Stands(ids, p, e)
    BY <1>6, <2>1 DEF Stands
  <2> HIDE DEF p, m, h, v
  <2>4. /\ IdsOK(ids) /\ Translates(ids, Append(h, e), Append(v, p))
        /\ Cut(Append(h, e), Append(v, p)) = Cut(h, v)
    BY <1>5, <1>10, <2>2, <2>3, <2>5, Appended
  <2> QED
    BY <2>4 DEF h, v
<1> HIDE DEF p
<1>12. LogTypeOK'
  <2>1. ids \in UNION {[names -> Nat] : names \in SUBSET Name}
    BY <1>7, <1>9
  <2>2. mapping' \in [Type -> UNION {[names -> Nat] : names \in SUBSET Name}]
    BY <1>2, <1>3, <1>4, <2>1
  <2>3. Append(values[t], p) \in Seq(Points) /\ Append(moved[t], e) \in Seq(Entries)
    BY <1>5, <1>8, <1>10
  <2>4. values' \in [Type -> Seq(Points)] /\ {queue', reading', moved'} \subseteq [Type -> Seq(Entries)]
    BY <1>2, <1>3, <1>4, <1>5, <2>3
  <2> QED
    BY <1>3, <1>4, <2>2, <2>4 DEF LogTypeOK
<1>13. /\ mapping'[t] = ids /\ values'[t] = Append(values[t], p) /\ moved'[t] = Append(moved[t], e)
       /\ reading'[t] = Tail(reading[t])
       /\ \A u \in Type \ {t} : /\ mapping'[u] = mapping[u] /\ values'[u] = values[u]
                               /\ moved'[u] = moved[u] /\ reading'[u] = reading[u]
  BY <1>2, <1>3, <1>4
<1>14. \A ts : Outlived(moved, ts) => Outlived(moved', ts)
  BY <1>2, <1>3, <1>4, <1>5, MoreOutlives
<1>15. ASSUME NEW u \in Type
       PROVE  /\ IdsOK(mapping'[u]) /\ Translates(mapping'[u], moved'[u], values'[u])
              /\ CutIsOld(moved', moved'[u], values'[u])
  <2>1. /\ IdsOK(mapping[u]) /\ Translates(mapping[u], moved[u], values[u])
        /\ CutIsOld(moved, moved[u], values[u])
    BY DEF LogInv, History
  <2>2. CASE u = t
    <3>1. ASSUME NEW i \in 1 .. Cut(moved[t], values[t])
          PROVE  moved'[t][i] = moved[t][i]
      <4>1. Cut(moved[t], values[t]) <= Len(moved[t]) /\ Cut(moved[t], values[t]) \in Int
        <5>1. Len(moved[t]) \in Nat /\ Len(values[t]) \in Nat
          BY <1>8
        <5>2. Len(values[t]) <= Len(moved[t])
          BY <1>8 DEF Translates
        <5> HIDE DEF Translates
        <5>3. \A a, b \in Nat : a <= b => b - a <= b /\ b - a \in Int
          OBVIOUS
        <5> QED
          BY <5>1, <5>2, <5>3 DEF Cut
      <4>2. i \in 1 .. Len(moved[t])
        BY <1>8, <4>1
      <4> QED
        BY <1>8, <1>13, <4>2
    <3>2. CutIsOld(moved', moved'[t], values'[t])
      BY <1>11, <1>13, <1>14, <2>1, <2>2, <3>1 DEF CutIsOld
    <3> QED
      BY <1>11, <1>13, <2>2, <3>2
  <2>3. CASE u # t
    BY <1>13, <1>14, <2>1, <2>3 DEF CutIsOld
  <2> QED
    BY <2>2, <2>3
<1>16. History(mapping, values, moved)'
  BY <1>15 DEF History, CutIsOld, Outlived
<1>17. OrderOK'
  <2>1. ASSUME NEW u \in Type
        PROVE  Ordered(moved'[u], reading'[u], queue[u], clock)
    <3>1. Ordered(moved[u], reading[u], queue[u], clock)
      BY <2>1 DEF LogInv, OrderOK
    <3>2. CASE u = t
      <4>1. clock \in Nat
        BY DEF LogInv, LogTypeOK
      <4>2. Ordered(Append(moved[t], Head(reading[t])), Tail(reading[t]), queue[t], clock)
        BY <1>2, <1>3, <1>4, <3>1, <3>2, <4>1, OrderMoved, Stamps
      <4> QED
        BY <1>13, <3>2, <4>2 DEF e
    <3>3. CASE u # t
      BY <1>13, <3>1, <3>3
    <3> QED
      BY <3>2, <3>3
  <2> QED
    BY <1>3, <2>1 DEF OrderOK
<1>18. ClampOK'
  <2>1. \A k \in 1 .. N : ~(step = 0 \/ step > 2 * N + k)
    BY <1>1
  <2> QED
    BY <1>3, <2>1 DEF ClampOK
<1>19. FileOK'
  BY <1>3 DEF LogInv, FileOK, History, CutIsOld, Outlived, FrontOK
<1> QED
  BY <1>12, <1>16, <1>17, <1>18, <1>19 DEF LogInv

\* The newest point of a type is the last entry that was moved.
LEMMA NewestIsLast ==
    ASSUME LogTypeOK, History(mapping, values, moved), NEW u \in Type, values[u] # <<>>
    PROVE  Len(moved[u]) \in 1 .. Len(moved[u]) /\ moved[u][Len(moved[u])].ts = Newest(values[u])
<1> DEFINE h == moved[u]
           v == values[u]
<1>1. h \in Seq(Entries) /\ v \in Seq(Points) /\ Translates(mapping[u], h, v) /\ v # <<>>
  BY Stamps DEF History
<1> HIDE DEF h, v
<1>2. Len(h) \in Nat /\ Len(v) \in Nat \ {0} /\ Len(v) <= Len(h)
  BY <1>1 DEF Translates
<1>3. Len(v) \in 1 .. Len(v) /\ Cut(h, v) + Len(v) = Len(h) /\ Len(h) \in 1 .. Len(h)
  BY <1>2 DEF Cut
<1>4. Stands(mapping[u], v[Len(v)], h[Len(h)])
  BY <1>1, <1>3 DEF Translates
<1> QED
  BY <1>3, <1>4 DEF Stands, Newest, h, v

\* The front of a type goes: it was outlived.
LEMMA ClampKeeps == LogInv /\ Clamp => LogInv'
<1> SUFFICES ASSUME LogInv, Clamp PROVE LogInv'
  OBVIOUS
<1>1. step \in 2 * N + 1 .. 3 * N /\ N \in Nat /\ N > 0
  BY TypeNumbers DEF Clamp
<1> DEFINE t == Types[step - 2 * N]
<1>2. t \in Type /\ \A k \in 1 .. N : step > 2 * N + k => Types[k] # t
  <2>1. step - 2 * N \in 1 .. N
    BY <1>1
  <2>2. ASSUME NEW k \in 1 .. N, step > 2 * N + k
        PROVE  k # step - 2 * N
    BY <1>1, <2>2
  <2> QED
    BY <2>1, <2>2, TypeNumbers
<1>3. /\ Excess(t) /\ values' = [values EXCEPT ![t] = Tail(values[t])]
      /\ UNCHANGED <<queue, reading, mapping, step, file, clock, entries, moved>>
  BY DEF Clamp
<1> HIDE DEF t
<1>4. LogTypeOK /\ History(mapping, values, moved) /\ values \in [Type -> Seq(Points)]
      /\ LengthHistory > 0 /\ Len(values[t]) > 1 /\ TooOld(values[t][1].ts)
  BY <1>3 DEF LogInv, LogTypeOK, Excess
<1> DEFINE h == moved[t]
           v == values[t]
           r == Tail(v)
<1>5. /\ h \in Seq(Entries) /\ v \in Seq(Points) /\ Translates(mapping[t], h, v) /\ IdsOK(mapping[t])
      /\ CutIsOld(moved, h, v) /\ Len(v) > 1
  BY <1>2, <1>4, Stamps DEF History
<1> HIDE DEF h, v
<1>6. /\ r \in Seq(Points) /\ Translates(mapping[t], h, r) /\ Cut(h, r) = Cut(h, v) + 1
      /\ Newest(r) = Newest(v) /\ r # <<>>
  BY <1>5, Popped
<1> HIDE DEF r
<1>7. values'[t] = r /\ \A u \in Type \ {t} : values'[u] = values[u]
  BY <1>2, <1>3, <1>4 DEF r, v
<1>8. LogTypeOK'
  <2>1. values' \in [Type -> Seq(Points)]
    BY <1>3, <1>4, <1>6 DEF r, v
  <2> QED
    BY <1>3, <1>4, <2>1 DEF LogTypeOK
<1>9. Outlived(moved, v[1].ts)
  <2>1. PICK u \in Type : values[u] # <<>> /\ v[1].ts < Newest(values[u]) - LengthHistory
    BY <1>4 DEF TooOld, v
  <2>2. Len(moved[u]) \in 1 .. Len(moved[u]) /\ moved[u][Len(moved[u])].ts = Newest(values[u])
    BY <1>4, <2>1, NewestIsLast
  <2> QED
    BY <2>1, <2>2 DEF Outlived
<1>10. CutIsOld(moved, h, r)
  <2>1. Len(h) \in Nat /\ Len(v) \in Nat /\ Len(v) <= Len(h)
    BY <1>5 DEF Translates
  <2>2. Cut(h, v) \in Nat /\ 1 \in 1 .. Len(v)
    BY <1>5, <2>1 DEF Cut
  <2>3. h[Cut(h, v) + 1].ts = v[1].ts
    BY <1>5, <2>2 DEF Translates, Stands
  <2>4. ASSUME NEW i \in 1 .. Cut(h, r)
        PROVE  Outlived(moved, h[i].ts)
    <3>1. CASE i \in 1 .. Cut(h, v)
      BY <1>5, <3>1 DEF CutIsOld
    <3>2. CASE i = Cut(h, v) + 1
      BY <1>9, <2>3, <3>2
    <3> QED
      BY <1>6, <2>2, <3>1, <3>2
  <2> QED
    BY <1>4, <2>4 DEF CutIsOld
<1>11. History(mapping, values, moved)'
  <2>1. ASSUME NEW u \in Type
        PROVE  /\ IdsOK(mapping[u]) /\ Translates(mapping[u], moved[u], values'[u])
               /\ CutIsOld(moved, moved[u], values'[u])
    <3>1. CASE u = t
      BY <1>5, <1>6, <1>7, <1>10, <3>1 DEF h
    <3>2. CASE u # t
      BY <1>4, <1>7, <3>2 DEF History
    <3> QED
      BY <3>1, <3>2
  <2> QED
    BY <1>3, <2>1 DEF History, CutIsOld, Outlived
<1>12. OrderOK'
  BY <1>3 DEF LogInv, OrderOK
<1>13. ClampOK'
  <2>1. ASSUME NEW k \in 1 .. N, step = 0 \/ step > 2 * N + k
        PROVE  FrontOK(values', values'[Types[k]])
    <3>1. step > 2 * N + k /\ FrontOK(values, values[Types[k]])
      BY <1>1, <2>1 DEF LogInv, ClampOK
    <3>2. Types[k] \in Type /\ values'[Types[k]] = values[Types[k]]
      BY <1>2, <1>7, <3>1, TypeNumbers
    <3>3. ASSUME NEW u \in Type, values'[u] # <<>>
          PROVE  values[u] # <<>> /\ Newest(values'[u]) = Newest(values[u])
      <4>1. CASE u = t
        <5>1. values[u] # <<>>
          BY <1>5, <4>1 DEF v
        <5> QED
          BY <1>6, <1>7, <4>1, <5>1 DEF v
      <4>2. CASE u # t
        BY <1>7, <3>3, <4>2
      <4> QED
        BY <4>1, <4>2
    <3> QED
      BY <3>1, <3>2, <3>3 DEF FrontOK
  <2> QED
    BY <1>3, <2>1 DEF ClampOK
<1>14. FileOK'
  BY <1>3 DEF LogInv, FileOK, History, CutIsOld, Outlived, FrontOK
<1> QED
  BY <1>8, <1>11, <1>12, <1>13, <1>14 DEF LogInv

\* A type is clamped; the last one ends the tick.
LEMMA EndClampKeeps == LogInv /\ EndClamp => LogInv'
<1> SUFFICES ASSUME LogInv, EndClamp PROVE LogInv'
  OBVIOUS
<1>1. step \in 2 * N + 1 .. 3 * N /\ N \in Nat /\ N > 0 /\ LogTypeOK
  BY TypeNumbers DEF EndClamp, LogInv
<1>2. /\ step' = IF step = 3 * N THEN 0 ELSE step + 1
      /\ UNCHANGED <<queue, reading, mapping, values, file, clock, entries, moved>>
  BY DEF EndClamp
<1>3. step' \in 0 .. 3 * N
  BY <1>1, <1>2
<1>4. LogTypeOK' /\ OrderOK'
  BY <1>2, <1>3 DEF LogInv, LogTypeOK, OrderOK
<1>5. ASSUME NEW k \in 1 .. N, step' = 0 \/ step' > 2 * N + k
      PROVE  FrontOK(values, values[Types[k]])
  <2>1. step > 2 * N + k \/ k = step - 2 * N
    BY <1>1, <1>2, <1>5
  <2>2. CASE step > 2 * N + k
    BY <2>2 DEF LogInv, ClampOK
  <2>3. CASE k = step - 2 * N
    <3>1. ~Excess(Types[k]) /\ Types[k] \in Type
      BY <2>3, TypeNumbers DEF EndClamp
    <3> QED
      BY <1>1, <3>1, Fronts
  <2> QED
    BY <2>1, <2>2, <2>3
<1>6. ClampOK'
  BY <1>2, <1>5 DEF ClampOK, FrontOK
<1>7. History(mapping, values, moved)'
  BY <1>2 DEF LogInv, History, CutIsOld, Outlived
<1>8. FileOK'
  BY <1>2 DEF LogInv, FileOK, History, CutIsOld, Outlived, FrontOK
<1> QED
  BY <1>4, <1>6, <1>7, <1>8 DEF LogInv

\* Between two ticks, what is written is a clamped history.
LEMMA WriteKeeps == LogInv /\ WriteLogs => LogInv'
<1> SUFFICES ASSUME LogInv, WriteLogs PROVE LogInv'
  OBVIOUS
<1>1. /\ step = 0
      /\ file' = [mapping |-> mapping, values |-> values, moved |-> moved] \/ file' = file
      /\ UNCHANGED <<queue, reading, mapping, values, step, clock, entries, moved>>
  BY DEF WriteLogs, MutexFree
<1>2. LogTypeOK' /\ OrderOK'
  BY <1>1 DEF LogInv, LogTypeOK, OrderOK
<1>4. History(mapping, values, moved)
  BY DEF LogInv
<1>5. ASSUME NEW t \in Type
      PROVE  Sorted(moved[t]) /\ FrontOK(values, values[t])
  <2>1. PICK k \in 1 .. N : Types[k] = t
    BY TypeNumbers
  <2>2. FrontOK(values, values[t])
    BY <1>1, <2>1 DEF LogInv, ClampOK
  <2> QED
    BY <2>2 DEF LogInv, OrderOK, Ordered
<1>6. FileOK'
  <2>1. values \in [Type -> Seq(Points)] /\ moved \in [Type -> Seq(Entries)]
    BY DEF LogInv, LogTypeOK
  <2>2. CASE file' = [mapping |-> mapping, values |-> values, moved |-> moved]
    <3>1. file'.mapping = mapping /\ file'.values = values /\ file'.moved = moved
      BY <2>2
    <3> QED
      BY <3>1, <1>4, <1>5, <2>1 DEF FileOK, History, CutIsOld, Outlived, FrontOK
  <2>3. CASE file' = file
    BY <2>3 DEF LogInv, FileOK, History, CutIsOld, Outlived, FrontOK
  <2> QED
    BY <1>1, <2>2, <2>3
<1>7. History(mapping, values, moved)' /\ ClampOK'
  <2>1. ClampOK'
    BY <1>1 DEF LogInv, ClampOK, FrontOK
  <2> QED
    BY <1>1, <1>4, <2>1 DEF History, CutIsOld, Outlived
<1> QED
  BY <1>2, <1>6, <1>7 DEF LogInv

\* Every step keeps the invariant.
LEMMA LogNextInv == LogInv /\ [LogNext]_logVars => LogInv'
<1> SUFFICES ASSUME LogInv, [LogNext]_logVars PROVE LogInv'
  OBVIOUS
<1>1. CASE LogNext
  BY <1>1, ElapseKeeps, LogValueKeeps, BeginKeeps, SwapKeeps, TransferKeeps, EndTransferKeeps,
     ClampKeeps, EndClampKeeps, WriteKeeps DEF LogNext
<1>2. CASE UNCHANGED logVars
  <2>1. /\ UNCHANGED <<mapping, values, moved, step, file>> /\ LogTypeOK' /\ OrderOK'
    BY <1>2 DEF logVars, LogInv, LogTypeOK, OrderOK
  <2> QED
    BY <2>1, QuietStep DEF LogInv
<1> QED
  BY <1>1, <1>2

\* The invariant holds throughout.
LEMMA LogAlways == LogSpec => []LogInv
BY LogInitInv, LogNextInv, PTL DEF LogSpec

\* What is queued, moved and written are entries and points, ids are given per type, and a
\* tick never goes past the last type.
THEOREM LogTyped == LogSpec => []LogTypeOK
<1>1. LogInv => LogTypeOK
  BY DEF LogInv
<1> QED
  BY <1>1, LogAlways, PTL

-----------------------------------------------------------------------------
\* A name is found again by its id.
LEMMA NameFound ==
    ASSUME NEW ids, IdsOK(ids), NEW n \in DOMAIN ids
    PROVE  NameOf(ids, ids[n]) = n
<1>1. NameOf(ids, ids[n]) \in DOMAIN ids /\ ids[NameOf(ids, ids[n])] = ids[n]
  BY DEF NameOf
<1> QED
  BY <1>1 DEF IdsOK

\* Names survive their translation to ids, for any types, names and numbers of values.
THEOREM Reading == LogSpec => []FileReadsBack
<1>1. ASSUME LogInv
      PROVE  FileReadsBack
  <2> SUFFICES ASSUME Written, NEW t \in Type
               PROVE  LET h == file.moved[t]
                          v == file.values[t]
                      IN  /\ Len(v) <= Len(h)
                          /\ \A i \in 1 .. Len(v) :
                                LET e == h[Cut(h, v) + i]
                                IN  /\ NameOf(file.mapping[t], v[i].id) = e.name
                                    /\ v[i].ts = e.ts /\ v[i].value = e.value
    BY DEF FileReadsBack
  <2> DEFINE ids == file.mapping[t]
             h == file.moved[t]
             v == file.values[t]
  <2>1. IdsOK(ids) /\ Translates(ids, h, v)
    BY <1>1 DEF LogInv, FileOK, History, Written
  <2> HIDE DEF ids, h, v
  <2>2. ASSUME NEW i \in 1 .. Len(v)
        PROVE  /\ NameOf(ids, v[i].id) = h[Cut(h, v) + i].name
               /\ v[i].ts = h[Cut(h, v) + i].ts /\ v[i].value = h[Cut(h, v) + i].value
    <3>1. Stands(ids, v[i], h[Cut(h, v) + i])
      BY <2>1 DEF Translates
    <3> QED
      BY <2>1, <3>1, NameFound DEF Stands
  <2>3. Len(v) <= Len(h)
    BY <2>1 DEF Translates
  <2> QED
    BY <2>2, <2>3 DEF ids, h, v
<1>2. LogInv => FileReadsBack
  BY <1>1
<1> QED
  BY <1>2, LogAlways, PTL

\* Nothing recent is missing from a file, if the length asked for, in microseconds, fits
\* in the unsigned int it is computed in.
THEOREM Keeping ==
    ASSUME LogLengthSecs # Forever => LogLengthSecs * Second < Wrap
    PROVE  LogSpec => []FileKeepsRecent
<1>1. ASSUME LogInv
      PROVE  FileKeepsRecent
  <2> SUFFICES ASSUME Written, NEW t \in Type, NEW e \in Range(file.moved[t]), Recent(e.ts)
               PROVE  \E p \in Range(file.values[t]) : p.value = e.value
    BY DEF FileKeepsRecent
  <2> DEFINE h == file.moved[t]
             v == file.values[t]
  <2>1. /\ Translates(file.mapping[t], h, v) /\ CutIsOld(file.moved, h, v)
        /\ h \in Seq(Entries) /\ v \in Seq(Points) /\ file.moved \in [Type -> Seq(Entries)]
    BY <1>1 DEF LogInv, FileOK, History, Written
  <2>2. PICK i \in 1 .. Len(h) : e = h[i]
    BY <2>1 DEF Range
  <2>3. Recent(h[i].ts)
    BY <2>2
  <2> HIDE DEF h, v
  <2>4. Len(h) \in Nat /\ Len(v) \in Nat /\ Len(v) <= Len(h)
    BY <2>1 DEF Translates
  <2>5. CASE i \in 1 .. Cut(h, v)
    <3>1. LengthHistory > 0 /\ Outlived(file.moved, h[i].ts)
      BY <2>1, <2>5 DEF CutIsOld
    <3>2. LogLengthSecs # Forever /\ LengthHistory = LogLengthSecs * Second /\ LengthHistory \in Int
      BY <3>1, Lengths
    <3>3. PICK u \in Type : \E j \in 1 .. Len(file.moved[u]) :
                                h[i].ts < file.moved[u][j].ts - LengthHistory
      BY <3>1 DEF Outlived
    <3>4. PICK j \in 1 .. Len(file.moved[u]) : h[i].ts < file.moved[u][j].ts - LengthHistory
      BY <3>3
    <3>5. file.moved[u][j] \in Range(file.moved[u])
      BY <2>1 DEF Range
    <3>6. h[i].ts >= file.moved[u][j].ts - LengthHistory
      BY <2>3, <3>2, <3>5 DEF Recent
    <3>7. h[i].ts \in Nat /\ file.moved[u][j].ts \in Nat
      BY <2>1, Timed
    <3> QED
      BY <3>2, <3>4, <3>6, <3>7
  <2>6. CASE i \notin 1 .. Cut(h, v)
    <3> DEFINE k == i - Cut(h, v)
    <3>1. k \in 1 .. Len(v) /\ Cut(h, v) + k = i
      BY <2>4, <2>6 DEF Cut
    <3> HIDE DEF k
    <3>2. Stands(file.mapping[t], v[k], h[i])
      BY <2>1, <3>1 DEF Translates
    <3>3. v[k] \in Range(v)
      BY <2>1, <3>1 DEF Range
    <3> QED
      BY <2>2, <3>2, <3>3 DEF Stands, v
  <2> QED
    BY <2>5, <2>6
<1>2. LogInv => FileKeepsRecent
  BY <1>1
<1> QED
  BY <1>2, LogAlways, PTL

\* A file is clamped to the length asked for, but for what came late, however late values
\* are logged, if the length, in an unsigned int, is not zero.
THEOREM Clamping ==
    ASSUME LogLengthSecs # Forever => LengthHistory # 0
    PROVE  LogSpec => []FileClamped
<1>1. ASSUME LogInv
      PROVE  FileClamped
  <2> SUFFICES ASSUME Written, NEW t \in Type, Len(file.values[t]) > 1,
                      NEW p \in Range(file.values[t]), LogLengthSecs # Forever,
                      NEW u \in Type, NEW e \in Range(file.moved[u])
               PROVE  p.ts >= e.ts - LogLengthSecs * Second - Late
    BY DEF FileClamped, Young
  <2> DEFINE vs == file.values
             hs == file.moved
  <2>1. /\ vs \in [Type -> Seq(Points)] /\ hs \in [Type -> Seq(Entries)]
        /\ Translates(file.mapping[t], hs[t], vs[t]) /\ Translates(file.mapping[u], hs[u], vs[u])
        /\ Sorted(hs[t]) /\ Sorted(hs[u]) /\ FrontOK(vs, vs[t])
    BY <1>1 DEF LogInv, FileOK, History, Written
  <2>2. PICK i \in 1 .. Len(vs[t]) : p = vs[t][i]
    <3>1. vs[t] \in Seq(Points) /\ p \in Range(vs[t])
      BY <2>1
    <3> QED
      BY <3>1 DEF Range
  <2>3. PICK j \in 1 .. Len(hs[u]) : e = hs[u][j]
    BY <2>1 DEF Range
  <2>4. Len(vs[t]) > 1
    OBVIOUS
  <2> HIDE DEF vs, hs
  <2>5. vs[t] \in Seq(Points) /\ hs[t] \in Seq(Entries) /\ vs[u] \in Seq(Points) /\ hs[u] \in Seq(Entries)
    BY <2>1
  <2>6. LengthHistory > 0 /\ LengthHistory \in Int /\ LengthHistory <= LogLengthSecs * Second
        /\ LogLengthSecs * Second \in Nat
    <3>1. (LogLengthSecs * Second) \in Nat /\ Wrap \in Nat \ {0}
      BY Lengths, ServerLogAssumption
    <3>2. LengthHistory = (LogLengthSecs * Second) % Wrap
      BY DEF LengthHistory
    <3>3. LengthHistory \in Nat
      BY <3>1, <3>2
    <3> QED
      BY <3>3, Lengths
  <2>7. vs[t][1].ts <= p.ts + MaxLag
    <3> DEFINE c == Cut(hs[t], vs[t])
    <3>1. Len(vs[t]) \in Nat /\ Len(hs[t]) \in Nat /\ Len(vs[t]) <= Len(hs[t])
      BY <2>1, <2>5 DEF Translates
    <3>2. c + 1 \in 1 .. Len(hs[t]) /\ c + i \in 1 .. Len(hs[t]) /\ 1 \in 1 .. Len(vs[t])
          /\ (i = 1 \/ c + 1 < c + i)
      <4>1. \A a, b \in Nat : \A x \in 1 .. a :
                a <= b /\ a > 1 => /\ (b - a) + 1 \in 1 .. b /\ (b - a) + x \in 1 .. b /\ 1 \in 1 .. a
                                   /\ (x = 1 \/ (b - a) + 1 < (b - a) + x)
        OBVIOUS
      <4> QED
        BY <2>4, <3>1, <4>1 DEF Cut
    <3>3. vs[t][1].ts = hs[t][c + 1].ts /\ p.ts = hs[t][c + i].ts
      BY <2>1, <2>2, <3>2 DEF Translates, Stands
    <3>4. hs[t][c + 1].ts \in Nat /\ MaxLag \in Nat
      BY <2>5, <3>2, Timed, ServerLogAssumption
    <3> HIDE DEF c
    <3> QED
      BY <2>1, <3>2, <3>3, <3>4 DEF Sorted
  <2>8. vs[u] # <<>> /\ e.ts <= Newest(vs[u]) + MaxLag /\ Newest(vs[u]) \in Nat
    <3>1. hs[u] # <<>> /\ Len(hs[u]) \in Nat /\ Len(vs[u]) \in Nat /\ Len(vs[u]) <= Len(hs[u])
      BY <2>1, <2>5 DEF Translates
    <3>2. vs[u] # <<>>
      BY <2>1, <3>1 DEF Translates
    <3>3. Len(vs[u]) \in 1 .. Len(vs[u]) /\ Cut(hs[u], vs[u]) + Len(vs[u]) = Len(hs[u])
          /\ Len(hs[u]) \in 1 .. Len(hs[u])
      BY <2>5, <3>1, <3>2 DEF Cut
    <3>4. Stands(file.mapping[u], vs[u][Len(vs[u])], hs[u][Len(hs[u])])
      BY <2>1, <3>3 DEF Translates
    <3>5. Newest(vs[u]) = hs[u][Len(hs[u])].ts /\ Newest(vs[u]) \in Nat
      BY <2>5, <3>3, <3>4, Timed DEF Stands, Newest
    <3>6. (j = Len(hs[u]) \/ j < Len(hs[u])) /\ MaxLag \in Nat
      BY <3>1, ServerLogAssumption
    <3> QED
      BY <2>1, <2>3, <3>2, <3>3, <3>5, <3>6 DEF Sorted
  <2>9. vs[t][1].ts >= Newest(vs[u]) - LengthHistory
    BY <2>1, <2>4, <2>6, <2>8 DEF FrontOK
  <2>10. p.ts \in Nat /\ e.ts \in Nat /\ vs[t][1].ts \in Nat
    <3>1. 1 \in 1 .. Len(vs[t])
      BY <2>4, <2>5
    <3> QED
      BY <2>2, <2>3, <2>5, <3>1, Timed
  <2>11. MaxLag \in Nat /\ Late = 2 * MaxLag
    BY ServerLogAssumption DEF Late
  <2> DEFINE w == LogLengthSecs * Second
             n == Newest(vs[u])
             f == vs[t][1].ts
  <2>12. /\ f \in Int /\ n \in Int /\ w \in Int /\ LengthHistory <= w
         /\ f <= p.ts + MaxLag /\ e.ts <= n + MaxLag /\ f >= n - LengthHistory
    BY <2>6, <2>7, <2>8, <2>9, <2>10
  <2> HIDE DEF w, n, f
  <2>13. p.ts >= e.ts - w - 2 * MaxLag
    BY <2>6, <2>10, <2>11, <2>12
  <2> QED
    BY <2>11, <2>13 DEF w
<1>2. LogInv => FileClamped
  BY <1>1
<1> QED
  BY <1>2, LogAlways, PTL
==============================================================================
