------------------------- MODULE StreamManagerProofs -------------------------
(***************************************************************************)
(* One shell's threads and what they share, for any values and any number  *)
(* of changes and losses.  Neither the mutex alone nor the socket alone    *)
(* says who waits: the tuner sends without the mutex.  What carries the    *)
(* proofs is that the socket belongs to the thread that waits, and to      *)
(* nobody else (SocketOwned), and that the pool is registered from the end *)
(* of addPool to the end of removePool (Registered).                       *)
(***************************************************************************)
EXTENDS StreamManager, TLAPS

\* Whoever waits owns what is on the socket, and whoever owns it waits.
SocketOwned ==
    /\ worker = "wait" <=> socket.by = "worker"
    /\ main \in {"adding", "removing", "setting"} <=> socket.by = "main"

\* The pool is in pools while the command watches, edits or leaves, and the worker
\* redraws only what is in pools.
Registered ==
    /\ registered <=> main \in {"watching", "edited", "setting", "leaving", "removing"}
    /\ worker = "redraw" => registered

\* The inductive invariant.
IInv == TypeOK /\ SocketOwned /\ Registered

\* The requests a thread sends.
Requests == [by : {"main", "worker"}, kind : {"enable", "disable", "check", "set"},
             arg : Value, answered : BOOLEAN]

\* The bounds are numbers, and there is a smallest value.
LEMMA Bounds ==
    /\ Commands \subseteq {"watch", "tune"}
    /\ MaxValue \in Nat /\ MaxChanges \in Nat /\ MaxLosses \in Nat
    /\ 0 \in Value /\ Narrow \in [Value -> Value]
BY StreamManagerAssumption, SMT DEF Value

\* What is published and not yet received.
LEMMA Channel ==
    ASSUME NEW c \in Seq(Value)
    PROVE  /\ \A v \in Value : Append(c, v) \in Seq(Value)
           /\ c # <<>> => Head(c) \in Value /\ Tail(c) \in Seq(Value)
<1>1. \A v \in Value : Append(c, v) \in Seq(Value)
      OBVIOUS
<1>2. ASSUME c # <<>> PROVE Head(c) \in Value /\ Tail(c) \in Seq(Value)
      BY <1>2
<1> QED BY <1>1, <1>2

\* What a thread sends is a request of its own that waits for its answer.
LEMMA Sent ==
    ASSUME NEW by \in {"main", "worker"}, NEW kind \in {"enable", "disable", "check", "set"},
           NEW arg \in Value
    PROVE  /\ Request(by, kind, arg) \in Requests
           /\ Request(by, kind, arg).by = by
           /\ ~Request(by, kind, arg).answered
BY DEF Request, Requests

\* The invariant holds when the shell starts.
LEMMA InitIInv == Init => IInv
<1> SUFFICES ASSUME Init PROVE IInv
    OBVIOUS
<1>1. channel \in Seq(Value)  BY DEF Init
<1>2. /\ value \in Value /\ local \in Value /\ shown \in Value /\ command \in {"watch", "tune"}
      /\ changes \in 0 .. MaxChanges /\ losses \in 0 .. MaxLosses
      BY Bounds DEF Init
<1>3. TypeOK
      BY <1>1, <1>2 DEF Init, TypeOK
<1>4. SocketOwned /\ Registered
      BY DEF Init, SocketOwned, Registered, NoRequest
<1> QED BY <1>3, <1>4 DEF IInv

\* A send under the mutex finds the socket free: no thread waits when the mutex is free
\* and the command's own thread is about to send.
LEMMA SendKeeps ==
    ASSUME IInv, NEW from \in {"fetched", "leaving"}, NEW kind \in {"enable", "disable"},
           NEW to \in {"adding", "removing"}, SendLocked(from, kind, to),
           from = "fetched" <=> to = "adding"
    PROVE  IInv'
<1>1. Request("main", kind, 0) \in Requests /\ Request("main", kind, 0).by = "main"
      BY Bounds, Sent
<1>2. /\ main = from /\ mutex = "free" /\ worker = "sleep"
      /\ mutex' = "main" /\ main' = to /\ socket' = Request("main", kind, 0)
      /\ UNCHANGED <<value, watched, channel, command, worker, registered, local, dirty,
                     shown, changes, losses, missed>>
      BY DEF SendLocked, Free, IInv, TypeOK, serverVars, poolVars, bounds
<1>3. TypeOK'  BY <1>1, <1>2 DEF IInv, TypeOK, Requests
<1>4. SocketOwned' /\ Registered'
      BY <1>1, <1>2 DEF IInv, SocketOwned, Registered
<1> QED BY <1>3, <1>4 DEF IInv

\* An answer to addPool or removePool frees the socket and the mutex; the pool is in
\* pools from then on, or no longer.
LEMMA ReceiveKeeps ==
    ASSUME IInv, NEW from \in {"adding", "removing"}, NEW to \in {"watching", "prompt"},
           NEW member \in BOOLEAN, ReceiveLocked(from, to, member),
           from = "adding" <=> to = "watching", member <=> to = "watching"
    PROVE  IInv'
<1>1. /\ main = from /\ mutex = "main" /\ worker = "sleep"
      /\ mutex' = "free" /\ main' = to /\ socket' = NoRequest /\ registered' = member
      /\ UNCHANGED <<value, watched, channel, command, worker, local, dirty,
                     shown, changes, losses, missed>>
      BY DEF ReceiveLocked, IInv, TypeOK, serverVars, bounds
<1>2. TypeOK'  BY <1>1 DEF IInv, TypeOK
<1>3. SocketOwned' /\ Registered'
      BY <1>1 DEF IInv, SocketOwned, Registered, NoRequest
<1> QED BY <1>2, <1>3 DEF IInv

\* Every step keeps the invariant.
LEMMA NextIInv == IInv /\ [Next]_vars => IInv'
<1> SUFFICES ASSUME IInv, [Next]_vars PROVE IInv'
    OBVIOUS
<1> USE Bounds
<1>1. CASE RobotSets
  <2>1. value' \in Value /\ channel' \in Seq(Value) /\ missed' \in BOOLEAN
    <3>1. PICK v \in Value : Updated(v)
          BY <1>1 DEF RobotSets, Value
    <3> QED BY <3>1, Channel DEF Updated, IInv, TypeOK
  <2>2. TypeOK'  BY <1>1, <2>1 DEF RobotSets, IInv, TypeOK, poolVars
  <2> QED BY <1>1, <2>2 DEF RobotSets, IInv, SocketOwned, Registered, poolVars
<1>2. CASE Serve
  <2>1. socket \in Requests  BY <1>2 DEF Serve, IInv, TypeOK, Requests
  <2>2. socket' \in Requests /\ socket'.by = socket.by  BY <1>2, <2>1 DEF Serve, Requests
  <2>3. /\ value' \in Value /\ channel' \in Seq(Value)
        /\ watched' \in BOOLEAN /\ missed' \in BOOLEAN
    <3>1. /\ socket.arg \in Value /\ value \in Value /\ channel \in Seq(Value)
          /\ watched \in BOOLEAN /\ missed \in BOOLEAN
          BY <2>1 DEF Requests, IInv, TypeOK
    <3>2. CASE socket.kind = "set"
          BY <1>2, <3>1, <3>2, Channel DEF Serve, Updated
    <3>3. CASE socket.kind # "set"
          BY <1>2, <3>1, <3>3 DEF Serve
    <3> QED BY <3>2, <3>3
  <2>4. TypeOK'  BY <1>2, <2>2, <2>3 DEF Serve, Requests, IInv, TypeOK, poolVars, bounds
  <2> QED BY <1>2, <2>2, <2>4 DEF Serve, IInv, SocketOwned, Registered, poolVars
<1>3. CASE Lose
  <2>1. TypeOK'  BY <1>3 DEF Lose, IInv, TypeOK, poolVars
  <2> QED BY <1>3, <2>1 DEF Lose, IInv, SocketOwned, Registered, poolVars
<1>4. CASE HandleValue
  <2>1. channel' \in Seq(Value) /\ local' \in Value /\ dirty' \in BOOLEAN
        BY <1>4, Channel DEF HandleValue, Marked, IInv, TypeOK
  <2>2. TypeOK'  BY <1>4, <2>1 DEF HandleValue, IInv, TypeOK, bounds
  <2> QED BY <1>4, <2>2 DEF HandleValue, IInv, SocketOwned, Registered
<1>5. CASE WorkerLocks
  <2>1. TypeOK'  BY <1>5 DEF WorkerLocks, Free, IInv, TypeOK, serverVars, poolVars, bounds
  <2> QED BY <1>5, <2>1 DEF WorkerLocks, IInv, SocketOwned, Registered, poolVars
<1>6. CASE Redraw
  <2>1. TypeOK'  BY <1>6 DEF Redraw, IInv, TypeOK, serverVars, bounds
  <2> QED BY <1>6, <2>1 DEF Redraw, IInv, SocketOwned, Registered
<1>7. CASE Check
  <2>1. Request("worker", "check", 0) \in Requests /\ Request("worker", "check", 0).by = "worker"
        BY Sent
  <2>2. TypeOK'
        BY <1>7, <2>1 DEF Check, ThrownUnlocked, Requests, IInv, TypeOK, serverVars,
                          poolVars, bounds
  <2>3. SocketOwned'
        BY <1>7, <2>1 DEF Check, IInv, SocketOwned, NoRequest
  <2>4. Registered'  BY <1>7 DEF Check, IInv, Registered, poolVars
  <2> QED BY <2>2, <2>3, <2>4 DEF IInv
<1>8. CASE WorkerUnlocks
  <2>1. TypeOK'  BY <1>8 DEF WorkerUnlocks, IInv, TypeOK, serverVars, poolVars, bounds
  <2>2. SocketOwned'  BY <1>8 DEF WorkerUnlocks, IInv, SocketOwned, NoRequest
  <2>3. Registered'  BY <1>8 DEF WorkerUnlocks, IInv, Registered, poolVars
  <2> QED BY <2>1, <2>2, <2>3 DEF IInv
<1>9. CASE Fetch
  <2>1. TypeOK'  BY <1>9 DEF Fetch, IInv, TypeOK, serverVars, bounds
  <2> QED BY <1>9, <2>1 DEF Fetch, IInv, SocketOwned, Registered
<1>10. CASE AddPool
       BY <1>10, SendKeeps DEF AddPool
<1>11. CASE PoolAdded
       BY <1>11, ReceiveKeeps DEF PoolAdded
<1>12. CASE Quit
  <2>1. TypeOK'  BY <1>12 DEF Quit, IInv, TypeOK, serverVars, poolVars, bounds
  <2> QED BY <1>12, <2>1 DEF Quit, IInv, SocketOwned, Registered, poolVars
<1>13. CASE RemovePool
       BY <1>13, SendKeeps DEF RemovePool
<1>14. CASE PoolRemoved
       BY <1>14, ReceiveKeeps DEF PoolRemoved
<1>15. CASE Edit
  <2>1. TypeOK'  BY <1>15 DEF Edit, IInv, TypeOK, Value, serverVars
  <2> QED BY <1>15, <2>1 DEF Edit, IInv, SocketOwned, Registered
<1>16. CASE SendEdit
  <2>1. /\ Request("main", "set", local) \in Requests
        /\ Request("main", "set", local).by = "main"
        BY Sent DEF IInv, TypeOK
  <2>2. TypeOK'
        BY <1>16, <2>1 DEF SendEdit, Requests, IInv, TypeOK, serverVars, poolVars, bounds
  <2>3. SocketOwned'  BY <1>16, <2>1 DEF SendEdit, IInv, SocketOwned, NoRequest
  <2>4. Registered'  BY <1>16 DEF SendEdit, IInv, Registered, poolVars
  <2> QED BY <2>2, <2>3, <2>4 DEF IInv
<1>17. CASE EditDone
  <2>1. TypeOK'  BY <1>17 DEF EditDone, IInv, TypeOK, serverVars, bounds
  <2>2. SocketOwned'  BY <1>17 DEF EditDone, IInv, SocketOwned, NoRequest
  <2>3. Registered'  BY <1>17 DEF EditDone, IInv, Registered
  <2> QED BY <2>1, <2>2, <2>3 DEF IInv
<1>18. CASE UNCHANGED vars
  <2>1. TypeOK'  BY <1>18 DEF IInv, TypeOK, vars, serverVars, poolVars, bounds
  <2> QED BY <1>18, <2>1 DEF IInv, SocketOwned, Registered, vars, poolVars
<1> QED BY <1>1, <1>2, <1>3, <1>4, <1>5, <1>6, <1>7, <1>8, <1>9, <1>10, <1>11, <1>12,
           <1>13, <1>14, <1>15, <1>16, <1>17, <1>18 DEF Next

\* The invariant holds in every state of a shell.
LEMMA InductiveInvariant == Spec => []IInv
BY InitIInv, NextIInv, PTL DEF Spec

\* The worker calls the callback of a pool only while the command whose stack it lives
\* on is between addPool and removePool: removePool waits for the mutex the worker holds.
THEOREM Drawing == Spec => []DrawnWhileAlive
<1>1. IInv => DrawnWhileAlive
      BY DEF IInv, TypeOK, Registered, DrawnWhileAlive
<1> QED BY <1>1, InductiveInvariant, PTL

\* A thread that waits for a reply owns what is on the socket, even though the tuner
\* sends without the mutex: whoever finds the socket busy throws instead of sending.
THEOREM Replies == Spec => []ReplyBelongsToWaiter
<1>1. IInv => ReplyBelongsToWaiter
      BY DEF IInv, SocketOwned, ReplyBelongsToWaiter
<1> QED BY <1>1, InductiveInvariant, PTL

\* Types; in particular who is inside the mutex holds it, and nobody else.
THEOREM TypeCorrect == Spec => []TypeOK
<1>1. IInv => TypeOK
      BY DEF IInv
<1> QED BY <1>1, InductiveInvariant, PTL

\* Whoever has the mutex, or waits for a reply, can go on, or the server can answer it.
Unanswered == socket # NoRequest /\ ~socket.answered
NobodyStuck ==
    /\ mutex = "main" => socket.by = "main" /\ (Unanswered \/ socket.answered)
    /\ mutex = "worker" => \/ worker \in {"redraw", "check"}
                           \/ worker = "wait" /\ socket.by = "worker" /\ (Unanswered \/ socket.answered)
    /\ main = "setting" => socket.by = "main" /\ (Unanswered \/ socket.answered)

\* The command, the worker and the subscriber never wait for each other in a circle, although
\* two of them wait for the server with the mutex, and one without it: a thread with the mutex
\* waits for nothing but an answer, and the request it waits for is its own.
THEOREM NoCircle == Spec => []NobodyStuck
<1>1. IInv => NobodyStuck
  <2> SUFFICES ASSUME IInv PROVE NobodyStuck
      OBVIOUS
  <2>1. socket.by = "main" \/ socket.by = "worker" => Unanswered \/ socket.answered
        BY DEF NoRequest, Unanswered
  <2> QED BY <2>1 DEF NobodyStuck, IInv, TypeOK, SocketOwned
<1> QED BY <1>1, InductiveInvariant, PTL

-----------------------------------------------------------------------------
(* What is on the screen *)

Newest == channel[Len(channel)]

\* While a value is watched, and its newest change neither was lost nor came too early, what
\* the screen does not show yet, not even as far as the handlers hold it, is on its way:
\* the newest message is the server's value, or the pool has it and the worker is to draw
\* it.
OnItsWay ==
    main = "watching" /\ ~missed /\ shown \notin Forms(value) =>
        IF channel # <<>> THEN Newest = value ELSE dirty /\ local \in Forms(value)

\* The last message is the newest value; a copy that no message is to replace has
\* it, from the answer of getPool on, unless the tuner has just changed it;
ChannelOK == ~missed /\ channel # <<>> => Newest = value
CopyOK ==
    /\ main = "fetched" /\ ~missed => local \in Forms(value)
    /\ main \in {"adding", "watching"} \/ (main = "setting" /\ socket.answered)
           => (~missed /\ channel = <<>> => local \in Forms(value))
    /\ main \in {"fetched", "adding", "watching"} /\ ~dirty => shown = local
\* and nothing is streamed between two commands, by whichever requests this came about.
WatchedOK ==
    /\ main \in {"prompt", "fetched"} => ~watched
    /\ main = "removing" => socket.kind = "disable" /\ (socket.answered => ~watched)
    /\ main = "adding" => socket.kind = "enable"
    /\ main = "setting" => socket.kind = "set"
    /\ worker = "wait" => registered /\ socket.kind = "check"

ScreenInv == IInv /\ ChannelOK /\ CopyOK /\ WatchedOK

\* What remains when the first message leaves the channel.
LEMMA TailOf ==
    ASSUME NEW c \in Seq(Value), c # <<>>
    PROVE  /\ Tail(c) # <<>> => Tail(c)[Len(Tail(c))] = c[Len(c)]
           /\ Tail(c) = <<>> => Head(c) = c[Len(c)] /\ Len(c) = 1
<1> DEFINE t == Tail(c)
<1>1. /\ Len(c) \in Nat \ {0} /\ Len(t) = Len(c) - 1 /\ t \in Seq(Value)
      /\ \A i \in 1 .. Len(c) - 1 : t[i] = c[i + 1]
      /\ Head(c) = c[1]
      OBVIOUS
<1> HIDE DEF t
<1>2. t = <<>> <=> Len(t) = 0
      BY <1>1
<1>3. t # <<>> => t[Len(t)] = c[Len(c)]
      BY <1>1, <1>2
<1>4. t = <<>> => Head(c) = c[Len(c)] /\ Len(c) = 1
      BY <1>1, <1>2
<1> QED BY <1>3, <1>4 DEF t

\* An update is the newest message, or missed.
LEMMA UpdateKeeps ==
    ASSUME IInv, ChannelOK, NEW v \in Value, Updated(v)
    PROVE  /\ ChannelOK'
           /\ ~missed' => channel' # <<>> /\ watched
<1>1. channel \in Seq(Value)
      BY DEF IInv, TypeOK
<1>2. /\ Append(channel, v) # <<>>
      /\ Append(channel, v)[Len(Append(channel, v))] = v
      BY <1>1
<1> QED BY <1>2 DEF Updated, ChannelOK, Newest

\* The server answers.
LEMMA ServeKeeps ==
    ASSUME ScreenInv, Serve
    PROVE  ChannelOK' /\ CopyOK' /\ WatchedOK'
<1> USE DEF ScreenInv
<1>1. /\ socket \in Requests /\ ~socket.answered
      /\ UNCHANGED <<main, worker, local, dirty, shown, registered>>
      BY DEF Serve, IInv, TypeOK, Requests, poolVars
<1>2. socket'.kind = socket.kind /\ socket'.by = socket.by /\ socket'.answered = TRUE
      BY <1>1 DEF Serve, Requests
<1>3. /\ main \in {"prompt", "fetched", "watching", "edited", "leaving"} => socket.by = "worker" /\ worker = "wait"
      /\ main \in {"adding", "removing", "setting"} => socket.by = "main"
      /\ main \in {"adding", "removing"} => worker = "sleep"
      BY <1>1 DEF IInv, SocketOwned, Requests, TypeOK
<1>4. main \notin {"prompt", "fetched"}
      BY <1>3 DEF WatchedOK, IInv, Registered
<1>5. CASE socket.kind = "set"
  <2>1. Updated(socket.arg) /\ watched' = watched /\ socket.arg \in Value
        BY <1>1, <1>5 DEF Serve, Requests
  <2>2. ChannelOK' /\ (~missed' => channel' # <<>>)
        BY <2>1, UpdateKeeps
  <2>3. main \notin {"adding", "removing"} /\ worker # "wait"
        BY <1>5 DEF WatchedOK
  <2>4. CopyOK'
        BY <1>1, <1>4, <2>2, <2>3 DEF CopyOK
  <2>5. WatchedOK'
        BY <1>1, <1>2, <1>4, <2>3 DEF WatchedOK
  <2> QED BY <2>2, <2>4, <2>5
<1>6. CASE socket.kind = "disable"
  <2>1. watched' = FALSE /\ UNCHANGED <<value, channel, missed>>
        BY <1>6 DEF Serve
  <2>2. main \notin {"adding", "setting"} /\ worker # "wait"
        BY <1>6 DEF WatchedOK
  <2>3. main = "removing"
        BY <1>3, <2>2 DEF IInv, TypeOK
  <2> QED BY <1>1, <1>2, <1>6, <2>1, <2>2, <2>3 DEF ChannelOK, Newest, CopyOK, WatchedOK
<1>7. CASE socket.kind \notin {"set", "disable"}
  <2>1. UNCHANGED <<value, channel, missed>>
        BY <1>7 DEF Serve
  <2>2. main \notin {"removing", "setting"}
        BY <1>7 DEF WatchedOK
  <2> QED BY <1>1, <1>2, <1>4, <2>1, <2>2 DEF ChannelOK, Newest, CopyOK, WatchedOK
<1> QED BY <1>5, <1>6, <1>7

\* Every step keeps the invariant.
LEMMA ScreenStep == ScreenInv /\ [Next]_vars => ChannelOK' /\ CopyOK' /\ WatchedOK'
<1> SUFFICES ASSUME ScreenInv, [Next]_vars PROVE ChannelOK' /\ CopyOK' /\ WatchedOK'
    OBVIOUS
<1> USE DEF ScreenInv
<1>1. CASE RobotSets
  <2>1. PICK v \in Value : Updated(v)
        BY <1>1 DEF RobotSets, Value
  <2>2. /\ ChannelOK'
        /\ ~missed' => channel' # <<>> /\ watched
        BY <2>1, UpdateKeeps
  <2>3. UNCHANGED <<watched, socket, main, worker, registered, local, dirty, shown>>
        BY <1>1 DEF RobotSets, poolVars
  <2> QED BY <2>2, <2>3 DEF CopyOK, WatchedOK
<1>2. CASE Serve
      BY <1>2, ServeKeeps
<1>3. CASE Lose
  <2>1. /\ channel # <<>> /\ channel' = Tail(channel) /\ channel \in Seq(Value)
        /\ missed' = (missed \/ Len(channel) = 1)
        /\ UNCHANGED <<value, watched, socket, main, worker, registered, local, dirty, shown>>
        BY <1>3 DEF Lose, poolVars, IInv, TypeOK
  <2>2. ~missed' => ~missed /\ channel' # <<>>
        BY <2>1, TailOf
  <2>3. ChannelOK'
        BY <2>1, <2>2, TailOf DEF ChannelOK, Newest
  <2> QED BY <2>1, <2>2, <2>3 DEF CopyOK, WatchedOK
<1>4. CASE HandleValue
  <2>1. /\ channel # <<>> /\ channel' = Tail(channel) /\ channel \in Seq(Value) /\ mutex = "free"
        /\ registered => local' = Narrow[Head(channel)] /\ dirty' = TRUE
        /\ ~registered => local' = local /\ dirty' = dirty
        /\ UNCHANGED <<value, watched, socket, main, worker, registered, shown, missed>>
        BY <1>4 DEF HandleValue, Free, Marked, IInv, TypeOK
  <2>2. ChannelOK'
        BY <2>1, TailOf DEF ChannelOK, Newest
  <2>3. main \notin {"adding", "removing"} /\ (registered <=> main \in {"watching", "edited", "setting", "leaving"})
        BY <2>1 DEF IInv, TypeOK, Registered
  <2>4. ~missed /\ channel' = <<>> /\ registered => local' \in Forms(value)
        BY <2>1, TailOf DEF ChannelOK, Newest, Forms
  <2>5. CopyOK'
        BY <2>1, <2>3, <2>4 DEF CopyOK
  <2> QED BY <2>1, <2>2, <2>5 DEF WatchedOK
<1>5. CASE WorkerLocks
      BY <1>5 DEF WorkerLocks, ChannelOK, Newest, CopyOK, WatchedOK, serverVars, poolVars
<1>6. CASE Redraw
      BY <1>6 DEF Redraw, ChannelOK, Newest, CopyOK, WatchedOK, serverVars
<1>7. CASE Check
  <2>1. /\ UNCHANGED <<value, watched, channel, main, registered, local, dirty, shown, missed>>
        /\ registered
        /\ \/ socket = NoRequest /\ socket' = Request("worker", "check", 0) /\ worker' = "wait"
           \/ socket' = socket /\ worker' = "sleep"
        BY <1>7 DEF Check, serverVars, poolVars
  <2>2. socket # socket' => main \notin {"adding", "removing", "setting"}
        BY <2>1 DEF IInv, SocketOwned, NoRequest
  <2>3. Request("worker", "check", 0).kind = "check"
        BY DEF Request
  <2> QED BY <2>1, <2>2, <2>3 DEF ChannelOK, Newest, CopyOK, WatchedOK
<1>8. CASE WorkerUnlocks
  <2>1. /\ UNCHANGED <<value, watched, channel, main, registered, local, dirty, shown, missed>>
        /\ worker' = "sleep"
        /\ socket' = socket \/ socket.by = "worker"
        BY <1>8 DEF WorkerUnlocks, serverVars, poolVars
  <2>2. socket # socket' => main \notin {"adding", "removing", "setting"}
        BY <2>1 DEF IInv, SocketOwned
  <2> QED BY <2>1, <2>2 DEF ChannelOK, Newest, CopyOK, WatchedOK
<1>9. CASE Fetch
      BY <1>9 DEF Fetch, ChannelOK, Newest, CopyOK, WatchedOK, Forms, serverVars
<1>10. CASE AddPool
  <2>1. Request("main", "enable", 0).kind = "enable" /\ ~Request("main", "enable", 0).answered
        BY DEF Request
  <2>2. worker = "sleep" /\ worker' = worker
        BY <1>10 DEF AddPool, SendLocked, Free, IInv, TypeOK
  <2> QED BY <1>10, <2>1, <2>2 DEF AddPool, SendLocked, ChannelOK, Newest, CopyOK, WatchedOK, serverVars, poolVars
<1>11. CASE PoolAdded
  <2>1. worker = "sleep" /\ worker' = worker
        BY <1>11 DEF PoolAdded, ReceiveLocked, IInv, TypeOK
  <2> QED BY <1>11, <2>1 DEF PoolAdded, ReceiveLocked, ChannelOK, Newest, CopyOK, WatchedOK, serverVars
<1>12. CASE Quit
       BY <1>12 DEF Quit, ChannelOK, Newest, CopyOK, WatchedOK, serverVars, poolVars
<1>13. CASE RemovePool
  <2>1. Request("main", "disable", 0).kind = "disable" /\ ~Request("main", "disable", 0).answered
        BY DEF Request
  <2>2. worker = "sleep" /\ worker' = worker
        BY <1>13 DEF RemovePool, SendLocked, Free, IInv, TypeOK
  <2> QED BY <1>13, <2>1, <2>2 DEF RemovePool, SendLocked, ChannelOK, Newest, CopyOK, WatchedOK, serverVars, poolVars
<1>14. CASE PoolRemoved
  <2>1. worker = "sleep" /\ worker' = worker
        BY <1>14 DEF PoolRemoved, ReceiveLocked, IInv, TypeOK
  <2> QED BY <1>14, <2>1 DEF PoolRemoved, ReceiveLocked, ChannelOK, Newest, CopyOK, WatchedOK, serverVars
<1>15. CASE Edit
       BY <1>15 DEF Edit, ChannelOK, Newest, CopyOK, WatchedOK, serverVars
<1>16. CASE SendEdit
  <2>1. /\ Request("main", "set", local).kind = "set" /\ ~Request("main", "set", local).answered
        BY DEF Request
  <2>2. socket # socket' => worker # "wait"
        BY <1>16 DEF SendEdit, IInv, SocketOwned, NoRequest
  <2> QED BY <1>16, <2>1, <2>2 DEF SendEdit, ChannelOK, Newest, CopyOK, WatchedOK, serverVars, poolVars
<1>17. CASE EditDone
  <2>1. worker # "wait"
        BY <1>17 DEF EditDone, IInv, SocketOwned
  <2> QED BY <1>17, <2>1 DEF EditDone, ChannelOK, Newest, CopyOK, WatchedOK, serverVars
<1>18. CASE UNCHANGED vars
       BY <1>18 DEF vars, serverVars, poolVars, ChannelOK, Newest, CopyOK, WatchedOK
<1> QED BY <1>1, <1>2, <1>3, <1>4, <1>5, <1>6, <1>7, <1>8, <1>9, <1>10, <1>11, <1>12,
           <1>13, <1>14, <1>15, <1>16, <1>17, <1>18 DEF Next

\* The screen of a command that watches differs from the server, by more than the handlers'
\* types do, only as long as the newest value is on its way: it is the last message on the network, or in the pool and
\* marked for the worker.  Neither the tuner, which writes the pool without the mutex, nor a
\* redraw or a check in between can lose it.
THEOREM Screen == Spec => []OnItsWay
<1>1. Init => ScreenInv
      BY InitIInv DEF Init, ScreenInv, ChannelOK, CopyOK, WatchedOK
<1>2. ScreenInv /\ [Next]_vars => ScreenInv'
      BY NextIInv, ScreenStep DEF ScreenInv
<1>3. ScreenInv => OnItsWay
      BY DEF ScreenInv, ChannelOK, CopyOK, OnItsWay, Newest
<1> QED BY <1>1, <1>2, <1>3, PTL DEF Spec
=============================================================================
