---------------------------- MODULE StreamManager ----------------------------
(***************************************************************************)
(* One shell that watches, or tunes, one value of a server: the thread of  *)
(* the command, the worker that redraws and checks the streaming, and the  *)
(* subscriber thread that receives the streamed values.                    *)
(*                                                                         *)
(* The three share the pool under StreamManager's mutex.  The command and  *)
(* the worker also share one REQ socket, and the tuner uses it without the *)
(* mutex: a send while a reply is awaited throws.                          *)
(***************************************************************************)
EXTENDS Integers, Sequences

CONSTANTS Commands,    \* the commands the user runs: "watch", "tune"
          MaxValue,    \* the values are 0 .. MaxValue
          Narrow,      \* what a handler makes of a value: intHandler takes an int,
                       \* floatHandler a float; the others take what was sent
          MaxChanges,  \* bound: changes made by the robot program and the tuner
          MaxLosses    \* bound: messages the network loses

ASSUME StreamManagerAssumption ==
    /\ Commands \subseteq {"watch", "tune"} /\ {MaxValue, MaxChanges, MaxLosses} \subseteq Nat
    /\ Narrow \in [0 .. MaxValue -> 0 .. MaxValue]

VARIABLES value, watched,  \* the server's value, and streamWatchers > 0
          channel,         \* published, not yet received
          socket,          \* the request or reply of the REQ socket
          mutex,           \* the holder of StreamManager::mutex
          main, command,   \* the command thread's next step and its command
          worker,          \* the worker's next step
          registered,      \* the pool is in pools
          local, dirty,    \* the pool's copy of the value, and its flag
          shown,           \* the value on the screen
          changes, losses,
          missed           \* history: the newest change will not reach the shell

serverVars == <<value, watched, channel>>
poolVars == <<registered, local, dirty, shown>>
bounds == <<changes, losses>>
vars == <<serverVars, socket, mutex, main, command, worker, poolVars, bounds, missed>>

NoRequest == [by |-> "nobody", kind |-> "none", arg |-> 0, answered |-> FALSE]
Request(by, kind, arg) == [by |-> by, kind |-> kind, arg |-> arg, answered |-> FALSE]

Init ==
    /\ value = 0 /\ watched = FALSE
    /\ channel = <<>>
    /\ socket = NoRequest
    /\ mutex = "free"
    /\ main = "prompt" /\ command \in Commands
    /\ worker = "sleep"
    /\ registered = FALSE
    /\ local = 0 /\ dirty = FALSE /\ shown = 0
    /\ changes = 0 /\ losses = 0
    /\ missed = FALSE

-----------------------------------------------------------------------------
(* The server: one value *)

\* An update is published if the value is watched.
Updated(v) ==
    /\ value' = v
    /\ channel' = IF watched THEN Append(channel, v) ELSE channel
    /\ missed' = ~watched

RobotSets ==
    /\ changes < MaxChanges
    /\ changes' = changes + 1
    /\ \E v \in 0 .. MaxValue \ {value} : Updated(v)
    /\ UNCHANGED <<watched, socket, mutex, main, command, worker, poolVars, losses>>

Serve ==
    /\ socket # NoRequest /\ ~socket.answered
    /\ socket' = [socket EXCEPT !.answered = TRUE]
    /\ CASE socket.kind = "set" -> Updated(socket.arg) /\ UNCHANGED watched
         [] socket.kind = "disable" -> watched' = FALSE /\ UNCHANGED <<value, channel, missed>>
         [] OTHER -> watched' = TRUE /\ UNCHANGED <<value, channel, missed>>
    /\ UNCHANGED <<mutex, main, command, worker, poolVars, bounds>>

\* The values are streamed over UDP.
Lose ==
    /\ losses < MaxLosses
    /\ channel # <<>>
    /\ losses' = losses + 1
    /\ channel' = Tail(channel)
    /\ missed' = (missed \/ Len(channel) = 1)
    /\ UNCHANGED <<value, watched, socket, mutex, main, command, worker, poolVars, changes>>

-----------------------------------------------------------------------------
(* The subscriber thread *)

Grab == TRUE
Free == mutex = "free"

MarkedNot == dirty
Marked == TRUE

\* boolHandler, intHandler, floatHandler, stringHandler: the whole loop over the
\* pools under the mutex.  An int64_t becomes an int, a double a float.
HandleValue ==
    /\ channel # <<>>
    /\ Free
    /\ channel' = Tail(channel)
    /\ IF registered THEN local' = Narrow[Head(channel)] /\ dirty' = Marked
                     ELSE UNCHANGED <<local, dirty>>
    /\ UNCHANGED <<value, watched, socket, mutex, main, command, worker,
                   registered, shown, bounds, missed>>

-----------------------------------------------------------------------------
(* The worker: StreamManager::update *)

WorkerLocks ==
    /\ worker = "sleep"
    /\ Free
    /\ mutex' = "worker"
    /\ worker' = IF registered /\ dirty THEN "redraw" ELSE "check"
    /\ UNCHANGED <<serverVars, socket, main, command, poolVars, bounds, missed>>

\* NodePool::update: the callback draws, then the flag is reset.
Redraw ==
    /\ worker = "redraw"
    /\ shown' = local
    /\ dirty' = FALSE
    /\ worker' = "check"
    /\ UNCHANGED <<serverVars, socket, mutex, main, command, registered, local,
                   bounds, missed>>

ThrownHolding == "worker"
ThrownUnlocked == "free"

\* More than 2000 ms after the last check: checkStreamingValue.  A busy socket
\* throws, and the exception is dropped.
Check ==
    /\ worker = "check"
    /\ registered
    /\ IF socket = NoRequest
       THEN /\ socket' = Request("worker", "check", 0)
            /\ worker' = "wait"
            /\ UNCHANGED mutex
       ELSE /\ worker' = "sleep"
            /\ mutex' = ThrownUnlocked
            /\ UNCHANGED socket
    /\ UNCHANGED <<serverVars, main, command, poolVars, bounds, missed>>

WorkerUnlocks ==
    /\ \/ worker = "check" /\ UNCHANGED socket
       \/ worker = "wait" /\ socket.by = "worker" /\ socket.answered /\ socket' = NoRequest
    /\ worker' = "sleep"
    /\ mutex' = "free"
    /\ UNCHANGED <<serverVars, main, command, poolVars, bounds, missed>>

-----------------------------------------------------------------------------
(* The command thread *)

\* getPool asks the server for the value, then the command draws it.  Older values
\* may still be on their way: the handlers do not compare timestamps.
Fetch ==
    /\ main = "prompt"
    /\ command' \in Commands
    /\ main' = "fetched"
    /\ local' = value /\ shown' = value /\ dirty' = FALSE
    /\ missed' = (missed /\ channel # <<>>)
    /\ UNCHANGED <<serverVars, socket, mutex, worker, registered, bounds>>

\* addPool and removePool hold the mutex while they wait for the server.
SendLocked(from, kind, to) ==
    /\ main = from
    /\ Free
    /\ mutex' = "main"
    /\ socket' = Request("main", kind, 0)
    /\ main' = to
    /\ UNCHANGED <<serverVars, command, worker, poolVars, bounds, missed>>

ReceiveLocked(from, to, member) ==
    /\ main = from
    /\ socket.by = "main" /\ socket.answered
    /\ socket' = NoRequest
    /\ registered' = member
    /\ mutex' = "free"
    /\ main' = to
    /\ UNCHANGED <<serverVars, command, worker, local, dirty, shown, bounds, missed>>

AddPool == SendLocked("fetched", "enable", "adding")
PoolAdded == ReceiveLocked("adding", "watching", TRUE)
RemovePool == SendLocked("leaving", "disable", "removing")
PoolRemoved == ReceiveLocked("removing", "prompt", FALSE)

\* The user presses a key, or q.
Quit ==
    /\ main = "watching"
    /\ main' = "leaving"
    /\ UNCHANGED <<serverVars, socket, mutex, command, worker, poolVars, bounds, missed>>

\* Curse::loop, KEY_UP: increment writes the pool's copy without the mutex ...
Edit ==
    /\ main = "watching" /\ command = "tune"
    /\ changes < MaxChanges
    /\ changes' = changes + 1
    /\ local' = IF local < MaxValue THEN local + 1 ELSE local
    /\ main' = "edited"
    /\ UNCHANGED <<serverVars, socket, mutex, command, worker, registered, dirty, shown,
                   losses, missed>>

\* ... and setToServer reads it again.  A busy socket throws: Curse::run ends.
SendEdit ==
    /\ main = "edited"
    /\ IF socket = NoRequest
       THEN socket' = Request("main", "set", local) /\ main' = "setting"
       ELSE UNCHANGED socket /\ main' = "leaving"
    /\ UNCHANGED <<serverVars, mutex, command, worker, poolVars, bounds, missed>>

EditDone ==
    /\ main = "setting"
    /\ socket.by = "main" /\ socket.answered
    /\ socket' = NoRequest
    /\ shown' = local
    /\ main' = "watching"
    /\ UNCHANGED <<serverVars, mutex, command, worker, registered, local, dirty,
                   bounds, missed>>

-----------------------------------------------------------------------------
Next ==
    \/ RobotSets \/ Serve \/ Lose
    \/ HandleValue
    \/ WorkerLocks \/ Redraw \/ Check \/ WorkerUnlocks
    \/ Fetch \/ AddPool \/ PoolAdded \/ Quit \/ RemovePool \/ PoolRemoved
    \/ Edit \/ SendEdit \/ EditDone

Spec == Init /\ [][Next]_vars

\* The threads run forever; the mutex is not fair, but every holder gives it back
\* and the worker sleeps between two rounds, so that a thread that keeps asking
\* for it gets it.  The user and the robot program promise nothing.
FairSpec ==
    /\ Spec
    /\ WF_vars(Serve)
    /\ SF_vars(HandleValue)
    /\ SF_vars(WorkerLocks) /\ WF_vars(Redraw) /\ WF_vars(Check \/ WorkerUnlocks)
    /\ SF_vars(AddPool) /\ WF_vars(PoolAdded)
    /\ SF_vars(RemovePool) /\ WF_vars(PoolRemoved)
    /\ WF_vars(SendEdit) /\ WF_vars(EditDone)

-----------------------------------------------------------------------------
(* Properties *)

Value == 0 .. MaxValue

\* Types, and who is inside the mutex holds it.
TypeOK ==
    /\ value \in Value /\ watched \in BOOLEAN /\ channel \in Seq(Value)
    /\ socket \in {NoRequest} \cup
          [by : {"main", "worker"}, kind : {"enable", "disable", "check", "set"},
           arg : Value, answered : BOOLEAN]
    /\ mutex \in {"free", "main", "worker"}
    /\ mutex = "main" <=> main \in {"adding", "removing"}
    /\ mutex = "worker" <=> worker # "sleep"
    /\ main \in {"prompt", "fetched", "adding", "watching", "edited", "setting",
                 "leaving", "removing"}
    /\ worker \in {"sleep", "redraw", "check", "wait"}
    /\ command \in {"watch", "tune"}
    /\ registered \in BOOLEAN /\ dirty \in BOOLEAN /\ missed \in BOOLEAN
    /\ local \in Value /\ shown \in Value
    /\ changes \in 0 .. MaxChanges /\ losses \in 0 .. MaxLosses

\* The pool lives on the stack of the command: the worker calls its callback only
\* while the command is between addPool and removePool.
DrawnWhileAlive ==
    worker = "redraw" => registered /\ main \in {"watching", "edited", "setting", "leaving"}

\* Two threads never mistake each other's replies: the thread that waits owns what
\* is on the socket.
ReplyBelongsToWaiter ==
    /\ worker = "wait" => socket.by = "worker"
    /\ main \in {"adding", "removing", "setting"} => socket.by = "main"

\* The server's value, or what the handlers leave of it.
Forms(v) == {v, Narrow[v]}

\* What is watched ends up on the screen as it is on the server, or as far as an int or a
\* float holds it, once nothing changes any more, unless the newest change was made while
\* the value was not watched or was lost on the network.  The tuner starts from what is
\* left of the value and writes that to the server.
EventuallyShown == <>[](registered /\ ~missed => shown \in Forms(value))
=============================================================================
