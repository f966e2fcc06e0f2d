--------------------------- MODULE StreamWatchers ---------------------------
(***************************************************************************)
(* Who is streamed a value: the watcher count a RhIO server keeps for one  *)
(* value, and the shells that enable, check and disable its streaming over *)
(* REQ/REP while they watch it.                                            *)
(*                                                                         *)
(* A shell has at most one request under way; the server answers them one  *)
(* at a time.  Shells may be killed, and the server may be stopped and     *)
(* started again, with requests and replies under way.  An error reply is  *)
(* treated by the shell as a good one (StreamManager swallows it).         *)
(***************************************************************************)
EXTENDS Integers, FiniteSets

CONSTANTS Shell,        \* the shell processes
          MaxRestarts,  \* bound: restarts of the server
          MaxKills      \* bound: shells killed while they watch

ASSUME WatchersAssumption ==
    IsFiniteSet(Shell) /\ MaxRestarts \in Nat /\ MaxKills \in Nat

VARIABLES server,     \* "down", "starting" (the value is not created yet) or "ready"
          watchers,   \* streamWatchers of the value
          mode,       \* per shell: what it does with the value
          link,       \* per shell: its request or reply
          restarts, kills,
          leaked      \* history: watchers counted for shells that were killed

watchersVars == <<server, watchers, mode, link, restarts, kills, leaked>>

Mode == {"off", "enabling", "watching", "checking", "disabling"}
Link == {"idle", "request", "reply", "lost"}

WatchersInit ==
    /\ server = "ready"
    /\ watchers = 0
    /\ mode = [s \in Shell |-> "off"]
    /\ link = [s \in Shell |-> "idle"]
    /\ restarts = 0
    /\ kills = 0
    /\ leaked = 0

-----------------------------------------------------------------------------
(* ValueNode::enableStreamingValue, disableStreamingValue, checkStreamingValue *)

Enabled(n) == n + 1
DisabledUnclamped(n) == n - 1
Disabled(n) == IF n - 1 < 0 THEN 0 ELSE n - 1
CheckedAdding(n) == n + 1
CheckedNever(n) == n
Checked(n) == IF n <= 0 THEN 1 ELSE n

\* The watcher count after the request a shell in this mode has sent.  Without
\* the value the node throws and the count stays.
Served(n, m) ==
    IF server # "ready" THEN n
    ELSE CASE m = "enabling" -> Enabled(n)
           [] m = "checking" -> Checked(n)
           [] m = "disabling" -> Disabled(n)

\* ServerRep::handleRequest, for one of the three requests
Handle(s) ==
    /\ server # "down"
    /\ link[s] = "request"
    /\ link' = [link EXCEPT ![s] = "reply"]
    /\ watchers' = Served(watchers, mode[s])
    /\ UNCHANGED <<server, mode, restarts, kills, leaked>>

-----------------------------------------------------------------------------
(* StreamManager: one thread at a time talks to the server, under the mutex *)

Ask(s, from, to) ==
    /\ mode[s] = from
    /\ mode' = [mode EXCEPT ![s] = to]
    /\ link' = [link EXCEPT ![s] = "request"]
    /\ UNCHANGED <<server, watchers, restarts, kills, leaked>>

AddPool(s) == Ask(s, "off", "enabling")
RemovePool(s) == Ask(s, "watching", "disabling")

\* The worker, more than 2000 ms after the last check
CheckPool(s) == Ask(s, "watching", "checking")

\* waitReply returns, or throws and the exception is dropped.
Receive(s) ==
    /\ link[s] = "reply"
    /\ link' = [link EXCEPT ![s] = "idle"]
    /\ mode' = [mode EXCEPT ![s] = IF @ = "disabling" THEN "off" ELSE "watching"]
    /\ UNCHANGED <<server, watchers, restarts, kills, leaked>>

-----------------------------------------------------------------------------
(* Failures *)

\* The shells a count of the server may stand for.
Counted(s) ==
    \/ mode[s] \in {"watching", "checking"}
    \/ mode[s] = "enabling" /\ link[s] \in {"reply", "lost"}
    \/ mode[s] = "disabling" /\ link[s] \in {"request", "lost"}
Interested == {s \in Shell : Counted(s)}

\* A shell that is killed disables nothing.  Its last request may still reach
\* the server.
Kill(s) ==
    /\ kills < MaxKills
    /\ mode[s] # "off"
    /\ kills' = kills + 1
    /\ mode' = [mode EXCEPT ![s] = "off"]
    /\ link' = [link EXCEPT ![s] = "idle"]
    /\ \/ /\ leaked' = leaked + IF Counted(s) THEN 1 ELSE 0
          /\ UNCHANGED watchers
       \/ /\ server = "ready" /\ link[s] = "request"
          /\ watchers' = Served(watchers, mode[s])
          /\ leaked' = leaked + IF mode[s] = "disabling" THEN 0 ELSE 1
    /\ UNCHANGED <<server, restarts>>

\* What was under way reaches the next server or is lost with this one: then the
\* shell waits forever, for its socket has no receive timeout.
StopServer ==
    /\ server # "down"
    /\ restarts < MaxRestarts
    /\ restarts' = restarts + 1
    /\ server' = "down"
    /\ watchers' = 0
    /\ leaked' = 0
    /\ link' \in {l \in [Shell -> Link] : \A s \in Shell :
                    l[s] \in {link[s]} \cup (IF link[s] = "idle" THEN {} ELSE {"lost"})}
    /\ UNCHANGED <<mode, kills>>

StartServer ==
    /\ server = "down"
    /\ server' = "starting"
    /\ UNCHANGED <<watchers, mode, link, restarts, kills, leaked>>

CreateValue ==
    /\ server = "starting"
    /\ server' = "ready"
    /\ UNCHANGED <<watchers, mode, link, restarts, kills, leaked>>

-----------------------------------------------------------------------------
WatchersNext ==
    \/ \E s \in Shell : \/ AddPool(s)
                        \/ RemovePool(s)
                        \/ CheckPool(s)
                        \/ Receive(s)
                        \/ Handle(s)
                        \/ Kill(s)
    \/ StopServer
    \/ StartServer
    \/ CreateValue

WatchersSpec == WatchersInit /\ [][WatchersNext]_watchersVars

\* The reply server and the worker of each shell run forever, and a program that
\* is started again creates its values.  Users promise nothing.
FairSpec ==
    /\ WatchersSpec
    /\ WF_watchersVars(StartServer) /\ WF_watchersVars(CreateValue)
    /\ \A s \in Shell : /\ WF_watchersVars(Handle(s)) /\ WF_watchersVars(Receive(s))
                        /\ WF_watchersVars(CheckPool(s))

-----------------------------------------------------------------------------
(* Properties *)

WatchersTypeOK ==
    /\ server \in {"down", "starting", "ready"}
    /\ watchers \in Nat
    /\ mode \in [Shell -> Mode]
    /\ link \in [Shell -> Link]
    /\ restarts \in 0 .. MaxRestarts
    /\ kills \in 0 .. MaxKills
    /\ leaked \in Nat

\* A value is never streamed for nobody, except for the shells that were killed:
\* neither a restart nor a check can leave the count above those it stands for, no
\* disable that meets the count of another server takes it below zero, and while the
\* server has not been restarted the count is exact.
CountFollowsShells ==
    /\ watchers \in 0 .. Cardinality(Interested) + leaked
    /\ restarts = 0 => watchers = Cardinality(Interested) + leaked

\* A shell that keeps watching, and is not stuck on a lost reply, is streamed the
\* value again after whatever made the count drop to zero.
Starved(s) ==
    /\ mode[s] \in {"watching", "checking"}
    /\ link[s] # "lost"
    /\ watchers = 0
StreamingResumes == \A s \in Shell : Starved(s) ~> ~Starved(s)
=============================================================================
