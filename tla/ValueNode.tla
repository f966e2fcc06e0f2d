------------------------------ MODULE ValueNode ------------------------------
(***************************************************************************)
(* Updates of one RhIO value by several threads: what is stored, what is   *)
(* handed to the publisher and to the logger, and in which order.          *)
(*                                                                         *)
(* set* runs under the node's mutex and calls the value's callback; setRT* *)
(* and addRTInt take no lock and call nothing.  All of them store, stamp,  *)
(* publish if somebody watches, and log, in steps other threads see.       *)
(***************************************************************************)
EXTENDS Integers, Sequences

CONSTANTS Thread,     \* the threads of the robot program and the reply server
          NoThread,   \* the mutex is free
          Kinds,      \* the setters they use
          Args,       \* the arguments they pass
          Minimum, Maximum,  \* the bounds of the value
          MaxCalls    \* bound: calls in all

ASSUME ValueAssumption ==
    /\ NoThread \notin Thread
    /\ Kinds \subseteq {"set", "setStr", "setRT", "addRT"}
    /\ Args \subseteq Int
    /\ Minimum \in Int /\ Maximum \in Int /\ Minimum <= Maximum
    /\ MaxCalls \in Nat

VARIABLES isStr,             \* the value is a string: set with setStr only
          value, timestamp,  \* the two fields of the value
          watched,           \* streamWatchers > 0
          mutex,             \* the holder of ValueNode::_mutex
          pc, call,          \* per thread: its next step, and its call
          clock,             \* getRhIOTime(), evaluated by every call
          sent, logged,      \* the last update handed to publisher and logger
          held,              \* history: the values stored, in order, and the setters
          newest             \* history: about the newest store

vars == <<isStr, value, timestamp, watched, mutex, pc, call, clock, sent, logged, held, newest>>

Call == [kind : Kinds, arg : Args, ts : Nat, n : Nat, carried : Int]
NoCall == [kind |-> "none", arg |-> 0, ts |-> 0, n |-> 0, carried |-> 0]
NoUpdate == [n |-> 0, kind |-> "none", val |-> 0, ts |-> 0]

Init ==
    /\ isStr \in {k = "setStr" : k \in Kinds}
    /\ value \in Minimum .. Maximum
    /\ timestamp = 0
    /\ watched \in BOOLEAN
    /\ mutex = NoThread
    /\ pc = [t \in Thread |-> "idle"]
    /\ call = [t \in Thread |-> NoCall]
    /\ clock = 0
    /\ sent = NoUpdate
    /\ logged = NoUpdate
    /\ held = <<>>
    /\ newest = [ts |-> 0, raced |-> FALSE, silent |-> TRUE]

-----------------------------------------------------------------------------
Locks(k) == k \in {"set", "setStr"}

Clamp(v) ==
    LET low == IF v < Minimum THEN Minimum ELSE v
    IN  IF low > Maximum THEN Maximum ELSE low

\* What an update stores: addRT skips the bounds.
Stored(c) == IF c.kind = "addRT" THEN value + c.arg ELSE Clamp(c.arg)

\* What it will publish and log.  The string setter clamps the field, not val.
CarriedFetched(c) ==
    CASE c.kind = "addRT" -> value
      [] c.kind = "setStr" -> c.arg
      [] OTHER -> Clamp(c.arg)
Carried(c) ==
    CASE c.kind = "addRT" -> value + c.arg
      [] c.kind = "setStr" -> c.arg
      [] OTHER -> Clamp(c.arg)

\* Other threads that have stored and not yet logged, if the two of them do not
\* both use the mutex.
Amid(t) == {u \in Thread \ {t} : /\ pc[u] \in {"stamp", "callback", "publish", "log"}
                                /\ ~(Locks(call[t].kind) /\ Locks(call[u].kind))}

Goto(t, label) == pc' = [pc EXCEPT ![t] = label]

-----------------------------------------------------------------------------
(* The steps of a call *)

\* The timestamp is a default argument: taken by the caller, before the lock.
Begin(t) ==
    /\ pc[t] = "idle"
    /\ clock < MaxCalls
    /\ clock' = clock + 1
    /\ \E k \in Kinds, a \in Args :
          /\ isStr <=> k = "setStr"
          /\ call' = [call EXCEPT ![t] = [kind |-> k, arg |-> a, ts |-> clock + 1,
                                          n |-> 0, carried |-> 0]]
          /\ Goto(t, IF Locks(k) THEN "lock" ELSE "store")
    /\ UNCHANGED <<isStr, value, timestamp, watched, mutex, sent, logged, held, newest>>

FreeOrNot == TRUE
Free == mutex = NoThread

Lock(t) ==
    /\ pc[t] = "lock"
    /\ Free
    /\ mutex' = t
    /\ Goto(t, "store")
    /\ UNCHANGED <<isStr, value, timestamp, watched, call, clock, sent, logged, held, newest>>

Store(t) ==
    /\ pc[t] = "store"
    /\ value' = Stored(call[t])
    /\ call' = [call EXCEPT ![t].carried = Carried(call[t]), ![t].n = Len(held) + 1]
    /\ held' = Append(held, [val |-> Stored(call[t]), kind |-> call[t].kind])
    /\ newest' = [ts |-> call[t].ts, raced |-> Amid(t) # {}, silent |-> FALSE]
    /\ Goto(t, "stamp")
    /\ UNCHANGED <<isStr, timestamp, watched, mutex, clock, sent, logged>>

Stamp(t) ==
    /\ pc[t] = "stamp"
    /\ timestamp' = call[t].ts
    /\ Goto(t, IF Locks(call[t].kind) THEN "callback" ELSE "publish")
    /\ UNCHANGED <<isStr, value, watched, mutex, call, clock, sent, logged, held, newest>>

Callback(t) ==
    /\ pc[t] = "callback"
    /\ Goto(t, "publish")
    /\ UNCHANGED <<isStr, value, timestamp, watched, mutex, call, clock, sent, logged, held, newest>>

StillLocked(t) == mutex
Unlocked(t) == IF mutex = t THEN NoThread ELSE mutex

\* The newest store will not be published.
Silenced(t) == [newest EXCEPT !.silent = @ \/ call[t].n = Len(held)]

\* An exception leaves the setter: the lock_guard releases the mutex, the value
\* stays updated.
CallbackThrows(t) ==
    /\ pc[t] = "callback"
    /\ mutex' = Unlocked(t)
    /\ newest' = Silenced(t)
    /\ Goto(t, "idle")
    /\ UNCHANGED <<isStr, value, timestamp, watched, call, clock, sent, logged, held>>

Update(c) == [n |-> c.n, kind |-> c.kind, val |-> c.carried, ts |-> c.ts]

Publish(t) ==
    /\ pc[t] = "publish"
    /\ Goto(t, "log")
    /\ \/ /\ watched
          /\ sent' = Update(call[t])
          /\ UNCHANGED newest
       \/ /\ ~watched
          /\ newest' = Silenced(t)
          /\ UNCHANGED sent
    /\ UNCHANGED <<isStr, value, timestamp, watched, mutex, call, clock, logged, held>>

Log(t) ==
    /\ pc[t] = "log"
    /\ logged' = Update(call[t])
    /\ mutex' = IF Locks(call[t].kind) THEN Unlocked(t) ELSE mutex
    /\ Goto(t, "idle")
    /\ UNCHANGED <<isStr, value, timestamp, watched, call, clock, sent, held, newest>>

\* enableStreamingValue, disableStreamingValue and checkStreamingValue, when they
\* take the count from zero or to zero: under the mutex.
Watch ==
    /\ mutex = NoThread
    /\ watched' = ~watched
    /\ UNCHANGED <<isStr, value, timestamp, mutex, pc, call, clock, sent, logged, held, newest>>

Next ==
    \/ \E t \in Thread : \/ Begin(t)
                         \/ Lock(t)
                         \/ Store(t)
                         \/ Stamp(t)
                         \/ Callback(t)
                         \/ CallbackThrows(t)
                         \/ Publish(t)
                         \/ Log(t)
    \/ Watch

Spec == Init /\ [][Next]_vars

-----------------------------------------------------------------------------
(* Properties *)

Label == {"idle", "lock", "store", "stamp", "callback", "publish", "log"}
Updates == [n : Nat, kind : Kinds, val : Int, ts : Nat] \cup {NoUpdate}

\* Types, and the mutex is held exactly by the thread inside a locking setter,
\* whatever its callback does.
TypeOK ==
    /\ value \in Int /\ timestamp \in 0 .. MaxCalls /\ watched \in BOOLEAN
    /\ pc \in [Thread -> Label]
    /\ call \in [Thread -> Call \cup {NoCall}]
    /\ clock \in 0 .. MaxCalls
    /\ sent \in Updates /\ logged \in Updates
    /\ held \in Seq([val : Int, kind : Kinds]) /\ Len(held) <= clock
    /\ newest \in [ts : Nat, raced : BOOLEAN, silent : BOOLEAN]
    /\ \A t \in Thread :
          mutex = t <=> /\ pc[t] \in {"store", "stamp", "callback", "publish", "log"}
                        /\ Locks(call[t].kind)

\* "Publish value", "Log value": every update that is streamed or logged carries
\* the value that update stored, one of a string before it was bounded.
CarriesWhatItStored ==
    \A u \in {sent, logged} : u.n > 0 =>
        held[u.n].val = IF u.kind = "setStr" THEN Clamp(u.val) ELSE u.val

Quiet == \A t \in Thread : pc[t] \in {"idle", "lock"}

\* When no update is under way, and the newest store did not race another update, the
\* "Last updated value timestamp" is the one of the update that stored the value, and
\* the stream ended with that value, if somebody watched.
QuietIsCurrent ==
    Quiet /\ Len(held) > 0 /\ ~newest.raced =>
        /\ timestamp = newest.ts
        /\ ~newest.silent /\ ~isStr => sent.val = value

\* The updates of two locking setters never overtake each other, whatever the
\* real-time setters do meanwhile: when one is streamed or logged, no later one
\* has been stored.
NoLaterSet(u) == Locks(u.kind) => \A i \in u.n + 1 .. Len(held) : ~Locks(held[i].kind)
InStoreOrder ==
    [][/\ sent' # sent => NoLaterSet(sent')
       /\ logged' # logged => NoLaterSet(logged')]_vars
=============================================================================
