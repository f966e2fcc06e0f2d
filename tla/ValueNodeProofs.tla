--------------------------- MODULE ValueNodeProofs ---------------------------
(***************************************************************************)
(* What a value of a node goes through.                                    *)
(*                                                                         *)
(* The updates of one value, for any threads, setters, arguments, bounds   *)
(* and number of calls.  A call that has stored knows what it stored       *)
(* (Faithful), no later call has its number (Numbered), and while it holds *)
(* the mutex no other setter that locks has stored (InOrder).  If the      *)
(* newest store raced nobody, no other call is between its store and its   *)
(* end (Alone), so that its stamp and its update are the last ones.        *)
(*                                                                         *)
(* The count of its watchers, for any set of shells and any number of      *)
(* restarts and kills.  A step moves one shell, so that the set of shells  *)
(* the count stands for gains or loses that shell at most (OneMoves); and  *)
(* a server that has not created the value again counts nobody, which is   *)
(* why a disable it refuses does no harm (NotReady).                       *)
(***************************************************************************)
EXTENDS ValueNode, StreamWatchers, FiniteSetTheorems, TLAPS

\* Between the store and the end of a call.
After == {"stamp", "callback", "publish", "log"}
\* The calls that have begun and not stored.
Pending == {t \in Thread : pc[t] \in {"lock", "store"}}

\* An update, or a call that has stored, and what it stored.
Faithful(u) ==
    /\ u.n \in 1 .. Len(held)
    /\ held[u.n].kind = u.kind
    /\ held[u.n].val = IF u.kind = "setStr" THEN Clamp(u.val) ELSE u.val
    /\ isStr <=> u.kind = "setStr"

\* A call belongs to a setter of this value; only setters with the mutex wait for it and
\* call the callback.
CallOK(t) ==
    pc[t] # "idle" =>
        /\ call[t] \in Call /\ call[t].ts \in 0 .. clock
        /\ isStr <=> call[t].kind = "setStr"
        /\ pc[t] \in {"lock", "callback"} => Locks(call[t].kind)
        /\ pc[t] \in After => Faithful(Update(call[t]))

TypesOK ==
    /\ TypeOK
    /\ mutex \in Thread \cup {NoThread} /\ isStr \in BOOLEAN
    /\ IsFiniteSet(Pending) /\ Len(held) + Cardinality(Pending) <= clock
    /\ \A t \in Thread : CallOK(t)

UpdatesOK == \A u \in {sent, logged} : u.n = 0 \/ Faithful(u)

Numbered == \A t, u \in Thread :
    pc[t] \in After /\ pc[u] \in After /\ call[t].n = call[u].n => t = u

InOrder == \A t \in Thread :
    pc[t] \in After /\ Locks(call[t].kind) =>
        \A i \in call[t].n + 1 .. Len(held) : ~Locks(held[i].kind)

\* About the newest store: the value is its, and, if it raced nobody, its call is the
\* only one on its way, and still has to stamp and to publish what it has not.
Alone ==
    Len(held) > 0 =>
        /\ value = held[Len(held)].val
        /\ \A t \in Thread : pc[t] \in After /\ call[t].n = Len(held) => call[t].ts = newest.ts
        /\ ~newest.raced =>
              /\ \A t \in Thread : pc[t] \in After => call[t].n = Len(held)
              /\ timestamp = newest.ts \/ \E t \in Thread : pc[t] = "stamp"
              /\ \/ newest.silent \/ sent.n = Len(held)
                 \/ \E t \in Thread : pc[t] \in {"stamp", "callback", "publish"}

\* The inductive invariant.
IInv == TypesOK /\ UpdatesOK /\ Numbered /\ InOrder /\ Alone

-----------------------------------------------------------------------------
(* What the proofs keep needing *)

\* The bounds and the arguments are integers, and so is what is stored.
LEMMA Clamped ==
    /\ Minimum \in Int /\ Maximum \in Int /\ Args \subseteq Int
    /\ MaxCalls \in Nat /\ NoThread \notin Thread
    /\ \A v \in Int : Clamp(v) \in Int
BY ValueAssumption DEF Clamp

\* What was stored stays stored.
Grows ==
    /\ Len(held) \in Nat /\ Len(held') \in Nat /\ Len(held) <= Len(held')
    /\ \A i \in 1 .. Len(held) : held'[i] = held[i]
    /\ isStr' = isStr

\* Only a store adds to what was stored, and it adds one value at the end.
LEMMA Growing ==
    ASSUME TypeOK, [Next]_vars
    PROVE  Grows
<1>1. held \in Seq([val : Int, kind : Kinds])
      BY DEF TypeOK
<1>2. held' = held \/ \E x : held' = Append(held, x)
      BY DEF Next, Begin, Lock, Store, Stamp, Callback, CallbackThrows, Publish, Log, Watch, vars
<1>3. isStr' = isStr
      BY DEF Next, Begin, Lock, Store, Stamp, Callback, CallbackThrows, Publish, Log, Watch, vars
<1>4. CASE held' = held
      BY <1>1, <1>3, <1>4 DEF Grows
<1>5. CASE \E x : held' = Append(held, x)
      BY <1>1, <1>3, <1>5 DEF Grows
<1> QED BY <1>2, <1>4, <1>5

\* An update stays faithful to what it stored.
LEMMA FaithfulStays ==
    ASSUME Grows, NEW u, Faithful(u)
    PROVE  Faithful(u)'
BY DEF Grows, Faithful

\* A step of one thread leaves the calls of the others as they were.
LEMMA OthersCall ==
    ASSUME Grows, clock \in Nat, clock' \in Nat, clock <= clock',
           NEW u \in Thread, CallOK(u), pc'[u] = pc[u], call'[u] = call[u]
    PROVE  CallOK(u)'
<1> SUFFICES ASSUME pc[u] # "idle" PROVE CallOK(u)'
    BY DEF CallOK
<1>1. /\ call[u] \in Call /\ call[u].ts \in 0 .. clock
      /\ isStr <=> call[u].kind = "setStr"
      /\ pc[u] \in {"lock", "callback"} => Locks(call[u].kind)
      BY DEF CallOK
<1>2. ASSUME pc[u] \in After PROVE Faithful(Update(call[u]))'
  <2>1. Faithful(Update(call[u]))
        BY <1>2 DEF CallOK
  <2>2. Update(call[u])' = Update(call[u])
        BY DEF Update
  <2> QED BY <2>1, <2>2 DEF Grows, Faithful
<1>3. call'[u] \in Call /\ call'[u].ts \in 0 .. clock'
      BY <1>1 DEF Call
<1>4. Call' = Call
      BY DEF Call
<1> QED BY <1>1, <1>2, <1>3, <1>4 DEF CallOK, Grows, Locks

\* The calls that have begun and not stored are counted one by one.
LEMMA PendingMoves ==
    ASSUME IsFiniteSet(Pending), pc \in [Thread -> Label], NEW t \in Thread, NEW label,
           pc' = [pc EXCEPT ![t] = label]
    PROVE  /\ IsFiniteSet(Pending') /\ Cardinality(Pending) \in Nat
           /\ t \notin Pending /\ label \in {"lock", "store"} =>
                 Cardinality(Pending') = Cardinality(Pending) + 1
           /\ t \in Pending /\ label \notin {"lock", "store"} =>
                 Cardinality(Pending') = Cardinality(Pending) - 1
           /\ (t \in Pending <=> label \in {"lock", "store"}) => Pending' = Pending
<1>1. CASE label \in {"lock", "store"}
  <2>1. Pending' = Pending \cup {t}
        BY <1>1 DEF Pending
  <2> QED BY <1>1, <2>1, FS_AddElement, FS_CardinalityType
<1>2. CASE label \notin {"lock", "store"}
  <2>1. Pending' = Pending \ {t}
        BY <1>2 DEF Pending
  <2> QED BY <1>2, <2>1, FS_RemoveElement, FS_CardinalityType
<1> QED BY <1>1, <1>2

-----------------------------------------------------------------------------
(* Types, and what each call has stored *)

\* The calls are well formed after a step of t, if its own is.
LEMMA CallsAfter ==
    ASSUME TypesOK, [Next]_vars, clock' \in {clock, clock + 1},
           NEW t \in Thread, CallOK(t)',
           \A u \in Thread \ {t} : pc'[u] = pc[u] /\ call'[u] = call[u]
    PROVE  \A u \in Thread : CallOK(u)'
<1>1. Grows
      BY Growing DEF TypesOK
<1>2. clock \in Nat
      BY Clamped DEF TypesOK, TypeOK
<1>3. clock' \in Nat /\ clock <= clock'
      BY <1>2
<1>4. \A u \in Thread \ {t} : CallOK(u)'
      BY <1>1, <1>2, <1>3, OthersCall DEF TypesOK
<1> QED BY <1>4

\* The invariant's types hold at the beginning.
LEMMA InitTypes == Init => TypesOK
<1> SUFFICES ASSUME Init PROVE TypesOK
    OBVIOUS
<1>1. Pending = {}
      BY DEF Init, Pending
<1>2. IsFiniteSet(Pending) /\ Cardinality(Pending) = 0
      BY <1>1, FS_EmptySet
<1>3. held = <<>> /\ held \in Seq([val : Int, kind : Kinds])
      BY DEF Init
<1>4. /\ pc \in [Thread -> Label] /\ call \in [Thread -> Call \cup {NoCall}]
      /\ timestamp \in 0 .. MaxCalls /\ clock \in 0 .. MaxCalls /\ value \in Int
      /\ \A t \in Thread : mutex # t
      BY Clamped DEF Init, Label
<1>5. TypeOK
      BY <1>2, <1>3, <1>4 DEF Init, TypeOK, Updates, NoUpdate
<1>6. isStr \in BOOLEAN
      BY DEF Init
<1> QED BY <1>2, <1>3, <1>5, <1>6 DEF Init, TypesOK, CallOK

\* A step of a call keeps the types, what each call has stored and who has the mutex.
LEMMA StepTypes ==
    ASSUME TypesOK, [Next]_vars, NEW t \in Thread,
           \/ Begin(t) \/ Lock(t) \/ Store(t) \/ Stamp(t)
           \/ Callback(t) \/ CallbackThrows(t) \/ Publish(t) \/ Log(t)
    PROVE  TypesOK'
<1> NoThread \notin Thread /\ MaxCalls \in Nat
    BY Clamped
<1>1. /\ pc[t] # "idle" => call[t] \in Call /\ call[t].ts \in 0 .. clock
      /\ CallOK(t)
      BY DEF TypesOK, CallOK
<1>2. /\ IsFiniteSet(Pending) /\ pc \in [Thread -> Label] /\ clock \in 0 .. MaxCalls
      /\ call \in [Thread -> Call \cup {NoCall}]
      /\ held \in Seq([val : Int, kind : Kinds])
      BY DEF TypesOK, TypeOK
<1>0. /\ Len(held) \in Nat /\ Cardinality(Pending) \in Nat /\ clock \in Nat
      /\ clock <= MaxCalls /\ Len(held) + Cardinality(Pending) <= clock
  <2>1. Len(held) \in Nat
        BY <1>2
  <2>2. Cardinality(Pending) \in Nat
        BY <1>2, FS_CardinalityType
  <2>3. Len(held) + Cardinality(Pending) <= clock
        BY DEF TypesOK
  <2>4. clock \in Nat /\ clock <= MaxCalls
        BY <1>2
  <2> QED BY <2>1, <2>2, <2>3, <2>4
<1>3. CASE Begin(t)
  <2>1. PICK k \in Kinds, a \in Args :
          /\ isStr <=> k = "setStr"
          /\ call' = [call EXCEPT ![t] = [kind |-> k, arg |-> a, ts |-> clock + 1,
                                          n |-> 0, carried |-> 0]]
          /\ pc' = [pc EXCEPT ![t] = IF Locks(k) THEN "lock" ELSE "store"]
        BY <1>3 DEF Begin, Goto
  <2>2. /\ call'[t] = [kind |-> k, arg |-> a, ts |-> clock + 1, n |-> 0, carried |-> 0]
        /\ call'[t] \in Call
        /\ \A u \in Thread \ {t} : pc'[u] = pc[u] /\ call'[u] = call[u]
        BY <1>2, <2>1 DEF Call
  <2>9. clock' = clock + 1 /\ clock' \in 0 .. MaxCalls
        BY <1>2, <1>3 DEF Begin
  <2>3. /\ pc[t] = "idle" /\ pc'[t] \in {"lock", "store"} /\ isStr' = isStr
        /\ pc'[t] = "lock" => Locks(k)
        BY <1>2, <1>3, <2>1 DEF Begin
  <2>4. CallOK(t)'
        BY <2>1, <2>2, <2>3, <2>9, <1>2 DEF CallOK, After
  <2>5. \A u \in Thread : CallOK(u)'
        BY <2>2, <2>4, <2>9, CallsAfter
  <2>6. /\ IsFiniteSet(Pending')
        /\ Cardinality(Pending') = Cardinality(Pending) + 1
        BY <1>2, <2>1, <2>3, PendingMoves DEF Pending
  <2>7. \A u \in Thread : mutex = u <=> /\ pc'[u] \in {"store", "stamp", "callback", "publish", "log"}
                                        /\ Locks(call'[u].kind)
        BY <2>1, <2>2, <2>3, <1>2 DEF TypesOK, TypeOK
  <2>8. pc' \in [Thread -> Label] /\ call' \in [Thread -> Call \cup {NoCall}]
        BY <1>2, <2>1, <2>2 DEF Label
  <2>10. Len(held) + Cardinality(Pending') <= clock' /\ Len(held) <= clock'
        BY <1>0, <2>6, <2>9
  <2>11. UNCHANGED <<isStr, value, timestamp, watched, mutex, sent, logged, held, newest>>
        BY <1>3 DEF Begin
  <2> QED BY <2>5, <2>6, <2>7, <2>8, <2>9, <2>10, <2>11 DEF TypesOK, TypeOK
<1>4. CASE Lock(t)
  <2>1. /\ pc[t] = "lock" /\ pc' = [pc EXCEPT ![t] = "store"]
        /\ mutex = NoThread /\ mutex' = t
        /\ UNCHANGED <<isStr, value, timestamp, watched, call, clock, sent, logged, held, newest>>
        BY <1>4 DEF Lock, Free, Goto
  <2>2. pc'[t] = "store" /\ \A u \in Thread \ {t} : pc'[u] = pc[u]
        BY <1>2, <2>1
  <2>3. CallOK(t)' /\ Locks(call[t].kind)
        BY <1>1, <2>1, <2>2 DEF CallOK, After
  <2>4. \A u \in Thread : CallOK(u)'
        BY <1>2, <2>1, <2>2, <2>3, CallsAfter
  <2>5. Pending' = Pending
        BY <1>2, <2>1, PendingMoves DEF Pending
  <2>6. \A u \in Thread : mutex' = u <=> /\ pc'[u] \in {"store", "stamp", "callback", "publish", "log"}
                                         /\ Locks(call'[u].kind)
        BY <2>1, <2>2, <2>3 DEF TypesOK, TypeOK
  <2>7. pc' \in [Thread -> Label]
        BY <1>2, <2>1 DEF Label
  <2> QED BY <1>2, <2>1, <2>4, <2>5, <2>6, <2>7 DEF TypesOK, TypeOK
<1>5. CASE Store(t)
  <2> DEFINE c == call[t]
  <2>1. /\ pc[t] = "store" /\ pc' = [pc EXCEPT ![t] = "stamp"]
        /\ value' = Stored(c)
        /\ call' = [call EXCEPT ![t].carried = Carried(c), ![t].n = Len(held) + 1]
        /\ held' = Append(held, [val |-> Stored(c), kind |-> c.kind])
        /\ newest' = [ts |-> c.ts, raced |-> Amid(t) # {}, silent |-> FALSE]
        /\ UNCHANGED <<isStr, timestamp, watched, mutex, clock, sent, logged>>
        BY <1>5 DEF Store, Goto
  <2>2. c \in Call /\ value \in Int
        BY <1>1, <2>1 DEF TypesOK, TypeOK
  <2>3. c.kind \in Kinds /\ c.arg \in Int /\ c.ts \in Nat /\ c.ts \in 0 .. clock
        BY <1>1, <2>1, <2>2, Clamped DEF Call
  <2>4. Stored(c) \in Int /\ Carried(c) \in Int
        BY <2>2, <2>3, Clamped DEF Stored, Carried
  <2>5. /\ call'[t].kind = c.kind /\ call'[t].ts = c.ts /\ call'[t].n = Len(held) + 1
        /\ call'[t].carried = Carried(c) /\ call'[t].arg = c.arg
        BY <1>2, <2>1, <2>2 DEF Call
  <2>6. call'[t] \in Call
    <3>1. call'[t] = [c EXCEPT !.carried = Carried(c), !.n = Len(held) + 1]
          BY <1>2, <2>1
    <3>2. c = [kind |-> c.kind, arg |-> c.arg, ts |-> c.ts, n |-> c.n, carried |-> c.carried]
          BY <2>2 DEF Call
    <3>3. c.kind \in Kinds /\ c.arg \in Args /\ c.ts \in Nat
          BY <2>2 DEF Call
    <3> HIDE DEF c
    <3>4. call'[t] = [kind |-> c.kind, arg |-> c.arg, ts |-> c.ts, n |-> Len(held) + 1,
                      carried |-> Carried(c)]
          BY <3>1, <3>2
    <3> QED BY <1>0, <2>4, <3>3, <3>4 DEF Call
  <2>7. \A u \in Thread \ {t} : pc'[u] = pc[u] /\ call'[u] = call[u]
        BY <1>2, <2>1
  <2>8. /\ held' \in Seq([val : Int, kind : Kinds]) /\ Len(held') = Len(held) + 1
        /\ held'[Len(held')].val = Stored(c) /\ held'[Len(held')].kind = c.kind
        BY <1>2, <2>1, <2>3, <2>4
  <2>9. /\ Stored(c) = IF c.kind = "setStr" THEN Clamp(Carried(c)) ELSE Carried(c)
        /\ isStr' <=> c.kind = "setStr"
        BY <1>1, <2>1 DEF Stored, Carried, CallOK
  <2>10. Faithful(Update(call[t]))'
    <3> DEFINE u == Update(call[t])
    <3>1. u'.n = Len(held') /\ u'.kind = c.kind /\ u'.val = Carried(c) /\ Len(held') \in 1 .. Len(held')
          BY <1>2, <2>5, <2>8 DEF Update
    <3>2. held'[u'.n].kind = c.kind /\ held'[u'.n].val = Stored(c)
          BY <2>8, <3>1
    <3> HIDE DEF u, c
    <3>3. Faithful(u)'
          BY <2>9, <3>1, <3>2 DEF Faithful, Clamp
    <3> QED BY <3>3 DEF u
  <2>11. CallOK(t)'
        BY <1>2, <2>1, <2>3, <2>5, <2>6, <2>9, <2>10 DEF CallOK
  <2>12. \A u \in Thread : CallOK(u)'
        BY <1>2, <2>1, <2>7, <2>11, CallsAfter
  <2>13. IsFiniteSet(Pending') /\ Cardinality(Pending') = Cardinality(Pending) - 1
        BY <1>2, <2>1, PendingMoves DEF Pending
  <2>14. \A u \in Thread : mutex' = u <=> /\ pc'[u] \in {"store", "stamp", "callback", "publish", "log"}
                                          /\ Locks(call'[u].kind)
        BY <1>2, <2>1, <2>5, <2>7 DEF TypesOK, TypeOK
  <2>15. /\ pc' \in [Thread -> Label] /\ newest' \in [ts : Nat, raced : BOOLEAN, silent : BOOLEAN]
         /\ call' \in [Thread -> Call \cup {NoCall}]
    <3>1. \A u \in Thread : call'[u] \in Call \cup {NoCall}
          BY <1>2, <2>6, <2>7
    <3>2. call' = [u \in Thread |-> call'[u]]
          BY <1>2, <2>1
    <3> QED BY <1>2, <2>1, <2>3, <3>1, <3>2 DEF Label
  <2>16. Len(held') + Cardinality(Pending') <= clock' /\ Len(held') <= clock'
    <3>1. clock' = clock /\ Len(held') = Len(held) + 1
          BY <2>1, <2>8
    <3>2. Cardinality(Pending') \in Nat
          BY <2>13, FS_CardinalityType
    <3> QED BY <1>0, <2>13, <3>1, <3>2
  <2> HIDE DEF c
  <2> QED BY <2>1, <2>4, <2>8, <2>12, <2>13, <2>14, <2>15, <2>16 DEF TypesOK, TypeOK
<1>6. CASE Stamp(t) \/ Callback(t) \/ Publish(t)
  <2>1. PICK label \in After :
          /\ pc' = [pc EXCEPT ![t] = label]
          /\ label = "callback" => Locks(call[t].kind)
        BY <1>6 DEF Stamp, Callback, Publish, Goto, After
  <2>2. /\ pc[t] \in After
        /\ UNCHANGED <<isStr, value, watched, mutex, call, clock, logged, held>>
        BY <1>6 DEF Stamp, Callback, Publish, After
  <2>3. pc'[t] = label /\ \A u \in Thread \ {t} : pc'[u] = pc[u]
        BY <1>2, <2>1
  <2>4. CallOK(t)'
        BY <1>1, <2>1, <2>2, <2>3 DEF CallOK, After, Faithful, Clamp
  <2>5. \A u \in Thread : CallOK(u)'
        BY <1>2, <2>2, <2>3, <2>4, CallsAfter
  <2>6. Pending' = Pending
        BY <1>2, <2>1, <2>2, PendingMoves DEF Pending, After
  <2>7. \A u \in Thread : mutex' = u <=> /\ pc'[u] \in {"store", "stamp", "callback", "publish", "log"}
                                         /\ Locks(call'[u].kind)
        BY <2>1, <2>2, <2>3 DEF TypesOK, TypeOK, After
  <2>8. pc' \in [Thread -> Label]
        BY <1>2, <2>1 DEF Label, After
  <2>9. timestamp' \in 0 .. MaxCalls
    <3>1. call[t].ts \in 0 .. MaxCalls
          BY <1>0, <1>1, <2>2 DEF After
    <3> QED BY <1>6, <3>1 DEF Stamp, Callback, Publish, TypesOK, TypeOK
  <2>11. newest' \in [ts : Nat, raced : BOOLEAN, silent : BOOLEAN]
    <3>1. newest' = newest \/ newest' = Silenced(t)
          BY <1>6 DEF Stamp, Callback, Publish
    <3>2. newest \in [ts : Nat, raced : BOOLEAN, silent : BOOLEAN]
          BY DEF TypesOK, TypeOK
    <3> QED BY <3>1, <3>2 DEF Silenced
  <2>10. sent' \in Updates
    <3>1. call[t] \in Call
          BY <1>1, <2>2 DEF After
    <3>2. Update(call[t]) \in Updates
          BY <3>1 DEF Update, Updates, Call
    <3> QED BY <1>6, <3>2 DEF Stamp, Callback, Publish, TypesOK, TypeOK
  <2> QED BY <1>2, <2>2, <2>5, <2>6, <2>7, <2>8, <2>9, <2>10, <2>11 DEF TypesOK, TypeOK
<1>7. CASE CallbackThrows(t) \/ Log(t)
  <2>1. /\ pc' = [pc EXCEPT ![t] = "idle"] /\ pc[t] \in After
        /\ UNCHANGED <<isStr, value, timestamp, watched, call, clock, sent, held>>
        BY <1>7 DEF CallbackThrows, Log, Goto, After
  <2>2. pc'[t] = "idle" /\ \A u \in Thread \ {t} : pc'[u] = pc[u]
        BY <1>2, <2>1
  <2>3. CallOK(t)'
        BY <2>2 DEF CallOK
  <2>4. \A u \in Thread : CallOK(u)'
        BY <1>2, <2>1, <2>2, <2>3, CallsAfter
  <2>5. Pending' = Pending
        BY <1>2, <2>1, PendingMoves DEF Pending, After
  <2>6. /\ mutex = t => mutex' = NoThread
        /\ mutex # t => mutex' = mutex
    <3>1. CASE CallbackThrows(t)
          BY <3>1 DEF CallbackThrows, Unlocked
    <3>2. CASE Log(t)
      <4>1. mutex = t <=> Locks(call[t].kind)
            BY <2>1 DEF TypesOK, TypeOK, After
      <4> QED BY <3>2, <4>1 DEF Log, Unlocked
    <3> QED BY <1>7, <3>1, <3>2
  <2>7. \A u \in Thread : mutex' = u <=> /\ pc'[u] \in {"store", "stamp", "callback", "publish", "log"}
                                         /\ Locks(call'[u].kind)
        BY <2>1, <2>2, <2>6 DEF TypesOK, TypeOK
  <2>8. pc' \in [Thread -> Label] /\ mutex' \in Thread \cup {NoThread}
        BY <1>2, <2>1, <2>6 DEF Label, TypesOK
  <2>9. newest' \in [ts : Nat, raced : BOOLEAN, silent : BOOLEAN]
        BY <1>7 DEF CallbackThrows, Log, Silenced, TypesOK, TypeOK
  <2>10. logged' \in Updates
    <3>1. call[t] \in Call
          BY <1>1, <2>1 DEF After
    <3>2. Update(call[t]) \in Updates
          BY <3>1 DEF Update, Updates, Call
    <3> QED BY <1>7, <3>2 DEF CallbackThrows, Log, TypesOK, TypeOK
  <2> QED BY <1>2, <2>1, <2>4, <2>5, <2>7, <2>8, <2>9, <2>10 DEF TypesOK, TypeOK
<1> QED BY <1>3, <1>4, <1>5, <1>6, <1>7

\* Every step keeps the types, what each call has stored and who has the mutex.
LEMMA NextTypes == TypesOK /\ [Next]_vars => TypesOK'
<1> SUFFICES ASSUME TypesOK, [Next]_vars, Watch \/ UNCHANGED vars PROVE TypesOK'
    BY StepTypes DEF Next
<1>1. /\ UNCHANGED <<isStr, value, timestamp, mutex, pc, call, clock, sent, logged, held, newest>>
      /\ watched' \in BOOLEAN
      BY DEF Watch, vars, TypesOK, TypeOK
<1>2. Pending' = Pending
      BY <1>1 DEF Pending
<1>3. \A u \in Thread : CallOK(u)'
  <2>1. Grows
        BY Growing DEF TypesOK
  <2>2. clock \in Nat /\ clock' = clock
        BY <1>1, Clamped DEF TypesOK, TypeOK
  <2> QED BY <1>1, <2>1, <2>2, OthersCall DEF TypesOK
<1> QED BY <1>1, <1>2, <1>3 DEF TypesOK, TypeOK

-----------------------------------------------------------------------------
(* What is handed on, and in which order *)

\* An update is what its call has stored.
LEMMA CallFaithful ==
    ASSUME TypesOK, NEW t \in Thread, pc[t] \in After
    PROVE  Faithful(Update(call[t])) /\ call[t] \in Call
BY DEF TypesOK, CallOK, After

\* Every step hands on what its call has stored.
LEMMA NextUpdates == TypesOK /\ UpdatesOK /\ [Next]_vars => UpdatesOK'
<1> SUFFICES ASSUME TypesOK, UpdatesOK, [Next]_vars PROVE UpdatesOK'
    OBVIOUS
<1>1. Grows
      BY Growing DEF TypesOK
<1>2. ASSUME NEW u, u = sent \/ u = logged PROVE u.n = 0 \/ Faithful(u)'
      BY <1>1, <1>2, FaithfulStays DEF UpdatesOK
<1>3. ASSUME NEW t \in Thread, Publish(t) \/ Log(t) PROVE Faithful(Update(call[t]))'
  <2>1. pc[t] \in After /\ Update(call[t])' = Update(call[t])
        BY <1>3 DEF Publish, Log, After, Update
  <2>2. Faithful(Update(call[t]))
        BY <2>1, CallFaithful
  <2> QED BY <1>1, <2>1, <2>2 DEF Grows, Faithful
<1>4. \A u \in {sent', logged'} : \/ u = sent \/ u = logged
                                  \/ \E t \in Thread : (Publish(t) \/ Log(t)) /\ u = Update(call[t])
      BY DEF Next, Begin, Lock, Store, Stamp, Callback, CallbackThrows, Publish, Log, Watch, vars
<1>5. ASSUME NEW u \in {sent', logged'} PROVE u.n = 0 \/ Faithful(u)'
  <2>1. CASE u = sent \/ u = logged
        BY <1>2, <2>1
  <2>2. CASE \E t \in Thread : (Publish(t) \/ Log(t)) /\ u = Update(call[t])
    <3>1. PICK t \in Thread : (Publish(t) \/ Log(t)) /\ u = Update(call[t])
          BY <2>2
    <3>2. Update(call[t])' = Update(call[t])
          BY <3>1 DEF Publish, Log, Update
    <3> QED BY <1>3, <3>1, <3>2 DEF Faithful
  <2> QED BY <1>4, <2>1, <2>2
<1> QED BY <1>5 DEF UpdatesOK, Faithful

\* A step other than a store adds nothing to what is on its way.
LEMMA NoStore ==
    ASSUME TypesOK, [Next]_vars, \A t \in Thread : ~Store(t)
    PROVE  /\ held' = held /\ value' = value /\ isStr' = isStr
           /\ newest'.ts = newest.ts /\ newest'.raced = newest.raced
           /\ newest.silent => newest'.silent
           /\ \A t \in Thread : pc'[t] \in After =>
                 pc[t] \in After /\ call'[t] = call[t]
<1> newest \in [ts : Nat, raced : BOOLEAN, silent : BOOLEAN] /\ pc \in [Thread -> Label]
    /\ call \in [Thread -> Call \cup {NoCall}]
    BY DEF TypesOK, TypeOK
<1>1. held' = held /\ value' = value /\ isStr' = isStr
      BY DEF Next, Begin, Lock, Stamp, Callback, CallbackThrows, Publish, Log, Watch, vars
<1>2. newest' = newest \/ \E t \in Thread : newest' = Silenced(t)
      BY DEF Next, Begin, Lock, Stamp, Callback, CallbackThrows, Publish, Log, Watch, vars
<1>3. /\ newest'.ts = newest.ts /\ newest'.raced = newest.raced
      /\ newest.silent => newest'.silent
      BY <1>2 DEF Silenced
<1>4. ASSUME NEW t \in Thread, pc'[t] \in After
      PROVE  pc[t] \in After /\ call'[t] = call[t]
  <2>1. CASE \E u \in Thread : Begin(u)
        BY <1>4, <2>1 DEF Begin, Goto, After
  <2>2. CASE \E u \in Thread : Lock(u)
        BY <1>4, <2>2 DEF Lock, Goto, After
  <2>3. CASE \E u \in Thread : Stamp(u) \/ Callback(u) \/ Publish(u)
        BY <1>4, <2>3 DEF Stamp, Callback, Publish, Goto, After
  <2>4. CASE \E u \in Thread : CallbackThrows(u) \/ Log(u)
        BY <1>4, <2>4 DEF CallbackThrows, Log, Goto, After
  <2>5. CASE Watch \/ UNCHANGED vars
        BY <1>4, <2>5 DEF Watch, vars
  <2> QED BY <2>1, <2>2, <2>3, <2>4, <2>5 DEF Next
<1> QED BY <1>1, <1>3, <1>4

\* A store takes the next number, and leaves the other calls as they were.
LEMMA OneStore ==
    ASSUME TypesOK, NEW t \in Thread, Store(t)
    PROVE  /\ Len(held) \in Nat /\ Len(held') = Len(held) + 1
           /\ \A i \in 1 .. Len(held) : held'[i] = held[i]
           /\ held'[Len(held')].val = value' /\ held'[Len(held')].kind = call[t].kind
           /\ pc[t] = "store" /\ pc'[t] = "stamp"
           /\ call'[t].n = Len(held') /\ call'[t].kind = call[t].kind /\ call'[t].ts = call[t].ts
           /\ newest'.ts = call[t].ts /\ newest'.raced = (Amid(t) # {})
           /\ \A u \in Thread \ {t} :
                 /\ pc'[u] = pc[u] /\ call'[u] = call[u]
                 /\ pc[u] \in After => call[u].n \in 1 .. Len(held)
<1>1. /\ call[t] \in Call /\ pc[t] = "store"
      /\ held \in Seq([val : Int, kind : Kinds]) /\ pc \in [Thread -> Label]
      /\ call \in [Thread -> Call \cup {NoCall}]
      BY DEF Store, TypesOK, TypeOK, CallOK
<1>2. pc'[t] = "stamp" /\ \A u \in Thread \ {t} : pc'[u] = pc[u] /\ call'[u] = call[u]
      BY <1>1 DEF Store, Goto
<1>3. call'[t].n = Len(held) + 1 /\ call'[t].kind = call[t].kind /\ call'[t].ts = call[t].ts
      BY <1>1 DEF Store, Call
<1>4. /\ Len(held) \in Nat /\ Len(held') = Len(held) + 1
      /\ \A i \in 1 .. Len(held) : held'[i] = held[i]
      /\ held'[Len(held')].val = value' /\ held'[Len(held')].kind = call[t].kind
      BY <1>1 DEF Store
<1>5. newest'.ts = call[t].ts /\ newest'.raced = (Amid(t) # {})
      BY DEF Store
<1>6. \A u \in Thread \ {t} : pc[u] \in After => call[u].n \in 1 .. Len(held)
      BY CallFaithful DEF Faithful, Update
<1> QED BY <1>1, <1>2, <1>3, <1>4, <1>5, <1>6

\* No two threads that both lock are past their lock at once.
LEMMA LockedApart ==
    ASSUME TypesOK, NEW t \in Thread, NEW u \in Thread, t # u,
           pc[t] \in After \cup {"store"}, pc[u] \in After
    PROVE  ~(Locks(call[t].kind) /\ Locks(call[u].kind))
BY DEF TypesOK, TypeOK, After

\* Numbers stay different, and setters that lock stay in order.
LEMMA NextOrder ==
    TypesOK /\ Numbered /\ InOrder /\ [Next]_vars => Numbered' /\ InOrder'
<1> SUFFICES ASSUME TypesOK, Numbered, InOrder, [Next]_vars PROVE Numbered' /\ InOrder'
    OBVIOUS
<1>1. CASE \A t \in Thread : ~Store(t)
  <2>1. Numbered'
        BY <1>1, NoStore DEF Numbered
  <2>2. InOrder'
        BY <1>1, NoStore DEF InOrder, Locks
  <2> QED BY <2>1, <2>2
<1>2. ASSUME NEW t \in Thread, Store(t) PROVE Numbered' /\ InOrder'
  <2> DEFINE L == Len(held)
  <2>1. /\ L \in Nat /\ Len(held') = L + 1
        /\ \A i \in 1 .. L : held'[i] = held[i]
        /\ held'[L + 1].kind = call[t].kind
        /\ pc[t] = "store" /\ call'[t].n = L + 1 /\ call'[t].kind = call[t].kind
        /\ \A u \in Thread \ {t} :
              /\ pc'[u] = pc[u] /\ call'[u] = call[u]
              /\ pc[u] \in After => call[u].n \in 1 .. L
        BY <1>2, OneStore
  <2> HIDE DEF L
  <2>2. Numbered'
        BY <2>1 DEF Numbered
  <2>3. ASSUME NEW u \in Thread, pc'[u] \in After, Locks(call'[u].kind),
               NEW i \in call'[u].n + 1 .. L + 1
        PROVE  ~Locks(held'[i].kind)
    <3>1. u # t
          BY <2>1, <2>3
    <3>2. pc[u] \in After /\ call'[u] = call[u] /\ call[u].n \in 1 .. L
          BY <2>1, <2>3, <3>1
    <3>3. ~Locks(call[t].kind)
          BY <2>1, <2>3, <3>1, <3>2, LockedApart
    <3>4. CASE i = L + 1
          BY <2>1, <3>3, <3>4
    <3>5. CASE i # L + 1
      <4>1. i \in call[u].n + 1 .. L /\ i \in 1 .. L
            BY <2>1, <2>3, <3>2, <3>5
      <4>2. ~Locks(held[i].kind)
            BY <2>3, <3>2, <4>1 DEF InOrder, L
      <4> QED BY <2>1, <4>1, <4>2
    <3> QED BY <3>4, <3>5
  <2>4. InOrder'
        BY <2>1, <2>3 DEF InOrder, Locks
  <2> QED BY <2>2, <2>4
<1> QED BY <1>1, <1>2

\* The newest store stays alone, and what its call has not done yet is still to come.
LEMMA NextAlone == TypesOK /\ Alone /\ [Next]_vars => Alone'
<1> SUFFICES ASSUME TypesOK, Alone, [Next]_vars PROVE Alone'
    OBVIOUS
<1>1. ASSUME NEW t \in Thread, Store(t) PROVE Alone'
  <2>1. /\ Len(held) \in Nat /\ Len(held') = Len(held) + 1
        /\ held'[Len(held')].val = value'
        /\ pc[t] = "store" /\ pc'[t] = "stamp"
        /\ call'[t].n = Len(held') /\ call'[t].ts = call[t].ts
        /\ newest'.ts = call[t].ts /\ newest'.raced = (Amid(t) # {})
        /\ \A u \in Thread \ {t} :
              /\ pc'[u] = pc[u] /\ call'[u] = call[u]
              /\ pc[u] \in After => call[u].n \in 1 .. Len(held)
        BY <1>1, OneStore
  <2>2. \A u \in Thread : pc'[u] \in After /\ call'[u].n = Len(held') => u = t
        BY <2>1
  <2>3. ASSUME ~newest'.raced, NEW u \in Thread, pc'[u] \in After PROVE u = t
    <3>1. SUFFICES ASSUME u # t PROVE FALSE
          OBVIOUS
    <3>2. pc[u] \in After
          BY <2>1, <2>3, <3>1
    <3>3. ~(Locks(call[t].kind) /\ Locks(call[u].kind))
          BY <2>1, <3>1, <3>2, LockedApart
    <3>4. u \in Amid(t)
          BY <3>1, <3>2, <3>3 DEF Amid, After
    <3> QED BY <2>1, <2>3, <3>4
  <2> QED BY <2>1, <2>2, <2>3 DEF Alone
<1>2. CASE \A t \in Thread : ~Store(t)
  <2>1. /\ held' = held /\ value' = value
        /\ newest'.ts = newest.ts /\ newest'.raced = newest.raced
        /\ newest.silent => newest'.silent
        /\ \A t \in Thread : pc'[t] \in After => pc[t] \in After /\ call'[t] = call[t]
        BY <1>2, NoStore
  <2> SUFFICES ASSUME Len(held) > 0, ~newest.raced
               PROVE  /\ timestamp' = newest.ts \/ \E t \in Thread : pc'[t] = "stamp"
                      /\ \/ newest'.silent \/ sent'.n = Len(held)
                         \/ \E t \in Thread : pc'[t] \in {"stamp", "callback", "publish"}
      BY <2>1 DEF Alone
  <2>2. /\ \A t \in Thread : pc[t] \in After => call[t].n = Len(held) /\ call[t].ts = newest.ts
        /\ timestamp = newest.ts \/ \E t \in Thread : pc[t] = "stamp"
        /\ \/ newest.silent \/ sent.n = Len(held)
           \/ \E t \in Thread : pc[t] \in {"stamp", "callback", "publish"}
        BY DEF Alone
  <2>3. pc \in [Thread -> Label]
        BY DEF TypesOK, TypeOK
  <2>4. timestamp' = newest.ts \/ \E t \in Thread : pc'[t] = "stamp"
    <3>1. CASE \E t \in Thread : Stamp(t)
          BY <2>2, <3>1 DEF Stamp, After
    <3>2. CASE \A t \in Thread : ~Stamp(t)
      <4>1. timestamp' = timestamp
            BY <1>2, <3>2 DEF Next, Begin, Lock, Callback, CallbackThrows, Publish, Log,
                              Watch, vars
      <4>2. \A t \in Thread : pc[t] = "stamp" => pc'[t] = "stamp"
            BY <1>2, <2>3, <3>2
               DEF Next, Begin, Lock, Callback, CallbackThrows, Publish, Log, Watch, Goto, vars
      <4> QED BY <2>2, <4>1, <4>2
    <3> QED BY <3>1, <3>2
  <2>5. \/ newest'.silent \/ sent'.n = Len(held)
        \/ \E t \in Thread : pc'[t] \in {"stamp", "callback", "publish"}
    <3>1. ASSUME NEW t \in Thread, Publish(t) PROVE newest'.silent \/ sent'.n = Len(held)
      <4>1. call[t].n = Len(held)
            BY <2>2, <3>1 DEF Publish, After
      <4>2. newest \in [ts : Nat, raced : BOOLEAN, silent : BOOLEAN]
            BY DEF TypesOK, TypeOK
      <4>3. sent' = Update(call[t]) \/ newest' = Silenced(t)
            BY <3>1 DEF Publish
      <4>4. Update(call[t]).n = call[t].n /\ Silenced(t).silent
            BY <4>1, <4>2 DEF Update, Silenced
      <4> QED BY <4>1, <4>3, <4>4
    <3>2. ASSUME NEW t \in Thread, CallbackThrows(t) PROVE newest'.silent
      <4>1. call[t].n = Len(held)
            BY <2>2, <3>2 DEF CallbackThrows, After
      <4>2. newest \in [ts : Nat, raced : BOOLEAN, silent : BOOLEAN]
            BY DEF TypesOK, TypeOK
      <4> QED BY <3>2, <4>1, <4>2 DEF CallbackThrows, Silenced
    <3>3. CASE \A t \in Thread : ~Publish(t) /\ ~CallbackThrows(t)
      <4>1. sent' = sent
            BY <1>2, <3>3 DEF Next, Begin, Lock, Stamp, Callback, Log, Watch, vars
      <4>2. \A t \in Thread : pc[t] \in {"stamp", "callback", "publish"}
                                  => pc'[t] \in {"stamp", "callback", "publish"}
            BY <1>2, <2>3, <3>3
               DEF Next, Begin, Lock, Stamp, Callback, Log, Watch, Goto, vars
      <4> QED BY <2>1, <2>2, <4>1, <4>2
    <3> QED BY <3>1, <3>2, <3>3
  <2> QED BY <2>4, <2>5
<1> QED BY <1>1, <1>2

-----------------------------------------------------------------------------
(* The theorems *)

\* The invariant holds before the first call.
LEMMA InitIInv == Init => IInv
<1> SUFFICES ASSUME Init PROVE IInv
    OBVIOUS
<1>1. UpdatesOK
      BY DEF Init, UpdatesOK, NoUpdate
<1>2. Numbered /\ InOrder /\ Alone
      BY DEF Init, Numbered, InOrder, Alone, After
<1> QED BY <1>1, <1>2, InitTypes DEF IInv

\* Every step keeps the invariant.
LEMMA NextIInv == IInv /\ [Next]_vars => IInv'
BY NextTypes, NextUpdates, NextOrder, NextAlone DEF IInv

\* The invariant holds in every state of the program.
LEMMA InductiveInvariant == Spec => []IInv
BY InitIInv, NextIInv, PTL DEF Spec

\* The states of the calls are what they are taken for, and a value's mutex is held by
\* exactly the one call of a setter that locks that is between its lock and its end.
THEOREM TypeCorrect == Spec => []TypeOK
<1>1. IInv => TypeOK
      BY DEF IInv, TypesOK
<1> QED BY <1>1, InductiveInvariant, PTL

\* Whatever is streamed or logged carries the value its own call stored, whatever other
\* threads store between the store and the publishing.
THEOREM Carrying == Spec => []CarriesWhatItStored
<1>1. IInv => CarriesWhatItStored
  <2> SUFFICES ASSUME IInv, NEW u \in {sent, logged}, u.n > 0
               PROVE  held[u.n].val = IF u.kind = "setStr" THEN Clamp(u.val) ELSE u.val
      BY DEF CarriesWhatItStored
  <2> QED BY DEF IInv, UpdatesOK, Faithful
<1> QED BY <1>1, InductiveInvariant, PTL

\* When nothing is under way, the timestamp and the last update of the stream are those
\* of the newest store, if that store raced nobody.
THEOREM Settling == Spec => []QuietIsCurrent
<1>1. IInv => QuietIsCurrent
  <2> SUFFICES ASSUME IInv, Quiet, Len(held) > 0, ~newest.raced
               PROVE  /\ timestamp = newest.ts
                      /\ ~newest.silent /\ ~isStr => sent.val = value
      BY DEF QuietIsCurrent
  <2>1. \A t \in Thread : pc[t] \notin After
        BY DEF Quiet, After
  <2>2. timestamp = newest.ts /\ (newest.silent \/ sent.n = Len(held))
        BY <2>1 DEF IInv, Alone, After
  <2>3. ASSUME ~newest.silent, ~isStr PROVE sent.val = value
    <3>1. sent.n = Len(held) /\ Faithful(sent)
          BY <2>2, <2>3 DEF IInv, UpdatesOK
    <3> QED BY <2>3, <3>1 DEF IInv, Alone, Faithful
  <2> QED BY <2>2, <2>3
<1> QED BY <1>1, InductiveInvariant, PTL

\* What is handed on is in the order of the locking setters.
HandsOnInOrder ==
    /\ sent' # sent => NoLaterSet(sent')
    /\ logged' # logged => NoLaterSet(logged')

\* An update is handed on before another setter that locks has stored.
LEMMA StepInOrder == IInv /\ [Next]_vars => HandsOnInOrder
<1> SUFFICES ASSUME IInv, [Next]_vars PROVE HandsOnInOrder
    OBVIOUS
<1>1. \/ sent' = sent
      \/ \E t \in Thread : Publish(t) /\ sent' = Update(call[t])
      BY DEF Next, Begin, Lock, Store, Stamp, Callback, CallbackThrows, Publish, Log, Watch, vars
<1>2. \/ logged' = logged
      \/ \E t \in Thread : Log(t) /\ logged' = Update(call[t])
      BY DEF Next, Begin, Lock, Store, Stamp, Callback, CallbackThrows, Publish, Log, Watch, vars
<1>3. ASSUME NEW t \in Thread, Publish(t) \/ Log(t) PROVE NoLaterSet(Update(call[t]))
  <2>1. pc[t] \in After
        BY <1>3 DEF Publish, Log, After
  <2> QED BY <2>1 DEF IInv, InOrder, NoLaterSet, Update
<1> QED BY <1>1, <1>2, <1>3 DEF HandsOnInOrder

\* The updates of setters that lock are streamed and logged in the order of their stores,
\* for any number of threads and of real-time setters in between.
THEOREM Ordering == Spec => InStoreOrder
<1>1. IInv /\ [Next]_vars => HandsOnInOrder
      BY StepInOrder
<1>2. HandsOnInOrder => [/\ sent' # sent => NoLaterSet(sent')
                         /\ logged' # logged => NoLaterSet(logged')]_vars
      BY DEF HandsOnInOrder
<1> QED BY <1>1, <1>2, InductiveInvariant, PTL DEF Spec, InStoreOrder

-----------------------------------------------------------------------------
(* The count of watchers *)

\* A shell asks exactly while it enables, checks or disables.
Asking == \A s \in Shell : link[s] = "idle" <=> mode[s] \in {"off", "watching"}
NotReady == server # "ready" => watchers = 0
\* What only a restart brings.
FirstServer == restarts = 0 => server = "ready" /\ \A s \in Shell : link[s] # "lost"

\* The inductive invariant.
WatchersIInv == WatchersTypeOK /\ Asking /\ NotReady /\ FirstServer /\ CountFollowsShells

One(b) == IF b THEN 1 ELSE 0

\* The shells a count stands for are finitely many.
LEMMA InterestedFinite ==
    /\ IsFiniteSet(Interested)
    /\ Cardinality(Interested) \in Nat
    /\ \A s \in Interested : Cardinality(Interested) > 0
<1>1. Interested \subseteq Shell
      BY DEF Interested
<1>2. IsFiniteSet(Interested)
      BY <1>1, WatchersAssumption, FS_Subset
<1>3. Cardinality(Interested) \in Nat
      BY <1>2, FS_CardinalityType
<1>4. ASSUME NEW s \in Interested PROVE Cardinality(Interested) # 0
      BY <1>2, <1>4, FS_EmptySet
<1> QED BY <1>2, <1>3, <1>4

\* A step of one shell adds it to those the count stands for, takes it away, or leaves
\* them as they are.
LEMMA OneMoves ==
    ASSUME WatchersTypeOK, WatchersTypeOK', NEW s \in Shell,
           \A r \in Shell \ {s} : mode'[r] = mode[r] /\ link'[r] = link[r]
    PROVE  Cardinality(Interested') =
               Cardinality(Interested) + One(Counted(s)') - One(Counted(s))
<1>1. \A r \in Shell \ {s} : Counted(r)' = Counted(r)
      BY DEF Counted
<1>2. IsFiniteSet(Interested) /\ Cardinality(Interested) \in Nat
      BY InterestedFinite
<1>3. CASE Counted(s)' /\ ~Counted(s)
  <2>1. Interested' = Interested \cup {s} /\ s \notin Interested
        BY <1>1, <1>3 DEF Interested
  <2>2. Cardinality(Interested \cup {s}) = Cardinality(Interested) + 1
        BY <2>1, <1>2, FS_AddElement
  <2> QED BY <1>2, <1>3, <2>1, <2>2 DEF One
<1>4. CASE ~Counted(s)' /\ Counted(s)
  <2>1. Interested' = Interested \ {s} /\ s \in Interested
        BY <1>1, <1>4 DEF Interested
  <2>2. Cardinality(Interested \ {s}) = Cardinality(Interested) - 1
        BY <2>1, <1>2, FS_RemoveElement
  <2> QED BY <1>2, <1>4, <2>1, <2>2 DEF One
<1>5. CASE Counted(s)' <=> Counted(s)
  <2>1. Interested' = Interested
        BY <1>1, <1>5 DEF Interested
  <2> QED BY <1>2, <1>5, <2>1 DEF One
<1> QED BY <1>3, <1>4, <1>5

\* The invariant holds when the server starts.
LEMMA InitWatchers == WatchersInit => WatchersIInv
<1> SUFFICES ASSUME WatchersInit PROVE WatchersIInv
    OBVIOUS
<1>1. WatchersTypeOK
      BY WatchersAssumption DEF WatchersInit, WatchersTypeOK, Mode, Link
<1>2. Asking /\ NotReady /\ FirstServer
      BY DEF WatchersInit, Asking, NotReady, FirstServer
<1>3. Interested = {}
      BY DEF WatchersInit, Interested, Counted
<1>4. CountFollowsShells
      BY <1>3, FS_EmptySet DEF WatchersInit, CountFollowsShells
<1> QED BY <1>1, <1>2, <1>4 DEF WatchersIInv

\* Every step keeps the types, and who asks.
LEMMA NextWatchersTypes ==
    WatchersIInv /\ [WatchersNext]_watchersVars
        => WatchersTypeOK' /\ Asking' /\ NotReady' /\ FirstServer'
<1> SUFFICES ASSUME WatchersIInv, [WatchersNext]_watchersVars
             PROVE  WatchersTypeOK' /\ Asking' /\ NotReady' /\ FirstServer'
    OBVIOUS
<1> USE DEF WatchersIInv, WatchersTypeOK
<1>1. \A s \in Shell : link[s] # "idle" => mode[s] \in {"enabling", "checking", "disabling"}
      BY DEF Asking, Mode
<1>2. \A s \in Shell : link[s] # "idle" => Served(watchers, mode[s]) \in Nat
      BY <1>1 DEF Served, Enabled, Checked, Disabled
<1>3. ASSUME NEW s \in Shell, Handle(s)
      PROVE  WatchersTypeOK' /\ Asking' /\ NotReady' /\ FirstServer'
  <2>1. WatchersTypeOK'
    <3>1. watchers' \in Nat /\ link' \in [Shell -> Link]
          BY <1>2, <1>3 DEF Handle, Link
    <3> QED BY <1>3, <3>1 DEF Handle
  <2>2. Asking' /\ FirstServer'
        BY <1>3 DEF Handle, Asking, FirstServer
  <2>3. NotReady'
        BY <1>3 DEF Handle, Served, NotReady
  <2> QED BY <2>1, <2>2, <2>3
<1>4. ASSUME NEW s \in Shell, AddPool(s) \/ RemovePool(s) \/ CheckPool(s)
      PROVE  WatchersTypeOK' /\ Asking' /\ NotReady' /\ FirstServer'
  <2>1. WatchersTypeOK'
        BY <1>4 DEF AddPool, RemovePool, CheckPool, Ask, Link, Mode
  <2>2. Asking'
        BY <1>4 DEF AddPool, RemovePool, CheckPool, Ask, Asking
  <2>3. NotReady' /\ FirstServer'
        BY <1>4 DEF AddPool, RemovePool, CheckPool, Ask, NotReady, FirstServer
  <2> QED BY <2>1, <2>2, <2>3
<1>5. ASSUME NEW s \in Shell, Receive(s)
      PROVE  WatchersTypeOK' /\ Asking' /\ NotReady' /\ FirstServer'
  <2>1. WatchersTypeOK'
        BY <1>5 DEF Receive, Link, Mode
  <2>2. Asking'
        BY <1>5 DEF Receive, Asking
  <2>3. NotReady' /\ FirstServer'
        BY <1>5 DEF Receive, NotReady, FirstServer
  <2> QED BY <2>1, <2>2, <2>3
<1>6. ASSUME NEW s \in Shell, Kill(s)
      PROVE  WatchersTypeOK' /\ Asking' /\ NotReady' /\ FirstServer'
  <2>1. watchers' \in Nat /\ leaked' \in Nat
        BY <1>2, <1>6 DEF Kill
  <2>2. WatchersTypeOK'
        BY <1>6, <2>1, WatchersAssumption DEF Kill, Link, Mode
  <2>3. Asking'
        BY <1>6 DEF Kill, Asking
  <2>4. NotReady' /\ FirstServer'
        BY <1>6 DEF Kill, NotReady, FirstServer
  <2> QED BY <2>2, <2>3, <2>4
<1>7. CASE StopServer
  <2>1. WatchersTypeOK'
        BY <1>7, WatchersAssumption DEF StopServer
  <2>2. \A s \in Shell : link'[s] = "idle" <=> link[s] = "idle"
        BY <1>7 DEF StopServer
  <2>3. Asking'
        BY <1>7, <2>2 DEF StopServer, Asking
  <2>4. NotReady' /\ FirstServer'
        BY <1>7 DEF StopServer, NotReady, FirstServer
  <2> QED BY <2>1, <2>3, <2>4
<1>8. CASE StartServer \/ CreateValue \/ UNCHANGED watchersVars
      BY <1>8 DEF StartServer, CreateValue, watchersVars, Asking, NotReady, FirstServer
<1> QED BY <1>3, <1>4, <1>5, <1>6, <1>7, <1>8 DEF WatchersNext

\* Every step keeps the count within what it stands for, and exact while the server has
\* not been restarted.
LEMMA NextWatchersCount == WatchersIInv /\ [WatchersNext]_watchersVars => CountFollowsShells'
<1> SUFFICES ASSUME WatchersIInv, [WatchersNext]_watchersVars PROVE CountFollowsShells'
    OBVIOUS
<1> USE DEF WatchersIInv
<1> DEFINE I == Cardinality(Interested)
           J == Cardinality(Interested')
<1>1. WatchersTypeOK'
      BY NextWatchersTypes
<1>2. /\ I \in Nat /\ watchers \in 0 .. I + leaked /\ leaked \in Nat
      /\ restarts = 0 => watchers = I + leaked
      /\ \A s \in Shell : Counted(s) => I > 0
      BY InterestedFinite DEF CountFollowsShells, WatchersTypeOK, Interested
<1>3. J \in Nat
  <2>1. Interested' \subseteq Shell
        BY DEF Interested
  <2> QED BY <2>1, WatchersAssumption, FS_Subset, FS_CardinalityType
<1>4. SUFFICES /\ watchers' \in 0 .. J + leaked'
               /\ restarts' = 0 => watchers' = J + leaked'
      BY DEF CountFollowsShells
<1> HIDE DEF I
<1>5. \A s \in Shell : (\A r \in Shell \ {s} : mode'[r] = mode[r] /\ link'[r] = link[r])
                           => J = I + One(Counted(s)') - One(Counted(s))
      BY <1>1, OneMoves DEF I
<1> HIDE DEF J
<1>6. \A s \in Shell : link[s] # "idle" => mode[s] \in {"enabling", "checking", "disabling"}
      BY DEF Asking, Mode, WatchersTypeOK
<1>7. ASSUME NEW s \in Shell, Handle(s)
      PROVE  /\ watchers' \in 0 .. J + leaked'
             /\ restarts' = 0 => watchers' = J + leaked'
  <2>1. J = I + One(Counted(s)') - One(Counted(s))
    <3>1. \A r \in Shell \ {s} : mode'[r] = mode[r] /\ link'[r] = link[r]
          BY <1>7 DEF Handle, WatchersTypeOK
    <3> QED BY <1>5, <3>1
  <2>2. /\ link[s] = "request" /\ link'[s] = "reply" /\ mode' = mode
        /\ leaked' = leaked /\ restarts' = restarts /\ watchers' = Served(watchers, mode[s])
        /\ server # "ready" => watchers = 0 /\ restarts # 0
        BY <1>7 DEF Handle, WatchersTypeOK, NotReady, FirstServer
  <2>3. CASE server # "ready"
        BY <1>2, <1>3, <2>2, <2>3 DEF Served
  <2>4. CASE server = "ready" /\ mode[s] = "enabling"
    <3>1. J = I + 1
          BY <1>2, <2>1, <2>2, <2>4 DEF Counted, One
    <3> QED BY <1>2, <2>2, <2>4, <3>1 DEF Served, Enabled
  <2>5. CASE server = "ready" /\ mode[s] = "checking"
    <3>1. J = I /\ I > 0
          BY <1>2, <2>1, <2>2, <2>5 DEF Counted, One
    <3> QED BY <1>2, <2>2, <2>5, <3>1 DEF Served, Checked
  <2>6. CASE server = "ready" /\ mode[s] = "disabling"
    <3>1. J = I - 1 /\ I > 0
          BY <1>2, <2>1, <2>2, <2>6 DEF Counted, One
    <3> QED BY <1>2, <2>2, <2>6, <3>1 DEF Served, Disabled
  <2> QED BY <1>6, <2>2, <2>3, <2>4, <2>5, <2>6
<1>8. ASSUME NEW s \in Shell, AddPool(s) \/ RemovePool(s) \/ CheckPool(s) \/ Receive(s)
      PROVE  /\ watchers' \in 0 .. J + leaked'
             /\ restarts' = 0 => watchers' = J + leaked'
  <2>1. J = I + One(Counted(s)') - One(Counted(s))
        BY <1>5, <1>8 DEF AddPool, RemovePool, CheckPool, Ask, Receive, WatchersTypeOK
  <2>2. Counted(s)' <=> Counted(s)
        BY <1>6, <1>8
           DEF AddPool, RemovePool, CheckPool, Ask, Receive, Counted, WatchersTypeOK, Asking
  <2>3. UNCHANGED <<watchers, leaked, restarts>>
        BY <1>8 DEF AddPool, RemovePool, CheckPool, Ask, Receive
  <2>4. J = I
        BY <1>2, <2>1, <2>2 DEF One
  <2> QED BY <1>2, <2>3, <2>4
<1>9. ASSUME NEW s \in Shell, Kill(s)
      PROVE  /\ watchers' \in 0 .. J + leaked'
             /\ restarts' = 0 => watchers' = J + leaked'
  <2>1. ~Counted(s)'
        BY <1>9 DEF Kill, Counted, WatchersTypeOK
  <2>2. J = I - One(Counted(s))
        BY <1>2, <1>5, <1>9, <2>1 DEF Kill, WatchersTypeOK, One
  <2>3. CASE leaked' = leaked + One(Counted(s)) /\ watchers' = watchers
        BY <1>2, <1>9, <2>2, <2>3 DEF Kill, One
  <2>4. CASE /\ server = "ready" /\ link[s] = "request"
             /\ watchers' = Served(watchers, mode[s])
             /\ leaked' = leaked + IF mode[s] = "disabling" THEN 0 ELSE 1
    <3>1. CASE mode[s] = "enabling"
      <4>1. J = I
            BY <1>2, <2>2, <2>4, <3>1 DEF Counted, One
      <4> QED BY <1>2, <1>9, <2>4, <3>1, <4>1 DEF Kill, Served, Enabled
    <3>2. CASE mode[s] = "checking"
      <4>1. J = I - 1 /\ I > 0
            BY <1>2, <2>2, <3>2 DEF Counted, One
      <4> QED BY <1>2, <1>9, <2>4, <3>2, <4>1 DEF Kill, Served, Checked
    <3>3. CASE mode[s] = "disabling"
      <4>1. J = I - 1 /\ I > 0
            BY <1>2, <2>2, <2>4, <3>3 DEF Counted, One
      <4> QED BY <1>2, <1>9, <2>4, <3>3, <4>1 DEF Kill, Served, Disabled
    <3> QED BY <1>6, <2>4, <3>1, <3>2, <3>3
  <2> QED BY <1>9, <2>3, <2>4 DEF Kill, One
<1>10. CASE StopServer
       BY <1>3, <1>10 DEF StopServer, WatchersTypeOK
<1>11. CASE StartServer \/ CreateValue \/ UNCHANGED watchersVars
  <2>1. UNCHANGED <<watchers, mode, link, restarts, leaked>>
        BY <1>11 DEF StartServer, CreateValue, watchersVars
  <2>2. J = I
        BY <2>1 DEF I, J, Interested, Counted
  <2> QED BY <1>2, <2>1, <2>2
<1> QED BY <1>7, <1>8, <1>9, <1>10, <1>11 DEF WatchersNext

\* A value is streamed for no more shells than watch it or were killed, for as many
\* while the server has not been restarted, whatever is lost, restarted or killed.
THEOREM Counts == WatchersSpec => []CountFollowsShells
<1>1. WatchersIInv /\ [WatchersNext]_watchersVars => WatchersIInv'
      BY NextWatchersTypes, NextWatchersCount DEF WatchersIInv
<1>2. WatchersIInv => CountFollowsShells
      BY DEF WatchersIInv
<1> QED BY <1>1, <1>2, InitWatchers, PTL DEF WatchersSpec

\* The states of the count, of the shells and of their requests are what they are taken
\* for, however many shells there are.
THEOREM WatchersTyped == WatchersSpec => []WatchersTypeOK
<1>1. WatchersIInv /\ [WatchersNext]_watchersVars => WatchersIInv'
      BY NextWatchersTypes, NextWatchersCount DEF WatchersIInv
<1>2. WatchersIInv => WatchersTypeOK
      BY DEF WatchersIInv
<1> QED BY <1>1, <1>2, InitWatchers, PTL DEF WatchersSpec

\* What is left of the round of a shell that watches until its check is answered: the
\* end of the check before, the next check, its answer.
Round(s) == IF mode[s] = "watching" THEN 2 ELSE IF link[s] = "request" THEN 1 ELSE 3

\* A shell that is not streamed the value it watches has something to do: begin the next
\* check or take its answer.  Otherwise its check is under way to the server.
NeverForgotten ==
    \A s \in Shell : Starved(s) =>
        \/ mode[s] = "watching" /\ link[s] = "idle"
        \/ mode[s] = "checking" /\ link[s] = "reply"
        \/ mode[s] = "checking" /\ link[s] = "request"

\* While the server keeps the value, such a shell comes closer to the answer with
\* everything it or the server does for it, whatever the others do.
Closer ==
    \A s \in Shell : (server = "ready" /\ server' = "ready" /\ Starved(s) /\ Starved(s)')
        => \/ mode'[s] = mode[s] /\ link'[s] = link[s]
           \/ Round(s)' < Round(s)

\* The answer ends it: a check that meets a count of zero at a server that has the value
\* starts the streaming again.
CheckRestores ==
    \A s \in Shell : (server = "ready" /\ Starved(s) /\ Handle(s)) => ~Starved(s)'

\* One shell's part of these.
LEMMA RoundEnds ==
    WatchersIInv /\ [WatchersNext]_watchersVars => Closer /\ CheckRestores
<1> SUFFICES ASSUME WatchersIInv, [WatchersNext]_watchersVars,
                    NEW s \in Shell, server = "ready", Starved(s)
             PROVE  /\ server' = "ready" /\ Starved(s)'
                         => \/ mode'[s] = mode[s] /\ link'[s] = link[s]
                            \/ Round(s)' < Round(s)
                    /\ Handle(s) => ~Starved(s)'
    BY DEF Closer, CheckRestores
<1> DEFINE Ends == server' = "ready" /\ Starved(s)'
                       => \/ mode'[s] = mode[s] /\ link'[s] = link[s]
                          \/ Round(s)' < Round(s)
<1>1. /\ mode \in [Shell -> Mode] /\ link \in [Shell -> Link]
      /\ mode[s] \in {"watching", "checking"} /\ watchers = 0
      /\ link[s] = "idle" <=> mode[s] = "watching"
      BY DEF WatchersIInv, WatchersTypeOK, Asking, Starved
<1>2. ASSUME Handle(s) PROVE ~Starved(s)'
  <2>1. mode[s] = "checking" /\ watchers' = Checked(watchers)
        BY <1>1, <1>2 DEF Handle, Served
  <2> QED BY <1>1, <2>1 DEF Checked, Starved
<1>3. ASSUME NEW r \in Shell \ {s},
             \/ AddPool(r) \/ RemovePool(r) \/ CheckPool(r)
             \/ Receive(r) \/ Handle(r) \/ Kill(r)
      PROVE  mode'[s] = mode[s] /\ link'[s] = link[s]
      BY <1>1, <1>3 DEF AddPool, RemovePool, CheckPool, Ask, Receive, Handle, Kill
<1>4. ASSUME AddPool(s) \/ RemovePool(s) \/ Kill(s) PROVE ~Starved(s)'
      BY <1>1, <1>4 DEF AddPool, RemovePool, Kill, Ask, Starved
<1>5. ASSUME CheckPool(s) \/ Receive(s) PROVE Round(s)' < Round(s)
      BY <1>1, <1>5 DEF CheckPool, Ask, Receive, Round
<1>6. ASSUME StopServer PROVE server' # "ready"
      BY <1>6 DEF StopServer
<1>7. ASSUME StartServer \/ CreateValue \/ UNCHANGED watchersVars
      PROVE  mode'[s] = mode[s] /\ link'[s] = link[s]
      BY <1>7 DEF StartServer, CreateValue, watchersVars
<1>8. Ends
      BY <1>2, <1>3, <1>4, <1>5, <1>6, <1>7 DEF WatchersNext
<1> QED BY <1>2, <1>8

\* The safety part of streaming that resumes: a shell that is not streamed what it watches
\* is never left without a step to take, each of them brings it closer to the answer of
\* the server that has the value, and that answer starts the streaming again.  What is
\* left is that those steps are taken.
THEOREM Resuming ==
    WatchersSpec => []NeverForgotten /\ [][Closer /\ CheckRestores]_watchersVars
<1>1. WatchersIInv /\ [WatchersNext]_watchersVars => WatchersIInv'
      BY NextWatchersTypes, NextWatchersCount DEF WatchersIInv
<1>2. WatchersIInv => NeverForgotten
      BY DEF WatchersIInv, WatchersTypeOK, Asking, Starved, NeverForgotten, Link
<1> QED BY <1>1, <1>2, InitWatchers, RoundEnds, PTL DEF WatchersSpec
=============================================================================
