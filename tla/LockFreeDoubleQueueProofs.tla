--------------------- MODULE LockFreeDoubleQueueProofs ---------------------
(***************************************************************************)
(* Safety of the double queue for any finite set of writers, any set of    *)
(* values and any buffer size.  TypeOK and LockCount are proved together   *)
(* (the counter never goes below zero because it counts the holders);      *)
(* ReaderOwns follows from them and carries ClaimedOnce, once an index is  *)
(* known to lie below the length of its buffer (ClaimedBelowLength).       *)
(*                                                                         *)
(* The second half shows that the queue implements BoundedDelivery.  It    *)
(* says of every cell which item it holds, or will when the call that has  *)
(* it is done (Holds), and which cells are still to be read (Live): these  *)
(* are, one to one and in order, the items accepted and not delivered      *)
(* (Exact), until a call races a swap.  So the reader gets the values one  *)
(* by one, each once, in the order of their writers (WriterOrder).         *)
(*                                                                         *)
(* The last part bounds what the calls that did race can lose: each of     *)
(* them is charged with at most one value of another call (RaceInv).       *)
(***************************************************************************)
EXTENDS QueueDelivery, FiniteSetTheorems, SequenceTheorems, TLAPS

USE QueueAssumption DEF Released, ResetBuffer, WritersGone, Shrunk

\* The buffers are two, and each is the other one of the other.
LEMMA BufFacts ==
    /\ \A b \in Buf : Other(b) \in Buf /\ Other(Other(b)) = b /\ Other(b) # b
    /\ \A b, c \in Buf : b # c => b = Other(c)
BY DEF Buf, Other

\* The calls that hold a buffer are finitely many.
LEMMA HoldersFinite ==
    \A b : IsFiniteSet(Holders(b)) /\ Cardinality(Holders(b)) \in Nat
<1>1. TAKE b
<1>2. Holders(b) \in SUBSET Writer
  BY DEF Holders
<1>3. IsFiniteSet(Holders(b))
  BY <1>2, FS_Subset
<1> QED
  BY <1>3, FS_CardinalityType

\* A step of a writer outside stillWriting++ and stillWriting-- keeps the holders.
LEMMA HoldersKept ==
    ASSUME NEW w \in Writer, TypeOK,
           NEW pc, wpc' = [wpc EXCEPT ![w] = pc],
           \/ wpc[w] \in Locked /\ pc \in Locked /\ state' = state
           \/ /\ wpc[w] \notin Locked /\ pc \notin Locked
              /\ \A x \in Writer : x # w => state'[x] = state[x]
    PROVE  \A b \in Buf : Holders(b)' = Holders(b)
<1>1. \A x \in Writer : wpc'[x] = IF x = w THEN pc ELSE wpc[x]
  BY DEF TypeOK
<1> QED
  BY <1>1 DEF Holders, TypeOK

\* stillWriting.fetch_add(1) adds the caller to the holders of its buffer.
LEMMA HoldersAdded ==
    ASSUME NEW w \in Writer, TypeOK, TakeLock(w)
    PROVE  /\ w \notin Holders(state[w])
           /\ \A b \in Buf :
                 Holders(b)' = IF b = state[w] THEN Holders(b) \cup {w} ELSE Holders(b)
<1>1. \A x \in Writer : wpc'[x] = IF x = w THEN "locked" ELSE wpc[x]
  BY DEF TypeOK, TakeLock
<1>2. state' = state /\ wpc[w] = "loaded"
  BY DEF TakeLock
<1> QED
  BY <1>1, <1>2 DEF Holders, Locked

\* stillWriting.fetch_sub(1) removes it.
LEMMA HoldersRemoved ==
    ASSUME NEW w \in Writer, TypeOK, Unlock(w), wpc[w] \in Locked
    PROVE  /\ w \in Holders(state[w])
           /\ \A b \in Buf :
                 Holders(b)' = IF b = state[w] THEN Holders(b) \ {w} ELSE Holders(b)
<1>1. \A x \in Writer : wpc'[x] = IF x = w THEN "idle" ELSE wpc[x]
  BY DEF TypeOK, Unlock
<1>2. \A x \in Writer : x # w => state'[x] = state[x]
  BY DEF TypeOK, Unlock
<1>3. "idle" \notin Locked
  BY DEF Locked
<1> QED
  BY <1>1, <1>2, <1>3 DEF Holders

-----------------------------------------------------------------------------
\* The types and the count, which need each other.
CountInv == TypeOK /\ LockCount

\* At the beginning nobody holds a buffer.
LEMMA CountInit == Init => CountInv
<1> SUFFICES ASSUME Init PROVE CountInv
  OBVIOUS
<1>1. TypeOK
  BY DEF Init, TypeOK, Buf, Length, Cell, Owning
<1>2. \A b \in Buf : Holders(b) = {}
  BY DEF Init, Holders, Locked
<1>3. LockCount
  BY <1>2, FS_EmptySet DEF Init, LockCount
<1> QED
  BY <1>1, <1>3 DEF CountInv

\* The types, but for the counter, which needs LockCount.
LEMMA TypeStep ==
    ASSUME CountInv, [Next]_vars, stillWriting' \in [Buf -> Nat]
    PROVE  TypeOK'
<1> USE DEF CountInv
<1>1. ASSUME NEW w \in Writer, NEW v \in Value, LoadState(w, v)
      PROVE  TypeOK'
  BY <1>1 DEF LoadState, TypeOK, readerVars
<1>2. ASSUME NEW w \in Writer, TakeLock(w)
      PROVE  TypeOK'
  BY <1>2 DEF TakeLock, TypeOK, readerVars, Locked
<1>3. ASSUME NEW w \in Writer, ClaimIndex(w)
      PROVE  TypeOK'
  <2>1. length' \in [Buf -> Length] /\ index' \in [Writer -> Length]
    BY <1>3 DEF ClaimIndex, TypeOK, Length, Incremented
  <2> QED
    BY <1>3, <2>1 DEF ClaimIndex, TypeOK, readerVars, Locked
<1>4. ASSUME NEW w \in Writer, BeginCopy(w)
      PROVE  TypeOK'
  <2>1. state[w] \in Buf /\ index[w] \in Cell
    BY <1>4 DEF BeginCopy, HasRoom, TypeOK, Length, Cell
  <2>2. buffer[state[w]][index[w]] \in SUBSET Value
    BY <2>1 DEF TypeOK
  <2>3. buffer' \in [Buf -> [Cell -> SUBSET Value]]
    BY <1>4, <2>1 DEF BeginCopy, TypeOK
  <2>4. covered' \in [Writer -> SUBSET Value]
    BY <1>4, <2>2 DEF BeginCopy, TypeOK
  <2> QED
    BY <1>4, <2>3, <2>4 DEF BeginCopy, TypeOK, readerVars, Locked
<1>5. ASSUME NEW w \in Writer, EndCopy(w)
      PROVE  TypeOK'
  <2> DEFINE new == (buffer[state[w]][index[w]] \ covered[w]) \cup {val[w]}
  <2>1. [buffer[state[w]] EXCEPT ![index[w]] = new] \in [Cell -> SUBSET Value]
    <3>1. buffer[state[w]] \in [Cell -> SUBSET Value]
      BY DEF TypeOK
    <3>2. CASE index[w] \in Cell
      BY <3>1, <3>2 DEF TypeOK
    <3>3. CASE index[w] \notin Cell
      BY <3>1, <3>3
    <3> QED
      BY <3>2, <3>3
  <2>2. buffer' = [buffer EXCEPT ![state[w]] = [buffer[state[w]] EXCEPT ![index[w]] = new]]
    BY <1>5 DEF EndCopy
  <2>3. buffer' \in [Buf -> [Cell -> SUBSET Value]]
    BY <2>1, <2>2 DEF TypeOK
  <2>4. covered' \in [Writer -> SUBSET Value]
    BY <1>5 DEF EndCopy, TypeOK
  <2> QED
    BY <1>5, <2>3, <2>4 DEF EndCopy, TypeOK, readerVars, Locked
<1>6. ASSUME NEW w \in Writer, Unlock(w)
      PROVE  TypeOK'
  BY <1>6 DEF Unlock, TypeOK, readerVars, Locked, Buf, Length
<1>7. ASSUME Reader
      PROVE  TypeOK'
  <2>1. CASE ResetLength
    <3>1. ReaderBuffer \in Buf /\ 0 \in Length
      BY BufFacts DEF TypeOK, ReaderBuffer, Length
    <3>2. length' = [length EXCEPT ![ReaderBuffer] = 0]
      BY <2>1 DEF ResetLength
    <3>3. length' \in [Buf -> Length]
      BY <3>1, <3>2 DEF TypeOK
    <3> QED
      BY <2>1, <3>3 DEF ResetLength, TypeOK, Owning, writerVars
  <2>2. CASE StorePointer
    BY <2>2, BufFacts DEF StorePointer, TypeOK, Owning, writerVars
  <2>3. CASE WaitWriters
    BY <2>3 DEF WaitWriters, TypeOK, Owning, writerVars
  <2>4. CASE GetSize
    <3>1. length[ReaderBuffer] \in Length
      BY BufFacts DEF TypeOK, ReaderBuffer
    <3>2. size' \in 0 .. MaxSize /\ next' \in 0 .. size'
      BY <2>4, <3>1 DEF GetSize, Length
    <3> QED
      BY <2>4, <3>2 DEF GetSize, TypeOK, Owning, writerVars
  <2>5. CASE ReadCell
    BY <2>5 DEF ReadCell, TypeOK, Owning, writerVars
  <2>6. CASE EndRead
    BY <2>6 DEF EndRead, TypeOK, Owning, writerVars
  <2> QED
    BY <1>7, <2>1, <2>2, <2>3, <2>4, <2>5, <2>6 DEF Reader
<1>8. CASE UNCHANGED vars
  BY <1>8 DEF vars, writerVars, readerVars, TypeOK
<1> QED
  BY <1>1, <1>2, <1>3, <1>4, <1>5, <1>6, <1>7, <1>8
  DEF Next, Running, ReturnTrue, ReturnFalse

\* The counters and the holders move together.
LEMMA CountStep == CountInv /\ [Next]_vars => CountInv'
<1> SUFFICES ASSUME CountInv, [Next]_vars
             PROVE  CountInv'
  OBVIOUS
<1> USE DEF CountInv
<1>t. TypeOK /\ LockCount
  OBVIOUS
<1>k. ASSUME stillWriting' = stillWriting, \A b \in Buf : Holders(b)' = Holders(b)
      PROVE  stillWriting' \in [Buf -> Nat] /\ LockCount'
  BY <1>t, <1>k DEF LockCount, TypeOK
<1>1. ASSUME NEW w \in Writer, NEW v \in Value, LoadState(w, v)
      PROVE  stillWriting' \in [Buf -> Nat] /\ LockCount'
  <2>1. \A b \in Buf : Holders(b)' = Holders(b)
    <3>1. "loaded" \notin Locked /\ wpc[w] \notin Locked
      BY <1>1 DEF LoadState, Locked
    <3>2. \A x \in Writer : x # w => state'[x] = state[x]
      BY <1>1 DEF LoadState, TypeOK
    <3>3. wpc' = [wpc EXCEPT ![w] = "loaded"]
      BY <1>1 DEF LoadState
    <3> QED
      BY <1>t, <3>1, <3>2, <3>3, HoldersKept
  <2> QED
    BY <1>1, <1>k, <2>1 DEF LoadState
<1>2. ASSUME NEW w \in Writer, TakeLock(w)
      PROVE  stillWriting' \in [Buf -> Nat] /\ LockCount'
  <2>1. /\ w \notin Holders(state[w])
        /\ \A b \in Buf :
              Holders(b)' = IF b = state[w] THEN Holders(b) \cup {w} ELSE Holders(b)
    BY <1>t, <1>2, HoldersAdded
  <2>2. Cardinality(Holders(state[w]) \cup {w}) = Cardinality(Holders(state[w])) + 1
    BY <2>1, HoldersFinite, FS_AddElement
  <2>3. /\ state[w] \in Buf
        /\ stillWriting' = [stillWriting EXCEPT ![state[w]] = stillWriting[state[w]] + 1]
    BY <1>2 DEF TakeLock, TypeOK
  <2>4. stillWriting' \in [Buf -> Nat]
    BY <2>3 DEF TypeOK
  <2>5. ASSUME NEW b \in Buf
        PROVE  stillWriting'[b] = Cardinality(Holders(b)')
    <3>1. CASE b = state[w]
      BY <3>1, <2>1, <2>2, <2>3 DEF LockCount, TypeOK
    <3>2. CASE b # state[w]
      BY <3>2, <2>1, <2>3 DEF LockCount, TypeOK
    <3> QED
      BY <3>1, <3>2
  <2> QED
    BY <2>4, <2>5 DEF LockCount
<1>3. ASSUME NEW w \in Writer, NEW pc, pc \in Locked, wpc[w] \in Locked,
             wpc' = [wpc EXCEPT ![w] = pc], UNCHANGED <<stillWriting, state>>
      PROVE  stillWriting' \in [Buf -> Nat] /\ LockCount'
  <2>1. \A b \in Buf : Holders(b)' = Holders(b)
    BY <1>t, <1>3, HoldersKept
  <2> QED
    BY <1>3, <1>k, <2>1
<1>4. ASSUME NEW w \in Writer, ClaimIndex(w) \/ BeginCopy(w) \/ EndCopy(w)
      PROVE  stillWriting' \in [Buf -> Nat] /\ LockCount'
  <2>1. CASE ClaimIndex(w)
    BY <2>1, <1>3 DEF ClaimIndex, Locked
  <2>2. CASE BeginCopy(w)
    BY <2>2, <1>3 DEF BeginCopy, Locked
  <2>3. CASE EndCopy(w)
    BY <2>3, <1>3 DEF EndCopy, Locked
  <2> QED
    BY <1>4, <2>1, <2>2, <2>3
<1>5. ASSUME NEW w \in Writer, Unlock(w), wpc[w] \in Locked
      PROVE  stillWriting' \in [Buf -> Nat] /\ LockCount'
  <2>1. /\ w \in Holders(state[w])
        /\ \A b \in Buf :
              Holders(b)' = IF b = state[w] THEN Holders(b) \ {w} ELSE Holders(b)
    BY <1>t, <1>5, HoldersRemoved
  <2>2. /\ Cardinality(Holders(state[w]) \ {w}) = Cardinality(Holders(state[w])) - 1
        /\ Cardinality(Holders(state[w])) \in Nat
        /\ Cardinality(Holders(state[w]) \ {w}) \in Nat
    <3>1. IsFiniteSet(Holders(state[w]) \ {w})
      BY HoldersFinite, FS_RemoveElement
    <3> QED
      BY <2>1, <3>1, HoldersFinite, FS_RemoveElement, FS_CardinalityType
  <2>3. /\ state[w] \in Buf
        /\ stillWriting' = [stillWriting EXCEPT ![state[w]] = stillWriting[state[w]] - 1]
        /\ stillWriting[state[w]] = Cardinality(Holders(state[w]))
    BY <1>5 DEF Unlock, TypeOK, LockCount
  <2>4. stillWriting' \in [Buf -> Nat]
    BY <2>2, <2>3 DEF TypeOK
  <2>5. ASSUME NEW b \in Buf
        PROVE  stillWriting'[b] = Cardinality(Holders(b)')
    <3>1. CASE b = state[w]
      BY <3>1, <2>1, <2>2, <2>3 DEF TypeOK
    <3>2. CASE b # state[w]
      BY <3>2, <2>1, <2>3 DEF LockCount, TypeOK
    <3> QED
      BY <3>1, <3>2
  <2> QED
    BY <2>4, <2>5 DEF LockCount
<1>6. ASSUME UNCHANGED <<stillWriting, wpc, state>>
      PROVE  stillWriting' \in [Buf -> Nat] /\ LockCount'
  BY <1>6, <1>k DEF Holders
<1>7. Reader => UNCHANGED <<stillWriting, wpc, state>>
  BY DEF Reader, ResetLength, StorePointer, WaitWriters, GetSize, ReadCell, EndRead,
         writerVars
<1>8. UNCHANGED vars => UNCHANGED <<stillWriting, wpc, state>>
  BY DEF vars, writerVars
<1>9. stillWriting' \in [Buf -> Nat] /\ LockCount'
  <2>1. \A w \in Writer : ReturnTrue(w) \/ ReturnFalse(w) => Unlock(w) /\ wpc[w] \in Locked
    BY DEF ReturnTrue, ReturnFalse, Locked
  <2> QED
    BY <1>1, <1>2, <1>4, <1>5, <1>6, <1>7, <1>8, <2>1 DEF Next, Running
<1> QED
  BY <1>9, TypeStep

\* Every variable keeps its type; in particular the counters, which swap and
\* append increase and decrease through the pointer each call loaded, never go
\* below zero.
THEOREM TypeCorrect == Spec => []TypeOK
<1>1. CountInv => TypeOK
  BY DEF CountInv
<1> QED
  BY CountInit, CountStep, <1>1, PTL DEF Spec

\* stillWriting of a buffer is the number of calls between its increment and its
\* decrement, so the wait of swapBufferFromReader is exact.
THEOREM LockCountInvariant == Spec => []LockCount
<1>1. CountInv => LockCount
  BY DEF CountInv
<1> QED
  BY CountInit, CountStep, <1>1, PTL DEF Spec

-----------------------------------------------------------------------------
\* A call that is not late claimed a cell of the current filling of its buffer.
ClaimedBelowLength ==
    \A w \in Writer :
        wpc[w] \in Locked \ {"locked"} /\ ~late[w] /\ HasRoom(w) => index[w] < length[state[w]]

SafetyInv == CountInv /\ ReaderOwns /\ ClaimedBelowLength /\ ClaimedOnce

\* At the beginning no cell is claimed.
LEMMA SafetyInit == Init => SafetyInv
<1>1. Init => \A w \in Writer : wpc[w] \notin Locked
  BY DEF Init, Locked
<1> QED
  BY <1>1, CountInit DEF SafetyInv, ReaderOwns, ClaimedBelowLength, ClaimedOnce, Holders

\* When the wait is over nobody holds the buffer it was for.
LEMMA WaitedForAll ==
    ASSUME CountInv, WaitWriters
    PROVE  Holders(ReaderBuffer) = {}
<1>1. ReaderBuffer \in Buf /\ stillWriting[ReaderBuffer] = 0
  BY BufFacts DEF CountInv, TypeOK, WaitWriters, ReaderBuffer
<1>2. Cardinality(Holders(ReaderBuffer)) = 0
  BY <1>1 DEF CountInv, LockCount
<1> QED
  BY <1>2, HoldersFinite, FS_EmptySet

\* A step that starts no wait and no ownership, moves no pointer and makes nobody
\* hold a buffer keeps the reader's buffer to the reader.
LEMMA ReaderOwnsKept ==
    ASSUME ReaderOwns, statePtr' = statePtr,
           rpc' \in Owning => rpc \in Owning,
           \A x \in Writer : x \in Holders(ReaderBuffer)' =>
               x \in Holders(ReaderBuffer) /\ late'[x] = late[x]
    PROVE  ReaderOwns'
BY DEF ReaderOwns, Holders

\* Every step of a call and of the reader keeps ReaderOwns.
LEMMA ReaderOwnsStep == CountInv /\ ReaderOwns /\ [Next]_vars => ReaderOwns'
<1> SUFFICES ASSUME CountInv, ReaderOwns, [Next]_vars
             PROVE  ReaderOwns'
  OBVIOUS
<1>t. TypeOK
  BY DEF CountInv
<1>1. ASSUME NEW w \in Writer, NEW v \in Value, LoadState(w, v)
      PROVE  ReaderOwns'
  <2>1. \A x \in Writer : x \in Holders(ReaderBuffer)' => x \in Holders(ReaderBuffer)
    <3>1. \A x \in Writer : x # w => wpc'[x] = wpc[x] /\ state'[x] = state[x]
      BY <1>1, <1>t DEF LoadState, TypeOK
    <3>2. wpc'[w] = "loaded"
      BY <1>1, <1>t DEF LoadState, TypeOK
    <3>3. ReaderBuffer' = ReaderBuffer
      BY <1>1 DEF LoadState, ReaderBuffer
    <3> QED
      BY <3>1, <3>2, <3>3 DEF Holders, Locked
  <2> QED
    BY <1>1, <2>1, ReaderOwnsKept DEF LoadState, readerVars
<1>2. ASSUME NEW w \in Writer, TakeLock(w)
      PROVE  ReaderOwns'
  <2>1. ReaderBuffer' = ReaderBuffer /\ rpc' = rpc
    BY <1>2 DEF TakeLock, ReaderBuffer, readerVars
  <2>2. \A x \in Writer : x # w => wpc'[x] = wpc[x] /\ state'[x] = state[x] /\ late'[x] = late[x]
    BY <1>2, <1>t DEF TakeLock, TypeOK
  <2>3. state'[w] = state[w] /\ late'[w] = (state[w] = ReaderBuffer /\ rpc \in Owning)
    BY <1>2, <1>t DEF TakeLock, TypeOK
  <2> QED
    BY <2>1, <2>2, <2>3 DEF ReaderOwns, Holders
<1>3. ASSUME NEW w \in Writer, ClaimIndex(w) \/ BeginCopy(w) \/ EndCopy(w)
      PROVE  ReaderOwns'
  <2>1. /\ UNCHANGED <<statePtr, state, late, rpc>>
        /\ wpc[w] \in Locked
        /\ \A x \in Writer : x # w => wpc'[x] = wpc[x]
    BY <1>3, <1>t DEF ClaimIndex, BeginCopy, EndCopy, TypeOK, Locked, readerVars
  <2> QED
    BY <2>1 DEF ReaderOwns, Holders, ReaderBuffer
<1>4. ASSUME NEW w \in Writer, Unlock(w)
      PROVE  ReaderOwns'
  <2>1. /\ UNCHANGED <<statePtr, rpc>>
        /\ wpc'[w] = "idle"
        /\ \A x \in Writer : x # w => wpc'[x] = wpc[x] /\ state'[x] = state[x] /\ late'[x] = late[x]
    BY <1>4, <1>t DEF Unlock, TypeOK, readerVars
  <2> QED
    BY <2>1 DEF ReaderOwns, Holders, ReaderBuffer, Locked
<1>5. ASSUME WaitWriters
      PROVE  ReaderOwns'
  <2>1. Holders(ReaderBuffer) = {} /\ UNCHANGED <<statePtr, wpc, state>>
    BY <1>5, WaitedForAll DEF WaitWriters, writerVars
  <2> QED
    BY <2>1 DEF ReaderOwns, Holders, ReaderBuffer
<1>6. ASSUME StorePointer
      PROVE  ReaderOwns'
  BY <1>6 DEF StorePointer, ReaderOwns, Owning
<1>7. ASSUME ResetLength \/ GetSize \/ ReadCell \/ EndRead
      PROVE  ReaderOwns'
  <2>1. rpc \in Owning /\ UNCHANGED <<statePtr, wpc, state, late>>
    BY <1>7 DEF ResetLength, GetSize, ReadCell, EndRead, Owning, writerVars
  <2> QED
    BY <2>1 DEF ReaderOwns, Holders, ReaderBuffer
<1>8. CASE UNCHANGED vars
  BY <1>8 DEF ReaderOwns, Holders, ReaderBuffer, vars, writerVars, readerVars
<1> QED
  BY <1>1, <1>2, <1>3, <1>4, <1>5, <1>6, <1>7, <1>8
  DEF Next, Running, Reader, ReturnTrue, ReturnFalse

\* While the reader owns a buffer, a call can hold it only if it slept between
\* _statePtr.load() and stillWriting.fetch_add(1) until the reader's wait was
\* over: swapBufferFromReader excludes every other call.
THEOREM ReaderOwnsInvariant == Spec => []ReaderOwns
<1>1. Init => CountInv /\ ReaderOwns
  BY SafetyInit DEF SafetyInv
<1>2. CountInv /\ ReaderOwns /\ [Next]_vars => CountInv' /\ ReaderOwns'
  BY CountStep, ReaderOwnsStep
<1> QED
  BY <1>1, <1>2, PTL DEF Spec

-----------------------------------------------------------------------------
\* What a step that claims no index may change for ClaimedBelowLength and
\* ClaimedOnce: calls leave, nobody else moves, lengths of held buffers stay.
ClaimsKept ==
    \A x \in Writer : wpc'[x] \in Locked \ {"locked"} =>
        /\ wpc[x] \in Locked \ {"locked"}
        /\ state'[x] = state[x] /\ index'[x] = index[x] /\ late'[x] = late[x]
        /\ ~late[x] => length'[state[x]] = length[state[x]]

\* Such a step keeps both.
LEMMA ClaimsKeptSuffices ==
    ASSUME ClaimedBelowLength, ClaimedOnce, ClaimsKept
    PROVE  ClaimedBelowLength' /\ ClaimedOnce'
<1>1. ClaimedBelowLength'
  BY DEF ClaimedBelowLength, ClaimsKept, HasRoom
<1>2. ASSUME NEW w \in Writer, NEW x \in Writer, w # x,
             {wpc'[w], wpc'[x]} \subseteq Locked \ {"locked"},
             state'[w] = state'[x], index'[w] = index'[x], HasRoom(w)'
      PROVE  late'[w] \/ late'[x]
  BY <1>2 DEF ClaimedOnce, ClaimsKept, HasRoom
<1> QED
  BY <1>1, <1>2 DEF ClaimedOnce

\* fetch_add gives the caller the first index no call that is not late has.
LEMMA ClaimIndexStep ==
    ASSUME SafetyInv, NEW w \in Writer, ClaimIndex(w)
    PROVE  ClaimedBelowLength' /\ ClaimedOnce'
<1>t. TypeOK
  BY DEF SafetyInv, CountInv
<1> DEFINE b == state[w]
           Claimed == Locked \ {"locked"}
<1>1. /\ b \in Buf /\ length[b] \in Length
      /\ UNCHANGED <<state, late>>
      /\ wpc[w] = "locked"
  BY <1>t DEF ClaimIndex, TypeOK
<1>2. /\ index'[w] = length[b] /\ wpc'[w] = "claimed"
      /\ \A x \in Writer : x # w => index'[x] = index[x] /\ wpc'[x] = wpc[x]
      /\ length'[b] = Incremented(length[b])
      /\ \A c \in Buf : c # b => length'[c] = length[c]
  BY <1>t DEF ClaimIndex, TypeOK
<1>3. length[b] < MaxSize => length'[b] = length[b] + 1
  BY <1>1, <1>2 DEF Incremented, Length
<1>4. \A c \in Buf : length[c] <= length'[c] /\ length[c] \in Int /\ length'[c] \in Int
  BY <1>1, <1>2, <1>t DEF Incremented, Length, TypeOK
<1>5. ASSUME NEW x \in Writer, wpc'[x] \in Claimed, ~late'[x], HasRoom(x)'
      PROVE  index'[x] < length'[state'[x]]
  <2>1. CASE x = w
    BY <2>1, <1>1, <1>2, <1>3, <1>4, <1>5 DEF HasRoom
  <2>2. CASE x # w
    <3>1. index[x] < length[state[x]]
      BY <2>2, <1>1, <1>2, <1>5 DEF SafetyInv, ClaimedBelowLength, HasRoom
    <3>2. index[x] \in Int /\ state[x] \in Buf
      BY <1>t DEF TypeOK, Length
    <3> QED
      BY <2>2, <3>1, <3>2, <1>1, <1>2, <1>4
  <2> QED
    BY <2>1, <2>2
<1>6. ASSUME NEW x \in Writer, x # w, wpc[x] \in Claimed, state[x] = b,
             ~late[x], index[x] = length[b]
      PROVE  ~ index[x] < MaxSize
  BY <1>6, <1>1 DEF SafetyInv, ClaimedBelowLength, HasRoom, Length
<1>7. ASSUME NEW x \in Writer, NEW y \in Writer, x # y,
             {wpc'[x], wpc'[y]} \subseteq Claimed, state'[x] = state'[y],
             index'[x] = index'[y], HasRoom(x)'
      PROVE  late'[x] \/ late'[y]
  <2>1. CASE x = w
    BY <2>1, <1>1, <1>2, <1>6, <1>7 DEF HasRoom
  <2>2. CASE y = w
    BY <2>2, <1>1, <1>2, <1>6, <1>7 DEF HasRoom
  <2>3. CASE x # w /\ y # w
    BY <2>3, <1>1, <1>2, <1>7 DEF SafetyInv, ClaimedOnce, HasRoom
  <2> QED
    BY <2>1, <2>2, <2>3
<1> QED
  BY <1>5, <1>7 DEF ClaimedBelowLength, ClaimedOnce

\* The reader resets the length of a buffer only late calls can hold.
LEMMA ResetLengthStep ==
    ASSUME SafetyInv, ResetLength
    PROVE  ClaimsKept
<1>t. TypeOK
  BY DEF SafetyInv, CountInv
<1>1. UNCHANGED <<wpc, state, index, late>> /\ rpc \in Owning
  BY DEF ResetLength, writerVars, Owning
<1>2. \A c \in Buf : c # ReaderBuffer => length'[c] = length[c]
  BY <1>t DEF ResetLength, TypeOK
<1>3. \A x \in Writer : wpc[x] \in Locked /\ ~late[x] => state[x] # ReaderBuffer
  BY <1>1 DEF SafetyInv, ReaderOwns, Holders
<1> QED
  BY <1>1, <1>2, <1>3, <1>t DEF ClaimsKept, TypeOK

\* Every step keeps what is known of the indices.
LEMMA ClaimStep == SafetyInv /\ [Next]_vars => ClaimedBelowLength' /\ ClaimedOnce'
<1> SUFFICES ASSUME SafetyInv, [Next]_vars
             PROVE  ClaimedBelowLength' /\ ClaimedOnce'
  OBVIOUS
<1>t. TypeOK /\ ClaimedBelowLength /\ ClaimedOnce
  BY DEF SafetyInv, CountInv
<1>1. ASSUME NEW w \in Writer, NEW v \in Value, LoadState(w, v)
      PROVE  ClaimsKept
  <2>1. /\ wpc'[w] = "loaded" /\ UNCHANGED <<index, late, length>>
        /\ \A x \in Writer : x # w => wpc'[x] = wpc[x] /\ state'[x] = state[x]
    BY <1>1, <1>t DEF LoadState, TypeOK
  <2> QED
    BY <2>1 DEF ClaimsKept, Locked
<1>2. ASSUME NEW w \in Writer, TakeLock(w)
      PROVE  ClaimsKept
  <2>1. /\ wpc'[w] = "locked" /\ UNCHANGED <<index, state, length>>
        /\ \A x \in Writer : x # w => wpc'[x] = wpc[x] /\ late'[x] = late[x]
    BY <1>2, <1>t DEF TakeLock, TypeOK
  <2> QED
    BY <2>1 DEF ClaimsKept
<1>3. ASSUME NEW w \in Writer, BeginCopy(w) \/ EndCopy(w)
      PROVE  ClaimsKept
  <2>1. /\ wpc[w] \in Locked \ {"locked"} /\ UNCHANGED <<index, state, late, length>>
        /\ \A x \in Writer : x # w => wpc'[x] = wpc[x]
    BY <1>3, <1>t DEF BeginCopy, EndCopy, TypeOK, Locked
  <2> QED
    BY <2>1 DEF ClaimsKept
<1>4. ASSUME NEW w \in Writer, Unlock(w)
      PROVE  ClaimsKept
  <2>1. /\ wpc'[w] = "idle" /\ UNCHANGED length
        /\ \A x \in Writer : x # w => /\ wpc'[x] = wpc[x] /\ state'[x] = state[x]
                                      /\ index'[x] = index[x] /\ late'[x] = late[x]
    BY <1>4, <1>t DEF Unlock, TypeOK
  <2> QED
    BY <2>1 DEF ClaimsKept, Locked
<1>5. ASSUME StorePointer \/ WaitWriters \/ GetSize \/ ReadCell \/ EndRead \/ UNCHANGED vars
      PROVE  ClaimsKept
  <2>1. UNCHANGED <<wpc, state, index, late, length>>
    BY <1>5 DEF StorePointer, WaitWriters, GetSize, ReadCell, EndRead, vars, writerVars
  <2> QED
    BY <2>1 DEF ClaimsKept
<1>6. ASSUME ResetLength
      PROVE  ClaimsKept
  BY <1>6, ResetLengthStep
<1> QED
  BY <1>t, <1>1, <1>2, <1>3, <1>4, <1>5, <1>6, ClaimsKeptSuffices, ClaimIndexStep
  DEF Next, Running, Reader, ReturnTrue, ReturnFalse

\* Each step keeps all of it.
LEMMA SafetyStep == SafetyInv /\ [Next]_vars => SafetyInv'
BY CountStep, ReaderOwnsStep, ClaimStep DEF SafetyInv

\* Two appends are given the same cell only if one of them holds a buffer the
\* reader owned, so that its index was claimed before the reader reset length.
THEOREM ClaimedOnceInvariant == Spec => []ClaimedOnce
<1>1. SafetyInv => ClaimedOnce
  BY DEF SafetyInv
<1> QED
  BY SafetyInit, SafetyStep, <1>1, PTL DEF Spec

-----------------------------------------------------------------------------
(* The wait of a swap *)

\* The atomic operations a call has left to do on the buffer the reader waits for.
Steps == [idle |-> 0, loaded |-> 5, locked |-> 4, claimed |-> 3, copying |-> 2, copied |-> 1]
Ahead(w) == IF state[w] = ReaderBuffer THEN Steps[wpc[w]] ELSE 0

\* The reader waits for nothing but calls that hold that buffer.
WaitsForCalls ==
    rpc = "waiting" /\ ~WritersGone => \E w \in Writer : wpc[w] \in Locked /\ Ahead(w) > 0

\* During the wait no call gets more to do there, none that starts gets anything to do there,
\* and one that had some has less after its step.
WaitShrinks ==
    rpc = "waiting" /\ rpc' = "waiting" =>
        \A w \in Writer :
            /\ Ahead(w)' <= Ahead(w)
            /\ Ahead(w) > 0 /\ wpc'[w] # wpc[w] => Ahead(w)' < Ahead(w)

\* Every step of a call does one of the operations, and makes no step elsewhere.
LEMMA AheadShrinks ==
    ASSUME TypeOK, rpc = "waiting", rpc' = "waiting", [Next]_vars, NEW w \in Writer
    PROVE  /\ Ahead(w)' <= Ahead(w)
           /\ Ahead(w) > 0 /\ wpc'[w] # wpc[w] => Ahead(w)' < Ahead(w)
<1>1. ReaderBuffer' = ReaderBuffer /\ ReaderBuffer # statePtr
  <2>1. statePtr' = statePtr
    BY DEF Next, Running, Reader, LoadState, TakeLock, ClaimIndex, BeginCopy, EndCopy, ReturnTrue,
           ReturnFalse, Unlock, ResetLength, StorePointer, WaitWriters, GetSize, ReadCell, EndRead, vars
  <2> QED
    BY <2>1, BufFacts DEF TypeOK, ReaderBuffer
<1>2. Steps[wpc[w]] \in 0 .. 5 /\ Ahead(w) \in 0 .. 5
  BY DEF TypeOK, Steps, Locked, Ahead
<1>3. CASE wpc'[w] = wpc[w] /\ state'[w] = state[w]
  <2>1. Ahead(w)' = Ahead(w)
    BY <1>1, <1>3 DEF Ahead
  <2> QED
    BY <1>2, <1>3, <2>1
<1>4. ASSUME NEW v \in Value, LoadState(w, v)
      PROVE  Ahead(w) = 0 /\ Ahead(w)' = 0
  <2>1. wpc[w] = "idle" /\ state'[w] = statePtr
    BY <1>4 DEF LoadState, TypeOK
  <2> QED
    BY <1>1, <2>1 DEF Ahead, Steps
<1>5. ASSUME Running(w)
      PROVE  /\ state[w] = ReaderBuffer => Ahead(w)' \in Nat /\ Ahead(w)' < Ahead(w)
             /\ state[w] # ReaderBuffer => Ahead(w)' = 0
  <2>1. CASE TakeLock(w) \/ ClaimIndex(w) \/ BeginCopy(w) \/ EndCopy(w)
    <3>1. /\ state' = state
          /\ \/ wpc[w] = "loaded" /\ wpc'[w] = "locked"
             \/ wpc[w] = "locked" /\ wpc'[w] = "claimed"
             \/ wpc[w] = "claimed" /\ wpc'[w] = "copying"
             \/ wpc[w] = "copying" /\ wpc'[w] = "copied"
      BY <2>1 DEF TakeLock, ClaimIndex, BeginCopy, EndCopy, TypeOK
    <3> QED
      BY <1>1, <3>1 DEF Ahead, Steps
  <2>2. CASE ReturnTrue(w) \/ ReturnFalse(w)
    <3>1. wpc[w] \in {"copied", "claimed"} /\ wpc'[w] = "idle"
      BY <2>2 DEF ReturnTrue, ReturnFalse, Unlock, TypeOK
    <3>2. Ahead(w)' = 0
      BY <3>1 DEF Ahead, Steps
    <3> QED
      BY <3>1, <3>2 DEF Ahead, Steps
  <2> QED
    BY <1>5, <2>1, <2>2 DEF Running
<1>6. ASSUME NEW x \in Writer \ {w}, (\E v \in Value : LoadState(x, v)) \/ Running(x)
      PROVE  wpc'[w] = wpc[w] /\ state'[w] = state[w]
  BY <1>6 DEF LoadState, Running, TakeLock, ClaimIndex, BeginCopy, EndCopy, ReturnTrue, ReturnFalse,
              Unlock, TypeOK
<1>7. Reader \/ UNCHANGED vars => wpc' = wpc /\ state' = state
  BY DEF Reader, ResetLength, StorePointer, WaitWriters, GetSize, ReadCell, EndRead, vars, writerVars
<1>8. CASE (\E v \in Value : LoadState(w, v)) \/ Running(w)
  <2>1. \/ Ahead(w) = 0 /\ Ahead(w)' = 0
        \/ Ahead(w)' \in Nat /\ Ahead(w)' < Ahead(w)
    <3>1. state[w] # ReaderBuffer => Ahead(w) = 0
      BY DEF Ahead
    <3> QED
      BY <1>4, <1>5, <1>8, <3>1
  <2> QED
    BY <1>2, <2>1
<1> QED
  BY <1>3, <1>6, <1>7, <1>8 DEF Next

\* The wait of swapBufferFromReader is bounded by the calls that had loaded the pointer
\* before it was moved: it waits for nothing else, each of them has at most five operations
\* left, none gets new ones, and a call that starts meanwhile has none there.  So the wait is
\* over after at most five steps of each, if only these calls are scheduled again.
THEOREM SwapWaits == Spec => []WaitsForCalls /\ [][WaitShrinks]_vars
<1>1. CountInv => WaitsForCalls
  <2> SUFFICES ASSUME CountInv, rpc = "waiting", ~WritersGone
               PROVE  \E w \in Writer : wpc[w] \in Locked /\ Ahead(w) > 0
    BY DEF WaitsForCalls
  <2>1. ReaderBuffer \in Buf
    BY BufFacts DEF CountInv, TypeOK, ReaderBuffer
  <2>2. Cardinality(Holders(ReaderBuffer)) # 0
    BY <2>1 DEF CountInv, LockCount
  <2>3. PICK w \in Holders(ReaderBuffer) : TRUE
    BY <2>2, FS_EmptySet
  <2> QED
    BY <2>3 DEF Holders, Locked, Ahead, Steps
<1>2. CountInv /\ [Next]_vars => WaitShrinks
  BY AheadShrinks DEF WaitShrinks, CountInv
<1> QED
  BY CountInit, CountStep, <1>1, <1>2, PTL DEF Spec

-----------------------------------------------------------------------------
(***************************************************************************)
(* What becomes of the values: the queue implements BoundedDelivery.       *)
(***************************************************************************)

\* The calls that were given a cell.
Placing(w) == wpc[w] \in {"claimed", "copying", "copied"} /\ HasRoom(w)

\* The items, and the calls that append them.
ItemsOK ==
    /\ calls \in [Writer -> Nat]
    /\ \A w \in Writer : wpc[w] # "idle" => val[w] = <<w, calls[w]>> /\ val[w] \in Item
    /\ \A i \in accepted : /\ i \in Item /\ i = <<i[1], i[2]>> /\ i[1] \in Writer
                           /\ i[2] \in Nat /\ i[2] <= calls[i[1]]
                           /\ wpc[i[1]] \in {"loaded", "locked"} => i[2] < calls[i[1]]
    /\ returned \subseteq accepted
    /\ \A w \in Writer : wpc[w] # "idle" => val[w] \notin returned
    /\ \A w \in Writer : Placing(w) => val[w] \in accepted
    /\ \A w \in Writer : wpc[w] \in {"copying", "copied"} => HasRoom(w)
    /\ \A b \in Buf, k \in Cell : buffer[b][k] \subseteq accepted
    /\ \A w \in Writer : covered[w] \subseteq accepted
    /\ delivered \in Seq(SUBSET accepted)
    /\ \A w \in Writer : late[w] => racers # {}

\* The calls that write a cell, and the item it holds, or will when they have.
Pending(b, k) ==
    {w \in Writer : wpc[w] \in {"claimed", "copying"} /\ state[w] = b /\ index[w] = k}
Holds(b, k, i) ==
    IF Pending(b, k) # {} THEN \E w \in Pending(b, k) : val[w] = i ELSE buffer[b][k] = {i}

\* The cells with an item that has not been read.
Live(b) ==
    IF b = statePtr \/ rpc \in {"waiting", "owned"} THEN 0 .. Shrunk(length[b]) - 1
    ELSE IF rpc = "reading" THEN next .. size - 1 ELSE {}

\* While no call has raced a swap: each of these cells has one item, ...
Filled == \A b \in Buf : \A k \in Live(b) : \E i \in accepted \ Delivered : Holds(b, k, i)
\* ... each item that is accepted and not delivered has a cell, ...
Placed == \A i \in accepted \ Delivered : \E b \in Buf : \E k \in Live(b) : Holds(b, k, i)
\* ... those of a writer are in the order of its calls, ...
Ordered ==
    \A b, c \in Buf : \A k \in Live(b), l \in Live(c) :
        (b = c /\ k < l) \/ (b # statePtr /\ c = statePtr)
        => \A i, j \in accepted : Holds(b, k, i) /\ Holds(c, l, j) /\ i[1] = j[1] => i[2] < j[2]
\* ... and behind them comes what it has still to append, ...
Behind ==
    \A w \in Writer : wpc[w] \in {"loaded", "locked"} /\ state[w] # statePtr =>
        \A k \in Live(statePtr), i \in accepted : Holds(statePtr, k, i) => i[1] # w
\* ... a copy leaves nothing of what was in its cell, ...
Covering ==
    \A w \in Writer : wpc[w] = "copying" =>
        buffer[state[w]][index[w]] \subseteq covered[w] \cup {val[w]}
\* ... and what is due is in the buffer that is handed over.
DueKept ==
    rpc \in {"waiting", "owned"} =>
        \A i \in due : \E k \in Live(ReaderBuffer) : Holds(ReaderBuffer, k, i)
Emptied == rpc = "cleared" => length[ReaderBuffer] = 0
Exact == Filled /\ Placed /\ Ordered /\ Behind /\ Covering /\ DueKept /\ Emptied

DeliveryInv == SafetyInv /\ ItemsOK /\ (racers = {} => Exact)

-----------------------------------------------------------------------------
\* An append that starts has an item of its own.
LEMMA NextItem ==
    ASSUME ItemsOK, NEW w \in Writer, Call(w)
    PROVE  <<w, calls[w] + 1>> \in Item /\ <<w, calls[w] + 1>> \in Value
<1>1. MaxCalls \in [Writer -> Nat] /\ Item \subseteq Value
  BY DeliveryAssumption
<1>2. calls[w] \in Nat /\ calls[w] < MaxCalls[w]
  BY DEF ItemsOK, Call
<1>3. calls[w] + 1 \in 1 .. MaxCalls[w]
  BY <1>1, <1>2
<1>4. <<w, calls[w] + 1>> \in {w} \X (1 .. MaxCalls[w])
  BY <1>3
<1>5. <<w, calls[w] + 1>> \in Item
  BY <1>4 DEF Item
<1> QED
  BY <1>1, <1>5

\* Each step is one of the queue.
LEMMA QueueSteps == ItemsOK /\ [DeliveryNext]_deliveryVars => [Next]_vars
<1> SUFFICES ASSUME ItemsOK, [DeliveryNext]_deliveryVars PROVE [Next]_vars
  OBVIOUS
<1>1. ASSUME NEW w \in Writer, Call(w) PROVE Next
  BY <1>1, NextItem DEF Call, Next
<1>2. ASSUME NEW w \in Writer, Lock(w) \/ Claim(w) \/ Copy(w) \/ Succeed(w) \/ Fail(w) PROVE Next
  BY <1>2 DEF Lock, Claim, Copy, Succeed, Fail, Next, Running
<1>3. CASE StartSwap \/ Deliver \/ SwapOrRead
  BY <1>3 DEF StartSwap, Deliver, SwapOrRead, Next, Reader
<1>4. CASE UNCHANGED deliveryVars
  BY <1>4 DEF deliveryVars
<1> QED
  BY <1>1, <1>2, <1>3, <1>4 DEF DeliveryNext

\* At the beginning nothing has been appended.
LEMMA ItemsInit == DeliveryInit => ItemsOK
<1> SUFFICES ASSUME DeliveryInit PROVE ItemsOK
  OBVIOUS
<1>1. \A b \in Buf, k \in Cell : buffer[b][k] = {}
  BY DEF DeliveryInit, Init
<1>2. delivered \in Seq(SUBSET accepted)
  BY DEF DeliveryInit
<1> QED
  BY <1>1, <1>2 DEF DeliveryInit, Init, ItemsOK, Placing

\* A sequence of sets of accepted items stays one when more are accepted.
LEMMA DeliveredStays ==
    ASSUME NEW S, NEW T, S \subseteq T, NEW s \in Seq(SUBSET S)
    PROVE  s \in Seq(SUBSET T)
OBVIOUS

\* Every step keeps the items, the calls that append them and the cells apart.
LEMMA ItemsStep == CountInv /\ ItemsOK /\ [DeliveryNext]_deliveryVars => ItemsOK'
<1> SUFFICES ASSUME CountInv, ItemsOK, [DeliveryNext]_deliveryVars PROVE ItemsOK'
  OBVIOUS
<1>t. TypeOK
  BY DEF CountInv
<1>1. ASSUME NEW w \in Writer, Call(w) PROVE ItemsOK'
  <2> DEFINE v == <<w, calls[w] + 1>>
  <2>1. /\ wpc[w] = "idle" /\ wpc' = [wpc EXCEPT ![w] = "loaded"] /\ val' = [val EXCEPT ![w] = v]
        /\ calls' = [calls EXCEPT ![w] = calls[w] + 1]
        /\ UNCHANGED <<buffer, index, covered, late, accepted, returned, due, delivered, racers>>
    BY <1>1 DEF Call, LoadState
  <2>2. /\ wpc'[w] = "loaded" /\ val'[w] = v /\ calls'[w] = calls[w] + 1 /\ calls[w] \in Nat
        /\ \A x \in Writer : x # w => wpc'[x] = wpc[x] /\ val'[x] = val[x] /\ calls'[x] = calls[x]
        /\ calls' \in [Writer -> Nat]
    BY <1>t, <2>1 DEF TypeOK, ItemsOK
  <2>3. v \in Item
    BY <1>1, NextItem
  <2>4. v \notin accepted
    <3>1. ASSUME v \in accepted PROVE FALSE
      <4>1. v[2] <= calls[w]
        BY <3>1 DEF ItemsOK
      <4> QED
        BY <2>2, <4>1
    <3> QED
      BY <3>1
  <2>5. \A i \in accepted : i[2] \in Nat /\ i[2] <= calls'[i[1]]
                            /\ (wpc'[i[1]] \in {"loaded", "locked"} => i[2] < calls'[i[1]])
    <3> TAKE i \in accepted
    <3>1. i[1] \in Writer /\ i[2] \in Nat /\ i[2] <= calls[i[1]]
          /\ (wpc[i[1]] \in {"loaded", "locked"} => i[2] < calls[i[1]])
      BY DEF ItemsOK
    <3>2. CASE i[1] = w
      BY <2>2, <3>1, <3>2
    <3>3. CASE i[1] # w
      BY <2>2, <3>1, <3>3
    <3> QED
      BY <3>2, <3>3
  <2>6. \A x \in Writer : wpc'[x] # "idle" => /\ val'[x] = <<x, calls'[x]>> /\ val'[x] \in Item
                                              /\ val'[x] \notin returned
    BY <2>2, <2>3, <2>4 DEF ItemsOK
  <2>7. \A x \in Writer : Placing(x)' => Placing(x) /\ val'[x] = val[x]
    BY <2>1, <2>2 DEF Placing, HasRoom
  <2>8. \A x \in Writer : wpc'[x] \in {"copying", "copied"} => HasRoom(x)'
    BY <2>1, <2>2 DEF ItemsOK, HasRoom
  <2>9. \A i \in accepted : i \in Item /\ i = <<i[1], i[2]>> /\ i[1] \in Writer
    BY DEF ItemsOK
  <2>10. /\ \A x \in Writer : Placing(x)' => val'[x] \in accepted
         /\ returned \subseteq accepted /\ delivered \in Seq(SUBSET accepted)
         /\ \A b \in Buf, k \in Cell : buffer[b][k] \subseteq accepted
         /\ \A x \in Writer : covered[x] \subseteq accepted
         /\ \A x \in Writer : late[x] => racers # {}
    BY <2>7 DEF ItemsOK
  <2>11. /\ accepted' = accepted /\ returned' = returned /\ delivered' = delivered
         /\ buffer' = buffer /\ covered' = covered /\ late' = late /\ racers' = racers
    BY <2>1
  <2>12. calls' \in [Writer -> Nat]
    BY <2>2
  <2> HIDE DEF v
  <2> QED
    BY <2>5, <2>6, <2>8, <2>9, <2>10, <2>11, <2>12 DEF ItemsOK
<1>2. ASSUME NEW w \in Writer, Lock(w) PROVE ItemsOK'
  <2>1. /\ wpc[w] = "loaded" /\ wpc' = [wpc EXCEPT ![w] = "locked"]
        /\ racers' = (IF late'[w] THEN racers \cup {val[w]} ELSE racers)
        /\ \A x \in Writer : x # w => late'[x] = late[x]
        /\ UNCHANGED <<buffer, index, val, covered, calls, accepted, returned, delivered>>
    BY <1>t, <1>2 DEF Lock, TakeLock, TypeOK
  <2>2. wpc'[w] = "locked" /\ \A x \in Writer : x # w => wpc'[x] = wpc[x]
    BY <1>t, <2>1 DEF TypeOK
  <2>3. \A x \in Writer : late'[x] => racers' # {}
    BY <2>1 DEF ItemsOK
  <2>4. \A x \in Writer : Placing(x)' => Placing(x)
    BY <2>1, <2>2 DEF Placing, HasRoom
  <2>5. \A x \in Writer : wpc'[x] \in {"loaded", "locked"} <=> wpc[x] \in {"loaded", "locked"}
    BY <2>1, <2>2
  <2>6. \A x \in Writer : wpc'[x] # "idle" <=> wpc[x] # "idle"
    BY <2>1, <2>2
  <2>7. \A x \in Writer : wpc'[x] \in {"copying", "copied"} => HasRoom(x)'
    BY <2>1, <2>2 DEF ItemsOK, HasRoom
  <2> QED
    BY <2>1, <2>3, <2>4, <2>5, <2>6, <2>7 DEF ItemsOK
<1>3. ASSUME NEW w \in Writer, Claim(w) PROVE ItemsOK'
  <2>1. /\ wpc[w] = "locked" /\ wpc' = [wpc EXCEPT ![w] = "claimed"]
        /\ accepted' = (IF HasRoom(w)' THEN accepted \cup {val[w]} ELSE accepted)
        /\ \A x \in Writer : x # w => index'[x] = index[x]
        /\ UNCHANGED <<buffer, val, covered, late, calls, returned, delivered, racers>>
    BY <1>t, <1>3 DEF Claim, ClaimIndex, TypeOK
  <2>2. wpc'[w] = "claimed" /\ \A x \in Writer : x # w => wpc'[x] = wpc[x]
    BY <1>t, <2>1 DEF TypeOK
  <2>3. accepted \subseteq accepted' /\ accepted' \subseteq accepted \cup {val[w]}
    BY <2>1
  <2>4. val[w] = <<w, calls[w]>> /\ val[w] \in Item /\ calls[w] \in Nat
    BY <2>1 DEF ItemsOK
  <2>5. \A i \in accepted' : /\ i \in Item /\ i = <<i[1], i[2]>> /\ i[1] \in Writer
                             /\ i[2] \in Nat /\ i[2] <= calls[i[1]]
                             /\ wpc'[i[1]] \in {"loaded", "locked"} => i[2] < calls[i[1]]
    <3> TAKE i \in accepted'
    <3>1. CASE i \in accepted
      BY <2>2, <3>1 DEF ItemsOK
    <3>2. CASE i = val[w]
      BY <2>2, <2>4, <3>2
    <3> QED
      BY <2>3, <3>1, <3>2
  <2>6. \A x \in Writer : Placing(x)' => val[x] \in accepted'
    <3> SUFFICES ASSUME NEW x \in Writer, Placing(x)' PROVE val[x] \in accepted'
      OBVIOUS
    <3>1. CASE x = w
      BY <2>1, <3>1 DEF Placing
    <3>2. CASE x # w
      BY <2>1, <2>2, <2>3, <3>2 DEF Placing, HasRoom, ItemsOK
    <3> QED
      BY <3>1, <3>2
  <2>7. \A x \in Writer : wpc'[x] \in {"copying", "copied"} => HasRoom(x)'
    BY <2>1, <2>2 DEF ItemsOK, HasRoom
  <2>8. \A x \in Writer : wpc'[x] # "idle" <=> wpc[x] # "idle"
    BY <2>1, <2>2
  <2>9. delivered \in Seq(SUBSET accepted')
    BY <2>3, DeliveredStays DEF ItemsOK
  <2> QED
    BY <2>1, <2>3, <2>5, <2>6, <2>7, <2>8, <2>9 DEF ItemsOK
<1>4. ASSUME NEW w \in Writer, Copy(w) PROVE ItemsOK'
  <2>1. /\ wpc[w] \in {"claimed", "copying"} /\ HasRoom(w)
        /\ wpc'[w] \in {"copying", "copied"} /\ \A x \in Writer : x # w => wpc'[x] = wpc[x]
        /\ UNCHANGED <<index, val, late, calls, accepted, returned, delivered, racers>>
    BY <1>t, <1>4 DEF Copy, BeginCopy, EndCopy, ItemsOK, TypeOK, history
  <2>2. val[w] \in accepted
    BY <2>1 DEF ItemsOK, Placing
  <2>3. state[w] \in Buf /\ index[w] \in Cell
    BY <1>t, <2>1 DEF TypeOK, HasRoom, Length, Cell
  <2>4. buffer[state[w]][index[w]] \subseteq accepted
    BY <2>3 DEF ItemsOK
  <2>5. PICK c : c \subseteq accepted /\ buffer' = [buffer EXCEPT ![state[w]][index[w]] = c]
    <3>1. CASE BeginCopy(w)
      <4>1. buffer' = [buffer EXCEPT ![state[w]][index[w]] =
                          buffer[state[w]][index[w]] \cup {val[w]}]
        BY <3>1 DEF BeginCopy
      <4> QED
        BY <2>2, <2>4, <4>1
    <3>2. CASE EndCopy(w)
      <4>1. buffer' = [buffer EXCEPT ![state[w]][index[w]] =
                          (buffer[state[w]][index[w]] \ covered[w]) \cup {val[w]}]
        BY <3>2 DEF EndCopy
      <4> QED
        BY <2>2, <2>4, <4>1
    <3> QED
      BY <1>4, <3>1, <3>2 DEF Copy
  <2>6. \A b \in Buf, k \in Cell : buffer'[b][k] \subseteq accepted
    BY <1>t, <2>3, <2>5 DEF ItemsOK, TypeOK
  <2>7. \A x \in Writer : covered'[x] \subseteq accepted
    <3>1. CASE BeginCopy(w)
      <4>1. covered' = [covered EXCEPT ![w] = buffer[state[w]][index[w]] \ Rivals(w)]
        BY <3>1 DEF BeginCopy
      <4> QED
        BY <1>t, <2>4, <4>1 DEF ItemsOK, TypeOK
    <3>2. CASE EndCopy(w)
      <4>1. covered' = [covered EXCEPT ![w] = {}]
        BY <3>2 DEF EndCopy
      <4> QED
        BY <1>t, <4>1 DEF ItemsOK, TypeOK
    <3> QED
      BY <1>4, <3>1, <3>2 DEF Copy
  <2>8. \A x \in Writer : Placing(x)' => Placing(x)
    BY <2>1 DEF Placing, HasRoom
  <2>9. \A x \in Writer : /\ wpc'[x] # "idle" => wpc[x] # "idle"
                          /\ wpc'[x] \in {"loaded", "locked"} => wpc[x] \in {"loaded", "locked"}
    BY <2>1
  <2>10. \A x \in Writer : wpc'[x] \in {"copying", "copied"} => HasRoom(x)'
    BY <2>1 DEF ItemsOK, HasRoom
  <2> QED
    BY <2>1, <2>6, <2>7, <2>8, <2>9, <2>10 DEF ItemsOK
<1>5. ASSUME NEW w \in Writer, Succeed(w) \/ Fail(w) PROVE ItemsOK'
  <2>1. /\ wpc[w] \in {"claimed", "copied"} /\ Unlock(w)
        /\ UNCHANGED <<calls, accepted, delivered, racers>>
        /\ \/ returned' = returned \cup {val[w]} /\ wpc[w] = "copied"
           \/ returned' = returned
    BY <1>5 DEF Succeed, Fail, ReturnTrue, ReturnFalse, history
  <2>2. /\ wpc'[w] = "idle" /\ late'[w] = FALSE
        /\ \A x \in Writer : x # w => wpc'[x] = wpc[x] /\ index'[x] = index[x] /\ late'[x] = late[x]
        /\ UNCHANGED <<buffer, val, covered>>
    BY <1>t, <2>1 DEF Unlock, TypeOK
  <2>3. val[w] = <<w, calls[w]>> /\ (wpc[w] = "copied" => val[w] \in accepted)
    BY <2>1 DEF ItemsOK, Placing
  <2>4. returned' \subseteq accepted
    BY <2>1, <2>3 DEF ItemsOK
  <2>5. \A x \in Writer : wpc'[x] # "idle" => val[x] \notin returned'
    <3> SUFFICES ASSUME NEW x \in Writer, wpc'[x] # "idle" PROVE val[x] \notin returned'
      OBVIOUS
    <3>1. x # w /\ wpc[x] # "idle"
      BY <2>2
    <3>2. val[x] = <<x, calls[x]>> /\ val[x] \notin returned
      BY <3>1 DEF ItemsOK
    <3>3. val[x] # val[w]
      BY <2>3, <3>1, <3>2
    <3> QED
      BY <2>1, <3>2, <3>3
  <2>6. \A x \in Writer : Placing(x)' => Placing(x)
    BY <2>2 DEF Placing, HasRoom
  <2>7. \A x \in Writer : wpc'[x] \in {"copying", "copied"} => HasRoom(x)'
    BY <2>2 DEF ItemsOK, HasRoom
  <2>8. \A x \in Writer : wpc'[x] \in {"loaded", "locked"} => wpc[x] \in {"loaded", "locked"}
    BY <2>2
  <2>9. \A x \in Writer : wpc'[x] # "idle" => wpc[x] # "idle"
    BY <2>2
  <2>10. \A x \in Writer : late'[x] => late[x]
    BY <2>2
  <2> QED
    BY <2>1, <2>2, <2>4, <2>5, <2>6, <2>7, <2>8, <2>9, <2>10 DEF ItemsOK
<1>6. ASSUME Deliver PROVE ItemsOK'
  <2>1. /\ delivered' = Append(delivered, buffer[ReaderBuffer][next]) /\ next < size
        /\ UNCHANGED <<buffer, writerVars, calls, accepted, returned, racers>>
    BY <1>6 DEF Deliver, ReadCell
  <2>2. ReaderBuffer \in Buf /\ next \in Cell
    BY <1>t, <2>1, BufFacts DEF TypeOK, ReaderBuffer, Cell
  <2>3. buffer[ReaderBuffer][next] \in SUBSET accepted
    BY <2>2 DEF ItemsOK
  <2>4. delivered' \in Seq(SUBSET accepted)
    BY <2>1, <2>3 DEF ItemsOK
  <2> QED
    BY <2>1, <2>4 DEF ItemsOK, writerVars, Placing, HasRoom
<1>7. ASSUME StartSwap \/ SwapOrRead \/ UNCHANGED deliveryVars PROVE ItemsOK'
  <2>1. UNCHANGED <<buffer, writerVars, calls, accepted, returned, delivered, racers>>
    BY <1>7 DEF StartSwap, StorePointer, SwapOrRead, ResetLength, WaitWriters, GetSize, EndRead,
                history, deliveryVars, vars
  <2> QED
    BY <2>1 DEF ItemsOK, writerVars, Placing, HasRoom
<1> QED
  BY <1>1, <1>2, <1>3, <1>4, <1>5, <1>6, <1>7 DEF DeliveryNext

-----------------------------------------------------------------------------
\* While no call has raced, nobody holds the buffer the reader owns, cells are claimed
\* once, and a claimed cell is among those that are to be read.
LEMMA Alone ==
    ASSUME SafetyInv, ItemsOK, racers = {}
    PROVE  /\ \A w \in Writer : rpc \in Owning /\ wpc[w] \in Locked => state[w] = statePtr
           /\ \A w, x \in Writer : /\ {wpc[w], wpc[x]} \subseteq Locked \ {"locked"}
                                   /\ state[w] = state[x] /\ index[w] = index[x] /\ HasRoom(w)
                                   => w = x
           /\ \A w \in Writer : Placing(w) => index[w] \in Live(state[w]) /\ index[w] \in Cell
           /\ \A b \in Buf : Live(b) \subseteq Cell
<1>t. TypeOK
  BY DEF SafetyInv, CountInv
<1>1. \A w \in Writer : ~late[w]
  BY DEF ItemsOK
<1>2. ASSUME NEW w \in Writer, rpc \in Owning, wpc[w] \in Locked PROVE state[w] = statePtr
  <2>1. w \notin Holders(ReaderBuffer)
    BY <1>1, <1>2 DEF SafetyInv, ReaderOwns
  <2>2. state[w] # ReaderBuffer /\ state[w] \in Buf /\ statePtr \in Buf
    BY <1>t, <1>2, <2>1 DEF Holders, TypeOK
  <2> QED
    BY <2>2, BufFacts DEF ReaderBuffer
<1>3. ASSUME NEW w \in Writer, Placing(w)
      PROVE  index[w] \in Live(state[w]) /\ index[w] \in Cell
  <2>1. wpc[w] \in Locked \ {"locked"} /\ wpc[w] \in Locked
    BY <1>3 DEF Placing, Locked
  <2>2. index[w] < length[state[w]]
    BY <1>1, <1>3, <2>1 DEF SafetyInv, ClaimedBelowLength, Placing
  <2>3. /\ index[w] \in Nat /\ length[state[w]] \in Nat /\ index[w] < MaxSize
        /\ rpc \in Owning \cup {"waiting"}
    BY <1>t, <1>3 DEF TypeOK, Length, Placing, HasRoom
  <2>4. index[w] \in 0 .. Shrunk(length[state[w]]) - 1 /\ index[w] \in Cell
    BY <2>2, <2>3 DEF Cell
  <2>5. state[w] = statePtr \/ rpc = "waiting"
    BY <1>2, <2>1, <2>3
  <2> QED
    BY <2>4, <2>5 DEF Live
<1>4. ASSUME NEW b \in Buf PROVE Live(b) \subseteq Cell
  <2>1. length[b] \in Nat /\ size \in Nat /\ next \in Nat /\ size <= MaxSize
    BY <1>t DEF TypeOK, Length
  <2>2. 0 .. Shrunk(length[b]) - 1 \subseteq Cell /\ next .. size - 1 \subseteq Cell
    BY <2>1 DEF Cell
  <2> QED
    BY <2>2 DEF Live
<1>5. ASSUME NEW w \in Writer, NEW x \in Writer, {wpc[w], wpc[x]} \subseteq Locked \ {"locked"},
             state[w] = state[x], index[w] = index[x], HasRoom(w)
      PROVE  w = x
  BY <1>1, <1>5 DEF SafetyInv, ClaimedOnce
<1> QED
  BY <1>2, <1>3, <1>4, <1>5

\* A call whose program counter moves within, or stays out of, the writing of a cell leaves
\* what the cells hold alone, if it leaves their content alone.
LEMMA HoldsKept ==
    ASSUME NEW b, NEW k,
           \A x \in Writer :
              /\ (wpc'[x] \in {"claimed", "copying"} /\ state'[x] = b /\ index'[x] = k)
                 <=> (wpc[x] \in {"claimed", "copying"} /\ state[x] = b /\ index[x] = k)
              /\ wpc[x] \in {"claimed", "copying"} => val'[x] = val[x],
           Pending(b, k) # {} \/ buffer'[b][k] = buffer[b][k]
    PROVE  \A i : Holds(b, k, i)' <=> Holds(b, k, i)
<1>1. Pending(b, k)' = Pending(b, k)
  BY DEF Pending
<1>2. \A w \in Pending(b, k) : val'[w] = val[w]
  BY DEF Pending
<1> QED
  BY <1>1, <1>2 DEF Holds

\* A step that leaves the cells to be read and what they hold alone.
SameCells ==
    \A b \in Buf : /\ Live(b)' = Live(b)
                    /\ \A k \in Live(b) : \A i : Holds(b, k, i)' <=> Holds(b, k, i)
SameItems == accepted' = accepted /\ delivered' = delivered /\ due' = due /\ statePtr' = statePtr

\* It keeps what is to be read exact.
LEMMA ExactKept ==
    ASSUME TypeOK, Exact, SameItems, SameCells,
           rpc' \in {"waiting", "owned"} => rpc \in {"waiting", "owned"},
           \A w \in Writer : wpc'[w] \in {"loaded", "locked"} /\ state'[w] # statePtr =>
                                wpc[w] \in {"loaded", "locked"} /\ state'[w] = state[w],
           Covering', Emptied'
    PROVE  Exact'
<1>1. statePtr \in Buf /\ ReaderBuffer \in Buf /\ ReaderBuffer' = ReaderBuffer
  BY BufFacts DEF TypeOK, ReaderBuffer, SameItems
<1>2. Delivered' = Delivered
  BY DEF SameItems, Delivered
<1>3. Filled'
  BY <1>2 DEF Exact, Filled, SameItems, SameCells
<1>4. Placed'
  BY <1>2 DEF Exact, Placed, SameItems, SameCells
<1>5. Ordered'
  BY DEF Exact, Ordered, SameItems, SameCells
<1>6. Behind'
  BY <1>1 DEF Exact, Behind, SameItems, SameCells
<1>7. DueKept'
  BY <1>1 DEF Exact, DueKept, SameItems, SameCells
<1> QED
  BY <1>3, <1>4, <1>5, <1>6, <1>7 DEF Exact

\* The steps of a call before it claims a cell.
LEMMA EarlyExact ==
    ASSUME SafetyInv, ItemsOK, Exact, NEW w \in Writer, Call(w) \/ Lock(w)
    PROVE  Exact'
<1>t. TypeOK
  BY DEF SafetyInv, CountInv
<1>1. /\ wpc[w] \in {"idle", "loaded"} /\ wpc'[w] \in {"loaded", "locked"}
      /\ wpc[w] = "loaded" => state'[w] = state[w]
      /\ wpc[w] = "idle" => state'[w] = statePtr
      /\ \A x \in Writer : x # w => wpc'[x] = wpc[x] /\ state'[x] = state[x] /\ val'[x] = val[x]
      /\ UNCHANGED <<index, buffer, length, rpc, size, next, covered>>
      /\ SameItems
  BY <1>t DEF Call, LoadState, Lock, TakeLock, TypeOK, readerVars, SameItems
<1>2. \A b, k : \A i : Holds(b, k, i)' <=> Holds(b, k, i)
  BY <1>1, HoldsKept
<1>3. \A b : Live(b)' = Live(b)
  BY <1>1 DEF Live, SameItems
<1>4. SameCells
  BY <1>2, <1>3 DEF SameCells
<1>5. Covering'
  BY <1>1 DEF Exact, Covering
<1>6. Emptied'
  BY <1>1 DEF Exact, Emptied, ReaderBuffer, SameItems
<1> QED
  BY <1>t, <1>1, <1>4, <1>5, <1>6, ExactKept

\* A call that starts to copy has its item in the cell already, since it claimed it.
LEMMA BeginCopyExact ==
    ASSUME SafetyInv, ItemsOK, racers = {}, Exact, NEW w \in Writer, Copy(w), BeginCopy(w)
    PROVE  Exact'
<1>t. TypeOK
  BY DEF SafetyInv, CountInv
<1> DEFINE b == state[w]
           k == index[w]
<1>1. /\ wpc[w] = "claimed" /\ HasRoom(w) /\ wpc'[w] = "copying"
      /\ \A x \in Writer : x # w => wpc'[x] = wpc[x] /\ covered'[x] = covered[x]
      /\ covered'[w] = buffer[b][k] \ Rivals(w)
      /\ buffer' = [buffer EXCEPT ![b][k] = buffer[b][k] \cup {val[w]}]
      /\ UNCHANGED <<state, index, val, length, rpc, size, next>>
      /\ SameItems
  BY <1>t DEF Copy, BeginCopy, TypeOK, readerVars, SameItems, history
<1>2. b \in Buf /\ k \in Cell
  BY <1>t, <1>1 DEF TypeOK, HasRoom, Length, Cell
<1>3. /\ buffer'[b][k] = buffer[b][k] \cup {val[w]}
      /\ \A c \in Buf, l \in Cell : c # b \/ l # k => buffer'[c][l] = buffer[c][l]
  BY <1>t, <1>1, <1>2 DEF TypeOK
<1>4. w \in Pending(b, k)
  BY <1>1 DEF Pending
<1>5. \A c \in Buf, l \in Cell : \A i : Holds(c, l, i)' <=> Holds(c, l, i)
  <2> TAKE c \in Buf, l \in Cell
  <2>1. Pending(c, l) # {} \/ buffer'[c][l] = buffer[c][l]
    BY <1>3, <1>4
  <2> QED
    BY <1>1, <2>1, HoldsKept
<1>6. \A c \in Buf : Live(c)' = Live(c) /\ Live(c) \subseteq Cell
  BY <1>1, Alone DEF Live, SameItems
<1>7. SameCells
  BY <1>5, <1>6 DEF SameCells
<1>8. \A x \in Writer : x # w /\ wpc[x] = "copying" => state[x] # b \/ index[x] # k
  <2>1. {"claimed", "copying"} \subseteq Locked \ {"locked"}
    BY DEF Locked
  <2> QED
    BY <1>1, <2>1, Alone
<1>9. Rivals(w) = {}
  BY <1>8 DEF Rivals
<1>10. Covering'
  <2> SUFFICES ASSUME NEW x \in Writer, wpc'[x] = "copying"
               PROVE  buffer'[state[x]][index[x]] \subseteq covered'[x] \cup {val[x]}
    BY <1>1 DEF Covering
  <2>1. CASE x = w
    BY <1>1, <1>3, <1>9, <2>1
  <2>2. CASE x # w
    <3>1. wpc[x] = "copying" /\ (state[x] # b \/ index[x] # k)
      BY <1>1, <1>8, <2>2
    <3>2. state[x] \in Buf /\ index[x] \in Cell
      BY <1>t, <3>1 DEF TypeOK, ItemsOK, HasRoom, Length, Cell
    <3> QED
      BY <1>1, <1>3, <2>2, <3>1, <3>2 DEF Exact, Covering
  <2> QED
    BY <2>1, <2>2
<1>11. Emptied'
  BY <1>1 DEF Exact, Emptied, ReaderBuffer, SameItems
<1> QED
  BY <1>t, <1>1, <1>7, <1>10, <1>11, ExactKept

\* The end of the copy leaves the item alone in the cell.
LEMMA EndCopyExact ==
    ASSUME SafetyInv, ItemsOK, racers = {}, Exact, NEW w \in Writer, Copy(w), EndCopy(w)
    PROVE  Exact'
<1>t. TypeOK
  BY DEF SafetyInv, CountInv
<1> DEFINE b == state[w]
           k == index[w]
<1>1. /\ wpc[w] = "copying" /\ HasRoom(w) /\ wpc'[w] = "copied"
      /\ \A x \in Writer : x # w => wpc'[x] = wpc[x] /\ covered'[x] = covered[x]
      /\ buffer' = [buffer EXCEPT ![b][k] = (buffer[b][k] \ covered[w]) \cup {val[w]}]
      /\ UNCHANGED <<state, index, val, length, rpc, size, next>>
      /\ SameItems
  BY <1>t DEF Copy, EndCopy, ItemsOK, TypeOK, readerVars, SameItems, history
<1>2. b \in Buf /\ k \in Cell
  BY <1>t, <1>1 DEF TypeOK, HasRoom, Length, Cell
<1>3. /\ buffer'[b][k] = {val[w]}
      /\ \A c \in Buf, l \in Cell : c # b \/ l # k => buffer'[c][l] = buffer[c][l]
  <2>1. buffer[b][k] \subseteq covered[w] \cup {val[w]}
    BY <1>1 DEF Exact, Covering
  <2> QED
    BY <1>t, <1>1, <1>2, <2>1 DEF TypeOK
<1>4. \A x \in Writer : x # w /\ wpc[x] \in {"claimed", "copying"} => state[x] # b \/ index[x] # k
  <2>1. {"claimed", "copying"} \subseteq Locked \ {"locked"}
    BY DEF Locked
  <2> QED
    BY <1>1, <2>1, Alone
<1>5. \A c \in Buf, l \in Cell : \A i : Holds(c, l, i)' <=> Holds(c, l, i)
  <2> TAKE c \in Buf, l \in Cell
  <2>1. CASE c = b /\ l = k
    <3>1. Pending(c, l) = {w} /\ Pending(c, l)' = {}
      BY <1>1, <1>4, <2>1 DEF Pending
    <3>2. \A i : Holds(c, l, i) <=> val[w] = i
      BY <3>1 DEF Holds
    <3>3. \A i : Holds(c, l, i)' <=> buffer'[c][l] = {i}
      BY <3>1 DEF Holds
    <3>4. buffer'[c][l] = {val[w]}
      BY <1>3, <2>1
    <3> QED
      BY <3>2, <3>3, <3>4
  <2>2. CASE c # b \/ l # k
    <3>1. buffer'[c][l] = buffer[c][l]
      BY <1>3, <2>2
    <3> QED
      BY <1>1, <2>2, <3>1, HoldsKept
  <2> QED
    BY <2>1, <2>2
<1>6. \A c \in Buf : Live(c)' = Live(c) /\ Live(c) \subseteq Cell
  BY <1>1, Alone DEF Live, SameItems
<1>7. SameCells
  BY <1>5, <1>6 DEF SameCells
<1>8. Covering'
  <2> SUFFICES ASSUME NEW x \in Writer, wpc'[x] = "copying"
               PROVE  buffer'[state[x]][index[x]] \subseteq covered'[x] \cup {val[x]}
    BY <1>1 DEF Covering
  <2>1. x # w /\ wpc[x] = "copying" /\ (state[x] # b \/ index[x] # k)
    BY <1>1, <1>4
  <2>2. state[x] \in Buf /\ index[x] \in Cell
    BY <1>t, <2>1 DEF TypeOK, ItemsOK, HasRoom, Length, Cell
  <2> QED
    BY <1>1, <1>3, <2>1, <2>2 DEF Exact, Covering
<1>9. Emptied'
  BY <1>1 DEF Exact, Emptied, ReaderBuffer, SameItems
<1> QED
  BY <1>t, <1>1, <1>7, <1>8, <1>9, ExactKept

\* A call that returns leaves its item in its cell.
LEMMA ReturnExact ==
    ASSUME SafetyInv, ItemsOK, racers = {}, Exact, NEW w \in Writer, Succeed(w) \/ Fail(w)
    PROVE  Exact'
<1>t. TypeOK
  BY DEF SafetyInv, CountInv
<1>1. /\ wpc[w] = "copied" \/ (wpc[w] = "claimed" /\ ~HasRoom(w))
      /\ wpc'[w] = "idle"
      /\ \A x \in Writer : x # w => wpc'[x] = wpc[x] /\ state'[x] = state[x] /\ index'[x] = index[x]
      /\ UNCHANGED <<val, buffer, covered, length, rpc, size, next>>
      /\ SameItems
  BY <1>t DEF Succeed, Fail, ReturnTrue, ReturnFalse, Unlock, TypeOK, readerVars, SameItems, history
<1>2. \A c \in Buf, l \in Cell : \A i : Holds(c, l, i)' <=> Holds(c, l, i)
  <2> TAKE c \in Buf, l \in Cell
  <2>1. ~(wpc[w] \in {"claimed", "copying"} /\ index[w] = l)
    BY <1>1 DEF HasRoom, Cell
  <2> QED
    BY <1>1, <2>1, HoldsKept
<1>3. \A c \in Buf : Live(c)' = Live(c) /\ Live(c) \subseteq Cell
  BY <1>1, Alone DEF Live, SameItems
<1>4. SameCells
  BY <1>2, <1>3 DEF SameCells
<1>5. Covering'
  BY <1>1 DEF Exact, Covering
<1>6. Emptied'
  BY <1>1 DEF Exact, Emptied, ReaderBuffer, SameItems
<1> QED
  BY <1>t, <1>1, <1>4, <1>5, <1>6, ExactKept

\* The reader's steps that neither swap nor read.
LEMMA ReaderExact ==
    ASSUME SafetyInv, ItemsOK, racers = {}, Exact, SwapOrRead
    PROVE  Exact'
<1>t. TypeOK
  BY DEF SafetyInv, CountInv
<1>1. /\ UNCHANGED <<wpc, state, index, val, buffer, covered>>
      /\ SameItems
  BY DEF SwapOrRead, ResetLength, WaitWriters, GetSize, EndRead, writerVars, SameItems, history
<1>2. \A b, k : \A i : Holds(b, k, i)' <=> Holds(b, k, i)
  BY <1>1 DEF Holds, Pending
<1>3. /\ ReaderBuffer \in Buf /\ statePtr \in Buf
      /\ ReaderBuffer # statePtr /\ ReaderBuffer' = ReaderBuffer
  BY <1>t, <1>1, BufFacts DEF TypeOK, ReaderBuffer, SameItems
<1>4. \A b \in Buf : b = statePtr \/ b = ReaderBuffer
  BY <1>3, BufFacts DEF ReaderBuffer
<1>5. ASSUME NEW b \in Buf PROVE Live(b)' = Live(b)
  <2>0. (b = statePtr <=> b = statePtr') /\ (b # statePtr => b = ReaderBuffer)
    BY <1>1, <1>4 DEF SameItems
  <2>1. CASE ResetLength
    <3>1. /\ rpc = "out" /\ rpc' = "cleared" /\ (b = statePtr => length'[b] = length[b])
          /\ UNCHANGED <<size, next>>
      BY <1>t, <1>3, <2>1 DEF ResetLength, TypeOK
    <3> QED
      BY <2>0, <3>1 DEF Live
  <2>2. CASE WaitWriters
    BY <2>0, <2>2 DEF WaitWriters, Live
  <2>3. CASE GetSize
    <3>1. /\ rpc = "owned" /\ rpc' = "reading" /\ length' = length
          /\ next' = 0 /\ (b # statePtr => size' = Shrunk(length[b]))
      BY <2>0, <2>3 DEF GetSize
    <3> QED
      BY <2>0, <3>1 DEF Live
  <2>4. CASE EndRead
    <3>1. rpc = "reading" /\ rpc' = "out" /\ length' = length /\ next = size /\ size \in Nat
      BY <1>t, <2>4 DEF EndRead, TypeOK
    <3>2. next .. size - 1 = {}
      BY <3>1
    <3> QED
      BY <2>0, <3>1, <3>2 DEF Live
  <2> QED
    BY <2>1, <2>2, <2>3, <2>4 DEF SwapOrRead
<1>6. SameCells
  BY <1>2, <1>5 DEF SameCells
<1>7. Covering'
  BY <1>1 DEF Exact, Covering
<1>8. Emptied'
  <2>1. CASE ResetLength
    BY <1>t, <1>3, <2>1 DEF ResetLength, Emptied, TypeOK
  <2>2. CASE WaitWriters \/ GetSize \/ EndRead
    BY <2>2 DEF WaitWriters, GetSize, EndRead, Emptied
  <2> QED
    BY <2>1, <2>2 DEF SwapOrRead
<1>9. rpc' \in {"waiting", "owned"} => rpc \in {"waiting", "owned"}
  BY DEF SwapOrRead, ResetLength, WaitWriters, GetSize, EndRead
<1> QED
  BY <1>t, <1>1, <1>6, <1>7, <1>8, <1>9, ExactKept

\* A call that is given no cell changes nothing, ...
LEMMA FullExact ==
    ASSUME SafetyInv, ItemsOK, racers = {}, Exact, NEW w \in Writer, Claim(w), ~HasRoom(w)'
    PROVE  Exact'
<1>t. TypeOK
  BY DEF SafetyInv, CountInv
<1> DEFINE b == state[w]
<1>1. /\ wpc[w] = "locked" /\ wpc'[w] = "claimed" /\ index'[w] = length[b]
      /\ \A x \in Writer : x # w => wpc'[x] = wpc[x] /\ index'[x] = index[x]
      /\ length' = [length EXCEPT ![b] = Incremented(length[b])]
      /\ UNCHANGED <<state, val, buffer, covered, rpc, size, next>>
      /\ SameItems
  BY <1>t DEF Claim, ClaimIndex, TypeOK, readerVars, SameItems
<1>2. b \in Buf /\ length[b] \in Nat /\ ~(length[b] < MaxSize)
  BY <1>t, <1>1 DEF TypeOK, HasRoom, Length
<1>3. Shrunk(length'[b]) = Shrunk(length[b]) /\ \A c \in Buf : c # b => length'[c] = length[c]
  <2>1. /\ length'[b] = Incremented(length[b])
        /\ \A c \in Buf : c # b => length'[c] = length[c]
    BY <1>t, <1>1, <1>2 DEF TypeOK
  <2>2. MaxSize \in Nat
    BY QueueAssumption
  <2>3. Shrunk(Incremented(length[b])) = Shrunk(length[b])
    BY <1>2, <2>2 DEF Incremented
  <2> QED
    BY <2>1, <2>3
<1>4. \A c \in Buf : Live(c)' = Live(c) /\ Live(c) \subseteq Cell
  BY <1>1, <1>3, Alone DEF Live, SameItems
<1>5. \A c \in Buf, l \in Cell : \A i : Holds(c, l, i)' <=> Holds(c, l, i)
  <2> TAKE c \in Buf, l \in Cell
  <2>1. wpc[w] \notin {"claimed", "copying"} /\ index'[w] # l
    BY <1>1, <1>2 DEF Cell
  <2> QED
    BY <1>1, <2>1, HoldsKept
<1>6. SameCells
  BY <1>4, <1>5 DEF SameCells
<1>7. Covering'
  BY <1>1 DEF Exact, Covering
<1>8. Emptied'
  <2>1. rpc = "cleared" => b # ReaderBuffer
    <3>1. "locked" \in Locked /\ "cleared" \in Owning
      BY DEF Locked, Owning
    <3>2. ReaderBuffer # statePtr
      BY <1>t, BufFacts DEF TypeOK, ReaderBuffer
    <3> QED
      BY <1>1, <3>1, <3>2, Alone
  <2>2. ReaderBuffer \in Buf /\ ReaderBuffer' = ReaderBuffer
    BY <1>t, <1>1, BufFacts DEF TypeOK, ReaderBuffer, SameItems
  <2> QED
    BY <1>1, <1>3, <2>1, <2>2 DEF Exact, Emptied
<1> QED
  BY <1>t, <1>1, <1>6, <1>7, <1>8, ExactKept

\* What is delivered was accepted.
LEMMA DeliveredAccepted == ItemsOK => Delivered \subseteq accepted
<1> SUFFICES ASSUME ItemsOK, NEW i \in Delivered PROVE i \in accepted
  OBVIOUS
<1>1. PICK d \in {delivered[k] : k \in DOMAIN delivered} : i \in d
  BY DEF Delivered
<1>2. PICK k \in DOMAIN delivered : d = delivered[k]
  BY <1>1
<1>3. delivered \in Seq(SUBSET accepted)
  BY DEF ItemsOK
<1>4. delivered[k] \in SUBSET accepted
  BY <1>3
<1> QED
  BY <1>1, <1>2, <1>4

\* What one more step of the reader delivers.
LEMMA DeliveredAppend ==
    ASSUME ItemsOK, NEW x \in SUBSET accepted, delivered' = Append(delivered, x)
    PROVE  Delivered' = Delivered \cup x
<1>1. delivered \in Seq(SUBSET accepted)
  BY DEF ItemsOK
<1>2. /\ Len(delivered) \in Nat /\ DOMAIN delivered = 1 .. Len(delivered)
      /\ DOMAIN delivered' = 1 .. Len(delivered) + 1
      /\ \A k \in 1 .. Len(delivered) : delivered'[k] = delivered[k]
      /\ delivered'[Len(delivered) + 1] = x
  BY <1>1
<1>3. ASSUME NEW i \in Delivered' PROVE i \in Delivered \cup x
  <2>1. PICK d \in {delivered'[k] : k \in DOMAIN delivered'} : i \in d
    BY <1>3 DEF Delivered
  <2>2. PICK k \in DOMAIN delivered' : d = delivered'[k]
    BY <2>1
  <2>3. CASE k = Len(delivered) + 1
    BY <1>2, <2>1, <2>2, <2>3
  <2>4. CASE k # Len(delivered) + 1
    <3>1. k \in DOMAIN delivered /\ d = delivered[k]
      BY <1>2, <2>2, <2>4
    <3> QED
      BY <2>1, <3>1 DEF Delivered
  <2> QED
    BY <2>3, <2>4
<1>4. ASSUME NEW i \in Delivered PROVE i \in Delivered'
  <2>1. PICK d \in {delivered[k] : k \in DOMAIN delivered} : i \in d
    BY <1>4 DEF Delivered
  <2>2. PICK k \in DOMAIN delivered : d = delivered[k]
    BY <2>1
  <2>3. k \in DOMAIN delivered' /\ d = delivered'[k]
    BY <1>2, <2>2
  <2> QED
    BY <2>1, <2>3 DEF Delivered
<1>5. ASSUME NEW i \in x PROVE i \in Delivered'
  <2>1. Len(delivered) + 1 \in DOMAIN delivered'
    BY <1>2
  <2>2. x \in {delivered'[k] : k \in DOMAIN delivered'}
    BY <1>2, <2>1
  <2> QED
    BY <1>5, <2>2 DEF Delivered
<1> QED
  BY <1>3, <1>4, <1>5

\* A cell holds one item, ...
LEMMA HoldsOne ==
    ASSUME SafetyInv, ItemsOK, racers = {}, NEW b, NEW k \in Cell,
           NEW i, NEW j, Holds(b, k, i), Holds(b, k, j)
    PROVE  i = j
<1>1. CASE Pending(b, k) # {}
  <2>1. PICK w \in Pending(b, k), x \in Pending(b, k) : val[w] = i /\ val[x] = j
    BY <1>1 DEF Holds
  <2>2. w = x
    <3>1. /\ {wpc[w], wpc[x]} \subseteq Locked \ {"locked"} /\ w \in Writer /\ x \in Writer
          /\ state[w] = state[x] /\ index[w] = index[x] /\ HasRoom(w)
      BY DEF Pending, Locked, HasRoom, Cell
    <3> QED
      BY <3>1, Alone
  <2> QED
    BY <2>1, <2>2
<1>2. CASE Pending(b, k) = {}
  BY <1>2 DEF Holds
<1> QED
  BY <1>1, <1>2

\* ... and an item is in one cell.
LEMMA HeldOnce ==
    ASSUME TypeOK, ItemsOK, Exact,
           NEW b \in Buf, NEW c \in Buf, NEW k \in Live(b), NEW l \in Live(c),
           NEW i \in accepted, Holds(b, k, i), Holds(c, l, i), k \in Nat, l \in Nat
    PROVE  b = c /\ k = l
<1>1. i[2] \in Nat
  BY DEF ItemsOK
<1>2. ~(i[2] < i[2])
  BY <1>1
<1>3. b = c
  <2>1. statePtr \in Buf
    BY DEF TypeOK
  <2>2. b = c \/ (b # statePtr /\ c = statePtr) \/ (c # statePtr /\ b = statePtr)
    BY <2>1 DEF Buf
  <2> QED
    BY <1>2, <2>2 DEF Exact, Ordered
<1>4. k = l
  <2>1. k = l \/ k < l \/ l < k
    OBVIOUS
  <2> QED
    BY <1>2, <1>3, <2>1 DEF Exact, Ordered
<1> QED
  BY <1>3, <1>4

\* ... and one that is given a cell puts a new item behind all of its writer.
LEMMA ClaimExact ==
    ASSUME SafetyInv, ItemsOK, racers = {}, Exact, NEW w \in Writer, Claim(w), HasRoom(w)'
    PROVE  Exact'
<1>t. TypeOK
  BY DEF SafetyInv, CountInv
<1>0. PICK b \in Buf, k \in Nat, v \in Value : b = state[w] /\ k = length[b] /\ v = val[w]
  BY <1>t DEF TypeOK, Length
<1>1. /\ wpc[w] = "locked" /\ wpc'[w] = "claimed" /\ index'[w] = k /\ k < MaxSize
      /\ \A x \in Writer : x # w => wpc'[x] = wpc[x] /\ index'[x] = index[x]
      /\ length' = [length EXCEPT ![b] = Incremented(k)]
      /\ accepted' = accepted \cup {v}
      /\ UNCHANGED <<state, val, buffer, covered, rpc, size, next, delivered, due, statePtr>>
  BY <1>t, <1>0 DEF Claim, ClaimIndex, TypeOK, readerVars, HasRoom
<1>2. /\ v = <<w, calls[w]>> /\ v[1] = w /\ v[2] = calls[w]
      /\ \A i \in accepted : i[1] = w => i[2] < v[2]
  BY <1>0, <1>1 DEF ItemsOK
<1>3. v \notin accepted /\ v \notin Delivered /\ Delivered' = Delivered
  <2>1. calls[w] \in Nat
    BY DEF ItemsOK
  <2>2. v \notin accepted
    BY <1>2, <2>1
  <2> QED
    BY <1>1, <2>2, DeliveredAccepted DEF Delivered
<1>4. MaxSize \in Nat /\ k \in Cell
  BY <1>1, QueueAssumption DEF Cell
<1>5. b = statePtr \/ rpc = "waiting"
  <2>1. "locked" \in Locked /\ rpc \in Owning \cup {"waiting"}
    BY <1>t DEF Locked, TypeOK
  <2> QED
    BY <1>0, <1>1, <2>1, Alone
<1>6. /\ k \notin Live(b) /\ Live(b)' = Live(b) \cup {k}
      /\ \A c \in Buf : c # b => Live(c)' = Live(c)
  <2>1. length'[b] = k + 1 /\ length[b] = k /\ \A c \in Buf : c # b => length'[c] = length[c]
    BY <1>t, <1>0, <1>1, <1>4 DEF TypeOK, Incremented
  <2>2. Shrunk(k) = k /\ Shrunk(k + 1) = k + 1
    BY <1>1, <1>4
  <2>3. 0 .. k = (0 .. k - 1) \cup {k} /\ k \notin 0 .. k - 1 /\ (k + 1) - 1 = k
    OBVIOUS
  <2>4. Live(b) = 0 .. k - 1 /\ Live(b)' = 0 .. (k + 1) - 1
    BY <1>1, <1>5, <2>1, <2>2 DEF Live
  <2>5. \A c \in Buf : c # b => Live(c)' = Live(c)
    BY <1>1, <2>1 DEF Live
  <2> QED
    BY <2>3, <2>4, <2>5
<1>7. \A c \in Buf : Live(c) \subseteq Cell
  BY Alone
<1>8. \A c \in Buf, l \in Cell : c # b \/ l # k => \A i : Holds(c, l, i)' <=> Holds(c, l, i)
  <2> SUFFICES ASSUME NEW c \in Buf, NEW l \in Cell, c # b \/ l # k
               PROVE  \A i : Holds(c, l, i)' <=> Holds(c, l, i)
    OBVIOUS
  <2>1. ~(wpc[w] \in {"claimed", "copying"}) /\ ~(state'[w] = c /\ index'[w] = l)
    BY <1>0, <1>1
  <2> QED
    BY <1>1, <2>1, HoldsKept
<1>9. \A i : Holds(b, k, i)' <=> i = v
  <2>1. Pending(b, k)' = {w}
    <3>1. w \in Pending(b, k)'
      BY <1>0, <1>1 DEF Pending
    <3>2. ASSUME NEW x \in Pending(b, k)', x # w PROVE FALSE
      <4>1. wpc[x] \in {"claimed", "copying"} /\ state[x] = b /\ index[x] = k /\ x \in Writer
        BY <1>1, <3>2 DEF Pending
      <4>2. Placing(x)
        BY <1>1, <4>1 DEF Placing, HasRoom
      <4> QED
        BY <1>6, <4>1, <4>2, Alone
    <3> QED
      BY <3>1, <3>2
  <2> QED
    BY <1>0, <1>1, <2>1 DEF Holds
<1>10. \A c \in Buf : \A l \in Live(c) : \A i : Holds(c, l, i) => i \in accepted
  BY <1>7, HoldsOne DEF Exact, Filled
<1>11. \A c \in Buf : \A l \in Live(c) : /\ \A i : Holds(c, l, i)' <=> Holds(c, l, i)
                                         /\ c # b \/ l # k
  BY <1>6, <1>7, <1>8
<1>12. Filled'
  <2> SUFFICES ASSUME NEW c \in Buf, NEW l \in Live(c)'
               PROVE  \E i \in accepted' \ Delivered' : Holds(c, l, i)'
    BY DEF Filled
  <2>1. CASE l \in Live(c)
    <3>1. PICK i \in accepted \ Delivered : Holds(c, l, i)
      BY <2>1 DEF Exact, Filled
    <3> QED
      BY <1>1, <1>3, <1>11, <2>1, <3>1
  <2>2. CASE c = b /\ l = k
    BY <1>1, <1>3, <1>9, <2>2
  <2> QED
    BY <1>6, <2>1, <2>2
<1>13. Placed'
  <2> SUFFICES ASSUME NEW i \in accepted' \ Delivered'
               PROVE  \E c \in Buf : \E l \in Live(c)' : Holds(c, l, i)'
    BY DEF Placed
  <2>1. CASE i \in accepted
    <3>1. PICK c \in Buf : \E l \in Live(c) : Holds(c, l, i)
      BY <1>3, <2>1 DEF Exact, Placed
    <3>2. PICK l \in Live(c) : Holds(c, l, i)
      BY <3>1
    <3> QED
      BY <1>6, <1>11, <3>2
  <2>2. CASE i = v
    <3>1. k \in Live(b)' /\ Holds(b, k, i)'
      BY <1>6, <1>9, <2>2
    <3> QED
      BY <3>1
  <2> QED
    BY <1>1, <2>1, <2>2
<1>14. Ordered'
  <2> SUFFICES ASSUME NEW c \in Buf, NEW d \in Buf, NEW l \in Live(c)', NEW m \in Live(d)',
                      (c = d /\ l < m) \/ (c # statePtr /\ d = statePtr),
                      NEW i \in accepted', NEW j \in accepted',
                      Holds(c, l, i)', Holds(d, m, j)', i[1] = j[1]
               PROVE  i[2] < j[2]
    BY <1>1 DEF Ordered
  <2>1. CASE l \in Live(c) /\ m \in Live(d)
    <3>1. Holds(c, l, i) /\ Holds(d, m, j)
      BY <1>11, <2>1
    <3>2. i \in accepted /\ j \in accepted
      BY <1>10, <2>1, <3>1
    <3> QED
      BY <2>1, <3>1, <3>2 DEF Exact, Ordered
  <2>2. CASE l \in Live(c) /\ d = b /\ m = k
    <3>1. i \in accepted /\ j = v
      BY <1>9, <1>10, <1>11, <2>2
    <3> QED
      BY <1>2, <3>1
  <2>3. CASE c = b /\ l = k /\ m \in Live(d)
    <3>1. i = v /\ Holds(d, m, j) /\ j \in accepted
      BY <1>9, <1>10, <1>11, <2>3
    <3>2. CASE c = d /\ l < m
      <4>1. m \in 0 .. k - 1
        <5>1. Shrunk(k) = k
          BY <1>1, <1>4
        <5> QED
          BY <1>0, <1>5, <2>3, <3>2, <5>1 DEF Live
      <4> QED
        BY <2>3, <3>2, <4>1
    <3>3. CASE c # statePtr /\ d = statePtr
      <4>1. j[1] # w
        BY <1>0, <1>1, <2>3, <3>1, <3>3 DEF Exact, Behind
      <4> QED
        BY <1>2, <3>1, <4>1
    <3> QED
      BY <3>2, <3>3
  <2>4. CASE c = b /\ l = k /\ d = b /\ m = k
    BY <2>4
  <2> QED
    BY <1>6, <2>1, <2>2, <2>3, <2>4
<1>15. Behind'
  <2> SUFFICES ASSUME NEW x \in Writer, wpc'[x] \in {"loaded", "locked"}, state[x] # statePtr,
                      NEW l \in Live(statePtr)', NEW i \in accepted', Holds(statePtr, l, i)'
               PROVE  i[1] # x
    BY <1>1 DEF Behind
  <2>1. x # w /\ wpc[x] \in {"loaded", "locked"} /\ statePtr \in Buf
    BY <1>t, <1>1 DEF TypeOK
  <2>2. PICK p \in Buf : p = statePtr
    BY <2>1
  <2>3. l \in Live(p)' /\ Holds(p, l, i)'
    BY <1>1, <2>2
  <2>4. CASE l \in Live(p)
    <3>1. Holds(p, l, i) /\ i \in accepted
      BY <1>10, <1>11, <2>3, <2>4
    <3> QED
      BY <2>1, <2>2, <2>4, <3>1 DEF Exact, Behind
  <2>5. CASE p = b /\ l = k
    <3>1. i = v
      BY <1>9, <2>3, <2>5
    <3> QED
      BY <1>2, <2>1, <3>1
  <2> QED
    BY <1>6, <2>3, <2>4, <2>5
<1>16. Covering'
  BY <1>1 DEF Exact, Covering
<1>r. ReaderBuffer \in Buf /\ ReaderBuffer' = ReaderBuffer /\ ReaderBuffer # statePtr
  BY <1>t, <1>1, BufFacts DEF TypeOK, ReaderBuffer
<1>17. DueKept'
  <2> SUFFICES ASSUME rpc \in {"waiting", "owned"}, NEW i \in due
               PROVE  \E l \in Live(ReaderBuffer)' : Holds(ReaderBuffer, l, i)'
    BY <1>1 DEF DueKept
  <2>1. PICK r \in Buf : r = ReaderBuffer
    BY <1>r
  <2>2. PICK l \in Live(r) : Holds(r, l, i)
    BY <2>1 DEF Exact, DueKept
  <2>3. l \in Live(r)' /\ Holds(r, l, i)'
    BY <1>6, <1>11, <2>2
  <2> QED
    BY <1>r, <2>1, <2>3
<1>18. Emptied'
  <2>1. rpc = "cleared" => b # ReaderBuffer
    BY <1>5, <1>r
  <2> QED
    BY <1>t, <1>1, <1>r, <2>1 DEF Exact, Emptied, TypeOK
<1> QED
  BY <1>12, <1>13, <1>14, <1>15, <1>16, <1>17, <1>18 DEF Exact

\* The store of the pointer gives the reader every cell there is to be read, so also what
\* is due.
LEMMA StartSwapExact ==
    ASSUME SafetyInv, ItemsOK, racers = {}, Exact, StartSwap
    PROVE  Exact'
<1>t. TypeOK
  BY DEF SafetyInv, CountInv
<1>0. PICK p \in Buf, q \in Buf : /\ p = statePtr /\ q = ReaderBuffer /\ p # q
                                  /\ \A b \in Buf : b = p \/ b = q
  <2>1. statePtr \in Buf
    BY <1>t DEF TypeOK
  <2> QED
    BY <2>1, BufFacts DEF ReaderBuffer
<1>1. /\ rpc = "cleared" /\ rpc' = "waiting" /\ statePtr' = q /\ due' = returned \ Delivered
      /\ ReaderBuffer' = p
      /\ UNCHANGED <<length, buffer, wpc, state, index, val, covered, size, next>>
      /\ accepted' = accepted /\ delivered' = delivered /\ Delivered' = Delivered
  <2>1. StorePointer
    BY DEF StartSwap
  <2>2. Other(Other(statePtr)) = statePtr
    BY <1>0, BufFacts
  <2> QED
    BY <1>0, <2>1, <2>2 DEF StartSwap, StorePointer, ReaderBuffer, writerVars, Delivered
<1>2. \A b, k : \A i : Holds(b, k, i)' <=> Holds(b, k, i)
  BY <1>1 DEF Holds, Pending
<1>3. length[q] = 0 /\ 0 .. Shrunk(0) - 1 = {}
  BY <1>0, <1>1, QueueAssumption DEF Exact, Emptied
<1>4. Live(q) = {} /\ Live(q)' = {} /\ Live(p)' = Live(p)
  BY <1>0, <1>1, <1>3 DEF Live
<1>5. \A b \in Buf : Live(b)' = Live(b)
  BY <1>0, <1>4
<1>6. Filled'
  BY <1>1, <1>2, <1>5 DEF Exact, Filled
<1>7. Placed'
  BY <1>1, <1>2, <1>5 DEF Exact, Placed
<1>8. Ordered'
  <2> SUFFICES ASSUME NEW b \in Buf, NEW c \in Buf, NEW k \in Live(b)', NEW l \in Live(c)',
                      (b = c /\ k < l) \/ (b # q /\ c = q),
                      NEW i \in accepted, NEW j \in accepted,
                      Holds(b, k, i)', Holds(c, l, j)', i[1] = j[1]
               PROVE  i[2] < j[2]
    BY <1>1 DEF Ordered
  <2>1. k \in Live(b) /\ l \in Live(c) /\ c # q
    BY <1>4, <1>5
  <2>2. Holds(b, k, i) /\ Holds(c, l, j)
    BY <1>2
  <2> QED
    BY <2>1, <2>2 DEF Exact, Ordered
<1>9. Behind'
  BY <1>1, <1>4 DEF Behind
<1>10. Covering'
  BY <1>1 DEF Exact, Covering
<1>11. DueKept'
  <2> SUFFICES ASSUME NEW i \in due' PROVE \E k \in Live(p)' : Holds(p, k, i)'
    BY <1>1 DEF DueKept
  <2>1. i \in accepted \ Delivered
    BY <1>1 DEF ItemsOK
  <2>2. PICK b \in Buf : \E k \in Live(b) : Holds(b, k, i)
    BY <2>1 DEF Exact, Placed
  <2>3. b = p
    BY <1>0, <1>4, <2>2
  <2> QED
    BY <1>2, <1>4, <2>2, <2>3
<1>12. Emptied'
  BY <1>1 DEF Emptied
<1> QED
  BY <1>6, <1>7, <1>8, <1>9, <1>10, <1>11, <1>12 DEF Exact

\* The cell that is read holds one item, accepted and not delivered before, and the reading
\* of it leaves the others to be read.
LEMMA CellRead ==
    ASSUME SafetyInv, ItemsOK, racers = {}, Exact, Deliver
    PROVE  /\ rpc = "reading" /\ rpc' = "reading" /\ ReaderBuffer \in Buf /\ next \in Nat
           /\ next \in Live(ReaderBuffer) /\ next \in Cell
           /\ ReaderBuffer' = ReaderBuffer /\ statePtr' = statePtr /\ statePtr # ReaderBuffer
           /\ UNCHANGED <<buffer, length, size, writerVars, calls, accepted, returned, due, racers>>
           /\ Live(ReaderBuffer)' = Live(ReaderBuffer) \ {next}
           /\ \A k \in Live(ReaderBuffer) : next <= k
           /\ next' .. size - 1 = (next .. size - 1) \ {next}
           /\ \A b \in Buf : b # ReaderBuffer => Live(b)' = Live(b)
           /\ \A b, k : \A i : Holds(b, k, i)' <=> Holds(b, k, i)
           /\ \A k : \A i : Holds(ReaderBuffer, k, i) <=> buffer[ReaderBuffer][k] = {i}
           /\ \E i \in accepted \ Delivered :
                 /\ Holds(ReaderBuffer, next, i) /\ buffer[ReaderBuffer][next] = {i}
                 /\ delivered' = Append(delivered, {i}) /\ Delivered' = Delivered \cup {i}
<1>t. TypeOK
  BY DEF SafetyInv, CountInv
<1>1. /\ rpc = "reading" /\ rpc' = "reading" /\ next < size /\ next' = next + 1
      /\ statePtr' = statePtr /\ ReaderBuffer' = ReaderBuffer
      /\ delivered' = Append(delivered, buffer[ReaderBuffer][next])
      /\ UNCHANGED <<buffer, length, size, writerVars, calls, accepted, returned, due, racers>>
  BY DEF Deliver, ReadCell, ReaderBuffer
<1>2. ReaderBuffer \in Buf /\ statePtr # ReaderBuffer
  BY <1>t, BufFacts DEF ReaderBuffer, TypeOK
<1>3. next \in Nat /\ size \in Nat /\ next < size /\ size <= MaxSize /\ MaxSize \in Nat
  BY <1>t, <1>1, QueueAssumption DEF TypeOK
<1>4. Live(ReaderBuffer) = next .. size - 1 /\ Live(ReaderBuffer)' = next + 1 .. size - 1
  BY <1>1, <1>2 DEF Live
<1>5. /\ next + 1 .. size - 1 = (next .. size - 1) \ {next}
      /\ next \in next .. size - 1 /\ next \in Cell
  BY <1>3 DEF Cell
<1>6. \A b \in Buf : b # ReaderBuffer => Live(b)' = Live(b)
  <2> SUFFICES ASSUME NEW b \in Buf, b # ReaderBuffer PROVE Live(b)' = Live(b)
    OBVIOUS
  <2>1. b = statePtr
    BY <1>t, BufFacts DEF ReaderBuffer, TypeOK
  <2> QED
    BY <1>1, <2>1 DEF Live
<1>7. \A b, k : \A i : Holds(b, k, i)' <=> Holds(b, k, i)
  BY <1>1 DEF Holds, Pending, writerVars
<1>8. \A k : \A i : Holds(ReaderBuffer, k, i) <=> buffer[ReaderBuffer][k] = {i}
  <2> SUFFICES ASSUME NEW k PROVE Pending(ReaderBuffer, k) = {}
    BY DEF Holds
  <2>1. ASSUME NEW w \in Pending(ReaderBuffer, k) PROVE FALSE
    <3>1. w \in Writer /\ wpc[w] \in Locked /\ state[w] = ReaderBuffer /\ rpc \in Owning
      BY <1>1, <2>1 DEF Pending, Locked, Owning
    <3> QED
      BY <1>2, <3>1, Alone
  <2> QED
    BY <2>1
<1>9. \E i \in accepted \ Delivered :
                 /\ Holds(ReaderBuffer, next, i) /\ buffer[ReaderBuffer][next] = {i}
                 /\ delivered' = Append(delivered, {i}) /\ Delivered' = Delivered \cup {i}
  <2>1. next \in Live(ReaderBuffer)
    BY <1>4, <1>5
  <2>2. PICK i \in accepted \ Delivered : Holds(ReaderBuffer, next, i)
    BY <1>2, <2>1 DEF Exact, Filled
  <2>3. buffer[ReaderBuffer][next] = {i}
    BY <1>8, <2>2
  <2>4. delivered' = Append(delivered, {i})
    BY <1>1, <2>3
  <2>5. Delivered' = Delivered \cup {i}
    BY <2>4, DeliveredAppend
  <2> QED
    BY <2>2, <2>3, <2>4, <2>5
<1>10. \A k \in Live(ReaderBuffer) : next <= k
  BY <1>3, <1>4
<1> QED
  BY <1>1, <1>2, <1>3, <1>4, <1>5, <1>6, <1>7, <1>8, <1>9, <1>10

\* ... so it keeps all of them as they were.
LEMMA DeliverExact ==
    ASSUME SafetyInv, ItemsOK, racers = {}, Exact, Deliver
    PROVE  Exact'
<1>t. TypeOK
  BY DEF SafetyInv, CountInv
<1>0. PICK r \in Buf, n \in Nat : r = ReaderBuffer /\ n = next
  BY CellRead
<1>1. /\ rpc = "reading" /\ rpc' = "reading" /\ ReaderBuffer' = r /\ n \in Live(r) /\ n \in Cell
      /\ statePtr' = statePtr /\ statePtr # r
      /\ UNCHANGED <<buffer, writerVars, accepted, due, racers>>
      /\ Live(r)' = Live(r) \ {n}
      /\ \A b \in Buf : b # r => Live(b)' = Live(b)
      /\ \A b, k : \A i : Holds(b, k, i)' <=> Holds(b, k, i)
  BY <1>0, CellRead
<1>2. PICK i0 \in accepted \ Delivered : Holds(r, n, i0) /\ Delivered' = Delivered \cup {i0}
  BY <1>0, CellRead
<1>3. \A b \in Buf : Live(b)' \subseteq Live(b) /\ Live(b) \subseteq Cell
  BY <1>1, Alone
<1>4. Cell \subseteq Nat
  BY QueueAssumption DEF Cell
<1>5. Filled'
  <2> SUFFICES ASSUME NEW b \in Buf, NEW k \in Live(b)'
               PROVE  \E i \in accepted' \ Delivered' : Holds(b, k, i)'
    BY DEF Filled
  <2>1. PICK i \in accepted \ Delivered : Holds(b, k, i)
    BY <1>3 DEF Exact, Filled
  <2>2. ASSUME i = i0 PROVE FALSE
    <3>1. k \in Live(b) /\ k \in Nat
      BY <1>3, <1>4
    <3>2. b = r /\ k = n
      BY <1>t, <1>1, <1>2, <2>1, <2>2, <3>1, HeldOnce
    <3> QED
      BY <1>1, <3>2
  <2> QED
    BY <1>1, <1>2, <2>1, <2>2
<1>6. Placed'
  <2> SUFFICES ASSUME NEW i \in accepted' \ Delivered'
               PROVE  \E b \in Buf : \E k \in Live(b)' : Holds(b, k, i)'
    BY DEF Placed
  <2>1. i \in accepted \ Delivered /\ i # i0
    BY <1>1, <1>2
  <2>2. PICK b \in Buf : \E k \in Live(b) : Holds(b, k, i)
    BY <2>1 DEF Exact, Placed
  <2>3. PICK k \in Live(b) : Holds(b, k, i)
    BY <2>2
  <2>4. ~(b = r /\ k = n)
    BY <1>1, <1>2, <2>1, <2>3, HoldsOne
  <2>5. k \in Live(b)'
    BY <1>1, <2>4
  <2> QED
    BY <1>1, <2>3, <2>5
<1>7. Ordered'
  <2> SUFFICES ASSUME NEW b \in Buf, NEW c \in Buf, NEW k \in Live(b)', NEW l \in Live(c)',
                      (b = c /\ k < l) \/ (b # statePtr /\ c = statePtr),
                      NEW i \in accepted, NEW j \in accepted,
                      Holds(b, k, i)', Holds(c, l, j)', i[1] = j[1]
               PROVE  i[2] < j[2]
    BY <1>1 DEF Ordered
  <2>1. k \in Live(b) /\ l \in Live(c) /\ Holds(b, k, i) /\ Holds(c, l, j)
    BY <1>1, <1>3
  <2> QED
    BY <2>1 DEF Exact, Ordered
<1>8. Behind'
  <2>1. statePtr \in Buf
    BY <1>t DEF TypeOK
  <2>2. Live(statePtr)' = Live(statePtr)
    BY <1>1, <2>1
  <2> QED
    BY <1>1, <2>2 DEF Exact, Behind, writerVars
<1>9. Covering'
  BY <1>1 DEF Exact, Covering, writerVars
<1>10. DueKept' /\ Emptied'
  BY <1>1 DEF DueKept, Emptied
<1> QED
  BY <1>5, <1>6, <1>7, <1>8, <1>9, <1>10 DEF Exact

\* At the beginning there is nothing to be read.
LEMMA DeliveryInvInit == DeliveryInit => DeliveryInv
<1> SUFFICES ASSUME DeliveryInit PROVE DeliveryInv
  OBVIOUS
<1>1. SafetyInv
  BY SafetyInit DEF DeliveryInit
<1>2. ItemsOK
  BY ItemsInit
<1>3. \A b \in Buf : Live(b) = {}
  <2>1. 0 .. Shrunk(0) - 1 = {}
    BY QueueAssumption
  <2> QED
    BY <2>1 DEF DeliveryInit, Init, Live
<1>4. Filled /\ Ordered
  BY <1>3 DEF Filled, Ordered
<1>5. Placed /\ Behind /\ Covering /\ DueKept /\ Emptied
  BY DEF DeliveryInit, Init, Placed, Behind, Covering, DueKept, Emptied
<1> QED
  BY <1>1, <1>2, <1>4, <1>5 DEF DeliveryInv, Exact

\* A call that raced once has raced for ever.
LEMMA RacersGrow == [DeliveryNext]_deliveryVars => racers \subseteq racers'
<1> SUFFICES ASSUME [DeliveryNext]_deliveryVars PROVE racers \subseteq racers'
  OBVIOUS
<1>1. ASSUME NEW w \in Writer, Lock(w) PROVE racers \subseteq racers'
  BY <1>1 DEF Lock
<1>2. ASSUME NEW w \in Writer, Call(w) \/ Claim(w) \/ Copy(w) \/ Succeed(w) \/ Fail(w)
      PROVE racers \subseteq racers'
  BY <1>2 DEF Call, Claim, Copy, Succeed, Fail, history
<1>3. CASE StartSwap \/ Deliver \/ SwapOrRead
  BY <1>3 DEF StartSwap, Deliver, SwapOrRead, history
<1>4. CASE UNCHANGED deliveryVars
  BY <1>4 DEF deliveryVars, history
<1> QED
  BY <1>1, <1>2, <1>3, <1>4 DEF DeliveryNext

\* Every step keeps what is to be read exact, until a call races.
LEMMA DeliveryStep == DeliveryInv /\ [DeliveryNext]_deliveryVars => DeliveryInv'
<1> SUFFICES ASSUME DeliveryInv, [DeliveryNext]_deliveryVars PROVE DeliveryInv'
  OBVIOUS
<1>i. SafetyInv /\ ItemsOK
  BY DEF DeliveryInv
<1>1. SafetyInv'
  BY <1>i, QueueSteps, SafetyStep
<1>2. ItemsOK'
  BY <1>i, ItemsStep DEF SafetyInv
<1>3. ASSUME racers' = {} PROVE Exact'
  <2>0. racers = {} /\ Exact
    BY <1>3, RacersGrow DEF DeliveryInv
  <2>1. ASSUME NEW w \in Writer, Call(w) \/ Lock(w) PROVE Exact'
    BY <1>i, <2>0, <2>1, EarlyExact
  <2>2. ASSUME NEW w \in Writer, Claim(w) PROVE Exact'
    <3>1. CASE HasRoom(w)'
      BY <1>i, <2>0, <2>2, <3>1, ClaimExact
    <3>2. CASE ~HasRoom(w)'
      BY <1>i, <2>0, <2>2, <3>2, FullExact
    <3> QED
      BY <3>1, <3>2
  <2>3. ASSUME NEW w \in Writer, Copy(w) PROVE Exact'
    BY <1>i, <2>0, <2>3, BeginCopyExact, EndCopyExact DEF Copy
  <2>4. ASSUME NEW w \in Writer, Succeed(w) \/ Fail(w) PROVE Exact'
    BY <1>i, <2>0, <2>4, ReturnExact
  <2>5. CASE StartSwap
    BY <1>i, <2>0, <2>5, StartSwapExact
  <2>6. CASE Deliver
    BY <1>i, <2>0, <2>6, DeliverExact
  <2>7. CASE SwapOrRead
    BY <1>i, <2>0, <2>7, ReaderExact
  <2>8. CASE UNCHANGED deliveryVars
    <3>1. UNCHANGED <<statePtr, length, buffer, wpc, state, index, val, covered, rpc, size, next,
                      accepted, due, delivered>>
      BY <2>8 DEF deliveryVars, vars, history, writerVars, readerVars
    <3>2. \A b, k : \A i : Holds(b, k, i)' <=> Holds(b, k, i)
      BY <3>1 DEF Holds, Pending
    <3>3. SameCells /\ SameItems
      BY <3>1, <3>2 DEF SameCells, SameItems, Live
    <3>4. TypeOK /\ Covering' /\ Emptied'
      BY <1>i, <2>0, <3>1 DEF SafetyInv, CountInv, Exact, Covering, Emptied, ReaderBuffer
    <3> QED
      BY <2>0, <3>1, <3>3, <3>4, ExactKept
  <2> QED
    BY <2>1, <2>2, <2>3, <2>4, <2>5, <2>6, <2>7, <2>8 DEF DeliveryNext
<1> QED
  BY <1>1, <1>2, <1>3 DEF DeliveryInv

-----------------------------------------------------------------------------
(***************************************************************************)
(* Each step of the queue is one of the channel, or none.                  *)
(***************************************************************************)

\* Nothing has raced, and the reader reads.
BeingRead == SafetyInv /\ ItemsOK /\ racers = {} /\ Exact /\ rpc = "reading"
\* What is handed over and not yet delivered: one item per cell that is still to be read.
UnreadOK ==
    /\ \A i : i \in Unread <=> \E k \in Live(ReaderBuffer) : buffer[ReaderBuffer][k] = {i}
    /\ \A k : \A i : Holds(ReaderBuffer, k, i) <=> buffer[ReaderBuffer][k] = {i}
    /\ Unread \subseteq accepted \ Delivered

\* While nothing has raced, each of these cells has one item, which is due to be delivered.
LEMMA UnreadItems == BeingRead => UnreadOK
<1> SUFFICES ASSUME SafetyInv, ItemsOK, racers = {}, Exact, rpc = "reading" PROVE UnreadOK
  BY DEF BeingRead
<1>t. TypeOK
  BY DEF SafetyInv, CountInv
<1>1. PICK r \in Buf : r = ReaderBuffer /\ r # statePtr
  BY <1>t, BufFacts DEF TypeOK, ReaderBuffer
<1>2. Live(r) = next .. size - 1 /\ Unread = UNION {buffer[r][i] : i \in Live(r)}
  BY <1>1 DEF Live, Unread
<1>3. \A k : \A i : Holds(r, k, i) <=> buffer[r][k] = {i}
  <2> SUFFICES ASSUME NEW k PROVE Pending(r, k) = {}
    BY DEF Holds
  <2>1. ASSUME NEW w \in Pending(r, k) PROVE FALSE
    <3>1. w \in Writer /\ wpc[w] \in Locked /\ state[w] = r /\ rpc \in Owning
      BY <1>1, <2>1 DEF Pending, Locked, Owning
    <3> QED
      BY <1>1, <3>1, Alone
  <2> QED
    BY <2>1
<1>4. \A k \in Live(r) : \E i \in accepted \ Delivered : buffer[r][k] = {i}
  BY <1>3 DEF Exact, Filled
<1>5. ASSUME NEW i \in Unread
      PROVE  i \in accepted \ Delivered /\ \E k \in Live(r) : buffer[r][k] = {i}
  <2>1. PICK c \in {buffer[r][k] : k \in Live(r)} : i \in c
    BY <1>2, <1>5
  <2>2. PICK k \in Live(r) : c = buffer[r][k]
    BY <2>1
  <2> QED
    BY <1>4, <2>1, <2>2
<1>6. ASSUME NEW i, NEW k \in Live(r), buffer[r][k] = {i} PROVE i \in Unread
  BY <1>2, <1>6
<1> QED
  BY <1>1, <1>3, <1>5, <1>6 DEF UnreadOK

\* A step of a call leaves it alone, since no call writes a cell that is being read.
LEMMA UnreadKept ==
    ASSUME SafetyInv, ItemsOK, racers = {},
           UNCHANGED <<statePtr, readerVars>>,
           \A b \in Buf : (\A w \in Writer : wpc[w] \in Locked => state[w] # b)
                          => buffer'[b] = buffer[b]
    PROVE  Unread' = Unread /\ Phase' = Phase
<1>1. TypeOK /\ rpc' = rpc /\ size' = size /\ next' = next /\ ReaderBuffer' = ReaderBuffer
  BY DEF SafetyInv, CountInv, readerVars, ReaderBuffer
<1>2. ASSUME rpc = "reading" PROVE buffer'[ReaderBuffer] = buffer[ReaderBuffer]
  <2>1. ReaderBuffer \in Buf /\ ReaderBuffer # statePtr /\ rpc \in Owning
    BY <1>1, <1>2, BufFacts DEF TypeOK, ReaderBuffer, Owning
  <2> QED
    BY <2>1, Alone
<1>3. Phase' = Phase
  BY <1>1 DEF Phase
<1> QED
  BY <1>1, <1>2, <1>3 DEF Unread

\* The steps of a call.
LEMMA CallStutters ==
    ASSUME SafetyInv, ItemsOK, racers = {}, racers' = {}, NEW w \in Writer,
           Call(w) \/ Lock(w) \/ Copy(w) \/ Fail(w)
    PROVE  UNCHANGED Channel!vars
<1>t. TypeOK
  BY DEF SafetyInv, CountInv
<1>1. /\ UNCHANGED <<statePtr, readerVars, accepted, returned, due, delivered>>
      /\ racers' = racers
      /\ buffer' = buffer \/ (wpc[w] \in Locked /\ state[w] \in Buf
                              /\ \A b \in Buf : b # state[w] => buffer'[b] = buffer[b])
  BY <1>t DEF Call, LoadState, Lock, TakeLock, Copy, BeginCopy, EndCopy, Fail, ReturnFalse, Unlock,
              history, TypeOK, Locked
<1>2. Unread' = Unread /\ Phase' = Phase
  BY <1>1, UnreadKept
<1> QED
  BY <1>1, <1>2 DEF Channel!vars

\* The claim of a cell.
LEMMA ClaimAccepts ==
    ASSUME SafetyInv, ItemsOK, racers = {}, racers' = {}, NEW w \in Writer, Claim(w)
    PROVE  [Channel!Next]_(Channel!vars)
<1>1. /\ wpc[w] = "locked" /\ UNCHANGED <<statePtr, readerVars, buffer, returned, due, delivered>>
      /\ accepted' = IF HasRoom(w)' THEN accepted \cup {val[w]} ELSE accepted
      /\ racers' = racers
  BY DEF Claim, ClaimIndex
<1>2. Unread' = Unread /\ Phase' = Phase
  BY <1>1, UnreadKept
<1>3. CASE HasRoom(w)'
  <2>1. val[w] \in Item /\ val[w] = <<w, calls[w]>> /\ calls[w] \in Nat
    BY <1>1 DEF ItemsOK
  <2>2. val[w] \notin accepted
    <3>1. ASSUME val[w] \in accepted PROVE FALSE
      <4>1. calls[w] < calls[w]
        BY <1>1, <2>1, <3>1 DEF ItemsOK
      <4> QED
        BY <2>1, <4>1
    <3> QED
      BY <3>1
  <2>3. Channel!Accept(val[w])
    BY <1>1, <1>2, <1>3, <2>2 DEF Channel!Accept
  <2> QED
    BY <2>1, <2>3 DEF Channel!Next
<1>4. CASE ~HasRoom(w)'
  <2>1. UNCHANGED Channel!vars
    BY <1>1, <1>2, <1>4 DEF Channel!vars
  <2> QED
    BY <2>1
<1> QED
  BY <1>3, <1>4

\* The return of true.
LEMMA SucceedReturns ==
    ASSUME SafetyInv, ItemsOK, racers = {}, racers' = {}, NEW w \in Writer, Succeed(w)
    PROVE  Channel!Next
<1>1. /\ wpc[w] = "copied" /\ UNCHANGED <<statePtr, readerVars, buffer, accepted, due, delivered>>
      /\ returned' = returned \cup {val[w]} /\ racers' = racers
  BY DEF Succeed, ReturnTrue, Unlock
<1>2. Unread' = Unread /\ Phase' = Phase
  BY <1>1, UnreadKept
<1>3. val[w] \in accepted /\ val[w] \notin returned /\ val[w] \in Item
  BY <1>1 DEF ItemsOK, Placing
<1>4. Channel!Return(val[w])
  BY <1>1, <1>2, <1>3 DEF Channel!Return
<1> QED
  BY <1>3, <1>4 DEF Channel!Next

\* The store of the pointer.
LEMMA StoreStarts ==
    ASSUME racers' = racers, StartSwap
    PROVE  Channel!Next
<1>1. /\ rpc = "cleared" /\ rpc' = "waiting" /\ due' = returned \ Delivered
      /\ UNCHANGED <<accepted, returned, delivered>>
  BY DEF StartSwap, StorePointer
<1>2. Unread = {} /\ Unread' = {} /\ Phase = "idle" /\ Phase' = "swapping"
  BY <1>1 DEF Unread, Phase
<1>3. Channel!StartSwap
  BY <1>1, <1>2 DEF Channel!StartSwap, Channel!Delivered, Delivered
<1> QED
  BY <1>3 DEF Channel!Next

\* The reading of a cell.
LEMMA ReadDelivers ==
    ASSUME SafetyInv, ItemsOK, racers = {}, Exact, Deliver
    PROVE  Channel!Next
<1>t. TypeOK
  BY DEF SafetyInv, CountInv
<1>0. PICK r \in Buf, n \in Nat : r = ReaderBuffer /\ n = next
  BY CellRead
<1>1. /\ rpc = "reading" /\ rpc' = "reading" /\ ReaderBuffer' = r /\ n \in Live(r)
      /\ statePtr' = statePtr /\ statePtr # r /\ buffer' = buffer
      /\ UNCHANGED <<accepted, returned, due>> /\ racers' = racers
      /\ Live(r)' = Live(r) \ {n} /\ \A k \in Live(r) : n <= k
  BY <1>0, CellRead
<1>2. PICK i0 \in accepted \ Delivered :
         /\ Holds(r, n, i0) /\ buffer[r][n] = {i0} /\ delivered' = Append(delivered, {i0})
  BY <1>0, CellRead
<1>3. /\ \A i : i \in Unread <=> \E k \in Live(r) : buffer[r][k] = {i}
      /\ \A k : \A i : Holds(r, k, i) <=> buffer[r][k] = {i}
      /\ Unread \subseteq accepted
  BY <1>0, <1>1, UnreadItems DEF BeingRead, UnreadOK
<1>4. Live(r) \subseteq Nat
  BY Alone, QueueAssumption DEF Cell
<1>5. Phase = "reading" /\ Phase' = "reading"
  BY <1>1 DEF Phase
<1>6. i0 \in Unread /\ i0 \in Item /\ i0[2] \in Nat
  BY <1>1, <1>2, <1>3 DEF ItemsOK
<1>7. \A j \in Unread : ~Precedes(j, i0)
  <2> SUFFICES ASSUME NEW j \in Unread, Precedes(j, i0) PROVE FALSE
    OBVIOUS
  <2>1. PICK k \in Live(r) : buffer[r][k] = {j} /\ Holds(r, k, j)
    BY <1>3
  <2>2. j[1] = i0[1] /\ j[2] < i0[2] /\ j \in accepted /\ j[2] \in Nat
    BY <1>3 DEF Precedes, ItemsOK
  <2>3. ASSUME k = n PROVE FALSE
    <3>1. j = i0
      BY <1>2, <2>1, <2>3
    <3>2. ~(j[2] < j[2])
      BY <2>2
    <3> QED
      BY <2>2, <3>1, <3>2
  <2>4. CASE n < k
    <3>1. i0[2] < j[2]
      BY <1>1, <1>2, <2>1, <2>2, <2>4 DEF Exact, Ordered
    <3> QED
      BY <1>6, <2>2, <3>1
  <2> QED
    BY <1>0, <1>1, <1>4, <2>3, <2>4
<1>8. Unread' = Unread \ {i0}
  <2>1. Unread' = UNION {buffer[r][k] : k \in Live(r)'}
    BY <1>1 DEF Unread, Live
  <2>2. ASSUME NEW i \in Unread' PROVE i \in Unread /\ i # i0
    <3>1. PICK c \in {buffer[r][k] : k \in Live(r)'} : i \in c
      BY <2>1, <2>2
    <3>2. PICK k \in Live(r)' : c = buffer[r][k]
      BY <3>1
    <3>3. k \in Live(r) /\ k # n
      BY <1>1, <3>2
    <3>4. PICK j \in accepted : buffer[r][k] = {j} /\ Holds(r, k, j)
      BY <1>3, <3>3 DEF Exact, Filled
    <3>5. i = j /\ i \in Unread
      BY <1>3, <3>1, <3>2, <3>3, <3>4
    <3>6. i # i0
      BY <1>t, <1>0, <1>1, <1>2, <1>4, <3>3, <3>4, <3>5, HeldOnce
    <3> QED
      BY <3>5, <3>6
  <2>3. ASSUME NEW i \in Unread, i # i0 PROVE i \in Unread'
    <3>1. PICK k \in Live(r) : buffer[r][k] = {i}
      BY <1>3, <2>3
    <3>2. k \in Live(r)'
      BY <1>1, <1>2, <2>3, <3>1
    <3> QED
      BY <2>1, <3>1, <3>2
  <2> QED
    BY <2>2, <2>3
<1>9. Channel!Deliver(i0)
  BY <1>1, <1>2, <1>5, <1>6, <1>7, <1>8 DEF Channel!Deliver
<1> QED
  BY <1>6, <1>9 DEF Channel!Next

\* The handing over of a buffer.
LEMMA GetSizeHandsOver ==
    ASSUME SafetyInv, SafetyInv', ItemsOK, ItemsOK', racers = {}, racers' = {}, Exact, Exact',
           GetSize, UNCHANGED history
    PROVE  Channel!Next
<1>t. TypeOK
  BY DEF SafetyInv, CountInv
<1>0. PICK r \in Buf, p \in Buf : /\ r = ReaderBuffer /\ p = statePtr /\ r # p
                                  /\ \A b \in Buf : b = p \/ b = r
  <2>1. statePtr \in Buf
    BY <1>t DEF TypeOK
  <2> QED
    BY <2>1, BufFacts DEF ReaderBuffer
<1>1. /\ rpc = "owned" /\ rpc' = "reading" /\ ReaderBuffer' = r /\ statePtr' = statePtr
      /\ next' = 0 /\ size' = Shrunk(length[r])
      /\ UNCHANGED <<buffer, length, wpc, state, index, val>>
      /\ UNCHANGED <<accepted, returned, due, delivered, racers>>
  BY <1>0 DEF GetSize, ReaderBuffer, history, writerVars
<1>2. Live(r) = 0 .. Shrunk(length[r]) - 1 /\ Live(r)' = Live(r)
  BY <1>0, <1>1 DEF Live
<1>3. Unread = {} /\ Phase = "swapping" /\ Phase' = "reading" /\ Delivered' = Delivered
  BY <1>1 DEF Unread, Phase, Delivered
<1>4. \A b, k : \A i : Holds(b, k, i)' <=> Holds(b, k, i)
  BY <1>1 DEF Holds, Pending
<1>5. /\ \A i : i \in Unread' <=> \E k \in Live(r) : buffer[r][k] = {i}
      /\ \A k : \A i : Holds(r, k, i) <=> buffer[r][k] = {i}
      /\ Unread' \subseteq accepted \ Delivered
  <2>1. /\ \A i : i \in Unread' <=> \E k \in Live(ReaderBuffer)' : buffer'[ReaderBuffer'][k] = {i}
        /\ \A k : \A i : Holds(ReaderBuffer, k, i)' <=> buffer'[ReaderBuffer'][k] = {i}
        /\ Unread' \subseteq accepted' \ Delivered'
    <3>1. BeingRead'
      BY <1>1 DEF BeingRead
    <3>2. UnreadOK'
      BY <3>1, UnreadItems, PTL
    <3> QED
      BY <3>2 DEF UnreadOK
  <2>2. /\ Live(ReaderBuffer)' = Live(r)
        /\ \A k : \A i : Holds(ReaderBuffer, k, i)' <=> Holds(r, k, i)
    BY <1>0, <1>1, <1>2, <1>4 DEF Live, Holds, Pending
  <2> QED
    BY <1>1, <1>3, <2>1, <2>2
<1>6. Channel!Waiting = accepted \ Delivered
  BY <1>3 DEF Channel!Waiting, Channel!Delivered, Delivered
<1>7. due \subseteq Unread'
  BY <1>0, <1>1, <1>5 DEF Exact, DueKept
<1>8. ASSUME NEW i \in Unread', NEW j \in accepted \ Delivered, Precedes(j, i)
      PROVE  j \in Unread'
  <2>1. PICK k \in Live(r) : Holds(r, k, i)
    BY <1>5
  <2>2. PICK b \in Buf : \E l \in Live(b) : Holds(b, l, j)
    BY DEF Exact, Placed
  <2>3. PICK l \in Live(b) : Holds(b, l, j)
    BY <2>2
  <2>4. ASSUME b = p PROVE FALSE
    <3>1. i \in accepted /\ i[1] = j[1] /\ j[2] < i[2]
      BY <1>5, <1>8 DEF Precedes
    <3>2. i[2] < j[2]
      BY <1>0, <2>1, <2>3, <2>4, <3>1 DEF Exact, Ordered
    <3>3. i[2] \in Nat /\ j[2] \in Nat
      BY <3>1 DEF ItemsOK
    <3> QED
      BY <3>1, <3>2, <3>3
  <2> QED
    BY <1>0, <1>5, <2>3, <2>4
<1>9. Cardinality(Unread') <= MaxSize
  <2> DEFINE n == Shrunk(length[r])
             f == [k \in 0 .. n - 1 |-> CHOOSE i : buffer[r][k] = {i}]
  <2>1. n \in Nat /\ n <= MaxSize
    <3>1. length[r] \in Nat /\ MaxSize \in Nat
      BY <1>t, QueueAssumption DEF TypeOK, Length
    <3> QED
      BY <3>1
  <2>2. \A k \in 0 .. n - 1 : buffer[r][k] = {f[k]} /\ f[k] \in Unread'
    <3> TAKE k \in 0 .. n - 1
    <3>1. k \in Live(r)
      BY <1>2
    <3>2. \E i : buffer[r][k] = {i}
      BY <1>5, <3>1 DEF Exact, Filled
    <3>3. buffer[r][k] = {f[k]}
      BY <3>2
    <3> QED
      BY <1>5, <3>1, <3>3
  <2>3. \A i \in Unread' : \E k \in 0 .. n - 1 : f[k] = i
    <3> TAKE i \in Unread'
    <3>1. PICK k \in Live(r) : buffer[r][k] = {i}
      BY <1>5
    <3>2. k \in 0 .. n - 1
      BY <1>2
    <3>3. {f[k]} = {i}
      BY <2>2, <3>1, <3>2
    <3> QED
      BY <3>2, <3>3
  <2>4. f \in [0 .. n - 1 -> Unread']
    BY <2>2
  <2>5. f \in Surjection(0 .. n - 1, Unread')
    BY <2>3, <2>4 DEF Surjection
  <2> HIDE DEF f, n
  <2>6. IsFiniteSet(0 .. n - 1) /\ Cardinality(0 .. n - 1) = n
    BY <2>1, FS_Interval
  <2>7. IsFiniteSet(Unread') /\ Cardinality(Unread') <= n
    BY <2>5, <2>6, FS_Surjection
  <2>8. Cardinality(Unread') \in Nat
    BY <2>7, FS_CardinalityType
  <2> QED
    BY <2>1, <2>7, <2>8, QueueAssumption
<1>10. Unread' \in SUBSET Channel!Waiting
  BY <1>5, <1>6
<1>11. Channel!HandOver(Unread')
  <2>1. Channel!Cardinality(Unread') <= MaxSize
    BY <1>9 DEF Cardinality, Channel!Cardinality
  <2> QED
    BY <1>1, <1>3, <1>6, <1>7, <1>8, <1>10, <2>1 DEF Channel!HandOver
<1> QED
  BY <1>10, <1>11 DEF Channel!Next

\* The other steps of the reader.
LEMMA ReaderStutters ==
    ASSUME SafetyInv, ResetLength \/ WaitWriters \/ EndRead, UNCHANGED history
    PROVE  [Channel!Next]_(Channel!vars)
<1>t. TypeOK
  BY DEF SafetyInv, CountInv
<1>0. UNCHANGED <<accepted, returned, due, delivered, racers>>
  BY DEF history
<1>1. CASE ResetLength \/ WaitWriters
  <2>1. Unread' = Unread /\ Phase' = Phase
    BY <1>1 DEF ResetLength, WaitWriters, Unread, Phase
  <2> QED
    BY <1>0, <2>1 DEF Channel!vars
<1>2. CASE EndRead
  <2>1. rpc = "reading" /\ rpc' = "out" /\ next = size /\ size \in Nat
    BY <1>t, <1>2 DEF EndRead, TypeOK
  <2>2. next .. size - 1 = {}
    BY <2>1
  <2>3. Unread = {} /\ Unread' = {} /\ Phase = "reading" /\ Phase' = "idle"
    BY <2>1, <2>2 DEF Unread, Phase
  <2>4. Channel!EndBatch
    BY <1>0, <2>3 DEF Channel!EndBatch
  <2> QED
    BY <2>4 DEF Channel!Next
<1> QED
  BY <1>1, <1>2

\* What is accepted, returned and delivered once stays so, race or not.
LEMMA HistoryGrows ==
    ASSUME CountInv, ItemsOK, DeliveryNext
    PROVE  /\ accepted \subseteq accepted' /\ returned \subseteq returned'
           /\ \/ delivered' = delivered
              \/ \E c \in SUBSET accepted' : delivered' = Append(delivered, c)
<1>1. ASSUME NEW w \in Writer, Call(w) \/ Lock(w) \/ Claim(w) \/ Copy(w) \/ Succeed(w) \/ Fail(w)
      PROVE  accepted \subseteq accepted' /\ returned \subseteq returned' /\ delivered' = delivered
  BY <1>1 DEF Call, Lock, Claim, Copy, Succeed, Fail, history
<1>2. CASE StartSwap \/ SwapOrRead
  BY <1>2 DEF StartSwap, SwapOrRead, history
<1>3. CASE Deliver
  <2>1. /\ delivered' = Append(delivered, buffer[ReaderBuffer][next]) /\ next < size
        /\ UNCHANGED <<accepted, returned>>
    BY <1>3 DEF Deliver, ReadCell
  <2>2. TypeOK
    BY DEF CountInv
  <2>3. ReaderBuffer \in Buf /\ next \in Cell
    BY <2>1, <2>2, BufFacts DEF TypeOK, ReaderBuffer, Cell
  <2> QED
    BY <2>1, <2>3 DEF ItemsOK
<1> QED
  BY <1>1, <1>2, <1>3 DEF DeliveryNext

\* Every step of the queue is one of the channel, or leaves it alone.
LEMMA ChannelStep ==
    DeliveryInv /\ DeliveryInv' /\ [DeliveryNext]_deliveryVars => [Channel!Next]_(Channel!vars)
<1> SUFFICES ASSUME DeliveryInv, DeliveryInv', [DeliveryNext]_deliveryVars
             PROVE  [Channel!Next]_(Channel!vars)
  OBVIOUS
<1>i. SafetyInv /\ ItemsOK /\ SafetyInv' /\ ItemsOK' /\ CountInv
  BY DEF DeliveryInv, SafetyInv
<1>1. CASE UNCHANGED deliveryVars
  <2>1. UNCHANGED <<accepted, returned, due, delivered, racers, rpc, next, size, buffer, statePtr>>
    BY <1>1 DEF deliveryVars, vars, history, readerVars
  <2> QED
    BY <2>1 DEF Channel!vars, Unread, Phase, ReaderBuffer
<1>2. CASE DeliveryNext /\ racers' # {}
  <2>1. Channel!Disturbed
    BY <1>i, <1>2, HistoryGrows DEF Channel!Disturbed, ItemsOK
  <2> QED
    BY <2>1 DEF Channel!Next
<1>3. CASE DeliveryNext /\ racers' = {}
  <2>0. racers = {} /\ Exact /\ Exact' /\ racers' = {} /\ racers' = racers
    BY <1>3, RacersGrow DEF DeliveryInv
  <2>1. ASSUME NEW w \in Writer, Call(w) \/ Lock(w) \/ Copy(w) \/ Fail(w)
        PROVE  UNCHANGED Channel!vars
    BY <1>i, <2>0, <2>1, CallStutters
  <2>2. ASSUME NEW w \in Writer, Claim(w) PROVE [Channel!Next]_(Channel!vars)
    BY <1>i, <2>0, <2>2, ClaimAccepts
  <2>3. ASSUME NEW w \in Writer, Succeed(w) PROVE Channel!Next
    BY <1>i, <2>0, <2>3, SucceedReturns
  <2>4. CASE StartSwap
    BY <2>0, <2>4, StoreStarts
  <2>5. CASE Deliver
    BY <1>i, <2>0, <2>5, ReadDelivers
  <2>6. CASE SwapOrRead
    BY <1>i, <2>0, <2>6, GetSizeHandsOver, ReaderStutters DEF SwapOrRead
  <2> QED
    BY <1>3, <2>1, <2>2, <2>3, <2>4, <2>5, <2>6 DEF DeliveryNext
<1> QED
  BY <1>1, <1>2, <1>3

\* Nothing is accepted and nothing has raced at the beginning.
LEMMA ChannelInit == DeliveryInit => Channel!Init
<1> SUFFICES ASSUME DeliveryInit PROVE Channel!Init
  OBVIOUS
<1>1. /\ rpc = "out" /\ accepted = {} /\ returned = {} /\ due = {} /\ delivered = <<>>
      /\ racers = {}
  BY DEF DeliveryInit, Init
<1>2. Unread = {} /\ Phase = "idle"
  BY <1>1 DEF Unread, Phase
<1> QED
  BY <1>1, <1>2 DEF Channel!Init

\* Whatever the number of writers, of cells and of appends: as long as no call slept through
\* a whole swap between the load of the pointer and the lock, each value that is accepted is
\* delivered once, in the order of its writer, by the first batch whose swap starts after
\* the append returned; and what a race leaves of the promise is kept after one.
THEOREM Promise == DeliverySpec => KeepsPromise
<1> QED
  BY DeliveryInvInit, DeliveryStep, ChannelInit, ChannelStep, PTL
  DEF DeliverySpec, KeepsPromise, Channel!Spec

-----------------------------------------------------------------------------
(***************************************************************************)
(* What a reader sees.  KeepsPromise speaks of each batch; together with   *)
(* the order in which a writer's items are accepted it gives the order of  *)
(* all that is ever delivered.                                             *)
(***************************************************************************)

\* Each step of the reader delivers one item, whole; it was not delivered before, and its writer
\* appended it after all those of its own that were.
Sequential ==
    /\ \A n \in DOMAIN delivered : \E i \in accepted : delivered[n] = {i}
    /\ \A m, n \in DOMAIN delivered : m < n =>
          \A i \in delivered[m], j \in delivered[n] : i # j /\ (i[1] = j[1] => i[2] < j[2])
\* What has been delivered was appended before what is still to come of its writer.
Passed == \A i \in Delivered, j \in accepted \ Delivered : i[1] = j[1] => i[2] < j[2]

\* Until a call races, the order in which values are delivered is that of their writers.
InWriterOrder == racers = {} => Sequential
OrderInv == racers = {} => Sequential /\ Passed

\* The next item to be accepted is the newest of its writer.
LEMMA AcceptedLast ==
    ASSUME ItemsOK, Passed, NEW w \in Writer, Claim(w)
    PROVE  Passed'
<1>1. /\ wpc[w] = "locked" /\ delivered' = delivered
      /\ accepted' = accepted \/ accepted' = accepted \cup {val[w]}
  BY DEF Claim, ClaimIndex
<1>2. val[w] = <<w, calls[w]>>
  BY <1>1 DEF ItemsOK
<1>3. Delivered' = Delivered /\ Delivered \subseteq accepted
  BY <1>1, DeliveredAccepted DEF Delivered
<1>4. \A i \in accepted : i[1] = w => i[2] < calls[w]
  BY <1>1 DEF ItemsOK
<1>5. \A i \in Delivered : i[1] = val[w][1] => i[2] < val[w][2]
  BY <1>2, <1>3, <1>4
<1> QED
  BY <1>1, <1>3, <1>5 DEF Passed

\* What is read is the oldest of its writer that was not read before.
LEMMA ReadOldest ==
    ASSUME SafetyInv, ItemsOK, racers = {}, Exact, Sequential, Passed, Deliver
    PROVE  Sequential' /\ Passed'
<1>0. PICK r \in Buf, n \in Nat : r = ReaderBuffer /\ n = next
  BY CellRead
<1>1. /\ statePtr # r /\ n \in Live(r) /\ n \in Cell /\ accepted' = accepted
      /\ \A k \in Live(r) : n <= k
  BY <1>0, CellRead
<1>2. PICK i0 \in accepted \ Delivered :
         /\ Holds(r, n, i0) /\ delivered' = Append(delivered, {i0})
         /\ Delivered' = Delivered \cup {i0}
  BY <1>0, CellRead
<1>3. ASSUME NEW j \in accepted \ Delivered, j # i0, j[1] = i0[1] PROVE i0[2] < j[2]
  <2>1. PICK b \in Buf : \E k \in Live(b) : Holds(b, k, j)
    BY DEF Exact, Placed
  <2>2. PICK k \in Live(b) : Holds(b, k, j)
    BY <2>1
  <2>3. CASE b = r
    <3>1. k # n
      BY <1>1, <1>2, <1>3, <2>2, <2>3, HoldsOne
    <3>2. k \in Nat /\ n <= k
      BY <1>1, <2>2, <2>3, Alone, QueueAssumption DEF Cell
    <3>3. n < k
      BY <1>0, <3>1, <3>2
    <3> QED
      BY <1>1, <1>2, <1>3, <2>2, <2>3, <3>3 DEF Exact, Ordered
  <2>4. CASE b # r
    <3>1. statePtr \in Buf /\ TypeOK
      BY DEF SafetyInv, CountInv, TypeOK
    <3>2. b = statePtr
      BY <1>0, <2>4, <3>1, BufFacts DEF ReaderBuffer
    <3> QED
      BY <1>1, <1>2, <1>3, <2>2, <3>2 DEF Exact, Ordered
  <2> QED
    BY <2>3, <2>4
<1>4. Passed'
  BY <1>1, <1>2, <1>3 DEF Passed
<1>5. delivered \in Seq(SUBSET accepted)
  BY DEF ItemsOK
<1>6. /\ Len(delivered) \in Nat /\ DOMAIN delivered = 1 .. Len(delivered)
      /\ DOMAIN delivered' = 1 .. Len(delivered) + 1
      /\ \A k \in 1 .. Len(delivered) : delivered'[k] = delivered[k]
      /\ delivered'[Len(delivered) + 1] = {i0}
  BY <1>2, <1>5
<1>7. ASSUME NEW m \in DOMAIN delivered, NEW i \in delivered[m]
      PROVE  i # i0 /\ (i[1] = i0[1] => i[2] < i0[2])
  <2>1. i \in Delivered
    BY <1>7 DEF Delivered
  <2> QED
    BY <1>2, <2>1 DEF Passed
<1>8. ASSUME NEW m \in DOMAIN delivered' PROVE \E i \in accepted' : delivered'[m] = {i}
  <2>1. CASE m \in DOMAIN delivered
    BY <1>1, <1>6, <2>1 DEF Sequential
  <2>2. CASE m \notin DOMAIN delivered
    BY <1>1, <1>2, <1>6, <2>2
  <2> QED
    BY <2>1, <2>2
<1>9. ASSUME NEW m \in DOMAIN delivered', NEW l \in DOMAIN delivered', m < l,
             NEW i \in delivered'[m], NEW j \in delivered'[l]
      PROVE  i # j /\ (i[1] = j[1] => i[2] < j[2])
  <2>1. m \in DOMAIN delivered /\ delivered'[m] = delivered[m]
    BY <1>6, <1>9
  <2>2. CASE l \in DOMAIN delivered
    BY <1>6, <1>9, <2>1, <2>2 DEF Sequential
  <2>3. CASE l \notin DOMAIN delivered
    <3>1. j = i0
      BY <1>6, <1>9, <2>3
    <3> QED
      BY <1>7, <1>9, <2>1, <3>1
  <2> QED
    BY <2>2, <2>3
<1> QED
  BY <1>4, <1>8, <1>9 DEF Sequential

\* At the beginning nothing is delivered.
LEMMA OrderInit == DeliveryInit => OrderInv
<1> SUFFICES ASSUME DeliveryInit PROVE Sequential /\ Passed
  BY DEF OrderInv
<1>1. DOMAIN delivered = {} /\ Delivered = {}
  BY DEF DeliveryInit, Delivered
<1> QED
  BY <1>1 DEF Sequential, Passed

\* Every step keeps the order, until a call races.
LEMMA OrderStep ==
    DeliveryInv /\ DeliveryInv' /\ OrderInv /\ [DeliveryNext]_deliveryVars => OrderInv'
<1> SUFFICES ASSUME DeliveryInv, OrderInv, [DeliveryNext]_deliveryVars, racers' = {}
             PROVE  Sequential' /\ Passed'
  BY DEF OrderInv
<1>1. SafetyInv /\ ItemsOK /\ racers = {} /\ Exact /\ Sequential /\ Passed
  BY RacersGrow DEF DeliveryInv, OrderInv
<1>2. ASSUME NEW w \in Writer, Claim(w) PROVE Sequential' /\ Passed'
  <2>1. delivered' = delivered /\ accepted \subseteq accepted'
    BY <1>2 DEF Claim
  <2>2. Sequential'
    BY <1>1, <2>1 DEF Sequential
  <2> QED
    BY <1>1, <1>2, <2>2, AcceptedLast
<1>3. CASE Deliver
  BY <1>1, <1>3, ReadOldest
<1>4. CASE UNCHANGED <<accepted, delivered>>
  BY <1>1, <1>4 DEF Sequential, Passed, Delivered
<1>5. ASSUME NEW w \in Writer, Call(w) \/ Lock(w) \/ Copy(w) \/ Succeed(w) \/ Fail(w)
      PROVE  UNCHANGED <<accepted, delivered>>
  BY <1>5 DEF Call, Lock, Copy, Succeed, Fail, history
<1>6. CASE StartSwap \/ SwapOrRead \/ UNCHANGED deliveryVars
  BY <1>4, <1>6 DEF StartSwap, SwapOrRead, deliveryVars, history
<1> QED
  BY <1>2, <1>3, <1>4, <1>5, <1>6 DEF DeliveryNext

\* Whatever the number of writers, of cells, of appends and of swaps: until a call has slept
\* through a whole swap between the load of the pointer and the lock, what the reader copies out
\* is one accepted value after the other, none twice, and those of one writer in the order
\* in which it appended them, over all batches.
THEOREM WriterOrder == DeliverySpec => []InWriterOrder
<1>1. OrderInv => InWriterOrder
  BY DEF OrderInv, InWriterOrder
<1> QED
  BY DeliveryInvInit, DeliveryStep, OrderInit, OrderStep, <1>1, PTL DEF DeliverySpec

-----------------------------------------------------------------------------
(***************************************************************************)
(* What a race costs: at most the value of the call that raced and one     *)
(* more.  A call that races threatens the cell it claimed before the       *)
(* reader reset the length (Threat): once the buffer is filled again, the  *)
(* call that is given that cell is its victim.  The cell is given to       *)
(* nobody else before the length is reset again, and by then the racer is  *)
(* gone: so there are no more victims (V) than racers charged with one     *)
(* (C).  Whatever else was returned is alone in a cell that is still to be *)
(* read, or was delivered alone.                                           *)
(***************************************************************************)

BeforeReset == rpc \in {"owned", "reading", "out"}
\* A call in a cell that is not of the current filling of its buffer, or will not be of the
\* next one.
Threat(x) == Placing(x) /\ (index[x] >= length[state[x]] \/ (state[x] = ReaderBuffer /\ BeforeReset))
\* The threats are racers that no victim was charged to, one in a cell.
Threats(C) ==
    /\ \A x \in Writer : Threat(x) => late[x] /\ val[x] \notin C
    /\ \A x, y \in Writer :
          Threat(x) /\ Threat(y) /\ state[x] = state[y] /\ index[x] = index[y] => x = y
    /\ \A x \in Writer :
          Placing(x) /\ state[x] = ReaderBuffer /\ BeforeReset => index[x] < length[state[x]]

\* A call has its cell to itself, and its copy leaves its value alone there.
Sharing(w, x) == Placing(w) /\ Placing(x) /\ state[w] = state[x] /\ index[w] = index[x]
Clear(w) ==
    /\ \A x \in Writer : x # w => ~Sharing(w, x)
    /\ wpc[w] = "copying" => buffer[state[w]][index[w]] \subseteq covered[w] \cup {val[w]}
    /\ wpc[w] = "copied" => buffer[state[w]][index[w]] = {val[w]}
AllClear(V) == \A w \in Writer : Placing(w) /\ ~late[w] /\ val[w] \notin V => Clear(w)

\* An item is alone in a cell that is still to be read and that nobody writes, or was
\* delivered alone.
Free(b, k) == \A x \in Writer : Placing(x) => state[x] # b \/ index[x] # k
Sits(b, i) == \E k \in Live(b) : buffer[b][k] = {i} /\ Free(b, k)
Whole(i) == \E n \in DOMAIN delivered : delivered[n] = {i}
ReturnedSafe(V) == \A i \in returned \ (V \cup racers) : Whole(i) \/ \E b \in Buf : Sits(b, i)
DueSafe(V) == \A i \in due \ (V \cup racers) : Whole(i) \/ Sits(ReaderBuffer, i)

Charged(V, C) ==
    /\ IsFiniteSet(V) /\ C \subseteq racers /\ C \subseteq accepted
    /\ Cardinality(V) <= Cardinality(C)
Spared(V, C) == Charged(V, C) /\ Threats(C) /\ AllClear(V) /\ ReturnedSafe(V) /\ DueSafe(V)

\* The racers are counted, and the reader reads no more than was claimed.
RacersOK ==
    /\ IsFiniteSet(racers)
    /\ \A w \in Writer : late[w] => wpc[w] \in Locked /\ val[w] \in racers
    /\ rpc = "reading" => size <= length[ReaderBuffer]

RaceInv == SafetyInv /\ ItemsOK /\ RacersOK /\ \E V, C : Spared(V, C)

-----------------------------------------------------------------------------
\* Nobody has raced at the beginning.
LEMMA RaceInit == DeliveryInit => RaceInv
<1> SUFFICES ASSUME DeliveryInit PROVE RaceInv
  OBVIOUS
<1>1. SafetyInv /\ ItemsOK
  BY SafetyInit, ItemsInit DEF DeliveryInit
<1>2. /\ \A w \in Writer : wpc[w] = "idle" /\ late[w] = FALSE
      /\ returned = {} /\ due = {} /\ racers = {} /\ rpc = "out"
  BY DEF DeliveryInit, Init
<1>3. RacersOK
  BY <1>2, FS_EmptySet DEF RacersOK
<1>4. Spared({}, {})
  <2>1. Charged({}, {})
    BY FS_EmptySet DEF Charged
  <2>2. \A w \in Writer : ~Placing(w)
    BY <1>2 DEF Placing
  <2> QED
    BY <1>2, <2>1, <2>2 DEF Spared, Threats, Threat, AllClear, ReturnedSafe, DueSafe
<1> QED
  BY <1>1, <1>3, <1>4 DEF RaceInv

\* A cell that was claimed in time is to be read.
LEMMA InTime ==
    ASSUME SafetyInv, NEW w \in Writer, Placing(w), ~late[w]
    PROVE  /\ state[w] \in Buf /\ index[w] \in Live(state[w])
           /\ state[w] = ReaderBuffer => rpc = "waiting"
<1>t. TypeOK
  BY DEF SafetyInv, CountInv
<1>1. wpc[w] \in Locked \ {"locked"} /\ wpc[w] \in Locked
  BY DEF Placing, Locked
<1>2. index[w] < length[state[w]]
  BY <1>1 DEF SafetyInv, ClaimedBelowLength, Placing
<1>3. /\ index[w] \in Nat /\ length[state[w]] \in Nat /\ index[w] < MaxSize
      /\ rpc \in Owning \cup {"waiting"} /\ state[w] \in Buf /\ statePtr \in Buf
  BY <1>t DEF TypeOK, Length, Placing, HasRoom
<1>4. index[w] \in 0 .. Shrunk(length[state[w]]) - 1
  BY <1>2, <1>3
<1>5. state[w] = ReaderBuffer => rpc = "waiting"
  BY <1>1, <1>3 DEF SafetyInv, ReaderOwns, Holders
<1>6. state[w] = statePtr \/ state[w] = ReaderBuffer
  BY <1>3, BufFacts DEF ReaderBuffer
<1> QED
  BY <1>3, <1>4, <1>5, <1>6 DEF Live

\* A cell that is to be read was claimed.
LEMMA LiveBelow ==
    ASSUME TypeOK, RacersOK, NEW b \in Buf, NEW k \in Live(b)
    PROVE  k \in Nat /\ k \in Cell /\ k < length[b]
<1>1. /\ length[b] \in Nat /\ size \in Nat /\ next \in Nat /\ size <= MaxSize
      /\ rpc \in Owning \cup {"waiting"} /\ statePtr \in Buf
  BY DEF TypeOK, Length
<1>2. CASE b = statePtr \/ rpc \in {"waiting", "owned"}
  <2>1. k \in 0 .. Shrunk(length[b]) - 1
    BY <1>2 DEF Live
  <2> QED
    BY <1>1, <2>1 DEF Cell
<1>3. CASE ~(b = statePtr \/ rpc \in {"waiting", "owned"})
  <2>1. rpc = "reading" /\ k \in next .. size - 1
    BY <1>3 DEF Live
  <2>2. b = ReaderBuffer
    BY <1>1, <1>3, BufFacts DEF ReaderBuffer
  <2>3. size <= length[b]
    BY <2>1, <2>2 DEF RacersOK
  <2> QED
    BY <1>1, <2>1, <2>3 DEF Cell
<1> QED
  BY <1>2, <1>3

-----------------------------------------------------------------------------
\* A step in which calls only leave their cells, or stay as they are.
CallsStay ==
    \A x \in Writer : Placing(x)' =>
        /\ Placing(x) /\ wpc'[x] = wpc[x] /\ state'[x] = state[x] /\ index'[x] = index[x]
        /\ late'[x] = late[x] /\ val'[x] = val[x] /\ covered'[x] = covered[x]

\* It leaves every call clear, and every item where it is.
LEMMA StayClear ==
    ASSUME CallsStay, buffer' = buffer, NEW V, AllClear(V)
    PROVE  /\ AllClear(V)'
           /\ \A b, k : Free(b, k) => Free(b, k)'
<1>1. AllClear(V)'
  <2> SUFFICES ASSUME NEW w \in Writer, Placing(w)', ~late'[w], val'[w] \notin V
               PROVE  Clear(w)'
    BY DEF AllClear
  <2>1. Clear(w)
    BY DEF CallsStay, AllClear
  <2> QED
    BY <2>1 DEF CallsStay, Clear, Sharing
<1>2. \A b, k : Free(b, k) => Free(b, k)'
  BY DEF CallsStay, Free
<1> QED
  BY <1>1, <1>2

\* If the cells to be read stay, so do the items in them.
LEMMA StaySits ==
    ASSUME NEW b, buffer' = buffer, \A k : Free(b, k) => Free(b, k)', Live(b) \subseteq Live(b)',
           NEW i, Sits(b, i)
    PROVE  Sits(b, i)'
BY DEF Sits

\* It makes no new threat, if the reader does not.
LEMMA StayThreats ==
    ASSUME CallsStay, NEW C, Threats(C),
           \A x \in Writer : Placing(x) /\ Placing(x)' =>
              /\ \/ length'[state[x]] = length[state[x]]
                 \/ state[x] = ReaderBuffer /\ BeforeReset /\ ~BeforeReset'
              /\ state[x] = ReaderBuffer' /\ BeforeReset' => state[x] = ReaderBuffer /\ BeforeReset
    PROVE  Threats(C)'
<1>1. \A x \in Writer : Threat(x)' => Threat(x)
  BY DEF CallsStay, Threat
<1>2. \A x \in Writer : Threat(x)' => Placing(x)'
  BY DEF Threat
<1>3. \A x \in Writer : Threat(x)' => late'[x] /\ val'[x] \notin C
  BY <1>1, <1>2 DEF CallsStay, Threats
<1>4. \A x, y \in Writer :
         Threat(x)' /\ Threat(y)' /\ state'[x] = state'[y] /\ index'[x] = index'[y] => x = y
  BY <1>1, <1>2 DEF CallsStay, Threats
<1>5. \A x \in Writer :
         Placing(x)' /\ state'[x] = ReaderBuffer' /\ BeforeReset' => index'[x] < length'[state'[x]]
  BY DEF CallsStay, Threats
<1> QED
  BY <1>3, <1>4, <1>5 DEF Threats

-----------------------------------------------------------------------------
\* The steps of a call but for the claim and the copy.
LEMMA CallRaces ==
    ASSUME SafetyInv, ItemsOK, RacersOK, NEW V, NEW C, Spared(V, C), NEW w \in Writer,
           Call(w) \/ Lock(w) \/ Succeed(w) \/ Fail(w)
    PROVE  RacersOK' /\ Spared(V, C)'
<1>t. TypeOK
  BY DEF SafetyInv, CountInv
<1>1. /\ UNCHANGED <<statePtr, length, buffer, rpc, size, next, due, delivered, accepted>>
      /\ covered' = covered
      /\ \A x \in Writer : x # w => /\ wpc'[x] = wpc[x] /\ state'[x] = state[x]
                                    /\ index'[x] = index[x] /\ late'[x] = late[x] /\ val'[x] = val[x]
      /\ wpc'[w] \in {"idle", "loaded", "locked"}
  BY <1>t DEF Call, LoadState, Lock, TakeLock, Succeed, ReturnTrue, Fail, ReturnFalse, Unlock,
              TypeOK, history, readerVars
<1>2. CallsStay
  BY <1>1 DEF CallsStay, Placing, HasRoom
<1>3. /\ racers \subseteq racers' /\ IsFiniteSet(racers')
      /\ late'[w] => wpc'[w] \in Locked /\ val'[w] \in racers'
  <2>1. CASE Call(w)
    <3>1. wpc[w] = "idle" /\ late' = late /\ racers' = racers
      BY <2>1 DEF Call, LoadState
    <3>2. ~late[w]
      BY <3>1 DEF RacersOK, Locked
    <3> QED
      BY <3>1, <3>2 DEF RacersOK
  <2>2. CASE Lock(w)
    <3>1. /\ wpc'[w] = "locked" /\ val' = val
          /\ racers' = IF late'[w] THEN racers \cup {val[w]} ELSE racers
      BY <1>t, <2>2 DEF Lock, TakeLock, TypeOK
    <3>2. IsFiniteSet(racers \cup {val[w]})
      BY FS_AddElement DEF RacersOK
    <3> QED
      BY <3>1, <3>2 DEF RacersOK, Locked
  <2>3. CASE Succeed(w) \/ Fail(w)
    <3>1. late'[w] = FALSE /\ racers' = racers
      BY <1>t, <2>3 DEF Succeed, Fail, ReturnTrue, ReturnFalse, Unlock, TypeOK, history
    <3> QED
      BY <3>1 DEF RacersOK
  <2> QED
    BY <2>1, <2>2, <2>3
<1>4. RacersOK'
  <2>1. \A x \in Writer : late'[x] => wpc'[x] \in Locked /\ val'[x] \in racers'
    BY <1>1, <1>3 DEF RacersOK
  <2> QED
    BY <1>1, <1>3, <2>1 DEF RacersOK, ReaderBuffer
<1>5. Charged(V, C)'
  BY <1>1, <1>3 DEF Spared, Charged
<1>6. Threats(C)'
  <2>1. ReaderBuffer' = ReaderBuffer /\ BeforeReset' = BeforeReset /\ length' = length
    BY <1>1 DEF ReaderBuffer, BeforeReset
  <2> QED
    BY <1>2, <2>1, StayThreats DEF Spared
<1>7. AllClear(V)' /\ \A b, k : Free(b, k) => Free(b, k)'
  BY <1>1, <1>2, StayClear DEF Spared
<1>8. \A b \in Buf : Live(b)' = Live(b)
  BY <1>1 DEF Live
<1>9. \A b \in Buf : \A i : Sits(b, i) => Sits(b, i)'
  BY <1>1, <1>7, <1>8, StaySits
<1>10. \A i : Whole(i)' <=> Whole(i)
  BY <1>1 DEF Whole
<1>11. ReturnedSafe(V)'
  <2> SUFFICES ASSUME NEW i \in returned' \ (V \cup racers')
               PROVE  Whole(i)' \/ \E b \in Buf : Sits(b, i)'
    BY DEF ReturnedSafe
  <2>1. CASE i \in returned
    BY <1>3, <1>9, <1>10, <2>1 DEF Spared, ReturnedSafe
  <2>2. CASE i \notin returned
    <3>1. Succeed(w) /\ i = val[w] /\ wpc[w] = "copied" /\ wpc'[w] = "idle"
      BY <1>t, <2>2 DEF Call, Lock, Succeed, ReturnTrue, Fail, Unlock, TypeOK, history
    <3>2. Placing(w)
      BY <3>1 DEF ItemsOK, Placing
    <3>3. ~late[w]
      BY <1>3, <3>1 DEF RacersOK
    <3>4. Clear(w)
      BY <3>1, <3>2, <3>3 DEF Spared, AllClear
    <3>5. PICK b \in Buf, k \in Nat :
             b = state[w] /\ k = index[w] /\ k \in Live(b) /\ buffer[b][k] = {i}
      <4>1. state[w] \in Buf /\ index[w] \in Live(state[w]) /\ buffer[state[w]][index[w]] = {i}
        BY <3>1, <3>2, <3>3, <3>4, InTime DEF Clear
      <4>2. index[w] \in Nat
        BY <1>t, <4>1, LiveBelow
      <4> QED
        BY <4>1, <4>2
    <3>6. Free(b, k)'
      <4> SUFFICES ASSUME NEW x \in Writer, Placing(x)'
                   PROVE  state'[x] # b \/ index'[x] # k
        BY DEF Free
      <4>1. x # w
        BY <3>1 DEF Placing
      <4>2. Placing(x) /\ state'[x] = state[x] /\ index'[x] = index[x]
        BY <1>2 DEF CallsStay
      <4> QED
        BY <3>2, <3>4, <3>5, <4>1, <4>2 DEF Clear, Sharing
    <3>7. Sits(b, i)'
      BY <1>1, <1>8, <3>5, <3>6 DEF Sits
    <3> QED
      BY <3>5, <3>7
  <2> QED
    BY <2>1, <2>2
<1>12. DueSafe(V)'
  <2>1. ReaderBuffer' = ReaderBuffer /\ ReaderBuffer \in Buf
    BY <1>t, <1>1, BufFacts DEF ReaderBuffer, TypeOK
  <2> QED
    BY <1>1, <1>3, <1>9, <1>10, <2>1 DEF Spared, DueSafe
<1> QED
  BY <1>4, <1>5, <1>6, <1>7, <1>11, <1>12 DEF Spared

\* The two steps of a copy: it goes to a cell in which no item sits.
LEMMA CopyRaces ==
    ASSUME SafetyInv, ItemsOK, RacersOK, NEW V, NEW C, Spared(V, C), NEW w \in Writer, Copy(w)
    PROVE  RacersOK' /\ Spared(V, C)'
<1>t. TypeOK
  BY DEF SafetyInv, CountInv
<1>1. /\ UNCHANGED <<statePtr, length, state, index, val, late, rpc, size, next,
                     returned, due, delivered, accepted, racers>>
      /\ \A x \in Writer : x # w => wpc'[x] = wpc[x] /\ covered'[x] = covered[x]
      /\ wpc[w] \in {"claimed", "copying"} /\ wpc'[w] \in {"copying", "copied"} /\ HasRoom(w)
  BY <1>t DEF Copy, BeginCopy, EndCopy, TypeOK, ItemsOK, history, readerVars
<1>2. Placing(w) /\ \A x \in Writer : Placing(x)' <=> Placing(x)
  BY <1>1 DEF Placing, HasRoom
<1>3. state[w] \in Buf /\ index[w] \in Cell
  BY <1>t, <1>1 DEF TypeOK, HasRoom, Length, Cell
<1> DEFINE b == state[w]
           k == index[w]
<1>4. \A c \in Buf, l \in Cell : c # b \/ l # k => buffer'[c][l] = buffer[c][l]
  <2>1. \E new : buffer' = [buffer EXCEPT ![b][k] = new]
    BY DEF Copy, BeginCopy, EndCopy
  <2> QED
    BY <1>t, <1>3, <2>1 DEF TypeOK
<1>5. RacersOK'
  BY <1>1 DEF RacersOK, ReaderBuffer, Locked
<1>6. Charged(V, C)'
  BY <1>1 DEF Spared, Charged
<1>7. Threats(C)'
  <2>1. /\ \A x \in Writer : Threat(x)' <=> Threat(x)
        /\ ReaderBuffer' = ReaderBuffer /\ BeforeReset' = BeforeReset
    BY <1>1, <1>2 DEF Threat, ReaderBuffer, BeforeReset
  <2> QED
    BY <1>1, <1>2, <2>1 DEF Spared, Threats
<1>8. AllClear(V)'
  <2> SUFFICES ASSUME NEW x \in Writer, Placing(x)', ~late'[x], val'[x] \notin V
               PROVE  Clear(x)'
    BY DEF AllClear
  <2>1. Placing(x) /\ ~late[x] /\ val[x] \notin V
    BY <1>1, <1>2
  <2>2. Clear(x)
    BY <2>1 DEF Spared, AllClear
  <2>3. \A y \in Writer : y # x => ~Sharing(x, y)'
    BY <1>1, <1>2, <2>2 DEF Clear, Sharing
  <2>4. CASE x # w
    <3>1. state[x] # b \/ index[x] # k
      BY <1>2, <2>1, <2>2, <2>4 DEF Clear, Sharing
    <3>2. state[x] \in Buf /\ index[x] \in Cell
      BY <1>t, <2>1 DEF TypeOK, Placing, HasRoom, Length, Cell
    <3>3. buffer'[state[x]][index[x]] = buffer[state[x]][index[x]]
      BY <1>4, <3>1, <3>2
    <3> QED
      BY <1>1, <2>2, <2>3, <2>4, <3>3 DEF Clear
  <2>5. CASE x = w
    <3>1. CASE BeginCopy(w)
      <4>1. Rivals(w) = {}
        <5> SUFFICES ASSUME NEW y \in Writer \ {w}, wpc[y] = "copying", state[y] = state[w],
                            index[y] = index[w]
                     PROVE  FALSE
          BY DEF Rivals
        <5>1. Placing(y)
          BY DEF Placing, ItemsOK
        <5> QED
          BY <1>2, <2>2, <2>5, <5>1 DEF Clear, Sharing
      <4>2. /\ wpc'[w] = "copying" /\ covered'[w] = buffer[b][k]
            /\ buffer'[b][k] = buffer[b][k] \cup {val[w]}
        BY <1>t, <1>3, <3>1, <4>1 DEF BeginCopy, TypeOK
      <4> QED
        BY <1>1, <2>3, <2>5, <4>2 DEF Clear
    <3>2. CASE EndCopy(w)
      <4>1. /\ wpc[w] = "copying" /\ wpc'[w] = "copied"
            /\ buffer'[b][k] = (buffer[b][k] \ covered[w]) \cup {val[w]}
        BY <1>t, <1>3, <3>2 DEF EndCopy, TypeOK
      <4>2. buffer[b][k] \subseteq covered[w] \cup {val[w]}
        BY <2>2, <2>5, <4>1 DEF Clear
      <4>3. buffer'[b][k] = {val[w]}
        BY <4>1, <4>2
      <4> QED
        BY <1>1, <2>3, <2>5, <4>1, <4>3 DEF Clear
    <3> QED
      BY <3>1, <3>2 DEF Copy
  <2> QED
    BY <2>4, <2>5
<1>9. \A c \in Buf : \A i : Sits(c, i) => Sits(c, i)'
  <2> SUFFICES ASSUME NEW c \in Buf, NEW i, Sits(c, i) PROVE Sits(c, i)'
    OBVIOUS
  <2>1. PICK l \in Live(c) : buffer[c][l] = {i} /\ Free(c, l)
    BY DEF Sits
  <2>2. l \in Cell
    BY <1>t, LiveBelow
  <2>3. c # b \/ l # k
    BY <1>2, <2>1 DEF Free
  <2>4. buffer'[c][l] = {i}
    BY <1>4, <2>1, <2>2, <2>3
  <2>5. l \in Live(c)'
    BY <1>1 DEF Live
  <2>6. Free(c, l)'
    BY <1>1, <1>2, <2>1 DEF Free
  <2> QED
    BY <2>4, <2>5, <2>6 DEF Sits
<1>10. ReturnedSafe(V)' /\ DueSafe(V)'
  <2>1. ReaderBuffer' = ReaderBuffer /\ ReaderBuffer \in Buf
    BY <1>t, <1>1, BufFacts DEF ReaderBuffer, TypeOK
  <2>2. \A i : Whole(i)' <=> Whole(i)
    BY <1>1 DEF Whole
  <2> QED
    BY <1>1, <1>9, <2>1, <2>2 DEF Spared, ReturnedSafe, DueSafe
<1> QED
  BY <1>5, <1>6, <1>7, <1>8, <1>10 DEF Spared

\* The claim of a cell: in time, it makes of the call the victim of the one that is in the
\* cell already, if there is one; late, it may make a racer a threat.
LEMMA ClaimRaces ==
    ASSUME SafetyInv, ItemsOK, RacersOK, NEW V, NEW C, Spared(V, C), NEW w \in Writer, Claim(w)
    PROVE  RacersOK' /\ \E V2, C2 : Spared(V2, C2)'
<1>t. TypeOK
  BY DEF SafetyInv, CountInv
<1>0. PICK b \in Buf, n \in Nat : b = state[w] /\ n = length[state[w]]
  BY <1>t DEF TypeOK, Length
<1>1. /\ UNCHANGED <<statePtr, buffer, state, val, covered, late, rpc, size, next,
                     returned, due, delivered, racers>>
      /\ wpc[w] = "locked" /\ wpc'[w] = "claimed" /\ index'[w] = n
      /\ \A x \in Writer : x # w => wpc'[x] = wpc[x] /\ index'[x] = index[x]
      /\ accepted' = IF HasRoom(w)' THEN accepted \cup {val[w]} ELSE accepted
  BY <1>t, <1>0 DEF Claim, ClaimIndex, TypeOK, readerVars
<1>2. /\ length'[b] = Incremented(n)
      /\ \A c \in Buf : c # b => length'[c] = length[c]
      /\ \A c \in Buf : length[c] \in Nat
  BY <1>t, <1>0 DEF Claim, ClaimIndex, TypeOK, Length
<1>3. n < MaxSize => length'[b] = n + 1
  BY <1>2 DEF Incremented
<1>4. \A c \in Buf : length'[c] \in Nat /\ length[c] <= length'[c]
  <2>1. Incremented(n) \in Nat /\ n <= Incremented(n)
    BY DEF Incremented
  <2> QED
    BY <1>0, <1>2, <2>1
<1>5. /\ ReaderBuffer' = ReaderBuffer /\ BeforeReset' = BeforeReset
      /\ ReaderBuffer \in Buf
  BY <1>t, <1>1, BufFacts DEF ReaderBuffer, BeforeReset, TypeOK
<1>6. /\ \A x \in Writer : x # w => (Placing(x)' <=> Placing(x))
      /\ ~Placing(w) /\ (Placing(w)' <=> n < MaxSize)
  BY <1>1 DEF Placing, HasRoom
<1>7. \A x \in Writer : Placing(x) => state[x] \in Buf /\ index[x] \in Nat
  BY <1>t DEF TypeOK, Length
<1>8. RacersOK'
  <2>1. rpc' = "reading" => size' <= length'[ReaderBuffer']
    <3>1. size \in Nat
      BY <1>t DEF TypeOK
    <3> QED
      BY <1>1, <1>2, <1>4, <1>5, <3>1 DEF RacersOK
  <2>2. \A x \in Writer : late'[x] => wpc'[x] \in Locked /\ val'[x] \in racers'
    BY <1>1 DEF RacersOK, Locked
  <2> QED
    BY <1>1, <2>1, <2>2 DEF RacersOK
<1>9. \A c \in Buf : Live(c) \subseteq Live(c)'
  <2>1. \A c \in Buf : Shrunk(length[c]) <= Shrunk(length'[c])
                       /\ Shrunk(length[c]) \in Nat /\ Shrunk(length'[c]) \in Nat
    BY <1>2, <1>4
  <2> HIDE DEF Shrunk
  <2>2. \A c \in Buf : 0 .. Shrunk(length[c]) - 1 \subseteq 0 .. Shrunk(length'[c]) - 1
    BY <2>1
  <2> QED
    BY <1>1, <2>2 DEF Live
<1>10. \A c \in Buf : \A i : Sits(c, i) => Sits(c, i)'
  <2> SUFFICES ASSUME NEW c \in Buf, NEW i, Sits(c, i) PROVE Sits(c, i)'
    OBVIOUS
  <2>1. PICK k \in Live(c) : buffer[c][k] = {i} /\ Free(c, k)
    BY DEF Sits
  <2>2. k \in Nat /\ k < length[c]
    BY <1>t, LiveBelow
  <2>3. c = b => k # n
    BY <1>0, <2>2
  <2>4. Free(c, k)'
    BY <1>0, <1>1, <1>6, <2>1, <2>3 DEF Free
  <2>5. k \in Live(c)'
    BY <1>9
  <2> QED
    BY <1>1, <2>1, <2>4, <2>5 DEF Sits
<1>11. \A V2 : V \subseteq V2 => ReturnedSafe(V2)' /\ DueSafe(V2)'
  <2>1. \A i : Whole(i)' <=> Whole(i)
    BY <1>1 DEF Whole
  <2> QED
    BY <1>1, <1>5, <1>10, <2>1 DEF Spared, ReturnedSafe, DueSafe
<1>12. \A x \in Writer : x # w /\ Placing(x) /\ ~late[x] /\ val[x] \notin V => Clear(x)'
  <2> SUFFICES ASSUME NEW x \in Writer, x # w, Placing(x), ~late[x], val[x] \notin V
               PROVE  Clear(x)'
    OBVIOUS
  <2>1. Clear(x)
    BY DEF Spared, AllClear
  <2>2. index[x] < length[state[x]]
    <3>1. wpc[x] \in Locked \ {"locked"} /\ HasRoom(x)
      BY DEF Placing, Locked
    <3> QED
      BY <3>1 DEF SafetyInv, ClaimedBelowLength
  <2>3. ~Sharing(x, w)'
    BY <1>0, <1>1, <1>7, <2>2 DEF Sharing
  <2>4. \A y \in Writer : y # x => ~Sharing(x, y)'
    BY <1>1, <1>6, <2>1, <2>3 DEF Clear, Sharing
  <2> QED
    BY <1>1, <2>1, <2>4 DEF Clear
<1>13. \A x \in Writer : x # w /\ Threat(x)' => Threat(x)
  <2> SUFFICES ASSUME NEW x \in Writer, x # w, Threat(x)' PROVE Threat(x)
    OBVIOUS
  <2>1. Placing(x) /\ state'[x] = state[x] /\ index'[x] = index[x]
    BY <1>1, <1>6 DEF Threat
  <2>2. index[x] >= length'[state[x]] => index[x] >= length[state[x]]
    BY <1>2, <1>4, <1>7, <2>1
  <2> QED
    BY <1>5, <2>1, <2>2 DEF Threat
<1>14. \A x \in Writer :
          x # w /\ Placing(x) /\ state[x] = ReaderBuffer /\ BeforeReset
          => index[x] < length[state[x]] /\ index[x] < length'[state[x]]
  BY <1>2, <1>4, <1>7 DEF Spared, Threats
<1>15. val[w] \notin C
  <2>1. val[w] = <<w, calls[w]>> /\ calls[w] \in Nat
    BY <1>1 DEF ItemsOK
  <2>2. val[w] \in accepted => calls[w] < calls[w]
    BY <1>1, <2>1 DEF ItemsOK
  <2>3. ~(calls[w] < calls[w])
    BY <2>1
  <2> QED
    BY <2>2, <2>3 DEF Spared, Charged
<1>16. ~late[w] => ~(b = ReaderBuffer /\ BeforeReset)
  BY <1>0, <1>1 DEF SafetyInv, ReaderOwns, Holders, Locked, Owning, BeforeReset
<1>17. Placing(w)' => ~(index'[w] >= length'[state'[w]]) /\ index'[w] < length'[state'[w]]
  BY <1>0, <1>1, <1>3, <1>6
<1>18. Charged(V, C)'
  <2>1. accepted \subseteq accepted' /\ racers' = racers
    BY <1>1
  <2> QED
    BY <2>1 DEF Spared, Charged
<1>19. Threats(C)'
  <2>1. \A x \in Writer : Threat(x)' => late'[x] /\ val'[x] \notin C
    BY <1>0, <1>1, <1>5, <1>13, <1>15, <1>16, <1>17 DEF Spared, Threats, Threat
  <2>2. \A x \in Writer : x # w /\ Threat(x)' /\ Threat(w)' /\ state'[x] = state'[w]
                          => index'[x] # index'[w]
    <3> SUFFICES ASSUME NEW x \in Writer, x # w, Threat(x)', Threat(w)', state'[x] = state'[w]
                 PROVE  index'[x] # index'[w]
      OBVIOUS
    <3>1. state'[w] = ReaderBuffer /\ BeforeReset /\ Placing(x)
      BY <1>5, <1>6, <1>17 DEF Threat
    <3>2. index[x] < length[b] /\ index[x] \in Nat
      BY <1>0, <1>1, <1>7, <1>14, <3>1
    <3>3. index[x] # n
      BY <1>0, <3>2
    <3> QED
      BY <1>1, <3>3
  <2>3. \A x, y \in Writer :
           Threat(x)' /\ Threat(y)' /\ state'[x] = state'[y] /\ index'[x] = index'[y] => x = y
    BY <1>1, <1>13, <2>2 DEF Spared, Threats
  <2>4. \A x \in Writer :
           Placing(x)' /\ state'[x] = ReaderBuffer' /\ BeforeReset' => index'[x] < length'[state'[x]]
    BY <1>1, <1>5, <1>6, <1>14, <1>17
  <2> QED
    BY <2>1, <2>3, <2>4 DEF Threats
<1>20. CASE Placing(w)' /\ ~late[w] => \A x \in Writer : x # w => ~Sharing(w, x)'
  <2>1. Placing(w)' /\ ~late[w] => Clear(w)'
    BY <1>1, <1>20 DEF Clear
  <2>2. AllClear(V)'
    BY <1>1, <1>6, <1>12, <2>1 DEF AllClear
  <2>3. Spared(V, C)'
    BY <1>11, <1>18, <1>19, <2>2 DEF Spared
  <2> QED
    BY <1>8, <2>3
<1>21. CASE Placing(w)' /\ ~late[w] /\ \E x \in Writer : x # w /\ Sharing(w, x)'
  <2>1. PICK x \in Writer : x # w /\ Sharing(w, x)'
    BY <1>21
  <2>2. Placing(x) /\ state[x] = b /\ index[x] = n
    BY <1>0, <1>1, <1>6, <2>1 DEF Sharing
  <2>3. Threat(x)
    BY <1>0, <2>2 DEF Threat
  <2>4. late[x] /\ val[x] \notin C /\ val[x] \in racers /\ val[x] \in accepted
    BY <2>2, <2>3 DEF Spared, Threats, RacersOK, ItemsOK
  <2>5. PICK V2, C2 : V2 = V \cup {val[w]} /\ C2 = C \cup {val[x]}
    OBVIOUS
  <2>6. Charged(V2, C2)'
    <3>1. IsFiniteSet(V) /\ IsFiniteSet(C) /\ Cardinality(V) <= Cardinality(C)
      BY FS_Subset DEF Spared, Charged, RacersOK
    <3>2. /\ IsFiniteSet(V2) /\ Cardinality(C2) = Cardinality(C) + 1
          /\ Cardinality(V2) = Cardinality(V) \/ Cardinality(V2) = Cardinality(V) + 1
      BY <2>4, <2>5, <3>1, FS_AddElement
    <3>3. Cardinality(V) \in Nat /\ Cardinality(C) \in Nat
      BY <3>1, FS_CardinalityType
    <3>4. Cardinality(V2) <= Cardinality(C2)
      BY <3>1, <3>2, <3>3
    <3>5. C2 \subseteq racers' /\ C2 \subseteq accepted'
      BY <1>1, <1>18, <2>4, <2>5 DEF Charged
    <3> QED
      BY <3>2, <3>4, <3>5 DEF Charged
  <2>7. ~Threat(x)'
    <3>1. ~(index'[x] >= length'[state'[x]])
      BY <1>0, <1>1, <1>3, <1>6, <1>21, <2>1, <2>2
    <3>2. ~(state[x] = ReaderBuffer /\ BeforeReset)
      BY <1>16, <1>21, <2>2
    <3> QED
      BY <1>1, <1>5, <3>1, <3>2 DEF Threat
  <2>8. \A y \in Writer : Threat(y)' => late'[y] /\ val'[y] \notin C2
    <3> SUFFICES ASSUME NEW y \in Writer, Threat(y)' PROVE late'[y] /\ val'[y] \notin C2
      OBVIOUS
    <3>1. late'[y] /\ val'[y] \notin C /\ y # x
      BY <1>19, <2>7 DEF Threats
    <3>2. y # w
      BY <1>1, <1>21, <3>1
    <3>3. wpc[y] # "idle" /\ wpc[x] # "idle"
      BY <1>6, <2>2, <3>2 DEF Threat, Placing
    <3>4. val[y] # val[x]
      BY <3>1, <3>3 DEF ItemsOK
    <3> QED
      BY <1>1, <2>5, <3>1, <3>4
  <2>9. Threats(C2)'
    BY <1>19, <2>8 DEF Threats
  <2>10. AllClear(V2)'
    BY <1>1, <1>6, <1>12, <2>5 DEF AllClear
  <2>11. Spared(V2, C2)'
    BY <1>11, <2>5, <2>6, <2>9, <2>10 DEF Spared
  <2> QED
    BY <1>8, <2>11
<1> QED
  BY <1>20, <1>21

-----------------------------------------------------------------------------
\* The steps of the reader that neither start a swap nor deliver.
LEMMA SwapRaces ==
    ASSUME SafetyInv, ItemsOK, RacersOK, NEW V, NEW C, Spared(V, C), SwapOrRead
    PROVE  RacersOK' /\ Spared(V, C)'
<1>t. TypeOK
  BY DEF SafetyInv, CountInv
<1>0. PICK r \in Buf : /\ r = ReaderBuffer /\ r # statePtr
                       /\ \A c \in Buf : c = r \/ c = statePtr
  <2>1. statePtr \in Buf
    BY <1>t DEF TypeOK
  <2> QED
    BY <2>1, BufFacts DEF ReaderBuffer
<1>1. /\ UNCHANGED <<statePtr, buffer, wpc, state, index, val, covered, late>>
      /\ UNCHANGED <<accepted, returned, due, delivered, racers>>
      /\ ReaderBuffer' = r
  BY <1>0 DEF SwapOrRead, ResetLength, WaitWriters, GetSize, EndRead, writerVars, history,
              ReaderBuffer
<1>2. \A c \in Buf : length[c] \in Nat
  BY <1>t DEF TypeOK, Length
<1>3. CallsStay
  BY <1>1 DEF CallsStay, Placing, HasRoom
<1>4. \A c \in Buf : c # r => length'[c] = length[c]
  BY <1>t, <1>0 DEF SwapOrRead, ResetLength, WaitWriters, GetSize, EndRead, TypeOK
<1>5. /\ \A c \in Buf : Live(c) \subseteq Live(c)'
      /\ \A x \in Writer : Placing(x) /\ state[x] = r =>
            /\ length'[r] = length[r] \/ (BeforeReset /\ ~BeforeReset')
            /\ BeforeReset' => BeforeReset
      /\ RacersOK'
  <2>1. CASE ResetLength
    <3>1. rpc = "out" /\ rpc' = "cleared"
      BY <2>1 DEF ResetLength
    <3>2. \A c \in Buf : Live(c) \subseteq Live(c)'
      BY <1>0, <1>1, <1>4, <3>1 DEF Live
    <3> QED
      BY <1>1, <3>1, <3>2 DEF BeforeReset, RacersOK
  <2>2. CASE WaitWriters
    <3>1. rpc = "waiting" /\ rpc' = "owned" /\ length' = length
      BY <2>2 DEF WaitWriters
    <3>2. \A x \in Writer : ~(Placing(x) /\ state[x] = r)
      <4>1. Holders(r) = {}
        BY <1>0, <2>2, WaitedForAll DEF SafetyInv
      <4> QED
        BY <4>1 DEF Holders, Placing, Locked
    <3>3. \A c \in Buf : Live(c) \subseteq Live(c)'
      BY <1>1, <3>1 DEF Live
    <3> QED
      BY <1>1, <3>1, <3>2, <3>3 DEF RacersOK
  <2>3. CASE GetSize
    <3>1. /\ rpc = "owned" /\ rpc' = "reading" /\ length' = length
          /\ next' = 0 /\ size' = Shrunk(length[r])
      BY <1>0, <2>3 DEF GetSize
    <3>2. size' <= length[r]
      BY <1>2, <3>1
    <3>3. Live(r)' = Live(r)
      BY <1>0, <1>1, <3>1 DEF Live
    <3>4. \A c \in Buf : Live(c) \subseteq Live(c)'
      BY <1>0, <1>1, <3>1, <3>3 DEF Live
    <3> QED
      BY <1>0, <1>1, <3>1, <3>2, <3>4 DEF BeforeReset, RacersOK
  <2>4. CASE EndRead
    <3>1. rpc = "reading" /\ rpc' = "out" /\ length' = length /\ next = size /\ size \in Nat
      BY <1>t, <2>4 DEF EndRead, TypeOK
    <3>2. next .. size - 1 = {}
      BY <3>1
    <3>3. \A c \in Buf : Live(c) \subseteq Live(c)'
      BY <1>1, <3>1, <3>2 DEF Live
    <3> QED
      BY <1>1, <3>1, <3>3 DEF BeforeReset, RacersOK
  <2> QED
    BY <2>1, <2>2, <2>3, <2>4 DEF SwapOrRead
<1>6. Threats(C)'
  <2>1. \A x \in Writer : Placing(x) /\ Placing(x)' =>
           /\ \/ length'[state[x]] = length[state[x]]
              \/ state[x] = ReaderBuffer /\ BeforeReset /\ ~BeforeReset'
           /\ state[x] = ReaderBuffer' /\ BeforeReset' => state[x] = ReaderBuffer /\ BeforeReset
    <3> SUFFICES ASSUME NEW x \in Writer, Placing(x)
                 PROVE  /\ \/ length'[state[x]] = length[state[x]]
                           \/ state[x] = ReaderBuffer /\ BeforeReset /\ ~BeforeReset'
                        /\ state[x] = ReaderBuffer' /\ BeforeReset'
                           => state[x] = ReaderBuffer /\ BeforeReset
      OBVIOUS
    <3>1. state[x] \in Buf
      BY <1>t DEF TypeOK
    <3> QED
      BY <1>0, <1>1, <1>4, <1>5, <3>1
  <2> QED
    BY <1>3, <2>1, StayThreats DEF Spared
<1>7. AllClear(V)' /\ \A b, k : Free(b, k) => Free(b, k)'
  BY <1>1, <1>3, StayClear DEF Spared
<1>8. \A b \in Buf : \A i : Sits(b, i) => Sits(b, i)'
  BY <1>1, <1>5, <1>7, StaySits
<1>9. Charged(V, C)'
  BY <1>1 DEF Spared, Charged
<1>10. ReturnedSafe(V)' /\ DueSafe(V)'
  <2>1. \A i : Whole(i)' <=> Whole(i)
    BY <1>1 DEF Whole
  <2> QED
    BY <1>0, <1>1, <1>8, <2>1 DEF Spared, ReturnedSafe, DueSafe
<1> QED
  BY <1>5, <1>6, <1>7, <1>9, <1>10 DEF Spared

\* The store of the pointer: what is due by now sits in the buffer to be read.
LEMMA StoreRaces ==
    ASSUME SafetyInv, ItemsOK, RacersOK, NEW V, NEW C, Spared(V, C), StartSwap
    PROVE  RacersOK' /\ Spared(V, C)'
<1>t. TypeOK
  BY DEF SafetyInv, CountInv
<1>0. PICK r \in Buf, p \in Buf : /\ r = ReaderBuffer /\ p = statePtr /\ r # p
                                  /\ Other(r) = p /\ Other(p) = r
                                  /\ \A c \in Buf : c = p \/ c = r
  <2>1. statePtr \in Buf
    BY <1>t DEF TypeOK
  <2> QED
    BY <2>1, BufFacts DEF ReaderBuffer
<1>1. /\ UNCHANGED <<buffer, length, wpc, state, index, val, covered, late>>
      /\ UNCHANGED <<accepted, returned, delivered, racers>>
      /\ rpc = "cleared" /\ rpc' = "waiting" /\ due' = returned \ Delivered
      /\ ReaderBuffer' = p
  BY <1>0 DEF StartSwap, StorePointer, writerVars, ReaderBuffer
<1>2. CallsStay
  BY <1>1 DEF CallsStay, Placing, HasRoom
<1>3. RacersOK'
  BY <1>1 DEF RacersOK
<1>4. Threats(C)'
  BY <1>1, <1>2, StayThreats DEF Spared, BeforeReset
<1>5. AllClear(V)' /\ \A b, k : Free(b, k) => Free(b, k)'
  BY <1>1, <1>2, StayClear DEF Spared
<1>6. Live(r) = {} /\ \A c \in Buf : Live(c) \subseteq Live(c)'
  BY <1>0, <1>1 DEF Live
<1>7. \A b \in Buf : \A i : Sits(b, i) => Sits(b, i)'
  BY <1>1, <1>5, <1>6, StaySits
<1>8. \A i : Whole(i)' <=> Whole(i)
  BY <1>1 DEF Whole
<1>9. ReturnedSafe(V)'
  BY <1>1, <1>7, <1>8 DEF Spared, ReturnedSafe
<1>10. DueSafe(V)'
  <2> SUFFICES ASSUME NEW i \in returned \ (V \cup racers) PROVE Whole(i)' \/ Sits(p, i)'
    BY <1>1 DEF DueSafe
  <2>1. Whole(i) \/ \E b \in Buf : Sits(b, i)
    BY DEF Spared, ReturnedSafe
  <2>2. ~Sits(r, i)
    BY <1>6 DEF Sits
  <2> QED
    BY <1>0, <1>7, <1>8, <2>1, <2>2
<1>11. Charged(V, C)'
  BY <1>1 DEF Spared, Charged
<1> QED
  BY <1>3, <1>4, <1>5, <1>9, <1>10, <1>11 DEF Spared

\* The reading of a cell: an item that is alone in it is delivered alone.
LEMMA DeliverRaces ==
    ASSUME SafetyInv, ItemsOK, RacersOK, NEW V, NEW C, Spared(V, C), Deliver
    PROVE  RacersOK' /\ Spared(V, C)'
<1>t. TypeOK
  BY DEF SafetyInv, CountInv
<1>0. PICK r \in Buf, n \in Nat : r = ReaderBuffer /\ n = next /\ r # statePtr
  BY <1>t, BufFacts DEF ReaderBuffer, TypeOK
<1>1. /\ UNCHANGED <<statePtr, buffer, length, size, wpc, state, index, val, covered, late>>
      /\ UNCHANGED <<accepted, returned, due, racers>>
      /\ rpc = "reading" /\ rpc' = "reading" /\ next' = n + 1 /\ n < size
      /\ ReaderBuffer' = r /\ delivered' = Append(delivered, buffer[r][n])
  BY <1>0 DEF Deliver, ReadCell, writerVars, ReaderBuffer
<1>2. CallsStay
  BY <1>1 DEF CallsStay, Placing, HasRoom
<1>3. RacersOK'
  BY <1>0, <1>1 DEF RacersOK
<1>4. Threats(C)'
  BY <1>0, <1>1, <1>2, StayThreats DEF Spared, BeforeReset
<1>5. AllClear(V)' /\ \A b, k : Free(b, k) => Free(b, k)'
  BY <1>1, <1>2, StayClear DEF Spared
<1>6. /\ \A i : Whole(i) => Whole(i)'
      /\ \A i : buffer[r][n] = {i} => Whole(i)'
  <2>1. delivered \in Seq(SUBSET accepted)
    BY DEF ItemsOK
  <2>2. PICK l \in Nat : l = Len(delivered) /\ DOMAIN delivered = 1 .. l
    BY <2>1
  <2>3. buffer[r][n] \in SUBSET accepted
    <3>1. n \in Cell
      BY <1>t, <1>1 DEF TypeOK, Cell
    <3> QED
      BY <3>1 DEF ItemsOK
  <2>4. /\ DOMAIN delivered' = 1 .. l + 1
        /\ \A m \in 1 .. l : delivered'[m] = delivered[m]
        /\ delivered'[l + 1] = buffer[r][n]
    BY <1>1, <2>1, <2>2, <2>3
  <2>5. \A m \in 1 .. l : m \in 1 .. l + 1
    BY <2>2
  <2>6. l + 1 \in 1 .. l + 1
    BY <2>2
  <2> QED
    BY <2>2, <2>4, <2>5, <2>6 DEF Whole
<1>7. /\ \A c \in Buf : c # r => Live(c)' = Live(c)
      /\ \A k \in Live(r) : k = n \/ k \in Live(r)'
  <2>1. \A c \in Buf : c = r \/ c = statePtr
    BY <1>t, <1>0, BufFacts DEF ReaderBuffer, TypeOK
  <2>2. Live(r) = n .. size - 1 /\ Live(r)' = n + 1 .. size - 1
    BY <1>0, <1>1 DEF Live
  <2>3. \A k \in n .. size - 1 : k = n \/ k \in n + 1 .. size - 1
    <3>1. size \in Nat
      BY <1>t DEF TypeOK
    <3> QED
      BY <3>1
  <2> QED
    BY <1>0, <1>1, <2>1, <2>2, <2>3 DEF Live
<1>8. \A c \in Buf : \A i : Sits(c, i) => Sits(c, i)' \/ Whole(i)'
  <2> SUFFICES ASSUME NEW c \in Buf, NEW i, Sits(c, i), ~Whole(i)' PROVE Sits(c, i)'
    OBVIOUS
  <2>1. PICK k \in Live(c) : buffer[c][k] = {i} /\ Free(c, k)
    BY DEF Sits
  <2>2. k \in Live(c)'
    BY <1>6, <1>7, <2>1
  <2>3. Free(c, k)'
    BY <1>5, <2>1
  <2> QED
    BY <1>1, <2>1, <2>2, <2>3 DEF Sits
<1>9. ReturnedSafe(V)'
  BY <1>1, <1>6, <1>8 DEF Spared, ReturnedSafe
<1>10. DueSafe(V)'
  BY <1>0, <1>1, <1>6, <1>8 DEF Spared, DueSafe
<1>11. Charged(V, C)'
  BY <1>1 DEF Spared, Charged
<1> QED
  BY <1>3, <1>4, <1>5, <1>9, <1>10, <1>11 DEF Spared

-----------------------------------------------------------------------------
\* Every step keeps the racers charged with the values that are lost.
LEMMA RaceStep == RaceInv /\ [DeliveryNext]_deliveryVars => RaceInv'
<1> SUFFICES ASSUME RaceInv, [DeliveryNext]_deliveryVars PROVE RaceInv'
  OBVIOUS
<1>i. SafetyInv /\ ItemsOK /\ RacersOK
  BY DEF RaceInv
<1>v. PICK V, C : Spared(V, C)
  BY DEF RaceInv
<1>1. SafetyInv'
  BY <1>i, QueueSteps, SafetyStep
<1>2. ItemsOK'
  BY <1>i, ItemsStep DEF SafetyInv
<1>3. RacersOK' /\ \E V2, C2 : Spared(V2, C2)'
  <2>1. ASSUME NEW w \in Writer, Call(w) \/ Lock(w) \/ Succeed(w) \/ Fail(w)
        PROVE  RacersOK' /\ Spared(V, C)'
    BY <1>i, <1>v, <2>1, CallRaces
  <2>2. ASSUME NEW w \in Writer, Copy(w) PROVE RacersOK' /\ Spared(V, C)'
    BY <1>i, <1>v, <2>2, CopyRaces
  <2>3. ASSUME NEW w \in Writer, Claim(w) PROVE RacersOK' /\ \E V2, C2 : Spared(V2, C2)'
    BY <1>i, <1>v, <2>3, ClaimRaces
  <2>4. CASE StartSwap
    BY <1>i, <1>v, <2>4, StoreRaces
  <2>5. CASE Deliver
    BY <1>i, <1>v, <2>5, DeliverRaces
  <2>6. CASE SwapOrRead
    BY <1>i, <1>v, <2>6, SwapRaces
  <2>7. CASE UNCHANGED deliveryVars
    <3>1. RacersOK' <=> RacersOK
      BY <2>7 DEF deliveryVars, vars, writerVars, readerVars, history, RacersOK, ReaderBuffer
    <3>2. Spared(V, C)' <=> Spared(V, C)
      BY <2>7 DEF deliveryVars, vars, writerVars, readerVars, history, Spared, Charged, Threats,
                  Threat, BeforeReset, ReaderBuffer, AllClear, Clear, Sharing, Placing, HasRoom,
                  ReturnedSafe, DueSafe, Whole, Sits, Free, Live
    <3> QED
      BY <1>i, <1>v, <3>1, <3>2
  <2> QED
    BY <2>1, <2>2, <2>3, <2>4, <2>5, <2>6, <2>7 DEF DeliveryNext
<1> QED
  BY <1>1, <1>2, <1>3 DEF RaceInv

\* What is lost when the reading is over was a racer or the victim of one.
LEMMA RaceBound == RaceInv => LossBoundedByRaces
<1> SUFFICES ASSUME RaceInv PROVE LossBoundedByRaces
  OBVIOUS
<1>t. TypeOK /\ IsFiniteSet(racers) /\ Cardinality(racers) \in Nat
  BY FS_CardinalityType DEF RaceInv, SafetyInv, CountInv, RacersOK
<1>v. PICK V, C : Spared(V, C)
  BY DEF RaceInv
<1>1. Lost \subseteq V \cup racers
  <2> SUFFICES ASSUME NEW i \in Lost, i \notin V \cup racers PROVE FALSE
    OBVIOUS
  <2>1. Phase = "idle" /\ i \in due /\ ~Whole(i)
    BY DEF Lost, Whole
  <2>2. rpc \in {"out", "cleared"}
    BY <1>t, <2>1 DEF Phase, TypeOK, Owning
  <2>3. Sits(ReaderBuffer, i)
    BY <1>v, <2>1 DEF Spared, DueSafe
  <2>4. ReaderBuffer # statePtr
    BY <1>t, BufFacts DEF TypeOK, ReaderBuffer
  <2>5. Live(ReaderBuffer) = {}
    BY <2>2, <2>4 DEF Live
  <2> QED
    BY <2>3, <2>5 DEF Sits
<1>2. /\ IsFiniteSet(V) /\ Cardinality(V) \in Nat
      /\ Cardinality(V) <= Cardinality(racers)
  <2>1. IsFiniteSet(V) /\ C \in SUBSET racers /\ Cardinality(V) <= Cardinality(C)
    BY <1>v DEF Spared, Charged
  <2>2. IsFiniteSet(C) /\ Cardinality(C) <= Cardinality(racers)
    BY <1>t, <2>1, FS_Subset
  <2>3. Cardinality(C) \in Nat /\ Cardinality(V) \in Nat
    BY <2>1, <2>2, FS_CardinalityType
  <2> QED
    BY <1>t, <2>1, <2>2, <2>3
<1>3. /\ IsFiniteSet(V \cup racers)
      /\ Cardinality(V \cup racers) <= 2 * Cardinality(racers)
  <2>1. /\ IsFiniteSet(V \cup racers)
        /\ Cardinality(V \cup racers)
             = Cardinality(V) + Cardinality(racers) - Cardinality(V \cap racers)
    BY <1>t, <1>2, FS_Union
  <2>2. Cardinality(V \cap racers) \in Nat
    <3>1. V \cap racers \in SUBSET racers
      OBVIOUS
    <3>2. IsFiniteSet(V \cap racers)
      BY <1>t, <3>1, FS_Subset
    <3> QED
      BY <3>2, FS_CardinalityType
  <2> QED
    BY <1>t, <1>2, <2>1, <2>2
<1>4. /\ IsFiniteSet(Lost)
      /\ Cardinality(Lost) <= Cardinality(V \cup racers)
  <2>1. Lost \in SUBSET (V \cup racers)
    BY <1>1
  <2> QED
    BY <1>3, <2>1, FS_Subset
<1>5. Cardinality(Lost) \in Nat /\ Cardinality(V \cup racers) \in Nat
  BY <1>3, <1>4, FS_CardinalityType
<1> QED
  BY <1>t, <1>3, <1>4, <1>5 DEF LossBoundedByRaces

\* Whatever the number of writers, of cells, of appends and of swaps: each call that slept
\* through the wait of a swap between the load of the pointer and the lock costs at most two
\* values for which append returned true, its own and the one of another call.
THEOREM RaceCost == DeliverySpec => []LossBoundedByRaces
<1> QED
  BY RaceInit, RaceStep, RaceBound, PTL DEF DeliverySpec
=============================================================================
