------------------------ MODULE LockFreeDoubleQueue ------------------------
(***************************************************************************)
(* The lock-free double queue of RhIO                                      *)
(* (Common/include/rhio_common/LockFreeDoubleQueue.hpp).                   *)
(*                                                                         *)
(* Real-time writers append to the buffer statePtr points at while one     *)
(* reader (the publisher thread or the logger thread) empties the other    *)
(* one.  Every atomic operation of the code is one action, and the copy of *)
(* a value into a cell, which is not atomic, is two.  Nothing bounds the   *)
(* number of appends or of swaps.                                          *)
(***************************************************************************)
EXTENDS Integers, FiniteSets

CONSTANTS Writer,   \* the threads that call appendFromWriter
          Value,    \* the values they append
          MaxSize   \* _maxSize, the number of cells of each buffer

ASSUME QueueAssumption == IsFiniteSet(Writer) /\ MaxSize \in Nat

VARIABLES statePtr,      \* _statePtr: the buffer new appends go to
          stillWriting,  \* per buffer: number of writers holding it
          length,        \* per buffer: index of the next free cell
          buffer,        \* per buffer and cell: the values whose bytes it holds
          wpc,           \* per writer: where it is in appendFromWriter
          state,         \* per writer: its copy of the pointer
          index,         \* per writer: the cell it claimed
          val,           \* per writer: its argument
          covered,       \* per writer: what its copy overwrites in the cell
          late,          \* per writer: it took the lock of the reader's buffer
          rpc,           \* where the reader is
          size,          \* what getSizeFromReader returned
          next           \* the next cell the reader copies out

writerVars == <<wpc, state, index, val, covered, late>>
readerVars == <<rpc, size, next>>
vars == <<statePtr, stillWriting, length, buffer, writerVars, readerVars>>

Buf == {1, 2}
Other(b) == 3 - b
Cell == 0 .. MaxSize - 1

\* A length above MaxSize is never told from another one: the writers test
\* index < _maxSize and the reader shrinks what it reads, so one value stands
\* for all of them.
Length == 0 .. MaxSize + 1
Incremented(n) == IF n > MaxSize THEN n ELSE n + 1

\* The calls that hold a buffer: between stillWriting++ and stillWriting--.
Locked == {"locked", "claimed", "copying", "copied"}
Holders(b) == {w \in Writer : wpc[w] \in Locked /\ state[w] = b}

\* The reader owns the buffer the pointer does not name, except from the moment
\* it moves the pointer until it has seen stillWriting = 0.
ReaderBuffer == Other(statePtr)
Owning == {"out", "cleared", "owned", "reading"}

Init ==
    /\ statePtr = 1
    /\ stillWriting = [b \in Buf |-> 0]
    /\ length = [b \in Buf |-> 0]
    /\ buffer = [b \in Buf |-> [i \in Cell |-> {}]]
    /\ wpc = [w \in Writer |-> "idle"]
    /\ state = [w \in Writer |-> 1]
    /\ index = [w \in Writer |-> 0]
    /\ val \in [Writer -> Value]
    /\ covered = [w \in Writer |-> {}]
    /\ late = [w \in Writer |-> FALSE]
    /\ rpc = "out"
    /\ size = 0
    /\ next = 0

-----------------------------------------------------------------------------
(* appendFromWriter *)

\* State_t* state = _statePtr.load()
LoadState(w, v) ==
    /\ wpc[w] = "idle"
    /\ wpc' = [wpc EXCEPT ![w] = "loaded"]
    /\ state' = [state EXCEPT ![w] = statePtr]
    /\ val' = [val EXCEPT ![w] = v]
    /\ UNCHANGED <<statePtr, stillWriting, length, buffer, index, covered, late, readerVars>>

\* state->stillWriting.fetch_add(1); late is a history variable.
TakeLock(w) ==
    /\ wpc[w] = "loaded"
    /\ wpc' = [wpc EXCEPT ![w] = "locked"]
    /\ stillWriting' = [stillWriting EXCEPT ![state[w]] = @ + 1]
    /\ late' = [late EXCEPT ![w] = state[w] = ReaderBuffer /\ rpc \in Owning]
    /\ UNCHANGED <<statePtr, length, buffer, state, index, val, covered, readerVars>>

\* size_t index = state->length.fetch_add(1)
ClaimIndex(w) ==
    /\ wpc[w] = "locked"
    /\ wpc' = [wpc EXCEPT ![w] = "claimed"]
    /\ index' = [index EXCEPT ![w] = length[state[w]]]
    /\ length' = [length EXCEPT ![state[w]] = Incremented(@)]
    /\ UNCHANGED <<statePtr, stillWriting, buffer, state, val, covered, late, readerVars>>

HasRoom(w) == index[w] < MaxSize

\* The values of the other calls that are copying into w's cell right now.
Rivals(w) == {val[x] : x \in {x \in Writer \ {w} :
                /\ wpc[x] = "copying"
                /\ state[x] = state[w]
                /\ index[x] = index[w]}}

\* state->buffer[index] = val starts: the cell holds a part of val and of what
\* was there.  The copy will overwrite the old bytes, not those of a rival.
BeginCopy(w) ==
    /\ wpc[w] = "claimed"
    /\ HasRoom(w)
    /\ wpc' = [wpc EXCEPT ![w] = "copying"]
    /\ covered' = [covered EXCEPT ![w] = buffer[state[w]][index[w]] \ Rivals(w)]
    /\ buffer' = [buffer EXCEPT ![state[w]][index[w]] = @ \cup {val[w]}]
    /\ UNCHANGED <<statePtr, stillWriting, length, state, index, val, late, readerVars>>

\* ... and ends.
EndCopy(w) ==
    /\ wpc[w] = "copying"
    /\ wpc' = [wpc EXCEPT ![w] = "copied"]
    /\ buffer' = [buffer EXCEPT ![state[w]][index[w]] = (@ \ covered[w]) \cup {val[w]}]
    /\ covered' = [covered EXCEPT ![w] = {}]
    /\ UNCHANGED <<statePtr, stillWriting, length, state, index, val, late, readerVars>>

\* The decrement goes to the buffer the call loaded, not to the current one.
ReleasedNow(w) == statePtr
Released(w) == state[w]

\* state->stillWriting.fetch_sub(1); return isOk.  The locals go out of scope.
Unlock(w) ==
    /\ wpc' = [wpc EXCEPT ![w] = "idle"]
    /\ stillWriting' = [stillWriting EXCEPT ![Released(w)] = @ - 1]
    /\ state' = [state EXCEPT ![w] = 1]
    /\ index' = [index EXCEPT ![w] = 0]
    /\ late' = [late EXCEPT ![w] = FALSE]
    /\ UNCHANGED <<statePtr, length, buffer, val, covered, readerVars>>

ReturnTrue(w) == wpc[w] = "copied" /\ Unlock(w)

ReturnFalseHolding(w) ==
    /\ wpc[w] = "claimed"
    /\ ~HasRoom(w)
    /\ wpc' = [wpc EXCEPT ![w] = "idle"]
    /\ UNCHANGED <<statePtr, stillWriting, length, buffer, state, index, val, covered,
                   late, readerVars>>
ReturnFalse(w) == wpc[w] = "claimed" /\ ~HasRoom(w) /\ Unlock(w)

-----------------------------------------------------------------------------
(* swapBufferFromReader, getSizeFromReader and the reader's loop *)

\* The length that is reset is the one of the buffer writers will be sent to.
ResetCurrent == statePtr
ResetBuffer == ReaderBuffer

\* Only the reader moves the pointer: its load is part of its next step.
ResetLength ==
    /\ rpc = "out"
    /\ rpc' = "cleared"
    /\ length' = [length EXCEPT ![ResetBuffer] = 0]
    /\ UNCHANGED <<statePtr, stillWriting, buffer, writerVars, size, next>>

StorePointer ==
    /\ rpc = "cleared"
    /\ rpc' = "waiting"
    /\ statePtr' = Other(statePtr)
    /\ UNCHANGED <<stillWriting, length, buffer, writerVars, size, next>>

WritersGoneFromNew == stillWriting[statePtr] = 0
WritersGone == stillWriting[ReaderBuffer] = 0

\* while (stateOld->stillWriting.load() != 0): the iteration that leaves it
WaitWriters ==
    /\ rpc = "waiting"
    /\ WritersGone
    /\ rpc' = "owned"
    /\ UNCHANGED <<statePtr, stillWriting, length, buffer, writerVars, size, next>>

NotShrunk(n) == n
Shrunk(n) == IF n > MaxSize THEN MaxSize ELSE n

\* getBufferFromReader() and getSizeFromReader()
GetSize ==
    /\ rpc = "owned"
    /\ rpc' = "reading"
    /\ size' = Shrunk(length[ReaderBuffer])
    /\ next' = 0
    /\ UNCHANGED <<statePtr, stillWriting, length, buffer, writerVars>>

\* for (size_t i=0;i<size;i++) copy buffer[i] out
ReadCell ==
    /\ rpc = "reading"
    /\ next < size
    /\ next' = next + 1
    /\ UNCHANGED <<statePtr, stillWriting, length, buffer, writerVars, rpc, size>>

EndRead ==
    /\ rpc = "reading"
    /\ next = size
    /\ rpc' = "out"
    /\ size' = 0
    /\ next' = 0
    /\ UNCHANGED <<statePtr, stillWriting, length, buffer, writerVars>>

-----------------------------------------------------------------------------
Running(w) ==
    \/ TakeLock(w)
    \/ ClaimIndex(w)
    \/ BeginCopy(w)
    \/ EndCopy(w)
    \/ ReturnTrue(w)
    \/ ReturnFalse(w)

Reader ==
    \/ ResetLength
    \/ StorePointer
    \/ WaitWriters
    \/ GetSize
    \/ ReadCell
    \/ EndRead

Next ==
    \/ \E w \in Writer : (\E v \in Value : LoadState(w, v)) \/ Running(w)
    \/ Reader

Spec == Init /\ [][Next]_vars

\* No thread stops in the middle of a call: a writer inside appendFromWriter
\* and the reader's loop are always scheduled again.  Nobody has to call
\* appendFromWriter, and no order between the threads is assumed.
FairSpec == Spec /\ WF_vars(Reader) /\ \A w \in Writer : WF_vars(Running(w))

-----------------------------------------------------------------------------
(* Properties *)

TypeOK ==
    /\ statePtr \in Buf
    /\ stillWriting \in [Buf -> Nat]
    /\ length \in [Buf -> Length]
    /\ buffer \in [Buf -> [Cell -> SUBSET Value]]
    /\ wpc \in [Writer -> {"idle", "loaded"} \cup Locked]
    /\ state \in [Writer -> Buf]
    /\ index \in [Writer -> Length]
    /\ val \in [Writer -> Value]
    /\ covered \in [Writer -> SUBSET Value]
    /\ late \in [Writer -> BOOLEAN]
    /\ rpc \in Owning \cup {"waiting"}
    /\ size \in 0 .. MaxSize
    /\ next \in 0 .. size

\* stillWriting counts the calls that hold the buffer, whatever the number of
\* swaps a call slept through: the swap never waits for a call that is over and
\* never overlooks one that is not.
LockCount == \A b \in Buf : stillWriting[b] = Cardinality(Holders(b))

\* The only way a call can hold the buffer that the reader owns is to have been
\* preempted between the load of the pointer and the increment of stillWriting
\* until the reader had finished waiting.
ReaderOwns ==
    rpc \in Owning => \A w \in Holders(ReaderBuffer) : late[w]

\* Two calls never claim the same cell of the same buffer, unless one of them
\* held the buffer while the reader owned it and reset its length.
ClaimedOnce ==
    \A w, x \in Writer :
        /\ w # x
        /\ {wpc[w], wpc[x]} \subseteq Locked \ {"locked"}
        /\ state[w] = state[x]
        /\ index[w] = index[x]
        /\ HasRoom(w)
        => late[w] \/ late[x]

\* The active wait of swapBufferFromReader ends, however many appends are
\* started meanwhile: they go to the other buffer, and only the calls that
\* loaded the pointer before the swap can still take the lock waited for.
SwapTerminates == rpc = "waiting" ~> rpc = "owned"
=============================================================================
