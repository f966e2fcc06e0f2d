--------------------------- MODULE QueueDelivery ---------------------------
(***************************************************************************)
(* What becomes of each value given to a LockFreeDoubleQueue: the queue    *)
(* with history variables that record what appendFromWriter answered and   *)
(* what the loops of ServerPub::sendToClient and ServerLog::tick copied    *)
(* out.  The values appended are all different: <<w, n>> is the n-th value *)
(* of writer w.                                                            *)
(***************************************************************************)
EXTENDS LockFreeDoubleQueue, Sequences

CONSTANT MaxCalls    \* bound, per writer: the appends it makes

Item == UNION {{w} \X (1 .. MaxCalls[w]) : w \in Writer}

ASSUME DeliveryAssumption == MaxCalls \in [Writer -> Nat] /\ Item \subseteq Value

VARIABLES
    calls,      \* per writer: the appends it started
    accepted,   \* the items that claimed a cell
    returned,   \* the items whose append returned true
    due,        \* those returned and not delivered when the last swap started
    delivered,  \* what the reader copied out, in order
    racers      \* the items whose call took the lock of the reader's buffer

history == <<calls, accepted, returned, due, delivered, racers>>
deliveryVars == <<vars, history>>

Delivered == UNION {delivered[k] : k \in DOMAIN delivered}

DeliveryInit ==
    /\ Init
    /\ calls = [w \in Writer |-> 0]
    /\ accepted = {}
    /\ returned = {}
    /\ due = {}
    /\ delivered = <<>>
    /\ racers = {}

Call(w) ==
    /\ calls[w] < MaxCalls[w]
    /\ LoadState(w, <<w, calls[w] + 1>>)
    /\ calls' = [calls EXCEPT ![w] = @ + 1]
    /\ UNCHANGED <<accepted, returned, due, delivered, racers>>

Lock(w) ==
    /\ TakeLock(w)
    /\ racers' = IF late'[w] THEN racers \cup {val[w]} ELSE racers
    /\ UNCHANGED <<calls, accepted, returned, due, delivered>>

Claim(w) ==
    /\ ClaimIndex(w)
    /\ accepted' = IF HasRoom(w)' THEN accepted \cup {val[w]} ELSE accepted
    /\ UNCHANGED <<calls, returned, due, delivered, racers>>

Copy(w) ==
    /\ BeginCopy(w) \/ EndCopy(w)
    /\ UNCHANGED history

Succeed(w) ==
    /\ ReturnTrue(w)
    /\ returned' = returned \cup {val[w]}
    /\ UNCHANGED <<calls, accepted, due, delivered, racers>>

Fail(w) == ReturnFalse(w) /\ UNCHANGED history

StartSwap ==
    /\ StorePointer
    /\ due' = returned \ Delivered
    /\ UNCHANGED <<calls, accepted, returned, delivered, racers>>

Deliver ==
    /\ ReadCell
    /\ delivered' = Append(delivered, buffer[ReaderBuffer][next])
    /\ UNCHANGED <<calls, accepted, returned, due, racers>>

SwapOrRead ==
    /\ ResetLength \/ WaitWriters \/ GetSize \/ EndRead
    /\ UNCHANGED history

DeliveryNext ==
    \/ \E w \in Writer : \/ Call(w)
                         \/ Lock(w)
                         \/ Claim(w)
                         \/ Copy(w)
                         \/ Succeed(w)
                         \/ Fail(w)
    \/ StartSwap
    \/ Deliver
    \/ SwapOrRead

DeliverySpec == DeliveryInit /\ [][DeliveryNext]_deliveryVars

-----------------------------------------------------------------------------
(* Refinement *)

Precedes(i, j) == i[1] = j[1] /\ i[2] < j[2]

Unread ==
    IF rpc = "reading"
    THEN UNION {buffer[ReaderBuffer][i] : i \in next .. size - 1}
    ELSE {}

Phase ==
    CASE rpc \in {"out", "cleared"} -> "idle"
      [] rpc \in {"waiting", "owned"} -> "swapping"
      [] rpc = "reading" -> "reading"

Channel == INSTANCE BoundedDelivery WITH
    Capacity <- MaxSize,
    batch <- Unread,
    phase <- Phase,
    raced <- racers # {}

\* The double queue keeps the promise of BoundedDelivery, the exact one as long
\* as no call ever slept between the load of the pointer and the increment of
\* stillWriting for the whole of a swap's wait, the weak one afterwards.
KeepsPromise == Channel!Spec

\* What was returned as true before a swap started and was not delivered whole
\* when the reading that follows it is over.
Lost ==
    IF Phase = "idle" THEN {i \in due : \A k \in DOMAIN delivered : delivered[k] # {i}}
    ELSE {}

\* A race costs at most two values: the one of the call that raced and one of
\* another call that was given the same cell or was being read out of it.
LossBoundedByRaces == Cardinality(Lost) <= 2 * Cardinality(racers)

\* appendFromWriter: "Return false if the value has to be dropped", so a value
\* for which it returned true before a swap is read after that swap.
TrueMeansDelivered == Lost = {}
=============================================================================
