-------------------------- MODULE BoundedDelivery --------------------------
(***************************************************************************)
(* What the double queue of RhIO promises to the threads that publish and  *)
(* log values, without buffers, pointers or counters.                      *)
(*                                                                         *)
(* An item that is accepted is delivered once, after the earlier items of  *)
(* its sender, and by the first batch whose swap starts after the append   *)
(* returned.  An item that is refused is never delivered.  Once a race has *)
(* happened (raced) items may be lost, repeated or mixed, but what is      *)
(* delivered is still made of accepted items only.                         *)
(***************************************************************************)
EXTENDS Naturals, Sequences, FiniteSets

CONSTANTS Item,               \* what is appended
          Precedes(_, _),     \* same sender, and sent before
          Capacity            \* the most items a batch may hold

VARIABLES accepted,   \* the items that got a place
          returned,   \* those whose append returned true
          due,        \* those the current swap has to hand over
          batch,      \* those handed over and not delivered yet
          delivered,  \* what the reader got: sets of items, singletons unless mixed
          phase,      \* "idle", "swapping" or "reading"
          raced       \* a race happened

vars == <<accepted, returned, due, batch, delivered, phase, raced>>

Delivered == UNION {delivered[k] : k \in DOMAIN delivered}
Waiting == accepted \ (Delivered \cup batch)

Init ==
    /\ accepted = {}
    /\ returned = {}
    /\ due = {}
    /\ batch = {}
    /\ delivered = <<>>
    /\ phase = "idle"
    /\ raced = FALSE

Accept(i) ==
    /\ i \notin accepted
    /\ accepted' = accepted \cup {i}
    /\ UNCHANGED <<returned, due, batch, delivered, phase, raced>>

Return(i) ==
    /\ i \in accepted \ returned
    /\ returned' = returned \cup {i}
    /\ UNCHANGED <<accepted, due, batch, delivered, phase, raced>>

StartSwap ==
    /\ phase = "idle"
    /\ phase' = "swapping"
    /\ due' = returned \ Delivered
    /\ UNCHANGED <<accepted, returned, batch, delivered, raced>>

\* The batch holds all that is due, and no item overtakes one of its sender.
HandOver(B) ==
    /\ phase = "swapping"
    /\ due \subseteq B
    /\ B \subseteq Waiting
    /\ \A i \in B, j \in Waiting : Precedes(j, i) => j \in B
    /\ Cardinality(B) <= Capacity
    /\ phase' = "reading"
    /\ batch' = B
    /\ UNCHANGED <<accepted, returned, due, delivered, raced>>

Deliver(i) ==
    /\ phase = "reading"
    /\ i \in batch
    /\ \A j \in batch : ~Precedes(j, i)
    /\ batch' = batch \ {i}
    /\ delivered' = Append(delivered, {i})
    /\ UNCHANGED <<accepted, returned, due, phase, raced>>

EndBatch ==
    /\ phase = "reading"
    /\ batch = {}
    /\ phase' = "idle"
    /\ UNCHANGED <<accepted, returned, due, batch, delivered, raced>>

\* After a race only this much is left of the promise.
Disturbed ==
    /\ raced'
    /\ accepted \subseteq accepted'
    /\ returned \subseteq returned'
    /\ returned' \subseteq accepted'
    /\ \/ delivered' = delivered
       \/ \E c \in SUBSET accepted' : delivered' = Append(delivered, c)

Next ==
    \/ \E i \in Item : Accept(i) \/ Return(i) \/ Deliver(i)
    \/ StartSwap
    \/ \E B \in SUBSET Waiting : HandOver(B)
    \/ EndBatch
    \/ Disturbed

Spec == Init /\ [][Next]_vars
=============================================================================
