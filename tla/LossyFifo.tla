----------------------------- MODULE LossyFifo -----------------------------
(***************************************************************************)
(* What an event ring promises its collector: the hits of a probe are      *)
(* taken in or dropped at once, what is taken in is delivered exactly once *)
(* and in the order in which it was taken in, at most Capacity of it is    *)
(* under way at any time, and nothing is dropped while the ring has room   *)
(* (the record under the callback still occupies its slot, hence the - 1). *)
(***************************************************************************)
EXTENDS Naturals, Sequences

CONSTANTS Hits, Capacity
VARIABLES accepted, delivered, dropped

UnderWay == Len(accepted) - Len(delivered)

Init == accepted = <<>> /\ delivered = <<>> /\ dropped = {}

Accept(e) ==
    /\ UnderWay < Capacity
    /\ accepted' = Append(accepted, e)
    /\ UNCHANGED <<delivered, dropped>>

Drop(e) ==
    /\ UnderWay >= Capacity - 1
    /\ dropped' = dropped \cup {e}
    /\ UNCHANGED <<accepted, delivered>>

Deliver ==
    /\ Len(delivered) < Len(accepted)
    /\ delivered' = Append(delivered, accepted[Len(delivered) + 1])
    /\ UNCHANGED <<accepted, dropped>>

Next == (\E e \in Hits : Accept(e) \/ Drop(e)) \/ Deliver

Spec == Init /\ [][Next]_<<accepted, delivered, dropped>>
=============================================================================
