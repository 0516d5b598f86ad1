-------------------------- MODULE MCCodingWorkflow --------------------------
(* Instances of CodingWorkflow for TLC.                                    *)
EXTENDS CodingWorkflow, TLC

CONSTANTS i1, i2, i3, i4, c1, c2

(* A low-risk change and a high-risk one that depends on it, listed first. *)
SecondAfterFirst == c1 :> {} @@ c2 :> {c1}
SwappedChanges == <<c2, c1>>
OneChange == <<c1>>
NoDependency == c1 :> {}

(* Reviews look at all items, deliveries at one.                           *)
OneItem == [p \in {"review", "delivery"} |-> {i1}]
MoreInReviews == [OneItem EXCEPT !["review"] = Item]

Deliveries(maxima, approvals, dispatched) ==
    [pattern : {"delivery"}, max : maxima, approval : approvals, dispatched : dispatched]
Reviews == [pattern : {"review"}, max : {0}, approval : {FALSE}, dispatched : {TRUE}]

AnyInput == Reviews \cup Deliveries({0, 1}, BOOLEAN, BOOLEAN)
ReviewOrRepair == Reviews \cup Deliveries({1}, {FALSE}, BOOLEAN)
                    \cup Deliveries({0}, {TRUE}, {TRUE})
=============================================================================
