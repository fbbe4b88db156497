----------------------------- MODULE PointsLedger -----------------------------
(***************************************************************************)
(* What the panel promises the points programme about every real invoice:  *)
(* its points are granted at most once and, once returned, are never       *)
(* granted again ("una factura revocada no se puede volver a acumular",    *)
(* points-invoices.service.ts).  Nothing is said of how.                   *)
(***************************************************************************)
CONSTANT Invoice

VARIABLE points     \* what the customer got from each invoice

Init == points = [d \in Invoice |-> "none"]

Grant(d) ==
    /\ points[d] = "none"
    /\ points' = [points EXCEPT ![d] = "granted"]

Return(d) ==
    /\ points[d] = "granted"
    /\ points' = [points EXCEPT ![d] = "returned"]

Next == \E d \in Invoice : Grant(d) \/ Return(d)

Spec == Init /\ [][Next]_points
=============================================================================
