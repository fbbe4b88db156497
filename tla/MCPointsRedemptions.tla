-------------------------- MODULE MCPointsRedemptions --------------------------
(* Small instances of PointsRedemptions for TLC. *)
EXTENDS PointsRedemptions, TLC

(* Requests, customers and invoices are interchangeable; rows, codes and    *)
(* seconds are numbers.                                                     *)
Symmetry ==
    Permutations(Request) \cup Permutations(Account) \cup Permutations(Invoice)
=============================================================================
