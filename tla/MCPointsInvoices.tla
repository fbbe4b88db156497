--------------------------- MODULE MCPointsInvoices ---------------------------
(* Small instances of PointsInvoices for TLC. *)
EXTENDS PointsInvoices, TLC

(* Requests and users are interchangeable; documents are not (SeedDocs).    *)
Symmetry == Permutations(Request) \cup Permutations(User)
=============================================================================
