----------------------------- MODULE MCQuotations -----------------------------
(* One operation that is edited between two contents, without mishaps.     *)
EXTENDS Quotations
=============================================================================
