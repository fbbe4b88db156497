----------------------------- MODULE MCCouponSync -----------------------------
(* One request and no faults: what a call that comes too late does alone.  *)
EXTENDS CouponSync
=============================================================================
