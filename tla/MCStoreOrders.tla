---------------------------- MODULE MCStoreOrders ----------------------------
(* SERATUS may have two orders, the first of which changes once.  The      *)
(* first operation may be created in the CRM, of either store; an edit     *)
(* moves it from one to the other.  The second one can only be imported.   *)
EXTENDS StoreOrders, TLC
CONSTANTS SERATUS, PALI

Shelves == [s \in Store |-> IF s = SERATUS THEN <<2, 1>> ELSE <<>>]
Basket ==
    [o \in 1..MaxOps |-> IF o = 1 THEN {{SERATUS}, {PALI}} ELSE {}]
Alike == Permutations(Handler)
=============================================================================
