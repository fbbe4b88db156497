------------------------------- MODULE MCFaults -------------------------------
(* Redemptions, coupons and quotations under restarts, failing writes and  *)
(* late calls, logos under lost answers and deletions, and a product under *)
(* overlapping requests.  They share nothing, so each behaviour lets one   *)
(* of them move.                                                           *)
EXTENDS PointsRedemptions, CouponSync, ProductMirror, Quotations,
    Agreements, TLC

VARIABLE moving

FaultsInit ==
    /\ moving \in {"redemptions", "coupons", "product", "quotations", "logos"}
    /\ Init
    /\ CouponsInit
    /\ MirrorInit
    /\ QuotationsInit
    /\ AgreementsInit
    /\ moving # "product" => siigoHas = shopHas
    /\ moving # "quotations" => quoted.content = CHOOSE c \in Content : TRUE
FaultsNext ==
    /\ \/ moving = "redemptions" /\ Next
            /\ UNCHANGED <<couponVars, mirrorVars, quotationVars, agreementVars>>
       \/ moving = "coupons" /\ CouponsNext
            /\ UNCHANGED <<vars, mirrorVars, quotationVars, agreementVars>>
       \/ moving = "product" /\ MirrorNext
            /\ UNCHANGED <<vars, couponVars, quotationVars, agreementVars>>
       \/ moving = "quotations" /\ QuotationsNext
            /\ UNCHANGED <<vars, couponVars, mirrorVars, agreementVars>>
       \/ moving = "logos" /\ AgreementsNext
            /\ UNCHANGED <<vars, couponVars, mirrorVars, quotationVars>>
    /\ UNCHANGED moving
FaultsSpec ==
    /\ FaultsInit
    /\ [][FaultsNext]_<<moving, vars, couponVars, mirrorVars, quotationVars,
                        agreementVars>>

(* Requests and forms are interchangeable, as are the values of a product; *)
(* so are the two customers and the two stores, and as only one component  *)
(* moves, they are exchanged together.                                     *)
CONSTANTS a1, a2, SERATUS, PALI
Exchange ==
    a1 :> a2 @@ a2 :> a1 @@ SERATUS :> PALI @@ PALI :> SERATUS
Alike == Permutations(Request) \cup {Exchange} \cup Permutations(Price)

FaultsTypeOK == TypeOK /\ CouponsTypeOK /\ MirrorTypeOK /\ QuotationsTypeOK
                /\ AgreementsTypeOK
=============================================================================
