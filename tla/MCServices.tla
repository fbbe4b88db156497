------------------------------- MODULE MCServices -------------------------------
(* Requests that wait for somebody else: redemptions, tokens, shipments    *)
(* and customers; and the amounts of orders, where nothing has to happen.  *)
(* They share nothing, so each behaviour lets one of them move, and only   *)
(* the steps of that one are fair in it.                                   *)
EXTENDS PointsRedemptions, ProviderToken, Shipments, CustomerSync, MCOrderAmounts

VARIABLE moving

ServicesInit ==
    /\ moving \in {"redemptions", "tokens", "shipments", "customers", "amounts"}
    /\ Init /\ TokenInit /\ ShipmentsInit /\ CustomersInit /\ AmountsInit
    /\ moving = "shipments" \/ \A s \in Shop : parcelOf.order[s] = "local"
    /\ ficha.data = CHOOSE data \in Ficha : TRUE
    /\ moving = "amounts" \/ \A s \in Stores : shelf[s] = NoOrder
ServicesNext ==
    /\ UNCHANGED moving
    /\ \/ moving = "redemptions" /\ Next
            /\ UNCHANGED <<tokenVars, shipmentVars, customerVars, amountVars>>
       \/ moving = "tokens" /\ TokenNext
            /\ UNCHANGED <<vars, shipmentVars, customerVars, amountVars>>
       \/ moving = "shipments" /\ ShipmentsNext
            /\ UNCHANGED <<vars, tokenVars, customerVars, amountVars>>
       \/ moving = "customers" /\ CustomersNext
            /\ UNCHANGED <<vars, tokenVars, shipmentVars, amountVars>>
       \/ moving = "amounts" /\ AmountsNext
            /\ UNCHANGED <<vars, tokenVars, shipmentVars, customerVars>>

ServicesSpec ==
    /\ ServicesInit
    /\ [][ServicesNext]_<<moving, vars, tokenVars, shipmentVars, customerVars, amountVars>>
    /\ \A r \in Request : WF_vars(moving = "redemptions" /\ Continue(r))
    /\ \A c \in Caller : WF_tokenVars(moving = "tokens" /\ CallerStep(c))
    /\ \A r \in Shipper :
        /\ WF_shipmentVars(moving = "shipments" /\ ShipperStep(r))
        /\ \A s \in Shop : WF_shipmentVars(moving = "shipments" /\ ErrandStep(r, s))
    /\ \A r \in Syncer :
        /\ WF_customerVars(moving = "customers" /\ SyncerStep(r))
        /\ \A p \in Provider :
            WF_customerVars(moving = "customers" /\ SyncJobStep(r, p))

(* The rows, requests and amounts of the five have the declared shapes.    *)
ServicesTypeOK ==
    TypeOK /\ TokenTypeOK /\ ShipmentsTypeOK /\ CustomersTypeOK /\ AmountsTypeOK

(* No request waits for ever, whatever the other side answers and whoever  *)
(* else it waits for, and no row stays in the state that says so.          *)
ServicesSettle == ProcessingEnds /\ CallsEnd /\ ShipmentsSettle /\ SyncsEnd
=============================================================================
