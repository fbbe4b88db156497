------------------------------- MODULE Shipments -------------------------------
(***************************************************************************)
(* The shipment of an operation and its publication in the stores.         *)
(*                                                                         *)
(*   apps/api/src/orders/shipment-sync.service.ts                          *)
(*   apps/api/src/orders/orders.repository.ts  (shipments,                 *)
(*                                              shipment_store_syncs)      *)
(*                                                                         *)
(* An assignment replaces the shipment and marks one row per store, claims *)
(* the rows, and updates each store's order, all stores at once.  A retry  *)
(* claims only the rows that failed.  The n-th assignment stands for its   *)
(* carrier, number and status; the orders come from StoreOrders' side and  *)
(* are linked, reopened and dropped here by actions of their own.          *)
(***************************************************************************)
EXTENDS Naturals, FiniteSets

CONSTANTS
    Shop,             \* the stores
    Shipper,          \* requests that may be in progress together
    MaxAssignments,   \* bound: assignments of the shipment
    MaxShipMishaps    \* bound: restarts, failing writes, late calls

ASSUME ShipmentsAssumption ==
    MaxAssignments \in Nat /\ MaxShipMishaps \in Nat

VARIABLES
    parcelOf,        \* the operation: its state, and its order per store
    shipment,        \* the last assignment; 0: there is no shipment
    storeSyncs,      \* its rows of shipment_store_syncs
    shipper,         \* where each request is
    errand,          \* the job of each request for each store
    tracked,         \* the assignment that the order of each store shows
    lateShipments,   \* calls given up on that have not reached the store yet
    doubtful,        \* stores for which two requests worked at once, or
                     \* that an assignment passed by
    shipMishaps      \* how many of the mishaps there were

shipmentVars == <<parcelOf, shipment, storeSyncs, shipper, errand, tracked,
                  lateShipments, doubtful, shipMishaps>>

Assignment == 0..MaxAssignments
SyncStatus == {"NONE", "PENDING", "SYNCING", "SYNCED", "ERROR"}
OrderLink == {"none", "local", "linked"}
Parcel == [state : {"COMPLETED", "OPEN", "DELETED"}, order : [Shop -> OrderLink]]
ShipperState ==
    [at : {"idle", "work"}] \cup
    [at : {"claim"}, retry : BOOLEAN] \cup
    [at : {"load"}, claimed : SUBSET Shop]
Errand ==
    [at : {"none", "ok", "fail"}] \cup
    [at : {"call"}, shipment : Assignment, again : BOOLEAN]
StoreCall == [store : Shop, shipment : Assignment]

NotShipping == [at |-> "idle"]
NoErrand == [at |-> "none"]
NoRows == [s \in Shop |-> "NONE"]

ShipmentsInit ==
    /\ parcelOf \in [state : {"COMPLETED"}, order : [Shop -> {"local", "linked"}]]
    /\ shipment = 0
    /\ storeSyncs = NoRows
    /\ shipper = [r \in Shipper |-> NotShipping]
    /\ errand = [r \in Shipper |-> [s \in Shop |-> NoErrand]]
    /\ tracked = [s \in Shop |-> 0]
    /\ lateShipments = {}
    /\ doubtful = {}
    /\ shipMishaps = 0

ShipperAt(r, state) == shipper' = [shipper EXCEPT ![r] = state]
ErrandAt(r, s, state) == errand' = [errand EXCEPT ![r][s] = state]
ShipMishap ==
    /\ shipMishaps < MaxShipMishaps
    /\ shipMishaps' = shipMishaps + 1

-----------------------------------------------------------------------------
(* The operation and its orders change under the shipment                  *)

(* The order of a store is created, or adopted from its webhook.           *)
LinkOrder(s) ==
    /\ parcelOf.state # "DELETED"
    /\ parcelOf.order[s] = "local"
    /\ parcelOf' = [parcelOf EXCEPT !.order[s] = "linked"]
    /\ UNCHANGED <<shipment, storeSyncs, shipper, errand, tracked,
                   lateShipments, doubtful, shipMishaps>>

(* A reopened operation may drop the order of a store (it keeps another,   *)
(* perhaps of a store outside Shop); the row of the shipment stays.        *)
ReopenParcel ==
    /\ parcelOf.state = "COMPLETED"
    /\ parcelOf' = [parcelOf EXCEPT !.state = "OPEN"]
    /\ UNCHANGED <<shipment, storeSyncs, shipper, errand, tracked,
                   lateShipments, doubtful, shipMishaps>>

DropOrder(s) ==
    /\ parcelOf.state = "OPEN"
    /\ parcelOf' = [parcelOf EXCEPT !.order[s] = "none"]
    /\ UNCHANGED <<shipment, storeSyncs, shipper, errand, tracked,
                   lateShipments, doubtful, shipMishaps>>

(* Its next completion finds the order that the store still has.           *)
ReturnOrder(s) ==
    /\ parcelOf.state = "OPEN"
    /\ parcelOf.order[s] = "none"
    /\ parcelOf' = [parcelOf EXCEPT !.order[s] = "local"]
    /\ UNCHANGED <<shipment, storeSyncs, shipper, errand, tracked,
                   lateShipments, doubtful, shipMishaps>>

CloseParcel ==
    /\ parcelOf.state = "OPEN"
    /\ parcelOf' = [parcelOf EXCEPT !.state = "COMPLETED"]
    /\ UNCHANGED <<shipment, storeSyncs, shipper, errand, tracked,
                   lateShipments, doubtful, shipMishaps>>

(* The shipment and its rows go with the operation.                        *)
DeleteParcel ==
    /\ parcelOf.state # "DELETED"
    /\ parcelOf' = [parcelOf EXCEPT !.state = "DELETED"]
    /\ shipment' = 0
    /\ storeSyncs' = NoRows
    /\ UNCHANGED <<shipper, errand, tracked, lateShipments, doubtful, shipMishaps>>

-----------------------------------------------------------------------------
(* updateShipment and retryShipmentSync                                    *)

(* A store that is being updated is left as it is.                         *)
SlipMarkedRows ==
    [s \in Shop |->
        IF parcelOf.order[s] = "none" \/ storeSyncs[s] = "SYNCING" THEN storeSyncs[s]
        ELSE IF parcelOf.order[s] = "linked" THEN "PENDING" ELSE "ERROR"]

(* Whatever the row was: a call in progress carries the old data.          *)
MarkedRows ==
    [s \in Shop |->
        CASE parcelOf.order[s] = "linked" -> "PENDING"
          [] parcelOf.order[s] = "local"  -> "ERROR"
          [] OTHER                        -> storeSyncs[s]]

UpdateShipment(r) ==
    /\ shipper[r] = NotShipping
    /\ parcelOf.state = "COMPLETED"
    /\ shipment < MaxAssignments
    /\ shipment' = shipment + 1
    /\ storeSyncs' = MarkedRows
    /\ doubtful' = doubtful \cup {s \in Shop : parcelOf.order[s] = "none"}
    /\ ShipperAt(r, [at |-> "claim", retry |-> FALSE])
    /\ UNCHANGED <<parcelOf, errand, tracked, lateShipments, shipMishaps>>

(* Whatever the operation has become, if it has a shipment.                *)
RetryShipment(r) ==
    /\ shipper[r] = NotShipping
    /\ shipment # 0
    /\ ShipperAt(r, [at |-> "claim", retry |-> TRUE])
    /\ UNCHANGED <<parcelOf, shipment, storeSyncs, errand, tracked,
                   lateShipments, doubtful, shipMishaps>>

-----------------------------------------------------------------------------
(* synchronize                                                             *)

Claimable(retry) == IF retry THEN {"ERROR"} ELSE {"PENDING", "ERROR"}

(* The update of each row repeats the condition on its status.             *)
ClaimShipments(r) ==
    /\ shipper[r].at = "claim"
    /\ LET claimed == {s \in Shop : storeSyncs[s] \in Claimable(shipper[r].retry)}
       IN  /\ storeSyncs' = [s \in Shop |->
                    IF s \in claimed THEN "SYNCING" ELSE storeSyncs[s]]
           /\ ShipperAt(r, IF claimed = {} THEN NotShipping
                           ELSE [at |-> "load", claimed |-> claimed])
           /\ doubtful' = doubtful \cup {s \in claimed :
                \E o \in Shipper : \/ errand[o][s] # NoErrand
                                   \/ shipper[o].at = "load" /\ s \in shipper[o].claimed}
    /\ UNCHANGED <<parcelOf, shipment, errand, tracked, lateShipments, shipMishaps>>

(* A store without an order is not called: its row takes the error.        *)
LoadShipment(r) ==
    /\ shipper[r].at = "load"
    /\ errand' = [errand EXCEPT ![r] = [s \in Shop |->
            IF s \notin shipper[r].claimed \/ storeSyncs[s] # "SYNCING" THEN NoErrand
            ELSE IF parcelOf.order[s] = "linked"
            THEN [at |-> "call", shipment |-> shipment, again |-> FALSE]
            ELSE [at |-> "fail"]]]
    /\ ShipperAt(r, [at |-> "work"])
    /\ UNCHANGED <<parcelOf, shipment, storeSyncs, tracked, lateShipments,
                   doubtful, shipMishaps>>

(* A call without an answer is repeated once.                              *)
Repeated(r, s) ==
    ErrandAt(r, s, IF errand[r][s].again THEN [at |-> "fail"]
                   ELSE [errand[r][s] EXCEPT !.again = TRUE])

StoreTakesShipment(r, s) ==
    /\ errand[r][s].at = "call"
    /\ tracked' = [tracked EXCEPT ![s] = errand[r][s].shipment]
    /\ ErrandAt(r, s, [at |-> "ok"])
    /\ UNCHANGED <<parcelOf, shipment, storeSyncs, shipper, lateShipments,
                   doubtful, shipMishaps>>

StoreAnswerLost(r, s) ==
    /\ errand[r][s].at = "call"
    /\ tracked' = [tracked EXCEPT ![s] = errand[r][s].shipment]
    /\ Repeated(r, s)
    /\ UNCHANGED <<parcelOf, shipment, storeSyncs, shipper, lateShipments,
                   doubtful, shipMishaps>>

(* A refusal is final; an error of the store itself is not, the first time. *)
StoreRefuses(r, s) ==
    /\ errand[r][s].at = "call"
    /\ ErrandAt(r, s, [at |-> "fail"]) \/ Repeated(r, s)
    /\ UNCHANGED <<parcelOf, shipment, storeSyncs, shipper, tracked,
                   lateShipments, doubtful, shipMishaps>>

StoreTimesOut(r, s) ==
    /\ errand[r][s].at = "call"
    /\ ShipMishap
    /\ lateShipments' = lateShipments \cup
            {[store |-> s, shipment |-> errand[r][s].shipment]}
    /\ Repeated(r, s)
    /\ UNCHANGED <<parcelOf, shipment, storeSyncs, shipper, tracked, doubtful>>

LateShipmentArrives(call) ==
    /\ call \in lateShipments
    /\ lateShipments' = lateShipments \ {call}
    /\ tracked' = [tracked EXCEPT ![call.store] = call.shipment]
    /\ UNCHANGED <<parcelOf, shipment, storeSyncs, shipper, errand, doubtful,
                   shipMishaps>>

(* Only a row that is SYNCING takes the result.                            *)
Marked(r, s) ==
    IF storeSyncs[s] # "SYNCING" THEN storeSyncs[s]
    ELSE IF errand[r][s].at = "ok" THEN "SYNCED" ELSE "ERROR"

MarkShipment(r, s) ==
    /\ errand[r][s].at \in {"ok", "fail"}
    /\ storeSyncs' = [storeSyncs EXCEPT ![s] = Marked(r, s)]
    /\ ErrandAt(r, s, NoErrand)
    /\ UNCHANGED <<parcelOf, shipment, shipper, tracked, lateShipments,
                   doubtful, shipMishaps>>

(* The write of SYNCED fails, and the catch marks the error; the write of  *)
(* the error fails, and the row stays as it is.                            *)
MarkShipmentFails(r, s) ==
    /\ errand[r][s].at \in {"ok", "fail"}
    /\ ShipMishap
    /\ ErrandAt(r, s, IF errand[r][s].at = "ok" THEN [at |-> "fail"] ELSE NoErrand)
    /\ UNCHANGED <<parcelOf, shipment, storeSyncs, shipper, tracked,
                   lateShipments, doubtful>>

(* Promise.all: the request goes on when its stores are done.              *)
ShipmentDone(r) ==
    /\ shipper[r].at = "work"
    /\ \A s \in Shop : errand[r][s] = NoErrand
    /\ ShipperAt(r, NotShipping)
    /\ UNCHANGED <<parcelOf, shipment, storeSyncs, errand, tracked,
                   lateShipments, doubtful, shipMishaps>>

(* The process restarts; a call on its way may still arrive.               *)
ShipmentsRestart ==
    /\ ShipMishap
    /\ shipper' = [r \in Shipper |-> NotShipping]
    /\ errand' = [r \in Shipper |-> [s \in Shop |-> NoErrand]]
    /\ \E calls \in SUBSET
            {[store |-> p[2], shipment |-> errand[p[1]][p[2]].shipment] : p \in
                {q \in Shipper \X Shop : errand[q[1]][q[2]].at = "call"}} :
            lateShipments' = lateShipments \cup calls
    /\ UNCHANGED <<parcelOf, shipment, storeSyncs, tracked, doubtful>>

ErrandStep(r, s) ==
    \/ StoreTakesShipment(r, s) \/ StoreAnswerLost(r, s) \/ StoreRefuses(r, s)
    \/ StoreTimesOut(r, s) \/ MarkShipment(r, s) \/ MarkShipmentFails(r, s)
ShipperStep(r) == ClaimShipments(r) \/ LoadShipment(r) \/ ShipmentDone(r)

ShipmentsNext ==
    \/ ReopenParcel \/ CloseParcel \/ DeleteParcel
    \/ \E s \in Shop : LinkOrder(s) \/ DropOrder(s) \/ ReturnOrder(s)
    \/ \E r \in Shipper :
        \/ UpdateShipment(r) \/ RetryShipment(r) \/ ShipperStep(r)
        \/ \E s \in Shop : ErrandStep(r, s)
    \/ \E call \in lateShipments : LateShipmentArrives(call)
    \/ ShipmentsRestart

ShipmentsSpec == ShipmentsInit /\ [][ShipmentsNext]_shipmentVars
(* Every wait of a request has a time limit.                               *)
ShipmentsFairness ==
    \A r \in Shipper :
        /\ WF_shipmentVars(ShipperStep(r))
        /\ \A s \in Shop : WF_shipmentVars(ErrandStep(r, s))
ShipmentsFairSpec == ShipmentsSpec /\ ShipmentsFairness

-----------------------------------------------------------------------------
(* Properties                                                              *)

(* The rows, the requests and the calls have the declared shapes, and only *)
(* a shipment has rows.                                                    *)
ShipmentsTypeOK ==
    /\ parcelOf \in Parcel
    /\ shipment \in Assignment
    /\ storeSyncs \in [Shop -> SyncStatus]
    /\ shipment = 0 => storeSyncs = NoRows
    /\ shipper \in [Shipper -> ShipperState]
    /\ errand \in [Shipper -> [Shop -> Errand]]
    /\ tracked \in [Shop -> Assignment]
    /\ lateShipments \subseteq StoreCall
    /\ doubtful \subseteq Shop
    /\ shipMishaps \in 0..MaxShipMishaps

(* A store shown as SYNCED shows the last assignment: the result of a call *)
(* with the data of an earlier one is not recorded, unless two requests    *)
(* worked for the store at once, an assignment came while the operation    *)
(* had no order there, or a call comes late.                               *)
SyncedIsCurrent ==
    \A s \in Shop :
        /\ storeSyncs[s] = "SYNCED"
        /\ s \notin doubtful /\ shipMishaps = 0
        => tracked[s] = shipment

(* Why: a request has errands only while it works, ...                     *)
ErrandsAreWorked ==
    \A r \in Shipper : shipper[r].at # "work" => \A s \in Shop : errand[r][s] = NoErrand

(* ... one request at a time works for the store, a row that is SYNCING    *)
(* has the call of the last assignment, and one that is SYNCED has none.   *)
WorksFor(r, s) ==
    errand[r][s] # NoErrand \/ (shipper[r].at = "load" /\ s \in shipper[r].claimed)
InStep(s) ==
    /\ \A r, o \in Shipper : WorksFor(r, s) /\ WorksFor(o, s) => r = o
    /\ storeSyncs[s] = "SYNCED" =>
        tracked[s] = shipment /\ \A r \in Shipper : ~WorksFor(r, s)
    /\ storeSyncs[s] = "SYNCING" => \A r \in Shipper :
        /\ errand[r][s].at = "call" => errand[r][s].shipment = shipment
        /\ errand[r][s].at = "ok" => tracked[s] = shipment
ShipmentsIInv ==
    /\ ShipmentsTypeOK /\ ErrandsAreWorked
    /\ shipMishaps = 0 => lateShipments = {} /\ \A s \in Shop : s \notin doubtful => InStep(s)

(* Every assignment is in the end shown as published or failed in every    *)
(* store, unless the process restarts or a write fails.                    *)
ShipmentsSettle ==
    \A s \in Shop : storeSyncs[s] \in {"PENDING", "SYNCING"} ~>
        storeSyncs[s] \notin {"PENDING", "SYNCING"} \/ shipMishaps > 0
=============================================================================
