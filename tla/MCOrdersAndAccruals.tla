-------------------------- MODULE MCOrdersAndAccruals --------------------------
(* Orders and accruals under restarts, failing writes and late calls;      *)
(* prospects, their files and their conversions; the tabs of a session.    *)
(* They share nothing, so each behaviour lets one of them move.            *)
EXTENDS MCStoreOrders, PointsInvoices, Prospects, BrowserSession
CONSTANTS n1, m1

VARIABLE moving

(* One person with a document, one known by the address of the first.      *)
Known1 == [document |-> n1, mail |-> m1]
Known2 == [document |-> Blank, mail |-> m1]
Persons == {Known1, Known2}
Uploads == {<<Known1, Known2, Known1>>, <<Known2>>}

(* Files come without customers, conversions with one prospect.            *)
FilesOnly ==
    \A r \in Agent : agent'[r].at \in {"idle", "removing", "saving", "importing"}
OneProspect == Len(prospects') <= 1

OrdersAndAccrualsInit ==
    /\ moving \in {"orders", "accruals", "files", "conversions", "tabs"}
    /\ OrdersInit /\ Init /\ ProspectsInit /\ BrowserInit
OrdersAndAccrualsNext ==
    /\ UNCHANGED moving
    /\ \/ moving = "orders" /\ OrdersNext
            /\ UNCHANGED <<vars, prospectVars, browserVars>>
       \/ moving = "accruals" /\ Next
            /\ UNCHANGED <<orderVars, prospectVars, browserVars>>
       \/ moving = "files" /\ ProspectsNext /\ FilesOnly
            /\ UNCHANGED <<orderVars, vars, browserVars>>
       \/ moving = "conversions" /\ ProspectsNext /\ OneProspect
            /\ UNCHANGED <<orderVars, vars, browserVars>>
       \/ moving = "tabs" /\ BrowserNext
            /\ UNCHANGED <<orderVars, vars, prospectVars>>
OrdersAndAccrualsSpec ==
    OrdersAndAccrualsInit /\ [][OrdersAndAccrualsNext]_<<moving, orderVars, vars,
                                                         prospectVars, browserVars>>

(* Their rows, requests and tabs have the declared shapes.                 *)
OrdersAndTabsTypeOK == OrdersTypeOK /\ ProspectsTypeOK /\ BrowserTypeOK

(* Requests and users are interchangeable; the handlers of webhooks, the   *)
(* agents and the tabs have the names of the requests, so that they are    *)
(* exchanged together.                                                     *)
Interchangeable == Permutations(Request) \cup Permutations(User)
=============================================================================
