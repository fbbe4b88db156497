----------------------------- MODULE StoreOrders -----------------------------
(***************************************************************************)
(* Operations of the CRM, their orders, and the orders of the stores.      *)
(*                                                                         *)
(*   apps/api/src/orders/orders.service.ts, orders.repository.ts           *)
(*   apps/api/src/orders/woo-order-inbound.service.ts,                     *)
(*       woo-order-inbound.repository.ts   (webhooks of the stores)        *)
(*   apps/api/src/orders/woo-order-outbound.service.ts                     *)
(*                                                                         *)
(* An operation has at most one order in each store.  It is born in the    *)
(* CRM and written to the stores when it is completed, or born in a store  *)
(* and imported from its webhooks; a cancelled one may be reopened and     *)
(* then completed from the CRM.  Contents (customer, items, amounts) are   *)
(* left out; the status of an order, its revision (date_modified) and the  *)
(* link between both sides are what the two directions may corrupt.        *)
(***************************************************************************)
EXTENDS Naturals, FiniteSets, Sequences

CONSTANTS
    Store,        \* SERATUS and PALI
    Handler,      \* webhook requests that may be in progress together
    Job,          \* orders that may be on their way to a store together
    Baskets,      \* bound: the stores each operation may have products of
    MaxOps,       \* bound: operations
    Shelf,        \* bound: the orders of each store, and their revisions
    ShopStatus,   \* bound: the statuses a store gives its orders later
    MaxMishaps    \* bound: restarts, failing writes, refusals, late calls

ASSUME OrdersAssumption ==
    /\ MaxOps \in Nat /\ Shelf \in [Store -> Seq(Nat \ {0})]
    /\ MaxMishaps \in Nat
    /\ Baskets \in [1..MaxOps -> SUBSET ((SUBSET Store) \ {{}})]
    /\ ShopStatus \subseteq {"processing", "completed", "cancelled"}

Op == 1..MaxOps
Woo == UNION {DOMAIN Shelf[s] : s \in Store}
NoOp == 0
Revision == UNION {UNION {1..Shelf[s][w] : w \in DOMAIN Shelf[s]} : s \in Store}
(* A webhook tells one revision of one order; its deliveryId is its own.   *)
Event == [store : Store, woo : Woo, rev : Revision]

VARIABLES
    operation,  \* order_operations, by id
    order,      \* orders, by operation and store
    delivery,   \* woo_order_deliveries, by event
    shop,       \* the orders of the stores
    handler,    \* where each webhook request is
    job,        \* where each order on its way to a store is
    late,       \* calls given up on that have not reached the store yet
    mishaps     \* how many of the mishaps that MaxMishaps bounds there were

orderVars ==
    <<operation, order, delivery, shop, handler, job, late, mishaps>>

OperationStatus == {"PENDING", "COMPLETED", "CANCELLED"}
WooStatus == {"processing", "completed", "cancelled"}

(* code is the store order an imported operation takes its code from       *)
(* (WC-S-<id>); one of the CRM has a random code.                          *)
Operation ==
    [state : {"UNUSED", "LIVE", "DELETED"}, source : {"CRM", "WOOCOMMERCE"},
     status : OperationStatus, reopened : BOOLEAN,
     code : (Store \X Woo) \cup {<<>>}]
Order ==
    [state : {"UNUSED", "LIVE", "GONE"}, woo : Woo \cup {NoOp}, rev : Revision \cup {NoOp},
     sync : {"PENDING", "SYNCING", "SYNCED", "ERROR"}]
Delivery ==
    [status : {"NONE", "PENDING", "PROCESSED", "ERROR"}, op : Op \cup {NoOp}]
(* log: the status of every revision; key: the operation that the metadata *)
(* of the CRM name; born: who created the order.                           *)
StoreOrder ==
    [log : UNION {[1..n -> WooStatus] : n \in Revision \cup {0}},
     key : Op \cup {NoOp}, born : {"nobody", "store", "call", "late"}]
(* seen: the order and operation rows as the import read them.             *)
Seen ==
    [op : Op \cup {NoOp}, source : {"CRM", "WOOCOMMERCE"},
     status : OperationStatus, reopened : BOOLEAN, rev : Revision \cup {NoOp}]
HandlerState ==
    [at : {"idle"}] \cup
    [at : {"read", "write"}, event : Event, again : BOOLEAN, seen : Seen]
JobState ==
    [at : {"idle"}] \cup
    [at : {"load", "search", "create", "get", "put", "confirm"},
     op : Op, store : Store, woo : Woo \cup {NoOp},
     rev : Revision \cup {NoOp}]
LateCall ==
    [call : {"create", "put"}, op : Op, store : Store, woo : Woo \cup {NoOp}]

Unused ==
    [state |-> "UNUSED", source |-> "CRM", status |-> "PENDING",
     reopened |-> FALSE, code |-> <<>>]
NoOrder == [state |-> "UNUSED", woo |-> NoOp, rev |-> NoOp, sync |-> "PENDING"]
Vacant == [log |-> <<>>, key |-> NoOp, born |-> "nobody"]
NothingSeen ==
    [op |-> NoOp, source |-> "CRM", status |-> "PENDING", reopened |-> FALSE,
     rev |-> NoOp]
Unoccupied == [at |-> "idle"]

OrdersInit ==
    /\ operation = [o \in Op |-> Unused]
    /\ order = [o \in Op |-> [s \in Store |-> NoOrder]]
    /\ delivery = [e \in Event |-> [status |-> "NONE", op |-> NoOp]]
    /\ shop = [s \in Store |-> [w \in Woo |-> Vacant]]
    /\ handler = [h \in Handler |-> Unoccupied]
    /\ job = [j \in Job |-> Unoccupied]
    /\ late = {}
    /\ mishaps = 0

Live(o) == o \in Op /\ operation[o].state = "LIVE"
Exists(s, w) == shop[s][w].log # <<>>
Newest(s, w) == Len(shop[s][w].log)
Stores(o) == {s \in Store : order[o][s].state = "LIVE"}
NewOrder == [NoOrder EXCEPT !.state = "LIVE"]
GoneOrder == [NoOrder EXCEPT !.state = "GONE"]

(* The tables hold rows, requests, jobs and calls of the declared shapes.  *)
OrdersTypeOK ==
    /\ operation \in [Op -> Operation]
    /\ order \in [Op -> [Store -> Order]]
    /\ delivery \in [Event -> Delivery]
    /\ shop \in [Store -> [Woo -> StoreOrder]]
    /\ handler \in [Handler -> HandlerState]
    /\ job \in [Job -> JobState]
    /\ late \subseteq LateCall
    /\ mishaps \in 0..MaxMishaps

-----------------------------------------------------------------------------
(* The people of the CRM                                                   *)

(* Ids are given in order.                                                 *)
NextOp(o) ==
    /\ operation[o].state = "UNUSED"
    /\ \A p \in Op : p < o => operation[p].state # "UNUSED"

CreateOperation(o, stores) ==
    /\ NextOp(o)
    /\ operation' = [operation EXCEPT ![o].state = "LIVE"]
    /\ order' = [order EXCEPT ![o] =
            [s \in Store |-> IF s \in stores THEN NewOrder ELSE NoOrder]]
    /\ UNCHANGED <<delivery, shop, handler, job, late, mishaps>>

(* An edit keeps the orders of the stores it still has products of.  Bound:*)
(* a store that was taken out is not added again.                          *)
UpdatePending(o, stores) ==
    /\ Live(o)
    /\ operation[o].status = "PENDING"
    /\ stores # Stores(o)
    /\ \A s \in stores : order[o][s].state # "GONE"
    /\ order' = [order EXCEPT ![o] = [s \in Store |->
            IF s \in stores
            THEN IF s \in Stores(o) THEN order[o][s] ELSE NewOrder
            ELSE IF s \in Stores(o) THEN GoneOrder ELSE order[o][s]]]
    /\ delivery' = [e \in Event |->
            IF delivery[e].op = o /\ e.store \notin stores
            THEN [delivery[e] EXCEPT !.op = NoOp] ELSE delivery[e]]
    /\ UNCHANGED <<operation, shop, handler, job, late, mishaps>>

(* Deleting the rows of the operation takes their deliveries along.        *)
DeleteOperation(o) ==
    /\ Live(o)
    /\ operation' = [operation EXCEPT ![o] = [Unused EXCEPT !.state = "DELETED"]]
    /\ order' = [order EXCEPT ![o] = [s \in Store |-> GoneOrder]]
    /\ delivery' = [e \in Event |->
            IF delivery[e].op = o THEN [status |-> "NONE", op |-> NoOp]
            ELSE delivery[e]]
    /\ UNCHANGED <<shop, handler, job, late, mishaps>>

Reopen(o) ==
    /\ Live(o)
    /\ operation[o].source = "WOOCOMMERCE"
    /\ operation[o].status = "CANCELLED"
    /\ operation' = [operation EXCEPT ![o].status = "PENDING",
                                      ![o].reopened = TRUE]
    /\ UNCHANGED <<order, delivery, shop, handler, job, late, mishaps>>

(* Each claimed order gets a job: outbound.synchronize.                    *)
Claimed(o, stores) ==
    /\ order' = [order EXCEPT ![o] = [s \in Store |->
            IF s \in stores THEN [order[o][s] EXCEPT !.sync = "SYNCING"]
            ELSE order[o][s]]]
    /\ \E taken \in [stores -> {j \in Job : job[j] = Unoccupied}] :
        /\ \A s, t \in stores : taken[s] = taken[t] => s = t
        /\ job' = [j \in Job |->
                IF \E s \in stores : taken[s] = j
                THEN [at |-> "load", op |-> o,
                      store |-> CHOOSE s \in stores : taken[s] = j,
                      woo |-> NoOp, rev |-> NoOp]
                ELSE job[j]]

(* The orders that exist in the store are written again, the others only   *)
(* when they are pending or failed; whatever is SYNCING is taken along.    *)
ToClose(o) ==
    {s \in Stores(o) :
        order[o][s].woo # NoOp
        \/ order[o][s].sync \in {"PENDING", "ERROR", "SYNCING"}}

Closable(o) ==
    operation[o].source = "CRM" \/ operation[o].reopened

Complete(o) ==
    /\ Live(o)
    /\ Closable(o)
    /\ operation[o].status = "PENDING"
    /\ operation' = [operation EXCEPT ![o].status = "COMPLETED"]
    /\ Claimed(o, ToClose(o))
    /\ UNCHANGED <<delivery, shop, handler, late, mishaps>>

Retryable(o, s) ==
    /\ operation[o].source = "CRM"
    /\ operation[o].status = "COMPLETED"
    /\ s \in Stores(o)
    /\ order[o][s].woo = NoOp
    /\ order[o][s].sync = "ERROR"

(* retrySync takes every failed order of the operation, retryOrderSync one.*)
Retry(o, stores) ==
    /\ Live(o)
    /\ stores # {}
    /\ \A s \in stores : Retryable(o, s)
    /\ \/ stores = {s \in Store : Retryable(o, s)}
       \/ Cardinality(stores) = 1
    /\ Claimed(o, stores)
    /\ UNCHANGED <<operation, delivery, shop, handler, late, mishaps>>

-----------------------------------------------------------------------------
(* The stores                                                              *)

(* Every change of a store order is a revision and sends a webhook.        *)
Revise(s, w, status, key) ==
    /\ w \in DOMAIN Shelf[s] /\ Newest(s, w) < Shelf[s][w]
    /\ shop' = [shop EXCEPT ![s][w].log = Append(@, status),
                            ![s][w].key = key]

(* Ids are given in order; a call creates the order completed.             *)
NextWoo(s, w) ==
    /\ w \in DOMAIN Shelf[s] /\ ~Exists(s, w)
    /\ \A v \in Woo : v < w => Exists(s, v)

NewStoreOrder(s, w, status, key, born) ==
    /\ NextWoo(s, w)
    /\ shop' = [shop EXCEPT ![s][w] =
            [log |-> <<status>>, key |-> key, born |-> born]]

(* A checkout, or an order that the people of the store enter.             *)
ShopSells(s, w, status) ==
    /\ NewStoreOrder(s, w, status, NoOp, "store")
    /\ UNCHANGED <<operation, order, delivery, handler, job, late, mishaps>>

(* A new status, or a note that leaves the status as it is.                *)
ShopChanges(s, w, status) ==
    /\ Exists(s, w)
    /\ Revise(s, w, status, shop[s][w].key)
    /\ UNCHANGED <<operation, order, delivery, handler, job, late, mishaps>>

(* A call that was given up on reaches its store.                          *)
LateCallArrives(c) ==
    /\ c \in late
    /\ late' = late \ {c}
    /\ \/ /\ c.call = "create"
          /\ \E w \in Woo :
                NewStoreOrder(c.store, w, "completed", c.op, "late")
       \/ c.call = "put" /\ Revise(c.store, c.woo, "completed", c.op)
    /\ UNCHANGED <<operation, order, delivery, handler, job, mishaps>>

-----------------------------------------------------------------------------
(* Webhooks                                                                *)

Sent(e) == e.rev <= Newest(e.store, e.woo)
(* The status is taken as the store names it.                              *)
SlipStatusFromWoo(e) == shop[e.store][e.woo].log[e.rev]
StatusFromWoo(e) ==
    CASE shop[e.store][e.woo].log[e.rev] = "completed" -> "COMPLETED"
      [] shop[e.store][e.woo].log[e.rev] = "cancelled" -> "CANCELLED"
      [] OTHER -> "PENDING"

(* A webhook may come at any time after its revision, and again: one that  *)
(* is PENDING or PROCESSED is answered as a duplicate.                     *)
ClaimDelivery(h, e) ==
    /\ handler[h] = Unoccupied
    /\ Sent(e)
    /\ delivery[e].status \in {"NONE", "ERROR"}
    /\ delivery' = [delivery EXCEPT ![e].status = "PENDING"]
    /\ handler' = [handler EXCEPT ![h] =
            [at |-> "read", event |-> e, again |-> FALSE, seen |-> NothingSeen]]
    /\ UNCHANGED <<operation, order, shop, job, late, mishaps>>

(* The order of the event: by its id, or the one the CRM created it for.   *)
Known(e) == {o \in Op : Live(o) /\ order[o][e.store].woo = e.woo}
(* The key of the order is not compared.                                   *)
SlipAdoptable(e) ==
    {o \in Op :
        /\ Live(o)
        /\ e.store \in Stores(o)
        /\ order[o][e.store].woo = NoOp
        /\ operation[o].source = "CRM"}
(* The orders of the CRM are not looked for.                               *)
SlipNoneAdoptable(e) == {}
Adoptable(e) ==
    {o \in Op :
        /\ Live(o)
        /\ o = shop[e.store][e.woo].key
        /\ e.store \in Stores(o)
        /\ order[o][e.store].woo = NoOp
        /\ operation[o].source = "CRM"}
Found(e) == IF Known(e) # {} THEN Known(e) ELSE Adoptable(e)

(* The reads of the transaction do not lock; they see one snapshot.        *)
ImportRead(h) ==
    LET e == handler[h].event
        SeenRow(o) ==
            [op |-> o, source |-> operation[o].source,
             status |-> operation[o].status,
             reopened |-> operation[o].reopened, rev |-> order[o][e.store].rev]
    IN  /\ handler[h].at = "read"
        /\ handler' = [handler EXCEPT ![h].at = "write", ![h].seen =
                IF Found(e) = {} THEN NothingSeen
                ELSE SeenRow(CHOOSE o \in Found(e) : TRUE)]
        /\ UNCHANGED <<operation, order, delivery, shop, job, late, mishaps>>

(* Without the comparison of the two dates.                                *)
SlipStale(e, seen) == FALSE
Stale(e, seen) == seen.rev # NoOp /\ e.rev < seen.rev
Processed(e, o) ==
    delivery' = [delivery EXCEPT ![e] = [status |-> "PROCESSED", op |-> o]]
Leave(h) == handler' = [handler EXCEPT ![h] = Unoccupied]

ImportStale(h) ==
    LET e == handler[h].event
        seen == handler[h].seen
    IN  /\ handler[h].at = "write"
        /\ Stale(e, seen)
        /\ Live(seen.op) /\ e.store \in Stores(seen.op)
        /\ Processed(e, seen.op)
        /\ Leave(h)
        /\ UNCHANGED <<operation, order, shop, job, late, mishaps>>

(* Orders of the CRM are treated as those of the store.                    *)
SlipSourceIgnored(e, seen, row) ==
    IF seen.reopened /\ StatusFromWoo(e) = "CANCELLED"
    THEN [row EXCEPT !.status = "PENDING"]
    ELSE [row EXCEPT !.status = StatusFromWoo(e), !.reopened = FALSE]
(* Without keepsReopened.                                                  *)
SlipReopenedIgnored(e, seen, row) ==
    IF seen.source = "CRM" THEN [row EXCEPT !.status = seen.status]
    ELSE [row EXCEPT !.status = StatusFromWoo(e)]
(* An operation of the CRM keeps its status; a reopened one stays pending  *)
(* while the store says cancelled; otherwise the store decides.            *)
ImportedOperation(e, seen, row) ==
    IF seen.source = "CRM" THEN [row EXCEPT !.status = seen.status]
    ELSE IF seen.reopened /\ StatusFromWoo(e) = "CANCELLED"
         THEN [row EXCEPT !.status = "PENDING"]
         ELSE [row EXCEPT !.status = StatusFromWoo(e), !.reopened = FALSE]

ImportedOrder(e, row) ==
    [row EXCEPT !.woo = e.woo, !.rev = e.rev, !.sync = "SYNCED"]

(* orders is unique by store and store order.                              *)
HeldByOther(s, w, o) ==
    \E p \in Op \ {o} : Live(p) /\ order[p][s].woo = w

ImportUpdates(h) ==
    LET e == handler[h].event
        seen == handler[h].seen
        o == seen.op
    IN  /\ handler[h].at = "write"
        /\ o # NoOp /\ ~Stale(e, seen)
        /\ Live(o) /\ e.store \in Stores(o)
        /\ ~HeldByOther(e.store, e.woo, o)
        /\ operation' = [operation EXCEPT ![o] = ImportedOperation(e, seen, @)]
        /\ order' = [order EXCEPT ![o][e.store] = ImportedOrder(e, @)]
        /\ Processed(e, o)
        /\ Leave(h)
        /\ UNCHANGED <<shop, job, late, mishaps>>

CodeTaken(s, w) == \E p \in Op : Live(p) /\ operation[p].code = <<s, w>>

ImportCreates(h) ==
    LET e == handler[h].event
    IN  /\ handler[h].at = "write"
        /\ handler[h].seen.op = NoOp
        /\ ~CodeTaken(e.store, e.woo)
        /\ ~HeldByOther(e.store, e.woo, NoOp)
        /\ \E o \in Op :
            /\ NextOp(o)
            /\ operation' = [operation EXCEPT ![o] =
                    [state |-> "LIVE", source |-> "WOOCOMMERCE",
                     status |-> StatusFromWoo(e), reopened |-> FALSE,
                     code |-> <<e.store, e.woo>>]]
            /\ order' = [order EXCEPT ![o][e.store] = ImportedOrder(e, NewOrder)]
            /\ Processed(e, o)
        /\ Leave(h)
        /\ UNCHANGED <<shop, job, late, mishaps>>

Collides(h) ==
    LET e == handler[h].event
        o == handler[h].seen.op
    IN  \/ HeldByOther(e.store, e.woo, o)
        \/ o = NoOp /\ CodeTaken(e.store, e.woo)

(* A unique key is taken: the import runs once more, from its reads.       *)
ImportCollides(h) ==
    LET e == handler[h].event
    IN  /\ handler[h].at = "write"
        /\ ~Stale(e, handler[h].seen)
        /\ ~handler[h].again
        /\ Collides(h)
        /\ handler' = [handler EXCEPT ![h].at = "read", ![h].again = TRUE]
        /\ UNCHANGED <<operation, order, delivery, shop, job, late, mishaps>>

(* The rows the import read are gone, or it collides a second time.        *)
Broken(h) ==
    LET e == handler[h].event
        seen == handler[h].seen
    IN  /\ handler[h].at = "write"
        /\ \/ seen.op # NoOp /\ (~Live(seen.op) \/ e.store \notin Stores(seen.op))
           \/ ~Stale(e, seen) /\ handler[h].again /\ Collides(h)

(* A customer in conflict, rows that are gone, a second collision, a       *)
(* database error: markError, which leaves a PROCESSED delivery alone.     *)
ImportFails(h) ==
    LET e == handler[h].event
    IN  /\ handler[h].at = "read" \/ handler[h].at = "write"
        /\ \/ Broken(h) /\ UNCHANGED mishaps
           \/ mishaps < MaxMishaps /\ mishaps' = mishaps + 1
        /\ delivery' = [delivery EXCEPT ![e].status =
                IF @ = "PROCESSED" THEN @ ELSE "ERROR"]
        /\ Leave(h)
        /\ UNCHANGED <<operation, order, shop, job, late>>

-----------------------------------------------------------------------------
(* Outbound: each job takes one claimed order to its store                 *)

Syncing(o, s) == s \in Stores(o) /\ order[o][s].sync = "SYNCING"
Done(j) == job' = [job EXCEPT ![j] = Unoccupied]
JobAt(j, at) == job' = [job EXCEPT ![j].at = at]

(* Only an order that still is SYNCING goes on.                            *)
LoadOrder(j) ==
    /\ job[j].at = "load"
    /\ LET o == job[j].op
           s == job[j].store
       IN  IF Syncing(o, s)
           THEN job' = [job EXCEPT
                    ![j].woo = order[o][s].woo,
                    ![j].at = IF order[o][s].woo = NoOp THEN "search" ELSE "get"]
           ELSE Done(j)
    /\ UNCHANGED <<operation, order, delivery, shop, handler, late, mishaps>>

(* findOrderByExternalKey: the store order that carries the key, if any.   *)
WithKey(o, s) == {w \in Woo : Exists(s, w) /\ shop[s][w].key = o}

SearchFinds(j) ==
    /\ job[j].at = "search"
    /\ \E w \in WithKey(job[j].op, job[j].store) :
            job' = [job EXCEPT ![j].at = "confirm", ![j].woo = w,
                               ![j].rev = Newest(job[j].store, w)]
    /\ UNCHANGED <<operation, order, delivery, shop, handler, late, mishaps>>

(* Creates without having looked for the key.                              *)
SlipSearchSkipped(j) ==
    /\ job[j].at = "search"
    /\ JobAt(j, "create")
    /\ UNCHANGED <<operation, order, delivery, shop, handler, late, mishaps>>

SearchFindsNothing(j) ==
    /\ job[j].at = "search"
    /\ WithKey(job[j].op, job[j].store) = {}
    /\ JobAt(j, "create")
    /\ UNCHANGED <<operation, order, delivery, shop, handler, late, mishaps>>

StoreCreates(j) ==
    /\ job[j].at = "create"
    /\ \E w \in Woo :
        /\ NewStoreOrder(job[j].store, w, "completed", job[j].op, "call")
        /\ job' = [job EXCEPT ![j].at = "confirm", ![j].woo = w, ![j].rev = 1]
    /\ UNCHANGED <<operation, order, delivery, handler, late, mishaps>>

SnapshotRead(j) ==
    /\ job[j].at = "get"
    /\ JobAt(j, "put")
    /\ UNCHANGED <<operation, order, delivery, shop, handler, late, mishaps>>

StoreUpdates(j) ==
    /\ job[j].at = "put"
    /\ LET s == job[j].store
           w == job[j].woo
       IN  /\ Revise(s, w, "completed", job[j].op)
           /\ job' = [job EXCEPT ![j].at = "confirm", ![j].rev = Newest(s, w) + 1]
    /\ UNCHANGED <<operation, order, delivery, handler, late, mishaps>>

(* markOrderSynced and markOrderError write only while the order is        *)
(* SYNCING.                                                                *)
MarkOrder(o, s, row) ==
    order' = IF Syncing(o, s) THEN [order EXCEPT ![o][s] = row] ELSE order
MarkSynced(j) ==
    LET o == job[j].op
        s == job[j].store
    IN  /\ Syncing(o, s) => ~HeldByOther(s, job[j].woo, o)
        /\ MarkOrder(o, s, [order[o][s] EXCEPT
                !.woo = job[j].woo, !.rev = job[j].rev, !.sync = "SYNCED"])
(* The error is written whatever the order is by now, or not at all.       *)
SlipMarkAlways(j) ==
    order' = [order EXCEPT ![job[j].op][job[j].store] = [@ EXCEPT !.sync = "ERROR"]]
SlipMarkNever(j) == UNCHANGED order
MarkError(j) ==
    LET o == job[j].op
        s == job[j].store
    IN  MarkOrder(o, s, [order[o][s] EXCEPT !.sync = "ERROR"])

Confirm(j) ==
    /\ job[j].at = "confirm"
    /\ MarkSynced(j)
    /\ Done(j)
    /\ UNCHANGED <<operation, delivery, shop, handler, late, mishaps>>

(* The customer or a product is not linked, the store refuses or answers   *)
(* with an error.                                                          *)
OutboundFails(j) ==
    /\ job[j].at \in {"search", "create", "get", "put"}
    /\ MarkError(j)
    /\ Done(j)
    /\ UNCHANGED <<operation, delivery, shop, handler, late, mishaps>>

(* The store did it, and the answer is lost or comes too late.             *)
AnswerLost(j) ==
    /\ \/ /\ job[j].at = "create"
          /\ \E w \in Woo :
                NewStoreOrder(job[j].store, w, "completed", job[j].op, "call")
       \/ /\ job[j].at = "put"
          /\ Revise(job[j].store, job[j].woo, "completed", job[j].op)
    /\ MarkError(j)
    /\ Done(j)
    /\ UNCHANGED <<operation, delivery, handler, late, mishaps>>

CallOfJob(j) ==
    [call |-> job[j].at, op |-> job[j].op, store |-> job[j].store,
     woo |-> job[j].woo]

(* The time limit passes before the store has done it; it may still.       *)
CallTimesOut(j) ==
    /\ job[j].at \in {"create", "put"}
    /\ mishaps < MaxMishaps /\ mishaps' = mishaps + 1
    /\ late' = late \cup {CallOfJob(j)}
    /\ MarkError(j)
    /\ Done(j)
    /\ UNCHANGED <<operation, delivery, shop, handler>>

(* The identifier could not be saved: the order fails with a code that     *)
(* asks for a retry.                                                       *)
ConfirmFails(j) ==
    /\ job[j].at = "confirm"
    /\ \/ /\ Syncing(job[j].op, job[j].store)
          /\ HeldByOther(job[j].store, job[j].woo, job[j].op)
          /\ UNCHANGED mishaps
       \/ mishaps < MaxMishaps /\ mishaps' = mishaps + 1
    /\ MarkError(j)
    /\ Done(j)
    /\ UNCHANGED <<operation, delivery, shop, handler, late>>

-----------------------------------------------------------------------------
(* Mishaps                                                                 *)

(* markError and markOrderError may fail themselves.                       *)
WriteFails ==
    /\ mishaps < MaxMishaps
    /\ mishaps' = mishaps + 1
    /\ \/ \E h \in Handler : handler[h] # Unoccupied /\ Leave(h) /\ UNCHANGED job
       \/ \E j \in Job : job[j] # Unoccupied /\ Done(j) /\ UNCHANGED handler
    /\ UNCHANGED <<operation, order, delivery, shop, late>>

(* The process restarts: what it did is forgotten; a call on its way to a  *)
(* store may still arrive.                                                 *)
OrdersRestart ==
    /\ mishaps < MaxMishaps
    /\ mishaps' = mishaps + 1
    /\ handler' = [h \in Handler |-> Unoccupied]
    /\ job' = [j \in Job |-> Unoccupied]
    /\ \E calls \in SUBSET {CallOfJob(j) : j \in {i \in Job :
                                job[i].at \in {"create", "put"}}} :
            late' = late \cup calls
    /\ UNCHANGED <<operation, order, delivery, shop>>

HandlerStep(h) ==
    \/ ImportRead(h) \/ ImportStale(h) \/ ImportUpdates(h)
    \/ ImportCreates(h) \/ ImportCollides(h) \/ ImportFails(h)
JobStep(j) ==
    \/ LoadOrder(j) \/ SearchFinds(j) \/ SearchFindsNothing(j)
    \/ StoreCreates(j) \/ SnapshotRead(j) \/ StoreUpdates(j)
    \/ Confirm(j) \/ ConfirmFails(j)
    \/ OutboundFails(j) \/ AnswerLost(j) \/ CallTimesOut(j)
StaffStep(o) ==
    \/ \E stores \in Baskets[o] :
            CreateOperation(o, stores) \/ UpdatePending(o, stores)
    \/ \E stores \in SUBSET Store : Retry(o, stores)
    \/ Complete(o) \/ Reopen(o) \/ DeleteOperation(o)
StoreStep ==
    \/ \E s \in Store, w \in Woo :
            \/ \E st \in ShopStatus \cup {"processing"} : ShopSells(s, w, st)
            \/ \E st \in ShopStatus : ShopChanges(s, w, st)
    \/ \E c \in late : LateCallArrives(c)

OrdersNext ==
    \/ \E o \in Op : StaffStep(o)
    \/ StoreStep
    \/ \E h \in Handler, e \in Event : ClaimDelivery(h, e)
    \/ \E h \in Handler : HandlerStep(h)
    \/ \E j \in Job : JobStep(j)
    \/ WriteFails
    \/ OrdersRestart

OrdersSpec == OrdersInit /\ [][OrdersNext]_orderVars
(* Every request and job ends: its waits have time limits.                 *)
OrdersFairSpec ==
    /\ OrdersSpec
    /\ \A h \in Handler : WF_orderVars(HandlerStep(h))
    /\ \A j \in Job : WF_orderVars(JobStep(j))

-----------------------------------------------------------------------------
(* Properties                                                              *)

(* No call that the CRM had given up on has created an order in the store. *)
Fresh(s) == \A w \in Woo : shop[s][w].born # "late"

(* An order of the CRM is linked to the store order that was created for   *)
(* it, never to somebody else's (adoption, search by key, confirmation),   *)
(* as long as the store has no second order of an operation; then the other*)
(* one may be imported, completed again and written with a key of its own  *)
(* while an import that read it as ours is linking it.  No store order is  *)
(* in the CRM twice, and none that was created for a live operation of the *)
(* CRM is an operation of its own, unless the store has two of them.       *)
LinkIsTrue ==
    \A o \in Op, s \in Store :
        LET w == order[o][s].woo
        IN  w # NoOp =>
                /\ Exists(s, w) /\ order[o][s].rev \in 1..Newest(s, w)
                /\ operation[o].source = "CRM" /\ Fresh(s) => shop[s][w].key = o
                /\ \A p \in Op \ {o} :
                    /\ order[p][s].woo # w
                    /\ Live(p) /\ operation[p].source = "CRM" /\ shop[s][w].key = p
                            => ~Fresh(s) /\ order[p][s].woo # NoOp

(* A call creates the order of an operation of the CRM once: a second one  *)
(* exists only because a call was carried out after the CRM had given up   *)
(* on it.  (A reopened operation may be completed again while its jobs     *)
(* run, and then does create a second one.)                                *)
CreatedOnce ==
    \A o \in Op, s \in Store :
        Live(o) /\ operation[o].source = "CRM" =>
            Cardinality({w \in Woo :
                shop[s][w].key = o /\ shop[s][w].born = "call"}) <= 1

(* A failed order of the CRM can be retried: it is not linked, and its     *)
(* operation is completed.  Webhooks may link it at any moment.            *)
FailedIsRetryable ==
    \A o \in Op, s \in Store :
        operation[o].source = "CRM" /\ order[o][s].sync = "ERROR" => Retryable(o, s)

(* Only what somebody works on is in progress: as long as no write failed  *)
(* and the process lives, a SYNCING order has its job and a PENDING        *)
(* delivery its request, so that none of them is stuck.                    *)
ClaimsAreHeld ==
    mishaps = 0 =>
        /\ \A o \in Op, s \in Store :
                Syncing(o, s) => \E j \in Job :
                    job[j] # Unoccupied /\ job[j].op = o /\ job[j].store = s
        /\ \A e \in Event :
                delivery[e].status = "PENDING" => \E h \in Handler :
                    handler[h] # Unoccupied /\ handler[h].event = e

(* The import of h ends in this step, and read the order before somebody   *)
(* else changed it.                                                        *)
Overtaken(h, o, s) ==
    /\ handler[h] # Unoccupied /\ handler'[h] = Unoccupied
    /\ handler[h].at = "write" /\ handler[h].event.store = s
    /\ handler[h].seen.op = o
    /\ \/ handler[h].seen.rev # order[o][s].rev
       \/ handler[h].seen.reopened # operation[o].reopened

(* The job j of an order of a store confirms what its call answered.       *)
Confirmed(j, o, s) ==
    /\ job[j].at = "confirm" /\ job'[j] = Unoccupied
    /\ job[j].op = o /\ job[j].store = s

(* An older revision replaces a newer one only when the import that writes *)
(* it had read the order before the newer one was written, or when a       *)
(* reopened operation was completed again before the job of its previous   *)
(* completion had ended.  A webhook cancels a reopened operation only when *)
(* its import had read it before it was reopened.  And a completed         *)
(* operation of the CRM stays completed until it is deleted.               *)
OldNewsIsIgnored ==
    [][\A o \in Op :
            /\ \A s \in Store :
                    /\ order'[o][s].woo # NoOp /\ order'[o][s].woo = order[o][s].woo
                    /\ order'[o][s].rev < order[o][s].rev
                    => \/ \E h \in Handler : Overtaken(h, o, s)
                       \/ /\ operation[o].source = "WOOCOMMERCE"
                          /\ \E j \in Job : Confirmed(j, o, s)
            /\ /\ operation[o].reopened
               /\ operation[o].status # "CANCELLED" /\ operation'[o].status = "CANCELLED"
               => \E h \in Handler, s \in Store : Overtaken(h, o, s)
            /\ /\ Live(o) /\ operation[o].source = "CRM"
               /\ operation[o].status = "COMPLETED"
               => operation'[o].status = "COMPLETED" \/ operation'[o].state = "DELETED"
      ]_orderVars

(* When the answer of a store could not be saved, the order asks for a     *)
(* retry, and then one is possible (violated: a reopened order of the      *)
(* store has its identifier already, and no retry takes it).               *)
AskedRetryIsPossible ==
    [][\A j \in Job, o \in Op, s \in Store :
            Confirmed(j, o, s) /\ order'[o][s].sync = "ERROR"
            => Retryable(o, s)']_orderVars
=============================================================================
