--------------------------- MODULE StoreOrdersProofs ---------------------------
(***************************************************************************)
(* The orders of the CRM and those of the stores: proofs for any number of *)
(* operations, stores, webhooks in progress and orders on their way.       *)
(***************************************************************************)
EXTENDS StoreOrders, FiniteSetTheorems, TLAPS

-----------------------------------------------------------------------------
(* Shapes                                                                  *)

LEMMA ShelfFacts ==
  /\ Woo \subseteq Nat \ {NoOp} /\ Revision \subseteq Nat \ {0}
  /\ Op \subseteq Nat \ {NoOp} /\ NoOp = 0 /\ MaxOps \in Nat /\ MaxMishaps \in Nat
  /\ \A s \in Store, w \in Woo : w \in DOMAIN Shelf[s] =>
        Shelf[s][w] \in Nat \ {0} /\ 1..Shelf[s][w] \subseteq Revision
<1>1. \A s \in Store : Shelf[s] \in Seq(Nat \ {0}) /\ DOMAIN Shelf[s] = 1..Len(Shelf[s])
                       /\ Len(Shelf[s]) \in Nat
  BY OrdersAssumption
<1>2. \A s \in Store : \A w \in DOMAIN Shelf[s] : w \in Nat \ {0} /\ Shelf[s][w] \in Nat \ {0}
  BY <1>1
<1>3. Woo \subseteq Nat \ {0}
  BY <1>2 DEF Woo
<1>4. Revision \subseteq Nat \ {0}
  BY <1>2 DEF Revision
<1>5. \A s \in Store, w \in Woo : w \in DOMAIN Shelf[s] =>
        Shelf[s][w] \in Nat \ {0} /\ 1..Shelf[s][w] \subseteq Revision
  BY <1>2 DEF Revision
<1> QED BY <1>3, <1>4, <1>5, OrdersAssumption DEF Op, NoOp

LEMMA NumberFacts ==
  /\ Woo \subseteq Nat \ {NoOp} /\ Revision \subseteq Nat \ {0}
  /\ Op \subseteq Nat \ {NoOp} /\ NoOp = 0
  BY ShelfFacts

LEMMA RevisionFacts == ASSUME NEW rev \in Revision PROVE rev \in Nat /\ rev >= 1
<1>1. rev \in Nat \ {0}
  BY NumberFacts
<1> QED BY <1>1

LEMMA RowTypes ==
  /\ Unused \in Operation /\ NoOrder \in Order /\ Vacant \in StoreOrder
  /\ NewOrder \in Order /\ GoneOrder \in Order /\ NothingSeen \in Seen
  /\ Unoccupied \in HandlerState /\ Unoccupied \in JobState
<1>1. NoOrder \in Order /\ Unused \in Operation /\ NothingSeen \in Seen
  BY DEF NoOrder, Order, NoOp, Unused, Operation, OperationStatus, NothingSeen, Seen
<1>2. NewOrder \in Order /\ GoneOrder \in Order
  BY DEF NewOrder, GoneOrder, NoOrder, Order, NoOp
<1>3. <<>> \in [1..0 -> WooStatus]
  OBVIOUS
<1>4. Vacant \in StoreOrder
  BY <1>3 DEF Vacant, StoreOrder, NoOp
<1> QED BY <1>1, <1>2, <1>4 DEF Unoccupied, HandlerState, JobState

(* A log is a sequence.                                                    *)
Logs == UNION {[1..n -> WooStatus] : n \in Revision \cup {0}}
LEMMA LogFacts ==
  ASSUME NEW log \in Logs
  PROVE  /\ log \in Seq(WooStatus) /\ Len(log) \in Nat /\ DOMAIN log = 1..Len(log)
         /\ log # <<>> <=> Len(log) >= 1
<1>1. PICK n \in Revision \cup {0} : log \in [1..n -> WooStatus]
  BY DEF Logs
<1>2. n \in Nat
  BY <1>1, NumberFacts
<1>3. log \in Seq(WooStatus)
  BY <1>1, <1>2
<1> QED BY <1>3

LEMMA LogGrows ==
  ASSUME NEW log \in Logs, NEW st \in WooStatus, Len(log) + 1 \in Revision
  PROVE  /\ Append(log, st) \in Logs
         /\ Len(Append(log, st)) = Len(log) + 1 /\ Append(log, st) # <<>>
<1>1. log \in Seq(WooStatus) /\ Len(log) \in Nat
  BY LogFacts
<1>2. Append(log, st) \in Seq(WooStatus) /\ Len(Append(log, st)) = Len(log) + 1
  BY <1>1
<1>3. \A q \in Seq(WooStatus) : q \in [1..Len(q) -> WooStatus]
  OBVIOUS
<1>4. Append(log, st) \in [1..(Len(log) + 1) -> WooStatus]
  BY <1>2, <1>3
<1> QED BY <1>1, <1>2, <1>4 DEF Logs

LEMMA FirstLog ==
  ASSUME NEW st \in WooStatus, 1 \in Revision
  PROVE  <<st>> \in Logs /\ Len(<<st>>) = 1 /\ <<st>> # <<>>
<1>1. <<st>> \in [1..1 -> WooStatus]
  OBVIOUS
<1> QED BY <1>1 DEF Logs

LEMMA ShopFacts ==
  ASSUME OrdersTypeOK, NEW s \in Store, NEW w \in Woo
  PROVE  /\ shop[s][w] \in StoreOrder /\ shop[s][w].log \in Logs
         /\ Newest(s, w) \in Nat /\ (Exists(s, w) <=> Newest(s, w) >= 1)
<1>1. shop[s][w] \in StoreOrder
  BY DEF OrdersTypeOK
<1>2. shop[s][w].log \in Logs
  BY <1>1 DEF StoreOrder, Logs
<1> QED BY <1>1, <1>2, LogFacts DEF Newest, Exists

(* One order of a store changes.                                           *)
ShopIs(s, w, key, born) ==
  /\ shop' \in [Store -> [Woo -> StoreOrder]]
  /\ shop'[s][w].key = key /\ shop'[s][w].born = born
  /\ Exists(s, w)' /\ Newest(s, w)' = Newest(s, w) + 1 /\ Newest(s, w) \in Nat
  /\ Newest(s, w) + 1 \in Revision
  /\ \A t \in Store, v \in Woo : t # s \/ v # w => shop'[t][v] = shop[t][v]

LEMMA RowEdit ==
  ASSUME NEW L, NEW K, NEW B, NEW row \in [log : L, key : K, born : B],
         NEW log \in L, NEW key \in K, NEW new, new = [row EXCEPT !.log = log, !.key = key]
  PROVE  /\ new \in [log : L, key : K, born : B]
         /\ new.log = log /\ new.key = key /\ new.born = row.born
  OBVIOUS

LEMMA Revised ==
  ASSUME OrdersTypeOK, NEW s \in Store, NEW w \in Woo, NEW st \in WooStatus,
         NEW key \in Op \cup {NoOp}, Revise(s, w, st, key)
  PROVE  ShopIs(s, w, key, shop[s][w].born)
<1> DEFINE row == [shop[s][w] EXCEPT !.log = Append(@, st), !.key = key]
<1>1. shop[s][w] \in StoreOrder /\ shop[s][w].log \in Logs /\ Newest(s, w) \in Nat
  BY ShopFacts
<1>2. Newest(s, w) + 1 \in Revision
  BY <1>1, ShelfFacts DEF Revise
<1>3. /\ Append(shop[s][w].log, st) \in Logs /\ Append(shop[s][w].log, st) # <<>>
      /\ Len(Append(shop[s][w].log, st)) = Newest(s, w) + 1
  BY <1>1, <1>2, LogGrows DEF Newest
<1> HIDE DEF row
<1>4. /\ row.log = Append(shop[s][w].log, st) /\ row.key = key
      /\ row.born = shop[s][w].born /\ row \in StoreOrder
  BY <1>1, <1>3, RowEdit DEF StoreOrder, Logs, row
<1>5. /\ Len(row.log) = Newest(s, w) + 1 /\ row.log # <<>> /\ row \in StoreOrder
  BY <1>3, <1>4
<1>6. shop \in [Store -> [Woo -> StoreOrder]]
  BY DEF OrdersTypeOK
<1>7. shop' = [shop EXCEPT ![s] = [shop[s] EXCEPT ![w] = row]]
  BY <1>6 DEF Revise, row
<1>8. /\ shop' \in [Store -> [Woo -> StoreOrder]] /\ shop'[s][w] = row
      /\ \A t \in Store, v \in Woo : t # s \/ v # w => shop'[t][v] = shop[t][v]
  BY <1>5, <1>6, <1>7
<1> QED BY <1>1, <1>2, <1>4, <1>5, <1>8 DEF ShopIs, Exists, Newest

LEMMA Sold ==
  ASSUME OrdersTypeOK, NEW s \in Store, NEW w \in Woo, NEW st \in WooStatus,
         NEW key \in Op \cup {NoOp}, NEW born \in {"store", "call", "late"},
         NewStoreOrder(s, w, st, key, born)
  PROVE  ShopIs(s, w, key, born) /\ ~Exists(s, w) /\ Newest(s, w)' = 1
<1> DEFINE row == [log |-> <<st>>, key |-> key, born |-> born]
<1>1. ~Exists(s, w) /\ Newest(s, w) = 0 /\ w \in DOMAIN Shelf[s]
  BY ShopFacts DEF NewStoreOrder, NextWoo
<1>2. 1 \in Revision
  BY <1>1, ShelfFacts
<1>3. row.log \in Logs /\ Len(row.log) = 1 /\ row.log # <<>>
  BY <1>2, FirstLog
<1>4. row \in StoreOrder
  BY <1>3 DEF StoreOrder, Logs
<1>5. shop \in [Store -> [Woo -> StoreOrder]]
  BY DEF OrdersTypeOK
<1>6. shop' = [shop EXCEPT ![s] = [shop[s] EXCEPT ![w] = row]]
  BY <1>5 DEF NewStoreOrder
<1>7. /\ shop' \in [Store -> [Woo -> StoreOrder]] /\ shop'[s][w] = row
      /\ \A t \in Store, v \in Woo : t # s \/ v # w => shop'[t][v] = shop[t][v]
  BY <1>4, <1>5, <1>6
<1> QED BY <1>1, <1>2, <1>3, <1>7 DEF ShopIs, Exists, Newest

(* Jobs and webhook requests move, too.                                    *)
Busy(j) == job[j].at # "idle"
BusyJob ==
    [at : {"load", "search", "create", "get", "put", "confirm"}, op : Op,
     store : Store, woo : Woo \cup {NoOp}, rev : Revision \cup {NoOp}]
BusyHandler == [at : {"read", "write"}, event : Event, again : BOOLEAN, seen : Seen]

LEMMA JobFacts ==
  ASSUME OrdersTypeOK, NEW j \in Job
  PROVE  /\ Busy(j) => job[j] \in BusyJob /\ job[j] # Unoccupied
         /\ ~Busy(j) => job[j] = Unoccupied
<1>1. job[j] \in [at : {"idle"}] \cup BusyJob
  BY DEF OrdersTypeOK, JobState, BusyJob
<1> QED BY <1>1 DEF Busy, Unoccupied, BusyJob

LEMMA HandlerFacts ==
  ASSUME OrdersTypeOK, NEW h \in Handler
  PROVE  /\ handler[h].at # "idle" => handler[h] \in BusyHandler /\ handler[h] # Unoccupied
         /\ handler[h].at = "idle" => handler[h] = Unoccupied
<1>1. handler[h] \in [at : {"idle"}] \cup BusyHandler
  BY DEF OrdersTypeOK, HandlerState, BusyHandler
<1> QED BY <1>1 DEF Unoccupied, BusyHandler

JobGoes(j, at, woo, rev) ==
  /\ job' \in [Job -> JobState]
  /\ job'[j].at = at /\ job'[j].woo = woo /\ job'[j].rev = rev
  /\ job'[j].op = job[j].op /\ job'[j].store = job[j].store
  /\ \A k \in Job : k # j => job'[k] = job[k]

JobEnds(j) ==
  /\ job' \in [Job -> JobState]
  /\ job'[j] = Unoccupied
  /\ \A k \in Job : k # j => job'[k] = job[k]

(* The job moves, with what its call answered.                             *)
Moved(j, at, woo, rev) ==
  \/ job' = [job EXCEPT ![j].at = at] /\ woo = job[j].woo /\ rev = job[j].rev
  \/ job' = [job EXCEPT ![j].woo = woo, ![j].at = at] /\ rev = job[j].rev
  \/ job' = [job EXCEPT ![j].at = at, ![j].woo = woo, ![j].rev = rev]
  \/ job' = [job EXCEPT ![j].at = at, ![j].rev = rev] /\ woo = job[j].woo

LEMMA JobMoves ==
  ASSUME OrdersTypeOK, NEW j \in Job, Busy(j),
         NEW at \in {"load", "search", "create", "get", "put", "confirm"},
         NEW woo \in Woo \cup {NoOp}, NEW rev \in Revision \cup {NoOp},
         Moved(j, at, woo, rev)
  PROVE  JobGoes(j, at, woo, rev)
<1>1. job \in [Job -> JobState]
  BY DEF OrdersTypeOK
<1>2. job[j] \in BusyJob
  BY JobFacts
<1>3. PICK new : /\ job' = [job EXCEPT ![j] = new]
                 /\ new \in BusyJob /\ new.at = at /\ new.woo = woo /\ new.rev = rev
                 /\ new.op = job[j].op /\ new.store = job[j].store
  <2>1. CASE job' = [job EXCEPT ![j].at = at] /\ woo = job[j].woo /\ rev = job[j].rev
    <3> DEFINE new == [job[j] EXCEPT !.at = at]
    <3>1. job' = [job EXCEPT ![j] = new]
      BY <1>1, <2>1
    <3>2. /\ new \in BusyJob /\ new.at = at /\ new.woo = woo /\ new.rev = rev
          /\ new.op = job[j].op /\ new.store = job[j].store
      BY <1>2, <2>1 DEF BusyJob
    <3> QED BY <3>1, <3>2
  <2>2. CASE job' = [job EXCEPT ![j].woo = woo, ![j].at = at] /\ rev = job[j].rev
    <3> DEFINE new == [job[j] EXCEPT !.woo = woo, !.at = at]
    <3>1. job' = [job EXCEPT ![j] = new]
      BY <1>1, <2>2
    <3>2. /\ new \in BusyJob /\ new.at = at /\ new.woo = woo /\ new.rev = rev
          /\ new.op = job[j].op /\ new.store = job[j].store
      BY <1>2, <2>2 DEF BusyJob
    <3> QED BY <3>1, <3>2
  <2>3. CASE job' = [job EXCEPT ![j].at = at, ![j].woo = woo, ![j].rev = rev]
    <3> DEFINE new == [job[j] EXCEPT !.at = at, !.woo = woo, !.rev = rev]
    <3>1. job' = [job EXCEPT ![j] = new]
      BY <1>1, <2>3
    <3>2. /\ new \in BusyJob /\ new.at = at /\ new.woo = woo /\ new.rev = rev
          /\ new.op = job[j].op /\ new.store = job[j].store
      BY <1>2, <2>3 DEF BusyJob
    <3> QED BY <3>1, <3>2
  <2>4. CASE job' = [job EXCEPT ![j].at = at, ![j].rev = rev] /\ woo = job[j].woo
    <3> DEFINE new == [job[j] EXCEPT !.at = at, !.rev = rev]
    <3>1. job' = [job EXCEPT ![j] = new]
      BY <1>1, <2>4
    <3>2. /\ new \in BusyJob /\ new.at = at /\ new.woo = woo /\ new.rev = rev
          /\ new.op = job[j].op /\ new.store = job[j].store
      BY <1>2, <2>4 DEF BusyJob
    <3> QED BY <3>1, <3>2
  <2> QED BY <2>1, <2>2, <2>3, <2>4 DEF Moved
<1>4. BusyJob \subseteq JobState
  BY DEF BusyJob, JobState
<1> QED BY <1>1, <1>3, <1>4 DEF JobGoes

LEMMA JobStops ==
  ASSUME OrdersTypeOK, NEW j \in Job, Done(j)
  PROVE  JobEnds(j)
  BY RowTypes DEF OrdersTypeOK, Done, JobEnds

(* An order of the CRM is written.                                         *)
OrderIs(o, s, row) ==
  /\ order' \in [Op -> [Store -> Order]]
  /\ order'[o][s] = row
  /\ \A p \in Op, t \in Store : p # o \/ t # s => order'[p][t] = order[p][t]
LEMMA OrderMoves ==
  ASSUME OrdersTypeOK, NEW o \in Op, NEW s \in Store, NEW row \in Order,
         order' = [order EXCEPT ![o][s] = row]
  PROVE  OrderIs(o, s, row)
<1>1. order \in [Op -> [Store -> Order]]
  BY DEF OrdersTypeOK
<1>2. order' = [order EXCEPT ![o] = [order[o] EXCEPT ![s] = row]]
  BY <1>1
<1> QED BY <1>1, <1>2 DEF OrderIs

LEMMA OrderEdit ==
  ASSUME NEW row \in Order, NEW woo \in Woo \cup {NoOp}, NEW rev \in Revision \cup {NoOp},
         NEW sync \in {"PENDING", "SYNCING", "SYNCED", "ERROR"}, NEW new,
         \/ new = [row EXCEPT !.woo = woo, !.rev = rev, !.sync = sync]
         \/ new = [row EXCEPT !.sync = sync] /\ woo = row.woo /\ rev = row.rev
  PROVE  /\ new \in Order /\ new.state = row.state
         /\ new.woo = woo /\ new.rev = rev /\ new.sync = sync
<1>1. CASE new = [row EXCEPT !.woo = woo, !.rev = rev, !.sync = sync]
  BY <1>1 DEF Order
<1>2. CASE new = [row EXCEPT !.sync = sync] /\ woo = row.woo /\ rev = row.rev
  BY <1>2 DEF Order
<1> QED BY <1>1, <1>2

-----------------------------------------------------------------------------
(* The inductive invariant                                                 *)

Used(o) == o \in Op /\ operation[o].state # "UNUSED"
Crm(o) == Live(o) /\ operation[o].source = "CRM"

(* Nobody has told a store of an operation before it is completed; ...     *)
Unsent(o) ==
  /\ \A j \in Job : Busy(j) => job[j].op # o
  /\ \A c \in late : c.op # o
  /\ \A s \in Store, w \in Woo : shop[s][w].key # o
RowIsTrue(o) ==
  LET q == operation[o] IN
  /\ q.state = "UNUSED" => q = Unused /\ \A s \in Store : order[o][s] = NoOrder
  /\ q.state = "DELETED" =>
        /\ q = [Unused EXCEPT !.state = "DELETED"]
        /\ \A s \in Store : order[o][s] = GoneOrder
  /\ q.reopened => q.source = "WOOCOMMERCE"
  /\ q.source = "CRM" => q.status # "CANCELLED"
  /\ q.state # "DELETED" /\ q.source = "CRM" /\ q.status = "PENDING" =>
        /\ Unsent(o)
        /\ \A s \in Store : order[o][s].woo = NoOp /\ order[o][s].sync = "PENDING"

(* ... a linked order names a revision of a store order, and one of the    *)
(* CRM is linked for good.                                                 *)
OrderIsTrue(o, s) ==
  LET q == order[o][s] IN
  /\ q.state # "LIVE" => q.woo = NoOp /\ q.rev = NoOp /\ q.sync = "PENDING"
  /\ q.woo = NoOp => q.sync # "SYNCED"
  /\ q.woo # NoOp => Exists(s, q.woo) /\ q.rev \in 1..Newest(s, q.woo)
  /\ operation[o].source = "CRM" /\ q.woo # NoOp => q.sync = "SYNCED"
LinkedOnce ==
  \A o, p \in Op, s \in Store :
      order[o][s].woo = order[p][s].woo => o = p \/ order[o][s].woo = NoOp
VacantOrNot == \A s \in Store, w \in Woo : ~Exists(s, w) => shop[s][w] = Vacant

(* An order of the CRM has one job at most; it creates what nobody else    *)
(* created, and never updates.                                             *)
Called(o, s, w) == shop[s][w].key = o /\ shop[s][w].born = "call"
Together(j, k) == job[j].op = job[k].op /\ job[j].store = job[k].store
JobIsTrue(j) ==
  LET q == job[j] IN
  Busy(j) =>
    /\ q.at \in {"get", "put", "confirm"} => q.woo \in Woo /\ Exists(q.store, q.woo)
    /\ q.at = "confirm" => q.rev \in 1..Newest(q.store, q.woo)
    /\ Crm(q.op) =>
        /\ q.at \notin {"get", "put"}
        /\ order[q.op][q.store].sync \in {"SYNCING", "SYNCED"}
        /\ q.at = "create" => \A w \in Woo : ~Called(q.op, q.store, w)
        /\ \A k \in Job : Busy(k) /\ Together(j, k) => k = j
LateIsTrue(c) ==
  c.call = "put" => c.woo \in Woo /\ Exists(c.store, c.woo) /\ ~Crm(c.op)
CreatedOnceThere(o, s) ==
  Crm(o) => \A v, w \in Woo : Called(o, s, v) /\ Called(o, s, w) => v = w

(* What an import read of an operation of the CRM still is so.             *)
ImportIsTrue(h) ==
  LET seen == handler[h].seen IN
  handler[h].at # "idle" =>
    /\ Sent(handler[h].event)
    /\ handler[h].at = "write" /\ seen.op # NoOp =>
        /\ Used(seen.op)
        /\ Live(seen.op) => seen.source = operation[seen.op].source
        /\ Crm(seen.op) =>
              operation[seen.op].status = "COMPLETED" /\ seen.status = "COMPLETED"

Rows ==
  /\ \A o \in Op : RowIsTrue(o)
  /\ \A o \in Op, s \in Store : OrderIsTrue(o, s)
  /\ \A o \in Op, s \in Store : CreatedOnceThere(o, s)
  /\ LinkedOnce
  /\ VacantOrNot
Work ==
  /\ \A j \in Job : JobIsTrue(j)
  /\ \A c \in late : LateIsTrue(c)
  /\ \A h \in Handler : ImportIsTrue(h)
OrdersIInv == OrdersTypeOK /\ Rows /\ Work

(* No step takes back a revision, the existence of an operation, or, until *)
(* it is deleted, where it came from and that it was completed.            *)
Grows ==
  /\ \A s \in Store, w \in Woo :
        /\ Exists(s, w) => Exists(s, w)'
        /\ 1..Newest(s, w) \subseteq 1..Newest(s, w)'
  /\ \A o \in Op : Used(o) =>
        /\ Used(o)'
        /\ Live(o)' =>
            /\ Live(o) /\ operation'[o].source = operation[o].source
            /\ operation[o].source = "CRM" /\ operation[o].status = "COMPLETED" =>
                    operation'[o].status = "COMPLETED"

LEMMA CrmStays ==
  ASSUME Grows, NEW o, Used(o), Crm(o)'
  PROVE  Crm(o)
  BY DEF Grows, Crm, Used

LEMMA SentIsUsed ==
  ASSUME OrdersIInv, NEW o \in Op, ~Unsent(o)
  PROVE  Used(o)
  BY DEF OrdersIInv, Rows, RowIsTrue, Used, Unused

LEMMA OrderKept ==
  ASSUME OrdersIInv, Grows, NEW o \in Op, NEW s \in Store, order'[o][s] = order[o][s],
         operation'[o].source = operation[o].source \/ order[o][s].woo = NoOp
  PROVE  OrderIsTrue(o, s)'
<1>1. OrderIsTrue(o, s) /\ order[o][s].woo \in Woo \cup {NoOp}
  BY DEF OrdersIInv, Rows, OrdersTypeOK, Order
<1>2. order[o][s].woo # NoOp => /\ Exists(s, order[o][s].woo)'
                                /\ order[o][s].rev \in 1..Newest(s, order[o][s].woo)'
  BY <1>1 DEF OrderIsTrue, Grows
<1> QED BY <1>1, <1>2 DEF OrderIsTrue, Exists, Newest

LEMMA RowKept ==
  ASSUME OrdersIInv, NEW o \in Op, operation'[o] = operation[o], order'[o] = order[o],
         Unsent(o) => Unsent(o)'
  PROVE  RowIsTrue(o)'
<1>1. RowIsTrue(o)
  BY DEF OrdersIInv, Rows
<1> QED BY <1>1 DEF RowIsTrue

(* The other jobs of the order: they stay or end.                          *)
NoNewJob(j) ==
  \A k \in Job : Busy(k)' /\ Together(j, k)' => Busy(k) /\ Together(j, k)
LEMMA JobKept ==
  ASSUME OrdersIInv, Grows, NEW j \in Job, job'[j] = job[j],
         Busy(j) /\ Crm(job[j].op) /\ operation'[job[j].op].state = "LIVE" =>
            /\ \/ order'[job[j].op][job[j].store].sync = order[job[j].op][job[j].store].sync
               \/ order'[job[j].op][job[j].store].sync \in {"SYNCING", "SYNCED"}
            /\ \A w \in Woo : Called(job[j].op, job[j].store, w)' =>
                    Called(job[j].op, job[j].store, w) \/ job[j].at # "create"
            /\ NoNewJob(j)
  PROVE  JobIsTrue(j)'
<1> SUFFICES ASSUME Busy(j) PROVE JobIsTrue(j)'
  BY DEF JobIsTrue, Busy
<1> DEFINE q == job[j]
<1>1. JobIsTrue(j) /\ q \in BusyJob
  BY JobFacts DEF OrdersIInv, Work
<1>2. q.op \in Op /\ q.store \in Store
  BY <1>1 DEF BusyJob
<1>3. q.at \in {"get", "put", "confirm"} => q.woo \in Woo /\ Exists(q.store, q.woo)'
  BY <1>1, <1>2 DEF JobIsTrue, Grows
<1>4. q.at = "confirm" => q.rev \in 1..Newest(q.store, q.woo)'
  BY <1>1, <1>2 DEF JobIsTrue, Grows
<1>5. Used(q.op)
  BY <1>2, SentIsUsed DEF Unsent
<1>6. ASSUME Crm(q.op)'
      PROVE  /\ q.at \notin {"get", "put"}
             /\ order'[q.op][q.store].sync \in {"SYNCING", "SYNCED"}
             /\ q.at = "create" => \A w \in Woo : ~Called(q.op, q.store, w)'
             /\ \A k \in Job : Busy(k)' /\ Together(j, k)' => k = j
  <2>1. Crm(q.op)
    BY <1>5, <1>6, CrmStays
  <2>2. operation'[q.op].state = "LIVE"
    BY <1>6 DEF Crm, Live
  <2> QED BY <1>1, <2>1, <2>2 DEF JobIsTrue, NoNewJob
<1> QED BY <1>3, <1>4, <1>6 DEF JobIsTrue, Busy, Exists, Newest, Called, Crm, Live

LEMMA LateKept ==
  ASSUME OrdersIInv, Grows, NEW c \in late
  PROVE  LateIsTrue(c)'
<1>1. LateIsTrue(c) /\ c \in LateCall
  BY DEF OrdersIInv, Work, OrdersTypeOK
<1>2. c.op \in Op /\ c.store \in Store
  BY <1>1 DEF LateCall
<1>3. Used(c.op)
  BY <1>2, SentIsUsed DEF Unsent
<1> QED BY <1>1, <1>2, <1>3, CrmStays DEF LateIsTrue, Grows

LEMMA ImportKept ==
  ASSUME OrdersIInv, Grows, NEW h \in Handler, handler'[h] = handler[h]
  PROVE  ImportIsTrue(h)'
<1> SUFFICES ASSUME handler[h].at # "idle" PROVE ImportIsTrue(h)'
  BY DEF ImportIsTrue
<1> DEFINE seen == handler[h].seen
           e == handler[h].event
<1>1. ImportIsTrue(h) /\ handler[h] \in BusyHandler
  BY HandlerFacts DEF OrdersIInv, Work
<1>2. e \in Event /\ seen \in Seen
  BY <1>1 DEF BusyHandler
<1>3. e.store \in Store /\ e.woo \in Woo /\ e.rev \in Revision
  BY <1>2 DEF Event
<1>4. /\ e.rev \in Nat /\ e.rev >= 1 /\ Newest(e.store, e.woo) \in Nat
      /\ e.rev <= Newest(e.store, e.woo)
  <2>1. e.rev \in Nat /\ e.rev >= 1
    BY <1>3, RevisionFacts
  <2>2. Newest(e.store, e.woo) \in Nat
    BY <1>3, ShopFacts DEF OrdersIInv
  <2>3. e.rev <= Newest(e.store, e.woo)
    BY <1>1 DEF ImportIsTrue, Sent
  <2> QED BY <2>1, <2>2, <2>3
<1>5. e.rev \in 1..Newest(e.store, e.woo)'
  BY <1>3, <1>4 DEF Grows
<1>6. Sent(e)'
  BY <1>5 DEF Sent, Newest
<1>7. ASSUME handler[h].at = "write", seen.op # NoOp
      PROVE  /\ Used(seen.op)'
             /\ Live(seen.op)' => seen.source = operation'[seen.op].source
             /\ Crm(seen.op)' =>
                  operation'[seen.op].status = "COMPLETED" /\ seen.status = "COMPLETED"
  BY <1>1, <1>7 DEF ImportIsTrue, Grows, Used, Crm
<1> QED BY <1>6, <1>7 DEF ImportIsTrue, Sent, Newest, Used, Crm, Live

-----------------------------------------------------------------------------
(* Steps that leave the tables of orders alone                             *)

LEMMA StillGrows ==
  ASSUME OrdersTypeOK, UNCHANGED <<operation, shop>>
  PROVE  Grows
  BY DEF Grows, Used, Live, Exists, Newest

LEMMA QuietRows ==
  ASSUME OrdersIInv, UNCHANGED <<operation, order, shop>>,
         \A o \in Op : Unsent(o) => Unsent(o)'
  PROVE  Rows'
<1>1. \A o \in Op : RowIsTrue(o)'
  BY RowKept
<1>2. \A o \in Op, s \in Store : OrderIsTrue(o, s)'
  BY OrderKept, StillGrows DEF OrdersIInv
<1>3. \A o \in Op, s \in Store : CreatedOnceThere(o, s)'
  BY DEF OrdersIInv, Rows, CreatedOnceThere, Called, Crm, Live
<1>4. LinkedOnce' /\ VacantOrNot'
  BY DEF OrdersIInv, Rows, LinkedOnce, VacantOrNot, Exists
<1> QED BY <1>1, <1>2, <1>3, <1>4 DEF Rows

(* Requests move, or deliveries are noted.                                 *)
LEMMA RequestsMove ==
  ASSUME OrdersIInv, UNCHANGED <<operation, order, shop, job, late>>, OrdersTypeOK',
         \A h \in Handler : handler'[h] = handler[h] \/ ImportIsTrue(h)'
  PROVE  OrdersIInv'
<1>1. Grows
  BY StillGrows DEF OrdersIInv
<1>2. Rows'
  BY QuietRows DEF Unsent, Busy
<1>3. \A j \in Job : JobIsTrue(j)'
  BY <1>1, JobKept DEF NoNewJob, Busy, Together, Called
<1>4. \A c \in late : LateIsTrue(c)'
  BY <1>1, LateKept
<1>5. \A h \in Handler : ImportIsTrue(h)'
  BY <1>1, ImportKept
<1> QED BY <1>2, <1>3, <1>4, <1>5 DEF OrdersIInv, Work

(* A job moves on.                                                         *)
LEMMA JobGoesOn ==
  ASSUME OrdersIInv, NEW j \in Job, Busy(j), NEW at, NEW woo, NEW rev,
         UNCHANGED <<operation, order, shop, delivery, handler, late, mishaps>>,
         JobGoes(j, at, woo, rev), JobIsTrue(j)'
  PROVE  OrdersIInv'
<1>1. Grows
  BY StillGrows DEF OrdersIInv
<1>2. \A k \in Job : Busy(k)' => Busy(k) /\ job'[k].op = job[k].op
                              /\ job'[k].store = job[k].store
  BY DEF JobGoes, Busy
<1>3. Rows'
  BY <1>2, QuietRows DEF Unsent
<1>4. \A k \in Job : JobIsTrue(k)'
  <2>1. ASSUME NEW k \in Job, k # j PROVE JobIsTrue(k)'
    <3>1. job'[k] = job[k]
      BY <2>1 DEF JobGoes
    <3>2. NoNewJob(k)
      BY <1>2, <3>1 DEF NoNewJob, Together
    <3> QED BY <1>1, <3>1, <3>2, JobKept DEF Called
  <2> QED BY <2>1
<1>5. \A c \in late : LateIsTrue(c)'
  BY <1>1, LateKept
<1>6. \A h \in Handler : ImportIsTrue(h)'
  BY <1>1, ImportKept
<1>7. OrdersTypeOK'
  BY DEF OrdersIInv, OrdersTypeOK, JobGoes
<1> QED BY <1>3, <1>4, <1>5, <1>6, <1>7 DEF OrdersIInv, Work

(* Jobs and requests are forgotten; calls may still arrive.                *)
LEMMA WorkIsLost ==
  ASSUME OrdersIInv, UNCHANGED <<operation, order, shop, delivery>>,
         handler' \in [Handler -> HandlerState], job' \in [Job -> JobState],
         \A h \in Handler : handler'[h] = handler[h] \/ handler'[h] = Unoccupied,
         \A j \in Job : job'[j] = job[j] \/ job'[j] = Unoccupied,
         \A c \in late' : c \in late \/ \E j \in Job : Busy(j) /\ c = CallOfJob(j)
                                           /\ job[j].at \in {"create", "put"},
         late \subseteq late', mishaps' \in 0..MaxMishaps
  PROVE  OrdersIInv'
<1>1. Grows
  BY StillGrows DEF OrdersIInv
<1>2. \A k \in Job : Busy(k)' => Busy(k) /\ job'[k] = job[k]
  BY DEF Busy, Unoccupied
<1>3. ASSUME NEW c \in late', c \notin late
      PROVE  /\ c \in LateCall
             /\ \E j \in Job : Busy(j) /\ c.op = job[j].op
             /\ LateIsTrue(c)'
  <2>1. PICK j \in Job : Busy(j) /\ c = CallOfJob(j) /\ job[j].at \in {"create", "put"}
    BY <1>3
  <2>2. job[j] \in BusyJob /\ JobIsTrue(j)
    BY <2>1, JobFacts DEF OrdersIInv, Work
  <2>3. /\ c.call = job[j].at /\ c.op = job[j].op /\ c.store = job[j].store
        /\ c.woo = job[j].woo
    BY <2>1 DEF CallOfJob
  <2>4. c \in LateCall
    BY <2>1, <2>2 DEF CallOfJob, LateCall, BusyJob
  <2>5. c.call = "put" => c.woo \in Woo /\ Exists(c.store, c.woo) /\ ~Crm(c.op)
    BY <2>1, <2>2, <2>3 DEF JobIsTrue
  <2> QED BY <2>1, <2>3, <2>4, <2>5 DEF LateIsTrue, Exists, Crm, Live
<1>4. \A o \in Op : Unsent(o) => Unsent(o)'
  BY <1>2, <1>3 DEF Unsent
<1>5. Rows'
  BY <1>4, QuietRows
<1>6. \A k \in Job : JobIsTrue(k)'
  <2>1. ASSUME NEW k \in Job, Busy(k)' PROVE JobIsTrue(k)'
    <3>1. NoNewJob(k)
      BY <1>2, <2>1 DEF NoNewJob, Together
    <3> QED BY <1>1, <1>2, <2>1, <3>1, JobKept DEF Called
  <2> QED BY <2>1 DEF JobIsTrue
<1>7. \A c \in late' : LateIsTrue(c)'
  BY <1>1, <1>3, LateKept
<1>8. \A h \in Handler : ImportIsTrue(h)'
  BY <1>1, ImportKept DEF ImportIsTrue, Unoccupied
<1>9. OrdersTypeOK'
  <2>1. late' \subseteq LateCall
    BY <1>3 DEF OrdersIInv, OrdersTypeOK
  <2> QED BY <2>1 DEF OrdersIInv, OrdersTypeOK
<1> QED BY <1>5, <1>6, <1>7, <1>8, <1>9 DEF OrdersIInv, Work

-----------------------------------------------------------------------------
(* The steps of webhooks that only read, or only note the delivery         *)

HandlerIs(h, new) ==
  /\ handler' \in [Handler -> HandlerState]
  /\ handler'[h] = new
  /\ \A k \in Handler : k # h => handler'[k] = handler[k]
LEMMA HandlerMoves ==
  ASSUME OrdersTypeOK, NEW h \in Handler, NEW new \in HandlerState,
         handler' = [handler EXCEPT ![h] = new]
  PROVE  HandlerIs(h, new)
<1>1. handler \in [Handler -> HandlerState]
  BY DEF OrdersTypeOK
<1> QED BY <1>1 DEF HandlerIs

LEMMA HandlerLeaves ==
  ASSUME OrdersTypeOK, NEW h \in Handler, Leave(h)
  PROVE  HandlerIs(h, Unoccupied) /\ ImportIsTrue(h)'
<1>1. HandlerIs(h, Unoccupied)
  BY RowTypes, HandlerMoves DEF Leave
<1> QED BY <1>1 DEF HandlerIs, ImportIsTrue, Unoccupied

LEMMA DeliveryEdit ==
  ASSUME OrdersTypeOK, NEW e \in Event, NEW new \in Delivery,
         delivery' = [delivery EXCEPT ![e] = new]
  PROVE  delivery' \in [Event -> Delivery]
  BY DEF OrdersTypeOK

LEMMA DeliveryNoted ==
  ASSUME OrdersTypeOK, NEW e \in Event, NEW status \in {"PENDING", "PROCESSED", "ERROR"},
         delivery' = [delivery EXCEPT ![e].status = status]
  PROVE  delivery' \in [Event -> Delivery]
<1> DEFINE new == [delivery[e] EXCEPT !.status = status]
<1>1. delivery \in [Event -> Delivery] /\ delivery[e] \in Delivery
  BY DEF OrdersTypeOK
<1>2. new \in Delivery
  BY <1>1 DEF Delivery
<1>3. delivery' = [delivery EXCEPT ![e] = new]
  BY <1>1
<1> QED BY <1>1, <1>2, <1>3

LEMMA RequestKeeps ==
  ASSUME OrdersIInv, NEW h \in Handler, NEW new, HandlerIs(h, new), ImportIsTrue(h)',
         delivery' \in [Event -> Delivery], mishaps' \in 0..MaxMishaps,
         UNCHANGED <<operation, order, shop, job, late>>
  PROVE  OrdersIInv'
<1>1. OrdersTypeOK'
  BY DEF OrdersIInv, OrdersTypeOK, HandlerIs
<1>2. \A k \in Handler : handler'[k] = handler[k] \/ ImportIsTrue(k)'
  BY DEF HandlerIs
<1> QED BY <1>1, <1>2, RequestsMove

LEMMA ClaimDeliveryKeeps ==
  ASSUME OrdersIInv, NEW h \in Handler, NEW e \in Event, ClaimDelivery(h, e)
  PROVE  OrdersIInv'
<1> DEFINE new == [at |-> "read", event |-> e, again |-> FALSE, seen |-> NothingSeen]
<1>1. new \in HandlerState
  BY RowTypes DEF HandlerState
<1>2. HandlerIs(h, new)
  BY <1>1, HandlerMoves DEF ClaimDelivery, OrdersIInv
<1>3. delivery' \in [Event -> Delivery]
  BY DeliveryNoted DEF ClaimDelivery, OrdersIInv
<1>4. ImportIsTrue(h)'
  BY <1>2 DEF HandlerIs, ImportIsTrue, ClaimDelivery, Sent, Newest
<1>5. mishaps' \in 0..MaxMishaps /\ UNCHANGED <<operation, order, shop, job, late>>
  BY DEF ClaimDelivery, OrdersIInv, OrdersTypeOK
<1> QED BY <1>2, <1>3, <1>4, <1>5, RequestKeeps

(* What the import finds exists, and one of the CRM is completed.          *)
LEMMA FoundIsCompleted ==
  ASSUME OrdersIInv, NEW e \in Event, NEW o \in Found(e)
  PROVE  o \in Op /\ Live(o) /\ (operation[o].source = "CRM" => operation[o].status = "COMPLETED")
<1>1. /\ o \in Op /\ Live(o)
      /\ \/ order[o][e.store].woo = e.woo
         \/ o = shop[e.store][e.woo].key
  BY DEF Found, Known, Adoptable
<1>2. e.store \in Store /\ e.woo \in Woo /\ e.woo # NoOp
  BY NumberFacts DEF Event
<1>3. ASSUME operation[o].source = "CRM", operation[o].status # "COMPLETED" PROVE FALSE
  <2>1. operation[o].status = "PENDING"
    BY <1>1, <1>3 DEF OrdersIInv, OrdersTypeOK, Rows, RowIsTrue, Operation, OperationStatus
  <2>2. /\ \A s \in Store : order[o][s].woo = NoOp
        /\ \A s \in Store, w \in Woo : shop[s][w].key # o
    BY <1>1, <1>3, <2>1 DEF OrdersIInv, Rows, RowIsTrue, Unsent, Live
  <2> QED BY <1>1, <1>2, <2>2
<1> QED BY <1>1, <1>3

LEMMA ImportReadKeeps ==
  ASSUME OrdersIInv, NEW h \in Handler, ImportRead(h)
  PROVE  OrdersIInv'
<1> DEFINE e == handler[h].event
<1>1. /\ handler[h] \in BusyHandler /\ e \in Event /\ e.store \in Store
      /\ ImportIsTrue(h) /\ Sent(e)
  <2>1. handler[h] \in BusyHandler /\ ImportIsTrue(h) /\ handler[h].at # "idle"
    BY HandlerFacts DEF ImportRead, OrdersIInv, Work
  <2> QED BY <2>1 DEF BusyHandler, Event, ImportIsTrue
<1>2. PICK seen \in Seen :
        /\ handler' = [handler EXCEPT ![h].at = "write", ![h].seen = seen]
        /\ seen.op # NoOp =>
              /\ Live(seen.op) /\ seen.source = operation[seen.op].source
              /\ seen.status = operation[seen.op].status
              /\ seen.source = "CRM" => seen.status = "COMPLETED"
  <2>1. CASE Found(e) = {}
    BY <2>1, RowTypes DEF ImportRead, NothingSeen
  <2>2. CASE Found(e) # {}
    <3>1. PICK o : o = (CHOOSE p \in Found(e) : TRUE)
      OBVIOUS
    <3> DEFINE seen == [op |-> o, source |-> operation[o].source,
                        status |-> operation[o].status,
                        reopened |-> operation[o].reopened, rev |-> order[o][e.store].rev]
    <3>2. o \in Found(e)
      BY <2>2, <3>1
    <3>3. o \in Op /\ Live(o) /\ (operation[o].source = "CRM" => operation[o].status = "COMPLETED")
      BY <1>1, <3>2, FoundIsCompleted
    <3>4. operation[o] \in Operation /\ order[o][e.store] \in Order
      BY <1>1, <3>3 DEF OrdersIInv, OrdersTypeOK
    <3>5. seen \in Seen
      BY <3>3, <3>4 DEF Seen, Operation, Order
    <3>6. handler' = [handler EXCEPT ![h].at = "write", ![h].seen = seen]
      BY <2>2, <3>1 DEF ImportRead
    <3> QED BY <3>3, <3>5, <3>6
  <2> QED BY <2>1, <2>2
<1> DEFINE new == [handler[h] EXCEPT !.at = "write", !.seen = seen]
<1>3. new \in BusyHandler /\ new.at = "write" /\ new.event = e /\ new.seen = seen
  BY <1>1, <1>2 DEF BusyHandler
<1>4. handler' = [handler EXCEPT ![h] = new]
  BY <1>2 DEF OrdersIInv, OrdersTypeOK
<1>5. HandlerIs(h, new)
  BY <1>3, <1>4, HandlerMoves DEF OrdersIInv, BusyHandler, HandlerState
<1>6. handler'[h].at = "write" /\ handler'[h].event = e /\ handler'[h].seen = seen
  BY <1>3, <1>5 DEF HandlerIs
<1>7. UNCHANGED <<operation, order, shop, job, late, delivery, mishaps>>
  BY DEF ImportRead
<1>8. ImportIsTrue(h)'
  BY <1>1, <1>2, <1>6, <1>7 DEF ImportIsTrue, Sent, Newest, Used, Live, Crm
<1>9. delivery' \in [Event -> Delivery] /\ mishaps' \in 0..MaxMishaps
  BY <1>7 DEF OrdersIInv, OrdersTypeOK
<1> QED BY <1>5, <1>7, <1>8, <1>9, RequestKeeps

LEMMA ImportStaleKeeps ==
  ASSUME OrdersIInv, NEW h \in Handler, ImportStale(h)
  PROVE  OrdersIInv'
<1> DEFINE e == handler[h].event
<1>1. e \in Event /\ handler[h].seen.op \in Op
  <2>1. handler[h] \in BusyHandler
    BY HandlerFacts DEF ImportStale, OrdersIInv
  <2> QED BY <2>1 DEF BusyHandler, ImportStale, Live
<1>2. delivery' \in [Event -> Delivery]
  <2>1. [status |-> "PROCESSED", op |-> handler[h].seen.op] \in Delivery
    BY <1>1 DEF Delivery
  <2> QED BY <1>1, <2>1, DeliveryEdit DEF ImportStale, Processed, OrdersIInv
<1>3. HandlerIs(h, Unoccupied) /\ ImportIsTrue(h)'
  BY HandlerLeaves DEF ImportStale, OrdersIInv
<1> QED BY <1>2, <1>3, RequestKeeps DEF ImportStale, OrdersIInv, OrdersTypeOK

LEMMA ImportCollidesKeeps ==
  ASSUME OrdersIInv, NEW h \in Handler, ImportCollides(h)
  PROVE  OrdersIInv'
<1> DEFINE new == [handler[h] EXCEPT !.at = "read", !.again = TRUE]
<1>1. handler[h] \in BusyHandler /\ ImportIsTrue(h) /\ handler[h].at = "write"
  BY HandlerFacts DEF ImportCollides, OrdersIInv, Work
<1>2. new \in BusyHandler /\ new.at = "read" /\ new.event = handler[h].event
  BY <1>1 DEF BusyHandler
<1>3. handler' = [handler EXCEPT ![h] = new]
  BY DEF ImportCollides, OrdersIInv, OrdersTypeOK
<1>4. HandlerIs(h, new)
  BY <1>2, <1>3, HandlerMoves DEF OrdersIInv, BusyHandler, HandlerState
<1>5. ImportIsTrue(h)'
  BY <1>1, <1>2, <1>4 DEF HandlerIs, ImportIsTrue, ImportCollides, Sent, Newest
<1> QED BY <1>4, <1>5, RequestKeeps DEF ImportCollides, OrdersIInv, OrdersTypeOK

LEMMA ImportFailsKeeps ==
  ASSUME OrdersIInv, NEW h \in Handler, ImportFails(h)
  PROVE  OrdersIInv'
<1> DEFINE e == handler[h].event
<1>1. e \in Event
  <2>1. handler[h] \in BusyHandler
    BY HandlerFacts DEF ImportFails, OrdersIInv
  <2> QED BY <2>1 DEF BusyHandler
<1>2. delivery' \in [Event -> Delivery]
  <2>1. CASE delivery[e].status = "PROCESSED"
    <3>1. delivery' = [delivery EXCEPT ![e].status = "PROCESSED"]
      BY <1>1, <2>1 DEF ImportFails, OrdersIInv, OrdersTypeOK
    <3> QED BY <1>1, <3>1, DeliveryNoted DEF OrdersIInv
  <2>2. CASE delivery[e].status # "PROCESSED"
    <3>1. delivery' = [delivery EXCEPT ![e].status = "ERROR"]
      BY <1>1, <2>2 DEF ImportFails, OrdersIInv, OrdersTypeOK
    <3> QED BY <1>1, <3>1, DeliveryNoted DEF OrdersIInv
  <2> QED BY <2>1, <2>2
<1>3. HandlerIs(h, Unoccupied) /\ ImportIsTrue(h)'
  BY HandlerLeaves DEF ImportFails, OrdersIInv
<1>4. mishaps' \in 0..MaxMishaps
  BY ShelfFacts DEF ImportFails, OrdersIInv, OrdersTypeOK
<1> QED BY <1>2, <1>3, <1>4, RequestKeeps DEF ImportFails

-----------------------------------------------------------------------------
(* The steps of jobs that leave the orders alone                           *)

LEMMA JobOf ==
  ASSUME OrdersIInv, NEW j \in Job, Busy(j)
  PROVE  /\ job[j] \in BusyJob /\ JobIsTrue(j)
         /\ job[j].op \in Op /\ job[j].store \in Store
         /\ job[j].woo \in Woo \cup {NoOp} /\ job[j].rev \in Revision \cup {NoOp}
<1>1. job[j] \in BusyJob /\ JobIsTrue(j)
  BY JobFacts DEF OrdersIInv, Work
<1> QED BY <1>1 DEF BusyJob

(* A job that goes on keeps its order to itself.                           *)
LEMMA StillAlone ==
  ASSUME OrdersIInv, NEW j \in Job, Busy(j), NEW at, NEW woo, NEW rev,
         JobGoes(j, at, woo, rev), NEW k \in Job, Crm(job[j].op),
         Busy(k)', Together(j, k)'
  PROVE  k = j
<1> SUFFICES ASSUME k # j PROVE FALSE
  OBVIOUS
<1>1. job'[k] = job[k] /\ job'[j].op = job[j].op /\ job'[j].store = job[j].store
  BY DEF JobGoes
<1>2. Busy(k) /\ Together(j, k)
  BY <1>1 DEF Busy, Together
<1>3. JobIsTrue(j)
  BY DEF OrdersIInv, Work
<1> QED BY <1>2, <1>3 DEF JobIsTrue

LEMMA LoadOrderKeeps ==
  ASSUME OrdersIInv, NEW j \in Job, LoadOrder(j)
  PROVE  OrdersIInv'
<1> DEFINE o == job[j].op
           s == job[j].store
           at == IF order[o][s].woo = NoOp THEN "search" ELSE "get"
<1>1. Busy(j)
  BY DEF LoadOrder, Busy
<1>2. /\ JobIsTrue(j) /\ o \in Op /\ s \in Store /\ job[j].rev \in Revision \cup {NoOp}
      /\ order[o][s] \in Order /\ OrderIsTrue(o, s)
  BY <1>1, JobOf DEF OrdersIInv, OrdersTypeOK, Rows
<1>3. order[o][s].woo \in Woo \cup {NoOp}
  BY <1>2 DEF Order
<1>4. CASE Syncing(o, s)
  <2>1. job' = [job EXCEPT ![j].woo = order[o][s].woo, ![j].at = at]
    BY <1>4 DEF LoadOrder
  <2>2. JobGoes(j, at, order[o][s].woo, job[j].rev)
    BY <1>1, <1>2, <1>3, <2>1, JobMoves DEF Moved, OrdersIInv
  <2>3. UNCHANGED <<operation, order, delivery, shop, handler, late, mishaps>>
    BY DEF LoadOrder
  <2>4. order[o][s].woo # NoOp => Exists(s, order[o][s].woo) /\ ~Crm(o)
    BY <1>2, <1>4 DEF OrderIsTrue, Syncing, Crm
  <2>5. JobIsTrue(j)'
    BY <1>1, <1>2, <1>3, <2>2, <2>3, <2>4, StillAlone
       DEF JobIsTrue, JobGoes, Crm, Live, Exists, Newest
  <2> QED BY <1>1, <2>2, <2>3, <2>5, JobGoesOn
<1>5. CASE ~Syncing(o, s)
  <2>1. JobEnds(j)
    BY <1>5, JobStops DEF LoadOrder, OrdersIInv
  <2> QED BY <2>1, WorkIsLost DEF LoadOrder, JobEnds, OrdersIInv, OrdersTypeOK
<1> QED BY <1>4, <1>5

LEMMA SearchFindsKeeps ==
  ASSUME OrdersIInv, NEW j \in Job, SearchFinds(j)
  PROVE  OrdersIInv'
<1> DEFINE s == job[j].store
<1>1. Busy(j) /\ job[j].at = "search"
  BY DEF SearchFinds, Busy
<1>2. JobIsTrue(j) /\ s \in Store
  BY <1>1, JobOf
<1>3. PICK w \in WithKey(job[j].op, s) :
        job' = [job EXCEPT ![j].at = "confirm", ![j].woo = w, ![j].rev = Newest(s, w)]
  BY DEF SearchFinds
<1>4. w \in Woo /\ Exists(s, w)
  BY <1>3 DEF WithKey
<1>5. Newest(s, w) \in Revision /\ Newest(s, w) \in 1..Newest(s, w)
  <2>1. shop[s][w].log \in Logs /\ Newest(s, w) \in Nat /\ Newest(s, w) >= 1
    BY <1>2, <1>4, ShopFacts DEF OrdersIInv
  <2>2. PICK n \in Revision \cup {0} : shop[s][w].log \in [1..n -> WooStatus]
    BY <2>1 DEF Logs
  <2>3. n \in Nat
    BY <2>2, NumberFacts
  <2>4. Newest(s, w) = n
    BY <2>2, <2>3 DEF Newest
  <2> QED BY <2>1, <2>2, <2>4
<1>6. JobGoes(j, "confirm", w, Newest(s, w))
  BY <1>1, <1>3, <1>4, <1>5, JobMoves DEF Moved, OrdersIInv
<1>7. UNCHANGED <<operation, order, delivery, shop, handler, late, mishaps>>
  BY DEF SearchFinds
<1>8. JobIsTrue(j)'
  BY <1>1, <1>2, <1>4, <1>5, <1>6, <1>7, StillAlone
     DEF JobIsTrue, JobGoes, Crm, Live, Exists, Newest
<1> QED BY <1>1, <1>6, <1>7, <1>8, JobGoesOn

LEMMA SearchFindsNothingKeeps ==
  ASSUME OrdersIInv, NEW j \in Job, SearchFindsNothing(j)
  PROVE  OrdersIInv'
<1>1. Busy(j) /\ job[j].at = "search"
  BY DEF SearchFindsNothing, Busy
<1>2. /\ JobIsTrue(j) /\ job[j].op \in Op /\ job[j].store \in Store
      /\ job[j].woo \in Woo \cup {NoOp} /\ job[j].rev \in Revision \cup {NoOp}
  BY <1>1, JobOf
<1>3. JobGoes(j, "create", job[j].woo, job[j].rev)
  BY <1>1, <1>2, JobMoves DEF Moved, OrdersIInv, SearchFindsNothing, JobAt
<1>4. \A w \in Woo : ~Called(job[j].op, job[j].store, w)
  <2>1. ASSUME NEW w \in Woo, Called(job[j].op, job[j].store, w) PROVE FALSE
    <3>1. ~Exists(job[j].store, w)
      BY <2>1 DEF SearchFindsNothing, WithKey, Called
    <3>2. shop[job[j].store][w] = Vacant
      BY <1>2, <3>1 DEF OrdersIInv, Rows, VacantOrNot
    <3> QED BY <2>1, <3>2 DEF Called, Vacant
  <2> QED BY <2>1
<1>5. UNCHANGED <<operation, order, delivery, shop, handler, late, mishaps>>
  BY DEF SearchFindsNothing
<1>6. JobIsTrue(j)'
  BY <1>1, <1>2, <1>3, <1>4, <1>5, StillAlone
     DEF JobIsTrue, JobGoes, Crm, Live, Exists, Newest, Called
<1> QED BY <1>1, <1>3, <1>5, <1>6, JobGoesOn

LEMMA SnapshotReadKeeps ==
  ASSUME OrdersIInv, NEW j \in Job, SnapshotRead(j)
  PROVE  OrdersIInv'
<1>1. Busy(j) /\ job[j].at = "get"
  BY DEF SnapshotRead, Busy
<1>2. /\ JobIsTrue(j) /\ job[j].op \in Op /\ job[j].store \in Store
      /\ job[j].woo \in Woo \cup {NoOp} /\ job[j].rev \in Revision \cup {NoOp}
  BY <1>1, JobOf
<1>3. JobGoes(j, "put", job[j].woo, job[j].rev)
  BY <1>1, <1>2, JobMoves DEF Moved, OrdersIInv, SnapshotRead, JobAt
<1>4. UNCHANGED <<operation, order, delivery, shop, handler, late, mishaps>>
  BY DEF SnapshotRead
<1>5. JobIsTrue(j)'
  BY <1>1, <1>2, <1>3, <1>4, StillAlone
     DEF JobIsTrue, JobGoes, Crm, Live, Exists, Newest
<1> QED BY <1>1, <1>3, <1>4, <1>5, JobGoesOn

LEMMA WriteFailsKeeps ==
  ASSUME OrdersIInv, WriteFails
  PROVE  OrdersIInv'
<1>1. handler' \in [Handler -> HandlerState] /\ job' \in [Job -> JobState]
  BY RowTypes DEF WriteFails, OrdersIInv, OrdersTypeOK, Leave, Done
<1>2. /\ \A h \in Handler : handler'[h] = handler[h] \/ handler'[h] = Unoccupied
      /\ \A j \in Job : job'[j] = job[j] \/ job'[j] = Unoccupied
  BY DEF WriteFails, OrdersIInv, OrdersTypeOK, Leave, Done
<1>3. mishaps' \in 0..MaxMishaps
  BY ShelfFacts DEF WriteFails, OrdersIInv, OrdersTypeOK
<1> QED BY <1>1, <1>2, <1>3, WorkIsLost DEF WriteFails

LEMMA OrdersRestartKeeps ==
  ASSUME OrdersIInv, OrdersRestart
  PROVE  OrdersIInv'
<1>1. handler' \in [Handler -> HandlerState] /\ job' \in [Job -> JobState]
  BY RowTypes DEF OrdersRestart
<1>2. /\ \A h \in Handler : handler'[h] = handler[h] \/ handler'[h] = Unoccupied
      /\ \A j \in Job : job'[j] = job[j] \/ job'[j] = Unoccupied
  BY DEF OrdersRestart
<1>3. mishaps' \in 0..MaxMishaps
  BY ShelfFacts DEF OrdersRestart, OrdersIInv, OrdersTypeOK
<1>4. /\ late \subseteq late'
      /\ \A c \in late' : c \in late \/ \E j \in Job : Busy(j) /\ c = CallOfJob(j)
                                           /\ job[j].at \in {"create", "put"}
  BY DEF OrdersRestart, Busy
<1> QED BY <1>1, <1>2, <1>3, <1>4, WorkIsLost DEF OrdersRestart

-----------------------------------------------------------------------------
(* The stores: a change of one of their orders, by whoever makes it        *)

LEMMA ShopMoves ==
  ASSUME OrdersIInv, NEW s \in Store, NEW w \in Woo, NEW key \in Op \cup {NoOp}, NEW born,
         ShopIs(s, w, key, born), UNCHANGED <<operation, order>>,
         key = shop[s][w].key \/ key = NoOp \/ ~Unsent(key),
         \A o \in Op : Unsent(o) =>
             (\A j \in Job : Busy(j)' => job'[j].op # o) /\ (\A c \in late' : c.op # o),
         \A o \in Op : Crm(o) /\ Called(o, s, w)' /\ ~Called(o, s, w)
             => \A v \in Woo : ~Called(o, s, v)
  PROVE  Grows /\ Rows'
<1>1. Grows
  <2>1. \A t \in Store, v \in Woo : Exists(t, v) => Exists(t, v)'
    BY DEF ShopIs, Exists
  <2>2. ASSUME NEW t \in Store, NEW v \in Woo
        PROVE  1..Newest(t, v) \subseteq 1..Newest(t, v)'
    <3>1. CASE t = s /\ v = w
      BY <3>1 DEF ShopIs
    <3>2. CASE t # s \/ v # w
      BY <3>2 DEF ShopIs, Newest
    <3> QED BY <3>1, <3>2
  <2> QED BY <2>1, <2>2 DEF Grows, Used, Live
<1>2. ASSUME NEW o \in Op PROVE RowIsTrue(o)'
  <2>1. Unsent(o) => Unsent(o)'
    <3>1. ASSUME Unsent(o) PROVE \A t \in Store, v \in Woo : shop'[t][v].key # o
      BY <3>1, NumberFacts DEF Unsent, ShopIs
    <3> QED BY <3>1 DEF Unsent, Busy
  <2> QED BY <2>1, RowKept
<1>3. \A o \in Op, t \in Store : OrderIsTrue(o, t)'
  BY <1>1, OrderKept
<1>4. ASSUME NEW o \in Op, NEW t \in Store PROVE CreatedOnceThere(o, t)'
  <2> SUFFICES ASSUME Crm(o)', NEW v \in Woo, NEW x \in Woo,
                      Called(o, t, v)', Called(o, t, x)'
               PROVE  v = x
    BY DEF CreatedOnceThere, Called
  <2>1. Crm(o)
    BY DEF Crm, Live
  <2>2. \A y \in Woo : Called(o, t, y)' => Called(o, t, y) \/ (t = s /\ y = w)
    BY DEF Called, ShopIs
  <2>3. Called(o, t, v) /\ Called(o, t, x) => v = x
    BY <2>1 DEF OrdersIInv, Rows, CreatedOnceThere
  <2> QED BY <2>1, <2>2, <2>3
<1>5. LinkedOnce'
  BY DEF OrdersIInv, Rows, LinkedOnce
<1>6. VacantOrNot'
  BY DEF OrdersIInv, Rows, VacantOrNot, ShopIs, Exists
<1> QED BY <1>1, <1>2, <1>3, <1>4, <1>5, <1>6 DEF Rows

(* ... by somebody who is not a job.                                       *)
LEMMA ShopAlone ==
  ASSUME OrdersIInv, NEW s \in Store, NEW w \in Woo, NEW key \in Op \cup {NoOp}, NEW born,
         ShopIs(s, w, key, born), UNCHANGED <<operation, order, delivery, handler, job, mishaps>>,
         key = shop[s][w].key \/ key = NoOp \/ ~Unsent(key), late' \subseteq late,
         \A o \in Op : Crm(o) /\ Called(o, s, w)' => Called(o, s, w)
  PROVE  OrdersIInv'
<1>1. Grows /\ Rows'
  <2>1. \A o \in Op : Unsent(o) =>
             (\A j \in Job : Busy(j)' => job'[j].op # o) /\ (\A c \in late' : c.op # o)
    BY DEF Unsent, Busy
  <2> QED BY <2>1, ShopMoves
<1>2. ASSUME NEW j \in Job, Busy(j) PROVE JobIsTrue(j)'
  <2>1. job[j].op \in Op /\ job[j].store \in Store
    BY <1>2, JobOf
  <2>2. Crm(job[j].op) => \A v \in Woo : Called(job[j].op, job[j].store, v)' =>
                                Called(job[j].op, job[j].store, v)
    BY <2>1 DEF ShopIs, Called
  <2> QED BY <1>1, <2>2, JobKept DEF NoNewJob, Busy, Together
<1>3. \A j \in Job : JobIsTrue(j)'
  BY <1>2 DEF JobIsTrue, Busy
<1>4. \A c \in late' : LateIsTrue(c)'
  BY <1>1, LateKept
<1>5. \A h \in Handler : ImportIsTrue(h)'
  BY <1>1, ImportKept
<1>6. OrdersTypeOK'
  BY DEF OrdersIInv, OrdersTypeOK, ShopIs
<1> QED BY <1>1, <1>3, <1>4, <1>5, <1>6 DEF OrdersIInv, Work

LEMMA StatusFacts == "processing" \in WooStatus /\ "completed" \in WooStatus
                     /\ ShopStatus \subseteq WooStatus
  BY OrdersAssumption DEF WooStatus

LEMMA ShopSellsKeeps ==
  ASSUME OrdersIInv, NEW s \in Store, NEW w \in Woo, NEW st \in WooStatus, ShopSells(s, w, st)
  PROVE  OrdersIInv'
<1>1. ShopIs(s, w, NoOp, "store")
  BY Sold DEF ShopSells, OrdersIInv
<1>2. \A o \in Op : ~Called(o, s, w)'
  BY <1>1 DEF Called, ShopIs
<1> QED BY <1>1, <1>2, ShopAlone DEF ShopSells

LEMMA ShopChangesKeeps ==
  ASSUME OrdersIInv, NEW s \in Store, NEW w \in Woo, NEW st \in WooStatus, ShopChanges(s, w, st)
  PROVE  OrdersIInv'
<1>1. shop[s][w] \in StoreOrder
  BY DEF OrdersIInv, OrdersTypeOK
<1>2. shop[s][w].key \in Op \cup {NoOp}
  BY <1>1 DEF StoreOrder
<1>3. ShopIs(s, w, shop[s][w].key, shop[s][w].born)
  BY <1>2, Revised DEF ShopChanges, OrdersIInv
<1>4. \A o \in Op : Called(o, s, w)' => Called(o, s, w)
  BY <1>3 DEF Called, ShopIs
<1> QED BY <1>2, <1>3, <1>4, ShopAlone DEF ShopChanges

LEMMA LateCallArrivesKeeps ==
  ASSUME OrdersIInv, NEW c \in late, LateCallArrives(c)
  PROVE  OrdersIInv'
<1>1. c \in LateCall /\ LateIsTrue(c)
  BY DEF OrdersIInv, OrdersTypeOK, Work
<1>2. c.op \in Op /\ c.store \in Store /\ ~Unsent(c.op)
  BY <1>1 DEF LateCall, Unsent
<1>3. UNCHANGED <<operation, order, delivery, handler, job, mishaps>> /\ late' \subseteq late
  BY DEF LateCallArrives
<1>4. CASE c.call = "create" /\ \E w \in Woo :
                NewStoreOrder(c.store, w, "completed", c.op, "late")
  <2>1. PICK w \in Woo : NewStoreOrder(c.store, w, "completed", c.op, "late")
    BY <1>4
  <2>2. ShopIs(c.store, w, c.op, "late")
    BY <1>2, <2>1, Sold, StatusFacts DEF OrdersIInv
  <2>3. \A o \in Op : ~Called(o, c.store, w)'
    BY <2>2 DEF Called, ShopIs
  <2> QED BY <1>2, <1>3, <2>2, <2>3, ShopAlone
<1>5. CASE c.call = "put" /\ Revise(c.store, c.woo, "completed", c.op)
  <2>1. c.woo \in Woo /\ ~Crm(c.op)
    BY <1>1, <1>5 DEF LateIsTrue
  <2>2. ShopIs(c.store, c.woo, c.op, shop[c.store][c.woo].born)
    BY <1>2, <1>5, <2>1, Revised, StatusFacts DEF OrdersIInv
  <2>3. \A o \in Op : Crm(o) => ~Called(o, c.store, c.woo)'
    BY <2>1, <2>2 DEF Called, ShopIs
  <2> QED BY <1>2, <1>3, <2>1, <2>2, <2>3, ShopAlone
<1> QED BY <1>4, <1>5 DEF LateCallArrives

(* ... by the call of a job, which goes on or ends; its order of the CRM   *)
(* may be marked as failed.                                                *)
LEMMA ShopCalled ==
  ASSUME OrdersIInv, NEW j \in Job, Busy(j), NEW s, s = job[j].store, NEW w \in Woo, NEW born,
         \/ job[j].at = "create" /\ born = "call"
         \/ job[j].at = "put" /\ born = shop[s][w].born,
         ShopIs(s, w, job[j].op, born),
         UNCHANGED <<operation, order, delivery, handler, late, mishaps>>,
         job' \in [Job -> JobState],
         \A k \in Job : k # j => job'[k] = job[k],
         Busy(j)' => job'[j].op = job[j].op /\ job'[j].store = job[j].store,
         JobIsTrue(j)'
  PROVE  OrdersIInv'
<1>1. /\ s \in Store /\ job[j].op \in Op /\ ~Unsent(job[j].op) /\ JobIsTrue(j)
  BY JobOf DEF Unsent
<1>2. Crm(job[j].op) => job[j].at = "create" /\ \A v \in Woo : ~Called(job[j].op, s, v)
  BY <1>1 DEF JobIsTrue
<1>3. \A o \in Op : Called(o, s, w)' => o = job[j].op
  BY DEF Called, ShopIs
<1>4. \A k \in Job : Busy(k)' => Busy(k) /\ job'[k].op = job[k].op
                              /\ job'[k].store = job[k].store
  BY DEF Busy
<1>5. Grows /\ Rows'
  <2>1. \A o \in Op : Unsent(o) =>
             (\A k \in Job : Busy(k)' => job'[k].op # o) /\ (\A c \in late' : c.op # o)
    BY <1>4 DEF Unsent
  <2> QED BY <1>1, <1>2, <1>3, <2>1, ShopMoves
<1>6. ASSUME NEW k \in Job, k # j PROVE JobIsTrue(k)'
  <2>1. job'[k] = job[k]
    BY <1>6
  <2>2. NoNewJob(k)
    BY <1>4, <2>1 DEF NoNewJob, Together
  <2>3. ASSUME Busy(k), Crm(job[k].op), NEW v \in Woo, Called(job[k].op, job[k].store, v)'
        PROVE  Called(job[k].op, job[k].store, v)
    <3>1. JobIsTrue(k) /\ job[k].op \in Op /\ job[k].store \in Store
      BY <2>3, JobOf
    <3>2. ~Together(j, k)
      BY <1>6, <2>3, <3>1 DEF JobIsTrue, Together
    <3>3. ~(job[k].store = s /\ v = w)
      BY <1>3, <2>3, <3>1, <3>2 DEF Together
    <3>4. shop'[job[k].store][v] = shop[job[k].store][v]
      BY <3>1, <3>3 DEF ShopIs
    <3> QED BY <2>1, <2>3, <3>4 DEF Called
  <2> QED BY <1>5, <2>1, <2>2, <2>3, JobKept
<1>7. \A k \in Job : JobIsTrue(k)'
  BY <1>6
<1>8. \A c \in late' : LateIsTrue(c)'
  BY <1>5, LateKept
<1>9. \A h \in Handler : ImportIsTrue(h)'
  BY <1>5, ImportKept
<1>10. OrdersTypeOK'
  BY DEF OrdersIInv, OrdersTypeOK, ShopIs
<1> QED BY <1>5, <1>7, <1>8, <1>9, <1>10 DEF OrdersIInv, Work

LEMMA StoreCreatesKeeps ==
  ASSUME OrdersIInv, NEW j \in Job, StoreCreates(j)
  PROVE  OrdersIInv'
<1>0. PICK s : s = job[j].store
  OBVIOUS
<1>1. Busy(j) /\ job[j].at = "create"
  BY DEF StoreCreates, Busy
<1>2. JobIsTrue(j) /\ s \in Store /\ job[j].op \in Op
  BY <1>0, <1>1, JobOf
<1>3. PICK w \in Woo :
        /\ NewStoreOrder(s, w, "completed", job[j].op, "call")
        /\ job' = [job EXCEPT ![j].at = "confirm", ![j].woo = w, ![j].rev = 1]
  BY <1>0 DEF StoreCreates
<1>4. ShopIs(s, w, job[j].op, "call") /\ ~Exists(s, w) /\ Newest(s, w)' = 1
  BY <1>2, <1>3, Sold, StatusFacts DEF OrdersIInv
<1>5. 1 \in Revision
  BY <1>4 DEF ShopIs
<1>6. JobGoes(j, "confirm", w, 1)
  BY <1>1, <1>3, <1>5, JobMoves DEF Moved, OrdersIInv
<1>7. UNCHANGED <<operation, order, delivery, handler, late, mishaps>>
  BY DEF StoreCreates
<1>8. JobIsTrue(j)'
  <2>1. Exists(s, w)' /\ 1 \in 1..Newest(s, w)'
    BY <1>4 DEF ShopIs
  <2> QED BY <1>0, <1>1, <1>2, <1>6, <1>7, <2>1, StillAlone
          DEF JobIsTrue, JobGoes, Crm, Live, Exists, Newest
<1> QED BY <1>0, <1>1, <1>4, <1>6, <1>7, <1>8, ShopCalled DEF JobGoes

LEMMA StoreUpdatesKeeps ==
  ASSUME OrdersIInv, NEW j \in Job, StoreUpdates(j)
  PROVE  OrdersIInv'
<1>0. PICK s, w, n : s = job[j].store /\ w = job[j].woo /\ n = Newest(s, w) + 1
  OBVIOUS
<1>1. Busy(j) /\ job[j].at = "put"
  BY DEF StoreUpdates, Busy
<1>2. JobIsTrue(j) /\ s \in Store /\ job[j].op \in Op /\ w \in Woo
  BY <1>0, <1>1, JobOf DEF JobIsTrue
<1>3. ShopIs(s, w, job[j].op, shop[s][w].born)
  BY <1>0, <1>2, Revised, StatusFacts DEF OrdersIInv, StoreUpdates
<1>4. n \in Revision /\ Newest(s, w)' = n /\ n \in Nat /\ n >= 1 /\ Exists(s, w)'
  BY <1>0, <1>3 DEF ShopIs
<1>5. job' = [job EXCEPT ![j].at = "confirm", ![j].rev = n]
  BY <1>0 DEF StoreUpdates
<1>6. JobGoes(j, "confirm", w, n)
  BY <1>0, <1>1, <1>2, <1>4, <1>5, JobMoves DEF Moved, OrdersIInv
<1>7. UNCHANGED <<operation, order, delivery, handler, late, mishaps>>
  BY DEF StoreUpdates
<1>8. JobIsTrue(j)'
  <2>1. n \in 1..Newest(s, w)'
    BY <1>4
  <2> QED BY <1>0, <1>1, <1>2, <1>4, <1>6, <1>7, <2>1, StillAlone
          DEF JobIsTrue, JobGoes, Crm, Live, Exists, Newest
<1> QED BY <1>0, <1>1, <1>2, <1>3, <1>6, <1>7, <1>8, ShopCalled DEF JobGoes

-----------------------------------------------------------------------------
(* The end of a job: it marks the order it worked for, if that still is    *)
(* SYNCING                                                                 *)

(* What a job of order o of store s may do in the stores.                  *)
ShopFor(o, s) ==
  /\ Grows /\ VacantOrNot' /\ shop' \in [Store -> [Woo -> StoreOrder]]
  /\ \A p \in Op, t \in Store : CreatedOnceThere(p, t)'
  /\ \A p \in Op : p # o /\ (\A t \in Store, v \in Woo : shop[t][v].key # p)
        => \A t \in Store, v \in Woo : shop'[t][v].key # p
  /\ \A p \in Op, t \in Store, v \in Woo :
        Called(p, t, v)' => Called(p, t, v) \/ (p = o /\ t = s)

LEMMA ShopStays ==
  ASSUME OrdersIInv, UNCHANGED <<operation, shop>>, NEW o \in Op, NEW s \in Store
  PROVE  ShopFor(o, s)
<1>1. Grows
  BY StillGrows DEF OrdersIInv
<1>2. VacantOrNot' /\ \A p \in Op, t \in Store : CreatedOnceThere(p, t)'
  BY DEF OrdersIInv, Rows, VacantOrNot, CreatedOnceThere, Called, Exists, Crm, Live
<1> QED BY <1>1, <1>2 DEF ShopFor, Called, OrdersIInv, OrdersTypeOK

LEMMA ShopIsCalled ==
  ASSUME OrdersIInv, NEW j \in Job, Busy(j), NEW o, NEW s, o = job[j].op, s = job[j].store,
         NEW w \in Woo, NEW born, ShopIs(s, w, o, born), UNCHANGED operation,
         \/ job[j].at = "create" /\ born = "call"
         \/ job[j].at = "put" /\ born = shop[s][w].born
  PROVE  ShopFor(o, s)
<1>1. s \in Store /\ o \in Op /\ ~Unsent(o) /\ JobIsTrue(j)
  BY JobOf DEF Unsent
<1>2. Grows
  <2>1. \A t \in Store, v \in Woo : Exists(t, v) => Exists(t, v)'
    BY DEF ShopIs, Exists
  <2>2. ASSUME NEW t \in Store, NEW v \in Woo
        PROVE  1..Newest(t, v) \subseteq 1..Newest(t, v)'
    <3>1. CASE t = s /\ v = w
      BY <3>1 DEF ShopIs
    <3>2. CASE t # s \/ v # w
      BY <3>2 DEF ShopIs, Newest
    <3> QED BY <3>1, <3>2
  <2> QED BY <2>1, <2>2 DEF Grows, Used, Live
<1>3. \A p \in Op, t \in Store, v \in Woo :
        Called(p, t, v)' => Called(p, t, v) \/ (p = o /\ t = s /\ v = w)
  BY DEF Called, ShopIs
<1>4. Crm(o) => \A v \in Woo : ~Called(o, s, v)
        \/ \A x \in Woo : Called(o, s, x)' => Called(o, s, x)
  BY <1>1 DEF JobIsTrue
<1>5. ASSUME NEW p \in Op, NEW t \in Store PROVE CreatedOnceThere(p, t)'
  <2> SUFFICES ASSUME Crm(p)', NEW v \in Woo, NEW x \in Woo,
                      Called(p, t, v)', Called(p, t, x)'
               PROVE  v = x
    BY DEF CreatedOnceThere, Called
  <2>1. Crm(p)
    BY DEF Crm, Live
  <2>2. Called(p, t, v) /\ Called(p, t, x) => v = x
    BY <2>1 DEF OrdersIInv, Rows, CreatedOnceThere
  <2>3. p = o => job[j].at = "create" /\ \A y \in Woo : ~Called(o, s, y)
    BY <1>1, <2>1 DEF JobIsTrue
  <2> QED BY <1>3, <2>2, <2>3
<1>6. VacantOrNot'
  BY DEF OrdersIInv, Rows, VacantOrNot, ShopIs, Exists
<1>7. \A p \in Op : p # o /\ (\A t \in Store, v \in Woo : shop[t][v].key # p)
        => \A t \in Store, v \in Woo : shop'[t][v].key # p
  BY DEF ShopIs
<1> QED BY <1>2, <1>3, <1>5, <1>6, <1>7 DEF ShopFor, ShopIs

(* What it writes is a row, linked to what nobody else is linked to.       *)
MarkIsTrue(o, s, row) ==
  /\ row \in Order
  /\ Syncing(o, s) =>
        /\ row.state = "LIVE" /\ (row.sync = "SYNCED" => row.woo # NoOp)
        /\ row.woo # NoOp => /\ Exists(s, row.woo)' /\ row.rev \in 1..Newest(s, row.woo)'
                             /\ operation[o].source = "CRM" => row.sync = "SYNCED"
                             /\ \A p \in Op \ {o} : order[p][s].woo # row.woo

LEMMA JobEndsWell ==
  ASSUME OrdersIInv, NEW j \in Job, Busy(j), NEW o, NEW s, o = job[j].op, s = job[j].store,
         ShopFor(o, s), UNCHANGED <<operation, delivery, handler>>, JobEnds(j),
         mishaps' \in 0..MaxMishaps, late' \subseteq LateCall,
         \A c \in late' : c \in late \/ (c.op = o /\ LateIsTrue(c)'),
         NEW row, MarkIsTrue(o, s, row), MarkOrder(o, s, row)
  PROVE  OrdersIInv'
<1>1. s \in Store /\ o \in Op /\ ~Unsent(o) /\ JobIsTrue(j) /\ Grows
  BY JobOf DEF Unsent, ShopFor
<1>2. \A k \in Job : Busy(k)' => Busy(k) /\ job'[k] = job[k] /\ k # j
  BY DEF JobEnds, Busy, Unoccupied
<1>3. /\ order' \in [Op -> [Store -> Order]]
      /\ \A p \in Op, t \in Store : p # o \/ t # s => order'[p][t] = order[p][t]
      /\ Syncing(o, s) => order'[o][s] = row
      /\ ~Syncing(o, s) => order' = order
  <2>1. CASE Syncing(o, s)
    <3>1. OrderIs(o, s, row)
      BY <1>1, <2>1, OrderMoves DEF MarkOrder, MarkIsTrue, OrdersIInv
    <3> QED BY <2>1, <3>1 DEF OrderIs
  <2>2. CASE ~Syncing(o, s)
    BY <2>2 DEF MarkOrder, OrdersIInv, OrdersTypeOK
  <2> QED BY <2>1, <2>2
<1>4. ASSUME NEW p \in Op PROVE RowIsTrue(p)'
  <2>1. CASE p = o
    <3>1. CASE ~Syncing(o, s)
      BY <1>1, <1>3, <2>1, <3>1, RowKept
    <3>2. CASE Syncing(o, s)
      <4>1. RowIsTrue(o) /\ operation'[o] = operation[o]
        BY <1>1 DEF OrdersIInv, Rows
      <4>2. operation[o].state # "UNUSED" /\ operation[o].state # "DELETED"
        BY <1>1, <3>2, <4>1 DEF RowIsTrue, Syncing, Stores, NoOrder, GoneOrder
      <4>3. ~(operation[o].source = "CRM" /\ operation[o].status = "PENDING")
        BY <1>1, <4>1, <4>2 DEF RowIsTrue
      <4> QED BY <2>1, <4>1, <4>2, <4>3 DEF RowIsTrue
    <3> QED BY <3>1, <3>2
  <2>2. CASE p # o
    <3>1. order'[p] = order[p]
      BY <1>3, <2>2 DEF OrdersIInv, OrdersTypeOK
    <3>2. Unsent(p) => Unsent(p)'
      BY <1>2, <2>2 DEF Unsent, ShopFor
    <3> QED BY <3>1, <3>2, RowKept
  <2> QED BY <2>1, <2>2
<1>5. ASSUME NEW p \in Op, NEW t \in Store PROVE OrderIsTrue(p, t)'
  <2>1. CASE order'[p][t] = order[p][t]
    BY <1>1, <2>1, OrderKept
  <2>2. CASE p = o /\ t = s /\ Syncing(o, s)
    BY <1>3, <2>2 DEF MarkIsTrue, OrderIsTrue, Exists, Newest
  <2> QED BY <1>3, <2>1, <2>2
<1>6. LinkedOnce'
  <2> SUFFICES ASSUME NEW p \in Op, NEW q \in Op, NEW t \in Store,
                      order'[p][t].woo = order'[q][t].woo, p # q
               PROVE  order'[p][t].woo = NoOp
    BY DEF LinkedOnce
  <2>1. order[p][t].woo = order[q][t].woo => order[p][t].woo = NoOp
    BY DEF OrdersIInv, Rows, LinkedOnce
  <2> QED BY <1>1, <1>3, <2>1 DEF MarkIsTrue
<1>7. Rows'
  BY <1>4, <1>5, <1>6 DEF Rows, ShopFor
<1>8. ASSUME NEW k \in Job, Busy(k)' PROVE JobIsTrue(k)'
  <2>1. Busy(k) /\ job'[k] = job[k] /\ k # j
    BY <1>2, <1>8
  <2>2. NoNewJob(k)
    BY <1>2, <2>1 DEF NoNewJob, Together
  <2>3. ASSUME Crm(job[k].op)
        PROVE  /\ order'[job[k].op][job[k].store] = order[job[k].op][job[k].store]
               /\ \A w \in Woo : Called(job[k].op, job[k].store, w)' =>
                        Called(job[k].op, job[k].store, w)
    <3>1. JobIsTrue(k) /\ job[k].op \in Op /\ job[k].store \in Store
      BY <2>1, JobOf
    <3>2. job[k].op # o \/ job[k].store # s
      BY <2>1, <2>3, <3>1 DEF JobIsTrue, Together
    <3> QED BY <1>3, <2>1, <3>1, <3>2 DEF ShopFor, Called
  <2> QED BY <1>1, <2>1, <2>2, <2>3, JobKept
<1>9. \A k \in Job : JobIsTrue(k)'
  BY <1>8 DEF JobIsTrue
<1>10. \A c \in late' : LateIsTrue(c)'
  BY <1>1, LateKept
<1>11. \A h \in Handler : ImportIsTrue(h)'
  BY <1>1, ImportKept
<1>12. OrdersTypeOK'
  BY <1>3 DEF OrdersIInv, OrdersTypeOK, ShopFor, JobEnds
<1> QED BY <1>7, <1>9, <1>10, <1>11, <1>12 DEF OrdersIInv, Work

(* An order marked as failed keeps its link, if it has one.                *)
LEMMA FailedRow ==
  ASSUME OrdersIInv, Grows, NEW o \in Op, NEW s \in Store, NEW row,
         row = [order[o][s] EXCEPT !.sync = "ERROR"]
  PROVE  MarkIsTrue(o, s, row)
<1>1. order[o][s] \in Order /\ OrderIsTrue(o, s)
  BY DEF OrdersIInv, OrdersTypeOK, Rows
<1>2. /\ row \in Order /\ row.state = order[o][s].state /\ row.woo = order[o][s].woo
      /\ row.rev = order[o][s].rev /\ row.sync = "ERROR" /\ row.woo \in Woo \cup {NoOp}
  BY <1>1 DEF Order
<1>3. row.woo # NoOp => Exists(s, row.woo)' /\ row.rev \in 1..Newest(s, row.woo)'
  BY <1>1, <1>2 DEF OrderIsTrue, Grows
<1>4. Syncing(o, s) /\ row.woo # NoOp => operation[o].source # "CRM"
  BY <1>1, <1>2 DEF OrderIsTrue, Syncing
<1>5. row.woo # NoOp => \A p \in Op \ {o} : order[p][s].woo # row.woo
  BY <1>2 DEF OrdersIInv, Rows, LinkedOnce
<1> QED BY <1>2, <1>3, <1>4, <1>5 DEF MarkIsTrue, Syncing, Stores

(* Who holds a store order is a live operation.                            *)
LEMMA NotHeld ==
  ASSUME OrdersIInv, NEW s \in Store, NEW w, w # NoOp, NEW o, ~HeldByOther(s, w, o)
  PROVE  \A p \in Op \ {o} : order[p][s].woo # w
<1> SUFFICES ASSUME NEW p \in Op \ {o}, order[p][s].woo = w PROVE FALSE
  OBVIOUS
<1>1. RowIsTrue(p) /\ operation[p] \in Operation
  BY DEF OrdersIInv, Rows, OrdersTypeOK
<1>2. operation[p].state # "LIVE"
  BY DEF HeldByOther, Live
<1>3. order[p][s] = NoOrder \/ order[p][s] = GoneOrder
  BY <1>1, <1>2 DEF RowIsTrue, Operation
<1> QED BY <1>3 DEF NoOrder, GoneOrder

LEMMA ConfirmKeeps ==
  ASSUME OrdersIInv, NEW j \in Job, Confirm(j)
  PROVE  OrdersIInv'
<1>1. PICK o, s, w, rev : /\ o = job[j].op /\ s = job[j].store
                          /\ w = job[j].woo /\ rev = job[j].rev
  OBVIOUS
<1>2. Busy(j) /\ job[j].at = "confirm"
  BY DEF Confirm, Busy
<1>3. /\ JobIsTrue(j) /\ s \in Store /\ o \in Op /\ w \in Woo /\ rev \in Revision \cup {NoOp}
      /\ Exists(s, w) /\ rev \in 1..Newest(s, w)
  BY <1>1, <1>2, JobOf DEF JobIsTrue
<1>4. w # NoOp
  BY <1>3, NumberFacts
<1>5. PICK row : row = [order[o][s] EXCEPT !.woo = w, !.rev = rev, !.sync = "SYNCED"]
  OBVIOUS
<1>6. row \in Order /\ row.state = order[o][s].state /\ row.woo = w /\ row.rev = rev
      /\ row.sync = "SYNCED"
  <2>1. order[o][s] \in Order
    BY <1>3 DEF OrdersIInv, OrdersTypeOK
  <2>2. w \in Woo \cup {NoOp} /\ "SYNCED" \in {"PENDING", "SYNCING", "SYNCED", "ERROR"}
    BY <1>3
  <2> QED BY <1>3, <1>5, <2>1, <2>2 DEF Order
<1>7. MarkOrder(o, s, row) /\ (Syncing(o, s) => ~HeldByOther(s, w, o))
  BY <1>1, <1>5 DEF Confirm, MarkSynced
<1>8. /\ JobEnds(j) /\ UNCHANGED <<operation, delivery, shop, handler, late, mishaps>>
      /\ late' \subseteq LateCall /\ mishaps' \in 0..MaxMishaps
  BY JobStops DEF Confirm, OrdersIInv, OrdersTypeOK
<1>9. ShopFor(o, s)
  BY <1>3, <1>8, ShopStays
<1>10. Exists(s, w)' /\ rev \in 1..Newest(s, w)'
  BY <1>3, <1>9 DEF ShopFor, Grows
<1>11. MarkIsTrue(o, s, row)
  BY <1>3, <1>4, <1>6, <1>7, <1>10, NotHeld DEF MarkIsTrue, Syncing, Stores
<1> QED BY <1>1, <1>2, <1>6, <1>7, <1>8, <1>9, <1>11, JobEndsWell

LEMMA JobFails ==
  ASSUME OrdersIInv, NEW j \in Job, Busy(j), MarkError(j), Done(j),
         UNCHANGED <<operation, delivery, shop, handler>>,
         mishaps' \in 0..MaxMishaps, late' \subseteq LateCall,
         \A c \in late' : c \in late \/ (c.op = job[j].op /\ LateIsTrue(c)')
  PROVE  OrdersIInv'
<1>1. PICK o, s : o = job[j].op /\ s = job[j].store
  OBVIOUS
<1>2. PICK row : row = [order[o][s] EXCEPT !.sync = "ERROR"]
  OBVIOUS
<1>3. o \in Op /\ s \in Store
  BY <1>1, JobOf
<1>4. ShopFor(o, s)
  BY <1>3, ShopStays
<1>5. MarkOrder(o, s, row) /\ JobEnds(j)
  BY <1>1, <1>2, JobStops DEF MarkError, OrdersIInv
<1>6. \A c \in late' : c \in late \/ (c.op = o /\ LateIsTrue(c)')
  BY <1>1
<1>7. MarkIsTrue(o, s, row)
  BY <1>2, <1>3, <1>4, FailedRow DEF ShopFor
<1> QED BY <1>1, <1>4, <1>5, <1>6, <1>7, JobEndsWell

LEMMA ConfirmFailsKeeps ==
  ASSUME OrdersIInv, NEW j \in Job, ConfirmFails(j)
  PROVE  OrdersIInv'
<1>1. mishaps' \in 0..MaxMishaps
  BY ShelfFacts DEF ConfirmFails, OrdersIInv, OrdersTypeOK
<1> QED BY <1>1, JobFails DEF ConfirmFails, Busy, OrdersIInv, OrdersTypeOK

LEMMA OutboundFailsKeeps ==
  ASSUME OrdersIInv, NEW j \in Job, OutboundFails(j)
  PROVE  OrdersIInv'
  BY JobFails DEF OutboundFails, Busy, OrdersIInv, OrdersTypeOK

LEMMA CallTimesOutKeeps ==
  ASSUME OrdersIInv, NEW j \in Job, CallTimesOut(j)
  PROVE  OrdersIInv'
<1>1. mishaps' \in 0..MaxMishaps
  BY ShelfFacts DEF CallTimesOut, OrdersIInv, OrdersTypeOK
<1>2. Busy(j)
  BY DEF CallTimesOut, Busy
<1>3. PICK c : c = CallOfJob(j)
  OBVIOUS
<1>4. /\ c \in LateCall /\ c.op = job[j].op
      /\ c.call = "put" => c.woo \in Woo /\ Exists(c.store, c.woo) /\ ~Crm(c.op)
  <2>1. JobIsTrue(j) /\ job[j] \in BusyJob /\ job[j].at \in {"create", "put"}
    BY <1>2, JobOf DEF CallTimesOut
  <2>2. c.call = job[j].at /\ c.op = job[j].op /\ c.store = job[j].store /\ c.woo = job[j].woo
    BY <1>3 DEF CallOfJob
  <2>3. c \in LateCall
    BY <1>3, <2>1 DEF CallOfJob, LateCall, BusyJob
  <2> QED BY <1>2, <2>1, <2>2, <2>3 DEF JobIsTrue
<1>5. LateIsTrue(c)'
  BY <1>4 DEF LateIsTrue, CallTimesOut, Exists, Crm, Live
<1>6. late' = late \cup {c}
  BY <1>3 DEF CallTimesOut
<1>7. late' \subseteq LateCall /\ \A d \in late' : d \in late \/ (d.op = job[j].op /\ LateIsTrue(d)')
  BY <1>4, <1>5, <1>6 DEF OrdersIInv, OrdersTypeOK
<1> QED BY <1>1, <1>2, <1>7, JobFails DEF CallTimesOut

LEMMA AnswerLostKeeps ==
  ASSUME OrdersIInv, NEW j \in Job, AnswerLost(j)
  PROVE  OrdersIInv'
<1>1. PICK o, s : o = job[j].op /\ s = job[j].store
  OBVIOUS
<1>2. Busy(j)
  BY DEF AnswerLost, Busy
<1>3. o \in Op /\ s \in Store /\ JobIsTrue(j)
  BY <1>1, <1>2, JobOf
<1>4. /\ UNCHANGED <<operation, delivery, handler, late, mishaps>> /\ Done(j) /\ MarkError(j)
      /\ late' \subseteq LateCall /\ mishaps' \in 0..MaxMishaps
  BY DEF AnswerLost, OrdersIInv, OrdersTypeOK
<1>5. ShopFor(o, s)
  <2>1. CASE job[j].at = "create" /\ \E w \in Woo :
                NewStoreOrder(job[j].store, w, "completed", job[j].op, "call")
    <3>1. PICK w \in Woo : NewStoreOrder(s, w, "completed", o, "call")
      BY <1>1, <2>1
    <3>2. ShopIs(s, w, o, "call")
      BY <1>3, <3>1, Sold, StatusFacts DEF OrdersIInv
    <3> QED BY <1>1, <1>2, <1>4, <2>1, <3>2, ShopIsCalled
  <2>2. CASE job[j].at = "put" /\ Revise(job[j].store, job[j].woo, "completed", job[j].op)
    <3>1. PICK w : w = job[j].woo
      OBVIOUS
    <3>2. w \in Woo
      BY <1>3, <2>2, <3>1 DEF JobIsTrue, Busy
    <3>3. ShopIs(s, w, o, shop[s][w].born)
      BY <1>1, <1>3, <2>2, <3>1, <3>2, Revised, StatusFacts DEF OrdersIInv
    <3> QED BY <1>1, <1>2, <1>4, <2>2, <3>2, <3>3, ShopIsCalled
  <2> QED BY <2>1, <2>2 DEF AnswerLost
<1>6. PICK row : row = [order[o][s] EXCEPT !.sync = "ERROR"]
  OBVIOUS
<1>7. MarkIsTrue(o, s, row)
  BY <1>3, <1>5, <1>6, FailedRow DEF ShopFor
<1>8. MarkOrder(o, s, row) /\ JobEnds(j)
  BY <1>1, <1>4, <1>6, JobStops DEF MarkError, OrdersIInv
<1> QED BY <1>1, <1>2, <1>4, <1>5, <1>7, <1>8, JobEndsWell

-----------------------------------------------------------------------------
(* The imports that write an operation and its order                       *)

LEMMA ImportWrites ==
  ASSUME OrdersIInv, NEW h \in Handler, NEW o \in Op, NEW s \in Store,
         NEW new \in Operation, operation' = [operation EXCEPT ![o] = new],
         NEW row \in Order, order' = [order EXCEPT ![o][s] = row],
         row.state = "LIVE", row.sync = "SYNCED", row.woo \in Woo,
         Exists(s, row.woo), row.rev \in 1..Newest(s, row.woo),
         \A p \in Op \ {o} : order[p][s].woo # row.woo,
         new.state = "LIVE", new.reopened => new.source = "WOOCOMMERCE",
         new.source = "CRM" => new.status = "COMPLETED",
         \/ Live(o) /\ new.source = operation[o].source
         \/ ~Used(o) /\ new.source = "WOOCOMMERCE",
         HandlerIs(h, Unoccupied), ImportIsTrue(h)', delivery' \in [Event -> Delivery],
         UNCHANGED <<shop, job, late, mishaps>>
  PROVE  OrdersIInv'
<1>1. /\ operation' \in [Op -> Operation] /\ operation'[o] = new
      /\ \A p \in Op : p # o => operation'[p] = operation[p]
  BY DEF OrdersIInv, OrdersTypeOK
<1>2. OrderIs(o, s, row)
  BY OrderMoves DEF OrdersIInv
<1>3. Grows
  BY <1>1 DEF Grows, Used, Live, Exists, Newest
<1>4. ASSUME NEW p \in Op PROVE RowIsTrue(p)'
  <2>1. CASE p = o
    BY <1>1, <2>1 DEF RowIsTrue
  <2>2. CASE p # o
    <3>1. order'[p] = order[p] /\ operation'[p] = operation[p]
      BY <1>1, <2>2 DEF OrdersIInv, OrdersTypeOK
    <3> QED BY <3>1, RowKept DEF Unsent, Busy
  <2> QED BY <2>1, <2>2
<1>5. ASSUME NEW p \in Op, NEW t \in Store PROVE OrderIsTrue(p, t)'
  <2>1. CASE p = o /\ t = s
    <3>1. order'[o][s] = row /\ Exists(s, row.woo)' /\ Newest(s, row.woo)' = Newest(s, row.woo)
      BY <1>2 DEF OrderIs, Exists, Newest
    <3> QED BY <2>1, <3>1, NumberFacts DEF OrderIsTrue, Exists, Newest
  <2>2. CASE p # o \/ t # s
    <3>1. order'[p][t] = order[p][t]
      BY <1>2, <2>2 DEF OrderIs
    <3>2. operation'[p].source = operation[p].source \/ order[p][t].woo = NoOp
      <4>1. ~Used(p) => order[p][t].woo = NoOp
        BY DEF OrdersIInv, Rows, RowIsTrue, Used, NoOrder
      <4> QED BY <1>1, <4>1
    <3> QED BY <1>3, <3>1, <3>2, OrderKept
  <2> QED BY <2>1, <2>2
<1>6. \A p \in Op : Crm(p)' => Crm(p)
  BY <1>1 DEF Crm, Live
<1>7. \A p \in Op, t \in Store : CreatedOnceThere(p, t)'
  BY <1>6 DEF OrdersIInv, Rows, CreatedOnceThere, Called
<1>8. LinkedOnce'
  <2> SUFFICES ASSUME NEW p \in Op, NEW q \in Op, NEW t \in Store,
                      order'[p][t].woo = order'[q][t].woo, p # q
               PROVE  order'[p][t].woo = NoOp
    BY DEF LinkedOnce
  <2>1. order[p][t].woo = order[q][t].woo => order[p][t].woo = NoOp
    BY DEF OrdersIInv, Rows, LinkedOnce
  <2> QED BY <1>2, <2>1 DEF OrderIs
<1>9. Rows'
  BY <1>4, <1>5, <1>7, <1>8 DEF Rows, VacantOrNot, Exists, OrdersIInv
<1>10. ASSUME NEW j \in Job, Busy(j) PROVE JobIsTrue(j)'
  <2>1. job[j].op \in Op /\ job[j].store \in Store
    BY <1>10, JobOf
  <2>2. \/ order'[job[j].op][job[j].store].sync = order[job[j].op][job[j].store].sync
        \/ order'[job[j].op][job[j].store].sync \in {"SYNCING", "SYNCED"}
    BY <1>2, <2>1 DEF OrderIs
  <2> QED BY <1>3, <2>2, JobKept DEF NoNewJob, Busy, Together, Called
<1>11. \A j \in Job : JobIsTrue(j)'
  BY <1>10 DEF JobIsTrue, Busy
<1>12. \A c \in late' : LateIsTrue(c)'
  BY <1>3, LateKept
<1>13. \A k \in Handler : ImportIsTrue(k)'
  BY <1>3, ImportKept DEF HandlerIs
<1>14. OrdersTypeOK'
  BY <1>1, <1>2 DEF OrdersIInv, OrdersTypeOK, OrderIs, HandlerIs
<1> QED BY <1>9, <1>11, <1>12, <1>13, <1>14 DEF OrdersIInv, Work

(* What the event of an import names: a revision of an order of a store.   *)
LEMMA EventFacts ==
  ASSUME OrdersIInv, NEW h \in Handler, handler[h].at # "idle", NEW e, e = handler[h].event
  PROVE  /\ e \in Event /\ e.store \in Store /\ e.woo \in Woo /\ e.rev \in Revision
         /\ e.woo # NoOp /\ Exists(e.store, e.woo) /\ e.rev \in 1..Newest(e.store, e.woo)
<1>1. /\ handler[h] \in BusyHandler /\ ImportIsTrue(h)
  BY HandlerFacts DEF OrdersIInv, Work
<1>2. e \in Event /\ Sent(e)
  BY <1>1 DEF BusyHandler, ImportIsTrue
<1>3. e.store \in Store /\ e.woo \in Woo /\ e.rev \in Revision
  BY <1>2 DEF Event
<1>4. e.rev \in Nat /\ e.rev >= 1 /\ e.woo # NoOp
  BY <1>3, RevisionFacts, NumberFacts
<1>5. Newest(e.store, e.woo) \in Nat /\ (Exists(e.store, e.woo) <=> Newest(e.store, e.woo) >= 1)
  BY <1>3, ShopFacts DEF OrdersIInv
<1>6. e.rev <= Newest(e.store, e.woo)
  BY <1>2 DEF Sent
<1> QED BY <1>2, <1>3, <1>4, <1>5, <1>6

LEMMA StatusIsKnown == ASSUME NEW e PROVE StatusFromWoo(e) \in OperationStatus
  BY DEF StatusFromWoo, OperationStatus

LEMMA ImportUpdatesKeeps ==
  ASSUME OrdersIInv, NEW h \in Handler, ImportUpdates(h)
  PROVE  OrdersIInv'
<1>1. PICK e, seen, o, s : /\ e = handler[h].event /\ seen = handler[h].seen
                           /\ o = seen.op /\ s = e.store
  OBVIOUS
<1>2. /\ e \in Event /\ s \in Store /\ e.woo \in Woo /\ e.rev \in Revision
      /\ e.woo # NoOp /\ Exists(s, e.woo) /\ e.rev \in 1..Newest(s, e.woo)
  BY <1>1, EventFacts DEF ImportUpdates
<1>3. /\ Live(o) /\ s \in Stores(o) /\ ~HeldByOther(s, e.woo, o) /\ o \in Op
      /\ operation' = [operation EXCEPT ![o] = ImportedOperation(e, seen, operation[o])]
      /\ order' = [order EXCEPT ![o][s] = ImportedOrder(e, order[o][s])]
  BY <1>1 DEF ImportUpdates, Live, OrdersIInv, OrdersTypeOK
<1>4. PICK new, row : /\ new = ImportedOperation(e, seen, operation[o])
                      /\ row = ImportedOrder(e, order[o][s])
  OBVIOUS
<1>5. operation[o] \in Operation /\ order[o][s] \in Order /\ RowIsTrue(o)
  BY <1>2, <1>3 DEF OrdersIInv, OrdersTypeOK, Rows
<1>6. /\ row \in Order /\ row.state = "LIVE" /\ row.woo = e.woo /\ row.rev = e.rev
      /\ row.sync = "SYNCED"
  <2>1. order[o][s].state = "LIVE"
    BY <1>3 DEF Stores
  <2> QED BY <1>2, <1>4, <1>5, <2>1 DEF ImportedOrder, Order
<1>7. /\ seen \in Seen /\ seen.source = operation[o].source
      /\ operation[o].source = "CRM" =>
             operation[o].status = "COMPLETED" /\ seen.status = "COMPLETED"
  <2>1. handler[h] \in BusyHandler /\ ImportIsTrue(h) /\ o # NoOp /\ handler[h].at = "write"
    BY <1>1, HandlerFacts DEF ImportUpdates, OrdersIInv, Work
  <2> QED BY <1>1, <1>3, <2>1 DEF BusyHandler, ImportIsTrue, Crm
<1>8. /\ new \in Operation /\ new.state = "LIVE" /\ new.source = operation[o].source
      /\ new.source = "CRM" => new.status = "COMPLETED"
      /\ new.reopened => operation[o].reopened
  <2>1. CASE seen.source = "CRM"
    <3>1. new = [operation[o] EXCEPT !.status = seen.status] /\ seen.status \in OperationStatus
      BY <1>4, <1>7, <2>1 DEF ImportedOperation, Seen
    <3>2. /\ new \in Operation /\ new.state = operation[o].state
          /\ new.source = operation[o].source
          /\ new.reopened => operation[o].reopened
          /\ new.status = seen.status
      BY <1>5, <3>1 DEF Operation
    <3> QED BY <1>3, <1>7, <3>2 DEF Live
  <2>2. CASE seen.source # "CRM" /\ seen.reopened /\ StatusFromWoo(e) = "CANCELLED"
    <3>1. new = [operation[o] EXCEPT !.status = "PENDING"] /\ "PENDING" \in OperationStatus
      BY <1>4, <2>2 DEF ImportedOperation, OperationStatus
    <3>2. /\ new \in Operation /\ new.state = operation[o].state
          /\ new.source = operation[o].source
          /\ new.reopened => operation[o].reopened
      BY <1>5, <3>1 DEF Operation
    <3> QED BY <1>3, <1>7, <2>2, <3>2 DEF Live
  <2>3. CASE seen.source # "CRM" /\ ~(seen.reopened /\ StatusFromWoo(e) = "CANCELLED")
    <3>1. PICK status : status = StatusFromWoo(e)
      OBVIOUS
    <3>2. new = [operation[o] EXCEPT !.status = status, !.reopened = FALSE]
      BY <1>4, <2>3, <3>1 DEF ImportedOperation
    <3>3. status \in OperationStatus
      BY <3>1, StatusIsKnown
    <3>4. /\ new \in Operation /\ new.state = operation[o].state
          /\ new.source = operation[o].source
          /\ new.reopened => operation[o].reopened
      BY <1>5, <3>2, <3>3 DEF Operation
    <3> QED BY <1>3, <1>7, <2>3, <3>4 DEF Live
  <2> QED BY <2>1, <2>2, <2>3
<1>9. new.reopened => new.source = "WOOCOMMERCE"
  BY <1>5, <1>8 DEF RowIsTrue
<1>10. \A p \in Op \ {o} : order[p][s].woo # row.woo
  BY <1>2, <1>3, <1>6, NotHeld
<1>11. delivery' \in [Event -> Delivery]
  <2>1. [status |-> "PROCESSED", op |-> o] \in Delivery
    BY <1>3 DEF Delivery
  <2> QED BY <1>1, <1>2, <2>1, DeliveryEdit DEF ImportUpdates, Processed, OrdersIInv
<1>12. HandlerIs(h, Unoccupied) /\ ImportIsTrue(h)'
  BY HandlerLeaves DEF ImportUpdates, OrdersIInv
<1>13. UNCHANGED <<shop, job, late, mishaps>>
  BY DEF ImportUpdates
<1>14. operation' = [operation EXCEPT ![o] = new] /\ order' = [order EXCEPT ![o][s] = row]
  BY <1>3, <1>4
<1>15. Exists(s, row.woo) /\ row.rev \in 1..Newest(s, row.woo) /\ row.woo \in Woo
  BY <1>2, <1>6
<1>16. Live(o) /\ new.source = operation[o].source
  BY <1>3, <1>8
<1>17. /\ o \in Op /\ s \in Store /\ new \in Operation /\ new.state = "LIVE"
       /\ row \in Order /\ row.state = "LIVE" /\ row.sync = "SYNCED"
       /\ new.source = "CRM" => new.status = "COMPLETED"
  BY <1>2, <1>3, <1>6, <1>8
<1> QED BY <1>9, <1>10, <1>11, <1>12, <1>13, <1>14, <1>15, <1>16, <1>17, ImportWrites,
           ZenonT(60)

LEMMA ImportCreatesKeeps ==
  ASSUME OrdersIInv, NEW h \in Handler, ImportCreates(h)
  PROVE  OrdersIInv'
<1>1. PICK e, s : e = handler[h].event /\ s = e.store
  OBVIOUS
<1>2. /\ e \in Event /\ s \in Store /\ e.woo \in Woo /\ e.rev \in Revision
      /\ e.woo # NoOp /\ Exists(s, e.woo) /\ e.rev \in 1..Newest(s, e.woo)
  BY <1>1, EventFacts DEF ImportCreates
<1>3. PICK new, row : /\ new = [state |-> "LIVE", source |-> "WOOCOMMERCE",
                                status |-> StatusFromWoo(e), reopened |-> FALSE,
                                code |-> <<s, e.woo>>]
                      /\ row = ImportedOrder(e, NewOrder)
  OBVIOUS
<1>4. PICK o \in Op : /\ NextOp(o) /\ Processed(e, o)
                      /\ operation' = [operation EXCEPT ![o] = new]
                      /\ order' = [order EXCEPT ![o][s] = row]
  BY <1>1, <1>3 DEF ImportCreates
<1>5. /\ row \in Order /\ row.state = "LIVE" /\ row.woo = e.woo /\ row.rev = e.rev
      /\ row.sync = "SYNCED"
  BY <1>2, <1>3 DEF ImportedOrder, NewOrder, NoOrder, Order
<1>6. /\ new \in Operation /\ new.state = "LIVE" /\ new.source = "WOOCOMMERCE"
      /\ ~new.reopened
  BY <1>2, <1>3, StatusIsKnown DEF Operation
<1>7. ~Used(o)
  BY <1>4 DEF NextOp, Used
<1>8. \A p \in Op \ {o} : order[p][s].woo # row.woo
  <2>1. \A p \in Op \ {NoOp} : order[p][s].woo # e.woo
    BY <1>1, <1>2, NotHeld DEF ImportCreates
  <2> QED BY <1>5, <2>1, NumberFacts
<1>9. delivery' \in [Event -> Delivery]
  <2>1. [status |-> "PROCESSED", op |-> o] \in Delivery
    BY DEF Delivery
  <2> QED BY <1>2, <1>4, <2>1, DeliveryEdit DEF Processed, OrdersIInv
<1>10. HandlerIs(h, Unoccupied) /\ ImportIsTrue(h)'
  BY HandlerLeaves DEF ImportCreates, OrdersIInv
<1>11. UNCHANGED <<shop, job, late, mishaps>>
  BY DEF ImportCreates
<1>12. Exists(s, row.woo) /\ row.rev \in 1..Newest(s, row.woo) /\ row.woo \in Woo
  BY <1>2, <1>5
<1> QED BY <1>2, <1>4, <1>5, <1>6, <1>7, <1>8, <1>9, <1>10, <1>11, <1>12, ImportWrites,
           ZenonT(60)

-----------------------------------------------------------------------------
(* The people of the CRM                                                   *)

(* Somebody writes an operation and its orders, and may send some of them  *)
(* on their way.                                                           *)
LEMMA StaffMoves ==
  ASSUME OrdersIInv, NEW o \in Op, UNCHANGED <<shop, handler, late, mishaps>>,
         NEW new \in Operation, operation' = [operation EXCEPT ![o] = new],
         NEW rows \in [Store -> Order], order' = [order EXCEPT ![o] = rows],
         delivery' \in [Event -> Delivery], job' \in [Job -> JobState],
         new.state # "UNUSED",
         Used(o) /\ new.state = "LIVE" =>
            /\ Live(o) /\ new.source = operation[o].source
            /\ new.source = "CRM" /\ operation[o].status = "COMPLETED" =>
                    new.status = "COMPLETED",
         RowIsTrue(o)', \A s \in Store : OrderIsTrue(o, s)',
         \A s \in Store : rows[s].woo = NoOp \/ rows[s].woo = order[o][s].woo,
         \A j \in Job : \/ job'[j] = job[j]
                        \/ ~Busy(j) /\ Busy(j)' /\ job'[j].op = o /\ JobIsTrue(j)',
         \A j \in Job : Busy(j) /\ job[j].op = o /\ Crm(o) /\ new.state = "LIVE" =>
            /\ \/ rows[job[j].store].sync = order[o][job[j].store].sync
               \/ rows[job[j].store].sync \in {"SYNCING", "SYNCED"}
            /\ NoNewJob(j)
  PROVE  OrdersIInv'
<1>1. /\ operation' \in [Op -> Operation] /\ operation'[o] = new
      /\ \A p \in Op : p # o => operation'[p] = operation[p]
      /\ order' \in [Op -> [Store -> Order]] /\ order'[o] = rows
      /\ \A p \in Op : p # o => order'[p] = order[p]
  BY DEF OrdersIInv, OrdersTypeOK
<1>2. Grows
  BY <1>1 DEF Grows, Used, Live, Exists, Newest
<1>3. \A j \in Job : Busy(j)' => \/ Busy(j) /\ job'[j] = job[j]
                                 \/ job'[j].op = o
  BY DEF Busy
<1>4. ASSUME NEW p \in Op, p # o PROVE RowIsTrue(p)'
  <2>1. Unsent(p) => Unsent(p)'
    BY <1>3, <1>4 DEF Unsent
  <2> QED BY <1>1, <1>4, <2>1, RowKept
<1>5. \A p \in Op : RowIsTrue(p)'
  BY <1>4
<1>6. ASSUME NEW p \in Op, NEW s \in Store PROVE OrderIsTrue(p, s)'
  BY <1>1, <1>2, OrderKept
<1>7. ASSUME NEW p \in Op, NEW s \in Store PROVE CreatedOnceThere(p, s)'
  <2> SUFFICES ASSUME Crm(p)' PROVE CreatedOnceThere(p, s)'
    BY DEF CreatedOnceThere
  <2>1. CASE Used(p)
    <3>1. Crm(p)
      BY <1>2, <2>1, CrmStays
    <3> QED BY <3>1 DEF OrdersIInv, Rows, CreatedOnceThere, Called
  <2>2. CASE ~Used(p)
    <3>1. Unsent(p)
      BY <2>2, SentIsUsed
    <3> QED BY <3>1 DEF CreatedOnceThere, Called, Unsent
  <2> QED BY <2>1, <2>2
<1>8. LinkedOnce'
  <2> SUFFICES ASSUME NEW p \in Op, NEW q \in Op, NEW s \in Store,
                      order'[p][s].woo = order'[q][s].woo, p # q
               PROVE  order'[p][s].woo = NoOp
    BY DEF LinkedOnce
  <2>1. order[p][s].woo = order[q][s].woo => order[p][s].woo = NoOp
    BY DEF OrdersIInv, Rows, LinkedOnce
  <2> QED BY <1>1, <2>1
<1>9. Rows'
  BY <1>5, <1>6, <1>7, <1>8 DEF Rows, VacantOrNot, Exists, OrdersIInv
<1>10. ASSUME NEW j \in Job, Busy(j), job'[j] = job[j] PROVE JobIsTrue(j)'
  <2>1. job[j].op \in Op /\ job[j].store \in Store
    BY <1>10, JobOf
  <2>2. ASSUME Crm(job[j].op), operation'[job[j].op].state = "LIVE"
        PROVE  /\ \/ order'[job[j].op][job[j].store].sync = order[job[j].op][job[j].store].sync
                  \/ order'[job[j].op][job[j].store].sync \in {"SYNCING", "SYNCED"}
               /\ NoNewJob(j)
    <3>1. CASE job[j].op = o
      BY <1>1, <1>10, <2>2, <3>1
    <3>2. CASE job[j].op # o
      <4>1. NoNewJob(j)
        BY <1>3, <1>10, <3>2 DEF NoNewJob, Together
      <4> QED BY <1>1, <2>1, <3>2, <4>1
    <3> QED BY <3>1, <3>2
  <2> QED BY <1>2, <1>10, <2>2, JobKept DEF Called
<1>11. \A j \in Job : JobIsTrue(j)'
  <2>1. ASSUME NEW j \in Job, job'[j] = job[j], ~Busy(j) PROVE JobIsTrue(j)'
    BY <2>1 DEF JobIsTrue, Busy
  <2> QED BY <1>10, <2>1
<1>12. \A c \in late' : LateIsTrue(c)'
  BY <1>2, LateKept
<1>13. \A h \in Handler : ImportIsTrue(h)'
  BY <1>2, ImportKept
<1>14. OrdersTypeOK'
  BY <1>1 DEF OrdersIInv, OrdersTypeOK
<1> QED BY <1>9, <1>11, <1>12, <1>13, <1>14 DEF OrdersIInv, Work

(* Nobody works for an operation of the CRM that is not completed.         *)
LEMMA NobodyYet ==
  ASSUME OrdersIInv, NEW o \in Op,
         \/ ~Used(o)
         \/ Crm(o) /\ operation[o].status = "PENDING"
  PROVE  /\ Unsent(o) /\ \A j \in Job : Busy(j) => job[j].op # o
         /\ \A s \in Store : order[o][s].woo = NoOp /\ order[o][s].sync = "PENDING"
<1>1. RowIsTrue(o)
  BY DEF OrdersIInv, Rows
<1>2. Unsent(o) /\ \A s \in Store : order[o][s].woo = NoOp /\ order[o][s].sync = "PENDING"
  BY <1>1 DEF RowIsTrue, Used, Crm, Live, Unused
<1> QED BY <1>2 DEF Unsent

LEMMA CreateOperationKeeps ==
  ASSUME OrdersIInv, NEW o \in Op, NEW stores \in Baskets[o], CreateOperation(o, stores)
  PROVE  OrdersIInv'
<1>1. PICK new, rows : /\ new = [operation[o] EXCEPT !.state = "LIVE"]
                       /\ rows = [s \in Store |-> IF s \in stores THEN NewOrder ELSE NoOrder]
  OBVIOUS
<1>2. ~Used(o) /\ RowIsTrue(o)
  BY DEF CreateOperation, NextOp, Used, OrdersIInv, Rows
<1>3. operation[o] = Unused
  BY <1>2 DEF RowIsTrue, Used
<1>4. new \in Operation /\ new.state = "LIVE" /\ new.source = "CRM" /\ new.status = "PENDING"
      /\ ~new.reopened
  <2>1. new = [Unused EXCEPT !.state = "LIVE"]
    BY <1>1, <1>3
  <2> QED BY <2>1 DEF Unused, Operation, OperationStatus
<1>5. /\ rows \in [Store -> Order]
      /\ \A s \in Store : rows[s].woo = NoOp /\ rows[s].rev = NoOp /\ rows[s].sync = "PENDING"
  BY <1>1, RowTypes DEF NewOrder, NoOrder
<1>6. operation' = [operation EXCEPT ![o] = new] /\ order' = [order EXCEPT ![o] = rows]
  BY <1>1 DEF CreateOperation, OrdersIInv, OrdersTypeOK
<1>7. UNCHANGED <<delivery, shop, handler, job, late, mishaps>>
  BY DEF CreateOperation
<1>8. operation'[o] = new /\ order'[o] = rows
  BY <1>6 DEF OrdersIInv, OrdersTypeOK
<1>9. Unsent(o) /\ \A j \in Job : Busy(j) => job[j].op # o
  BY <1>2, NobodyYet
<1>10. RowIsTrue(o)' /\ \A s \in Store : OrderIsTrue(o, s)'
  <2>1. Unsent(o)'
    BY <1>7, <1>9 DEF Unsent, Busy
  <2> QED BY <1>4, <1>5, <1>8, <2>1 DEF RowIsTrue, OrderIsTrue
<1> QED BY <1>2, <1>4, <1>5, <1>6, <1>7, <1>9, <1>10, StaffMoves DEF OrdersIInv, OrdersTypeOK

LEMMA UpdatePendingKeeps ==
  ASSUME OrdersIInv, NEW o \in Op, NEW stores \in Baskets[o], UpdatePending(o, stores)
  PROVE  OrdersIInv'
<1>1. PICK rows : rows = [s \in Store |->
            IF s \in stores
            THEN IF s \in Stores(o) THEN order[o][s] ELSE NewOrder
            ELSE IF s \in Stores(o) THEN GoneOrder ELSE order[o][s]]
  OBVIOUS
<1>2. /\ operation[o] \in Operation /\ RowIsTrue(o) /\ operation[o].state = "LIVE"
      /\ operation[o].status = "PENDING"
      /\ \A s \in Store : order[o][s] \in Order /\ OrderIsTrue(o, s)
  BY DEF OrdersIInv, OrdersTypeOK, Rows, UpdatePending, Live
<1>3. /\ rows \in [Store -> Order]
      /\ \A s \in Store : rows[s] \in {order[o][s], NewOrder, GoneOrder}
  BY <1>1, <1>2, RowTypes
<1>4. operation' = [operation EXCEPT ![o] = operation[o]] /\ order' = [order EXCEPT ![o] = rows]
  BY <1>1 DEF UpdatePending, OrdersIInv, OrdersTypeOK
<1>5. UNCHANGED <<operation, shop, handler, job, late, mishaps>>
  BY DEF UpdatePending
<1>6. order'[o] = rows
  BY <1>4 DEF OrdersIInv, OrdersTypeOK
<1>7. \A s \in Store : rows[s].woo = NoOp \/ rows[s].woo = order[o][s].woo
  BY <1>3 DEF NewOrder, GoneOrder, NoOrder
<1>8. operation[o].source = "CRM" =>
         /\ Unsent(o) /\ \A j \in Job : Busy(j) => job[j].op # o
         /\ \A s \in Store : order[o][s].woo = NoOp /\ order[o][s].sync = "PENDING"
  BY <1>2, NobodyYet DEF Crm, Live
<1>9. RowIsTrue(o)'
  <2>1. operation[o].source = "CRM" =>
          /\ Unsent(o)'
          /\ \A s \in Store : rows[s].woo = NoOp /\ rows[s].sync = "PENDING"
    BY <1>3, <1>5, <1>8 DEF Unsent, Busy, NewOrder, GoneOrder, NoOrder
  <2> QED BY <1>2, <1>5, <1>6, <2>1 DEF RowIsTrue
<1>10. ASSUME NEW s \in Store PROVE OrderIsTrue(o, s)'
  <2>1. CASE rows[s] = order[o][s]
    BY <1>2, <1>5, <1>6, <2>1 DEF OrderIsTrue, Exists, Newest
  <2>2. CASE rows[s] = NewOrder
    BY <1>6, <2>2 DEF OrderIsTrue, NewOrder, NoOrder
  <2>3. CASE rows[s] = GoneOrder
    BY <1>6, <2>3 DEF OrderIsTrue, GoneOrder, NoOrder
  <2> QED BY <1>3, <2>1, <2>2, <2>3
<1>11. delivery' \in [Event -> Delivery]
  <2>1. \A e \in Event : delivery[e] \in Delivery /\ [delivery[e] EXCEPT !.op = NoOp] \in Delivery
    BY DEF OrdersIInv, OrdersTypeOK, Delivery
  <2> QED BY <2>1 DEF UpdatePending
<1>12. \A j \in Job : Busy(j) /\ job[j].op = o /\ Crm(o) => FALSE
  BY <1>8 DEF Crm
<1>13. Live(o)
  BY DEF UpdatePending
<1> QED BY <1>2, <1>3, <1>4, <1>5, <1>7, <1>9, <1>10, <1>11, <1>12, <1>13, StaffMoves
       DEF OrdersIInv, OrdersTypeOK

LEMMA DeleteOperationKeeps ==
  ASSUME OrdersIInv, NEW o \in Op, DeleteOperation(o)
  PROVE  OrdersIInv'
<1>1. PICK new, rows : /\ new = [Unused EXCEPT !.state = "DELETED"]
                       /\ rows = [s \in Store |-> GoneOrder]
  OBVIOUS
<1>2. new \in Operation /\ new.state = "DELETED" /\ ~new.reopened /\ new.status = "PENDING"
  BY <1>1 DEF Unused, Operation, OperationStatus
<1>3. rows \in [Store -> Order] /\ \A s \in Store : rows[s] = GoneOrder
  BY <1>1, RowTypes
<1>4. operation' = [operation EXCEPT ![o] = new] /\ order' = [order EXCEPT ![o] = rows]
  BY <1>1 DEF DeleteOperation
<1>5. UNCHANGED <<shop, handler, job, late, mishaps>>
  BY DEF DeleteOperation
<1>6. operation'[o] = new /\ order'[o] = rows
  BY <1>4 DEF OrdersIInv, OrdersTypeOK
<1>7. RowIsTrue(o)'
  BY <1>1, <1>2, <1>3, <1>6 DEF RowIsTrue
<1>8. \A s \in Store : rows[s].woo = NoOp /\ OrderIsTrue(o, s)'
  BY <1>3, <1>6 DEF OrderIsTrue, GoneOrder, NoOrder
<1>9. delivery' \in [Event -> Delivery]
  <2>1. [status |-> "NONE", op |-> NoOp] \in Delivery
    BY DEF Delivery
  <2> QED BY <2>1 DEF DeleteOperation, OrdersIInv, OrdersTypeOK
<1> QED BY <1>2, <1>3, <1>4, <1>5, <1>7, <1>8, <1>9, StaffMoves DEF OrdersIInv, OrdersTypeOK

LEMMA ReopenKeeps ==
  ASSUME OrdersIInv, NEW o \in Op, Reopen(o)
  PROVE  OrdersIInv'
<1>1. PICK new : new = [operation[o] EXCEPT !.status = "PENDING", !.reopened = TRUE]
  OBVIOUS
<1>2. /\ operation[o] \in Operation /\ operation[o].state = "LIVE"
      /\ operation[o].source = "WOOCOMMERCE" /\ Live(o)
  BY DEF OrdersIInv, OrdersTypeOK, Reopen, Live
<1>3. new \in Operation /\ new.state = "LIVE" /\ new.source = "WOOCOMMERCE"
  BY <1>1, <1>2 DEF Operation, OperationStatus
<1>4. operation' = [operation EXCEPT ![o] = new] /\ order' = [order EXCEPT ![o] = order[o]]
  BY <1>1 DEF Reopen, OrdersIInv, OrdersTypeOK
<1>5. UNCHANGED <<order, delivery, shop, handler, job, late, mishaps>>
  BY DEF Reopen
<1>6. operation'[o] = new
  BY <1>4 DEF OrdersIInv, OrdersTypeOK
<1>7. RowIsTrue(o)'
  BY <1>3, <1>6 DEF RowIsTrue
<1>8. \A s \in Store : OrderIsTrue(o, s)'
  BY <1>2, <1>3, <1>5, <1>6 DEF OrdersIInv, Rows, OrderIsTrue, Exists, Newest
<1>9. ~Crm(o) /\ order[o] \in [Store -> Order] /\ new.source = operation[o].source
      /\ new.source # "CRM"
  BY <1>2, <1>3 DEF Crm, OrdersIInv, OrdersTypeOK
<1> QED BY <1>2, <1>3, <1>4, <1>5, <1>7, <1>8, <1>9, StaffMoves DEF OrdersIInv, OrdersTypeOK

(* Orders are sent on their way.                                           *)
LEMMA Claiming ==
  ASSUME OrdersIInv, NEW o \in Op, Live(o), NEW stores \in SUBSET Stores(o),
         NEW new \in Operation, operation' = [operation EXCEPT ![o] = new],
         new.state = "LIVE", new.source = operation[o].source, new.status = "COMPLETED",
         new.reopened => operation[o].reopened,
         Claimed(o, stores), UNCHANGED <<delivery, shop, handler, late, mishaps>>,
         Crm(o) => \A s \in stores :
            /\ order[o][s].woo = NoOp
            /\ \A k \in Job : Busy(k) /\ job[k].op = o => job[k].store # s
  PROVE  OrdersIInv'
<1>1. stores \subseteq Store /\ \A s \in stores : order[o][s].state = "LIVE"
  BY DEF Stores
<1>2. PICK rows : rows = [s \in Store |-> IF s \in stores
                    THEN [order[o][s] EXCEPT !.sync = "SYNCING"] ELSE order[o][s]]
  OBVIOUS
<1>3. \A s \in Store : order[o][s] \in Order /\ OrderIsTrue(o, s)
  BY DEF OrdersIInv, OrdersTypeOK, Rows
<1>4. ASSUME NEW s \in Store
      PROVE  /\ rows[s] \in Order /\ rows[s].state = order[o][s].state
             /\ rows[s].woo = order[o][s].woo /\ rows[s].rev = order[o][s].rev
             /\ s \in stores => rows[s].sync = "SYNCING"
             /\ s \notin stores => rows[s].sync = order[o][s].sync
  <2>1. CASE s \in stores
    <3>1. rows[s] = [order[o][s] EXCEPT !.sync = "SYNCING"] /\ order[o][s] \in Order
      BY <1>2, <1>3, <2>1
    <3> QED BY <2>1, <3>1 DEF Order
  <2>2. CASE s \notin stores
    BY <1>2, <1>3, <2>2
  <2> QED BY <2>1, <2>2
<1>5. rows \in [Store -> Order]
  BY <1>2, <1>4
<1>6. order' = [order EXCEPT ![o] = rows]
  BY <1>2 DEF Claimed
<1>7. order'[o] = rows /\ operation'[o] = new
  BY <1>6 DEF OrdersIInv, OrdersTypeOK
<1>8. PICK taken \in [stores -> {j \in Job : job[j] = Unoccupied}] :
        /\ \A s, t \in stores : taken[s] = taken[t] => s = t
        /\ job' = [j \in Job |->
                IF \E s \in stores : taken[s] = j
                THEN [at |-> "load", op |-> o,
                      store |-> CHOOSE s \in stores : taken[s] = j,
                      woo |-> NoOp, rev |-> NoOp]
                ELSE job[j]]
  BY DEF Claimed
<1>9. ASSUME NEW j \in Job, NEW s \in stores, taken[s] = j
      PROVE  /\ job[j] = Unoccupied
             /\ job'[j] = [at |-> "load", op |-> o, store |-> s, woo |-> NoOp, rev |-> NoOp]
  <2>1. (CHOOSE t \in stores : taken[t] = j) = s
    BY <1>8, <1>9
  <2> QED BY <1>8, <1>9, <2>1
<1>10. ASSUME NEW j \in Job
       PROVE  \/ job'[j] = job[j]
              \/ \E s \in stores : /\ taken[s] = j /\ ~Busy(j)
                                   /\ job'[j] = [at |-> "load", op |-> o, store |-> s,
                                                 woo |-> NoOp, rev |-> NoOp]
  <2>1. CASE \E s \in stores : taken[s] = j
    BY <1>9, <2>1 DEF Busy, Unoccupied
  <2>2. CASE ~\E s \in stores : taken[s] = j
    BY <1>8, <2>2
  <2> QED BY <2>1, <2>2
<1>11. job' \in [Job -> JobState]
  <2>1. ASSUME NEW j \in Job PROVE job'[j] \in JobState
    <3>1. \A s \in stores : [at |-> "load", op |-> o, store |-> s, woo |-> NoOp, rev |-> NoOp]
                            \in JobState
      BY <1>1 DEF JobState
    <3> QED BY <1>10, <3>1 DEF OrdersIInv, OrdersTypeOK
  <2> QED BY <1>8, <2>1
<1>12. Crm(o)' => Crm(o)
  BY <1>7 DEF Crm, Live
(* The new jobs are alone with their orders.                               *)
<1>13. ASSUME NEW j \in Job, NEW s \in stores, taken[s] = j,
              job'[j] = [at |-> "load", op |-> o, store |-> s, woo |-> NoOp, rev |-> NoOp]
       PROVE  JobIsTrue(j)'
  <2>1. job'[j].at = "load" /\ job'[j].op = o /\ job'[j].store = s
    BY <1>13
  <2>2. Crm(o)' => order'[o][s].sync = "SYNCING"
    BY <1>1, <1>4, <1>7
  <2>3. ASSUME Crm(o)', NEW k \in Job, Busy(k)', Together(j, k)'
        PROVE  k = j
    <3>1. job'[k].op = o /\ job'[k].store = s
      BY <2>1, <2>3 DEF Together
    <3>2. CASE job'[k] = job[k]
      BY <1>12, <2>3, <3>1, <3>2 DEF Busy
    <3>3. CASE \E t \in stores : /\ taken[t] = k
                                 /\ job'[k] = [at |-> "load", op |-> o, store |-> t,
                                               woo |-> NoOp, rev |-> NoOp]
      BY <1>13, <3>1, <3>3
    <3> QED BY <1>10, <3>2, <3>3
  <2> QED BY <2>1, <2>2, <2>3 DEF JobIsTrue, Crm, Live
<1>14. \A j \in Job : \/ job'[j] = job[j]
                      \/ ~Busy(j) /\ Busy(j)' /\ job'[j].op = o /\ JobIsTrue(j)'
  <2>1. ASSUME NEW j \in Job, job'[j] # job[j]
        PROVE  ~Busy(j) /\ Busy(j)' /\ job'[j].op = o /\ JobIsTrue(j)'
    <3>1. PICK s \in stores : /\ taken[s] = j /\ ~Busy(j)
                              /\ job'[j] = [at |-> "load", op |-> o, store |-> s,
                                            woo |-> NoOp, rev |-> NoOp]
      BY <1>10, <2>1
    <3>2. JobIsTrue(j)'
      BY <1>13, <3>1
    <3> QED BY <3>1, <3>2 DEF Busy
  <2> QED BY <2>1
<1>15. ASSUME NEW j \in Job, Busy(j), job[j].op = o, Crm(o)
       PROVE  /\ rows[job[j].store].sync = order[o][job[j].store].sync
              /\ NoNewJob(j)
  <2>1. job[j].store \in Store /\ job[j].store \notin stores
    BY <1>15, JobOf
  <2>2. job'[j] = job[j]
    BY <1>10, <1>15
  <2>3. ASSUME NEW k \in Job, Busy(k)', Together(j, k)' PROVE Busy(k) /\ Together(j, k)
    <3>1. job'[k].store \notin stores
      BY <2>1, <2>2, <2>3 DEF Together
    <3>2. ASSUME NEW t \in stores,
                 job'[k] = [at |-> "load", op |-> o, store |-> t, woo |-> NoOp, rev |-> NoOp]
          PROVE  FALSE
      <4>1. job'[k].store = t
        BY <3>2
      <4> QED BY <3>1, <4>1
    <3>3. job'[k] = job[k]
      BY <1>10, <3>2
    <3> QED BY <2>2, <2>3, <3>3 DEF Busy, Together
  <2> QED BY <1>4, <2>1, <2>3 DEF NoNewJob
<1>16. RowIsTrue(o)'
  <2>1. RowIsTrue(o)
    BY DEF OrdersIInv, Rows
  <2>2. operation[o].reopened => operation[o].source = "WOOCOMMERCE"
    BY <2>1 DEF RowIsTrue
  <2>3. /\ operation'[o].reopened => operation'[o].source = "WOOCOMMERCE"
        /\ operation'[o].state = "LIVE" /\ operation'[o].status = "COMPLETED"
    BY <1>7, <2>2
  <2> QED BY <2>3 DEF RowIsTrue
<1>17. ASSUME NEW s \in Store PROVE OrderIsTrue(o, s)'
  <2>1. OrderIsTrue(o, s) /\ operation'[o].source = operation[o].source
    BY <1>3, <1>7
  <2>2. s \in stores => rows[s].state = "LIVE" /\ (Crm(o) => rows[s].woo = NoOp)
    BY <1>1, <1>4
  <2>3. \A w : Exists(s, w)' <=> Exists(s, w)
    BY DEF Exists
  <2>4. \A w : Newest(s, w)' = Newest(s, w)
    BY DEF Newest
  <2> QED BY <1>4, <1>7, <2>1, <2>2, <2>3, <2>4 DEF OrderIsTrue, Crm, Exists, Newest
<1>18. \A s \in Store : rows[s].woo = NoOp \/ rows[s].woo = order[o][s].woo
  BY <1>4
<1>19. /\ new.state # "UNUSED" /\ delivery' \in [Event -> Delivery]
       /\ Used(o) /\ new.state = "LIVE" =>
            /\ Live(o) /\ new.source = operation[o].source
            /\ new.source = "CRM" /\ operation[o].status = "COMPLETED" =>
                    new.status = "COMPLETED"
  BY DEF OrdersIInv, OrdersTypeOK
<1>20. \A j \in Job : Busy(j) /\ job[j].op = o /\ Crm(o) /\ new.state = "LIVE" =>
            /\ \/ rows[job[j].store].sync = order[o][job[j].store].sync
               \/ rows[job[j].store].sync \in {"SYNCING", "SYNCED"}
            /\ NoNewJob(j)
  BY <1>15
<1> QED BY <1>5, <1>6, <1>11, <1>14, <1>16, <1>17, <1>18, <1>19, <1>20, StaffMoves

LEMMA CompleteKeeps ==
  ASSUME OrdersIInv, NEW o \in Op, Complete(o)
  PROVE  OrdersIInv'
<1>1. PICK new : new = [operation[o] EXCEPT !.status = "COMPLETED"]
  OBVIOUS
<1>2. operation[o] \in Operation /\ operation[o].state = "LIVE" /\ Live(o)
  BY DEF OrdersIInv, OrdersTypeOK, Complete, Live
<1>3. /\ new \in Operation /\ new.state = "LIVE" /\ new.source = operation[o].source
      /\ new.status = "COMPLETED" /\ (new.reopened => operation[o].reopened)
  BY <1>1, <1>2 DEF Operation, OperationStatus
<1>4. operation' = [operation EXCEPT ![o] = new]
  BY <1>1 DEF Complete, OrdersIInv, OrdersTypeOK
<1>5. ToClose(o) \in SUBSET Stores(o)
  BY DEF ToClose
<1>6. Crm(o) => /\ \A j \in Job : Busy(j) => job[j].op # o
                /\ \A s \in Store : order[o][s].woo = NoOp
  BY NobodyYet DEF Complete
<1>7. Crm(o) => \A s \in ToClose(o) :
            /\ order[o][s].woo = NoOp
            /\ \A k \in Job : Busy(k) /\ job[k].op = o => job[k].store # s
  BY <1>6 DEF ToClose, Stores
<1> QED BY <1>2, <1>3, <1>4, <1>5, <1>7, Claiming DEF Complete

LEMMA RetryKeeps ==
  ASSUME OrdersIInv, NEW o \in Op, NEW stores \in SUBSET Store, Retry(o, stores)
  PROVE  OrdersIInv'
<1>1. /\ operation[o] \in Operation /\ operation[o].state = "LIVE" /\ Live(o)
      /\ operation' = [operation EXCEPT ![o] = operation[o]]
  BY DEF OrdersIInv, OrdersTypeOK, Retry, Live
<1>2. \A s \in stores : /\ order[o][s].woo = NoOp /\ order[o][s].sync = "ERROR"
                        /\ s \in Stores(o) /\ operation[o].status = "COMPLETED"
  BY DEF Retry, Retryable
<1>3. operation[o].status = "COMPLETED"
  BY <1>2 DEF Retry
<1>4. ASSUME Crm(o), NEW s \in stores, NEW k \in Job, Busy(k), job[k].op = o, job[k].store = s
      PROVE  FALSE
  <2>1. JobIsTrue(k)
    BY DEF OrdersIInv, Work
  <2>2. order[o][s].sync \in {"SYNCING", "SYNCED"}
    BY <1>4, <2>1 DEF JobIsTrue
  <2> QED BY <1>2, <2>2
<1>5. stores \in SUBSET Stores(o) /\ Claimed(o, stores)
      /\ UNCHANGED <<delivery, shop, handler, late, mishaps>>
  BY <1>2 DEF Retry
<1>6. Crm(o) => \A s \in stores :
            /\ order[o][s].woo = NoOp
            /\ \A k \in Job : Busy(k) /\ job[k].op = o => job[k].store # s
  BY <1>2, <1>4
<1>7. operation[o].reopened => operation[o].reopened
  OBVIOUS
<1> QED BY <1>1, <1>3, <1>5, <1>6, <1>7, Claiming

-----------------------------------------------------------------------------
(* The theorems                                                            *)

LEMMA OrdersStart == OrdersInit => OrdersIInv
<1> SUFFICES ASSUME OrdersInit PROVE OrdersIInv
  OBVIOUS
<1>1. OrdersTypeOK
  <2>1. [status |-> "NONE", op |-> NoOp] \in Delivery
    BY DEF Delivery
  <2>2. mishaps \in 0..MaxMishaps
    BY ShelfFacts DEF OrdersInit
  <2> QED BY <2>1, <2>2, RowTypes DEF OrdersInit, OrdersTypeOK
<1>2. \A j \in Job : ~Busy(j)
  BY DEF OrdersInit, Busy, Unoccupied
<1>3. \A s \in Store, w \in Woo : shop[s][w] = Vacant
  BY DEF OrdersInit
<1>4. \A o \in Op : Unsent(o)
  BY <1>2, <1>3, NumberFacts DEF OrdersInit, Unsent, Vacant
<1>5. \A o \in Op : operation[o] = Unused /\ \A s \in Store : order[o][s] = NoOrder
  BY DEF OrdersInit
<1>6. \A o \in Op : RowIsTrue(o)
  BY <1>4, <1>5 DEF RowIsTrue, Unused, NoOrder
<1>7. \A o \in Op, s \in Store : OrderIsTrue(o, s)
  BY <1>5 DEF OrderIsTrue, NoOrder
<1>8. \A o \in Op, s \in Store : CreatedOnceThere(o, s)
  BY <1>5 DEF CreatedOnceThere, Crm, Live, Unused
<1>9. LinkedOnce
  BY <1>5 DEF LinkedOnce, NoOrder
<1>10. VacantOrNot
  BY <1>3 DEF VacantOrNot
<1>11. Work
  BY <1>2 DEF Work, JobIsTrue, ImportIsTrue, OrdersInit, Unoccupied
<1> QED BY <1>1, <1>6, <1>7, <1>8, <1>9, <1>10, <1>11 DEF OrdersIInv, Rows

LEMMA OrdersKeep == OrdersIInv /\ [OrdersNext]_orderVars => OrdersIInv'
<1> SUFFICES ASSUME OrdersIInv, [OrdersNext]_orderVars PROVE OrdersIInv'
  OBVIOUS
<1>1. CASE UNCHANGED orderVars
  <2>1. UNCHANGED <<operation, order, delivery, shop, handler, job, late, mishaps>>
    BY <1>1 DEF orderVars
  <2> QED BY <2>1, RequestsMove DEF OrdersIInv, OrdersTypeOK
<1>2. ASSUME NEW o \in Op, StaffStep(o) PROVE OrdersIInv'
  BY <1>2, CreateOperationKeeps, UpdatePendingKeeps, RetryKeeps, CompleteKeeps, ReopenKeeps,
     DeleteOperationKeeps DEF StaffStep
<1>3. ASSUME StoreStep PROVE OrdersIInv'
  <2>1. \A st \in ShopStatus \cup {"processing"} : st \in WooStatus
    BY StatusFacts
  <2> QED BY <1>3, <2>1, ShopSellsKeeps, ShopChangesKeeps, LateCallArrivesKeeps DEF StoreStep
<1>4. ASSUME NEW h \in Handler, NEW e \in Event, ClaimDelivery(h, e) PROVE OrdersIInv'
  BY <1>4, ClaimDeliveryKeeps
<1>5. ASSUME NEW h \in Handler, HandlerStep(h) PROVE OrdersIInv'
  BY <1>5, ImportReadKeeps, ImportStaleKeeps, ImportUpdatesKeeps, ImportCreatesKeeps,
     ImportCollidesKeeps, ImportFailsKeeps DEF HandlerStep
<1>6. ASSUME NEW j \in Job, JobStep(j) PROVE OrdersIInv'
  BY <1>6, LoadOrderKeeps, SearchFindsKeeps, SearchFindsNothingKeeps, StoreCreatesKeeps,
     SnapshotReadKeeps, StoreUpdatesKeeps, ConfirmKeeps, ConfirmFailsKeeps,
     OutboundFailsKeeps, AnswerLostKeeps, CallTimesOutKeeps DEF JobStep
<1> QED BY <1>1, <1>2, <1>3, <1>4, <1>5, <1>6, WriteFailsKeeps, OrdersRestartKeeps
        DEF OrdersNext

(* Rows, requests, jobs and calls have the declared shapes, and the        *)
(* inductive invariant holds, however many operations, stores, webhooks in *)
(* progress, jobs, restarts and late calls there are.                      *)
THEOREM OrdersAreSound == OrdersSpec => [](OrdersTypeOK /\ OrdersIInv)
<1>1. OrdersIInv => OrdersTypeOK
  BY DEF OrdersIInv
<1> QED BY <1>1, OrdersStart, OrdersKeep, PTL DEF OrdersSpec

(* No retry makes a call create a second order of an operation of the CRM, *)
(* although each job only asks the store once, before it calls.            *)
THEOREM NoOrderTwice == OrdersSpec => []CreatedOnce
<1>1. OrdersIInv => CreatedOnce
  <2> SUFFICES ASSUME OrdersIInv, NEW o \in Op, NEW s \in Store, Crm(o)
               PROVE  Cardinality({w \in Woo : Called(o, s, w)}) <= 1
    BY DEF CreatedOnce, Called, Crm
  <2>1. \A v, w \in Woo : Called(o, s, v) /\ Called(o, s, w) => v = w
    BY DEF OrdersIInv, Rows, CreatedOnceThere
  <2>2. CASE \E w \in Woo : Called(o, s, w)
    <3>1. PICK w \in Woo : {v \in Woo : Called(o, s, v)} = {w}
      BY <2>1, <2>2
    <3>2. Cardinality({w}) = 1
      BY FS_Singleton
    <3>3. Cardinality({v \in Woo : Called(o, s, v)}) = 1
      BY <3>1, <3>2
    <3> QED BY <3>3
  <2>3. CASE ~\E w \in Woo : Called(o, s, w)
    <3>1. {w \in Woo : Called(o, s, w)} = {}
      BY <2>3
    <3> QED BY <3>1, FS_EmptySet
  <2> QED BY <2>2, <2>3
<1> QED BY <1>1, OrdersStart, OrdersKeep, PTL DEF OrdersSpec

(* A failed order of the CRM is not linked, and its operation is           *)
(* completed: a retry is possible at any moment, whatever webhooks did.    *)
THEOREM FailuresAreRetryable == OrdersSpec => []FailedIsRetryable
<1>1. OrdersIInv => FailedIsRetryable
  <2> SUFFICES ASSUME OrdersIInv, NEW o \in Op, NEW s \in Store,
                      operation[o].source = "CRM", order[o][s].sync = "ERROR"
               PROVE  Retryable(o, s)
    BY DEF FailedIsRetryable
  <2>1. RowIsTrue(o) /\ OrderIsTrue(o, s) /\ operation[o] \in Operation
    BY DEF OrdersIInv, Rows, OrdersTypeOK
  <2>2. order[o][s].woo = NoOp /\ order[o][s].state = "LIVE"
    BY <2>1 DEF OrderIsTrue
  <2>3. operation[o].state = "LIVE"
    BY <2>1, <2>2 DEF RowIsTrue, NoOrder, GoneOrder, Operation
  <2>4. operation[o].status = "COMPLETED"
    BY <2>1, <2>3 DEF RowIsTrue, Operation, OperationStatus
  <2> QED BY <2>2, <2>4 DEF Retryable, Stores
<1> QED BY <1>1, OrdersStart, OrdersKeep, PTL DEF OrdersSpec

-----------------------------------------------------------------------------
(* Old news: what each kind of step may do to an operation and its orders  *)

LEMMA OrderNumbers ==
  ASSUME OrdersTypeOK, NEW o \in Op, NEW s \in Store
  PROVE  order[o][s] \in Order /\ order[o][s].rev \in Nat
<1>1. order[o][s] \in Order
  BY DEF OrdersTypeOK
<1>2. order[o][s].rev \in Revision \/ order[o][s].rev = 0
  BY <1>1 DEF Order, NoOp
<1> QED BY <1>1, <1>2, RevisionFacts

OldRevision(o, s) ==
  /\ order'[o][s].woo # NoOp /\ order'[o][s].woo = order[o][s].woo
  /\ order'[o][s].rev < order[o][s].rev
OldNewsAt(o) ==
  /\ \A s \in Store :
        OldRevision(o, s)
        => \/ \E h \in Handler : Overtaken(h, o, s)
           \/ /\ operation[o].source = "WOOCOMMERCE"
              /\ \E j \in Job : Confirmed(j, o, s)
  /\ /\ operation[o].reopened
     /\ operation[o].status # "CANCELLED" /\ operation'[o].status = "CANCELLED"
     => \E h \in Handler, s \in Store : Overtaken(h, o, s)
  /\ /\ Live(o) /\ operation[o].source = "CRM"
     /\ operation[o].status = "COMPLETED"
     => operation'[o].status = "COMPLETED" \/ operation'[o].state = "DELETED"

(* An order that keeps its revision is no news.                            *)
LEMMA NoNews ==
  ASSUME OrdersIInv, NEW o \in Op, operation'[o] = operation[o],
         \A s \in Store : order'[o][s].woo = NoOp \/ order'[o][s].rev = order[o][s].rev
  PROVE  OldNewsAt(o)
<1>1. \A s \in Store : order[o][s].rev \in Nat
  BY OrderNumbers DEF OrdersIInv
<1> QED BY <1>1 DEF OldNewsAt, OldRevision

(* The row that somebody writes keeps its revisions, and what it does to   *)
(* the operation is harmless.                                              *)
LEMMA StaffIsNoNews ==
  ASSUME OrdersIInv, NEW o \in Op, NEW p \in Op, StaffStep(o)
  PROVE  OldNewsAt(p)
<1>1. \A s \in Store : order[o][s] \in Order /\ order[o][s].rev \in Nat
  BY OrderNumbers DEF OrdersIInv
<1>2. RowIsTrue(o) /\ operation[o] \in Operation
  BY DEF OrdersIInv, Rows, OrdersTypeOK
<1>3. /\ p # o => operation'[p] = operation[p] /\ order'[p] = order[p]
  BY DEF OrdersIInv, OrdersTypeOK, StaffStep, CreateOperation, UpdatePending, Retry, Complete,
         Reopen, DeleteOperation, Claimed
<1>4. CASE p # o
  BY <1>3, <1>4, NoNews
<1>5. ASSUME p = o, \A s \in Store : order'[o][s].woo = NoOp \/ order'[o][s].rev = order[o][s].rev,
             operation'[o].status # "CANCELLED" \/ operation'[o].status = operation[o].status,
             ~(Live(o) /\ operation[o].status = "COMPLETED")
             \/ operation'[o].status = "COMPLETED" \/ operation'[o].state = "DELETED"
      PROVE  OldNewsAt(p)
  BY <1>1, <1>5 DEF OldNewsAt, OldRevision
<1>6. CASE p = o /\ \E stores \in Baskets[o] : CreateOperation(o, stores)
  <2>1. /\ operation'[o].status = operation[o].status
        /\ \A s \in Store : order'[o][s].woo = NoOp
        /\ ~Live(o)
    BY <1>2, <1>6 DEF CreateOperation, OrdersIInv, OrdersTypeOK, NextOp, Live, NewOrder, NoOrder,
                      Operation
  <2> QED BY <1>5, <1>6, <2>1
<1>7. CASE p = o /\ \E stores \in Baskets[o] : UpdatePending(o, stores)
  <2>1. operation'[o] = operation[o] /\ operation[o].status # "COMPLETED"
    BY <1>7 DEF UpdatePending
  <2>2. \A s \in Store : order'[o][s] \in {order[o][s], NewOrder, GoneOrder}
    BY <1>7 DEF UpdatePending, OrdersIInv, OrdersTypeOK
  <2>3. \A s \in Store : order'[o][s].woo = NoOp \/ order'[o][s].rev = order[o][s].rev
    BY <2>2 DEF NewOrder, GoneOrder, NoOrder
  <2> QED BY <1>5, <1>7, <2>1, <2>3
<1>8. ASSUME NEW stores, stores \subseteq Store, Claimed(o, stores)
      PROVE  \A s \in Store : order'[o][s].rev = order[o][s].rev
  <2>1. \A s \in Store : order'[o][s] = IF s \in stores
                THEN [order[o][s] EXCEPT !.sync = "SYNCING"] ELSE order[o][s]
    BY <1>8 DEF Claimed, OrdersIInv, OrdersTypeOK
  <2>2. \A s \in Store : [order[o][s] EXCEPT !.sync = "SYNCING"].rev = order[o][s].rev
    BY <1>1 DEF Order
  <2> QED BY <2>1, <2>2
<1>9. CASE p = o /\ \E stores \in SUBSET Store : Retry(o, stores)
  <2>1. operation'[o] = operation[o]
    BY <1>9 DEF Retry
  <2>2. \A s \in Store : order'[o][s].rev = order[o][s].rev
    BY <1>8, <1>9 DEF Retry
  <2> QED BY <1>9, <2>1, <2>2, NoNews
<1>10. CASE p = o /\ Complete(o)
  <2>1. operation'[o].status = "COMPLETED"
    BY <1>2, <1>10 DEF Complete, OrdersIInv, OrdersTypeOK, Operation
  <2>2. \A s \in Store : order'[o][s].rev = order[o][s].rev
    BY <1>8, <1>10 DEF Complete, ToClose, Stores
  <2> QED BY <1>5, <1>10, <2>1, <2>2
<1>11. CASE p = o /\ Reopen(o)
  <2>1. operation'[o].status = "PENDING" /\ operation[o].status = "CANCELLED" /\ order' = order
    BY <1>2, <1>11 DEF Reopen, OrdersIInv, OrdersTypeOK, Operation
  <2> QED BY <1>5, <1>11, <2>1
<1>12. CASE p = o /\ DeleteOperation(o)
  <2>1. operation'[o].status = "PENDING" /\ operation'[o].state = "DELETED"
    BY <1>12 DEF DeleteOperation, OrdersIInv, OrdersTypeOK, Unused
  <2>2. \A s \in Store : order'[o][s].woo = NoOp
    BY <1>12 DEF DeleteOperation, OrdersIInv, OrdersTypeOK, GoneOrder, NoOrder
  <2> QED BY <1>5, <1>12, <2>1, <2>2
<1> QED BY <1>4, <1>6, <1>7, <1>9, <1>10, <1>11, <1>12 DEF StaffStep

(* A job that ends writes what it confirms, or an error.                   *)
LEMMA MarkIsNoNews ==
  ASSUME OrdersIInv, NEW j \in Job, Busy(j), UNCHANGED operation, Done(j),
         MarkError(j) \/ Confirm(j), NEW p \in Op
  PROVE  OldNewsAt(p)
<1>1. PICK o, s : o = job[j].op /\ s = job[j].store
  OBVIOUS
<1>2. o \in Op /\ s \in Store
  BY <1>1, JobOf
<1>3. order[o][s] \in Order /\ OrderIsTrue(o, s) /\ operation[o] \in Operation
  BY <1>2 DEF OrdersIInv, OrdersTypeOK, Rows
<1>4. \A q \in Op, t \in Store : q # o \/ t # s => order'[q][t] = order[q][t]
  BY <1>1, <1>2 DEF MarkError, MarkSynced, MarkOrder, Confirm, OrdersIInv, OrdersTypeOK
<1>5. CASE MarkError(j)
  <2>1. order'[o][s].rev = order[o][s].rev
    <3>1. order'[o][s] \in {order[o][s], [order[o][s] EXCEPT !.sync = "ERROR"]}
      BY <1>1, <1>2, <1>5 DEF MarkError, MarkOrder, OrdersIInv, OrdersTypeOK
    <3> QED BY <1>3, <3>1 DEF Order
  <2> QED BY <1>4, <2>1, NoNews
<1>6. CASE Confirm(j) /\ ~Syncing(o, s)
  <2>1. order' = order
    BY <1>1, <1>6 DEF Confirm, MarkSynced, MarkOrder
  <2> QED BY <2>1, NoNews
<1>7. CASE Confirm(j) /\ Syncing(o, s)
  <2>1. Confirmed(j, o, s)
    BY <1>1, <1>7 DEF Confirm, Confirmed, Done, OrdersIInv, OrdersTypeOK
  <2>2. order[o][s].woo = NoOp \/ operation[o].source = "WOOCOMMERCE"
    BY <1>3, <1>7 DEF OrderIsTrue, Syncing, Operation
  <2>3. ASSUME NEW t \in Store, OldRevision(p, t)
        PROVE  operation[p].source = "WOOCOMMERCE" /\ \E k \in Job : Confirmed(k, p, t)
    <3>1. order[p][t].rev \in Nat
      BY OrderNumbers DEF OrdersIInv
    <3>2. p = o /\ t = s
      BY <1>4, <2>3, <3>1 DEF OldRevision
    <3> QED BY <2>1, <2>2, <2>3, <3>2 DEF OldRevision
  <2> QED BY <2>3 DEF OldNewsAt
<1> QED BY <1>5, <1>6, <1>7

(* An import that writes old news has been overtaken.                      *)
LEMMA ImportIsNoNews ==
  ASSUME OrdersIInv, NEW h \in Handler, ImportUpdates(h), NEW p \in Op
  PROVE  OldNewsAt(p)
<1>1. PICK e, seen, o, s : /\ e = handler[h].event /\ seen = handler[h].seen
                           /\ o = seen.op /\ s = e.store
  OBVIOUS
<1>2. /\ e \in Event /\ s \in Store /\ e.woo \in Woo /\ e.rev \in Revision
      /\ e.woo # NoOp
  BY <1>1, EventFacts DEF ImportUpdates
<1>3. /\ Live(o) /\ o \in Op /\ ~Stale(e, seen) /\ handler[h].at = "write"
      /\ operation' = [operation EXCEPT ![o] = ImportedOperation(e, seen, operation[o])]
      /\ order' = [order EXCEPT ![o][s] = ImportedOrder(e, order[o][s])]
  BY <1>1 DEF ImportUpdates, Live, OrdersIInv, OrdersTypeOK
<1>4. /\ operation[o] \in Operation /\ RowIsTrue(o)
      /\ order[o][s] \in Order /\ handler[h] \in BusyHandler /\ ImportIsTrue(h)
  BY <1>2, <1>3, HandlerFacts DEF OrdersIInv, OrdersTypeOK, Rows, Work
<1>5. /\ seen \in Seen /\ seen.source = operation[o].source
      /\ operation[o].source = "CRM" => seen.status = "COMPLETED"
  <2>1. o # NoOp
    BY <1>3, NumberFacts
  <2> QED BY <1>1, <1>3, <1>4, <2>1 DEF BusyHandler, ImportIsTrue, Crm
<1>6. p # o => operation'[p] = operation[p] /\ order'[p] = order[p]
  BY <1>3 DEF OrdersIInv, OrdersTypeOK
<1>7. CASE p # o
  BY <1>6, <1>7, NoNews
<1>8. CASE p = o
  <2>1. operation'[o] = ImportedOperation(e, seen, operation[o])
    BY <1>3 DEF OrdersIInv, OrdersTypeOK
  <2>2. \A t \in Store : t # s => order'[o][t] = order[o][t]
    BY <1>3 DEF OrdersIInv, OrdersTypeOK
  <2>3. order'[o][s].rev = e.rev
    <3>1. order'[o][s] = ImportedOrder(e, order[o][s])
      BY <1>2, <1>3 DEF OrdersIInv, OrdersTypeOK
    <3> QED BY <1>4, <3>1 DEF ImportedOrder, Order
  <2>4. /\ handler[h] # Unoccupied /\ handler'[h] = Unoccupied
        /\ handler[h].event.store = s /\ handler[h].seen.op = o
    <3>1. handler'[h] = Unoccupied
      BY DEF ImportUpdates, Leave, OrdersIInv, OrdersTypeOK
    <3> QED BY <1>1, <1>3, <3>1 DEF Unoccupied
  <2>5. ASSUME NEW t \in Store, OldRevision(o, t) PROVE Overtaken(h, o, t)
    <3>1. order[o][t].rev \in Nat
      BY <1>3, OrderNumbers DEF OrdersIInv
    <3>2. t = s
      BY <2>2, <2>5, <3>1 DEF OldRevision
    <3>3. seen.rev # order[o][s].rev
      <4>1. e.rev \in Nat /\ e.rev < order[o][s].rev /\ order[o][s].rev # 0
        BY <1>2, <2>3, <2>5, <3>1, <3>2, RevisionFacts DEF OldRevision
      <4> QED BY <1>3, <4>1 DEF Stale, NoOp
    <3> QED BY <1>1, <1>3, <2>4, <3>2, <3>3 DEF Overtaken
  <2>6. ASSUME operation[o].reopened, operation[o].status # "CANCELLED",
               operation'[o].status = "CANCELLED"
        PROVE  Overtaken(h, o, s)
    <3>1. operation[o].source = "WOOCOMMERCE" /\ seen.source # "CRM"
      BY <1>4, <1>5, <2>6 DEF RowIsTrue
    <3>2. ~seen.reopened
      <4>1. SUFFICES ASSUME seen.reopened PROVE FALSE
        OBVIOUS
      <4>2. CASE StatusFromWoo(e) = "CANCELLED"
        <5>1. operation'[o] = [operation[o] EXCEPT !.status = "PENDING"]
          BY <2>1, <3>1, <4>1, <4>2 DEF ImportedOperation
        <5> QED BY <1>4, <2>6, <5>1 DEF Operation
      <4>3. CASE StatusFromWoo(e) # "CANCELLED"
        <5>1. PICK status : status = StatusFromWoo(e)
          OBVIOUS
        <5>2. operation'[o] = [operation[o] EXCEPT !.status = status, !.reopened = FALSE]
          BY <2>1, <3>1, <4>3, <5>1 DEF ImportedOperation
        <5>3. operation'[o].status = status
          BY <1>4, <5>2 DEF Operation
        <5> QED BY <2>6, <4>3, <5>1, <5>3
      <4> QED BY <4>2, <4>3
    <3> QED BY <1>1, <1>3, <2>4, <2>6, <3>2 DEF Overtaken
  <2>7. operation[o].source = "CRM" => operation'[o].status = "COMPLETED"
    <3>1. SUFFICES ASSUME operation[o].source = "CRM" PROVE operation'[o].status = "COMPLETED"
      OBVIOUS
    <3>2. operation'[o] = [operation[o] EXCEPT !.status = "COMPLETED"]
      BY <1>5, <2>1, <3>1 DEF ImportedOperation
    <3> QED BY <1>4, <3>2 DEF Operation
  <2> QED BY <1>2, <1>8, <2>5, <2>6, <2>7 DEF OldNewsAt
<1> QED BY <1>7, <1>8

LEMMA NewImportIsNoNews ==
  ASSUME OrdersIInv, NEW h \in Handler, ImportCreates(h), NEW p \in Op
  PROVE  OldNewsAt(p)
<1>1. PICK e, s : e = handler[h].event /\ s = e.store
  OBVIOUS
<1>2. e.store \in Store /\ s \in Store
  BY <1>1, EventFacts DEF ImportCreates
<1>3. PICK o \in Op : /\ NextOp(o)
                      /\ \E new : operation' = [operation EXCEPT ![o] = new]
                      /\ \E row : order' = [order EXCEPT ![o][s] = row]
  BY <1>1 DEF ImportCreates
<1>4. p # o => operation'[p] = operation[p] /\ order'[p] = order[p]
  BY <1>3 DEF OrdersIInv, OrdersTypeOK
<1>5. ~Live(o) /\ ~operation[o].reopened /\ \A t \in Store : order[o][t].woo = NoOp
  BY <1>3 DEF NextOp, Live, OrdersIInv, Rows, RowIsTrue, Unused, NoOrder
<1> QED BY <1>4, <1>5, NoNews DEF OldNewsAt, OldRevision

LEMMA NewsStep ==
  ASSUME OrdersIInv, [OrdersNext]_orderVars, NEW p \in Op
  PROVE  OldNewsAt(p)
<1>1. CASE UNCHANGED <<operation, order>>
  BY <1>1, NoNews
<1>2. ASSUME NEW o \in Op, StaffStep(o) PROVE OldNewsAt(p)
  BY <1>2, StaffIsNoNews
<1>3. ASSUME StoreStep PROVE UNCHANGED <<operation, order>>
  BY <1>3 DEF StoreStep, ShopSells, ShopChanges, LateCallArrives
<1>4. ASSUME NEW h \in Handler, HandlerStep(h) PROVE OldNewsAt(p)
  <2>1. CASE ImportUpdates(h) \/ ImportCreates(h)
    BY <2>1, ImportIsNoNews, NewImportIsNoNews
  <2>2. CASE ImportRead(h) \/ ImportStale(h) \/ ImportCollides(h) \/ ImportFails(h)
    BY <1>1, <2>2 DEF ImportRead, ImportStale, ImportCollides, ImportFails
  <2> QED BY <1>4, <2>1, <2>2 DEF HandlerStep
<1>5. ASSUME NEW j \in Job, JobStep(j) PROVE OldNewsAt(p)
  <2>1. CASE LoadOrder(j) \/ SearchFinds(j) \/ SearchFindsNothing(j) \/ SnapshotRead(j)
    BY <1>1, <2>1 DEF LoadOrder, SearchFinds, SearchFindsNothing, SnapshotRead
  <2>2. CASE StoreCreates(j) \/ StoreUpdates(j)
    BY <1>1, <2>2 DEF StoreCreates, StoreUpdates
  <2>3. CASE Confirm(j)
    <3>1. Busy(j) /\ UNCHANGED operation /\ Done(j)
      BY <2>3 DEF Confirm, Busy
    <3> QED BY <2>3, <3>1, MarkIsNoNews
  <2>4. CASE ConfirmFails(j) \/ OutboundFails(j)
    <3>1. Busy(j) /\ UNCHANGED operation /\ Done(j) /\ MarkError(j)
      BY <2>4 DEF ConfirmFails, OutboundFails, Busy
    <3> QED BY <3>1, MarkIsNoNews
  <2>5. CASE AnswerLost(j) \/ CallTimesOut(j)
    <3>1. Busy(j) /\ UNCHANGED operation /\ Done(j) /\ MarkError(j)
      BY <2>5 DEF AnswerLost, CallTimesOut, Busy
    <3> QED BY <3>1, MarkIsNoNews
  <2> QED BY <1>5, <2>1, <2>2, <2>3, <2>4, <2>5 DEF JobStep
<1>6. CASE WriteFails \/ OrdersRestart \/ \E h \in Handler, e \in Event : ClaimDelivery(h, e)
  BY <1>1, <1>6 DEF WriteFails, OrdersRestart, ClaimDelivery
<1>7. CASE UNCHANGED orderVars
  BY <1>1, <1>7 DEF orderVars
<1> QED BY <1>1, <1>2, <1>3, <1>4, <1>5, <1>6, <1>7 DEF OrdersNext

(* An older revision, or a cancellation of what was reopened, is only      *)
(* written by who had read before the newer one was; and no webhook takes  *)
(* a completed operation of the CRM back.                                  *)
THEOREM OldNewsStaysOld == OrdersSpec => OldNewsIsIgnored
<1>1. OrdersIInv /\ [OrdersNext]_orderVars =>
        \A o \in Op :
            /\ \A s \in Store :
                    /\ order'[o][s].woo # NoOp /\ order'[o][s].woo = order[o][s].woo
                    /\ order'[o][s].rev < order[o][s].rev
                    => \/ \E h \in Handler : Overtaken(h, o, s)
                       \/ /\ operation[o].source = "WOOCOMMERCE"
                          /\ \E j \in Job : Confirmed(j, o, s)
            /\ /\ operation[o].reopened
               /\ operation[o].status # "CANCELLED" /\ operation'[o].status = "CANCELLED"
               => \E h \in Handler, s \in Store : Overtaken(h, o, s)
            /\ /\ Live(o) /\ operation[o].source = "CRM"
               /\ operation[o].status = "COMPLETED"
               => operation'[o].status = "COMPLETED" \/ operation'[o].state = "DELETED"
  BY NewsStep DEF OldNewsAt, OldRevision
<1> QED BY <1>1, OrdersStart, OrdersKeep, PTL DEF OrdersSpec, OldNewsIsIgnored

-----------------------------------------------------------------------------
(* Whatever is in progress has somebody who works on it                    *)

WorksOn(j, o, s) == job[j] # Unoccupied /\ job[j].op = o /\ job[j].store = s
Handles(h, e) == handler[h] # Unoccupied /\ handler[h].event = e
(* The order will be in progress after the step.                           *)
SyncingThen(o, s) == order'[o][s].state = "LIVE" /\ order'[o][s].sync = "SYNCING"

(* Nobody drops an order that stays in progress, or a delivery that stays  *)
(* pending.                                                                *)
OrdersStayHeld ==
  /\ \A o \in Op, s \in Store : SyncingThen(o, s) =>
        Syncing(o, s) \/ \E j \in Job : WorksOn(j, o, s)'
  /\ \A j \in Job, o \in Op, s \in Store :
        WorksOn(j, o, s) => WorksOn(j, o, s)' \/ ~SyncingThen(o, s)
RequestsStayHeld ==
  /\ \A e \in Event : delivery'[e].status = "PENDING" =>
        delivery[e].status = "PENDING" \/ \E h \in Handler : Handles(h, e)'
  /\ \A h \in Handler, e \in Event :
        Handles(h, e) => Handles(h, e)' \/ delivery'[e].status # "PENDING"

LEMMA StillHeld ==
  ASSUME ClaimsAreHeld, mishaps = 0, OrdersStayHeld, RequestsStayHeld
  PROVE  ClaimsAreHeld'
<1>1. ASSUME NEW o \in Op, NEW s \in Store, Syncing(o, s)'
      PROVE  \E j \in Job : WorksOn(j, o, s)'
  <2>1. SyncingThen(o, s)
    BY <1>1 DEF Syncing, Stores, SyncingThen
  <2>2. Syncing(o, s) => \E j \in Job : WorksOn(j, o, s)
    BY DEF ClaimsAreHeld, WorksOn
  <2> QED BY <2>1, <2>2 DEF OrdersStayHeld
<1>2. ASSUME NEW e \in Event, delivery'[e].status = "PENDING"
      PROVE  \E h \in Handler : Handles(h, e)'
  <2>1. delivery[e].status = "PENDING" => \E h \in Handler : Handles(h, e)
    BY DEF ClaimsAreHeld, Handles
  <2> QED BY <1>2, <2>1 DEF RequestsStayHeld
<1> QED BY <1>1, <1>2 DEF ClaimsAreHeld, WorksOn, Handles

LEMMA OrdersAloneHeld ==
  ASSUME OrdersTypeOK, UNCHANGED <<order, job>>
  PROVE  OrdersStayHeld
  BY DEF OrdersStayHeld, SyncingThen, Syncing, Stores, WorksOn
LEMMA RequestsAloneHeld ==
  ASSUME UNCHANGED <<delivery, handler>>
  PROVE  RequestsStayHeld
  BY DEF RequestsStayHeld, Handles

LEMMA JobGoesHeld ==
  ASSUME OrdersTypeOK, UNCHANGED order, NEW j \in Job, NEW at, NEW woo, NEW rev,
         at \in {"load", "search", "create", "get", "put", "confirm"},
         JobGoes(j, at, woo, rev)
  PROVE  OrdersStayHeld
<1>1. job'[j] # Unoccupied
  BY DEF JobGoes, Unoccupied
<1> QED BY <1>1 DEF OrdersStayHeld, SyncingThen, Syncing, Stores, WorksOn, JobGoes

LEMMA JobEndsHeld ==
  ASSUME OrdersIInv, NEW j \in Job, Busy(j), JobEnds(j),
         \/ MarkError(j)
         \/ MarkSynced(j)
         \/ UNCHANGED order /\ ~Syncing(job[j].op, job[j].store)
  PROVE  OrdersStayHeld
<1>1. PICK o, s, w, rev : /\ o = job[j].op /\ s = job[j].store
                          /\ w = job[j].woo /\ rev = job[j].rev
  OBVIOUS
<1>2. o \in Op /\ s \in Store
  BY <1>1, JobOf
<1>3. order[o][s] \in Order
  BY <1>2 DEF OrdersIInv, OrdersTypeOK
<1>4. /\ \A p \in Op, t \in Store : p # o \/ t # s => order'[p][t] = order[p][t]
      /\ ~SyncingThen(o, s)
  <2>1. CASE ~Syncing(o, s)
    <3>1. order' = order
      BY <1>1, <2>1 DEF MarkError, MarkSynced, MarkOrder
    <3> QED BY <1>2, <2>1, <3>1 DEF SyncingThen, Syncing, Stores
  <2>2. CASE MarkError(j) /\ Syncing(o, s)
    <3>1. order' = [order EXCEPT ![o][s] = [order[o][s] EXCEPT !.sync = "ERROR"]]
      BY <1>1, <2>2 DEF MarkError, MarkOrder
    <3>2. order'[o][s] = [order[o][s] EXCEPT !.sync = "ERROR"]
      BY <1>2, <3>1 DEF OrdersIInv, OrdersTypeOK
    <3>3. order'[o][s].sync = "ERROR"
      BY <1>3, <3>2 DEF Order
    <3> QED BY <3>1, <3>3 DEF SyncingThen, OrdersIInv, OrdersTypeOK
  <2>3. CASE MarkSynced(j) /\ Syncing(o, s)
    <3>1. order' = [order EXCEPT ![o][s] =
                      [order[o][s] EXCEPT !.woo = w, !.rev = rev, !.sync = "SYNCED"]]
      BY <1>1, <2>3 DEF MarkSynced, MarkOrder
    <3>2. order'[o][s] = [order[o][s] EXCEPT !.woo = w, !.rev = rev, !.sync = "SYNCED"]
      BY <1>2, <3>1 DEF OrdersIInv, OrdersTypeOK
    <3>3. order'[o][s].sync = "SYNCED"
      BY <1>3, <3>2 DEF Order
    <3> QED BY <3>1, <3>3 DEF SyncingThen, OrdersIInv, OrdersTypeOK
  <2> QED BY <1>1, <2>1, <2>2, <2>3
<1> QED BY <1>1, <1>2, <1>4 DEF OrdersStayHeld, WorksOn, JobEnds, SyncingThen, Syncing, Stores

LEMMA RequestEndsHeld ==
  ASSUME OrdersIInv, NEW h \in Handler, HandlerIs(h, Unoccupied), NEW e \in Event,
         e = handler[h].event,
         NEW new \in Delivery, new.status # "PENDING", delivery' = [delivery EXCEPT ![e] = new]
  PROVE  RequestsStayHeld
<1>1. /\ delivery'[e] = new
      /\ \A f \in Event : f # e => delivery'[f] = delivery[f]
  BY DEF OrdersIInv, OrdersTypeOK
<1> QED BY <1>1 DEF RequestsStayHeld, Handles, HandlerIs

LEMMA RequestGoesHeld ==
  ASSUME OrdersIInv, NEW h \in Handler, NEW new, new # Unoccupied,
         HandlerIs(h, new), new.event = handler[h].event, UNCHANGED delivery
  PROVE  RequestsStayHeld
  BY DEF RequestsStayHeld, Handles, HandlerIs

LEMMA ClaimedHeld ==
  ASSUME OrdersIInv, NEW o \in Op, NEW stores, stores \subseteq Store, Claimed(o, stores)
  PROVE  OrdersStayHeld
<1>1. PICK taken \in [stores -> {j \in Job : job[j] = Unoccupied}] :
        /\ \A s, t \in stores : taken[s] = taken[t] => s = t
        /\ job' = [j \in Job |->
                IF \E s \in stores : taken[s] = j
                THEN [at |-> "load", op |-> o,
                      store |-> CHOOSE s \in stores : taken[s] = j,
                      woo |-> NoOp, rev |-> NoOp]
                ELSE job[j]]
  BY DEF Claimed
<1>2. ASSUME NEW s \in stores PROVE \E j \in Job : WorksOn(j, o, s)'
  <2>1. PICK j \in Job : j = taken[s]
    BY <1>1
  <2>2. (CHOOSE t \in stores : taken[t] = j) = s
    BY <1>1, <2>1
  <2>3. job'[j] = [at |-> "load", op |-> o, store |-> s, woo |-> NoOp, rev |-> NoOp]
    BY <1>1, <2>1, <2>2
  <2> QED BY <2>3 DEF WorksOn, Unoccupied
<1>3. \A p \in Op, s \in Store : p # o \/ s \notin stores => order'[p][s] = order[p][s]
  BY DEF Claimed, OrdersIInv, OrdersTypeOK
<1>4. \A j \in Job : job[j] # Unoccupied => job'[j] = job[j]
  BY <1>1
<1>5. \A p \in Op, s \in Store : SyncingThen(p, s) =>
        Syncing(p, s) \/ \E j \in Job : WorksOn(j, p, s)'
  BY <1>2, <1>3 DEF SyncingThen, Syncing, Stores
<1> QED BY <1>4, <1>5 DEF OrdersStayHeld, WorksOn

LEMMA StaffHeld ==
  ASSUME OrdersIInv, NEW o \in Op, StaffStep(o)
  PROVE  OrdersStayHeld /\ RequestsStayHeld
<1>1. CASE \E stores \in SUBSET Store : Retry(o, stores)
  BY <1>1, ClaimedHeld, RequestsAloneHeld DEF Retry
<1>2. CASE Complete(o)
  <2>1. ToClose(o) \subseteq Store
    BY DEF ToClose, Stores
  <2> QED BY <1>2, <2>1, ClaimedHeld, RequestsAloneHeld DEF Complete
<1>3. CASE Reopen(o)
  BY <1>3, OrdersAloneHeld, RequestsAloneHeld DEF Reopen, OrdersIInv
<1>4. ASSUME UNCHANGED <<job, handler>>,
             \A p \in Op, s \in Store : order'[p][s].sync = "SYNCING" => order'[p][s] = order[p][s],
             \A e \in Event : delivery'[e].status = "PENDING" => delivery[e].status = "PENDING"
      PROVE  OrdersStayHeld /\ RequestsStayHeld
  BY <1>4 DEF OrdersStayHeld, RequestsStayHeld, WorksOn, Handles, SyncingThen, Syncing, Stores
<1>5. CASE \E stores \in Baskets[o] : CreateOperation(o, stores)
  <2>1. \A p \in Op, s \in Store : order'[p][s] \in {order[p][s], NewOrder, NoOrder}
    BY <1>5 DEF CreateOperation, OrdersIInv, OrdersTypeOK
  <2> QED BY <1>4, <1>5, <2>1 DEF CreateOperation, NewOrder, NoOrder
<1>6. CASE \E stores \in Baskets[o] : UpdatePending(o, stores)
  <2>1. \A p \in Op, s \in Store : order'[p][s] \in {order[p][s], NewOrder, GoneOrder}
    BY <1>6 DEF UpdatePending, OrdersIInv, OrdersTypeOK
  <2>2. ASSUME NEW e \in Event, delivery'[e].status = "PENDING"
        PROVE  delivery[e].status = "PENDING"
    <3>1. delivery[e] \in Delivery
      BY DEF OrdersIInv, OrdersTypeOK
    <3>2. delivery'[e] = delivery[e] \/ delivery'[e] = [delivery[e] EXCEPT !.op = NoOp]
      BY <1>6 DEF UpdatePending
    <3> QED BY <2>2, <3>1, <3>2 DEF Delivery
  <2> QED BY <1>4, <1>6, <2>1, <2>2 DEF UpdatePending, NewOrder, GoneOrder, NoOrder
<1>7. CASE DeleteOperation(o)
  <2>1. \A p \in Op, s \in Store : order'[p][s] \in {order[p][s], GoneOrder}
    BY <1>7 DEF DeleteOperation, OrdersIInv, OrdersTypeOK
  <2> QED BY <1>4, <1>7, <2>1 DEF DeleteOperation, GoneOrder, NoOrder
<1> QED BY <1>1, <1>2, <1>3, <1>5, <1>6, <1>7 DEF StaffStep

LEMMA HandlerHeld ==
  ASSUME OrdersIInv, NEW h \in Handler, HandlerStep(h)
  PROVE  RequestsStayHeld
<1>1. PICK e : e = handler[h].event
  OBVIOUS
<1>2. handler[h].at # "idle"
  BY DEF HandlerStep, ImportRead, ImportStale, ImportUpdates, ImportCreates, ImportCollides,
         ImportFails
<1>3. e \in Event /\ handler[h] \in BusyHandler
  BY <1>1, <1>2, EventFacts, HandlerFacts DEF OrdersIInv
<1>4. CASE ImportRead(h)
  <2>1. PICK seen : handler' = [handler EXCEPT ![h].at = "write", ![h].seen = seen]
    BY <1>4 DEF ImportRead
  <2>2. handler'[h].at = "write" /\ handler'[h].event = e
        /\ \A k \in Handler : k # h => handler'[k] = handler[k]
    BY <1>1, <1>3, <2>1 DEF OrdersIInv, OrdersTypeOK, BusyHandler
  <2>3. \A k \in Handler, d \in Event : Handles(k, d) => Handles(k, d)'
    BY <1>1, <2>2 DEF Handles, Unoccupied
  <2>4. UNCHANGED delivery
    BY <1>4 DEF ImportRead
  <2> QED BY <2>3, <2>4 DEF RequestsStayHeld
<1>5. CASE ImportCollides(h)
  <2>1. handler'[h].at = "read" /\ handler'[h].event = e
        /\ \A k \in Handler : k # h => handler'[k] = handler[k]
    BY <1>1, <1>3, <1>5 DEF ImportCollides, OrdersIInv, OrdersTypeOK, BusyHandler
  <2>2. \A k \in Handler, d \in Event : Handles(k, d) => Handles(k, d)'
    BY <1>1, <2>1 DEF Handles, Unoccupied
  <2>3. UNCHANGED delivery
    BY <1>5 DEF ImportCollides
  <2> QED BY <2>2, <2>3 DEF RequestsStayHeld
<1>6. ASSUME NEW o \in Op, Processed(e, o), Leave(h) PROVE RequestsStayHeld
  <2>1. [status |-> "PROCESSED", op |-> o] \in Delivery
    BY DEF Delivery
  <2>2. HandlerIs(h, Unoccupied)
    BY <1>6, HandlerLeaves DEF OrdersIInv
  <2> QED BY <1>1, <1>3, <1>6, <2>1, <2>2, RequestEndsHeld DEF Processed
<1>7. CASE ImportStale(h)
  BY <1>1, <1>6, <1>7 DEF ImportStale, Live
<1>8. CASE ImportUpdates(h)
  BY <1>1, <1>6, <1>8 DEF ImportUpdates, Live
<1>9. CASE ImportCreates(h)
  BY <1>1, <1>6, <1>9 DEF ImportCreates
<1>10. CASE ImportFails(h)
  <2>1. delivery' = [delivery EXCEPT ![e].status =
                        IF delivery[e].status = "PROCESSED" THEN "PROCESSED" ELSE "ERROR"]
    BY <1>1, <1>3, <1>10 DEF ImportFails, OrdersIInv, OrdersTypeOK
  <2>2. delivery[e] \in Delivery
    BY <1>3 DEF OrdersIInv, OrdersTypeOK
  <2>3. PICK status \in {"PROCESSED", "ERROR"} : delivery' = [delivery EXCEPT ![e].status = status]
    BY <2>1
  <2>4. PICK new : new = [delivery[e] EXCEPT !.status = status]
    OBVIOUS
  <2>5. new \in Delivery /\ new.status # "PENDING"
    BY <2>2, <2>4 DEF Delivery
  <2>6. delivery' = [delivery EXCEPT ![e] = new]
    BY <1>3, <2>3, <2>4 DEF OrdersIInv, OrdersTypeOK
  <2>7. HandlerIs(h, Unoccupied)
    BY <1>10, HandlerLeaves DEF ImportFails, OrdersIInv
  <2> QED BY <1>1, <1>3, <2>5, <2>6, <2>7, RequestEndsHeld
<1> QED BY <1>4, <1>5, <1>7, <1>8, <1>9, <1>10 DEF HandlerStep

(* What an import writes is not in progress.                               *)
LEMMA HandlerOrdersHeld ==
  ASSUME OrdersIInv, NEW h \in Handler, HandlerStep(h)
  PROVE  OrdersStayHeld
<1>1. CASE ImportRead(h) \/ ImportStale(h) \/ ImportCollides(h) \/ ImportFails(h)
  BY <1>1, OrdersAloneHeld
     DEF ImportRead, ImportStale, ImportCollides, ImportFails, OrdersIInv
<1>2. ASSUME UNCHANGED job, NEW o \in Op, NEW s \in Store, NEW base \in Order, NEW e,
             order' = [order EXCEPT ![o][s] = ImportedOrder(e, base)]
      PROVE  OrdersStayHeld
  <2>1. order'[o][s] = ImportedOrder(e, base)
        /\ \A p \in Op, t \in Store : p # o \/ t # s => order'[p][t] = order[p][t]
    BY <1>2 DEF OrdersIInv, OrdersTypeOK
  <2>2. ImportedOrder(e, base).sync = "SYNCED"
    BY DEF ImportedOrder, Order
  <2> QED BY <1>2, <2>1, <2>2 DEF OrdersStayHeld, WorksOn, SyncingThen, Syncing, Stores
<1>3. CASE ImportUpdates(h)
  <2>1. PICK e, o : e = handler[h].event /\ o = handler[h].seen.op
    OBVIOUS
  <2>2. e.store \in Store /\ o \in Op
    BY <1>3, <2>1, EventFacts DEF ImportUpdates, Live
  <2>3. /\ order[o][e.store] \in Order
        /\ order' = [order EXCEPT ![o][e.store] = ImportedOrder(e, order[o][e.store])]
    BY <1>3, <2>1, <2>2 DEF ImportUpdates, OrdersIInv, OrdersTypeOK
  <2>4. UNCHANGED job
    BY <1>3 DEF ImportUpdates
  <2> QED BY <1>2, <2>2, <2>3, <2>4
<1>4. CASE ImportCreates(h)
  <2>1. PICK e : e = handler[h].event
    OBVIOUS
  <2>2. e.store \in Store
    BY <1>4, <2>1, EventFacts DEF ImportCreates
  <2>3. PICK o \in Op : order' = [order EXCEPT ![o][e.store] = ImportedOrder(e, NewOrder)]
    BY <1>4, <2>1 DEF ImportCreates
  <2> QED BY <1>2, <1>4, <2>2, <2>3, RowTypes DEF ImportCreates
<1> QED BY <1>1, <1>3, <1>4 DEF HandlerStep

LEMMA JobHeld ==
  ASSUME OrdersIInv, NEW j \in Job, JobStep(j)
  PROVE  OrdersStayHeld /\ RequestsStayHeld
<1>1. RequestsStayHeld
  BY RequestsAloneHeld
     DEF JobStep, LoadOrder, SearchFinds, SearchFindsNothing, StoreCreates, SnapshotRead,
         StoreUpdates, Confirm, ConfirmFails, OutboundFails, AnswerLost, CallTimesOut
<1>2. Busy(j)
  BY DEF JobStep, LoadOrder, SearchFinds, SearchFindsNothing, StoreCreates, SnapshotRead,
         StoreUpdates, Confirm, ConfirmFails, OutboundFails, AnswerLost, CallTimesOut, Busy
<1>3. job[j] \in BusyJob
  BY <1>2, JobOf
<1>4. ASSUME UNCHANGED order, NEW at \in {"load", "search", "create", "get", "put", "confirm"},
             NEW woo, NEW rev, Moved(j, at, woo, rev)
      PROVE  OrdersStayHeld
  <2>1. /\ job'[j].at = at /\ job'[j].op = job[j].op /\ job'[j].store = job[j].store
        /\ \A k \in Job : k # j => job'[k] = job[k]
    BY <1>3, <1>4 DEF Moved, OrdersIInv, OrdersTypeOK, BusyJob
  <2> QED BY <1>4, <2>1 DEF OrdersStayHeld, SyncingThen, Syncing, Stores, WorksOn, Unoccupied
<1>5. CASE LoadOrder(j)
  <2>1. CASE Syncing(job[j].op, job[j].store)
    <3>1. PICK woo, at : /\ job' = [job EXCEPT ![j].woo = woo, ![j].at = at]
                         /\ at \in {"search", "get"}
      BY <1>5, <2>1 DEF LoadOrder
    <3> QED BY <1>1, <1>4, <1>5, <3>1 DEF LoadOrder, Moved
  <2>2. CASE ~Syncing(job[j].op, job[j].store)
    <3>1. JobEnds(j)
      BY <1>5, <2>2, JobStops DEF LoadOrder, OrdersIInv
    <3> QED BY <1>1, <1>2, <1>5, <2>2, <3>1, JobEndsHeld DEF LoadOrder
  <2> QED BY <2>1, <2>2
<1>6. CASE SearchFinds(j) \/ SearchFindsNothing(j) \/ SnapshotRead(j) \/ StoreCreates(j)
  <2>1. UNCHANGED order
    BY <1>6 DEF SearchFinds, SearchFindsNothing, SnapshotRead, StoreCreates
  <2>2. CASE SearchFinds(j)
    <3>1. PICK woo, rev : job' = [job EXCEPT ![j].at = "confirm", ![j].woo = woo, ![j].rev = rev]
      BY <2>2 DEF SearchFinds
    <3> QED BY <1>1, <1>4, <2>1, <3>1 DEF Moved
  <2>3. CASE SearchFindsNothing(j) \/ SnapshotRead(j)
    BY <1>1, <1>4, <2>1, <2>3 DEF SearchFindsNothing, SnapshotRead, JobAt, Moved
  <2>4. CASE StoreCreates(j)
    <3>1. PICK woo, rev : job' = [job EXCEPT ![j].at = "confirm", ![j].woo = woo, ![j].rev = rev]
      BY <2>4 DEF StoreCreates
    <3> QED BY <1>1, <1>4, <2>1, <3>1 DEF Moved
  <2> QED BY <1>6, <2>2, <2>3, <2>4
<1>7. CASE StoreUpdates(j)
  <2>1. PICK rev : job' = [job EXCEPT ![j].at = "confirm", ![j].rev = rev]
    BY <1>7 DEF StoreUpdates
  <2> QED BY <1>1, <1>4, <1>7, <2>1 DEF StoreUpdates, Moved
<1>8. CASE Confirm(j)
  <2>1. JobEnds(j) /\ MarkSynced(j)
    BY <1>8, JobStops DEF Confirm, OrdersIInv
  <2> QED BY <1>1, <1>2, <2>1, JobEndsHeld
<1>9. CASE ConfirmFails(j) \/ OutboundFails(j) \/ AnswerLost(j) \/ CallTimesOut(j)
  <2>1. JobEnds(j) /\ MarkError(j)
    BY <1>9, JobStops DEF ConfirmFails, OutboundFails, AnswerLost, CallTimesOut, OrdersIInv
  <2> QED BY <1>1, <1>2, <2>1, JobEndsHeld
<1> QED BY <1>1, <1>5, <1>6, <1>7, <1>8, <1>9 DEF JobStep

LEMMA ClaimsStayHeld ==
  ASSUME OrdersIInv, ClaimsAreHeld, [OrdersNext]_orderVars
  PROVE  ClaimsAreHeld'
<1>1. mishaps \in Nat
  BY ShelfFacts DEF OrdersIInv, OrdersTypeOK
<1>2. CASE OrdersStayHeld /\ RequestsStayHeld /\ mishaps = 0
  BY <1>2, StillHeld
<1>3. CASE mishaps' = mishaps /\ mishaps # 0
  BY <1>3 DEF ClaimsAreHeld
<1>4. CASE mishaps' = mishaps + 1
  BY <1>1, <1>4 DEF ClaimsAreHeld
<1>5. ASSUME NEW o \in Op, StaffStep(o) PROVE ClaimsAreHeld'
  <2>1. mishaps' = mishaps
    BY <1>5 DEF StaffStep, CreateOperation, UpdatePending, Retry, Complete, Reopen,
                DeleteOperation
  <2> QED BY <1>2, <1>3, <1>5, <2>1, StaffHeld
<1>6. CASE StoreStep
  <2>1. UNCHANGED <<order, job, delivery, handler, mishaps>>
    BY <1>6 DEF StoreStep, ShopSells, ShopChanges, LateCallArrives
  <2> QED BY <1>2, <1>3, <2>1, OrdersAloneHeld, RequestsAloneHeld DEF OrdersIInv
<1>7. ASSUME NEW h \in Handler, NEW e \in Event, ClaimDelivery(h, e) PROVE ClaimsAreHeld'
  <2>1. UNCHANGED <<order, job, mishaps>>
    BY <1>7 DEF ClaimDelivery
  <2>2. RequestsStayHeld
    <3>1. /\ \A f \in Event : f # e => delivery'[f] = delivery[f]
          /\ \A k \in Handler : handler[k] # Unoccupied => handler'[k] = handler[k]
      BY <1>7 DEF ClaimDelivery, OrdersIInv, OrdersTypeOK
    <3>2. handler'[h] = [at |-> "read", event |-> e, again |-> FALSE, seen |-> NothingSeen]
      BY <1>7 DEF ClaimDelivery, OrdersIInv, OrdersTypeOK
    <3>3. handler'[h] # Unoccupied /\ handler'[h].event = e
      BY <3>2 DEF Unoccupied
    <3> QED BY <3>1, <3>3 DEF RequestsStayHeld, Handles
  <2> QED BY <1>2, <1>3, <2>1, <2>2, OrdersAloneHeld DEF OrdersIInv
<1>8. ASSUME NEW h \in Handler, HandlerStep(h) PROVE ClaimsAreHeld'
  <2>1. mishaps' = mishaps \/ mishaps' = mishaps + 1
    BY <1>8 DEF HandlerStep, ImportRead, ImportStale, ImportUpdates, ImportCreates,
                ImportCollides, ImportFails
  <2> QED BY <1>2, <1>3, <1>4, <1>8, <2>1, HandlerHeld, HandlerOrdersHeld
<1>9. ASSUME NEW j \in Job, JobStep(j) PROVE ClaimsAreHeld'
  <2>1. mishaps' = mishaps \/ mishaps' = mishaps + 1
    BY <1>9 DEF JobStep, LoadOrder, SearchFinds, SearchFindsNothing, StoreCreates,
                SnapshotRead, StoreUpdates, Confirm, ConfirmFails, OutboundFails, AnswerLost,
                CallTimesOut
  <2> QED BY <1>2, <1>3, <1>4, <1>9, <2>1, JobHeld
<1>10. CASE WriteFails \/ OrdersRestart
  BY <1>4, <1>10 DEF WriteFails, OrdersRestart
<1>11. CASE UNCHANGED orderVars
  <2>1. UNCHANGED <<order, job, delivery, handler, mishaps>>
    BY <1>11 DEF orderVars
  <2> QED BY <1>2, <1>3, <2>1, OrdersAloneHeld, RequestsAloneHeld DEF OrdersIInv
<1> QED BY <1>5, <1>6, <1>7, <1>8, <1>9, <1>10, <1>11 DEF OrdersNext

(* As long as the process lives and no write fails, a SYNCING order has    *)
(* its job and a PENDING delivery its request, so that neither is stuck.   *)
THEOREM NothingIsStuck == OrdersSpec => []ClaimsAreHeld
<1>1. OrdersInit => ClaimsAreHeld
  BY DEF OrdersInit, ClaimsAreHeld, Syncing, NoOrder
<1> QED BY <1>1, ClaimsStayHeld, OrdersStart, OrdersKeep, PTL DEF OrdersSpec

-----------------------------------------------------------------------------
(* The links between both sides                                            *)

Owned(s, w) == Crm(shop[s][w].key)

(* The order w of store s may be taken for that of operation o (NoOp: for  *)
(* nobody's): whoever else it was created for is linked already, and as    *)
(* long as the store is fresh it is that of o if it is anybody's.          *)
Belongs(o, s, w) ==
  /\ Owned(s, w) /\ shop[s][w].key # o => order[shop[s][w].key][s].woo # NoOp
  /\ Fresh(s) /\ (Crm(o) \/ Owned(s, w)) => shop[s][w].key = o

(* So are the links, and what those who are about to link have in hand.    *)
LinkHolds(o, s) == order[o][s].woo # NoOp => Belongs(o, s, order[o][s].woo)
JobLink(j) ==
  job[j].at \in {"get", "put", "confirm"} => Belongs(job[j].op, job[j].store, job[j].woo)
LateLink(c) ==
  /\ c.call = "put" => Belongs(c.op, c.store, c.woo)
  /\ Crm(c.op) => c.store \in Stores(c.op)
ImportLink(h) ==
  handler[h].at = "write" =>
      Belongs(handler[h].seen.op, handler[h].event.store, handler[h].event.woo)
(* What is of an operation of the CRM was created by a call for one of its *)
(* orders.                                                                 *)
OwnHolds(s, w) ==
  Owned(s, w) =>
      s \in Stores(shop[s][w].key) /\ (Fresh(s) => shop[s][w].born = "call")
Links ==
  /\ \A o \in Op, s \in Store : LinkHolds(o, s)
  /\ \A j \in Job : JobLink(j)
  /\ \A c \in late : LateLink(c)
  /\ \A h \in Handler : ImportLink(h)
  /\ \A s \in Store, w \in Woo : OwnHolds(s, w)

(* No step makes an operation one of the CRM that was none, unlinks one,   *)
(* or gives an order of a store to another, except to one of the store.    *)
KeyKept(s, w) ==
  /\ shop'[s][w].born = shop[s][w].born
  /\ \/ shop'[s][w].key = shop[s][w].key
     \/ ~Owned(s, w)' /\ (Fresh(s) => ~Owned(s, w))
LinksKept ==
  /\ \A p \in Op : Used(p) /\ Crm(p)' => Crm(p)
  /\ \A s \in Store : Fresh(s)' => Fresh(s)
  /\ \A p \in Op, s \in Store : Crm(p)' /\ ~Unsent(p) =>
        /\ order[p][s].woo # NoOp => order'[p][s].woo # NoOp
        /\ order[p][s].state = "LIVE" => order'[p][s].state = "LIVE"
  /\ \A s \in Store, w \in Woo : Exists(s, w) => KeyKept(s, w)

LEMMA KeyFacts ==
  ASSUME OrdersIInv, NEW s \in Store, NEW w \in Woo
  PROVE  /\ Owned(s, w) => /\ shop[s][w].key \in Op /\ Used(shop[s][w].key)
                           /\ ~Unsent(shop[s][w].key)
         /\ ~Exists(s, w) => shop[s][w] = Vacant /\ ~Owned(s, w)
<1>1. ASSUME Owned(s, w)
      PROVE  shop[s][w].key \in Op /\ Used(shop[s][w].key) /\ ~Unsent(shop[s][w].key)
  BY <1>1 DEF Owned, Crm, Live, Used, Unsent
<1>2. ~Exists(s, w) => shop[s][w] = Vacant
  BY DEF OrdersIInv, Rows, VacantOrNot
<1>3. Vacant.key \notin Op
  BY NumberFacts DEF Vacant
<1> QED BY <1>1, <1>2, <1>3 DEF Owned, Crm, Live

LEMMA BelongsKept ==
  ASSUME OrdersIInv, LinksKept, NEW o \in Op \cup {NoOp}, o # NoOp => Used(o),
         NEW s \in Store, NEW w \in Woo, Exists(s, w), Belongs(o, s, w)
  PROVE  Belongs(o, s, w)'
<1>1. KeyKept(s, w)
  BY DEF LinksKept
<1>2. Crm(o)' => Crm(o)
  BY NumberFacts DEF LinksKept, Crm, Live
<1>3. Fresh(s)' => Fresh(s)
  BY DEF LinksKept
<1>4. CASE shop'[s][w].key = shop[s][w].key
  <2>1. PICK p : p = shop[s][w].key
    OBVIOUS
  <2>2. Owned(s, w) => p \in Op /\ Used(p) /\ ~Unsent(p)
    BY <2>1, KeyFacts
  <2>3. Owned(s, w)' => p \in Op
    BY <1>4, <2>1 DEF Owned, Crm, Live
  <2>4. Owned(s, w)' => p \in Op /\ ~Unsent(p) /\ Crm(p)'
    BY <1>4, <2>1, <2>3 DEF Owned, Unsent, Crm, Live
  <2>5. Owned(s, w)' => Owned(s, w)
    <3>1. p \in Op /\ ~Unsent(p) => Used(p)
      BY SentIsUsed
    <3> QED BY <2>1, <2>4, <3>1 DEF Owned, LinksKept
  <2>6. Owned(s, w)' /\ p # o => order'[p][s].woo # NoOp
    BY <2>1, <2>4, <2>5 DEF LinksKept, Belongs
  <2> QED BY <1>2, <1>3, <1>4, <2>1, <2>5, <2>6 DEF Belongs
<1>5. CASE ~Owned(s, w)' /\ (Fresh(s) => ~Owned(s, w))
  <2>1. Fresh(s) => ~Crm(o)
    BY <1>5 DEF Belongs, Owned
  <2> QED BY <1>2, <1>3, <1>5, <2>1 DEF Belongs
<1> QED BY <1>1, <1>4, <1>5 DEF KeyKept

(* Who an import read, and whose order of a store it is about.             *)
LEMMA ImportOf ==
  ASSUME OrdersIInv, NEW h \in Handler, handler[h].at = "write",
         NEW o, o = handler[h].seen.op, NEW s, s = handler[h].event.store,
         NEW w, w = handler[h].event.woo
  PROVE  /\ o \in Op \cup {NoOp} /\ (o # NoOp => Used(o))
         /\ s \in Store /\ w \in Woo /\ Exists(s, w)
<1>1. handler[h] \in BusyHandler /\ ImportIsTrue(h)
  BY HandlerFacts DEF OrdersIInv, Work
<1>2. o \in Op \cup {NoOp}
  BY <1>1 DEF BusyHandler, Seen
<1> QED BY <1>1, <1>2, EventFacts DEF ImportIsTrue

LEMMA OwnKept ==
  ASSUME OrdersIInv, Links, LinksKept, NEW s \in Store, NEW w \in Woo,
         ~Exists(s, w) => shop'[s][w] = shop[s][w]
  PROVE  OwnHolds(s, w)'
<1> SUFFICES ASSUME Owned(s, w)' PROVE OwnHolds(s, w)'
  BY DEF OwnHolds
<1>1. PICK p : p = shop'[s][w].key
  OBVIOUS
<1>2. p \in Op /\ Crm(p)'
  BY <1>1 DEF Owned, Crm, Live
<1>3. shop'[s][w].key = shop[s][w].key /\ shop'[s][w].born = shop[s][w].born
  BY DEF LinksKept, KeyKept
<1>4. ~Unsent(p) /\ Used(p)
  BY <1>1, <1>2, <1>3, SentIsUsed DEF Unsent
<1>5. Crm(p) /\ Owned(s, w)
  BY <1>1, <1>2, <1>3, <1>4 DEF LinksKept, Owned
<1>6. s \in Stores(p) /\ (Fresh(s) => shop[s][w].born = "call")
  BY <1>1, <1>3, <1>5 DEF Links, OwnHolds
<1>7. order'[p][s].state = "LIVE"
  BY <1>2, <1>4, <1>6 DEF LinksKept, Stores
<1>8. Fresh(s)' => Fresh(s)
  BY DEF LinksKept
<1> QED BY <1>1, <1>3, <1>6, <1>7, <1>8 DEF OwnHolds, Stores

(* What stays of the links in a step, ...                                  *)
LEMMA LinkKept ==
  ASSUME OrdersIInv, Links, LinksKept, NEW o \in Op, NEW s \in Store,
         order'[o][s].woo = order[o][s].woo \/ order'[o][s].woo = NoOp
  PROVE  LinkHolds(o, s)'
<1> SUFFICES ASSUME order'[o][s].woo # NoOp PROVE LinkHolds(o, s)'
  BY DEF LinkHolds
<1>1. PICK w : w = order[o][s].woo
  OBVIOUS
<1>2. w \in Woo /\ Exists(s, w) /\ Used(o) /\ order'[o][s].woo = w
  BY <1>1 DEF OrdersIInv, OrdersTypeOK, Order, Rows, OrderIsTrue, RowIsTrue, NoOrder, Used
<1>3. Belongs(o, s, w)
  BY <1>1, <1>2 DEF Links, LinkHolds
<1>4. Belongs(o, s, w)'
  BY <1>2, <1>3, BelongsKept
<1> QED BY <1>2, <1>4 DEF LinkHolds

LEMMA JobLinkKept ==
  ASSUME OrdersIInv, Links, LinksKept, NEW j \in Job, job'[j] = job[j]
  PROVE  JobLink(j)'
<1> SUFFICES ASSUME job[j].at \in {"get", "put", "confirm"} PROVE JobLink(j)'
  BY DEF JobLink
<1>1. PICK o, s, w : o = job[j].op /\ s = job[j].store /\ w = job[j].woo
  OBVIOUS
<1>2. o \in Op /\ s \in Store /\ w \in Woo /\ Exists(s, w) /\ Used(o)
  BY <1>1, JobOf, SentIsUsed DEF Busy, JobIsTrue, Unsent
<1>3. Belongs(o, s, w)
  BY <1>1 DEF Links, JobLink
<1>4. Belongs(o, s, w)'
  BY <1>2, <1>3, BelongsKept
<1> QED BY <1>1, <1>4 DEF JobLink

LEMMA LateLinkKept ==
  ASSUME OrdersIInv, Links, LinksKept, NEW c \in late
  PROVE  LateLink(c)'
<1>1. PICK o, s, w : o = c.op /\ s = c.store /\ w = c.woo
  OBVIOUS
<1>2. c \in LateCall /\ LateIsTrue(c) /\ LateLink(c)
  BY DEF OrdersIInv, OrdersTypeOK, Work, Links
<1>3. o \in Op /\ s \in Store /\ ~Unsent(o) /\ Used(o)
  BY <1>1, <1>2, SentIsUsed DEF LateCall, Unsent
<1>4. c.call = "put" => Belongs(o, s, w)'
  <2>1. c.call = "put" => w \in Woo /\ Exists(s, w) /\ Belongs(o, s, w)
    BY <1>1, <1>2 DEF LateIsTrue, LateLink
  <2> QED BY <1>3, <2>1, BelongsKept
<1>5. Crm(o)' => order'[o][s].state = "LIVE"
  <2>1. Crm(o)' => s \in Stores(o)
    BY <1>1, <1>2, <1>3 DEF LinksKept, LateLink
  <2> QED BY <1>3, <2>1 DEF LinksKept, Stores
<1> QED BY <1>1, <1>3, <1>4, <1>5 DEF LateLink, Stores

LEMMA ImportLinkKept ==
  ASSUME OrdersIInv, Links, LinksKept, NEW h \in Handler, handler'[h] = handler[h]
  PROVE  ImportLink(h)'
<1> SUFFICES ASSUME handler[h].at = "write" PROVE ImportLink(h)'
  BY DEF ImportLink
<1>1. PICK o, s, w : /\ o = handler[h].seen.op /\ s = handler[h].event.store
                     /\ w = handler[h].event.woo
  OBVIOUS
<1>2. /\ o \in Op \cup {NoOp} /\ s \in Store /\ w \in Woo
      /\ o # NoOp => Used(o)
      /\ Exists(s, w)
  BY <1>1, ImportOf
<1>3. Belongs(o, s, w)
  BY <1>1 DEF Links, ImportLink
<1>4. Belongs(o, s, w)'
  BY <1>2, <1>3, BelongsKept
<1> QED BY <1>1, <1>4 DEF ImportLink

(* ... and what the step has to show of what it changes.                   *)
LEMMA LinksStay ==
  ASSUME OrdersIInv, Links, LinksKept,
         \A o \in Op, s \in Store :
            \/ order'[o][s].woo = order[o][s].woo \/ order'[o][s].woo = NoOp
            \/ LinkHolds(o, s)',
         \A j \in Job : job'[j] = job[j] \/ JobLink(j)',
         \A c \in late' : c \in late \/ LateLink(c)',
         \A h \in Handler : handler'[h] = handler[h] \/ ImportLink(h)',
         \A s \in Store, w \in Woo :
            Exists(s, w) \/ shop'[s][w] = shop[s][w] \/ OwnHolds(s, w)'
  PROVE  Links'
<1>1. \A o \in Op, s \in Store : LinkHolds(o, s)'
  BY LinkKept
<1>2. \A j \in Job : JobLink(j)'
  BY JobLinkKept
<1>3. \A c \in late' : LateLink(c)'
  BY LateLinkKept
<1>4. \A h \in Handler : ImportLink(h)'
  BY ImportLinkKept
<1>5. \A s \in Store, w \in Woo : OwnHolds(s, w)'
  BY OwnKept
<1> QED BY <1>1, <1>2, <1>3, <1>4, <1>5 DEF Links

(* Who leaves the stores and the operations alone, and only marks orders.  *)
Marked ==
  \A p \in Op, s \in Store :
      /\ order[p][s].woo # NoOp => order'[p][s].woo # NoOp
      /\ order[p][s].state = "LIVE" => order'[p][s].state = "LIVE"

LEMMA QuietLinks ==
  ASSUME OrdersIInv, UNCHANGED <<operation, shop>>, Marked
  PROVE  LinksKept
<1>1. \A p \in Op : Crm(p)' => Crm(p)
  BY DEF Crm, Live
<1>2. \A s \in Store : Fresh(s)' => Fresh(s)
  BY DEF Fresh
<1> QED BY <1>1, <1>2 DEF LinksKept, KeyKept, Marked

(* Who changes an order of a store.                                        *)
LEMMA ShopLinks ==
  ASSUME OrdersIInv, UNCHANGED operation, Marked, NEW s \in Store, NEW w \in Woo,
         NEW key, NEW born, ShopIs(s, w, key, born),
         Exists(s, w) =>
            /\ born = shop[s][w].born
            /\ key = shop[s][w].key \/ (~Crm(key) /\ (Fresh(s) => ~Owned(s, w))),
         ~Exists(s, w) /\ Crm(key) => s \in Stores(key) /\ born \in {"call", "late"}
  PROVE  /\ LinksKept
         /\ \A t \in Store, v \in Woo :
                Exists(t, v) \/ shop'[t][v] = shop[t][v] \/ OwnHolds(t, v)'
<1>1. \A p : Crm(p)' <=> Crm(p)
  BY DEF Crm, Live
<1>2. \A t \in Store, v \in Woo : t # s \/ v # w => shop'[t][v] = shop[t][v]
  BY DEF ShopIs
<1>3. shop'[s][w].key = key /\ shop'[s][w].born = born
  BY DEF ShopIs
<1>4. Owned(s, w)' <=> Crm(key)
  BY <1>3 DEF Owned, Crm, Live
<1>5. \A t \in Store : Fresh(t)' => Fresh(t)
  <2>1. \A t \in Store, v \in Woo : shop[t][v].born = "late" => shop'[t][v].born = "late"
    <3>1. ~Exists(s, w) => shop[s][w].born = "nobody"
      BY KeyFacts DEF Vacant
    <3> QED BY <1>2, <1>3, <3>1
  <2> QED BY <2>1 DEF Fresh
<1>6. \A t \in Store, v \in Woo : Exists(t, v) => KeyKept(t, v)
  BY <1>2, <1>3, <1>4 DEF KeyKept
<1>7. LinksKept
  BY <1>1, <1>5, <1>6 DEF LinksKept, Marked
<1>8. ~Exists(s, w) => OwnHolds(s, w)'
  <2> SUFFICES ASSUME ~Exists(s, w), Crm(key) PROVE OwnHolds(s, w)'
    BY <1>4 DEF OwnHolds
  <2>1. key \in Op /\ s \in Stores(key) /\ born \in {"call", "late"}
    BY DEF Crm, Live
  <2>2. order'[key][s].state = "LIVE"
    BY <2>1 DEF Marked, Stores
  <2>3. born = "late" => ~Fresh(s)'
    BY <1>3 DEF Fresh
  <2> QED BY <1>3, <2>1, <2>2, <2>3 DEF OwnHolds, Stores
<1> QED BY <1>2, <1>7, <1>8

(* The steps of staff claim, mark and forget orders of their operation.    *)
LEMMA StaffLinks ==
  ASSUME OrdersIInv, Links, NEW o \in Op, StaffStep(o)
  PROVE  Links'
<1>1. UNCHANGED <<shop, handler, late>>
  BY DEF StaffStep, CreateOperation, UpdatePending, Retry, Complete, Reopen, DeleteOperation
<1>2. RowIsTrue(o) /\ operation[o] \in Operation /\ \A s \in Store : order[o][s] \in Order
  BY DEF OrdersIInv, Rows, OrdersTypeOK
<1>3. \A p \in Op : p # o => operation'[p] = operation[p] /\ order'[p] = order[p]
  BY DEF OrdersIInv, OrdersTypeOK, StaffStep, CreateOperation, UpdatePending, Retry, Complete,
         Reopen, DeleteOperation, Claimed
<1>4. \A j \in Job : job'[j] = job[j] \/ job'[j].at = "load"
  BY DEF OrdersIInv, OrdersTypeOK, StaffStep, CreateOperation, UpdatePending, Retry, Complete,
         Reopen, DeleteOperation, Claimed
<1>5. ASSUME NEW stores, stores \subseteq Store, Claimed(o, stores), NEW s \in Store
      PROVE  order'[o][s].woo = order[o][s].woo /\ order'[o][s].state = order[o][s].state
  <2>1. order'[o][s] = IF s \in stores THEN [order[o][s] EXCEPT !.sync = "SYNCING"]
                       ELSE order[o][s]
    BY <1>5 DEF OrdersIInv, OrdersTypeOK, Claimed
  <2> QED BY <1>2, <2>1 DEF Order
<1>6. ASSUME Used(o) /\ Crm(o)' => Crm(o),
             \A s \in Store : order'[o][s].woo = order[o][s].woo \/ order'[o][s].woo = NoOp,
             Crm(o)' /\ ~Unsent(o) => \A s \in Store :
                order'[o][s].woo = order[o][s].woo /\ order'[o][s].state = order[o][s].state
      PROVE  Links'
  <2>1. \A p \in Op : Used(p) /\ Crm(p)' => Crm(p)
    BY <1>3, <1>6 DEF Crm, Live
  <2>2. LinksKept
    BY <1>1, <1>3, <1>6, <2>1 DEF LinksKept, KeyKept, Fresh
  <2>3. \A p \in Op, s \in Store : order'[p][s].woo = order[p][s].woo \/ order'[p][s].woo = NoOp
    BY <1>3, <1>6
  <2> QED BY <1>1, <1>4, <2>2, <2>3, LinksStay DEF JobLink
<1>7. CASE \E stores \in Baskets[o] : CreateOperation(o, stores)
  <2>1. ~Used(o) /\ Unsent(o)
    BY <1>2, <1>7 DEF CreateOperation, NextOp, RowIsTrue, Used, Unused
  <2>2. \A s \in Store : order'[o][s].woo = NoOp
    BY <1>7 DEF CreateOperation, OrdersIInv, OrdersTypeOK, NewOrder, NoOrder
  <2> QED BY <1>6, <2>1, <2>2
<1>8. CASE \E stores \in Baskets[o] : UpdatePending(o, stores)
  <2>1. operation' = operation /\ operation[o].status = "PENDING" /\ Live(o)
    BY <1>8 DEF UpdatePending
  <2>2. Crm(o) => Unsent(o)
    BY <1>2, <2>1 DEF RowIsTrue, Crm, Live
  <2>3. \A s \in Store : order'[o][s] \in {order[o][s], NewOrder, GoneOrder}
    BY <1>8 DEF UpdatePending, OrdersIInv, OrdersTypeOK
  <2>4. \A s \in Store : order'[o][s].woo = order[o][s].woo \/ order'[o][s].woo = NoOp
    BY <2>3 DEF NewOrder, GoneOrder, NoOrder
  <2> QED BY <1>6, <2>1, <2>2, <2>4 DEF Crm, Live
<1>9. CASE \E stores \in SUBSET Store : Retry(o, stores)
  <2>1. operation' = operation /\ \E stores \in SUBSET Store : Claimed(o, stores)
    BY <1>9 DEF Retry
  <2>2. \A s \in Store : order'[o][s].woo = order[o][s].woo
                         /\ order'[o][s].state = order[o][s].state
    BY <1>5, <2>1
  <2> QED BY <1>6, <2>1, <2>2 DEF Crm, Live
<1>10. CASE Complete(o)
  <2>1. Crm(o)' => Crm(o)
    BY <1>2, <1>10 DEF Complete, OrdersIInv, OrdersTypeOK, Crm, Live, Operation
  <2>2. \A s \in Store : order'[o][s].woo = order[o][s].woo
                         /\ order'[o][s].state = order[o][s].state
    BY <1>5, <1>10 DEF Complete, ToClose, Stores
  <2> QED BY <1>6, <2>1, <2>2
<1>11. CASE Reopen(o)
  <2>1. operation'[o] = [operation[o] EXCEPT !.status = "PENDING", !.reopened = TRUE]
    BY <1>11 DEF Reopen, OrdersIInv, OrdersTypeOK
  <2>2. Crm(o)' => Crm(o)
    BY <1>2, <2>1 DEF Crm, Live, Operation
  <2> QED BY <1>6, <1>11, <2>2 DEF Reopen
<1>12. CASE DeleteOperation(o)
  <2>1. ~Crm(o)'
    BY <1>12 DEF DeleteOperation, OrdersIInv, OrdersTypeOK, Crm, Live, Unused
  <2>2. \A s \in Store : order'[o][s].woo = NoOp
    BY <1>12 DEF DeleteOperation, OrdersIInv, OrdersTypeOK, GoneOrder, NoOrder
  <2> QED BY <1>6, <2>1, <2>2
<1> QED BY <1>7, <1>8, <1>9, <1>10, <1>11, <1>12 DEF StaffStep

(* The stores, and calls that come late.                                   *)
LEMMA StoreLinks ==
  ASSUME OrdersIInv, Links, StoreStep
  PROVE  Links'
<1>1. UNCHANGED <<operation, order, handler, job>> /\ late' \subseteq late
  BY DEF StoreStep, ShopSells, ShopChanges, LateCallArrives
<1>2. Marked
  BY <1>1 DEF Marked
<1>3. ASSUME LinksKept, \A t \in Store, v \in Woo :
                Exists(t, v) \/ shop'[t][v] = shop[t][v] \/ OwnHolds(t, v)'
      PROVE  Links'
  BY <1>1, <1>3, LinksStay
<1>4. ~Crm(NoOp)
  BY NumberFacts DEF Crm, Live
<1>5. ShopStatus \cup {"processing"} \subseteq WooStatus
  BY StatusFacts
<1>6. ASSUME NEW s \in Store, NEW w \in Woo, NEW st \in WooStatus, ShopSells(s, w, st)
      PROVE  Links'
  <2>1. ShopIs(s, w, NoOp, "store") /\ ~Exists(s, w)
    BY <1>6, Sold DEF ShopSells, OrdersIInv
  <2> QED BY <1>1, <1>2, <1>3, <1>4, <2>1, ShopLinks
<1>7. ASSUME NEW s \in Store, NEW w \in Woo, NEW st \in WooStatus, ShopChanges(s, w, st)
      PROVE  Links'
  <2>1. PICK key, born : key = shop[s][w].key /\ born = shop[s][w].born
    OBVIOUS
  <2>2. key \in Op \cup {NoOp}
    BY <2>1 DEF OrdersIInv, OrdersTypeOK, StoreOrder
  <2>3. ShopIs(s, w, key, born)
    BY <1>7, <2>1, <2>2, Revised DEF ShopChanges, OrdersIInv
  <2>4. Exists(s, w)
    BY <1>7 DEF ShopChanges
  <2> QED BY <1>1, <1>2, <1>3, <2>1, <2>3, <2>4, ShopLinks
<1>8. ASSUME NEW c \in late, LateCallArrives(c) PROVE Links'
  <2>1. PICK o, s : o = c.op /\ s = c.store
    OBVIOUS
  <2>2. /\ c \in LateCall /\ LateIsTrue(c) /\ LateLink(c)
        /\ o \in Op /\ s \in Store
    BY <2>1 DEF OrdersIInv, OrdersTypeOK, Work, Links, LateCall
  <2>3. CASE c.call = "create" /\ \E w \in Woo : NewStoreOrder(s, w, "completed", o, "late")
    <3>1. PICK w \in Woo : NewStoreOrder(s, w, "completed", o, "late")
      BY <2>3
    <3>2. ShopIs(s, w, o, "late") /\ ~Exists(s, w)
      BY <2>2, <3>1, Sold, StatusFacts DEF OrdersIInv
    <3>3. Crm(o) => s \in Stores(o)
      BY <2>1, <2>2 DEF LateLink
    <3> QED BY <1>1, <1>2, <1>3, <2>2, <3>2, <3>3, ShopLinks
  <2>4. CASE c.call = "put" /\ Revise(s, c.woo, "completed", o)
    <3>1. PICK w : w = c.woo
      OBVIOUS
    <3>2. w \in Woo /\ Exists(s, w) /\ ~Crm(o) /\ Belongs(o, s, w)
      BY <2>1, <2>2, <2>4, <3>1 DEF LateIsTrue, LateLink
    <3>3. PICK born : born = shop[s][w].born
      OBVIOUS
    <3>4. ShopIs(s, w, o, born)
      BY <2>2, <2>4, <3>1, <3>2, <3>3, Revised, StatusFacts DEF OrdersIInv
    <3>5. Fresh(s) => ~Owned(s, w)
      BY <3>2 DEF Belongs, Owned
    <3> QED BY <1>1, <1>2, <1>3, <2>2, <3>2, <3>3, <3>4, <3>5, ShopLinks
  <2> QED BY <1>8, <2>1, <2>3, <2>4 DEF LateCallArrives
<1> QED BY <1>5, <1>6, <1>7, <1>8 DEF StoreStep

(* What an import takes for its order is the right one: the one linked, or *)
(* the one it was created for; if there is none, it is nobody's.           *)
LEMMA FoundIsRight ==
  ASSUME OrdersIInv, Links, NEW e \in Event, NEW s, s = e.store, NEW w, w = e.woo,
         s \in Store, w \in Woo, Exists(s, w),
         NEW o, IF Found(e) = {} THEN o = NoOp ELSE o \in Found(e)
  PROVE  Belongs(o, s, w)
<1>1. w # NoOp
  BY NumberFacts
<1>2. CASE o \in Known(e)
  BY <1>1, <1>2 DEF Known, Links, LinkHolds
<1>3. CASE o \in Adoptable(e)
  BY <1>3 DEF Adoptable, Belongs
<1>4. CASE Found(e) = {}
  <2>1. PICK p : p = shop[s][w].key
    OBVIOUS
  <2>2. SUFFICES ASSUME Owned(s, w) PROVE order[p][s].woo # NoOp /\ ~Fresh(s)
    BY <1>4, <2>1, NumberFacts DEF Belongs, Crm, Live
  <2>3. p \in Op /\ Crm(p) /\ s \in Stores(p) /\ (Fresh(s) => Called(p, s, w))
    BY <2>1, <2>2, KeyFacts DEF Links, OwnHolds, Owned, Called
  <2>4. p \notin Known(e) /\ p \notin Adoptable(e)
    BY <1>4 DEF Found
  <2>5. order[p][s].woo # NoOp
    BY <2>1, <2>3, <2>4 DEF Adoptable, Crm
  <2>6. PICK v : v = order[p][s].woo
    OBVIOUS
  <2>7. v # w /\ v \in Woo /\ Belongs(p, s, v)
    <3>1. order[p][s] \in Order
      BY <2>3 DEF OrdersIInv, OrdersTypeOK
    <3> QED BY <2>3, <2>4, <2>5, <2>6, <3>1 DEF Known, Crm, Order, Links, LinkHolds
  <2>8. ASSUME Fresh(s) PROVE FALSE
    <3>1. shop[s][v].key = p
      BY <2>3, <2>7, <2>8 DEF Belongs
    <3>2. Called(p, s, v)
      BY <2>3, <2>7, <2>8, <3>1 DEF Links, OwnHolds, Owned, Called
    <3> QED BY <2>3, <2>7, <2>8, <3>2 DEF OrdersIInv, Rows, CreatedOnceThere
  <2> QED BY <2>5, <2>8
<1> QED BY <1>2, <1>3, <1>4 DEF Found

(* A webhook does not change where an operation came from.                 *)
LEMMA ImportedKeeps ==
  ASSUME NEW e, NEW seen, NEW row \in Operation
  PROVE  ImportedOperation(e, seen, row).source = row.source
<1>1. PICK status : status = StatusFromWoo(e)
  OBVIOUS
<1>2. \/ ImportedOperation(e, seen, row) = [row EXCEPT !.status = seen.status]
      \/ ImportedOperation(e, seen, row) = [row EXCEPT !.status = "PENDING"]
      \/ ImportedOperation(e, seen, row) = [row EXCEPT !.status = status, !.reopened = FALSE]
  BY <1>1 DEF ImportedOperation
<1> QED BY <1>2 DEF Operation

LEMMA HandlerLinks ==
  ASSUME OrdersIInv, Links, NEW h \in Handler, HandlerStep(h)
  PROVE  Links'
<1>1. PICK e, seen, o, s, w : /\ e = handler[h].event /\ seen = handler[h].seen /\ o = seen.op
                              /\ s = e.store /\ w = e.woo
  OBVIOUS
<1>2. handler[h].at # "idle" /\ UNCHANGED <<shop, job, late>>
  BY DEF HandlerStep, ImportRead, ImportStale, ImportUpdates, ImportCreates, ImportCollides,
         ImportFails
<1>3. /\ e \in Event /\ s \in Store /\ w \in Woo /\ w # NoOp /\ Exists(s, w)
      /\ handler[h] \in BusyHandler
  BY <1>1, <1>2, EventFacts, HandlerFacts DEF OrdersIInv
<1>4. ASSUME LinksKept,
             \A q \in Op, t \in Store : order'[q][t].woo = order[q][t].woo \/ LinkHolds(q, t)',
             \A k \in Handler : handler'[k] = handler[k] \/ ImportLink(k)'
      PROVE  Links'
  BY <1>2, <1>4, LinksStay
<1>5. UNCHANGED <<operation, order>> => LinksKept
  BY <1>2, QuietLinks DEF Marked
<1>6. Leave(h) => \A k \in Handler : handler'[k] = handler[k] \/ ImportLink(k)'
  BY HandlerLeaves DEF OrdersIInv, HandlerIs, ImportLink, Unoccupied
<1>7. CASE ImportRead(h)
  <2>1. PICK q, new : /\ IF Found(e) = {} THEN q = NoOp ELSE q \in Found(e)
                      /\ new.op = q
                      /\ handler' = [handler EXCEPT ![h].at = "write", ![h].seen = new]
    <3>1. CASE Found(e) = {}
      <4>1. handler' = [handler EXCEPT ![h].at = "write", ![h].seen = NothingSeen]
        BY <1>1, <1>7, <3>1 DEF ImportRead
      <4> QED BY <3>1, <4>1 DEF NothingSeen
    <3>2. CASE Found(e) # {}
      <4>1. PICK q : q = CHOOSE p \in Found(e) : TRUE
        OBVIOUS
      <4>2. handler' = [handler EXCEPT ![h].at = "write", ![h].seen =
                [op |-> q, source |-> operation[q].source, status |-> operation[q].status,
                 reopened |-> operation[q].reopened, rev |-> order[q][e.store].rev]]
        BY <1>1, <1>7, <3>2, <4>1 DEF ImportRead
      <4>3. q \in Found(e)
        BY <3>2, <4>1
      <4> QED BY <3>2, <4>2, <4>3
    <3> QED BY <3>1, <3>2
  <2>2. Belongs(q, s, w)
    BY <1>1, <1>3, <2>1, FoundIsRight
  <2>3. UNCHANGED <<operation, order>>
    BY <1>7 DEF ImportRead
  <2>4. /\ handler'[h].event = e /\ handler'[h].seen = new
        /\ \A k \in Handler : k # h => handler'[k] = handler[k]
    BY <1>1, <1>3, <2>1 DEF OrdersIInv, OrdersTypeOK, BusyHandler
  <2>5. Belongs(q, s, w)'
    BY <1>2, <2>2, <2>3 DEF Belongs, Owned, Crm, Live, Fresh
  <2>6. ImportLink(h)'
    BY <1>1, <2>1, <2>4, <2>5 DEF ImportLink
  <2> QED BY <1>4, <1>5, <2>3, <2>4, <2>6
<1>8. CASE ImportStale(h)
  BY <1>4, <1>5, <1>6, <1>8 DEF ImportStale
<1>9. CASE ImportCollides(h)
  <2>1. handler'[h].at = "read" /\ \A k \in Handler : k # h => handler'[k] = handler[k]
    BY <1>3, <1>9 DEF ImportCollides, OrdersIInv, OrdersTypeOK, BusyHandler
  <2> QED BY <1>4, <1>5, <1>9, <2>1 DEF ImportCollides, ImportLink
<1>10. CASE ImportFails(h)
  BY <1>4, <1>5, <1>6, <1>10 DEF ImportFails
<1>11. ASSUME handler[h].at = "write", NEW q \in Op, NEW base \in Order,
              order' = [order EXCEPT ![q][s] = ImportedOrder(e, base)],
              LinksKept, Belongs(q, s, w)', Leave(h)
       PROVE  Links'
  <2>1. order'[q][s] = ImportedOrder(e, base)
        /\ \A p \in Op, t \in Store : p # q \/ t # s => order'[p][t] = order[p][t]
    BY <1>3, <1>11 DEF OrdersIInv, OrdersTypeOK
  <2>2. order'[q][s].woo = w
    <3>1. PICK row : row = ImportedOrder(e, base)
      OBVIOUS
    <3>2. row.woo = w
      BY <1>1, <1>11, <3>1 DEF ImportedOrder, Order
    <3> QED BY <2>1, <3>1, <3>2
  <2>3. LinkHolds(q, s)'
    BY <1>11, <2>2 DEF LinkHolds
  <2> QED BY <1>4, <1>6, <1>11, <2>1, <2>3
<1>12. CASE ImportUpdates(h)
  <2>1. /\ handler[h].at = "write" /\ Live(o) /\ o \in Op /\ s \in Stores(o) /\ Leave(h)
        /\ operation' = [operation EXCEPT ![o] = ImportedOperation(e, seen, operation[o])]
        /\ order' = [order EXCEPT ![o][s] = ImportedOrder(e, order[o][s])]
    BY <1>1, <1>12 DEF ImportUpdates, Live, OrdersIInv, OrdersTypeOK
  <2>2. operation[o] \in Operation /\ order[o][s] \in Order
    BY <1>3, <2>1 DEF OrdersIInv, OrdersTypeOK
  <2>3. \A p \in Op : p # o => operation'[p] = operation[p] /\ order'[p] = order[p]
    BY <2>1 DEF OrdersIInv, OrdersTypeOK
  <2>4. \A t \in Store : order'[o][t].state = order[o][t].state
                         /\ (order[o][t].woo # NoOp => order'[o][t].woo # NoOp)
    <3>1. /\ order'[o][s] = ImportedOrder(e, order[o][s])
          /\ \A t \in Store : t # s => order'[o][t] = order[o][t]
      BY <1>3, <2>1 DEF OrdersIInv, OrdersTypeOK
    <3>2. order'[o][s].state = order[o][s].state /\ order'[o][s].woo = w
      BY <1>1, <2>2, <3>1 DEF ImportedOrder, Order
    <3> QED BY <1>3, <3>1, <3>2
  <2>5. Crm(o)' => Crm(o)
    <3>1. operation'[o] = ImportedOperation(e, seen, operation[o])
      BY <2>1 DEF OrdersIInv, OrdersTypeOK
    <3>2. operation'[o].source = operation[o].source
      BY <2>2, <3>1, ImportedKeeps
    <3> QED BY <2>1, <3>2 DEF Crm
  <2>6. LinksKept
    <3>1. \A p \in Op : Crm(p)' => Crm(p)
      BY <2>3, <2>5 DEF Crm, Live
    <3> QED BY <1>2, <2>3, <2>4, <3>1 DEF LinksKept, KeyKept, Fresh
  <2>7. Belongs(o, s, w)'
    <3>1. Belongs(o, s, w) /\ Used(o)
      BY <1>1, <2>1 DEF Links, ImportLink, Used, Live
    <3> QED BY <1>3, <2>1, <2>6, <3>1, BelongsKept
  <2> QED BY <1>11, <2>1, <2>2, <2>6, <2>7
<1>13. CASE ImportCreates(h)
  <2>1. /\ handler[h].at = "write" /\ o = NoOp /\ Leave(h)
    BY <1>1, <1>13 DEF ImportCreates
  <2>2. PICK q \in Op :
          /\ NextOp(q)
          /\ operation' = [operation EXCEPT ![q] =
                    [state |-> "LIVE", source |-> "WOOCOMMERCE",
                     status |-> StatusFromWoo(e), reopened |-> FALSE,
                     code |-> <<e.store, e.woo>>]]
          /\ order' = [order EXCEPT ![q][s] = ImportedOrder(e, NewOrder)]
    BY <1>1, <1>13 DEF ImportCreates
  <2>3. /\ ~Crm(q)' /\ ~Used(q) /\ Unsent(q)
        /\ \A p \in Op : p # q => operation'[p] = operation[p] /\ order'[p] = order[p]
    <3>1. RowIsTrue(q) /\ operation[q].state = "UNUSED"
      BY <2>2 DEF OrdersIInv, Rows, NextOp
    <3>2. ~Used(q) /\ Unsent(q)
      BY <3>1 DEF RowIsTrue, Used, Unused
    <3>3. operation'[q].source = "WOOCOMMERCE"
      BY <2>2 DEF OrdersIInv, OrdersTypeOK
    <3>4. \A p \in Op : p # q => operation'[p] = operation[p] /\ order'[p] = order[p]
      BY <2>2 DEF OrdersIInv, OrdersTypeOK
    <3> QED BY <3>2, <3>3, <3>4 DEF Crm
  <2>4. LinksKept
    <3>1. \A p \in Op : Crm(p)' => Crm(p)
      BY <2>3 DEF Crm, Live
    <3>2. \A p \in Op : Crm(p)' => order'[p] = order[p]
      BY <2>3
    <3> QED BY <1>2, <3>1, <3>2 DEF LinksKept, KeyKept, Fresh
  <2>5. Belongs(NoOp, s, w)'
    <3>1. Belongs(NoOp, s, w)
      BY <1>1, <2>1 DEF Links, ImportLink
    <3> QED BY <1>3, <2>4, <3>1, BelongsKept
  <2>6. shop'[s][w].key # q
    BY <1>2, <1>3, <2>3 DEF Unsent
  <2>7. Belongs(q, s, w)'
    BY <2>3, <2>5, NumberFacts DEF Belongs, Owned, Crm, Live
  <2> QED BY <1>11, <2>1, <2>2, <2>4, <2>7, RowTypes
<1> QED BY <1>7, <1>8, <1>9, <1>10, <1>12, <1>13 DEF HandlerStep

(* A job goes on, or ends and marks its order.                             *)
LEMMA MarkedOrder ==
  ASSUME OrdersIInv, NEW j \in Job, Busy(j), MarkError(j)
  PROVE  \A p \in Op, t \in Store : order'[p][t].woo = order[p][t].woo
                                    /\ order'[p][t].state = order[p][t].state
<1>1. PICK o, s : o = job[j].op /\ s = job[j].store
  OBVIOUS
<1>2. o \in Op /\ s \in Store /\ order[o][s] \in Order
  BY <1>1, JobOf DEF OrdersIInv, OrdersTypeOK
<1>3. order' = order \/ order' = [order EXCEPT ![o][s] = [order[o][s] EXCEPT !.sync = "ERROR"]]
  BY <1>1 DEF MarkError, MarkOrder
<1>4. PICK row : row = [order[o][s] EXCEPT !.sync = "ERROR"]
  OBVIOUS
<1>5. row.woo = order[o][s].woo /\ row.state = order[o][s].state
  BY <1>2, <1>4 DEF Order
<1>6. \A p \in Op, t \in Store : order'[p][t] = order[p][t]
                                 \/ (p = o /\ t = s /\ order'[p][t] = row)
  BY <1>2, <1>3, <1>4 DEF OrdersIInv, OrdersTypeOK
<1> QED BY <1>5, <1>6

(* A call that is given up on would still link what belongs together.      *)
LEMMA CallLink ==
  ASSUME OrdersIInv, Links, LinksKept, NEW j \in Job, job[j].at \in {"create", "put"},
         NEW c, c = CallOfJob(j)
  PROVE  LateLink(c)'
<1>1. PICK o, s, w : o = job[j].op /\ s = job[j].store /\ w = job[j].woo
  OBVIOUS
<1>2. c.op = o /\ c.store = s /\ c.woo = w /\ c.call = job[j].at
  BY <1>1 DEF CallOfJob
<1>3. o \in Op /\ s \in Store /\ JobIsTrue(j) /\ Busy(j) /\ ~Unsent(o) /\ Used(o)
  BY <1>1, JobOf, SentIsUsed DEF Busy, Unsent
<1>4. c.call = "put" => Belongs(o, s, w)'
  <2>1. c.call = "put" => w \in Woo /\ Exists(s, w) /\ Belongs(o, s, w)
    BY <1>1, <1>2, <1>3 DEF JobIsTrue, Links, JobLink
  <2> QED BY <1>3, <2>1, BelongsKept
<1>5. Crm(o)' => order'[o][s].state = "LIVE"
  <2>1. Crm(o) => order[o][s].sync \in {"SYNCING", "SYNCED"}
    BY <1>1, <1>3 DEF JobIsTrue
  <2>2. Crm(o) => order[o][s].state = "LIVE"
    BY <1>3, <2>1 DEF OrdersIInv, Rows, OrderIsTrue
  <2> QED BY <1>3, <2>2 DEF LinksKept
<1> QED BY <1>2, <1>3, <1>4, <1>5 DEF LateLink, Stores

LEMMA JobLinks ==
  ASSUME OrdersIInv, Links, NEW j \in Job, JobStep(j)
  PROVE  Links'
<1>1. PICK o, s, w : o = job[j].op /\ s = job[j].store /\ w = job[j].woo
  OBVIOUS
<1>2. Busy(j) /\ UNCHANGED <<operation, handler>>
  BY DEF JobStep, LoadOrder, SearchFinds, SearchFindsNothing, StoreCreates, SnapshotRead,
         StoreUpdates, Confirm, ConfirmFails, OutboundFails, AnswerLost, CallTimesOut, Busy
<1>3. /\ o \in Op /\ s \in Store /\ w \in Woo \cup {NoOp} /\ job[j] \in BusyJob
      /\ JobIsTrue(j) /\ JobLink(j) /\ Used(o) /\ ~Unsent(o) /\ order[o][s] \in Order
  BY <1>1, <1>2, JobOf, SentIsUsed DEF Links, Unsent, OrdersIInv, OrdersTypeOK
<1>4. ASSUME LinksKept, UNCHANGED late,
             \A k \in Job : job'[k] = job[k] \/ JobLink(k)',
             \A p \in Op, t \in Store : order'[p][t].woo = order[p][t].woo \/ LinkHolds(p, t)',
             \A t \in Store, v \in Woo :
                Exists(t, v) \/ shop'[t][v] = shop[t][v] \/ OwnHolds(t, v)'
      PROVE  Links'
  BY <1>2, <1>4, LinksStay
<1>5. UNCHANGED shop /\ Marked => LinksKept
  BY <1>2, QuietLinks
<1>6. Done(j) => \A k \in Job : job'[k] = job[k] \/ JobLink(k)'
  BY JobStops DEF OrdersIInv, JobEnds, JobLink, Unoccupied
<1>7. MarkError(j) => /\ Marked
                      /\ \A p \in Op, t \in Store : order'[p][t].woo = order[p][t].woo
  BY <1>2, MarkedOrder DEF Marked
<1>8. UNCHANGED order => Marked
  BY DEF Marked
<1>9. ASSUME NEW at, job' = [job EXCEPT ![j].at = at]
       PROVE  /\ job'[j] = [job[j] EXCEPT !.at = at] /\ job'[j].at = at
              /\ job'[j].op = o /\ job'[j].store = s /\ job'[j].woo = w
              /\ \A k \in Job : k # j => job'[k] = job[k]
  BY <1>1, <1>3, <1>9 DEF OrdersIInv, OrdersTypeOK, BusyJob
<1>10. CASE LoadOrder(j)
  <2>1. CASE Syncing(o, s)
    <3>1. PICK v, at : /\ v = order[o][s].woo
                       /\ at = IF v = NoOp THEN "search" ELSE "get"
                       /\ job' = [job EXCEPT ![j].woo = v, ![j].at = at]
      BY <1>1, <1>10, <2>1 DEF LoadOrder
    <3>2. /\ job'[j].at = at /\ job'[j].op = o /\ job'[j].store = s /\ job'[j].woo = v
          /\ \A k \in Job : k # j => job'[k] = job[k]
      BY <1>1, <1>3, <3>1 DEF OrdersIInv, OrdersTypeOK, BusyJob
    <3>3. v # NoOp => v \in Woo /\ Exists(s, v) /\ Belongs(o, s, v)
      BY <1>3, <3>1 DEF OrdersIInv, Rows, OrderIsTrue, Order, Links, LinkHolds
    <3>4. LinksKept
      BY <1>5, <1>8, <1>10 DEF LoadOrder
    <3>5. v # NoOp => Belongs(o, s, v)'
      BY <1>3, <3>3, <3>4, BelongsKept
    <3>6. JobLink(j)'
      BY <3>1, <3>2, <3>5 DEF JobLink
    <3> QED BY <1>4, <1>10, <3>2, <3>4, <3>6 DEF LoadOrder
  <2>2. CASE ~Syncing(o, s)
    <3>1. Done(j)
      BY <1>1, <1>10, <2>2 DEF LoadOrder
    <3> QED BY <1>4, <1>5, <1>6, <1>8, <1>10, <3>1 DEF LoadOrder
  <2> QED BY <2>1, <2>2
<1>11. CASE SearchFinds(j)
  <2>1. PICK v \in WithKey(o, s), rev \in {Newest(s, x) : x \in Woo} :
          job' = [job EXCEPT ![j].at = "confirm", ![j].woo = v, ![j].rev = rev]
    BY <1>1, <1>11 DEF SearchFinds, WithKey
  <2>2. v \in Woo /\ Exists(s, v) /\ Belongs(o, s, v)
    BY <2>1 DEF WithKey, Belongs
  <2>3. /\ job'[j].op = o /\ job'[j].store = s /\ job'[j].woo = v
        /\ \A k \in Job : k # j => job'[k] = job[k]
    BY <1>1, <1>3, <2>1 DEF OrdersIInv, OrdersTypeOK, BusyJob
  <2>4. LinksKept
    BY <1>5, <1>8, <1>11 DEF SearchFinds
  <2>5. Belongs(o, s, v)'
    BY <1>3, <2>2, <2>4, BelongsKept
  <2>6. JobLink(j)'
    BY <2>3, <2>5 DEF JobLink
  <2> QED BY <1>4, <1>11, <2>3, <2>4, <2>6 DEF SearchFinds
<1>12. CASE SearchFindsNothing(j)
  <2>1. UNCHANGED <<order, shop, late>> /\ job' = [job EXCEPT ![j].at = "create"]
    BY <1>12 DEF SearchFindsNothing, JobAt
  <2>2. JobLink(j)' /\ \A k \in Job : k # j => job'[k] = job[k]
    BY <1>9, <2>1 DEF JobLink
  <2> QED BY <1>4, <1>5, <1>8, <2>1, <2>2
<1>13. CASE SnapshotRead(j)
  <2>1. UNCHANGED <<order, shop, late>> /\ job' = [job EXCEPT ![j].at = "put"]
    BY <1>13 DEF SnapshotRead, JobAt
  <2>2. w \in Woo /\ Exists(s, w) /\ Belongs(o, s, w)
    BY <1>1, <1>2, <1>3, <1>13 DEF SnapshotRead, JobIsTrue, JobLink
  <2>3. LinksKept
    BY <1>5, <1>8, <2>1
  <2>4. Belongs(o, s, w)'
    BY <1>3, <2>2, <2>3, BelongsKept
  <2>5. JobLink(j)' /\ \A k \in Job : k # j => job'[k] = job[k]
    BY <1>9, <2>1, <2>4 DEF JobLink
  <2> QED BY <1>4, <2>1, <2>3, <2>5
(* What a job does to the order of its store.                              *)
<1>14. ASSUME NEW v \in Woo, Marked,
              \/ job[j].at = "create" /\ NewStoreOrder(s, v, "completed", o, "call")
              \/ job[j].at = "put" /\ v = w /\ Revise(s, v, "completed", o)
       PROVE  /\ LinksKept /\ Belongs(o, s, v)'
              /\ \A t \in Store, x \in Woo :
                    Exists(t, x) \/ shop'[t][x] = shop[t][x] \/ OwnHolds(t, x)'
  <2>1. CASE job[j].at = "create" /\ NewStoreOrder(s, v, "completed", o, "call")
    <3>1. ShopIs(s, v, o, "call") /\ ~Exists(s, v)
      BY <1>3, <2>1, Sold, StatusFacts DEF OrdersIInv
    <3>2. Crm(o) => s \in Stores(o)
      <4>1. Crm(o) => order[o][s].sync \in {"SYNCING", "SYNCED"}
        BY <1>1, <1>2, <1>3 DEF JobIsTrue
      <4> QED BY <1>3, <4>1 DEF OrdersIInv, Rows, OrderIsTrue, Stores
    <3>3. shop'[s][v].key = o
      BY <3>1 DEF ShopIs
    <3>4. Belongs(o, s, v)'
      BY <3>3 DEF Belongs
    <3> QED BY <1>2, <1>3, <1>14, <3>1, <3>2, <3>4, ShopLinks
  <2>2. CASE job[j].at = "put" /\ v = w /\ Revise(s, v, "completed", o)
    <3>1. PICK born : born = shop[s][v].born
      OBVIOUS
    <3>2. ShopIs(s, v, o, born)
      BY <1>3, <2>2, <3>1, Revised, StatusFacts DEF OrdersIInv
    <3>3. ~Crm(o) /\ Exists(s, v) /\ Belongs(o, s, v)
      BY <1>1, <1>2, <1>3, <2>2 DEF JobIsTrue, JobLink
    <3>4. Fresh(s) => ~Owned(s, v)
      BY <3>3 DEF Belongs, Owned
    <3>5. shop'[s][v].key = o
      BY <3>2 DEF ShopIs
    <3>6. Belongs(o, s, v)'
      BY <3>5 DEF Belongs
    <3> QED BY <1>2, <1>3, <1>14, <3>1, <3>2, <3>3, <3>4, <3>6, ShopLinks
  <2> QED BY <1>14, <2>1, <2>2
<1>15. ASSUME NEW v \in Woo, NEW rev, UNCHANGED <<order, late>>, LinksKept, Belongs(o, s, v)',
              \/ job' = [job EXCEPT ![j].at = "confirm", ![j].woo = v, ![j].rev = rev]
              \/ job' = [job EXCEPT ![j].at = "confirm", ![j].rev = rev] /\ v = w,
              \A t \in Store, x \in Woo :
                 Exists(t, x) \/ shop'[t][x] = shop[t][x] \/ OwnHolds(t, x)'
       PROVE  Links'
  <2>1. /\ job'[j].op = o /\ job'[j].store = s /\ job'[j].woo = v
        /\ \A k \in Job : k # j => job'[k] = job[k]
    BY <1>1, <1>3, <1>15 DEF OrdersIInv, OrdersTypeOK, BusyJob
  <2>2. JobLink(j)'
    BY <1>15, <2>1 DEF JobLink
  <2> QED BY <1>4, <1>15, <2>1, <2>2
<1>16. CASE StoreCreates(j)
  <2>1. PICK v \in Woo : /\ NewStoreOrder(s, v, "completed", o, "call")
                         /\ job' = [job EXCEPT ![j].at = "confirm", ![j].woo = v, ![j].rev = 1]
    BY <1>1, <1>16 DEF StoreCreates
  <2>2. job[j].at = "create" /\ UNCHANGED <<order, late>>
    BY <1>16 DEF StoreCreates
  <2> QED BY <1>8, <1>14, <1>15, <2>1, <2>2
<1>17. CASE StoreUpdates(j)
  <2>1. PICK rev : /\ Revise(s, w, "completed", o)
                   /\ job' = [job EXCEPT ![j].at = "confirm", ![j].rev = rev]
    BY <1>1, <1>17 DEF StoreUpdates
  <2>2. job[j].at = "put" /\ UNCHANGED <<order, late>>
    BY <1>17 DEF StoreUpdates
  <2>3. w \in Woo
    BY <1>1, <1>2, <1>3, <2>2 DEF JobIsTrue
  <2> QED BY <1>8, <1>14, <1>15, <2>1, <2>2, <2>3
<1>18. CASE Confirm(j)
  <2>1. /\ job[j].at = "confirm" /\ w \in Woo /\ Exists(s, w) /\ Belongs(o, s, w)
        /\ UNCHANGED <<shop, late>> /\ Done(j)
    BY <1>1, <1>2, <1>3, <1>18 DEF Confirm, JobIsTrue, JobLink
  <2>2. PICK row : row = [order[o][s] EXCEPT !.woo = job[j].woo, !.rev = job[j].rev,
                                             !.sync = "SYNCED"]
    OBVIOUS
  <2>3. row.woo = w /\ row.state = order[o][s].state
    BY <1>1, <1>3, <2>2 DEF Order
  <2>4. order' = order \/ order' = [order EXCEPT ![o][s] = row]
    BY <1>1, <1>18, <2>2 DEF Confirm, MarkSynced, MarkOrder
  <2>5. \A p \in Op, t \in Store : order'[p][t] = order[p][t]
                                   \/ (p = o /\ t = s /\ order'[p][t] = row)
    BY <1>3, <2>4 DEF OrdersIInv, OrdersTypeOK
  <2>6. LinksKept
    <3>1. w # NoOp
      BY <2>1, NumberFacts
    <3>2. Marked
      BY <2>3, <2>5, <3>1 DEF Marked
    <3> QED BY <1>5, <2>1, <3>2
  <2>7. Belongs(o, s, w)'
    BY <1>3, <2>1, <2>6, BelongsKept
  <2>8. \A p \in Op, t \in Store : order'[p][t].woo = order[p][t].woo \/ LinkHolds(p, t)'
    BY <2>3, <2>5, <2>7 DEF LinkHolds
  <2> QED BY <1>4, <1>6, <2>1, <2>6, <2>8
<1>19. CASE ConfirmFails(j) \/ OutboundFails(j)
  <2>1. UNCHANGED <<shop, late>> /\ Done(j) /\ MarkError(j)
    BY <1>19 DEF ConfirmFails, OutboundFails
  <2> QED BY <1>4, <1>5, <1>6, <1>7, <2>1
<1>20. CASE AnswerLost(j)
  <2>1. UNCHANGED late /\ Done(j) /\ MarkError(j)
    BY <1>20 DEF AnswerLost
  <2>2. PICK v \in Woo :
            \/ job[j].at = "create" /\ NewStoreOrder(s, v, "completed", o, "call")
            \/ job[j].at = "put" /\ v = w /\ Revise(s, v, "completed", o)
    <3>1. job[j].at = "put" => w \in Woo
      BY <1>1, <1>2, <1>3 DEF JobIsTrue
    <3> QED BY <1>1, <1>20, <3>1 DEF AnswerLost
  <2> QED BY <1>4, <1>6, <1>7, <1>14, <2>1, <2>2
<1>21. CASE CallTimesOut(j)
  <2>1. /\ UNCHANGED shop /\ Done(j) /\ MarkError(j)
        /\ job[j].at \in {"create", "put"} /\ late' = late \cup {CallOfJob(j)}
    BY <1>21 DEF CallTimesOut
  <2>2. LinksKept
    BY <1>5, <1>7, <2>1
  <2>3. \A c \in late' : c \in late \/ LateLink(c)'
    BY <2>1, <2>2, CallLink
  <2> QED BY <1>2, <1>6, <1>7, <2>1, <2>2, <2>3, LinksStay
<1> QED BY <1>10, <1>11, <1>12, <1>13, <1>16, <1>17, <1>18, <1>19, <1>20, <1>21 DEF JobStep

(* A restart forgets who was about to link, and keeps their calls.         *)
LEMMA MishapLinks ==
  ASSUME OrdersIInv, Links, WriteFails \/ OrdersRestart
  PROVE  Links'
<1>1. UNCHANGED <<operation, order, shop>>
  BY DEF WriteFails, OrdersRestart
<1>2. LinksKept
  BY <1>1, QuietLinks DEF Marked
<1>3. \A j \in Job : job'[j] = job[j] \/ job'[j] = Unoccupied
  BY DEF WriteFails, OrdersRestart, Done, OrdersIInv, OrdersTypeOK
<1>4. \A h \in Handler : handler'[h] = handler[h] \/ handler'[h] = Unoccupied
  BY DEF WriteFails, OrdersRestart, Leave, OrdersIInv, OrdersTypeOK
<1>5. \A c \in late' : c \in late \/ \E j \in Job :
            job[j].at \in {"create", "put"} /\ c = CallOfJob(j)
  BY DEF WriteFails, OrdersRestart
<1>6. \A c \in late' : c \in late \/ LateLink(c)'
  BY <1>2, <1>5, CallLink
<1> QED BY <1>1, <1>2, <1>3, <1>4, <1>6, LinksStay DEF JobLink, ImportLink, Unoccupied

LEMMA LinksStart == OrdersInit => Links
<1> SUFFICES ASSUME OrdersInit PROVE Links
  OBVIOUS
<1>1. \A o \in Op, s \in Store : order[o][s].woo = NoOp
  BY DEF OrdersInit, NoOrder
<1>2. \A s \in Store, w \in Woo : ~Owned(s, w)
  BY NumberFacts DEF OrdersInit, Vacant, Owned, Crm, Live
<1> QED BY <1>1, <1>2 DEF OrdersInit, Links, LinkHolds, JobLink, ImportLink, OwnHolds, Unoccupied

LEMMA LinksHold == OrdersIInv /\ Links /\ [OrdersNext]_orderVars => Links'
<1> SUFFICES ASSUME OrdersIInv, Links, [OrdersNext]_orderVars PROVE Links'
  OBVIOUS
<1>1. CASE UNCHANGED orderVars
  <2>1. UNCHANGED <<operation, order, shop, handler, job, late>>
    BY <1>1 DEF orderVars
  <2>2. LinksKept
    BY <2>1, QuietLinks DEF Marked
  <2> QED BY <2>1, <2>2, LinksStay
<1>2. ASSUME NEW h \in Handler, NEW e \in Event, ClaimDelivery(h, e) PROVE Links'
  <2>1. UNCHANGED <<operation, order, shop, job, late>>
    BY <1>2 DEF ClaimDelivery
  <2>2. LinksKept
    BY <2>1, QuietLinks DEF Marked
  <2>3. /\ handler'[h].at = "read"
        /\ \A k \in Handler : k # h => handler'[k] = handler[k]
    BY <1>2 DEF ClaimDelivery, OrdersIInv, OrdersTypeOK
  <2> QED BY <2>1, <2>2, <2>3, LinksStay DEF ImportLink
<1> QED BY <1>1, <1>2, StaffLinks, StoreLinks, HandlerLinks, JobLinks, MishapLinks DEF OrdersNext

(* No store order is in the CRM twice, or as an operation of its own while *)
(* the one it was created for is not linked; and as long as no late call   *)
(* has created an order, every order of the CRM is linked to its own.      *)
THEOREM LinksAreTrue == OrdersSpec => []LinkIsTrue
<1>1. OrdersIInv /\ Links => LinkIsTrue
  <2> SUFFICES ASSUME OrdersIInv, Links, NEW o \in Op, NEW s \in Store,
                      NEW w, w = order[o][s].woo, w # NoOp
               PROVE  /\ Exists(s, w) /\ order[o][s].rev \in 1..Newest(s, w)
                      /\ operation[o].source = "CRM" /\ Fresh(s) => shop[s][w].key = o
                      /\ \A p \in Op \ {o} :
                            /\ order[p][s].woo # w
                            /\ Live(p) /\ operation[p].source = "CRM" /\ shop[s][w].key = p
                                  => ~Fresh(s) /\ order[p][s].woo # NoOp
    BY DEF LinkIsTrue
  <2>1. OrderIsTrue(o, s) /\ RowIsTrue(o) /\ Belongs(o, s, w)
    BY DEF OrdersIInv, Rows, Links, LinkHolds
  <2>2. Live(o)
    BY <2>1 DEF OrderIsTrue, RowIsTrue, NoOrder, GoneOrder, Live, OrdersIInv, OrdersTypeOK,
                Operation
  <2>3. Exists(s, w) /\ order[o][s].rev \in 1..Newest(s, w)
    BY <2>1 DEF OrderIsTrue
  <2>4. operation[o].source = "CRM" /\ Fresh(s) => shop[s][w].key = o
    BY <2>1, <2>2 DEF Belongs, Crm
  <2>5. ASSUME NEW p \in Op \ {o}
        PROVE  /\ order[p][s].woo # w
               /\ Live(p) /\ operation[p].source = "CRM" /\ shop[s][w].key = p
                     => ~Fresh(s) /\ order[p][s].woo # NoOp
    <3>1. order[p][s].woo # w
      BY DEF OrdersIInv, Rows, LinkedOnce
    <3>2. Live(p) /\ operation[p].source = "CRM" /\ shop[s][w].key = p => Owned(s, w)
      BY DEF Owned, Crm
    <3> QED BY <2>1, <3>1, <3>2 DEF Belongs
  <2> QED BY <2>3, <2>4, <2>5
<1> QED BY <1>1, OrdersStart, OrdersKeep, LinksStart, LinksHold, PTL DEF OrdersSpec
=============================================================================
