------------------------------ MODULE OrderAmounts ------------------------------
(***************************************************************************)
(* The amounts of an operation and of its orders in the stores.            *)
(*                                                                         *)
(*   apps/api/src/orders/orders.service.ts             (prepare)           *)
(*   packages/shared/src/order-shipping.ts             (shipping shares)   *)
(*   apps/api/src/orders/woo-order-outbound.service.ts (what is sent)      *)
(*   apps/api/src/orders/woo-order-inbound.*           (what is imported)  *)
(*   apps/api/src/orders/siigo-quotation-input.ts      (what is quoted)    *)
(*                                                                         *)
(* A form of the CRM, or an order imported from a store and reopened,      *)
(* fills the rows of the operation.  When it is completed every row is     *)
(* sent to its store: as a new order, or over the order that is there,     *)
(* which is read first because only the store knows its lines by number.   *)
(* Amounts are whole cents; who may complete, and in which order calls     *)
(* and webhooks arrive, is in StoreOrders.  Items of a row and lines of a  *)
(* store's order are functions: an item keeps its place in the form, and a *)
(* line its number, by which the stores sort them.                         *)
(***************************************************************************)
EXTENDS Integers, Sequences, FiniteSets, Functions

CONSTANTS
    Product,       \* products of the catalogue
    Foreign,       \* a product that a store sells and the catalogue lacks
    StoreOf,       \* the store of each product
    PriceOf,       \* its price
    Forms,         \* what a form may ask for: sequences of items
    Percent,       \* the coupons, by what they take off; 0: none
    Custom,        \* shipping agreed by hand
    FlatRate,      \* shipping below FreeFrom
    FreeFrom,      \* the subtotal from which shipping is free
    Sold,          \* the orders a store may have sold by itself
    MaxRetouches   \* bound: changes that people make in the stores

VARIABLES
    operation,     \* its state, its coupon and its amounts
    storeOrder,    \* its row of each store
    shelf,         \* the order in each store
    delivery,      \* the job of each row
    retouches,     \* how many changes there were
    agreed,        \* stores that changed neither side since they last met
    reported       \* did a store write its amounts on an operation of two?

amountVars == <<operation, storeOrder, shelf, delivery, retouches, agreed, reported>>

Stores == {StoreOf[p] : p \in Product}
NoOrder == [at |-> "none"]
NoDelivery == [at |-> "none"]

(* Half of a cent rounds up.                                               *)
Rounded(n, d) == (2 * n + d) \div (2 * d)

Subtotal(item) == item.price * item.quantity
Cost(items) == SumFunction([i \in DOMAIN items |-> Subtotal(items[i])])
Charge(lines) == SumFunction([i \in DOMAIN lines |-> lines[i].total])
Rank(i, set) == Cardinality({j \in set : j <= i})

(* Money is not negative and nothing is sold in a quantity of zero (the    *)
(* schemas of forms and webhooks), a form has items, and the stores are    *)
(* SERATUS and PALI.                                                       *)
ASSUME AmountsAssumption ==
    /\ Foreign \notin Product
    /\ IsFiniteSet(Product) /\ Cardinality(Stores) <= 2
    /\ PriceOf \in [Product -> Nat]
    /\ Percent \subseteq Nat /\ Custom \subseteq Nat
    /\ FlatRate \in Nat /\ FreeFrom \in Nat /\ MaxRetouches \in Nat
    /\ \A form \in Forms :
        /\ form \in Seq([product : Product, quantity : Nat, price : Nat])
        /\ form # << >>
    /\ \A order \in Sold :
        /\ order \in [lines : Seq([product : Product \cup {Foreign}, quantity : Nat,
                                   price : Nat, total : Nat]),
                      shippings : Seq(Nat), lastId : Nat]
        /\ order.lastId = Len(order.lines)

ProductsOf(order) == {order.lines[i].product : i \in DOMAIN order.lines}

AmountsInit ==
    /\ operation = [state |-> "NONE", coupon |-> 0, shipping |-> 0, total |-> 0]
    /\ storeOrder = [s \in Stores |-> NoOrder]
    /\ \/ shelf = [s \in Stores |-> NoOrder]
       \/ \E s \in Stores, order \in Sold :
            /\ \A p \in Product : StoreOf[p] # s => p \notin ProductsOf(order)
            /\ shelf = [t \in Stores |-> IF t = s THEN order ELSE NoOrder]
    /\ delivery = [s \in Stores |-> NoDelivery]
    /\ retouches = 0
    /\ agreed = {}
    /\ reported = FALSE

-----------------------------------------------------------------------------
(* OrdersService.prepare                                                   *)

Modified(item) == item.product # Foreign /\ item.price # PriceOf[item.product]
(* A product whose price was lowered is left out of the coupon.            *)
SlipEligible(items) == items
Eligible(items) == Restrict(items, {i \in DOMAIN items : ~Modified(items[i])})
Discount(items, percent) == Rounded(Cost(Eligible(items)) * percent, 100)

(* splitShippingCents: equal shares; the last takes what is left.          *)
SlipShare(total, stores, last) == Rounded(total, stores)
Share(total, stores, last) ==
    IF last THEN total - (stores - 1) * Rounded(total, stores)
    ELSE Rounded(total, stores)

(* Shipping is agreed by hand, or follows from the subtotal.               *)
ShippingTotals(form) == Custom \cup {IF Cost(form) < FreeFrom THEN FlatRate ELSE 0}

ItemsIn(form, s) == {i \in DOMAIN form : StoreOf[form[i].product] = s}
StoresIn(form) == {s \in Stores : ItemsIn(form, s) # {}}
(* Stores come in the order of their first product.                        *)
First(form, s) == CHOOSE i \in ItemsIn(form, s) : \A j \in ItemsIn(form, s) : i <= j
IsLast(form, s) == \A t \in StoresIn(form) : First(form, t) <= First(form, s)

PreparedItem(item) ==
    [product |-> item.product, quantity |-> item.quantity, price |-> item.price,
     total |-> Subtotal(item)]
SlipRowTotal(items, discount, shipping) == Cost(items) - discount
RowTotal(items, discount, shipping) == Cost(items) - discount + shipping
PreparedRow(form, percent, shippingTotal, s) ==
    LET items == [i \in ItemsIn(form, s) |-> PreparedItem(form[i])]
        discount == Discount(items, percent)
        shipping == Share(shippingTotal, Cardinality(StoresIn(form)), IsLast(form, s))
    IN  [items |-> items, discount |-> discount, shipping |-> shipping,
         total |-> RowTotal(items, discount, shipping), coupons |-> {percent}]

(* A form fills a new operation, or one that is pending: rows of stores    *)
(* without products go, the others keep the order they are linked to.      *)
SaveForm(form, percent, shippingTotal) ==
    LET rows == [s \in Stores |->
                    IF s \in StoresIn(form)
                    THEN PreparedRow(form, percent, shippingTotal, s) ELSE NoOrder]
    IN  /\ \/ operation.state = "PENDING"
           \/ operation.state = "NONE" /\ \A s \in Stores : shelf[s] = NoOrder
        /\ storeOrder' = rows
        /\ operation' = [state |-> "PENDING", coupon |-> percent,
                shipping |-> shippingTotal,
                total |-> Cost(form) + shippingTotal -
                    SumFunction([s \in StoresIn(form) |-> rows[s].discount])]
        /\ agreed' = {}
        /\ reported' = FALSE
        /\ UNCHANGED <<shelf, delivery, retouches>>

-----------------------------------------------------------------------------
(* WooOrderOutboundService                                                 *)

Complete ==
    /\ operation.state = "PENDING"
    /\ operation' = [operation EXCEPT !.state = "COMPLETED"]
    /\ delivery' = [s \in Stores |->
            IF storeOrder[s] = NoOrder THEN NoDelivery ELSE [at |-> "load"]]
    /\ UNCHANGED <<storeOrder, shelf, retouches, agreed, reported>>

(* The job sends what it loads, whatever becomes of the row.               *)
LoadOrder(s) ==
    /\ delivery[s].at = "load"
    /\ delivery' = [delivery EXCEPT ![s] =
            [at |-> IF shelf[s] = NoOrder THEN "post" ELSE "get",
             order |-> storeOrder[s]]]
    /\ UNCHANGED <<operation, storeOrder, shelf, retouches, agreed, reported>>

(* distributedDiscounts: the discount of each item; the last that takes    *)
(* part takes what the roundings left.                                     *)
LineDiscount(order, k) ==
    LET part == {i \in DOMAIN order.items : ~Modified(order.items[i])}
        whole == Cost(Eligible(order.items))
        Rounding(i) == Rounded(Subtotal(order.items[i]) * order.discount, whole)
    IN  IF order.discount <= 0 \/ whole <= 0 \/ k \notin part THEN 0
        ELSE IF \A i \in part : i <= k
             THEN order.discount - SumFunction([i \in part \ {k} |-> Rounding(i)])
             ELSE Rounding(k)

(* resolvedLines                                                           *)
ResolvedLine(order, k) ==
    [order.items[k] EXCEPT !.total = Subtotal(order.items[k]) - LineDiscount(order, k)]
Sellable(order) == \A k \in DOMAIN order.items : order.items[k].product # Foreign

(* reopenedOrderPayload: the n-th item of a product goes over the n-th     *)
(* line that the store has of it, if there is one.                         *)
Matches(order, lines, k) ==
    LET product == order.items[k].product
        mine == {j \in DOMAIN order.items : order.items[j].product = product}
        theirs == {id \in DOMAIN lines : lines[id].product = product}
    IN  {id \in theirs : Rank(id, theirs) = Rank(k, mine)}
Paired(order, lines) == UNION {Matches(order, lines, k) : k \in DOMAIN order.items}
LeftOver(order, lines) == DOMAIN lines \ Paired(order, lines)

(* shippingLinesFor: the first shipping line of the store takes the amount.*)
ShippingLines(order, shippings) ==
    IF shippings # << >> THEN [shippings EXCEPT ![1] = order.shipping]
    ELSE IF order.shipping > 0 THEN <<order.shipping>> ELSE << >>

(* The lines without a number get the next ones.                           *)
Number(order, lines, from, k) ==
    IF Matches(order, lines, k) = {} THEN from + Rank(k, DOMAIN order.items)
    ELSE CHOOSE id \in Matches(order, lines, k) : TRUE
SentLines(order, lines, from) ==
    [id \in {Number(order, lines, from, k) : k \in DOMAIN order.items} |->
        ResolvedLine(order, CHOOSE k \in DOMAIN order.items :
                                Number(order, lines, from, k) = id)]

DeliveryFails(s) ==
    /\ delivery[s].at \in {"load", "post", "get", "put"}
    /\ delivery' = [delivery EXCEPT ![s] = [at |-> "failed"]]
    /\ UNCHANGED <<operation, storeOrder, shelf, retouches, agreed, reported>>

(* claimRetry: what failed is sent again, unless its store has the order   *)
(* (it sold it, and the operation is not one of the CRM).                  *)
Retry(s) ==
    /\ delivery[s].at = "failed" /\ shelf[s] = NoOrder
    /\ delivery' = [delivery EXCEPT ![s] = [at |-> "load"]]
    /\ UNCHANGED <<operation, storeOrder, shelf, retouches, agreed, reported>>

StoreCreates(s) ==
    LET order == delivery[s].order IN
    /\ delivery[s].at = "post"
    /\ Sellable(order)
    /\ shelf' = [shelf EXCEPT ![s] =
            [lines |-> SentLines(order, << >>, 0), shippings |-> <<order.shipping>>,
             lastId |-> Cardinality(DOMAIN order.items)]]
    /\ delivery' = [delivery EXCEPT ![s] = NoDelivery]
    /\ agreed' = agreed \cup {s}
    /\ UNCHANGED <<operation, storeOrder, retouches, reported>>

SnapshotRead(s) ==
    /\ delivery[s].at = "get"
    /\ delivery' = [delivery EXCEPT ![s] =
            [at |-> "put", order |-> delivery[s].order, seen |-> shelf[s]]]
    /\ UNCHANGED <<operation, storeOrder, shelf, retouches, agreed, reported>>

(* The store changes the lines that are named, deletes those that come     *)
(* with a quantity of zero, adds the new ones and leaves the others.  It   *)
(* refuses the order when it does not have a line that is named.           *)
StoreUpdates(s) ==
    LET order == delivery[s].order
        seen == delivery[s].seen
        lines == shelf[s].lines
        sent == SentLines(order, seen.lines, shelf[s].lastId)
        named == Paired(order, seen.lines) \cup LeftOver(order, seen.lines)
        kept == DOMAIN lines \ named
    IN  /\ delivery[s].at = "put"
        /\ Sellable(order)
        /\ named \subseteq DOMAIN lines
        /\ shelf' = [shelf EXCEPT ![s] =
                [lines |-> [id \in kept \cup DOMAIN sent |->
                                IF id \in kept THEN lines[id] ELSE sent[id]],
                 shippings |-> ShippingLines(order, seen.shippings),
                 lastId |-> @.lastId + Cardinality(DOMAIN order.items)]]
        /\ delivery' = [delivery EXCEPT ![s] = NoDelivery]
        /\ agreed' = IF storeOrder[s] = order /\ seen.lines = lines
                     THEN agreed \cup {s} ELSE agreed \ {s}
        /\ UNCHANGED <<operation, storeOrder, retouches, reported>>

-----------------------------------------------------------------------------
(* WooOrderInboundRepository.import, and the people of the stores          *)

ShelfTotal(order) == Charge(order.lines) + SumFunction(order.shippings)

(* wooOrderInboundSchema: an order has lines, and no amount is negative.   *)
Acceptable(order) ==
    /\ DOMAIN order.lines # {}
    /\ \A i \in DOMAIN order.lines : order.lines[i].total >= 0
    /\ Charge(order.lines) <= Cost(order.lines)
    /\ SumFunction(order.shippings) >= 0

(* The items of the row are those of the store, and so are its amounts and *)
(* those of the operation, whose coupon stays.                             *)
ImportOrder(s) ==
    LET lines == shelf[s].lines
        shipping == SumFunction(shelf[s].shippings)
        total == ShelfTotal(shelf[s])
    IN  /\ shelf[s] # NoOrder
        /\ Acceptable(shelf[s])
        /\ storeOrder[s] # NoOrder \/ operation.state = "NONE"
        /\ storeOrder' = [storeOrder EXCEPT ![s] =
                [items |-> lines, discount |-> Cost(lines) - Charge(lines),
                 shipping |-> shipping, total |-> total, coupons |-> {}]]
        /\ operation' = [coupon |-> operation.coupon, shipping |-> shipping, total |-> total,
                state |-> IF operation.state = "NONE" THEN "PENDING"
                          ELSE operation.state]
        /\ delivery' = [delivery EXCEPT ![s] = IF @.at = "failed" THEN NoDelivery ELSE @]
        /\ agreed' = agreed \cup {s}
        /\ reported' = (reported \/ \E t \in Stores \ {s} : storeOrder[t] # NoOrder)
        /\ UNCHANGED <<shelf, retouches>>

(* Somebody removes a line, changes its quantity or adds another.          *)
Retouched(lines, new) ==
    {Restrict(lines, DOMAIN lines \ {k}) : k \in DOMAIN lines}
    \cup {[lines EXCEPT ![k].quantity = 3, ![k].total = 3 * lines[k].price] :
            k \in DOMAIN lines}
    \cup {[k \in DOMAIN lines \cup {new} |-> IF k # new THEN lines[k] ELSE
              [product |-> p, quantity |-> 1, price |-> PriceOf[p], total |-> PriceOf[p]]] :
            p \in Product}
RetouchOrder(s) ==
    /\ shelf[s] # NoOrder /\ retouches < MaxRetouches
    /\ retouches' = retouches + 1
    /\ \E lines \in Retouched(shelf[s].lines, shelf[s].lastId + 1) :
        shelf' = [shelf EXCEPT ![s].lines = lines, ![s].lastId = @ + 1]
    /\ agreed' = agreed \ {s}
    /\ UNCHANGED <<operation, storeOrder, delivery, reported>>

-----------------------------------------------------------------------------
(* buildQuotation: one document of all the rows, in hundredths of a        *)
(* percent of a cent.  Taking the tax off and adding it again is left out. *)

Rows == {s \in Stores : storeOrder[s] # NoOrder}

(* decimalDifference: what a line is charged below its cost.               *)
Taken(item) == IF item.total < Subtotal(item) THEN Subtotal(item) - item.total ELSE 0

(* The percentage asked for a line: the coupon, or else what its discount  *)
(* amounts to.                                                             *)
SlipPercentOf(item) ==
    IF operation.coupon # 0 THEN 100 * operation.coupon
    ELSE Rounded(10000 * Taken(item), Subtotal(item))
PercentOf(item) ==
    IF Modified(item) THEN 0
    ELSE IF operation.coupon # 0 THEN 100 * operation.coupon
    ELSE IF Subtotal(item) > 0 THEN Rounded(10000 * Taken(item), Subtotal(item)) ELSE 0

Quoted(items) == SumFunction([i \in DOMAIN items |->
                                Subtotal(items[i]) * (10000 - PercentOf(items[i]))])
QuotedTotal == SumFunction([s \in Rows |-> Quoted(storeOrder[s].items)])
                + 10000 * operation.shipping
Quotable == Rows # {} /\ \A s \in Rows : Sellable(storeOrder[s])

-----------------------------------------------------------------------------
AmountsNext ==
    \/ \E form \in Forms, percent \in Percent :
        \E shippingTotal \in ShippingTotals(form) : SaveForm(form, percent, shippingTotal)
    \/ Complete
    \/ \E s \in Stores :
        \/ LoadOrder(s) \/ DeliveryFails(s) \/ Retry(s) \/ StoreCreates(s)
        \/ SnapshotRead(s) \/ StoreUpdates(s)
        \/ ImportOrder(s) \/ RetouchOrder(s)

AmountsSpec == AmountsInit /\ [][AmountsNext]_amountVars

-----------------------------------------------------------------------------
(* The operation and its jobs are in a state the code knows, and every row *)
(* adds up: its items, less its discount, and its shipping.                *)
AmountsTypeOK ==
    /\ operation.state \in {"NONE", "PENDING", "COMPLETED"}
    /\ \A s \in Stores :
        delivery[s].at \in {"none", "load", "post", "get", "put", "failed"}
    /\ retouches \in 0..MaxRetouches /\ agreed \subseteq Stores
    /\ \A s \in Rows : storeOrder[s].total =
            Cost(storeOrder[s].items) - storeOrder[s].discount + storeOrder[s].shipping

IsTheSum ==
    /\ operation.shipping = SumFunction([s \in Rows |-> storeOrder[s].shipping])
    /\ operation.total = SumFunction([s \in Rows |-> storeOrder[s].total])

(* The orders of an operation always add up to it (violated: the webhook   *)
(* of one store writes its amounts on the operation of both).              *)
OperationIsTheSum == operation.state # "NONE" => IsTheSum

(* The orders add up to the operation, to the cent, until a store writes   *)
(* its own amounts on it; and what a store charges after a delivery is     *)
(* what the CRM shows, whatever lines the store had.  The code does not    *)
(* promise it for a second shipping line of the store, nor for an imported *)
(* discount when nothing that costs has the price of the catalogue.        *)
AmountsAgree ==
    /\ operation.state = "NONE" \/ reported \/ IsTheSum
    /\ \A s \in agreed :
        \/ ShelfTotal(shelf[s]) = storeOrder[s].total
        \/ Len(shelf[s].shippings) > 1
        \/ /\ storeOrder[s].coupons = {}
           /\ \A i \in DOMAIN storeOrder[s].items :
                LET item == storeOrder[s].items[i] IN Modified(item) \/ Subtotal(item) = 0

(* A quotation asks for what the operation shows: half a cent per store    *)
(* may be lost in the coupon, and half a hundredth of a percent of what    *)
(* the products cost in the discount of a line.  The code does not promise *)
(* it for what OperationIsTheSum excludes, for a row that a store filled   *)
(* while the operation has a coupon, for an imported discount on a line    *)
(* whose price is not the catalogue's, nor for a line that the store       *)
(* charges more than it costs.                                             *)
QuotationAgrees ==
    \/ ~Quotable
    \/ reported
    \/ operation.coupon # 0 /\ \E s \in Rows : storeOrder[s].coupons # {operation.coupon}
    \/ \E s \in Rows : \E i \in DOMAIN storeOrder[s].items :
            LET item == storeOrder[s].items[i]
            IN  item.total > Subtotal(item) \/ (Modified(item) /\ Taken(item) # 0)
    \/ LET cost == SumFunction([s \in Rows |-> Cost(storeOrder[s].items)])
            off == 2 * (QuotedTotal - 10000 * operation.total)
            bound == 10000 * Cardinality(Rows) + cost
       IN  off \in (-bound)..bound

(* What the store charges follows the rule of the coupon: a product whose  *)
(* price was lowered is charged in full, and the others together bear the  *)
(* percentage of what they cost, rounded once.                             *)
LoweredPricesKeepOut ==
    \A s \in agreed, percent \in Percent : storeOrder[s].coupons = {percent} =>
        LET lines == shelf[s].lines
            lowered == Restrict(lines, {i \in DOMAIN lines : Modified(lines[i])})
            others == Restrict(lines, {i \in DOMAIN lines : ~Modified(lines[i])})
        IN  /\ Charge(lowered) = Cost(lowered)
            /\ Cost(others) - Charge(others) = Rounded(Cost(others) * percent, 100)
=============================================================================
