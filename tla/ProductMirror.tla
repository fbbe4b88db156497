----------------------------- MODULE ProductMirror -----------------------------
(***************************************************************************)
(* A product of the inventory: what the CRM last heard of it in Siigo and  *)
(* in its WooCommerce store, and the status that compares the two.         *)
(*                                                                         *)
(*   apps/api/src/inventory/product-link.service.ts    (create, update)    *)
(*   apps/api/src/inventory/products.service.ts        (sync, remove)      *)
(*   apps/api/src/integrations/n8n/siigo-webhook.service.ts                *)
(*                                                                         *)
(* Three kinds of requests write the row, each after reading it and, most  *)
(* of them, after waiting for Siigo or the store: a link reads both sides, *)
(* a publication sends the store what Siigo had, and n8n reports what it   *)
(* found in Siigo and what it did in the store.  Prices and stock, which   *)
(* are compared together, are one value.                                   *)
(***************************************************************************)
EXTENDS Naturals

CONSTANTS
    Price,          \* values of a product
    Writer,         \* requests that may be in progress together
    MaxLinks        \* bound: rows the product ever has

ASSUME MirrorAssumption ==
    /\ MaxLinks \in Nat
    /\ {"failed", "none"} \cap Price = {}

VARIABLES
    siigoHas,    \* the product in Siigo
    shopHas,     \* the product in its store
    product,     \* its row
    links,       \* how many rows it had
    writer,      \* where each request is
    overlapped,  \* did two requests ever work on the product at once?
    apart        \* did the store change without the CRM hearing of it?

mirrorVars == <<siigoHas, shopHas, product, links, writer, overlapped, apart>>

SyncStatus == {"SYNCED", "OUT_OF_SYNC", "ERROR"}
RowNumber == 1..MaxLinks
Mirror == [row : RowNumber, siigo : Price, woo : Price, status : SyncStatus]
NoProduct == [row |-> 0]

(* What n8n did in the store: wrote a value, failed, or was not asked to.  *)
WooReport == Price \cup {"failed", "none"}
(* fresh: has the store not changed since the request read or wrote it?    *)
WriterState ==
    [at : {"idle"}] \cup
    [at : {"look"}, row : {0} \cup RowNumber, siigo : Price] \cup
    [at : {"link"}, row : {0} \cup RowNumber, siigo : Price, woo : Price,
     fresh : BOOLEAN] \cup
    [at : {"publish", "refused"}, row : RowNumber, woo : Price] \cup
    [at : {"published"}, row : RowNumber, woo : Price, fresh : BOOLEAN] \cup
    [at : {"report"}, siigo : Price, woo : WooReport, fresh : BOOLEAN] \cup
    [at : {"record"}, siigo : Price, woo : WooReport, fresh : BOOLEAN,
     status : SyncStatus]

Unoccupied == [at |-> "idle"]
There == product # NoProduct
WriterAt(w, state) == writer' = [writer EXCEPT ![w] = state]

MirrorInit ==
    /\ siigoHas \in Price
    /\ shopHas \in Price
    /\ product = NoProduct
    /\ links = 0
    /\ writer = [w \in Writer |-> Unoccupied]
    /\ overlapped = FALSE
    /\ apart = FALSE

(* A request begins: it works alone, or overlaps another.                  *)
Begins(w, state) ==
    /\ writer[w] = Unoccupied
    /\ WriterAt(w, state)
    /\ overlapped' = (overlapped \/ \E o \in Writer : writer[o] # Unoccupied)

(* Whatever the other requests know of the store is out of date.           *)
Outdated(state) ==
    IF "fresh" \in DOMAIN state THEN [state EXCEPT !.fresh = FALSE] ELSE state

SiigoChanges(value) ==
    /\ siigoHas' = value
    /\ UNCHANGED <<shopHas, product, links, writer, overlapped, apart>>

(* A sale, or somebody who edits the store.                                *)
ShopChanges(value) ==
    /\ shopHas' = value
    /\ apart' = TRUE
    /\ writer' = [w \in Writer |-> Outdated(writer[w])]
    /\ UNCHANGED <<siigoHas, product, links, overlapped>>

-----------------------------------------------------------------------------
(* ProductLinkService: link the product, or read both sides again          *)

Status(siigo, woo) == IF siigo = woo THEN "SYNCED" ELSE "OUT_OF_SYNC"

(* The row is looked for, then the product in Siigo.                       *)
BeginLink(w) ==
    /\ Begins(w, [at |-> "look", siigo |-> siigoHas, row |-> product.row])
    /\ UNCHANGED <<siigoHas, shopHas, product, links, apart>>

(* One of the two does not have the product, or misses data.               *)
LinkRefused(w) ==
    /\ writer[w].at = "look"
    /\ WriterAt(w, Unoccupied)
    /\ UNCHANGED <<siigoHas, shopHas, product, links, overlapped, apart>>

LookAtShop(w) ==
    /\ writer[w].at = "look"
    /\ WriterAt(w, [at |-> "link", row |-> writer[w].row, fresh |-> TRUE,
                    siigo |-> writer[w].siigo, woo |-> shopHas])
    /\ UNCHANGED <<siigoHas, shopHas, product, links, overlapped, apart>>

(* A new row needs a product that has none by then; an update, its row.    *)
SaveLink(w) ==
    LET seen == writer[w]
        number == IF seen.row = 0 THEN links + 1 ELSE seen.row
    IN  /\ seen.at = "link"
        /\ product.row = seen.row
        /\ number <= MaxLinks
        /\ product' = [row |-> number, siigo |-> seen.siigo, woo |-> seen.woo,
                       status |-> Status(seen.siigo, seen.woo)]
        /\ links' = IF seen.row = 0 THEN number ELSE links
        /\ apart' = ~seen.fresh
        /\ WriterAt(w, Unoccupied)
        /\ UNCHANGED <<siigoHas, shopHas, overlapped>>

LinkConflicts(w) ==
    /\ writer[w].at = "link"
    /\ product.row # writer[w].row
    /\ WriterAt(w, Unoccupied)
    /\ UNCHANGED <<siigoHas, shopHas, product, links, overlapped, apart>>

-----------------------------------------------------------------------------
(* ProductsService.sync, remove                                            *)

(* The store is sent what the row says of Siigo.                           *)
BeginPublication(w) ==
    /\ There
    /\ Begins(w, [at |-> "publish", row |-> product.row, woo |-> product.siigo])
    /\ UNCHANGED <<siigoHas, shopHas, product, links, apart>>

ShopTakes(w) ==
    /\ writer[w].at = "publish"
    /\ shopHas' = writer[w].woo
    /\ writer' = [o \in Writer |->
            IF o = w THEN [at |-> "published", row |-> writer[w].row,
                           woo |-> writer[w].woo, fresh |-> TRUE]
            ELSE Outdated(writer[o])]
    /\ UNCHANGED <<siigoHas, product, links, overlapped, apart>>

ShopRefuses(w) ==
    /\ writer[w].at = "publish"
    /\ WriterAt(w, [writer[w] EXCEPT !.at = "refused"])
    /\ UNCHANGED <<siigoHas, shopHas, product, links, overlapped, apart>>

(* The store took the value and the answer is lost.                        *)
ShopUnheard(w) ==
    /\ writer[w].at = "publish"
    /\ shopHas' = writer[w].woo
    /\ apart' = TRUE
    /\ writer' = [o \in Writer |->
            IF o = w THEN [writer[w] EXCEPT !.at = "refused"]
            ELSE Outdated(writer[o])]
    /\ UNCHANGED <<siigoHas, product, links, overlapped>>

(* The row is written by its number, and may be gone.                      *)
MarkPublished(w) ==
    /\ writer[w].at = "published"
    /\ IF product.row = writer[w].row
       THEN /\ product' = [product EXCEPT !.woo = writer[w].woo, !.status = "SYNCED"]
            /\ apart' = ~writer[w].fresh
       ELSE UNCHANGED <<product, apart>>
    /\ WriterAt(w, Unoccupied)
    /\ UNCHANGED <<siigoHas, shopHas, links, overlapped>>

MarkUnpublished(w) ==
    IF product.row = writer[w].row THEN [product EXCEPT !.status = "ERROR"]
    ELSE product

PublicationFails(w) ==
    /\ writer[w].at = "refused"
    /\ product' = MarkUnpublished(w)
    /\ WriterAt(w, Unoccupied)
    /\ UNCHANGED <<siigoHas, shopHas, links, overlapped, apart>>

RemoveProduct ==
    /\ There
    /\ product' = NoProduct
    /\ UNCHANGED <<siigoHas, shopHas, links, writer, overlapped, apart>>

-----------------------------------------------------------------------------
(* SiigoWebhookService: n8n tells of a change in Siigo                     *)

(* n8n finds a product of the CRM changed in Siigo, and may write the      *)
(* value to the store before it calls.                                     *)
N8nReports(w) ==
    /\ There
    /\ \E woo \in {siigoHas, "failed", "none"} :
        /\ Begins(w, [at |-> "report", siigo |-> siigoHas, woo |-> woo,
                      fresh |-> TRUE])
        /\ shopHas' = IF woo \in Price THEN woo ELSE shopHas
    /\ UNCHANGED <<siigoHas, product, links, apart>>

(* n8n wrote to the store, and its call does not arrive.                   *)
ReportIsLost(w) ==
    /\ writer[w].at = "report"
    /\ apart' = (apart \/ writer[w].woo \in Price)
    /\ WriterAt(w, Unoccupied)
    /\ UNCHANGED <<siigoHas, shopHas, product, links, overlapped>>

(* Without news of the store, what is in the row counts.                   *)
SlipWebhookStatus(report) ==
    IF report.woo = "failed" THEN "ERROR" ELSE Status(report.siigo, siigoHas)
WebhookStatus(report) ==
    IF report.woo = "failed" THEN "ERROR"
    ELSE Status(report.siigo,
            IF report.woo = "none" THEN product.woo ELSE report.woo)

FindReported(w) ==
    /\ writer[w].at = "report"
    /\ IF There
       THEN WriterAt(w, [at |-> "record", siigo |-> writer[w].siigo,
                         woo |-> writer[w].woo, fresh |-> writer[w].fresh,
                         status |-> WebhookStatus(writer[w])])
       ELSE WriterAt(w, Unoccupied)
    /\ UNCHANGED <<siigoHas, shopHas, product, links, overlapped, apart>>

(* The row is found again by the identifier of Siigo, and may be another.  *)
RecordReport(w) ==
    LET report == writer[w] IN
    /\ report.at = "record"
    /\ IF There
       THEN /\ product' = [product EXCEPT !.siigo = report.siigo,
                    !.woo = IF report.woo \in Price THEN report.woo ELSE @,
                    !.status = report.status]
            /\ apart' = IF report.woo \in Price THEN ~report.fresh ELSE apart
       ELSE UNCHANGED <<product, apart>>
    /\ WriterAt(w, Unoccupied)
    /\ UNCHANGED <<siigoHas, shopHas, links, overlapped>>

-----------------------------------------------------------------------------
WriterStep(w) ==
    \/ LinkRefused(w) \/ LookAtShop(w) \/ SaveLink(w) \/ LinkConflicts(w)
    \/ ShopTakes(w) \/ ShopRefuses(w) \/ ShopUnheard(w)
    \/ MarkPublished(w) \/ PublicationFails(w)
    \/ ReportIsLost(w) \/ FindReported(w) \/ RecordReport(w)

MirrorNext ==
    \/ \E value \in Price : SiigoChanges(value) \/ ShopChanges(value)
    \/ \E w \in Writer :
        \/ BeginLink(w) \/ BeginPublication(w) \/ N8nReports(w)
        \/ WriterStep(w)
    \/ RemoveProduct

MirrorSpec == MirrorInit /\ [][MirrorNext]_mirrorVars

-----------------------------------------------------------------------------
(* The row and the requests have the declared shapes, and no two rows the  *)
(* same number.                                                            *)
MirrorTypeOK ==
    /\ {siigoHas, shopHas} \subseteq Price
    /\ product \in Mirror \cup {NoProduct}
    /\ links \in 0..MaxLinks /\ product.row <= links
    /\ writer \in [Writer -> WriterState]
    /\ {overlapped, apart} \subseteq BOOLEAN

(* A product shown as SYNCED has the same prices and stock on both sides   *)
(* of its row, and its store has them too, unless the store changed        *)
(* without the CRM hearing of it or is changing now: whoever wrote last,   *)
(* and from whatever it compared.  The code does not promise it once two   *)
(* requests overlapped: a publication that began before a report marks     *)
(* SYNCED a row whose Siigo side has changed.                              *)
MirrorIsTrue ==
    There /\ product.status = "SYNCED" /\ ~overlapped =>
        /\ product.siigo = product.woo
        /\ \/ product.woo = shopHas
           \/ apart
           \/ \E w \in Writer : writer[w].at \in {"published", "report", "record"}

-----------------------------------------------------------------------------
(* The inductive invariant behind it: while no two requests have ever      *)
(* overlapped, only one is at work, what it calls fresh is what the store  *)
(* has, and what it is about to write agrees with the row it will write.   *)
AtWork(w) == writer[w] # Unoccupied
WorksAlone == \A w, o \in Writer : AtWork(w) /\ AtWork(o) => w = o

FreshIsShops(w) ==
    /\ writer[w].at \in {"link", "published"} =>
            (writer[w].fresh => writer[w].woo = shopHas)
    /\ writer[w].at \in {"report", "record"} =>
            (writer[w].woo \in Price /\ writer[w].fresh => writer[w].woo = shopHas)

(* The product's row is the one that a publication began with, or gone.    *)
FitsTheRow(w) ==
    /\ writer[w].at \in {"publish", "published"} /\ There =>
            product.row = writer[w].row /\ product.siigo = writer[w].woo
    /\ writer[w].at = "record" /\ There =>
            writer[w].status = WebhookStatus(writer[w])

(* The row knows the store's value, whatever its status, or a request      *)
(* that is still at work wrote the store and will write the row.           *)
ShopIsKnown ==
    There => \/ product.woo = shopHas \/ apart
             \/ \E w \in Writer :
                    \/ writer[w].at = "published"
                    \/ writer[w].at \in {"report", "record"} /\ writer[w].woo \in Price

MirrorIInv ==
    /\ MirrorTypeOK
    /\ There /\ product.status = "SYNCED" /\ ~overlapped =>
            product.siigo = product.woo
    /\ ~overlapped =>
        /\ WorksAlone
        /\ \A w \in Writer : FreshIsShops(w) /\ FitsTheRow(w)
        /\ ShopIsKnown
=============================================================================
