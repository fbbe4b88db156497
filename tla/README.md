# SevaleCRM: specifications

SevaleCRM is a CRM for a shop that sells in WooCommerce and invoices in Siigo.
One Node process (NestJS, `apps/api`) serves a React client (`apps/web`) and
keeps everything in MySQL through Prisma. It talks to four services: WooCommerce
(two stores, SERATUS and PALI: orders, products, coupons, customers), Siigo
(invoices, quotations, products, customers), Puntos Colombia (a points programme)
and n8n (webhooks). There is no message broker and no second process: concurrency
is that of HTTP requests, timers and background loops interleaved at every
`await`, and the hard part of almost every component is the same. A remote call
may be done without its answer arriving, a row read before a call may have
changed after it, and the process may restart between the two.

The modules here model those components, TLC checks them on small instances and
TLAPS proves their safety properties for every instance.

## Inventory

| Component | State | Operations | What is hard | What makes it correct | Module |
|---|---|---|---|---|---|
| Loyalty accruals (`loyalty/points-invoices.*`) | `points_invoices`, `points_accruals` | register, accrue, revoke, remove | the provider applies a sale whose answer is lost or late; two requests on one invoice; restarts; deleted users | points of an invoice are granted once, a retry is offered only when nothing was granted or sent, the panel agrees with the programme | `PointsInvoices`, `PointsLedger` |
| Loyalty redemptions (`loyalty/points-redemptions.*`) | `points_redemptions` | ask for a code, redeem, attach an invoice | the same with points taken away; two invoices attached at once | the panel agrees with what was burned, closed redemptions stay closed, invoices document burned points | `PointsRedemptions` |
| Provider tokens (`puntos-colombia-token`, `siigo-token`) | `integration_tokens`, one pending refresh in memory | get, refresh | shared renewals, a token rejected while another request renews it | no login replaces a newer token, nobody is left waiting | `ProviderToken` |
| Puntos Colombia, Siigo and WooCommerce clients, integration HTTP | none | one call each | timeouts, 401 and retry | a lost answer is told from a rejection | outcomes of calls in the others |
| Bulk product sync (`inventory/bulk-product-sync`) | jobs and items in MySQL, a draining flag | create, drain, recover at start | jobs created while the drain ends, restarts, failing items, deleted products | one job at a time, every item is counted once, every job ends | `ProductSyncJobs` |
| Products (`inventory/product-link`, `products`) | `products` and their links | link, publish, remove, be reported by n8n | three writers that read long before they write | what is shown as synchronized is | `ProductMirror` |
| Coupons (`coupons/*`) | `coupons`, the stores' coupons | create, edit, publish, delete | late creations, a deletion beside a publication | what the CRM knows of is not forgotten, identifiers name the store's coupon | `CouponSync` |
| Orders (`orders/orders.*`) | operations, orders, items, amounts | create, edit, complete, reopen, retry, delete | both directions write one row; cents divided among stores and lines | an order is created and imported once, completed stays completed, amounts add up and are charged | `StoreOrders`, `OrderAmounts` |
| Inbound orders (`orders/woo-order-inbound.*`) | deliveries, orders | receive, import | repeated, concurrent and reordered webhooks, a restart in the middle | an order is imported once, old news do not undo newer ones | `StoreOrders`, `OrderAmounts` |
| Outbound orders (`orders/woo-order-outbound`) | export state of an order | search, create, update, confirm | lost answers, a webhook before the answer | one order in the store per exported order | `StoreOrders`, `OrderAmounts` |
| Siigo quotations (`orders/siigo-quotation*`) | quotation of an operation | create, update | edits between fingerprint, document and answer; two requests | what is shown as quoted is what Siigo has; one document | `Quotations` |
| Shipments (`orders/shipment-sync`) | shipment, one row per store | assign, publish, retry | a new assignment during a publication | what is shown as published is the last assignment | `Shipments` |
| Customers and their integrations (`customers/*`) | customers, links to three providers, queues in memory | edit, publish, link, delete | shared and chained jobs, edits and deletions meanwhile | SYNCED means that the provider has the data; one job at a time | `CustomerSync` |
| Users (`users/*`) | accounts | change, delete | two administrators at once | one administrator remains (it does not) | `UserAccounts` |
| Prospects (`prospects/*`, the import modal) | `prospects`, `customers` | add, edit, remove, convert, link, import | an import cut between two chunks and sent again, a conversion beside another | no person gets a second row, no number a second customer | `Prospects` |
| Agreements (`agreements/*`, their form) | `agreements`, objects of a bucket | upload, save, discard, delete | the bucket and the form are outside the transaction: lost answers, late deletions | an agreement names no logo that was deleted | `Agreements` |
| Auth and sessions (`auth/*`, `useSessionSecurity`, `AppShell`) | the session's row, what each tab knows, `localStorage` | open, renew, time out, sign out, revoke | several tabs, storage events, two clocks | only idle sessions end as idle, tabs end together | `BrowserSession` |
| Notifications, realtime gateway | rows for each user, open sockets | write, push, expire | — | — | — |
| Customer mapping, exchange rate, permissions, configuration | none, or one cached value | — | — | — | — |
| Order history, integration logs | append-only rows | append, read | — | — | — |
| Web client, validation, catalogues | browser state, none | — | — | the server checks everything again | — |

`PROJECT.json` lists every component with its sources and its status and, under
`hazards`, every place of this code that is hard to test, with the properties
that are about it. *Not modelled*, below, gives the reasons for what is left out.

How the parts interact: a completed operation (`StoreOrders`) is what a shipment
publishes (`Shipments`) and what a quotation documents (`Quotations`); each of
these modules has the operation's changes as actions of its own, with the guards
of `orders.service`. `OrderAmounts` takes the control of `StoreOrders` for granted
and follows the amounts. Every call to Siigo and Puntos Colombia goes through
`ProviderToken`. A user that is deleted takes the attempts of `PointsInvoices`
along. The other components share tables and processes but no rows.

## Modules

| Module | Models |
|---|---|
| `PointsInvoices` | loyalty accruals, with the provider, its calls and restarts |
| `PointsLedger` | what accruals promise: points are granted once and returned at most once |
| `PointsRedemptions` | redemptions, with the provider's codes and balances |
| `ProductSyncJobs` | the bulk publication of products: jobs, loop, workers, recovery |
| `ProductMirror` | one product in Siigo, in its store and in the CRM |
| `CouponSync` | a coupon code and its copies in the two stores |
| `StoreOrders` | operations, their orders, webhooks, and the orders of the stores |
| `OrderAmounts` | items, discounts, shipping and totals of an operation and its orders |
| `Quotations` | the quotation of an operation and its document in Siigo |
| `Shipments` | the shipment of an operation and its publication in the stores |
| `CustomerSync` | a customer and its publication in Siigo and the stores |
| `ProviderToken` | a provider's access token and the calls that need it |
| `UserAccounts` | administrators who change and delete accounts |
| `Prospects` | prospects, the files they come from and the customers they become |
| `Agreements` | the logos of agreements: forms, rows and the bucket |
| `BrowserSession` | one session of a browser and the tabs that share it |
| `PointsInvoicesProofs` | theorems about `PointsInvoices` |
| `PointsRedemptionsProofs` | theorems about `PointsRedemptions` |
| `ProductSyncJobsProofs` | theorems about `ProductSyncJobs` |
| `FaultsProofs` | theorems about `CouponSync`, `ProductMirror`, `Agreements` and `Quotations`, and about their composition `MCFaults` |
| `OrderAmountsProofs` | theorems about `OrderAmounts`, and about sums |
| `StoreOrdersProofs` | theorems about `StoreOrders` |
| `ServicesProofs` | theorems about `CustomerSync`, `ProviderToken` and `Shipments`, and about their composition `MCServices` |
| `ProspectsAndSessionsProofs` | theorems about `Prospects` and `BrowserSession`, and about the composition `MCOrdersAndAccruals` |
| `MC…` | small instances, symmetry sets and compositions for TLC |

Definitions called `Slip…` are plausible mistakes in the code they stand beside. No
specification uses them; putting one in the place of the definition it imitates
makes a property fail, and shows that the property depends on that code.

### How code becomes actions

* A handler is split at its awaits. A *request* record says which await it is in
  and which values it read before; requests are a fixed set, so that set bounds
  how many run together. Between two awaits the Node process runs alone, so code
  without an await is one action.
* A conditional `updateMany` is one action: the condition travels in the
  `where`, and MySQL locks the rows it matches. A `prisma.$transaction` is one
  action when it writes what its own conditions lock. Where a transaction first
  *reads* (MySQL's REPEATABLE READ does not lock plain reads) and the reading
  matters, it is two actions, the read and the write (`ImportRead` and `Import…`,
  `CheckQuotation` and `UpsertQuotation`, `AskDeletion` and `DeleteAccount`).
* A remote call may be processed and answered; processed without its answer
  arriving (`…Lost`, `…Unanswered`); refused; given up on before it is processed and
  never processed, or processed later (`wire`, `late…`). A timeout, a `5xx` and an
  unreadable answer are one outcome when the code takes them for one.
* `Crash` and `…Restart` end every request and leave the database and the calls on
  their way alone. What the process kept in memory (queues, promises, flags) is lost.
* A write that follows a provider's answer may throw (`DbMayFail`, `…Fails`). `catch`
  blocks are followed to the letter.
* *Mishaps* (restarts, failing writes, late calls) are counted and bounded by a
  constant named `Max…Mishaps`, so that a run shows what one or two of them do to
  any interleaving of the rest.
* `logs.record`, order events and notifications swallow their failures and are
  left out; formatting, parsing and validation too, where nothing depends on them.

### PointsInvoices

`invoice[i]` is the status of the row `i`, where `i` is a document and its n-th
registration (a removed document may be registered again, `Registration` bounds
how often); `accrual[a]` is the attempt `a`; `users` the users that exist. The actions are the
steps of `register` (`RegisterBegin`, `Create`), `accrue` (`AccrueBegin`, `Claim`,
`Sale…`, `MarkCompleted`, `RecordBalance`, `MarkFailed`), `revoke` (`RevokeBegin`,
`ClaimRevocation`, `Cancel…`, `MarkRevoked`, `MarkRevocationFailed`), `remove` and
`UsersService.remove` with its cascade. `credited` and `cancelled` are the
provider's books. `SeedDocs` are the documents typed in by hand for the
certification, which may be removed with their history: the properties are about the others.

### PointsRedemptions

`row[i]` is a row of `points_redemptions`; `codeOf` and `used` are the provider's
one-time codes and `burned`, `balance` its books. `RequestCode` stores nothing, as in
the code. `RedeemBegin` looks the balance up; `Create`, `Burn…` and `MarkApplied`, `MarkFailed` or `MarkUnverified` are the rest of
`redeem`; `AttachBegin` checks the status and `Attach` updates by id, with the
lookup in Siigo between them. The minimum of 200 points and the account's
`allowRedemption` flag are refusals before any state changes and are left out. So is
the clock that the transaction identifier is made of: a row of the model is its identifier.

### ProductSyncJobs

`job[j]` is a row of `product_sync_jobs` with the statuses of its items; `drain` is
where the loop is, awake or not being the flag `processing`. The query for a pending
job and the use of its answer are two steps (`Look`, then `Claim` or `Sleep`), and so
are the commit of a new job and its `schedule` (`Create`, `Schedule`). `todo[j]` and `worker[j, w]`
are `runWithConcurrency`: workers take batches until none is left, one that throws
ends the job (`FailJob`) and the others go on, also while the next job runs. A batch is
answered product by product or fails whole; `CompleteItem` and `FailItem` write one item with its counter,
and on a deleted product they throw (`WriteThrows`), which sends the whole batch to the handler that
fails it. The products' own columns are left out: they are written just before
the item, so that an interruption between the two repeats both.

### CouponSync

`coupon[c]` is the c-th row that one code has had (the code is unique), `shop[s]` the
identifier a store has under it. A request reads the row (`SyncBegin`, `RemoveBegin`) and then
holds a call to each store with an outcome of its own (`StoreAccepts`, `StoreRefuses`,
`StoreUnanswered`, which repeats changes and deletions once and creations never);
`SaveExternalId` is the write after a creation, `FinishSync` and `FinishRemove` what follows the
`Promise.all`. Calls given up on are in `late` and may be carried out at any time; two equal late calls count
as one. `unheard` records, for the properties, the identifiers whose answer or
write was lost. Contents of a coupon are left out, so an edit is the return to `PENDING`.

### ProductMirror

`product` is the row of one SKU: what the CRM last heard of it in Siigo and in its
store (`siigo`, `woo`), and the status that compares the two. Prices and stock are
compared together and are one value. A *writer* is a request that links the
product or reads both sides again (`BeginLink`, `LookAtShop`, `SaveLink`), publishes
(`BeginPublication`, `ShopTakes`, `MarkPublished` or `MarkUnpublished`) or is a report
of n8n (`FindReported`, `RecordReport`). `fresh` says whether the store changed since a
request read or wrote it; `overlapped` and `apart` remember that requests overlapped
or that the store changed by itself, after which no status can be right.
`MirrorIsTrue` excludes them, for good, and nothing else. The bulk job (`ProductSyncJobs`) writes the same row after its own
reading of both sides and is not a writer here: what it does to a product beside a link, a publication or a report is
not explored. One store is modelled; a SKU that both stores
have, and the refusals that follow, are left out.

### StoreOrders

`operation[o]` is an operation, `order[o][s]` its order of the store `s` with the link
to the store's order (`woo`), the revision it was last told of (`rev`, the
`date_modified` that `import` compares) and its synchronization; `shop[s][w]` is the
order of the store with the status of each of its revisions. A webhook tells one
revision, at any time after it and any number of times; `delivery` is the row that its
delivery identifier claims. A *handler* is a webhook request (`ClaimDelivery`,
`ImportRead`, then `ImportStale`, `ImportUpdates`, `ImportCreates`, `ImportCollides` or
`ImportFails`); a *job* is an order on its way to its store (`LoadOrder`, `Search…`,
`StoreCreates`, or `SnapshotRead` and `StoreUpdates` for a reopened one, and `Confirm`
or `ConfirmFails`). The staff create, edit, delete, complete, reopen and retry; those transactions are one action each. A store that was
taken out of an operation is not added to it again (`GONE`), customers and items are left out.

### OrderAmounts

The same rows seen from their amounts, in cents. The items of a row are a function of their places in the
form, the lines of a store's order one of their numbers, by which the store sorts them. `SaveForm` is `prepare` and its
`preparedOrder`: items by store, the coupon on what was not lowered, shares of the shipping of which
the last takes the rest. `LoadOrder` to `StoreUpdates` send them: a new order line by line,
or over the lines that the store has (the n-th item of a product goes over the n-th line of it, `Matches`; the others
are sent with quantity zero, the discount is distributed over its lines and the last one takes the rest).
A delivery that failed is sent again by `Retry` while the store has no order (`claimRetry`).
`ImportOrder` writes the store's amounts on the row and on the operation, if the webhook's schema
lets them through (`Acceptable`: there are lines, and no amount is negative).
`RetouchOrder` is somebody who changes lines in the store. `QuotedTotal` is what
`buildQuotation` asks Siigo for: every line with a percentage (`PercentOf`), and the
shipping of the operation. An imported line has the store's unit price and subtotal as two amounts
(`woo-order-inbound.normalizer.ts:194`); here its subtotal is price times quantity, so a store that
rounds its unit prices is left out, as is taking the tax off each price, so that Siigo adds it again. `agreed` are the stores where
neither side has changed since they last met, `reported` that one store of two wrote
its amounts. Catalogue prices do not change. That there are at most two stores is an assumption (the catalogue of
providers names SERATUS and PALI), as are amounts and quantities that are natural numbers (the schemas of the inputs).

### Quotations

`quotation` is the row of `siigo_quotations`, `documents` what Siigo has. The contents of
an operation stand for their fingerprint. A *quoter* reads the operation
(`ReadQuoted`), checks and claims the row (`CheckQuotation`, `UpsertQuotation`), builds the
document from the operation as it is by then (`LoadQuotationJob`), calls Siigo and
saves. `overlap` remembers that two requests were in charge of the row at once, which the claim's unlocked read allows.

### Shipments

The n-th assignment stands for its carrier, number and status. `storeSyncs` is the row of
each store, `tracked` what the store's order shows, an *errand* the update of one
store by one request; a request waits for all of them. `MarkShipment` records an answer
only if the shipment is still the one that was sent. `doubtful` are the stores for
which two requests worked at once or that an assignment passed by.

### CustomerSync

`ficha` is the customer, `link[p]` its row of `customer_integrations` for the provider
`p`, `people[p]` the customers that the provider has. A request reads the customer and
*enters the queue* of each provider: it joins the last job when that sends the same
data, waits behind it otherwise (`Enter`, `Following`, `Released`: the map of promises).
A job marks the row PENDING, finds or creates the customer, remembers its identifier,
updates it, and records how it went. `remover` is `customers.remove`, store by store.
`LinkCustomer` is n8n, which tells an identifier. A call outlives its job when its answer is lost, or when a
restart ends the request that was about to make it (`OnItsWay`, `Deletion`): it stays in `lateCalls`, where two
equal ones count as one, and arrives at any later time or never. An update is asked again by the client.
`uncertain` are the providers of which the property says nothing: an edit came while an older version was on
its way there, a store was asked to delete the customer, or n8n linked it. A provider leaves the set when it
accepts the present version with nothing older on its way (`NothingOlder`), or at an edit with nothing on its way at all.

### ProviderToken

`stored` is the row of `integration_tokens`, `usable` the tokens far enough from their
expiry; `refreshPromise` names the call whose renewal the others join. Both services
(Puntos Colombia, Siigo) have this protocol. A call is sent at most twice.

### UserAccounts

`update` reads, counts the active administrators and writes, with a query each;
`remove` reads its two facts at one moment and deletes at another.

### Prospects

`prospects` and `customers` are the rows, numbered as they are inserted (a removed one
leaves a mark); `agent[r]` is where a request is and what it read. A prospect is added,
edited (`BeginEdit`, `SaveEdit`), removed, converted into a new customer
(`BeginCreation`, `CheckNumber`, `InsertCustomer`, `MarkConverted`) or linked to one
that exists (`BeginLinking`). `BeginImport` reads which keys exist and keeps the new rows in the order of the file; `InsertChunk` inserts chunk by
chunk, a transaction each; one import request is one batch of the modal. `Interrupted` ends a
request anywhere. The properties compare rows with what the request that inserted them
could read (`read`, `checked`): rows that an overlapping request added are excused.

### Agreements

`logoOf` is the column `logo_url` of each agreement, `bucket` the objects of R2. A key is never used twice.
A form opens with the logo that the list showed (`OpenForm`), uploads the chosen file
(`ChooseFile`, `Uploaded`) or keeps or clears its logo (`Submit`), and waits for its save. `save[f]` is
that request at the server: `ReadCurrent`, then `WriteAgreement`, which starts the
deletion of the logo it read if the new one differs. A form whose save was refused or is unheard of
(`FormFails`) discards its upload: `DiscardChecked` looks whether an agreement uses it and
`DiscardEnds` deletes it. A deletion that fails is one that does not happen. The form can be
closed while its file is uploaded; the save then goes to what the page edits by then
(`CloseWhileUploading`). `unowned` are keys of saves that were carried out after their form gave
up, or by a form that brings back a replaced logo; `LogoIsThere` excepts them.

### BrowserSession

Moments are ages, counted up to the limit they are compared with. `session` is the row of the
server, `tab[t]` what a tab knows (the last activity it heard of, when it wrote and when it asked for a renewal),
`stored` the moment in `localStorage` and `news` the storage events a tab has not handled.
`RecordActivity`, `CheckTimeouts`, `HandleStorage` and `RefreshAnswered` are the
callbacks of `useSessionSecurity`; `Logout` and `LeaveTab` those of the shell; `BackgroundCall` is any
request through the guard. The clock is coarse: `Tick` waits until what was due has
happened. One session per behaviour; the client library's own refetches, the warning
before the limit and the handling of a `401` by a page are left out.

## Runs

Components that share nothing are checked in one run: `MCProgress`, `MCServices`,
`MCFaults` and `MCOrdersAndAccruals` each have a variable `moving` that chooses the
component whose actions take place, the others keep their initial state. A property
of such a component is a property of the run, and the fairness of a component
applies where it moves. This is the union of the state spaces, not their product.

Every run names all its bounds. `CHECK_DEADLOCK` is off because these systems
may rest: nobody has to start a request, and bounded tables fill up.

| Run | Components and bounds | Shows |
|---|---|---|
| `progress` | *jobs*: 2 jobs of 3 products that share one, 2 workers, a deleted product, a restart. *quotations*: 2 requests, 2 contents, 1 document, 1 mishap. *accruals* and *restarts*: 1 document, 3 registrations, 3 requests (2 without restarts and under fairness), 3 attempts | one job at a time, counters and summary are right; one credit per invoice, safe retries, exclusive claims, the panel agrees, the ledger is implemented (`GrantedOnce`), uncertain revocations are not resent; jobs end and claims are released |
| `services` | *redemptions*: 1 customer, 2 rows, 2 codes, 2 requests, amounts 1 and 2 of a balance of 3. *tokens*: 3 calls, 2 tokens, restarts. *shipments*: 1 store, 2 requests, 2 assignments, 1 mishap. *customers*: 1 store, 2 requests, 2 versions, 2 customers there, 1 edit, 1 mishap. *amounts*: 3 products of 2 stores at 3 to 9 cents, 4 forms, 12 imported orders, a coupon of 50 %, 1 change in the store | the panel agrees with the burns; renewals are shared and replace what is stored; what is shown as published is; a SYNCED customer is what the provider has, whatever calls were left behind; one job of a customer calls at a time; amounts agree, also those of the quotation; requests end |
| `faults` | *redemptions*: 2 customers, 2 rows, 2 codes, failing writes, restarts. *coupons*: 2 stores, 2 identifiers each, a late call, failing writes, restarts. *product*: 2 values, 2 rows, 2 requests. *quotations*: 2 documents, 1 mishap. *logos*: 1 agreement, 2 uploads, a lost answer. Always 2 requests or forms | invoices document burns; coupon identifiers name the store's coupon and a deletion forgets nothing it knew; SYNCED products are; quotations tell the truth, one document each; logos are there |
| `orders_accruals` | *orders*: 2 operations, one of the CRM that an edit may move to another store, 2 orders of one store with 2 revisions and 1, 2 webhooks and 1 job in progress, 1 mishap. *accruals*: 1 document, 2 registrations, 2 requests, 2 users that may be deleted, failing writes, restarts. *files*: 3 rows, 2 persons who share an address, 2 files, 2 requests. *conversions*: 1 prospect, 2 customers, 1 number, 2 types of document, 2 requests. *tabs*: 2 tabs, limits 2 < 3 < 4 < 7 < 10 | links are true, nothing is twice, failed orders can be retried, claims are held, old news are ignored (a completed operation and a reopened one stay what they are); no invoice is offered while a sale of it is on its way; no person gets a second row and no number a second customer; only idle sessions end as idle and tabs end together |

Two requests show every race of two handlers; the third of `progress` lets a
removal and a registration happen while a late accrual is out, and the third call of `services` joins
a renewal while another is rejected. Three attempts let
a document be tried, fail, and be tried again while its first sale is still on
the wire. A balance of 3 with amounts 1 and 2 makes a second burn affordable once
and unaffordable after. Documents, customers and providers' calls do not
influence each other beyond what two of each show. Of the two product jobs one sends a
batch of two products and the other two batches, so that a batch fails
halfway in one and a worker throws beside another in the other. A coupon gets a second identifier in a store only
after its first coupon there was deleted, so two identifiers show an old and a new one; its code has one row there,
so creating a deleted code again beside requests of the old row is not explored.
Orders of the two stores of an operation meet only in the operation's status and, in `OrderAmounts`,
in its sums, where both stores are present; so `StoreOrders` needs the second store only for an edit that
changes stores, and the shipments and customers of one store (rows, jobs and queues are per store) one store each.
One mishap per behaviour is what a careful operator meets: two independent ones within one
request are not explored. The logos of one agreement show what those of several do, as a key belongs to one upload.
The limits of a session keep the order of the real ones (5 seconds, 4 and 5 minutes, 2 and 8 hours
are 2, 3, 4, 7 and 10 ticks). Two persons who share an address are what a file can confuse, and chunks
of one row let an interruption fall between any two. Cents of 3 to 9 with halves and thirds make every rounding of shares and discounts go both ways.

Fairness is weak, per request, on the action that continues it. The event loop
resumes a request whose awaited call has settled; an HTTP call settles because
`performRequest` aborts it after its time limit; a database call settles because
the driver times out; the loop and the workers of `ProductSyncJobs` are resumed
likewise, and a promise that others wait for (`refreshPromise`, the queues of a customer) settles
when its owner does. Nothing makes a user start a request or a provider process
a call. `InsistentSpec` adds an operator who keeps retrying (strong fairness on
`AccrueBegin`), for one run that shows that even insisting does not help.

### Where documents and code differ

Eight runs are expected to fail. Each checks one sentence of the README, of a
comment or of a message; `findings` in `PROJECT.json` quotes it.

| Run | What happens instead of the sentence |
|---|---|
| `points_double_accrual` | a failed write after an applied sale leaves the invoice FAILED, and its points are granted again |
| `points_interrupted` | an accrual interrupted by a restart is never resumed |
| `redemptions_two_invoices` | an invoice may be replaced by one attached at the same time |
| `coupons_orphan` | a creation carried out after its time limit leaves a coupon that no row names, also after the coupon is deleted |
| `orders_retry` | a reopened order whose closing could not be confirmed asks for a retry that nobody can make |
| `orders_sum` | the webhook of one store writes its amounts on the operation of both |
| `quotations_returned` | an operation edited back after a lost update is refused as already quoted, while Siigo has the other contents |
| `users_last_admin` | two administrators who take each other's access away leave none |

### Differences

Further differences between what the code does and what its documents, comments or
a reader would say were met while modelling. The models follow the code, and the
properties exclude these cases; they have no run of their own. Where a hazard's central
case is among them, its entry in `PROJECT.json` has a note that says so. `README.md` is the
repository's own.

*Points.*

* A revocation sends the identifier of the newest attempt read before its claim
  (`points-invoices.service.ts:682`), while README.md:391 describes the claimed one; a
  cancellation whose write fails is recorded as a failed revocation (`service:756`),
  which `points-invoices.repository.ts:314` says undid nothing.
* Deleting a user cascades to the attempts behind credited points
  (`prisma/schema.prisma`, `PointsAccrual.user`), while the README says that their trail cannot be lost.
* A failed write after an applied burn records `FAILED`, for which
  `points-redemptions.service.ts:218` says nothing was burned; an unverified burn does
  not block another redemption of the customer (`points-redemptions.repository.ts:80`); two
  redemptions of one second share the identifier that `prisma/schema.prisma:1093`
  calls exact; a restart leaves a redemption in PROCESSING for good.
* A rejected call that joins a renewal which was not about its token may be repeated
  with the same token (README.md:185 says renewed).

*Orders.*

* Two imports of one order that overlap: the one that read first may write last, an
  older revision over a newer one; a webhook read before a reopening cancels the
  operation again (`woo-order-inbound.repository.ts:209`).
* A webhook with CANCELLED sets a reopened operation that was completed back to
  PENDING with its order SYNCED.
* A reopened imported operation to which an edit adds an order of the other store: the webhook
  of that order, arriving before its confirmation, creates an operation of its own
  (adoption is for operations of the CRM) and the confirmation fails by the unique key.
  Cancelled and completed again while its jobs run, it gets two jobs, which may
  create two orders or confirm an older revision last.
* An imported operation whose store order an edit removed keeps its code; the webhooks of that order fail for ever.
* A delivery left PENDING, an order or a quotation left SYNCING, a shipment row left
  PENDING or SYNCING by a restart is claimed by nobody again.
* `updatePending`, `reopen` and the claims read the status without a lock; the models take each
  for one action.
* `woocommerce.service.ts:452` and `woo-order-outbound.service.ts:256` say opposite things of
  what a `PUT` does to the lines it omits.
* A second shipping line of the store is not touched by the `PUT` and stays charged; a
  reopened import in which every price differs from the catalogue loses its
  discount; the last share of a discount over many lines of a cent may exceed its line.
* A second order that a late call made for one operation may be imported as an operation of its
  own; cancelled and completed again, it is written with the key of that one, while an import that
  read it as an order of the CRM links it: `LinkIsTrue` says whose order a row is linked to only for stores where no late
  call created one.
* Webhooks overwrite the edits of a reopened operation that is still pending.

*Quotations, shipments, products, coupons.*

* The claim of a quotation reads the row without a lock: two requests may be in
  charge at once and create two documents (README.md:334 says one).
* The order of a store that an edit dropped and another brought back finds an older
  `SYNCED` row; a `PUT` that is carried out late overwrites a newer assignment. A retry or an assignment whose request takes
  the row of a store where an earlier request is still at work (`shipment-sync.service.ts:64`, the mark goes by identifier) may see that one record its
  success for the newer data.
* A publication of a product writes SYNCED over a report that changed its Siigo side
  meanwhile; a publication whose answer was lost and a report without the store's
  result show SYNCED while the store differs. A product job committed while the loop goes to sleep
  waits for the next one.
* An edit during the publication of a coupon is shown as `SYNCED`, while README.md:322 says
  that every edit returns it to `PENDING`; a late update overwrites a newer one.

* A quotation is said to coincide with the total of its order
  (`siigo-quotation-input.ts:32`). It does not when a store filled a row while the operation keeps its coupon (the coupon is
  asked for lines the store sold without it), for an imported discount on a line whose price is not the
  catalogue's (it is sent with none), for a line that the store charges above its subtotal (the excess is not a discount, `woo-order-inbound.normalizer.ts:44`), for what `orders_sum` shows, and by
  half a hundredth of a percent of each line, as percentages have two decimals. `QuotationAgrees` says so.

*Customers, prospects, agreements, accounts.*

* A customer edited during its publication ends SYNCED. A `PUT` that outlives its request (a time limit, a restart)
  may overwrite a version that was published after an edit, and a `DELETE` that does
  deletes a customer that the CRM kept and shows as SYNCED. A removal that a store refuses
  leaves the identifiers of customers already deleted in another; a late creation an orphan.
* Two customers may have one number with different types of document: the service looks
  for the number, the key is on both (`customers.service.ts:348`, `schema.prisma:261`).
* A prospect that is removed or edited while it is converted disappears or opens
  again (`prospects.service.ts:468` says that the converted one is history); two imports at once duplicate rows
  (`prospects.repository.ts:118`). The edit form overwrites the status of a prospect converted meanwhile.
* Uploading a file again adds its rows without document and address again, and a row
  with an address that only a prospect with a document has (README.md:142 says no repeated rows).
* Choosing another file while one is being imported sets `cancelledRef` back to
  `false` (`ProspectImportModal.tsx:162`): the first loop goes on beside the new one.
* A form opened before a logo was replaced saves a key that was deleted, which README.md:101
  calls a broken reference; two edits at once that both replace one logo leave a new one in the
  bucket that nobody names (README.md:99 says the former one is deleted).
* The form of an agreement can be closed, or sent twice, while its file is uploaded, as
  only the save counts as submitting. The save then goes to what the page is editing by then: another agreement,
  or none, which creates one (`AgreementsPage.tsx:63`).
* Sockets are authenticated at the handshake only and outlive a revoked session
  (README.md:217); a login that overlaps a change of access keeps its session (README.md:71).
* The server may let a session expire some nine minutes before the tabs count two idle
  hours, as renewals are asked for every four minutes and made every five; the warning of
  two minutes before (README.md:456) then does not come.
* A session that ended by revocation, by the server's absolute limit or by a sign-out elsewhere, or whose renewal was answered with an error status, is announced as idle
  (`useSessionSecurity.ts:105`). A tab that slept through a sign-out and a new
  login handles the old events and ends the new session.

## Proofs

The theorems hold for every value of the constants: any number of documents, users, requests, jobs,
operations, tabs and rows, and any bounds. Each has the same shape. The property is
seldom inductive, so the module states what the code relies on between two
awaits: what a request, a job or a call on its way knows of the rows. The conjunction is
an invariant that every action keeps, one lemma for each, and the property follows from it.
TLC checked each of these invariants before it was proved; those of most modules stand at their end.

*PointsInvoices.* `TypeCorrect` and `RetriesWait` need no assumption: whatever fails and whoever is
removed. The first is proved with `Linked`: what a request, a call or a credit names was inserted.
`RetriesWait` rests on `Waiting`: the invoice of a sale on its way is taken, so is that of a request at work on it,
one such request serves an invoice, and it waits for exactly that sale or knows that it knows nothing.
`AtMostOneCredit` holds because a sale is sent only by a claim,
a claim needs an invoice that is PENDING or FAILED, and an invoice reaches FAILED
only when its sale was not applied. The strengthening `IInv` says so: a sale is
*spent* while its call may still be applied or was; the invoice of a spent sale is
in a state that can be neither claimed nor removed (`SpentIsTaken`); a document has
one row and one spent sale at most (`OneRowPerDoc`, `SpentOnce`); claims exclude each
other (`Exclusive`); and a request about to write a definitive failure knows of no
spent sale of its document (`FailedIsUnspent`). `Inductive` proves it under
`~DbMayFail`, which is exactly what the run `points_double_accrual` shows it cannot do
without. `SingleCredit`, `RetriesAreSafe` and `Implements` (the refinement of
`PointsLedger`) follow. `UncertainStays` adds what the attempts say of themselves (`Told`), and
`PanelIsTrue` what has been asked of the provider about each invoice and what the request in charge
knows of it (`Booking`). It also assumes `~UsersRemovable`: a user who is deleted takes the attempts along.

*PointsRedemptions.* `Control` is inductive whatever fails: a request that is
redeeming holds a row in PROCESSING that nobody else holds. From it follow
`TypeCorrect` and `ClosedForGood`. With `~DbMayFail`, `Inductive` adds that a request
knows of its burn what its step says and that a row has at most one call on its
way, never one that was applied; `PanelIsRight` and `InvoicesAreFounded` are its consequences.

*ProductSyncJobs.* Batches that wait or are in hand share no product (`Disjoint`) and nobody has
recorded theirs (`Unrecorded`), whence the counters; only claimed jobs have workers
(`Unattended`), and everything pending of the running job is in some worker's reach (`Covered`), whence
the summary. A failed batch is recorded again only when a product was deleted, and the counters are promised only until then.

*Quotations.* Every identifier is one that Siigo gave (`GivenIds`); while nothing went wrong, one request is in charge,
keeps the row SYNCING and follows the document the row names (`OneInCharge`), and what was written is there (`WrittenIsThere`).

*CustomerSync.* Each queue is a chain: every job waits behind another one, no two behind the same, none behind the last
(`Queue`), so one calls. Where no version may come late, whatever is on its way is the present one (`Present`): what
queued requests read, jobs carry, and lost answers and restarts left behind. So such a call does no harm
until an edit, and an edit marks the provider until a publication finds nothing older on its way.

*ProviderToken, Shipments.* One renewal runs, about the token that its caller was rejected with (`OneRenewal`,
`OwnRejection`), and its token is newer than any other (`NewTokenIsNew`). One request works for a store that is not doubtful,
and a SYNCING row has the call of the last assignment (`InStep`).

*CouponSync, ProductMirror, Agreements.* A coupon's identifier that is about to be saved is known to nobody else
(`SavesWhatIsThere`), and what a request read of its row still tells what it may do (`WorkIsFounded`). While no two requests on a product overlapped, what
a request calls fresh is what the store has and what it will write fits the row (`FreshIsShops`, `FitsTheRow`, `ShopIsKnown`). An upload
belongs to its form until a save takes it (`UploadIsPrivate`), and what is about to be deleted has no owner (`DoomedHaveNoOwner`).

*StoreOrders.* `OrdersIInv` has two halves. `Rows`: an operation that was not completed is unknown to jobs, calls and stores
(`Unsent`), and two operations are never linked to one order (`LinkedOnce`). `Work`: a job that will create found nothing and nothing was
created since (`JobIsTrue`), late changes are of imported operations' orders only (`LateIsTrue`), and an import knows
what it read (`ImportIsTrue`). `NoOrderTwice` and `FailuresAreRetryable` follow; `OldNewsStaysOld` is an action
property over it; `NothingIsStuck` also follows each claimed order and delivery to who holds it. `LinksAreTrue` needs `Belongs` besides: whoever
else an order was created for is linked already, and in a store without late orders it is its own.

*BrowserSession.* An open tab hears of a removal or something is stored (`HearsRemoval`); a tab that heard of all
writings knows nothing older than what is stored, which is as recent as activities are written (`KnowsStored`, `StoredIsRecent`); the renewal
is as recent as renewals are asked for and made (`RenewalIsRecent`); and whoever left told the others (`LeavingEnds`). The
limits need no order among them: any positive numbers will do.

*Prospects.* The number of a customer being created was free when it was looked for (`NumberIsFree`); what an import has left to
insert repeats no row that was there when it read, nor one it inserted, nor itself (`RestIsNew`). `NoRowTwice` then compares each
inserted chunk with the rows before it.

*OrderAmounts.* The amounts are sums over functions (`SumFunction`), and what a sum does is proved from its
definition by choosing a smallest domain for which a fact fails (`SetInduction`): a sum splits at one element or at a
subset, does not change when its elements are renumbered, is bounded by its terms. Three facts about rounding carry the
rest: a rounded quotient is half a unit away at most, the shares of two stores add up (this is where
there being two stores matters), and the line discounts of a row add up to its discount. `AmountsInv` says of each row that
it adds up and where it comes from, a coupon or a store (`IsRow`), of each order of a store that its lines are numbered up to `lastId` (`IsShelf`),
of a delivery on its way that what it carries was such a row, and is the present one if it will create the order (`IsDelivery`); of a store that agrees, that it charges what the
row says and follows the coupon's rule (`Met`); and of the operation, that it is the sum of its rows
until a store of two reports (`SumsHold`). `AmountsDoAgree`, `QuotationsAgree` and
`LoweredPricesDoKeepOut` follow, the second by adding up the roundings of the lines and of the coupons.
The proof showed an exception that the small instances had not: a line that the store charges above what it
costs is quoted at its cost; `QuotationAgrees` now names it.

*Compositions.* `ServicesAreTheirParts`, `FaultsAreTheirParts` and `OrdersAndAccrualsAreTheirParts` say that, seen from
any of the components that a run checks together, a behaviour of the composition is one of the component: a step
moves one of them and the others wait. So whatever is proved of a module holds of the run, and the
type invariants of the compositions (`ServicesTypes`, `FaultsTypes`, `OrdersAndTabsTypes`) follow.

*Assumptions.* Only the named ones on constants, which TLC evaluates in every run (bounds are naturals, a marker is
not a request, the catalogue is finite, there are at most two stores, amounts are naturals, an empty column is no document, a price is not the word for its absence), and `~DbMayFail`
and `~UsersRemovable` where a theorem states them. Exceptions that the code makes are in the properties, not in assumptions.

*Only model-checked:* liveness (`ProgressSettles`, `ServicesSettle`), as fairness and `ENABLED` are out
of the prover's reach. Every invariant and every action property of the passing runs is stated by a theorem.

## Not modelled

Most of the repository's lines are screens of the React client, input schemas, catalogues
of places and scripts. They keep no state that outlives a page, or check the shape of one request, and a model of
them would restate them. What is left out of the server, and why:

* *Order history, integration logs, notifications.* Rows that are appended after the fact (notifications are deleted when
  old). Their failures are swallowed and no decision reads them.
* *Realtime gateway.* It tells open panels to ask again. A lost message leaves an old
  screen until the next refresh; what a panel does on a message is decided by the cache of
  its query library, which is not part of the repository.
* *Customer mapping.* Field by field conversion between the CRM's customers and those of the
  providers. A model would need the providers' field rules.
* *n8n.* Its reports are actions of `ProductMirror` (`FindReported`, `RecordReport`) and
  `CustomerSync` (`LinkCustomer`); the workflows themselves are elsewhere.
* *Permissions, configuration, exchange rate.* A fixed table, start-up code and a cached number.
* *Points conversions.* Two roundings of money into points, without state.
* *Users* beyond administrators: roles, passwords and codes by mail belong to the library
  `better-auth`, of which only the session's life is used (`BrowserSession`).
* *Agreements* beyond logos, *prospects'* tags and assignment, *orders'* addresses, lists and exports:
  each request writes one row that nothing else decides on.
* *Shared packages* (`validation`, `shared`, `permissions`): they fix the inputs that the models
  enumerate; the division of shipping (`order-shipping.ts`) is in `OrderAmounts`.
* *Adoption of a webhook's order* assumes that its customer is the one of the operation;
  `outboundOrders` loads all orders of an operation in one read, and the models one by one.
