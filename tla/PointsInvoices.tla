---------------------------- MODULE PointsInvoices ----------------------------
(***************************************************************************)
(* The Puntos Colombia panel: registering an invoice, accruing its points, *)
(* revoking them and removing the invoice.                                 *)
(*                                                                         *)
(*   apps/api/src/loyalty/points-invoices.service.ts     (the handlers)    *)
(*   apps/api/src/loyalty/points-invoices.repository.ts  (the transactions)*)
(*   apps/api/src/integrations/puntos-colombia/...       (the provider)    *)
(*                                                                         *)
(* A request is an HTTP request inside the one Node process; it runs from  *)
(* one await to the next, and its `step' names the call it is about to     *)
(* make or is waiting for.  A prisma.$transaction is one step.  A call to  *)
(* the provider is a message that the provider may process before, after   *)
(* or without the answer that the request sees: the client gives up after  *)
(* ten seconds and the provider does not know.                             *)
(***************************************************************************)
EXTENDS Naturals, FiniteSets

CONSTANTS
    Doc,            \* invoice names, the nut and transactionId of every call
    SeedDocs,       \* those typed in as UAT_SEED; the others come from Siigo
    Registration,   \* how many rows a document may get, one after another
    Request,        \* HTTP requests that may be in progress together
    User,           \* CRM users
    MaxAccruals,    \* bound: rows of points_accruals ever inserted
    DbMayFail,      \* may a database write fail after a provider answer?
    MayCrash,       \* may the Node process restart?
    UsersRemovable, \* may a user be deleted (users.service.ts remove)?
    None

AccrualId == 1..MaxAccruals
InvoiceId == Doc \X Registration

ASSUME PointsAssumption ==
    /\ SeedDocs \subseteq Doc
    /\ MaxAccruals \in Nat
    /\ DbMayFail \in BOOLEAN
    /\ MayCrash \in BOOLEAN
    /\ UsersRemovable \in BOOLEAN
    /\ None \notin InvoiceId \cup AccrualId \cup User \cup Doc

VARIABLES
    invoice,    \* points_invoices.status of every row, by id
    accrual,    \* points_accruals, by autoincrement id
    users,      \* the users that still exist
    request,    \* where each HTTP request is
    wire,       \* provider calls sent and not yet processed by the provider
    credited,   \* provider: sales it has applied, by the accrual they name
    cancelled   \* provider: sales it has applied and then cancelled

database == <<invoice, accrual, users>>
provider == <<wire, credited, cancelled>>
vars == <<invoice, accrual, users, request, wire, credited, cancelled>>

InvoiceStatus ==
    {"PENDING", "PROCESSING", "COMPLETED", "FAILED", "UNVERIFIED",
     "REVOKING", "REVOKED"}
AccrualStatus == {"PROCESSING", "COMPLETED", "FAILED", "UNVERIFIED"}
RevocationStatus ==
    {"NULL", "PROCESSING", "COMPLETED", "FAILED", "UNVERIFIED"}
Step ==
    {"idle", "create", "claim", "sale", "complete", "balance", "fail",
     "claimRevocation", "cancel", "revoked", "revocationFail"}
Call == [op : {"sale", "cancel"}, accrual : AccrualId]

Idle ==
    [step |-> "idle", user |-> None, doc |-> None, invoice |-> None,
     accrual |-> None, original |-> None, uncertain |-> FALSE]
UnusedAccrual ==
    [invoice |-> None, user |-> None, status |-> "UNUSED",
     revocation |-> "NULL"]

AccrualRow ==
    [invoice : InvoiceId \cup {None}, user : User \cup {None},
     status : AccrualStatus \cup {"UNUSED", "DELETED"},
     revocation : RevocationStatus]
RequestState ==
    [step : Step, user : User \cup {None}, doc : Doc \cup {None},
     invoice : InvoiceId \cup {None}, accrual : AccrualId \cup {None},
     original : AccrualId \cup {None}, uncertain : BOOLEAN]

TypeOK ==
    /\ invoice \in [InvoiceId -> InvoiceStatus \cup {"UNUSED", "DELETED"}]
    /\ accrual \in [AccrualId -> AccrualRow]
    /\ users \subseteq User
    /\ request \in [Request -> RequestState]
    /\ wire \subseteq Call
    /\ credited \subseteq AccrualId
    /\ cancelled \subseteq credited

Init ==
    /\ invoice = [i \in InvoiceId |-> "UNUSED"]
    /\ accrual = [a \in AccrualId |-> UnusedAccrual]
    /\ users = User
    /\ request = [r \in Request |-> Idle]
    /\ wire = {}
    /\ credited = {}
    /\ cancelled = {}

-----------------------------------------------------------------------------
(* The tables, as the queries see them. *)

Row(i) == invoice[i] \in InvoiceStatus
DocOf(i) == i[1]
Invoices(d) == {i \in InvoiceId : DocOf(i) = d}
Attempts(i) ==
    {a \in AccrualId :
        accrual[a].invoice = i /\ accrual[a].status \in AccrualStatus}
CompletedAttempts(i) == {a \in Attempts(i) : accrual[a].status = "COMPLETED"}
Latest(A) == {a \in A : \A b \in A : b =< a}      \* orderBy id desc, take 1

(* An update of both rows by id: Prisma rejects it, and rolls it back, when *)
(* either row is gone.                                                      *)
BothRows(i, a) == Row(i) /\ accrual[a].status \in AccrualStatus

Goto(r, step) == request' = [request EXCEPT ![r].step = step]
Finish(r) == request' = [request EXCEPT ![r] = Idle]
Begin(r, u, fields) ==
    /\ request[r].step = "idle"
    /\ u \in users
    /\ request' = [request EXCEPT ![r] = fields]
    /\ UNCHANGED <<database, provider>>

-----------------------------------------------------------------------------
(* Registering: the lookup by Siigo id or by name and the insert are two   *)
(* queries; the unique keys of points_invoices decide the race.            *)

RowsLeft(d) ==      \* bound: an id for every insert that was started
    Cardinality({i \in Invoices(d) : invoice[i] = "UNUSED"}) >
    Cardinality({r \in Request : request[r].step = "create" /\ request[r].doc = d})

RegisterBegin(r, u, d) ==
    /\ RowsLeft(d)
    /\ \A i \in Invoices(d) : ~Row(i)
    /\ Begin(r, u, [Idle EXCEPT !.step = "create", !.user = u, !.doc = d])

(* Slip: no unique key.  Every definition marked `Slip' is a plausible      *)
(* mistake in the code, not used by Spec; a run must catch it.              *)
SlipNoUniqueName(d) == d \in Doc
UniqueName(d) == \A i \in Invoices(d) : ~Row(i)

Create(r) ==
    /\ request[r].step = "create"
    /\ \/ /\ UniqueName(request[r].doc)
          /\ request[r].user \in users
          /\ \E i \in Invoices(request[r].doc) :
                /\ invoice[i] = "UNUSED"
                /\ invoice' = [invoice EXCEPT ![i] = "PENDING"]
       \/ /\ ~UniqueName(request[r].doc) \/ request[r].user \notin users
          /\ UNCHANGED invoice
    /\ Finish(r)
    /\ UNCHANGED <<accrual, users, provider>>

-----------------------------------------------------------------------------
(* Accruing.  A request that the owner check or the account lookup refuses *)
(* ends there and changes nothing.                                         *)

(* Request r is between a claim of i and the write that closes it. *)
Holding(r, i) ==
    /\ request[r].invoice = i
    /\ request[r].step \in
        {"sale", "complete", "fail", "cancel", "revoked", "revocationFail"}

(* Bound: an id for every claim that was started; a claim abandoned by a    *)
(* crash cannot be won again and needs none.                                *)
AttemptsLeft(i) ==
    \/ Cardinality({a \in AccrualId : accrual[a].status = "UNUSED"}) >
       Cardinality({r \in Request : request[r].step = "claim"})
    \/ invoice[i] = "PROCESSING" /\ \A r \in Request : ~Holding(r, i)

AccrueBegin(r, u, i) ==
    /\ AttemptsLeft(i)
    /\ Row(i)
    /\ Begin(r, u, [Idle EXCEPT !.step = "claim", !.user = u, !.invoice = i])

SlipClaimUnverified(i) ==       \* Slip: an uncertain accrual is retried
    invoice[i] \in {"PENDING", "FAILED", "UNVERIFIED"}
Claimable(i) == invoice[i] \in {"PENDING", "FAILED"}
NextAccrual == {a \in AccrualId :
    /\ accrual[a].status = "UNUSED"
    /\ \A b \in AccrualId : b < a => accrual[b].status # "UNUSED"}

(* The claim and the call that follows it with no await in between.  Like  *)
(* every insert or update that names its user, it needs that user to exist *)
(* (foreign key).                                                          *)
Claim(r) ==
    LET i == request[r].invoice  u == request[r].user IN
    /\ request[r].step = "claim"
    /\ \/ /\ Claimable(i)
          /\ u \in users
          /\ \E a \in NextAccrual :
                /\ accrual' = [accrual EXCEPT ![a] =
                        [invoice |-> i, user |-> u, status |-> "PROCESSING",
                         revocation |-> "NULL"]]
                /\ request' = [request EXCEPT ![r].step = "sale",
                                              ![r].accrual = a]
                /\ wire' = wire \cup {[op |-> "sale", accrual |-> a]}
          /\ invoice' = [invoice EXCEPT ![i] = "PROCESSING"]
       \/ /\ ~Claimable(i) \/ u \notin users
          /\ Finish(r)
          /\ UNCHANGED <<invoice, accrual, wire>>
    /\ UNCHANGED <<users, credited, cancelled>>

SaleCall(r) == [op |-> "sale", accrual |-> request[r].accrual]

(* What the request learns of its processsale call: an applied sale, a     *)
(* rejection, the code for a transaction the provider already knows, or    *)
(* nothing certain (a timeout, a 5xx, a broken connection, a bad payload). *)
SaleAccepted(r) ==
    /\ request[r].step = "sale"
    /\ SaleCall(r) \in wire
    /\ wire' = wire \ {SaleCall(r)}
    /\ credited' = credited \cup {request[r].accrual}
    /\ Goto(r, "complete")
    /\ UNCHANGED <<database, cancelled>>

SaleRejected(r) ==
    /\ request[r].step = "sale"
    /\ SaleCall(r) \in wire
    /\ wire' = wire \ {SaleCall(r)}
    /\ Goto(r, "fail")
    /\ UNCHANGED <<database, credited, cancelled>>

KnownToProvider(d) == \E a \in credited : DocOf(accrual[a].invoice) = d

SaleDuplicate(r) ==
    /\ request[r].step = "sale"
    /\ SaleCall(r) \in wire
    /\ KnownToProvider(DocOf(request[r].invoice))
    /\ wire' = wire \ {SaleCall(r)}
    /\ request' = [request EXCEPT ![r].step = "fail", ![r].uncertain = TRUE]
    /\ UNCHANGED <<database, credited, cancelled>>

(* Slip: a timeout is read as a rejection.                                 *)
SlipTimeoutIsRejection(r) ==
    /\ request[r].step = "sale"
    /\ Goto(r, "fail")
    /\ UNCHANGED <<database, provider>>

SaleUnanswered(r) ==
    /\ request[r].step = "sale"
    /\ request' = [request EXCEPT ![r].step = "fail", ![r].uncertain = TRUE]
    /\ UNCHANGED <<database, provider>>

(* An exception in the try block is not ambiguous unless it is an HTTP one: *)
(* a failed write sends the request to the catch with uncertain = FALSE.    *)
MarkCompleted(r) ==
    LET i == request[r].invoice  a == request[r].accrual IN
    /\ request[r].step = "complete"
    /\ \/ /\ BothRows(i, a)
          /\ invoice' = [invoice EXCEPT ![i] = "COMPLETED"]
          /\ accrual' = [accrual EXCEPT ![a].status = "COMPLETED"]
          /\ Goto(r, "balance")
       \/ /\ DbMayFail \/ ~BothRows(i, a)
          /\ Goto(r, "fail")
          /\ UNCHANGED <<invoice, accrual>>
    /\ UNCHANGED <<users, provider>>

(* The balance in pesos is optional, but writing it is inside the try.     *)
RecordBalance(r) ==
    /\ request[r].step = "balance"
    /\ \/ Finish(r)
       \/ /\ DbMayFail \/ accrual[request[r].accrual].status \notin AccrualStatus
          /\ Goto(r, "fail")
    /\ UNCHANGED <<database, provider>>

(* Slip: the catch writes nothing when the failure is uncertain.           *)
SlipUncertainIsDropped(r) ==
    LET i == request[r].invoice  a == request[r].accrual IN
    /\ request[r].step = "fail"
    /\ IF BothRows(i, a) /\ ~request[r].uncertain
       THEN /\ invoice' = [invoice EXCEPT ![i] = "FAILED"]
            /\ accrual' = [accrual EXCEPT ![a].status = "FAILED"]
       ELSE UNCHANGED <<invoice, accrual>>
    /\ Finish(r)
    /\ UNCHANGED <<users, provider>>

MarkFailed(r) ==
    LET i == request[r].invoice
        a == request[r].accrual
        s == IF request[r].uncertain THEN "UNVERIFIED" ELSE "FAILED"
    IN
    /\ request[r].step = "fail"
    /\ \/ /\ BothRows(i, a)
          /\ invoice' = [invoice EXCEPT ![i] = s]
          /\ accrual' = [accrual EXCEPT ![a].status = s]
       \/ /\ DbMayFail \/ ~BothRows(i, a)
          /\ UNCHANGED <<invoice, accrual>>
    /\ Finish(r)
    /\ UNCHANGED <<users, provider>>

-----------------------------------------------------------------------------
(* Revoking.  The identifier to cancel is read from the newest attempt,    *)
(* whatever its status, before the claim picks the newest completed one.   *)

RevokeBegin(r, u, i) ==
    /\ Row(i)
    /\ \E a \in Latest(Attempts(i)) :
        Begin(r, u, [Idle EXCEPT !.step = "claimRevocation", !.user = u,
                                 !.invoice = i, !.original = a])

(* Slip: an uncertain cancellation is repeated.                            *)
SlipRevokeUnverified(i) ==
    {a \in Latest(CompletedAttempts(i)) :
        invoice[i] = "COMPLETED" /\ accrual[a].revocation # "COMPLETED"}

(* The attempt a revocation of i may claim. *)
Revocable(i) ==
    {a \in Latest(CompletedAttempts(i)) :
        invoice[i] = "COMPLETED" /\ accrual[a].revocation \in {"NULL", "FAILED"}}

ClaimRevocation(r) ==
    LET i == request[r].invoice  u == request[r].user IN
    /\ request[r].step = "claimRevocation"
    /\ \/ /\ u \in users
          /\ \E a \in Revocable(i) :
                /\ accrual' = [accrual EXCEPT ![a].revocation = "PROCESSING"]
                /\ request' = [request EXCEPT ![r].step = "cancel",
                                              ![r].accrual = a]
          /\ invoice' = [invoice EXCEPT ![i] = "REVOKING"]
          /\ wire' = wire \cup
                {[op |-> "cancel", accrual |-> request[r].original]}
       \/ /\ Revocable(i) = {} \/ u \notin users
          /\ Finish(r)
          /\ UNCHANGED <<invoice, accrual, wire>>
    /\ UNCHANGED <<users, credited, cancelled>>

CancelCall(r) == [op |-> "cancel", accrual |-> request[r].original]
Cancellable(a) == a \in credited /\ a \notin cancelled

CancelAccepted(r) ==
    /\ request[r].step = "cancel"
    /\ CancelCall(r) \in wire
    /\ Cancellable(request[r].original)
    /\ wire' = wire \ {CancelCall(r)}
    /\ cancelled' = cancelled \cup {request[r].original}
    /\ Goto(r, "revoked")
    /\ UNCHANGED <<database, credited>>

CancelRejected(r) ==
    /\ request[r].step = "cancel"
    /\ CancelCall(r) \in wire
    /\ wire' = wire \ {CancelCall(r)}
    /\ Goto(r, "revocationFail")
    /\ UNCHANGED <<database, credited, cancelled>>

CancelUnanswered(r) ==
    /\ request[r].step = "cancel"
    /\ request' = [request EXCEPT ![r].step = "revocationFail",
                                  ![r].uncertain = TRUE]
    /\ UNCHANGED <<database, provider>>

(* Slip: a revoked invoice goes back to PENDING, to be accrued again.      *)
SlipRevokedIsPending(r) ==
    LET i == request[r].invoice  a == request[r].accrual IN
    /\ request[r].step = "revoked"
    /\ IF BothRows(i, a)
       THEN /\ invoice' = [invoice EXCEPT ![i] = "PENDING"]
            /\ accrual' = [accrual EXCEPT ![a].revocation = "COMPLETED"]
       ELSE UNCHANGED <<invoice, accrual>>
    /\ Finish(r)
    /\ UNCHANGED <<users, provider>>

MarkRevoked(r) ==
    LET i == request[r].invoice  a == request[r].accrual IN
    /\ request[r].step = "revoked"
    /\ \/ /\ BothRows(i, a)
          /\ invoice' = [invoice EXCEPT ![i] = "REVOKED"]
          /\ accrual' = [accrual EXCEPT ![a].revocation = "COMPLETED"]
          /\ Finish(r)
       \/ /\ DbMayFail \/ ~BothRows(i, a)
          /\ Goto(r, "revocationFail")
          /\ UNCHANGED <<invoice, accrual>>
    /\ UNCHANGED <<users, provider>>

(* Slip: every failed cancellation is recorded as a definitive one.        *)
SlipAlwaysFailed(r) ==
    LET i == request[r].invoice  a == request[r].accrual IN
    /\ request[r].step = "revocationFail"
    /\ IF BothRows(i, a)
       THEN /\ invoice' = [invoice EXCEPT ![i] = "COMPLETED"]
            /\ accrual' = [accrual EXCEPT ![a].revocation = "FAILED"]
       ELSE UNCHANGED <<invoice, accrual>>
    /\ Finish(r)
    /\ UNCHANGED <<users, provider>>

MarkRevocationFailed(r) ==
    LET i == request[r].invoice
        a == request[r].accrual
        s == IF request[r].uncertain THEN "UNVERIFIED" ELSE "FAILED"
    IN
    /\ request[r].step = "revocationFail"
    /\ \/ /\ BothRows(i, a)
          /\ invoice' = [invoice EXCEPT ![i] = "COMPLETED"]
          /\ accrual' = [accrual EXCEPT ![a].revocation = s]
       \/ /\ DbMayFail \/ ~BothRows(i, a)
          /\ UNCHANGED <<invoice, accrual>>
    /\ Finish(r)
    /\ UNCHANGED <<users, provider>>

-----------------------------------------------------------------------------
(* Removing an invoice: one transaction.  A test invoice goes in any       *)
(* state; a Siigo one only while nothing of it reached the provider.       *)

Removable(i) ==
    \/ DocOf(i) \in SeedDocs
    \/ /\ invoice[i] \in {"PENDING", "FAILED"}
       /\ \A a \in Attempts(i) : accrual[a].status = "FAILED"

Remove(i) ==
    /\ Row(i)
    /\ Removable(i)
    /\ invoice' = [invoice EXCEPT ![i] = "DELETED"]
    /\ accrual' = [a \in AccrualId |->
            IF a \in Attempts(i) THEN [accrual[a] EXCEPT !.status = "DELETED"]
                                 ELSE accrual[a]]
    /\ UNCHANGED <<users, request, provider>>

(* Deleting a user cascades to the accruals that user sent.  Nobody deletes *)
(* their own account, so one user always remains.                           *)
RemoveUser(u) ==
    /\ UsersRemovable
    /\ u \in users
    /\ users # {u}
    /\ users' = users \ {u}
    /\ accrual' = [a \in AccrualId |->
            IF accrual[a].user = u /\ accrual[a].status \in AccrualStatus
            THEN [accrual[a] EXCEPT !.status = "DELETED"]
            ELSE accrual[a]]
    /\ UNCHANGED <<invoice, request, provider>>

-----------------------------------------------------------------------------
(* The provider processes a call whose answer reaches nobody: it came      *)
(* after the client gave up, was lost, or the process had restarted.       *)

ProviderSale(a) ==
    /\ [op |-> "sale", accrual |-> a] \in wire
    /\ wire' = wire \ {[op |-> "sale", accrual |-> a]}
    /\ credited' = credited \cup {a}
    /\ UNCHANGED <<database, request, cancelled>>

ProviderCancel(a) ==
    /\ [op |-> "cancel", accrual |-> a] \in wire
    /\ wire' = wire \ {[op |-> "cancel", accrual |-> a]}
    /\ cancelled' = IF a \in credited THEN cancelled \cup {a} ELSE cancelled
    /\ UNCHANGED <<database, request, credited>>

(* The process restarts: every request in memory is gone.                  *)
Crash ==
    /\ MayCrash
    /\ \E r \in Request : request[r] # Idle
    /\ request' = [r \in Request |-> Idle]
    /\ UNCHANGED <<database, provider>>

-----------------------------------------------------------------------------
Start(r) ==
    \E u \in User :
        \/ \E d \in Doc : RegisterBegin(r, u, d)
        \/ \E i \in InvoiceId : AccrueBegin(r, u, i) \/ RevokeBegin(r, u, i)

Continue(r) ==
    \/ Create(r)
    \/ Claim(r)
    \/ SaleAccepted(r)
    \/ SaleRejected(r)
    \/ SaleDuplicate(r)
    \/ SaleUnanswered(r)
    \/ MarkCompleted(r)
    \/ RecordBalance(r)
    \/ MarkFailed(r)
    \/ ClaimRevocation(r)
    \/ CancelAccepted(r)
    \/ CancelRejected(r)
    \/ CancelUnanswered(r)
    \/ MarkRevoked(r)
    \/ MarkRevocationFailed(r)

Next ==
    \/ \E r \in Request : Start(r) \/ Continue(r)
    \/ \E i \in InvoiceId : Remove(i)
    \/ \E u \in User : RemoveUser(u)
    \/ \E a \in AccrualId : ProviderSale(a) \/ ProviderCancel(a)
    \/ Crash

Spec == Init /\ [][Next]_vars

(* The event loop resumes every request whose awaited call has settled, and *)
(* every provider call settles within its ten-second timeout.  Nothing      *)
(* forces anybody to start a request, or the provider to process a call.    *)
FairSpec == Spec /\ \A r \in Request : WF_vars(Continue(r))

(* The same, with an operator who keeps retrying every invoice shown and a  *)
(* process that at some point stops restarting.                            *)
InsistentSpec ==
    /\ FairSpec
    /\ <>[][~Crash]_vars
    /\ \A i \in InvoiceId :
        SF_vars(\E r \in Request, u \in User : AccrueBegin(r, u, i))

-----------------------------------------------------------------------------
(* Properties.  They are about real invoices: a test invoice may be removed *)
(* with its history and entered again.                                      *)

RealDocs == Doc \ SeedDocs
RealInvoices == {i \in InvoiceId : DocOf(i) \in RealDocs}
AttemptsOf(d) ==
    {a \in AccrualId :
        accrual[a].status # "UNUSED" /\ DocOf(accrual[a].invoice) = d}
CreditsOf(d) == AttemptsOf(d) \cap credited
SaleInFlight(d) ==
    \E a \in AttemptsOf(d) : [op |-> "sale", accrual |-> a] \in wire

(* The provider never applies two sales of one invoice, whoever retries it, *)
(* removes it, registers it again, or restarts the process, and however     *)
(* late it processes a call that timed out.                                 *)
AtMostOneCredit == \A d \in RealDocs : \A a, b \in CreditsOf(d) : a = b

(* An invoice the panel offers to accrue (PENDING, FAILED, or not in the    *)
(* panel at all) was never credited: a late answer cannot surprise it.      *)
RetryIsSafe ==
    \A d \in RealDocs :
        (\A i \in Invoices(d) : Row(i) => Claimable(i)) => CreditsOf(d) = {}

(* ... and no sale of it is still on its way to the provider.              *)
RetryWaitsForSale ==
    \A d \in RealDocs :
        (\A i \in Invoices(d) : Row(i) => Claimable(i)) => ~SaleInFlight(d)

(* What the panel shows is what the programme holds: COMPLETED invoices     *)
(* keep their points unless a cancellation is unverified, and the points of *)
(* REVOKED ones went back.                                                  *)
PanelMatchesLedger ==
    \A i \in RealInvoices :
        LET d == DocOf(i) IN
        /\ invoice[i] = "COMPLETED" =>
            \/ CreditsOf(d) \ cancelled # {}
            \/ \E a \in Attempts(i) : accrual[a].revocation = "UNVERIFIED"
        /\ invoice[i] = "REVOKED" =>
            CreditsOf(d) # {} /\ CreditsOf(d) \subseteq cancelled

(* After an ambiguous answer nothing is sent again: an UNVERIFIED invoice   *)
(* stays as it is, and a cancellation left UNVERIFIED is not repeated.      *)
CallsFor(d, calls) == {c \in calls : c.accrual \in AttemptsOf(d)}
UncertainIsNeverResent ==
    [][\A i \in RealInvoices :
        \/ invoice[i] = "UNVERIFIED"
        \/ \E a \in Attempts(i) : accrual[a].revocation = "UNVERIFIED"
        => /\ CallsFor(DocOf(i), wire') \subseteq wire
           /\ invoice'[i] = invoice[i]]_vars

(* The inductive invariant behind AtMostOneCredit, when no write fails      *)
(* after the provider answered.  First, requests, calls and credits name    *)
(* attempts that were inserted, and attempts name invoices.                 *)
AtWork ==
    {"sale", "complete", "balance", "fail", "cancel", "revoked",
     "revocationFail"}
Inserted(a) == a \in AccrualId /\ accrual[a].status # "UNUSED"
RequestLinked(r) ==
    LET q == request[r] IN
    /\ q.step \in AtWork \cup {"claim", "claimRevocation"} =>
            q.invoice \in InvoiceId
    /\ q.step \in AtWork =>
            Inserted(q.accrual) /\ accrual[q.accrual].invoice = q.invoice
    /\ q.step \in {"claimRevocation", "cancel"} => Inserted(q.original)
Linked ==
    /\ \A r \in Request : RequestLinked(r)
    /\ \A a \in AccrualId : Inserted(a) => accrual[a].invoice \in InvoiceId
    /\ \A c \in wire : Inserted(c.accrual)
    /\ \A a \in credited : Inserted(a)

(* A sale is spent once its call may be, or was, applied.  The invoice of a *)
(* spent sale is in no state from which it can be claimed or removed.       *)
Sale(a) == [op |-> "sale", accrual |-> a]
Spent(a) == a \in credited \/ Sale(a) \in wire
Taken == {"PROCESSING", "COMPLETED", "UNVERIFIED", "REVOKING", "REVOKED"}
Real(a) == DocOf(accrual[a].invoice) \in RealDocs
SameDoc(a, b) == DocOf(accrual[a].invoice) = DocOf(accrual[b].invoice)

OneRowPerDoc ==
    \A i, j \in RealInvoices :
        DocOf(i) = DocOf(j) /\ Row(i) /\ Row(j) => i = j
SpentIsTaken ==
    \A a \in AccrualId : Spent(a) /\ Real(a) => invoice[accrual[a].invoice] \in Taken
SpentOnce ==
    \A a, b \in AccrualId :
        Spent(a) /\ Spent(b) /\ Real(a) /\ SameDoc(a, b) => a = b
AppliedOnce == \A a \in AccrualId : ~(a \in credited /\ Sale(a) \in wire)

(* The request that will close a claim, while its attempt still exists.     *)
Accrues(r, i) ==
    /\ request[r].invoice = i
    /\ \/ request[r].step \in {"sale", "complete"}
       \/ request[r].step = "fail" /\ accrual[request[r].accrual].status # "DELETED"
Revokes(r, i) ==
    /\ request[r].invoice = i
    /\ request[r].step \in {"cancel", "revoked", "revocationFail"}
    /\ accrual[request[r].accrual].status # "DELETED"
Exclusive ==
    \A i \in RealInvoices : \A r \in Request :
        /\ Accrues(r, i) => invoice[i] = "PROCESSING"
        /\ Revokes(r, i) => invoice[i] = "REVOKING"
        /\ \A s \in Request :
            \/ Accrues(r, i) /\ Accrues(s, i)
            \/ Revokes(r, i) /\ Revokes(s, i)
            => r = s

(* A definitive failure is written only for a sale that was not applied.    *)
FailedUnspent(r) ==
    LET q == request[r] IN
    q.step = "fail" /\ ~q.uncertain /\ accrual[q.accrual].status # "DELETED"
        => \A a \in AccrualId :
            Spent(a) /\ Real(a) => ~SameDoc(a, q.accrual)
FailedIsUnspent == \A r \in Request : FailedUnspent(r)

Safe ==
    /\ OneRowPerDoc
    /\ SpentIsTaken
    /\ SpentOnce
    /\ AppliedOnce
    /\ Exclusive
    /\ FailedIsUnspent
IInv == TypeOK /\ Linked /\ Safe

(* The promise of PointsLedger, read off the provider's books.             *)
pointsOf ==
    [d \in RealDocs |->
        IF CreditsOf(d) = {} THEN "none"
        ELSE IF CreditsOf(d) \subseteq cancelled THEN "returned" ELSE "granted"]
Ledger == INSTANCE PointsLedger WITH Invoice <- RealDocs, points <- pointsOf
GrantedOnce == Ledger!Spec

(* No invoice stays claimed: PROCESSING and REVOKING are passing states,    *)
(* whatever the provider answers or fails to answer.                        *)
ClaimsAreReleased ==
    \A i \in RealInvoices :
        invoice[i] \in {"PROCESSING", "REVOKING"}
            ~> invoice[i] \notin {"PROCESSING", "REVOKING"}

(* An accrual interrupted by a restart is taken up again by some retry.     *)
InterruptedAccrualIsResumed ==
    \A i \in RealInvoices :
        invoice[i] = "PROCESSING" ~> invoice[i] # "PROCESSING"
=============================================================================
