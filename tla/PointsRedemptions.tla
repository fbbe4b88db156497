--------------------------- MODULE PointsRedemptions ---------------------------
(***************************************************************************)
(* Redeeming points: the operator asks for a one-time code, burns points of *)
(* the customer with it, and later attaches the Siigo invoice of the sale. *)
(*                                                                         *)
(*   apps/api/src/loyalty/points-redemptions.service.ts                    *)
(*   apps/api/src/loyalty/points-redemptions.repository.ts                 *)
(*                                                                         *)
(* As in PointsInvoices a request runs from one await to the next, and the *)
(* provider may process a call before, after or without its answer.        *)
(***************************************************************************)
EXTENDS Naturals

CONSTANTS
    Account,        \* customers of the points programme
    Balance,        \* the points each of them starts with
    Amount,         \* the amounts the operator may ask for
    Invoice,        \* Siigo invoices that can be attached
    Request,        \* HTTP requests that may be in progress together
    MaxRows,        \* bound: rows of points_redemptions
    MaxCodes,       \* bound: one-time codes issued
    DbMayFail,      \* may a database write fail?
    MayCrash,       \* may the Node process restart?
    None

RowId == 1..MaxRows
Code == 1..MaxCodes

ASSUME RedemptionsAssumption ==
    /\ Balance \in Nat
    /\ Amount \subseteq Nat
    /\ MaxRows \in Nat
    /\ MaxCodes \in Nat
    /\ DbMayFail \in BOOLEAN
    /\ MayCrash \in BOOLEAN
    /\ None \notin Account \cup Invoice \cup RowId \cup Code

VARIABLES
    row,        \* points_redemptions, by autoincrement id
    request,    \* where each HTTP request is
    wire,       \* burns sent and not yet processed by the provider
    burned,     \* provider: the burns it has applied, by the row they name
    balance,    \* provider: the points of every account
    codeOf,     \* provider: the account each issued code authorises
    used        \* provider: the codes a burn has consumed

provider == <<wire, burned, balance, codeOf, used>>
vars == <<row, request, wire, burned, balance, codeOf, used>>

RedemptionStatus ==
    {"PROCESSING", "PENDING_INVOICE", "COMPLETED", "FAILED", "UNVERIFIED"}
Row ==
    [status : RedemptionStatus \cup {"UNUSED"}, account : Account \cup {None},
     points : Amount \cup {0}, invoice : Invoice \cup {None}]
Step == {"idle", "create", "burn", "apply", "reject", "unverified", "attach"}
RequestState ==
    [step : Step, account : Account \cup {None}, points : Amount \cup {0},
     code : Code \cup {None}, row : RowId \cup {None},
     invoice : Invoice \cup {None}]
Burn == [row : RowId, code : Code]

UnusedRow ==
    [status |-> "UNUSED", account |-> None, points |-> 0, invoice |-> None]
Idle ==
    [step |-> "idle", account |-> None, points |-> 0, code |-> None,
     row |-> None, invoice |-> None]

TypeOK ==
    /\ row \in [RowId -> Row]
    /\ request \in [Request -> RequestState]
    /\ wire \subseteq Burn
    /\ burned \subseteq RowId
    /\ balance \in [Account -> 0..Balance]
    /\ codeOf \in [Code -> Account \cup {None}]
    /\ used \subseteq Code

Init ==
    /\ row = [i \in RowId |-> UnusedRow]
    /\ request = [r \in Request |-> Idle]
    /\ wire = {}
    /\ burned = {}
    /\ balance = [a \in Account |-> Balance]
    /\ codeOf = [c \in Code |-> None]
    /\ used = {}

Goto(r, step) == request' = [request EXCEPT ![r].step = step]
Finish(r) == request' = [request EXCEPT ![r] = Idle]

-----------------------------------------------------------------------------
(* The provider sends a code to the customer; nothing is stored.           *)
RequestCode(c, a) ==
    /\ codeOf[c] = None
    /\ codeOf' = [codeOf EXCEPT ![c] = a]
    /\ UNCHANGED <<row, request, wire, burned, balance, used>>

(* The balance is looked up again before anything is written.              *)
Affordable(a, p) == p =< balance[a]

RedeemBegin(r, a, p, c) ==
    /\ request[r].step = "idle"
    /\ Affordable(a, p)
    /\ request' = [request EXCEPT ![r] =
            [Idle EXCEPT !.step = "create", !.account = a, !.points = p,
                         !.code = c]]
    /\ UNCHANGED <<row, provider>>

NextRow == {i \in RowId :
    /\ row[i].status = "UNUSED"
    /\ \A j \in RowId : j < i => row[j].status # "UNUSED"}

(* The attempt is opened before the call that follows it.                  *)
Create(r) ==
    LET q == request[r] IN
    /\ q.step = "create"
    /\ \/ \E i \in NextRow :
            /\ row' = [row EXCEPT ![i] =
                    [status |-> "PROCESSING", account |-> q.account,
                     points |-> q.points, invoice |-> None]]
            /\ request' = [request EXCEPT ![r].step = "burn", ![r].row = i]
            /\ wire' = wire \cup {[row |-> i, code |-> q.code]}
       \/ /\ DbMayFail \/ NextRow = {}
          /\ Finish(r)
          /\ UNCHANGED <<row, wire>>
    /\ UNCHANGED <<burned, balance, codeOf, used>>

-----------------------------------------------------------------------------
(* The provider: a burn needs its code, unused, and the points.            *)

Valid(b) ==
    /\ codeOf[b.code] = row[b.row].account
    /\ b.code \notin used
    /\ row[b.row].points =< balance[row[b.row].account]

Apply(b) ==
    LET a == row[b.row].account IN
    /\ Valid(b)
    /\ wire' = wire \ {b}
    /\ burned' = burned \cup {b.row}
    /\ balance' = [balance EXCEPT ![a] = @ - row[b.row].points]
    /\ used' = used \cup {b.code}
    /\ UNCHANGED codeOf

(* ... in a call whose answer reaches nobody.                              *)
ProviderBurn(b) ==
    /\ b \in wire
    /\ \/ Apply(b)
       \/ /\ ~Valid(b)
          /\ wire' = wire \ {b}
          /\ UNCHANGED <<burned, balance, codeOf, used>>
    /\ UNCHANGED <<row, request>>

BurnCall(r) == [row |-> request[r].row, code |-> request[r].code]

BurnAccepted(r) ==
    /\ request[r].step = "burn"
    /\ BurnCall(r) \in wire
    /\ Apply(BurnCall(r))
    /\ Goto(r, "apply")
    /\ UNCHANGED row

BurnRejected(r) ==
    /\ request[r].step = "burn"
    /\ BurnCall(r) \in wire
    /\ wire' = wire \ {BurnCall(r)}
    /\ Goto(r, "reject")
    /\ UNCHANGED <<row, burned, balance, codeOf, used>>

(* Slip: a timeout is read as a rejection, or never comes.  Definitions     *)
(* marked `Slip' are plausible mistakes in the code, not used by Spec.      *)
SlipTimeoutIsRejection(r) ==
    /\ request[r].step = "burn"
    /\ Goto(r, "reject")
    /\ UNCHANGED <<row, provider>>

BurnUnanswered(r) ==
    /\ request[r].step = "burn"
    /\ Goto(r, "unverified")
    /\ UNCHANGED <<row, provider>>

-----------------------------------------------------------------------------
(* The writes that close the attempt.  An exception of markApplied is not  *)
(* an HTTP one, so the catch takes it for a rejection.                     *)

Write(i, s) == row' = [row EXCEPT ![i].status = s]

MarkApplied(r) ==
    /\ request[r].step = "apply"
    /\ \/ Write(request[r].row, "PENDING_INVOICE") /\ Finish(r)
       \/ DbMayFail /\ Goto(r, "reject") /\ UNCHANGED row
    /\ UNCHANGED provider

MarkFailed(r) ==
    /\ request[r].step = "reject"
    /\ \/ Write(request[r].row, "FAILED")
       \/ DbMayFail /\ UNCHANGED row
    /\ Finish(r)
    /\ UNCHANGED provider

MarkUnverified(r) ==
    /\ request[r].step = "unverified"
    /\ \/ Write(request[r].row, "UNVERIFIED")
       \/ DbMayFail /\ UNCHANGED row
    /\ Finish(r)
    /\ UNCHANGED provider

-----------------------------------------------------------------------------
(* Attaching the invoice: the status is checked before the lookup in Siigo *)
(* and the update that follows is by id alone.                             *)

SlipAttachable(i) ==            \* Slip: an unverified burn is documented too
    row[i].status \in {"PENDING_INVOICE", "UNVERIFIED"}
Attachable(i) == row[i].status = "PENDING_INVOICE"

AttachBegin(r, i, n) ==
    /\ request[r].step = "idle"
    /\ Attachable(i)
    /\ request' = [request EXCEPT ![r] =
            [Idle EXCEPT !.step = "attach", !.row = i, !.invoice = n]]
    /\ UNCHANGED <<row, provider>>

Attach(r) ==
    LET q == request[r] IN
    /\ q.step = "attach"
    /\ \/ row' = [row EXCEPT ![q.row].status = "COMPLETED",
                             ![q.row].invoice = q.invoice]
       \/ DbMayFail /\ UNCHANGED row
    /\ Finish(r)
    /\ UNCHANGED provider

-----------------------------------------------------------------------------
Crash ==
    /\ MayCrash
    /\ \E r \in Request : request[r] # Idle
    /\ request' = [r \in Request |-> Idle]
    /\ UNCHANGED <<row, provider>>

Start(r) ==
    \/ \E a \in Account, p \in Amount, c \in Code : RedeemBegin(r, a, p, c)
    \/ \E i \in RowId, n \in Invoice : AttachBegin(r, i, n)

Continue(r) ==
    \/ Create(r)
    \/ BurnAccepted(r)
    \/ BurnRejected(r)
    \/ BurnUnanswered(r)
    \/ MarkApplied(r)
    \/ MarkFailed(r)
    \/ MarkUnverified(r)
    \/ Attach(r)

Next ==
    \/ \E r \in Request : Start(r) \/ Continue(r)
    \/ \E c \in Code, a \in Account : RequestCode(c, a)
    \/ \E b \in Burn : ProviderBurn(b)
    \/ Crash

Spec == Init /\ [][Next]_vars

(* The event loop resumes a request whose awaited call has settled, and a   *)
(* provider call settles within its ten-second timeout.                    *)
FairSpec == Spec /\ \A r \in Request : WF_vars(Continue(r))

-----------------------------------------------------------------------------
(* Properties                                                              *)

Redeeming == {"burn", "apply", "reject", "unverified"}

(* What the panel says of a redemption agrees with the provider: a failed   *)
(* one took nothing from the customer and never will, one that awaits its   *)
(* invoice or has it did burn the points, and points are never gone under   *)
(* a row that says otherwise.  A late burn may still arrive while the row   *)
(* is open or unverified.                                                   *)
PanelMatchesBurns == \A i \in RowId :
    /\ row[i].status = "FAILED" => i \notin burned
    /\ row[i].status = "FAILED" => \A b \in wire : b.row # i
    /\ row[i].status \in {"PENDING_INVOICE", "COMPLETED"} => i \in burned
    /\ i \in burned =>
        row[i].status \in {"PROCESSING", "PENDING_INVOICE", "COMPLETED", "UNVERIFIED"}

(* A closed redemption stays as it is: nothing reopens a failed or          *)
(* unverified one, one with its points burned only gains its invoice, and   *)
(* no step is undone by an answer that comes later.                         *)
ClosedStays == [][\A i \in RowId :
    /\ row[i].status \in {"FAILED", "UNVERIFIED"} => row'[i] = row[i]
    /\ row[i].status = "PENDING_INVOICE" => row'[i].status \in {"PENDING_INVOICE", "COMPLETED"}
    /\ row[i].status = "COMPLETED" => row'[i].status = "COMPLETED"]_row

(* Only redemptions whose points were burned are documented with an         *)
(* invoice, and every documented one has it (attachInvoice).                *)
InvoicesDocumentBurns == \A i \in RowId :
    /\ row[i].invoice # None => i \in burned
    /\ row[i].status = "COMPLETED" <=> row[i].invoice # None

(* What every step relies on: a request that is redeeming holds a row of    *)
(* its own in PROCESSING, knows of its burn what its step says, and a row   *)
(* has at most one call on its way, never one the provider applied.         *)
Held == \A r \in Request : request[r].step \in Redeeming =>
    /\ request[r].row \in RowId
    /\ row[request[r].row].status = "PROCESSING"
    /\ \A s \in Request :
        (s # r /\ request[s].step \in Redeeming) => request[s].row # request[r].row
Known == \A r \in Request :
    /\ request[r].step = "apply" => request[r].row \in burned
    /\ request[r].step = "reject" =>
        /\ request[r].row \notin burned
        /\ \A b \in wire : b.row # request[r].row
Prepared == \A r \in Request : request[r].step = "create" =>
    /\ request[r].code \in Code
    /\ request[r].account \in Account
Attaching == \A r \in Request : request[r].step = "attach" =>
    /\ request[r].row \in RowId
    /\ request[r].invoice # None
    /\ row[request[r].row].status \in {"PENDING_INVOICE", "COMPLETED"}
Sent ==
    /\ \A b \in wire :
        /\ row[b.row].status \in RedemptionStatus
        /\ b.row \notin burned
    /\ \A b, c \in wire : b.row = c.row => b = c
Control == TypeOK /\ Prepared /\ Held /\ Attaching
IInv == Control /\ Known /\ Sent /\ PanelMatchesBurns /\ InvoicesDocumentBurns

(* While the process and the database live, a redemption does not stay in   *)
(* PROCESSING, whatever the provider answers.                               *)
ProcessingEnds == \A i \in RowId :
    row[i].status = "PROCESSING" ~> row[i].status \in RedemptionStatus \ {"PROCESSING"}

-----------------------------------------------------------------------------
(* What the repository says and the code does not do                       *)

(* points-redemptions.service.ts:277: an invoice can be attached only to a  *)
(* redemption that awaits one.                                              *)
InvoiceIsFinal == [][\A i \in RowId :
    row[i].invoice # None => row'[i].invoice = row[i].invoice]_row

=============================================================================
