------------------------ MODULE PointsRedemptionsProofs ------------------------
(* Proofs about PointsRedemptions, for every value of its constants.        *)
EXTENDS PointsRedemptions, TLAPS

-----------------------------------------------------------------------------
(* The shape of requests and rows                                          *)

LEMMA IdleType == Idle \in RequestState
  BY RedemptionsAssumption DEF Idle, RequestState, Step

LEMMA FinishType ==
  ASSUME TypeOK, NEW r \in Request, Finish(r)
  PROVE  request' \in [Request -> RequestState]
  BY IdleType DEF TypeOK, Finish

LEMMA GotoType ==
  ASSUME TypeOK, NEW r \in Request, NEW s \in Step, Goto(r, s)
  PROVE  request' \in [Request -> RequestState]
  BY DEF TypeOK, Goto, RequestState

LEMMA WriteType ==
  ASSUME TypeOK, NEW i \in RowId, NEW s \in RedemptionStatus, Write(i, s)
  PROVE  row' \in [RowId -> Row]
  BY DEF TypeOK, Write, Row

(* What a burn the provider applies leaves of its state.                   *)
LEMMA ApplyType ==
  ASSUME TypeOK, NEW b \in wire, Apply(b)
  PROVE  /\ wire' \subseteq Burn
         /\ burned' \subseteq RowId
         /\ balance' \in [Account -> 0..Balance]
         /\ codeOf' \in [Code -> Account \cup {None}]
         /\ used' \subseteq Code
<1> DEFINE a == row[b.row].account
<1> DEFINE p == row[b.row].points
<1>1. b \in Burn /\ b.row \in RowId /\ b.code \in Code
  BY DEF TypeOK, Burn
<1>2. p \in Nat /\ a \in Account \cup {None}
  <2>1. row[b.row] \in Row
    BY <1>1 DEF TypeOK
  <2>2. p \in Amount \cup {0} /\ a \in Account \cup {None}
    BY <2>1 DEF Row
  <2>3. Amount \subseteq Nat
    BY RedemptionsAssumption
  <2> HIDE DEF a, p
  <2> QED BY <2>2, <2>3
<1>3. ASSUME a \in Account PROVE balance[a] - p \in 0..Balance
  BY <1>2, <1>3, RedemptionsAssumption DEF TypeOK, Apply, Valid
<1>4. balance' \in [Account -> 0..Balance]
  <2>1. balance' = [balance EXCEPT ![a] = balance[a] - p]
    BY DEF Apply
  <2> HIDE DEF a, p
  <2>2. CASE a \in Account
    BY <2>1, <2>2, <1>3 DEF TypeOK
  <2>3. CASE a = None
    BY <2>1, <2>3, RedemptionsAssumption DEF TypeOK
  <2> QED BY <2>2, <2>3, <1>2
<1>5. wire' \subseteq wire /\ burned' = burned \cup {b.row}
  BY DEF Apply
<1>6. used' = used \cup {b.code} /\ codeOf' = codeOf
  BY DEF Apply
<1> QED BY <1>1, <1>4, <1>5, <1>6 DEF TypeOK

-----------------------------------------------------------------------------
(* The control invariant, whatever fails                                   *)

LEMMA InitControl == Init => Control
<1> SUFFICES ASSUME Init PROVE Control
  OBVIOUS
<1>1. TypeOK
  BY IdleType, RedemptionsAssumption
     DEF Init, TypeOK, UnusedRow, Row, RedemptionStatus
<1>2. Prepared /\ Held /\ Attaching
  BY DEF Init, Prepared, Held, Attaching, Idle, Redeeming
<1> QED BY <1>1, <1>2 DEF Control

LEMMA BeginControl ==
  ASSUME Control, NEW r \in Request, Start(r)
  PROVE  Control'
<1> USE DEF Control
<1>1. CASE \E a \in Account, p \in Amount, c \in Code : RedeemBegin(r, a, p, c)
  <2> PICK a \in Account, p \in Amount, c \in Code : RedeemBegin(r, a, p, c)
    BY <1>1
  <2> DEFINE q == [Idle EXCEPT !.step = "create", !.account = a, !.points = p,
                               !.code = c]
  <2>1. /\ request' = [request EXCEPT ![r] = q]
        /\ UNCHANGED <<row, wire, burned, balance, codeOf, used>>
    BY DEF RedeemBegin, provider
  <2>2. /\ q \in RequestState
        /\ q.step = "create" /\ q.code = c /\ q.account = a
    BY IdleType DEF RequestState, Step, TypeOK, Idle
  <2> HIDE DEF q
  <2>3. TypeOK'
    BY <2>1, <2>2 DEF TypeOK
  <2>4. \A s \in Request : request'[s] = IF s = r THEN q ELSE request[s]
    BY <2>1 DEF TypeOK
  <2>5. Prepared'
    BY <2>2, <2>4 DEF Prepared
  <2>6. Held'
    BY <2>1, <2>2, <2>4 DEF Held, Redeeming
  <2>7. Attaching'
    BY <2>1, <2>2, <2>4 DEF Attaching
  <2> QED BY <2>3, <2>5, <2>6, <2>7
<1>2. CASE \E i \in RowId, n \in Invoice : AttachBegin(r, i, n)
  <2> PICK i \in RowId, n \in Invoice : AttachBegin(r, i, n)
    BY <1>2
  <2> DEFINE q == [Idle EXCEPT !.step = "attach", !.row = i, !.invoice = n]
  <2>1. /\ request' = [request EXCEPT ![r] = q]
        /\ Attachable(i)
        /\ UNCHANGED <<row, wire, burned, balance, codeOf, used>>
    BY DEF AttachBegin, provider
  <2>2. /\ q \in RequestState
        /\ q.step = "attach" /\ q.row = i /\ q.invoice = n
    BY IdleType DEF RequestState, Step, TypeOK, Idle
  <2> HIDE DEF q
  <2>3. TypeOK'
    BY <2>1, <2>2 DEF TypeOK
  <2>4. \A s \in Request : request'[s] = IF s = r THEN q ELSE request[s]
    BY <2>1 DEF TypeOK
  <2>5. Prepared'
    BY <2>2, <2>4 DEF Prepared
  <2>6. Held'
    BY <2>1, <2>2, <2>4 DEF Held, Redeeming
  <2>7. Attaching'
    BY <2>1, <2>2, <2>4, RedemptionsAssumption DEF Attaching, Attachable
  <2> QED BY <2>3, <2>5, <2>6, <2>7
<1> QED BY <1>1, <1>2 DEF Start

(* A step that moves one request between redeeming steps or ends it, and    *)
(* writes no row it does not hold, leaves the other requests in order.      *)
LEMMA KeepControl ==
  ASSUME Control, NEW r \in Request, TypeOK',
         \A s \in Request : s # r => request'[s] = request[s],
         \/ request'[r].step = "idle"
         \/ /\ request[r].step \in Redeeming /\ request'[r].step \in Redeeming
            /\ request'[r].row = request[r].row
            /\ row' = row,
         \A j \in RowId :
            /\ row[j].status = "PROCESSING"
               => \/ row'[j].status = "PROCESSING"
                  \/ request[r].step \in Redeeming /\ request[r].row = j
            /\ row[j].status \in {"PENDING_INVOICE", "COMPLETED"}
               => row'[j].status \in {"PENDING_INVOICE", "COMPLETED"}
  PROVE  Control'
<1> USE DEF Control
<1>1. Prepared'
  BY DEF Prepared, Redeeming
<1>2. Attaching'
  BY DEF Attaching, Redeeming
<1>3. ASSUME NEW s \in Request, request'[s].step \in Redeeming
      PROVE  /\ request'[s].row \in RowId
             /\ row'[request'[s].row].status = "PROCESSING"
             /\ \A t \in Request : (t # s /\ request'[t].step \in Redeeming)
                    => request'[t].row # request'[s].row
  <2>1. \A t \in Request : request'[t].step \in Redeeming
            => request[t].step \in Redeeming /\ request'[t].row = request[t].row
    BY DEF Redeeming
  <2>2. request'[s].row \in RowId /\ row[request'[s].row].status = "PROCESSING"
    BY <2>1, <1>3 DEF Held
  <2>3. \A t \in Request : (t # s /\ request'[t].step \in Redeeming)
            => request'[t].row # request'[s].row
    BY <2>1, <1>3 DEF Held
  <2>4. row'[request'[s].row].status = "PROCESSING"
    <3>1. CASE row' = row
      BY <3>1, <2>2
    <3>2. CASE request'[r].step = "idle"
      <4>1. s # r
        BY <3>2, <1>3 DEF Redeeming
      <4>2. ~(request[r].step \in Redeeming /\ request[r].row = request'[s].row)
        BY <4>1, <2>1, <1>3 DEF Held
      <4> QED BY <4>2, <2>2
    <3> QED BY <3>1, <3>2
  <2> QED BY <2>2, <2>3, <2>4
<1>4. Held'
  BY <1>3 DEF Held
<1> QED BY <1>1, <1>2, <1>4

(* Opening the attempt: the row was free, so nobody else holds it.          *)
LEMMA CreateControl ==
  ASSUME Control, NEW r \in Request, Create(r)
  PROVE  Control'
<1> USE DEF Control
<1>1. CASE Finish(r) /\ UNCHANGED <<row, wire>>
  <2>1. TypeOK'
    BY <1>1, FinishType DEF Create, TypeOK
  <2>2. /\ request'[r].step = "idle"
        /\ \A s \in Request : s # r => request'[s] = request[s]
    BY <1>1 DEF Finish, TypeOK, Idle
  <2> QED BY <1>1, <2>1, <2>2, KeepControl
<1>2. ASSUME NEW i \in NextRow,
             row' = [row EXCEPT ![i] =
                [status |-> "PROCESSING", account |-> request[r].account,
                 points |-> request[r].points,
                 invoice |-> None]],
             request' = [request EXCEPT ![r].step = "burn", ![r].row = i],
             wire' = wire \cup {[row |-> i, code |-> request[r].code]}
      PROVE  Control'
  <2>1. i \in RowId /\ row[i].status = "UNUSED"
    BY DEF NextRow
  <2>2. /\ request[r] \in RequestState /\ request[r].step = "create"
        /\ request[r].code \in Code
        /\ UNCHANGED <<burned, balance, codeOf, used>>
    BY DEF Create, TypeOK, Prepared
  <2>3. TypeOK'
    <3>1. row' \in [RowId -> Row]
      BY <1>2, <2>2 DEF TypeOK, Row, RequestState, RedemptionStatus
    <3>2. request' \in [Request -> RequestState]
      <4>1. [request[r] EXCEPT !.step = "burn", !.row = i] \in RequestState
        BY <2>1, <2>2 DEF RequestState, Step
      <4> QED BY <1>2, <4>1 DEF TypeOK
    <3>3. wire' \subseteq Burn
      BY <1>2, <2>1, <2>2 DEF TypeOK, Burn
    <3> QED BY <2>2, <3>1, <3>2, <3>3 DEF TypeOK
  <2>4. /\ request'[r].step = "burn" /\ request'[r].row = i
        /\ \A s \in Request : s # r => request'[s] = request[s]
    BY <1>2, <2>2 DEF TypeOK, RequestState
  <2>5. /\ row'[i].status = "PROCESSING"
        /\ \A j \in RowId : j # i => row'[j] = row[j]
    BY <1>2, <2>1 DEF TypeOK
  <2>6. Prepared'
    BY <2>4 DEF Prepared
  <2>7. Attaching'
    BY <2>1, <2>4, <2>5 DEF Attaching
  <2>8. ASSUME NEW s \in Request, s # r, request[s].step \in Redeeming
        PROVE  request[s].row \in RowId /\ request[s].row # i
    BY <2>1, <2>8 DEF Held
  <2>9. Held'
    BY <2>1, <2>4, <2>5, <2>8 DEF Held
  <2> QED BY <2>3, <2>6, <2>7, <2>9
<1> QED BY <1>1, <1>2 DEF Create

(* An answer, or its absence, moves a request to the write that follows.    *)
LEMMA AnswerControl ==
  ASSUME Control, NEW r \in Request,
         BurnAccepted(r) \/ BurnRejected(r) \/ BurnUnanswered(r)
  PROVE  Control'
<1> USE DEF Control
<1>1. PICK s \in {"apply", "reject", "unverified"} : Goto(r, s)
  BY DEF BurnAccepted, BurnRejected, BurnUnanswered
<1>2. UNCHANGED row
  BY DEF BurnAccepted, BurnRejected, BurnUnanswered, provider
<1>3. request' \in [Request -> RequestState]
  BY <1>1, GotoType DEF Step
<1>4. TypeOK'
  <2>1. CASE BurnAccepted(r)
    <3> DEFINE b == BurnCall(r)
    <3>1. b \in wire /\ Apply(b)
      BY <2>1 DEF BurnAccepted
    <3> QED BY <3>1, <1>2, <1>3, ApplyType DEF TypeOK
  <2>2. CASE BurnRejected(r)
    BY <2>2, <1>2, <1>3 DEF BurnRejected, TypeOK
  <2>3. CASE BurnUnanswered(r)
    BY <2>3, <1>2, <1>3 DEF BurnUnanswered, provider, TypeOK
  <2> QED BY <2>1, <2>2, <2>3
<1>5. /\ request[r].step \in Redeeming /\ request'[r].step \in Redeeming
      /\ request'[r].row = request[r].row
      /\ \A t \in Request : t # r => request'[t] = request[t]
  BY <1>1 DEF Goto, TypeOK, RequestState, Redeeming, BurnAccepted,
              BurnRejected, BurnUnanswered
<1> QED BY <1>2, <1>4, <1>5, KeepControl

(* The writes that close an attempt, and the one that documents it.         *)
LEMMA WriteControl ==
  ASSUME Control, NEW r \in Request,
         MarkApplied(r) \/ MarkFailed(r) \/ MarkUnverified(r)
  PROVE  Control'
<1> USE DEF Control
<1>1. /\ request[r].step \in Redeeming
      /\ UNCHANGED <<wire, burned, balance, codeOf, used>>
  BY DEF MarkApplied, MarkFailed, MarkUnverified, provider, Redeeming
<1>2. /\ request[r].row \in RowId
      /\ row[request[r].row].status = "PROCESSING"
  BY <1>1 DEF Held
<1>3. \/ /\ Finish(r)
         /\ \E s \in RedemptionStatus : Write(request[r].row, s)
      \/ Finish(r) /\ UNCHANGED row
      \/ Goto(r, "reject") /\ UNCHANGED row
  BY DEF MarkApplied, MarkFailed, MarkUnverified, RedemptionStatus
<1>4. row' \in [RowId -> Row]
  BY <1>2, <1>3, WriteType DEF TypeOK
<1>5. request' \in [Request -> RequestState]
  BY <1>3, FinishType, GotoType DEF Step
<1>6. TypeOK'
  BY <1>1, <1>4, <1>5 DEF TypeOK
<1>7. \A s \in Request : s # r => request'[s] = request[s]
  BY <1>3 DEF Finish, Goto, TypeOK
<1>8. \/ request'[r].step = "idle"
      \/ /\ request'[r].step \in Redeeming
         /\ request'[r].row = request[r].row
         /\ row' = row
  BY <1>3 DEF Finish, Goto, TypeOK, RequestState, Idle, Redeeming
<1>9. \A j \in RowId : j # request[r].row => row'[j] = row[j]
  BY <1>3 DEF Write, TypeOK
<1> QED BY <1>1, <1>2, <1>6, <1>7, <1>8, <1>9, KeepControl

LEMMA AttachControl ==
  ASSUME Control, NEW r \in Request, Attach(r)
  PROVE  Control'
<1> USE DEF Control
<1> DEFINE i == request[r].row
<1>1. /\ request[r].step = "attach" /\ i \in RowId
      /\ row[i].status \in {"PENDING_INVOICE", "COMPLETED"}
      /\ request[r].invoice \in Invoice
      /\ UNCHANGED <<wire, burned, balance, codeOf, used>>
  BY DEF Attach, Attaching, provider, TypeOK, RequestState
<1>2. \/ row' = [row EXCEPT ![i].status = "COMPLETED",
                            ![i].invoice = request[r].invoice]
      \/ row' = row
  BY DEF Attach
<1>3. row' \in [RowId -> Row]
  <2>1. row \in [RowId -> Row]
    BY DEF TypeOK
  <2>2. [row[i] EXCEPT !.status = "COMPLETED", !.invoice = request[r].invoice] \in Row
    BY <1>1, <2>1 DEF Row, RedemptionStatus
  <2> HIDE DEF Control
  <2> QED BY <1>1, <1>2, <2>1, <2>2
<1>4. TypeOK'
  BY <1>1, <1>3, FinishType DEF TypeOK, Attach
<1>5. \A j \in RowId :
        /\ j # i => row'[j] = row[j]
        /\ j = i => row'[j].status \in {row[j].status, "COMPLETED"}
  BY <1>1, <1>2 DEF TypeOK, Row
<1>6. /\ \A s \in Request : s # r => request'[s] = request[s]
      /\ request'[r].step = "idle"
  BY DEF Attach, Finish, TypeOK, Idle
<1> QED BY <1>1, <1>4, <1>5, <1>6, KeepControl

(* A step of the provider, or a restart.                                    *)
LEMMA OtherControl ==
  ASSUME Control,
         \/ \E c \in Code, a \in Account : RequestCode(c, a)
         \/ \E b \in Burn : ProviderBurn(b)
         \/ Crash
  PROVE  Control'
<1> USE DEF Control
<1>1. row' = row
  BY DEF RequestCode, ProviderBurn, Crash
<1>2. CASE \E c \in Code, a \in Account : RequestCode(c, a)
  <2> PICK c \in Code, a \in Account : RequestCode(c, a)
    BY <1>2
  <2>1. TypeOK' /\ request' = request
    BY DEF RequestCode, TypeOK
  <2> QED BY <1>1, <2>1 DEF Prepared, Held, Attaching
<1>3. CASE \E b \in Burn : ProviderBurn(b)
  <2> PICK b \in Burn : ProviderBurn(b)
    BY <1>3
  <2>1. request' = request
    BY DEF ProviderBurn
  <2>2. TypeOK'
    <3>1. CASE Apply(b)
      BY <3>1, <2>1, <1>1, ApplyType DEF ProviderBurn, TypeOK
    <3>2. CASE wire' = wire \ {b} /\ UNCHANGED <<burned, balance, codeOf, used>>
      BY <3>2, <2>1, <1>1 DEF ProviderBurn, TypeOK
    <3> QED BY <3>1, <3>2 DEF ProviderBurn
  <2> QED BY <1>1, <2>1, <2>2 DEF Prepared, Held, Attaching
<1>4. CASE Crash
  <2>1. /\ request' = [s \in Request |-> Idle]
        /\ UNCHANGED <<wire, burned, balance, codeOf, used>>
    BY <1>4 DEF Crash, provider
  <2>2. TypeOK'
    BY <1>1, <2>1, IdleType DEF TypeOK
  <2> QED BY <1>1, <2>1, <2>2 DEF Prepared, Held, Attaching, Idle, Redeeming
<1> QED BY <1>2, <1>3, <1>4

LEMMA StepControl == Control /\ [Next]_vars => Control'
<1> SUFFICES ASSUME Control, [Next]_vars PROVE Control'
  OBVIOUS
<1>1. CASE UNCHANGED vars
  BY <1>1 DEF vars, Control, TypeOK, Prepared, Held, Attaching
<1>2. ASSUME NEW r \in Request, Start(r) PROVE Control'
  BY <1>2, BeginControl
<1>3. ASSUME NEW r \in Request, Continue(r) PROVE Control'
  BY <1>3, CreateControl, AnswerControl, WriteControl, AttachControl DEF Continue
<1> QED BY <1>1, <1>2, <1>3, OtherControl DEF Next

(* Whatever fails, every variable keeps its type, and a request that is     *)
(* redeeming holds a PROCESSING row that no other request holds.            *)
THEOREM ControlHolds == Spec => []Control
  BY InitControl, StepControl, PTL DEF Spec

(* Every variable keeps its type, whatever fails.                           *)
THEOREM TypeCorrect == Spec => []TypeOK
<1>1. Control => TypeOK
  BY DEF Control
<1> QED BY <1>1, ControlHolds, PTL

-----------------------------------------------------------------------------
(* A closed redemption stays closed                                        *)

(* The rows a step may write: a free one, the one its request holds in      *)
(* PROCESSING, or one that awaits or has its invoice.                       *)
LEMMA RowStep ==
  ASSUME Control, [Next]_vars, NEW j \in RowId, row'[j] # row[j]
  PROVE  \/ row[j].status \in {"UNUSED", "PROCESSING"}
         \/ /\ row[j].status \in {"PENDING_INVOICE", "COMPLETED"}
            /\ row'[j].status = "COMPLETED"
<1> USE DEF Control
<1>1. CASE UNCHANGED vars
  BY <1>1 DEF vars
<1>2. ASSUME NEW r \in Request, Start(r) PROVE FALSE
  BY <1>2 DEF Start, RedeemBegin, AttachBegin
<1>3. ASSUME NEW r \in Request, Create(r)
      PROVE  row[j].status = "UNUSED"
  BY <1>3 DEF Create, NextRow, TypeOK
<1>4. ASSUME NEW r \in Request, BurnAccepted(r) \/ BurnRejected(r) \/ BurnUnanswered(r)
      PROVE  FALSE
  BY <1>4 DEF BurnAccepted, BurnRejected, BurnUnanswered
<1>5. ASSUME NEW r \in Request, MarkApplied(r) \/ MarkFailed(r) \/ MarkUnverified(r)
      PROVE  row[j].status = "PROCESSING"
  <2>1. request[r].step \in Redeeming /\ request[r].row = j
    BY <1>5 DEF MarkApplied, MarkFailed, MarkUnverified, Write, TypeOK, Redeeming
  <2> QED BY <2>1 DEF Held
<1>6. ASSUME NEW r \in Request, Attach(r)
      PROVE  /\ row[j].status \in {"PENDING_INVOICE", "COMPLETED"}
             /\ row'[j].status = "COMPLETED"
  <2>1. /\ request[r].step = "attach" /\ request[r].row = j
        /\ row' = [row EXCEPT ![j].status = "COMPLETED",
                              ![j].invoice = request[r].invoice]
    BY <1>6 DEF Attach, TypeOK
  <2> QED BY <2>1 DEF Attaching, TypeOK, Row
<1>7. CASE \E c \in Code, a \in Account : RequestCode(c, a)
  BY <1>7 DEF RequestCode
<1>8. CASE \E b \in Burn : ProviderBurn(b)
  BY <1>8 DEF ProviderBurn
<1>9. CASE Crash
  BY <1>9 DEF Crash
<1> QED BY <1>1, <1>2, <1>3, <1>4, <1>5, <1>6, <1>7, <1>8, <1>9 DEF Next, Continue

(* No answer, failure or restart reopens a redemption that failed or could  *)
(* not be verified, and a burned one only ever gains its invoice.           *)
THEOREM ClosedForGood == Spec => ClosedStays
<1>1. Control /\ [Next]_vars => [\A i \in RowId :
        /\ row[i].status \in {"FAILED", "UNVERIFIED"} => row'[i] = row[i]
        /\ row[i].status = "PENDING_INVOICE"
            => row'[i].status \in {"PENDING_INVOICE", "COMPLETED"}
        /\ row[i].status = "COMPLETED" => row'[i].status = "COMPLETED"]_row
  BY RowStep
<1> QED BY <1>1, ControlHolds, PTL DEF Spec, ClosedStays

-----------------------------------------------------------------------------
(* The panel and the provider, when the database does not fail             *)

PanelAgrees == Known /\ Sent /\ PanelMatchesBurns /\ InvoicesDocumentBurns

LEMMA InitAgrees == Init => PanelAgrees
  BY DEF Init, PanelAgrees, Known, Sent, PanelMatchesBurns, InvoicesDocumentBurns,
         Idle, UnusedRow, RedemptionStatus

(* PanelAgrees is about the rows, what is on the wire, what was burned and    *)
(* the requests with an answer: a step that keeps those keeps it.           *)
LEMMA KeepAgrees ==
  ASSUME Control, PanelAgrees, row' = row, burned' = burned, wire' \subseteq wire,
         \A s \in Request : request'[s].step \in {"apply", "reject"}
            => /\ request'[s].step = request[s].step
               /\ request'[s].row = request[s].row
  PROVE  PanelAgrees'
<1>1. Known'
  BY DEF PanelAgrees, Known
<1>2. Sent'
  BY DEF PanelAgrees, Sent, Control, TypeOK, Burn
<1>3. PanelMatchesBurns' /\ InvoicesDocumentBurns'
  BY DEF PanelAgrees, PanelMatchesBurns, InvoicesDocumentBurns
<1> QED BY <1>1, <1>2, <1>3 DEF PanelAgrees

LEMMA CreateAgrees ==
  ASSUME Control, PanelAgrees, NEW r \in Request, Create(r)
  PROVE  PanelAgrees'
<1> USE DEF Control
<1>1. CASE Finish(r) /\ UNCHANGED <<row, wire>>
  <2>1. /\ UNCHANGED <<row, burned, wire>>
        /\ \A s \in Request : s # r => request'[s] = request[s]
        /\ request'[r].step = "idle"
    BY <1>1 DEF Create, Finish, TypeOK, Idle
  <2> QED BY <2>1, KeepAgrees
<1>2. ASSUME NEW i \in NextRow,
             row' = [row EXCEPT ![i] =
                [status |-> "PROCESSING", account |-> request[r].account,
                 points |-> request[r].points,
                 invoice |-> None]],
             request' = [request EXCEPT ![r].step = "burn", ![r].row = i],
             wire' = wire \cup {[row |-> i, code |-> request[r].code]}
      PROVE  PanelAgrees'
  <2>1. i \in RowId /\ row[i].status = "UNUSED"
    BY DEF NextRow
  <2>2. i \notin burned /\ \A b \in wire : b.row # i
    BY <2>1 DEF PanelAgrees, PanelMatchesBurns, Sent, RedemptionStatus
  <2>3. burned' = burned
    BY DEF Create
  <2>4. /\ row'[i].status = "PROCESSING" /\ row'[i].invoice = None
        /\ \A j \in RowId : j # i => row'[j] = row[j]
    BY <1>2, <2>1 DEF TypeOK
  <2>5. \A s \in Request : request'[s].step \in {"apply", "reject"}
            => request'[s] = request[s] /\ request[s].row # i
    <3>1. \A s \in Request : s # r => request'[s] = request[s]
      BY <1>2 DEF TypeOK
    <3>2. request'[r].step = "burn"
      BY <1>2 DEF TypeOK, RequestState
    <3> QED BY <3>1, <3>2, <2>1 DEF Held, Redeeming
  <2>6. Known'
    <3>1. \A b \in wire' : b \in wire \/ b.row = i
      BY <1>2
    <3> QED BY <2>3, <2>5, <3>1 DEF PanelAgrees, Known
  <2>7. Sent'
    <3> DEFINE call == [row |-> i, code |-> request[r].code]
    <3>1. wire' = wire \cup {call} /\ call.row = i
      BY <1>2
    <3> HIDE DEF call
    <3>2. \A b \in wire : b.row \in RowId /\ row'[b.row] = row[b.row]
      BY <2>2, <2>4 DEF TypeOK, Burn
    <3>3. \A b \in wire' : row'[b.row].status \in RedemptionStatus /\ b.row \notin burned'
      BY <3>1, <3>2, <2>2, <2>3, <2>4 DEF PanelAgrees, Sent, RedemptionStatus
    <3>4. \A b, d \in wire' : b.row = d.row => b = d
      BY <3>1, <2>2 DEF PanelAgrees, Sent
    <3> QED BY <3>3, <3>4 DEF Sent
  <2>8. PanelMatchesBurns'
    <3>1. \A b \in wire' : b \in wire \/ b.row = i
      BY <1>2
    <3> QED BY <2>2, <2>3, <2>4, <3>1 DEF PanelAgrees, PanelMatchesBurns
  <2>9. InvoicesDocumentBurns'
    BY <2>2, <2>3, <2>4 DEF PanelAgrees, InvoicesDocumentBurns
  <2> QED BY <2>6, <2>7, <2>8, <2>9 DEF PanelAgrees
<1> QED BY <1>1, <1>2 DEF Create

(* An answer comes with what the provider did; its absence says nothing.    *)
LEMMA ApplyAgrees ==
  ASSUME Control, PanelAgrees, NEW b \in wire, Apply(b), row' = row,
         \A s \in Request : request'[s].step = "apply"
            => \/ request'[s].row = b.row
               \/ request[s].step = "apply" /\ request'[s].row = request[s].row,
         \A s \in Request : request'[s].step = "reject"
            => /\ request[s].step = "reject"
               /\ request'[s].row = request[s].row
  PROVE  PanelAgrees'
<1>1. /\ burned' = burned \cup {b.row}
      /\ wire' = wire \ {b}
      /\ b.row \in RowId
  BY DEF Apply, Control, TypeOK, Burn
<1>2. \A c \in wire' : c.row # b.row
  BY <1>1 DEF PanelAgrees, Sent
<1>3. row[b.row].status \in {"PROCESSING", "PENDING_INVOICE", "COMPLETED", "UNVERIFIED"}
  BY <1>1 DEF PanelAgrees, Sent, PanelMatchesBurns, RedemptionStatus
<1>4. \A s \in Request : request[s].step = "reject" => request[s].row # b.row
  BY DEF PanelAgrees, Known
<1>5. Known'
  BY <1>1, <1>4 DEF PanelAgrees, Known
<1>6. Sent'
  BY <1>1, <1>2 DEF PanelAgrees, Sent
<1>7. PanelMatchesBurns'
  BY <1>1, <1>3 DEF PanelAgrees, PanelMatchesBurns
<1>8. InvoicesDocumentBurns'
  BY <1>1 DEF PanelAgrees, InvoicesDocumentBurns
<1> QED BY <1>5, <1>6, <1>7, <1>8 DEF PanelAgrees

LEMMA AnswerAgrees ==
  ASSUME Control, PanelAgrees, NEW r \in Request,
         BurnAccepted(r) \/ BurnRejected(r) \/ BurnUnanswered(r)
  PROVE  PanelAgrees'
<1> USE DEF Control
<1>1. row' = row /\ \A s \in Request : s # r => request'[s] = request[s]
  BY DEF BurnAccepted, BurnRejected, BurnUnanswered, Goto, TypeOK
<1>2. CASE BurnAccepted(r)
  <2>1. /\ BurnCall(r) \in wire /\ Apply(BurnCall(r))
        /\ request'[r].step = "apply" /\ request'[r].row = BurnCall(r).row
    BY <1>2 DEF BurnAccepted, Goto, TypeOK, RequestState, BurnCall
  <2> QED BY <1>1, <2>1, ApplyAgrees
<1>3. CASE BurnRejected(r)
  <2> DEFINE b == BurnCall(r)
  <2>1. /\ b \in wire /\ wire' = wire \ {b} /\ burned' = burned
        /\ request'[r].step = "reject" /\ request'[r].row = b.row
    BY <1>3 DEF BurnRejected, Goto, TypeOK, RequestState, BurnCall
  <2> HIDE DEF b
  <2>2. b.row \notin burned /\ \A c \in wire' : c.row # b.row
    BY <2>1 DEF PanelAgrees, Sent
  <2>3. Known'
    BY <1>1, <2>1, <2>2 DEF PanelAgrees, Known
  <2>4. Sent'
    BY <1>1, <2>1 DEF PanelAgrees, Sent
  <2>5. PanelMatchesBurns' /\ InvoicesDocumentBurns'
    BY <1>1, <2>1 DEF PanelAgrees, PanelMatchesBurns, InvoicesDocumentBurns
  <2> QED BY <2>3, <2>4, <2>5 DEF PanelAgrees
<1>4. CASE BurnUnanswered(r)
  <2>1. /\ burned' = burned /\ wire' = wire
        /\ request'[r].step = "unverified"
    BY <1>4 DEF BurnUnanswered, Goto, TypeOK, RequestState, provider
  <2> QED BY <1>1, <2>1, KeepAgrees
<1> QED BY <1>2, <1>3, <1>4

(* A write that closes the attempt says what its request knows.             *)
LEMMA WriteAgrees ==
  ASSUME Control, PanelAgrees, ~DbMayFail, NEW r \in Request,
         MarkApplied(r) \/ MarkFailed(r) \/ MarkUnverified(r)
  PROVE  PanelAgrees'
<1> USE DEF Control
<1> DEFINE i == request[r].row
<1>1. /\ Finish(r)
      /\ UNCHANGED <<wire, burned, balance, codeOf, used>>
      /\ request[r].step \in Redeeming
  BY DEF MarkApplied, MarkFailed, MarkUnverified, provider, Redeeming
<1>2. i \in RowId /\ row[i].status = "PROCESSING"
  BY <1>1 DEF Held
<1>3. PICK st \in {"PENDING_INVOICE", "FAILED", "UNVERIFIED"} :
        /\ row' = [row EXCEPT ![i].status = st]
        /\ st = "PENDING_INVOICE" => request[r].step = "apply"
        /\ st = "FAILED" => request[r].step = "reject"
        /\ st = "UNVERIFIED" => request[r].step = "unverified"
  BY DEF MarkApplied, MarkFailed, MarkUnverified, Write
<1>4. /\ row'[i].status = st /\ row'[i].invoice = row[i].invoice
      /\ \A j \in RowId : j # i => row'[j] = row[j]
  BY <1>2, <1>3 DEF TypeOK, Row
<1>5. /\ st = "PENDING_INVOICE" => i \in burned
      /\ st = "FAILED" => i \notin burned /\ \A b \in wire : b.row # i
      /\ st # "COMPLETED" /\ st \in RedemptionStatus
  BY <1>3 DEF PanelAgrees, Known, RedemptionStatus
<1> HIDE DEF i
<1>6. \A s \in Request : request'[s].step \in {"apply", "reject"}
        => request'[s] = request[s]
  BY <1>1 DEF Finish, TypeOK, Idle
<1>7. Known'
  BY <1>1, <1>6 DEF PanelAgrees, Known
<1>8. Sent'
  BY <1>1, <1>4, <1>5 DEF PanelAgrees, Sent, TypeOK, Burn
<1>9. PanelMatchesBurns'
  BY <1>1, <1>4, <1>5, <1>3 DEF PanelAgrees, PanelMatchesBurns
<1>10. InvoicesDocumentBurns'
  BY <1>1, <1>2, <1>4, <1>5 DEF PanelAgrees, InvoicesDocumentBurns
<1> QED BY <1>7, <1>8, <1>9, <1>10 DEF PanelAgrees

LEMMA AttachAgrees ==
  ASSUME Control, PanelAgrees, NEW r \in Request, Attach(r)
  PROVE  PanelAgrees'
<1> USE DEF Control
<1> DEFINE i == request[r].row
<1>1. /\ request[r].step = "attach" /\ i \in RowId
      /\ row[i].status \in {"PENDING_INVOICE", "COMPLETED"}
      /\ request[r].invoice # None
      /\ UNCHANGED <<wire, burned>>
  BY DEF Attach, Attaching, provider
<1>2. \A s \in Request : request'[s].step \in {"apply", "reject"}
        => request'[s] = request[s]
  BY DEF Attach, Finish, TypeOK, Idle
<1>3. CASE row' = row
  BY <1>1, <1>2, <1>3, KeepAgrees
<1>4. CASE row' = [row EXCEPT ![i].status = "COMPLETED",
                              ![i].invoice = request[r].invoice]
  <2>1. /\ row'[i].status = "COMPLETED" /\ row'[i].invoice # None
        /\ \A j \in RowId : j # i => row'[j] = row[j]
    BY <1>1, <1>4 DEF TypeOK, Row
  <2> HIDE DEF i
  <2>2. i \in burned
    BY <1>1 DEF PanelAgrees, PanelMatchesBurns
  <2>3. Known'
    BY <1>1, <1>2 DEF PanelAgrees, Known
  <2>4. Sent'
    BY <1>1, <2>1 DEF PanelAgrees, Sent, TypeOK, Burn, RedemptionStatus
  <2>5. PanelMatchesBurns' /\ InvoicesDocumentBurns'
    BY <1>1, <2>1, <2>2 DEF PanelAgrees, PanelMatchesBurns, InvoicesDocumentBurns
  <2> QED BY <2>3, <2>4, <2>5 DEF PanelAgrees
<1> QED BY <1>3, <1>4 DEF Attach

LEMMA StepAgrees ==
  ASSUME Control, PanelAgrees, ~DbMayFail, [Next]_vars
  PROVE  PanelAgrees'
<1> USE DEF Control
<1>1. CASE UNCHANGED vars
  BY <1>1, KeepAgrees DEF vars
<1>2. ASSUME NEW r \in Request, Start(r) PROVE PanelAgrees'
  <2>1. /\ row' = row /\ burned' = burned /\ wire' = wire
        /\ \A s \in Request : s # r => request'[s] = request[s]
        /\ request'[r].step \in {"create", "attach"}
    BY <1>2 DEF Start, RedeemBegin, AttachBegin, provider, TypeOK, Idle
  <2> QED BY <2>1, KeepAgrees
<1>3. ASSUME NEW r \in Request, Continue(r) PROVE PanelAgrees'
  BY <1>3, CreateAgrees, AnswerAgrees, WriteAgrees, AttachAgrees
     DEF Continue
<1>4. CASE \E c \in Code, a \in Account : RequestCode(c, a)
  BY <1>4, KeepAgrees DEF RequestCode
<1>5. CASE \E b \in Burn : ProviderBurn(b)
  <2> PICK b \in Burn : ProviderBurn(b)
    BY <1>5
  <2>1. b \in wire /\ row' = row /\ request' = request
    BY DEF ProviderBurn
  <2>2. CASE Apply(b)
    BY <2>1, <2>2, ApplyAgrees
  <2>3. CASE wire' = wire \ {b} /\ burned' = burned
    BY <2>1, <2>3, KeepAgrees
  <2> QED BY <2>2, <2>3 DEF ProviderBurn
<1>6. CASE Crash
  BY <1>6, KeepAgrees DEF Crash, provider, Idle
<1> QED BY <1>1, <1>2, <1>3, <1>4, <1>5, <1>6 DEF Next

(* The whole invariant that the run checks.                                 *)
THEOREM Inductive == ASSUME ~DbMayFail PROVE Spec => []IInv
<1>1. Init => PanelAgrees
  BY InitAgrees
<1>2. Control /\ PanelAgrees /\ [Next]_vars => PanelAgrees'
  BY StepAgrees
<1>3. Control /\ PanelAgrees => IInv
  BY DEF PanelAgrees, IInv
<1> QED BY <1>1, <1>2, <1>3, ControlHolds, PTL DEF Spec

(* While the database accepts its writes, what the panel says of every      *)
(* redemption agrees with what the provider burned, through lost answers,   *)
(* late burns and restarts.                                                 *)
THEOREM PanelIsRight == ASSUME ~DbMayFail PROVE Spec => []PanelMatchesBurns
<1>1. IInv => PanelMatchesBurns
  BY DEF IInv
<1> QED BY <1>1, Inductive, PTL

(* ... and every invoice documents points that were burned.                 *)
THEOREM InvoicesAreFounded ==
  ASSUME ~DbMayFail PROVE Spec => []InvoicesDocumentBurns
<1>1. IInv => InvoicesDocumentBurns
  BY DEF IInv
<1> QED BY <1>1, Inductive, PTL
=============================================================================
