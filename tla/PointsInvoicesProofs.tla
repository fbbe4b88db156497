------------------------- MODULE PointsInvoicesProofs -------------------------
(* Proofs about PointsInvoices, for every value of its constants.           *)
EXTENDS PointsInvoices, TLAPS

-----------------------------------------------------------------------------
(* Type correctness. *)

(* The record of a request that is over, or not started, is well formed.    *)
LEMMA IdleType == Idle \in RequestState
  BY DEF Idle, RequestState, Step

(* The updates a step makes to its own request keep the record's shape.     *)
LEMMA GotoType ==
  ASSUME TypeOK, NEW r \in Request, NEW s \in Step,
         \/ request' = [request EXCEPT ![r].step = s]
         \/ request' = [request EXCEPT ![r].step = s, ![r].uncertain = TRUE]
  PROVE  request' \in [Request -> RequestState]
<1>1. CASE request' = [request EXCEPT ![r].step = s]
  BY <1>1 DEF TypeOK, RequestState
<1>2. CASE request' = [request EXCEPT ![r].step = s, ![r].uncertain = TRUE]
  BY <1>2, ZenonT(60) DEF TypeOK, RequestState
<1> QED BY <1>1, <1>2

LEMMA ClaimedType ==
  ASSUME TypeOK, NEW r \in Request, NEW s \in Step, NEW a \in AccrualId
  PROVE  [request EXCEPT ![r].step = s, ![r].accrual = a]
            \in [Request -> RequestState]
  BY ZenonT(60) DEF TypeOK, RequestState

LEMMA FinishType ==
  ASSUME TypeOK, NEW r \in Request
  PROVE  [request EXCEPT ![r] = Idle] \in [Request -> RequestState]
  BY IdleType DEF TypeOK

(* The updates a transaction makes to an attempt keep the row's shape.      *)
LEMMA AccrualType ==
  ASSUME TypeOK, NEW a \in AccrualId
  PROVE  /\ \A s \in AccrualStatus :
            [accrual EXCEPT ![a].status = s] \in [AccrualId -> AccrualRow]
         /\ \A v \in RevocationStatus :
            [accrual EXCEPT ![a].revocation = v] \in [AccrualId -> AccrualRow]
  BY DEF TypeOK, AccrualRow

(* The update of an invoice's status keeps the table's shape.               *)
LEMMA InvoiceType ==
  ASSUME TypeOK, NEW i, NEW s \in InvoiceStatus \cup {"UNUSED", "DELETED"}
  PROVE  [invoice EXCEPT ![i] = s]
            \in [InvoiceId -> InvoiceStatus \cup {"UNUSED", "DELETED"}]
  BY DEF TypeOK

(* Starting a request. *)
LEMMA StartType == ASSUME TypeOK, NEW r \in Request, Start(r) PROVE TypeOK'
<1>1. PICK u \in User :
        \/ \E d \in Doc : RegisterBegin(r, u, d)
        \/ \E i \in InvoiceId : AccrueBegin(r, u, i) \/ RevokeBegin(r, u, i)
  BY DEF Start
<1>2. request' \in [Request -> RequestState]
  <2>1. ASSUME NEW d \in Doc, RegisterBegin(r, u, d)
        PROVE  request' \in [Request -> RequestState]
    BY <2>1 DEF RegisterBegin, Begin, TypeOK, Idle, RequestState, Step
  <2>2. ASSUME NEW i \in InvoiceId, AccrueBegin(r, u, i)
        PROVE  request' \in [Request -> RequestState]
    BY <2>2 DEF AccrueBegin, Begin, TypeOK, Idle, RequestState, Step
  <2>3. ASSUME NEW i \in InvoiceId, RevokeBegin(r, u, i)
        PROVE  request' \in [Request -> RequestState]
    <3>1. PICK a \in AccrualId :
            Begin(r, u, [Idle EXCEPT !.step = "claimRevocation", !.user = u,
                                     !.invoice = i, !.original = a])
      BY <2>3 DEF RevokeBegin, Latest, Attempts
    <3> QED BY <3>1 DEF Begin, TypeOK, Idle, RequestState, Step
  <2> QED BY <1>1, <2>1, <2>2, <2>3
<1>3. UNCHANGED <<database, provider>>
  BY <1>1 DEF RegisterBegin, AccrueBegin, RevokeBegin, Begin
<1> QED BY <1>2, <1>3 DEF TypeOK, database, provider

(* The claim of an accrual inserts a well-formed attempt.                   *)
LEMMA ClaimType == ASSUME TypeOK, NEW r \in Request, Claim(r) PROVE TypeOK'
<1>1. CASE UNCHANGED <<invoice, accrual, wire>> /\ Finish(r)
  BY <1>1, FinishType DEF Claim, Finish, TypeOK
<1>2. CASE ~(UNCHANGED <<invoice, accrual, wire>> /\ Finish(r))
  <2> DEFINE i == request[r].invoice
             u == request[r].user
  <2>1. PICK a \in NextAccrual :
          /\ accrual' = [accrual EXCEPT ![a] =
                [invoice |-> i, user |-> u, status |-> "PROCESSING",
                 revocation |-> "NULL"]]
          /\ request' = [request EXCEPT ![r].step = "sale", ![r].accrual = a]
          /\ wire' = wire \cup {[op |-> "sale", accrual |-> a]}
          /\ invoice' = [invoice EXCEPT ![i] = "PROCESSING"]
          /\ u \in users
          /\ UNCHANGED <<users, credited, cancelled>>
    BY <1>2 DEF Claim
  <2>2. a \in AccrualId
    BY DEF NextAccrual
  <2>3. request' \in [Request -> RequestState]
    BY <2>1, <2>2, ClaimedType DEF Step
  <2>4. invoice' \in [InvoiceId -> InvoiceStatus \cup {"UNUSED", "DELETED"}]
    BY <2>1, InvoiceType DEF InvoiceStatus
  <2>5. i \in InvoiceId \cup {None}
    BY DEF TypeOK, RequestState
  <2>6. accrual' \in [AccrualId -> AccrualRow]
    BY <2>1, <2>2, <2>5 DEF TypeOK, AccrualRow, AccrualStatus, RevocationStatus
  <2>7. wire' \subseteq Call
    BY <2>1, <2>2 DEF TypeOK, Call
  <2> QED BY <2>1, <2>3, <2>4, <2>6, <2>7 DEF TypeOK
<1> QED BY <1>1, <1>2

(* The claim of a revocation marks a well-formed attempt.                   *)
LEMMA ClaimRevocationType ==
  ASSUME TypeOK, NEW r \in Request, ClaimRevocation(r),
         request[r].original \in AccrualId
  PROVE  TypeOK'
<1>1. CASE UNCHANGED <<invoice, accrual, wire>> /\ Finish(r)
  BY <1>1, FinishType DEF ClaimRevocation, Finish, TypeOK
<1>2. CASE ~(UNCHANGED <<invoice, accrual, wire>> /\ Finish(r))
  <2> DEFINE i == request[r].invoice
  <2>1. PICK a \in Revocable(i) :
          /\ accrual' = [accrual EXCEPT ![a].revocation = "PROCESSING"]
          /\ request' = [request EXCEPT ![r].step = "cancel",
                                        ![r].accrual = a]
          /\ invoice' = [invoice EXCEPT ![i] = "REVOKING"]
          /\ wire' = wire \cup
                {[op |-> "cancel", accrual |-> request[r].original]}
          /\ UNCHANGED <<users, credited, cancelled>>
    BY <1>2 DEF ClaimRevocation
  <2>2. a \in AccrualId
    BY DEF Revocable, Latest, CompletedAttempts, Attempts
  <2>3. request' \in [Request -> RequestState]
    BY <2>1, <2>2, ClaimedType DEF Step
  <2>4. invoice' \in [InvoiceId -> InvoiceStatus \cup {"UNUSED", "DELETED"}]
    BY <2>1, InvoiceType DEF InvoiceStatus
  <2>5. accrual' \in [AccrualId -> AccrualRow]
    BY <2>1, <2>2, AccrualType DEF AccrualStatus, RevocationStatus
  <2>6. wire' \subseteq Call
    BY <2>1 DEF TypeOK, Call
  <2> QED BY <2>1, <2>3, <2>4, <2>5, <2>6 DEF TypeOK
<1> QED BY <1>1, <1>2

(* A request that leaves the database alone and only learns an answer.      *)
LEMMA AnswerType ==
  ASSUME TypeOK, NEW r \in Request,
         \/ SaleAccepted(r) \/ SaleRejected(r) \/ SaleDuplicate(r)
         \/ SaleUnanswered(r) \/ CancelAccepted(r) \/ CancelRejected(r)
         \/ CancelUnanswered(r)
  PROVE  TypeOK'
<1>1. request' \in [Request -> RequestState]
  <2>1. PICK s \in Step :
          \/ request' = [request EXCEPT ![r].step = s]
          \/ request' = [request EXCEPT ![r].step = s, ![r].uncertain = TRUE]
    BY DEF SaleAccepted, SaleRejected, SaleDuplicate, SaleUnanswered,
         CancelAccepted, CancelRejected, CancelUnanswered, Goto, Step
  <2> QED BY <2>1, GotoType
<1>2. UNCHANGED <<invoice, accrual, users>> /\ wire' \subseteq wire
  BY DEF SaleAccepted, SaleRejected, SaleDuplicate, SaleUnanswered,
       CancelAccepted, CancelRejected, CancelUnanswered, database, provider
<1>3. credited' \subseteq AccrualId /\ cancelled' \subseteq credited'
  BY DEF TypeOK, SaleAccepted, SaleRejected, SaleDuplicate, SaleUnanswered,
       CancelAccepted, CancelRejected, CancelUnanswered, provider, SaleCall,
       Cancellable, Call
<1> QED BY <1>1, <1>2, <1>3 DEF TypeOK

(* A request that writes the outcome of its call.                           *)
LEMMA WriteType ==
  ASSUME TypeOK, Linked, NEW r \in Request,
         \/ MarkCompleted(r) \/ RecordBalance(r) \/ MarkFailed(r)
         \/ MarkRevoked(r) \/ MarkRevocationFailed(r)
  PROVE  TypeOK'
<1>1. request[r].accrual \in AccrualId
  BY DEF Linked, RequestLinked, AtWork, Inserted, MarkCompleted, RecordBalance, MarkFailed,
       MarkRevoked, MarkRevocationFailed
<1>2. request' \in [Request -> RequestState]
  <2>1. \/ request' = [request EXCEPT ![r] = Idle]
        \/ \E s \in Step : request' = [request EXCEPT ![r].step = s]
    BY DEF MarkCompleted, RecordBalance, MarkFailed, MarkRevoked,
         MarkRevocationFailed, Goto, Finish, Step
  <2>2. ASSUME NEW s \in Step, request' = [request EXCEPT ![r].step = s]
        PROVE  request' \in [Request -> RequestState]
    BY <2>2, GotoType
  <2> QED BY <2>1, <2>2, FinishType
<1>3. invoice' \in [InvoiceId -> InvoiceStatus \cup {"UNUSED", "DELETED"}]
  <2>1. UNCHANGED invoice \/ \E i, s \in InvoiceStatus :
            invoice' = [invoice EXCEPT ![request[r].invoice] = s]
    BY DEF MarkCompleted, RecordBalance, MarkFailed, MarkRevoked,
         MarkRevocationFailed, InvoiceStatus, database
  <2> QED BY <2>1, InvoiceType DEF TypeOK
<1>4. accrual' \in [AccrualId -> AccrualRow]
  <2>1. \/ UNCHANGED accrual
        \/ \E s \in AccrualStatus :
            accrual' = [accrual EXCEPT ![request[r].accrual].status = s]
        \/ \E v \in RevocationStatus :
            accrual' = [accrual EXCEPT ![request[r].accrual].revocation = v]
    BY DEF MarkCompleted, RecordBalance, MarkFailed, MarkRevoked,
         MarkRevocationFailed, AccrualStatus, RevocationStatus, database
  <2>2. ASSUME NEW s \in AccrualStatus,
               accrual' = [accrual EXCEPT ![request[r].accrual].status = s]
        PROVE  accrual' \in [AccrualId -> AccrualRow]
    BY <1>1, <2>2, AccrualType
  <2>3. ASSUME NEW v \in RevocationStatus,
               accrual' = [accrual EXCEPT ![request[r].accrual].revocation = v]
        PROVE  accrual' \in [AccrualId -> AccrualRow]
    BY <1>1, <2>3, AccrualType
  <2> QED BY <2>1, <2>2, <2>3 DEF TypeOK
<1>5. UNCHANGED <<users, wire, credited, cancelled>>
  BY DEF MarkCompleted, RecordBalance, MarkFailed, MarkRevoked,
       MarkRevocationFailed, provider, database
<1> QED BY <1>2, <1>3, <1>4, <1>5 DEF TypeOK

(* Removing an invoice or a user deletes attempts and keeps their shape.    *)
LEMMA RemovalType ==
  ASSUME TypeOK,
         \/ \E i \in InvoiceId : Remove(i)
         \/ \E u \in User : RemoveUser(u)
  PROVE  TypeOK'
<1>1. accrual' \in [AccrualId -> AccrualRow]
  <2>1. \A a \in AccrualId :
            /\ accrual[a] \in AccrualRow
            /\ [accrual[a] EXCEPT !.status = "DELETED"] \in AccrualRow
    BY DEF TypeOK, AccrualRow
  <2>2. ASSUME NEW i \in InvoiceId, Remove(i)
        PROVE  accrual' \in [AccrualId -> AccrualRow]
    BY <2>1, <2>2 DEF Remove
  <2>3. ASSUME NEW u \in User, RemoveUser(u)
        PROVE  accrual' \in [AccrualId -> AccrualRow]
    BY <2>1, <2>3 DEF RemoveUser
  <2> QED BY <2>2, <2>3
<1>2. invoice' \in [InvoiceId -> InvoiceStatus \cup {"UNUSED", "DELETED"}]
  BY InvoiceType DEF Remove, RemoveUser, TypeOK
<1> QED BY <1>1, <1>2 DEF TypeOK, Remove, RemoveUser, provider

(* The provider working alone, and a restart.                               *)
LEMMA EnvironmentType ==
  ASSUME TypeOK,
         \/ \E a \in AccrualId : ProviderSale(a) \/ ProviderCancel(a)
         \/ Crash
  PROVE  TypeOK'
<1>1. CASE Crash
  BY <1>1, IdleType DEF Crash, TypeOK, database, provider
<1>2. ASSUME NEW a \in AccrualId, ProviderSale(a) \/ ProviderCancel(a)
      PROVE  TypeOK'
  BY <1>2 DEF ProviderSale, ProviderCancel, TypeOK, database
<1> QED BY <1>1, <1>2

LEMMA CreateType == ASSUME TypeOK, NEW r \in Request, Create(r) PROVE TypeOK'
  BY FinishType, InvoiceType DEF Create, Finish, TypeOK, Invoices, InvoiceStatus, provider

(* Every step keeps the types, in a state where the links hold.             *)
LEMMA TypeStep == ASSUME TypeOK, Linked, [Next]_vars PROVE TypeOK'
<1>1. ASSUME NEW r \in Request, Start(r) \/ Continue(r) PROVE TypeOK'
  <2>1. CASE ClaimRevocation(r)
    <3>1. request[r].original \in AccrualId
      BY <2>1 DEF ClaimRevocation, Linked, RequestLinked, Inserted
    <3> QED BY <2>1, <3>1, ClaimRevocationType
  <2> QED BY <1>1, <2>1, StartType, CreateType, ClaimType, AnswerType, WriteType
          DEF Continue
<1>2. CASE UNCHANGED vars
  BY <1>2 DEF vars, TypeOK
<1> QED BY <1>1, <1>2, RemovalType, EnvironmentType DEF Next

-----------------------------------------------------------------------------
(* Links between the tables, the requests and the provider. *)

(* No step takes an inserted attempt away or moves it to another invoice.   *)
Kept(a) == Inserted(a) => Inserted(a)' /\ accrual'[a].invoice = accrual[a].invoice

LEMMA AttemptsAreKept ==
  ASSUME TypeOK, Linked, [Next]_vars, NEW a \in AccrualId
  PROVE  Kept(a)
<1>1. ASSUME NEW r \in Request, Claim(r) PROVE Kept(a)
  BY <1>1 DEF Claim, NextAccrual, Kept, Inserted, TypeOK
<1>2. ASSUME NEW r \in Request, ClaimRevocation(r) PROVE Kept(a)
  BY <1>2 DEF ClaimRevocation, Kept, Inserted, TypeOK, AccrualRow
<1>3. ASSUME NEW r \in Request, MarkCompleted(r) \/ MarkFailed(r)
      PROVE  Kept(a)
  BY <1>3 DEF MarkCompleted, MarkFailed, Kept, Inserted, TypeOK, AccrualRow
<1>4. ASSUME NEW r \in Request, MarkRevoked(r) \/ MarkRevocationFailed(r)
      PROVE  Kept(a)
  BY <1>4 DEF MarkRevoked, MarkRevocationFailed, Kept, Inserted, TypeOK,
              AccrualRow
<1>5. ASSUME NEW i \in InvoiceId, Remove(i) PROVE Kept(a)
  BY <1>5 DEF Remove, Kept, Inserted, TypeOK, AccrualRow
<1>6. ASSUME NEW u \in User, RemoveUser(u) PROVE Kept(a)
  BY <1>6 DEF RemoveUser, Kept, Inserted, TypeOK, AccrualRow
<1>7. CASE UNCHANGED accrual
  BY <1>7 DEF Kept, Inserted
<1> QED
  BY <1>1, <1>2, <1>3, <1>4, <1>5, <1>6, <1>7
  DEF Next, Start, Continue, RegisterBegin, AccrueBegin, RevokeBegin, Begin,
      Create, SaleAccepted, SaleRejected, SaleDuplicate, SaleUnanswered,
      RecordBalance, CancelAccepted, CancelRejected, CancelUnanswered,
      ProviderSale, ProviderCancel, Crash, database, vars

(* A request that does not move stays linked. *)
LEMMA BystanderLinked ==
  ASSUME TypeOK, NEW s \in Request, RequestLinked(s), request'[s] = request[s],
         \A a \in AccrualId : Kept(a)
  PROVE  RequestLinked(s)'
  BY DEF RequestLinked, Kept, Inserted

(* An idle request is linked to nothing. *)
LEMMA IdleLinked ==
  ASSUME NEW s \in Request, request'[s] = Idle
  PROVE  RequestLinked(s)'
  BY DEF RequestLinked, Idle, AtWork

(* A step that only advances its own request keeps every request linked, if *)
(* the new step asks for no link the old one did not have.                  *)
LEMMA AdvanceLinked ==
  ASSUME TypeOK, Linked, NEW r \in Request, NEW q,
         request' = [request EXCEPT ![r] = q],
         \A a \in AccrualId : Kept(a),
         RequestLinked(r)'
  PROVE  \A s \in Request : RequestLinked(s)'
<1>1. ASSUME NEW s \in Request, s # r PROVE RequestLinked(s)'
  BY <1>1, BystanderLinked DEF TypeOK, Linked
<1> QED BY <1>1

(* Starting a request links it to rows that exist. *)
LEMMA StartLinked ==
  ASSUME TypeOK, Linked, NEW r \in Request, Start(r),
         \A a \in AccrualId : Kept(a)
  PROVE  \A s \in Request : RequestLinked(s)'
<1>1. PICK u \in User :
        \/ \E d \in Doc : RegisterBegin(r, u, d)
        \/ \E i \in InvoiceId : AccrueBegin(r, u, i) \/ RevokeBegin(r, u, i)
  BY DEF Start
<1>2. ASSUME NEW d \in Doc, RegisterBegin(r, u, d)
      PROVE  \A s \in Request : RequestLinked(s)'
  <2> DEFINE q == [Idle EXCEPT !.step = "create", !.user = u, !.doc = d]
  <2>1. request' = [request EXCEPT ![r] = q]
    BY <1>2 DEF RegisterBegin, Begin
  <2>2. RequestLinked(r)'
    BY <2>1 DEF RequestLinked, AtWork, Idle, TypeOK
  <2> QED BY <2>1, <2>2, AdvanceLinked
<1>3. ASSUME NEW i \in InvoiceId, AccrueBegin(r, u, i)
      PROVE  \A s \in Request : RequestLinked(s)'
  <2> DEFINE q == [Idle EXCEPT !.step = "claim", !.user = u, !.invoice = i]
  <2>1. request' = [request EXCEPT ![r] = q]
    BY <1>3 DEF AccrueBegin, Begin
  <2>2. RequestLinked(r)'
    BY <2>1 DEF RequestLinked, AtWork, Idle, TypeOK
  <2> QED BY <2>1, <2>2, AdvanceLinked
<1>4. ASSUME NEW i \in InvoiceId, RevokeBegin(r, u, i)
      PROVE  \A s \in Request : RequestLinked(s)'
  <2>1. PICK a \in Latest(Attempts(i)) :
          Begin(r, u, [Idle EXCEPT !.step = "claimRevocation", !.user = u,
                                   !.invoice = i, !.original = a])
    BY <1>4 DEF RevokeBegin
  <2> DEFINE q == [Idle EXCEPT !.step = "claimRevocation", !.user = u,
                               !.invoice = i, !.original = a]
  <2>2. request' = [request EXCEPT ![r] = q]
    BY <2>1 DEF Begin
  <2>3. Inserted(a)'
    BY DEF Latest, Attempts, AccrualStatus, Inserted, Kept
  <2>4. RequestLinked(r)'
    BY <2>2, <2>3 DEF RequestLinked, AtWork, Idle, TypeOK
  <2> QED BY <2>2, <2>4, AdvanceLinked
<1> QED BY <1>1, <1>2, <1>3, <1>4

(* The two claims link the request to the attempt they insert or mark.      *)
LEMMA ClaimLinked ==
  ASSUME TypeOK, Linked, NEW r \in Request, Claim(r) \/ ClaimRevocation(r),
         \A a \in AccrualId : Kept(a)
  PROVE  /\ \A s \in Request : RequestLinked(s)'
         /\ \A a \in AccrualId : Inserted(a)' => accrual'[a].invoice \in InvoiceId
         /\ \A c \in wire' : Inserted(c.accrual)'
<1> DEFINE i == request[r].invoice
<1>1. i \in InvoiceId
  BY DEF Linked, RequestLinked, Claim, ClaimRevocation
<1>2. CASE Finish(r) /\ UNCHANGED <<accrual, wire>>
  <2>1. request' = [request EXCEPT ![r] = Idle] /\ RequestLinked(r)'
    BY <1>2, IdleLinked DEF Finish, TypeOK
  <2> QED BY <1>2, <2>1, AdvanceLinked DEF Linked, Inserted
<1>3. ASSUME NEW a \in AccrualId,
             accrual' = [accrual EXCEPT ![a] =
                [invoice |-> i, user |-> request[r].user,
                 status |-> "PROCESSING", revocation |-> "NULL"]],
             request' = [request EXCEPT ![r].step = "sale", ![r].accrual = a],
             wire' = wire \cup {[op |-> "sale", accrual |-> a]}
      PROVE  /\ \A s \in Request : RequestLinked(s)'
             /\ \A b \in AccrualId : Inserted(b)' => accrual'[b].invoice \in InvoiceId
             /\ \A c \in wire' : Inserted(c.accrual)'
  <2>1. Inserted(a)' /\ accrual'[a].invoice = i
    BY <1>3 DEF TypeOK, Inserted
  <2>2. RequestLinked(r)'
    BY <1>1, <1>3, <2>1 DEF RequestLinked, AtWork, TypeOK, RequestState
  <2>3. \A s \in Request : RequestLinked(s)'
    BY <1>3, <2>2, BystanderLinked DEF TypeOK, Linked
  <2>4. \A b \in AccrualId : Inserted(b)' => accrual'[b].invoice \in InvoiceId
    BY <1>1, <1>3 DEF Linked, Inserted, TypeOK
  <2>5. \A c \in wire' : Inserted(c.accrual)'
    BY <1>3, <2>1 DEF Linked, TypeOK, Call, Kept, Inserted
  <2> QED BY <2>3, <2>4, <2>5
<1>4. ASSUME NEW a \in Revocable(i), request[r].step = "claimRevocation",
             accrual' = [accrual EXCEPT ![a].revocation = "PROCESSING"],
             request' = [request EXCEPT ![r].step = "cancel", ![r].accrual = a],
             wire' = wire \cup {[op |-> "cancel", accrual |-> request[r].original]}
      PROVE  /\ \A s \in Request : RequestLinked(s)'
             /\ \A b \in AccrualId : Inserted(b)' => accrual'[b].invoice \in InvoiceId
             /\ \A c \in wire' : Inserted(c.accrual)'
  <2>1. a \in AccrualId /\ Inserted(a) /\ accrual[a].invoice = i
    BY DEF Revocable, Latest, CompletedAttempts, Attempts, Inserted
  <2>2. PICK o \in AccrualId : o = request[r].original /\ Inserted(o)'
    BY <1>4 DEF Linked, RequestLinked, Kept, Inserted
  <2>3. RequestLinked(r)'
    BY <1>1, <1>4, <2>1, <2>2 DEF RequestLinked, AtWork, TypeOK, RequestState, Kept
  <2>4. \A s \in Request : RequestLinked(s)'
    BY <1>4, <2>3, BystanderLinked DEF TypeOK, Linked
  <2>5. \A b \in AccrualId : Inserted(b)' => accrual'[b].invoice \in InvoiceId
    BY <1>4 DEF Linked, Inserted, TypeOK, AccrualRow
  <2>6. \A c \in wire' : Inserted(c.accrual)'
    BY <1>4, <2>2 DEF Linked, TypeOK, Call, Kept, Inserted
  <2> QED BY <2>4, <2>5, <2>6
<1>5. CASE Claim(r)
  BY <1>2, <1>3, <1>5 DEF Claim, NextAccrual
<1>6. CASE ClaimRevocation(r)
  BY <1>2, <1>4, <1>6 DEF ClaimRevocation
<1> QED BY <1>5, <1>6

(* An answer or a write moves its request forward along links it has.       *)
LEMMA AnswerLinked ==
  ASSUME TypeOK, Linked, NEW r \in Request,
         \/ SaleAccepted(r) \/ SaleRejected(r) \/ SaleDuplicate(r)
         \/ SaleUnanswered(r) \/ CancelAccepted(r) \/ CancelRejected(r)
         \/ CancelUnanswered(r) \/ MarkCompleted(r) \/ RecordBalance(r)
         \/ MarkFailed(r) \/ MarkRevoked(r) \/ MarkRevocationFailed(r),
         \A a \in AccrualId : Kept(a)
  PROVE  \A s \in Request : RequestLinked(s)'
<1>1. request[r].step \in AtWork
  BY DEF AtWork, SaleAccepted, SaleRejected, SaleDuplicate, SaleUnanswered,
       CancelAccepted, CancelRejected, CancelUnanswered, MarkCompleted,
       RecordBalance, MarkFailed, MarkRevoked, MarkRevocationFailed
<1>2. \/ request' = [request EXCEPT ![r] = Idle]
      \/ \E t \in AtWork \ {"cancel"} :
            \/ request' = [request EXCEPT ![r].step = t]
            \/ request' = [request EXCEPT ![r].step = t, ![r].uncertain = TRUE]
  BY DEF AtWork, SaleAccepted, SaleRejected, SaleDuplicate, SaleUnanswered,
       CancelAccepted, CancelRejected, CancelUnanswered, MarkCompleted,
       RecordBalance, MarkFailed, MarkRevoked, MarkRevocationFailed, Goto, Finish
<1>3. PICK a \in AccrualId :
      /\ request[r].accrual = a
      /\ request[r].invoice \in InvoiceId
      /\ Inserted(a)
      /\ accrual[a].invoice = request[r].invoice
  BY <1>1 DEF Linked, RequestLinked, Inserted
<1>4. CASE request' = [request EXCEPT ![r] = Idle]
  <2>1. RequestLinked(r)'
    BY <1>4, IdleLinked DEF TypeOK
  <2> QED BY <1>4, <2>1, AdvanceLinked
<1>5. ASSUME NEW t \in AtWork \ {"cancel"},
             request'[r].step = t,
             request'[r].accrual = request[r].accrual,
             request'[r].invoice = request[r].invoice
      PROVE  RequestLinked(r)'
  BY <1>3, <1>5 DEF RequestLinked, AtWork, Kept, Inserted
<1>6. ASSUME NEW t \in AtWork \ {"cancel"},
             \/ request' = [request EXCEPT ![r].step = t]
             \/ request' = [request EXCEPT ![r].step = t, ![r].uncertain = TRUE]
      PROVE  \A s \in Request : RequestLinked(s)'
  <2>1. /\ request'[r].step = t
        /\ request'[r].accrual = request[r].accrual
        /\ request'[r].invoice = request[r].invoice
    BY <1>6 DEF TypeOK, RequestState
  <2>2. RequestLinked(r)'
    BY <1>5, <2>1
  <2>3. \A s \in Request : s # r => request'[s] = request[s]
    BY <1>6 DEF TypeOK
  <2> QED BY <2>2, <2>3, BystanderLinked DEF Linked
<1> QED BY <1>2, <1>4, <1>6

(* Every step keeps the links. *)
LEMMA LinkedStep == ASSUME TypeOK, Linked, [Next]_vars PROVE Linked'
<1>1. \A a \in AccrualId : Kept(a)
  BY AttemptsAreKept
<1>2. \A s \in Request : RequestLinked(s)'
  <2>1. ASSUME NEW r \in Request, Create(r) PROVE \A s \in Request : RequestLinked(s)'
    <3>1. request' = [request EXCEPT ![r] = Idle] /\ RequestLinked(r)'
      BY <2>1, IdleLinked DEF Create, Finish, TypeOK
    <3> QED BY <1>1, <3>1, AdvanceLinked
  <2>2. CASE Crash
    BY <2>2, IdleLinked DEF Crash
  <2>3. CASE UNCHANGED request
    BY <1>1, <2>3, BystanderLinked DEF Linked
  <2> QED BY <1>1, <2>1, <2>2, <2>3, StartLinked, ClaimLinked, AnswerLinked
          DEF Next, Continue, Remove, RemoveUser, ProviderSale, ProviderCancel, vars
<1>3. CASE \E r \in Request : Claim(r) \/ ClaimRevocation(r)
  <2>1. credited' = credited
    BY <1>3 DEF Claim, ClaimRevocation
  <2>2. \A a \in credited' : Inserted(a)'
    BY <1>1, <2>1 DEF Linked, Kept, TypeOK
  <2> QED BY <1>1, <1>2, <1>3, <2>2, ClaimLinked DEF Linked
<1>4. CASE ~(\E r \in Request : Claim(r) \/ ClaimRevocation(r))
  <2>1. /\ wire' \subseteq wire
        /\ credited' \subseteq credited \cup {c.accrual : c \in wire}
    <3>1. ASSUME NEW r \in Request, SaleAccepted(r)
          PROVE  /\ wire' \subseteq wire
                 /\ credited' \subseteq credited \cup {c.accrual : c \in wire}
      <4>1. SaleCall(r).accrual \in {c.accrual : c \in wire}
        BY <3>1 DEF SaleAccepted
      <4> QED BY <3>1, <4>1 DEF SaleAccepted, SaleCall
    <3>2. ASSUME NEW a \in AccrualId, ProviderSale(a)
          PROVE  /\ wire' \subseteq wire
                 /\ credited' \subseteq credited \cup {c.accrual : c \in wire}
      <4>1. [op |-> "sale", accrual |-> a].accrual \in {c.accrual : c \in wire}
        BY <3>2 DEF ProviderSale
      <4> QED BY <3>2, <4>1 DEF ProviderSale
    <3>3. CASE UNCHANGED credited /\ wire' \subseteq wire
      BY <3>3
    <3> QED
      BY <1>4, <3>1, <3>2, <3>3
      DEF Next, Start, Continue, RegisterBegin, AccrueBegin, RevokeBegin,
         Begin, Create, SaleRejected, SaleDuplicate, SaleUnanswered,
         MarkCompleted, RecordBalance, MarkFailed, CancelAccepted,
         CancelRejected, CancelUnanswered, MarkRevoked, MarkRevocationFailed,
         Remove, RemoveUser, ProviderCancel, Crash, provider, vars
  <2>2. \A a \in AccrualId : accrual'[a].status # "UNUSED" =>
            /\ accrual[a].status # "UNUSED"
            /\ accrual'[a].invoice = accrual[a].invoice
    <3>1. CASE UNCHANGED accrual
      BY <3>1
    <3>2. CASE \E r \in Request : \/ MarkCompleted(r) \/ MarkFailed(r)
                                  \/ MarkRevoked(r) \/ MarkRevocationFailed(r)
      <4>1. PICK r \in Request : \/ MarkCompleted(r) \/ MarkFailed(r)
                                 \/ MarkRevoked(r) \/ MarkRevocationFailed(r)
        BY <3>2
      <4>2. Inserted(request[r].accrual)
        BY <4>1 DEF Linked, RequestLinked, AtWork, MarkCompleted, MarkFailed,
                    MarkRevoked, MarkRevocationFailed
      <4> QED
        BY <4>1, <4>2 DEF MarkCompleted, MarkFailed, MarkRevoked,
           MarkRevocationFailed, TypeOK, AccrualRow, Inserted
    <3>3. CASE (\E i \in InvoiceId : Remove(i)) \/ \E u \in User : RemoveUser(u)
      BY <3>3 DEF Remove, RemoveUser, Attempts, AccrualStatus, TypeOK, AccrualRow
    <3> QED
      BY <1>4, <3>1, <3>2, <3>3
      DEF Next, Start, Continue, RegisterBegin, AccrueBegin, RevokeBegin, Begin,
          Create, SaleAccepted, SaleRejected, SaleDuplicate, SaleUnanswered,
          RecordBalance, CancelAccepted, CancelRejected, CancelUnanswered,
          ProviderSale, ProviderCancel, Crash, database, vars
  <2>3. \A a \in AccrualId : Inserted(a)' => accrual'[a].invoice \in InvoiceId
    BY <2>2 DEF Linked, Inserted
  <2>4. (\A c \in wire' : Inserted(c.accrual)') /\ (\A a \in credited' : Inserted(a)')
    BY <1>1, <2>1 DEF Linked, Kept, TypeOK, Call
  <2> QED BY <1>2, <2>3, <2>4 DEF Linked
<1> QED BY <1>3, <1>4

(* Type correctness: every row, request and call keeps its shape, and every *)
(* identifier a request holds, or a call carries, names a row that exists.  *)
THEOREM TypeCorrect == Spec => [](TypeOK /\ Linked)
<1>1. Init => TypeOK /\ Linked
  <2>1. Init => TypeOK
    BY IdleType DEF Init, TypeOK, UnusedAccrual, AccrualRow, RevocationStatus
  <2>2. Init => Linked
    BY DEF Init, Linked, RequestLinked, Inserted, Idle, UnusedAccrual, AtWork
  <2> QED BY <2>1, <2>2
<1>2. TypeOK /\ Linked /\ [Next]_vars => (TypeOK /\ Linked)'
  BY TypeStep, LinkedStep
<1> QED BY <1>1, <1>2, PTL DEF Spec

-----------------------------------------------------------------------------
(* Every sale is spent at most once. *)

(* A spent sale belongs to an attempt that was inserted.                    *)
LEMMA SpentInserted ==
  ASSUME Linked, NEW a \in AccrualId, Spent(a)
  PROVE  Inserted(a) /\ accrual[a].invoice \in InvoiceId
  BY DEF Linked, Spent, Sale

(* Exclusion survives a step that hands no claim to anybody and leaves      *)
(* alone the invoices that are still claimed.                               *)
LEMMA ExclusiveKept ==
  ASSUME Exclusive,
         \A i \in RealInvoices : \A s \in Request :
            /\ Accrues(s, i)' => Accrues(s, i) /\ invoice'[i] = invoice[i]
            /\ Revokes(s, i)' => Revokes(s, i) /\ invoice'[i] = invoice[i]
  PROVE  Exclusive'
  BY DEF Exclusive, RealInvoices, RealDocs, DocOf, InvoiceId

(* Single spending survives a step that spends nothing new and takes no     *)
(* invoice out of the taken states.                                         *)
LEMMA SpentKept ==
  ASSUME TypeOK, Linked, SpentIsTaken, SpentOnce,
         \A a \in AccrualId : Kept(a),
         \A a \in AccrualId : Spent(a)' => Spent(a),
         \A i \in RealInvoices : invoice[i] \in Taken => invoice'[i] \in Taken
  PROVE  SpentIsTaken' /\ SpentOnce'
<1>1. \A a \in AccrualId : Spent(a)' =>
        Spent(a) /\ accrual'[a].invoice = accrual[a].invoice
                 /\ accrual[a].invoice \in InvoiceId
  BY SpentInserted DEF Kept
<1>2. SpentIsTaken'
  BY <1>1 DEF SpentIsTaken, Real, RealInvoices
<1>3. SpentOnce'
  BY <1>1 DEF SpentOnce, Real, SameDoc
<1> QED BY <1>2, <1>3

(* The definitive failures stay true of sales that are not spent, under a   *)
(* step that spends nothing new and makes no request fail.                  *)
LEMMA FailedKept ==
  ASSUME TypeOK, Linked, FailedIsUnspent,
         \A a \in AccrualId : Kept(a),
         \A a \in AccrualId : Spent(a)' => Spent(a),
         NEW s \in Request, request'[s] = request[s],
         accrual'[request[s].accrual].status # "DELETED" =>
            accrual[request[s].accrual].status # "DELETED"
  PROVE  FailedUnspent(s)'
<1> DEFINE q == request[s]
<1> SUFFICES ASSUME q.step = "fail", ~q.uncertain,
                    accrual'[q.accrual].status # "DELETED",
                    NEW a \in AccrualId, Spent(a)', Real(a)'
             PROVE  DocOf(accrual'[a].invoice) # DocOf(accrual'[q.accrual].invoice)
  BY DEF FailedUnspent, SameDoc
<1>1. Inserted(q.accrual)
  BY DEF Linked, RequestLinked, AtWork
<1>2. accrual'[q.accrual].invoice = accrual[q.accrual].invoice
  BY <1>1 DEF Kept, Inserted
<1>3. Spent(a) /\ accrual'[a].invoice = accrual[a].invoice
  BY SpentInserted DEF Kept
<1>4. ~SameDoc(a, q.accrual)
  BY <1>3 DEF FailedIsUnspent, FailedUnspent, Real
<1> QED BY <1>2, <1>3, <1>4 DEF SameDoc

(* A step of request r that leaves invoices and attempts alone, spends      *)
(* nothing new, and neither claims nor fails definitively, is safe.         *)
LEMMA QuietStep ==
  ASSUME TypeOK, Linked, Safe,
         \A a \in AccrualId : Kept(a),
         UNCHANGED <<invoice, accrual>>,
         \A a \in AccrualId : Spent(a)' => Spent(a),
         AppliedOnce',
         \A s \in Request :
            \/ request'[s] = request[s]
            \/ /\ \A i \in RealInvoices :
                    /\ Accrues(s, i)' => Accrues(s, i)
                    /\ Revokes(s, i)' => Revokes(s, i)
               /\ FailedUnspent(s)'
  PROVE  Safe'
<1>1. OneRowPerDoc'
  BY DEF Safe, OneRowPerDoc, RealInvoices, RealDocs, Row, DocOf
<1>2. SpentIsTaken' /\ SpentOnce'
  BY SpentKept DEF Safe
<1>3. \A i \in RealInvoices : \A s \in Request :
        /\ Accrues(s, i)' => Accrues(s, i) /\ invoice'[i] = invoice[i]
        /\ Revokes(s, i)' => Revokes(s, i) /\ invoice'[i] = invoice[i]
  BY DEF Accrues, Revokes
<1>4. Exclusive'
  BY <1>3, ExclusiveKept DEF Safe
<1>5. ASSUME NEW s \in Request PROVE FailedUnspent(s)'
  BY FailedKept DEF Safe
<1>6. FailedIsUnspent'
  BY <1>5 DEF FailedIsUnspent, FailedUnspent
<1> QED BY <1>1, <1>2, <1>4, <1>6 DEF Safe

(* A request at work on a real invoice whose row exists still has its       *)
(* attempt, unless a user was removed: then the attempt is DELETED.         *)
LEMMA AttemptGone ==
  ASSUME TypeOK, Linked, NEW r \in Request, request[r].step \in AtWork,
         accrual[request[r].accrual].status \notin AccrualStatus
  PROVE  accrual[request[r].accrual].status = "DELETED"
  BY DEF TypeOK, Linked, RequestLinked, Inserted, AccrualRow

(* Only real invoices matter to FailedUnspent.                              *)
LEMMA SeedFails ==
  ASSUME Linked, NEW r \in Request,
         request[r].step = "fail" => request[r].invoice \notin RealInvoices
  PROVE  FailedUnspent(r)
<1> SUFFICES ASSUME request[r].step = "fail", NEW a \in AccrualId, Real(a),
                    SameDoc(a, request[r].accrual)
             PROVE  FALSE
  BY DEF FailedUnspent
<1>1. request[r].invoice \in InvoiceId
      /\ accrual[request[r].accrual].invoice = request[r].invoice
  BY DEF Linked, RequestLinked, AtWork
<1>2. DocOf(request[r].invoice) \in RealDocs
  BY <1>1 DEF Real, SameDoc
<1> QED BY <1>1, <1>2 DEF RealInvoices

(* Requests that only begin, end, or learn that nothing is certain.         *)
LEMMA QuietActions ==
  ASSUME TypeOK, Linked, Safe, NEW r \in Request,
         \A a \in AccrualId : Kept(a),
         \/ Start(r)
         \/ SaleDuplicate(r) \/ SaleUnanswered(r) \/ CancelAccepted(r)
         \/ CancelRejected(r) \/ CancelUnanswered(r)
         \/ Create(r) /\ UNCHANGED invoice
         \/ (Claim(r) \/ ClaimRevocation(r)) /\ Finish(r)
                /\ UNCHANGED <<invoice, accrual, wire>>
  PROVE  Safe'
<1>1. UNCHANGED <<invoice, accrual, credited>> /\ wire' \subseteq wire
  BY DEF Start, RegisterBegin, AccrueBegin, RevokeBegin, Begin, SaleDuplicate,
       SaleUnanswered, CancelAccepted, CancelRejected, CancelUnanswered, Create,
       Claim, ClaimRevocation, database, provider
<1>2. \A s \in Request : s # r => request'[s] = request[s]
  BY DEF Start, RegisterBegin, AccrueBegin, RevokeBegin, Begin, SaleDuplicate,
       SaleUnanswered, CancelAccepted, CancelRejected, CancelUnanswered, Create,
       Finish, Goto, TypeOK
<1>3. \/ request'[r].step \in {"idle", "create", "claim", "claimRevocation"}
      \/ /\ request[r].step = "sale"
         /\ request'[r].step = "fail"
         /\ request'[r].uncertain
         /\ request'[r].invoice = request[r].invoice
      \/ /\ request[r].step = "cancel"
         /\ request'[r].step \in {"revoked", "revocationFail"}
         /\ request'[r].accrual = request[r].accrual
         /\ request'[r].invoice = request[r].invoice
  <2>1. CASE Start(r)
    BY <2>1 DEF Start, RegisterBegin, AccrueBegin, RevokeBegin, Begin, TypeOK, Idle
  <2>2. CASE Finish(r)
    BY <2>2 DEF Finish, TypeOK, Idle
  <2>3. CASE SaleDuplicate(r) \/ SaleUnanswered(r)
    BY <2>3 DEF SaleDuplicate, SaleUnanswered, TypeOK, RequestState
  <2>4. CASE CancelAccepted(r) \/ CancelRejected(r)
    BY <2>4 DEF CancelAccepted, CancelRejected, Goto, TypeOK, RequestState
  <2>5. CASE CancelUnanswered(r)
    BY <2>5 DEF CancelUnanswered, TypeOK, RequestState
  <2> QED BY <2>1, <2>2, <2>3, <2>4, <2>5 DEF Create
<1>4. \A i \in RealInvoices :
        /\ Accrues(r, i)' => Accrues(r, i)
        /\ Revokes(r, i)' => Revokes(r, i)
  BY <1>1, <1>3 DEF Accrues, Revokes
<1>5. FailedUnspent(r)'
  BY <1>3 DEF FailedUnspent
<1>6. \A a \in AccrualId : Spent(a)' => Spent(a)
  BY <1>1 DEF Spent, Sale
<1>7. AppliedOnce'
  BY <1>1 DEF Safe, AppliedOnce, Sale
<1> QED BY <1>1, <1>2, <1>4, <1>5, <1>6, <1>7, QuietStep

(* The provider working alone, a restart, and nothing at all.               *)
LEMMA EnvironmentSafe ==
  ASSUME TypeOK, Linked, Safe,
         \A a \in AccrualId : Kept(a),
         \/ \E a \in AccrualId : ProviderSale(a) \/ ProviderCancel(a)
         \/ Crash
         \/ UNCHANGED vars
  PROVE  Safe'
<1>1. UNCHANGED <<invoice, accrual>>
  BY DEF ProviderSale, ProviderCancel, Crash, vars, database
<1>2. (\A a \in AccrualId : Spent(a)' => Spent(a)) /\ AppliedOnce'
  BY DEF ProviderSale, ProviderCancel, Crash, vars, provider, Spent, Sale, Safe,
         AppliedOnce
<1>3. ASSUME NEW s \in Request
      PROVE  \/ request'[s] = request[s]
             \/ /\ \A i \in RealInvoices :
                    /\ Accrues(s, i)' => Accrues(s, i)
                    /\ Revokes(s, i)' => Revokes(s, i)
                /\ FailedUnspent(s)'
  <2>1. CASE Crash
    BY <2>1 DEF Crash, Accrues, Revokes, FailedUnspent, Idle
  <2> QED BY <2>1 DEF ProviderSale, ProviderCancel, vars
<1> QED BY <1>1, <1>2, <1>3, QuietStep

(* An applied sale stays spent; a rejected one is spent no more, which is   *)
(* what makes the failure that follows definitive.                          *)
LEMMA SaleAnswerSafe ==
  ASSUME TypeOK, Linked, Safe, NEW r \in Request,
         \A a \in AccrualId : Kept(a),
         SaleAccepted(r) \/ SaleRejected(r)
  PROVE  Safe'
<1> DEFINE c == request[r].accrual
<1>1. PICK a \in AccrualId :
        /\ a = request[r].accrual
        /\ Sale(a) \in wire
        /\ wire' = wire \ {Sale(a)}
  BY DEF SaleAccepted, SaleRejected, SaleCall, Sale, Linked, RequestLinked,
         AtWork, Inserted
<1>2. /\ UNCHANGED <<invoice, accrual>>
      /\ request[r].step = "sale"
      /\ request'[r].accrual = a
      /\ request'[r].invoice = request[r].invoice
      /\ \A s \in Request : s # r => request'[s] = request[s]
  BY <1>1 DEF SaleAccepted, SaleRejected, Goto, TypeOK, RequestState, database
<1>3. \A b \in AccrualId : Sale(b) \in wire' => b # a /\ Sale(b) \in wire
  BY <1>1 DEF Sale
<1>4. \/ request'[r].step = "complete" /\ credited' = credited \cup {a}
      \/ request'[r].step = "fail" /\ credited' = credited
  BY <1>1 DEF SaleAccepted, SaleRejected, Goto, TypeOK, RequestState
<1>5. \A b \in AccrualId : Spent(b)' => Spent(b)
  BY <1>1, <1>3, <1>4 DEF Spent, Sale
<1>6. AppliedOnce'
  BY <1>1, <1>3, <1>4 DEF Safe, AppliedOnce, Sale
<1>7. \A i \in RealInvoices :
        /\ Accrues(r, i)' => Accrues(r, i)
        /\ Revokes(r, i)' => Revokes(r, i)
  BY <1>2, <1>4 DEF Accrues, Revokes
<1>8. FailedUnspent(r)'
  <2>1. CASE request'[r].step = "complete"
    BY <2>1 DEF FailedUnspent
  <2>2. CASE request'[r].step = "fail" /\ credited' = credited
    <3> SUFFICES ASSUME NEW b \in AccrualId, Spent(b)', Real(b)',
                        DocOf(accrual'[b].invoice) = DocOf(accrual'[a].invoice)
                 PROVE  FALSE
      BY <1>2 DEF FailedUnspent, SameDoc
    <3>1. Spent(b) /\ Real(b) /\ SameDoc(b, a) /\ Spent(a)
      BY <1>1, <1>2, <1>5 DEF Real, SameDoc, Spent
    <3>2. b = a
      BY <3>1 DEF Safe, SpentOnce
    <3>3. a \notin credited /\ Sale(a) \notin wire'
      BY <1>1, <1>3 DEF Safe, AppliedOnce
    <3> QED BY <2>2, <3>2, <3>3 DEF Spent, Sale
  <2> QED BY <1>4, <2>1, <2>2
<1> QED BY <1>2, <1>5, <1>6, <1>7, <1>8, QuietStep

(* The balance write can only fail when its attempt was deleted.            *)
LEMMA RecordBalanceSafe ==
  ASSUME TypeOK, Linked, Safe, ~DbMayFail, NEW r \in Request, RecordBalance(r),
         \A a \in AccrualId : Kept(a)
  PROVE  Safe'
<1>1. UNCHANGED <<invoice, accrual, wire, credited>>
  BY DEF RecordBalance, database, provider
<1>2. /\ \A s \in Request : s # r => request'[s] = request[s]
      /\ \/ request'[r].step = "idle"
         \/ /\ request'[r].step = "fail"
            /\ request'[r].accrual = request[r].accrual
            /\ accrual[request[r].accrual].status \notin AccrualStatus
  BY DEF RecordBalance, Goto, Finish, Idle, TypeOK, RequestState
<1>3. request'[r].step = "idle" \/ accrual'[request'[r].accrual].status = "DELETED"
  BY <1>1, <1>2, AttemptGone DEF RecordBalance, AtWork
<1>4. FailedUnspent(r)' /\ \A i \in RealInvoices : ~Accrues(r, i)' /\ ~Revokes(r, i)'
  BY <1>2, <1>3 DEF FailedUnspent, Accrues, Revokes
<1>5. (\A b \in AccrualId : Spent(b)' => Spent(b)) /\ AppliedOnce'
  BY <1>1 DEF Spent, Sale, Safe, AppliedOnce
<1> QED BY <1>1, <1>2, <1>4, <1>5, QuietStep

(* A step that moves one invoice from one state to another, hands no claim  *)
(* to anybody, and spends nothing, keeps everything but the state of that   *)
(* invoice: what is left to prove is about it alone.                        *)
LEMMA MoveStep ==
  ASSUME TypeOK, Linked, Safe,
         \A a \in AccrualId : Kept(a),
         NEW i \in InvoiceId, NEW t,
         invoice' = [invoice EXCEPT ![i] = t],
         UNCHANGED <<wire, credited>>,
         \A s \in Request :
            \/ request'[s] = request[s]
            \/ request'[s].step \in {"idle", "balance"},
         \A a \in AccrualId :
            accrual'[a].status # "DELETED" => accrual[a].status # "DELETED",
         i \in RealInvoices => \A s \in Request : ~Accrues(s, i)' /\ ~Revokes(s, i)',
         i \in RealInvoices /\ t \in InvoiceStatus =>
            Row(i) \/ \A j \in RealInvoices : DocOf(j) = DocOf(i) => ~Row(j),
         i \in RealInvoices /\ t \notin Taken =>
            \A a \in AccrualId : Spent(a) /\ Real(a) => accrual[a].invoice # i
  PROVE  Safe'
<1>1. OneRowPerDoc'
  BY DEF Safe, OneRowPerDoc, RealInvoices, RealDocs, Row, DocOf, TypeOK
<1>2. \A a \in AccrualId : (Spent(a)' <=> Spent(a))
  BY DEF Spent, Sale
<1>3. \A a \in AccrualId : Spent(a) =>
        accrual'[a].invoice = accrual[a].invoice /\ accrual[a].invoice \in InvoiceId
  BY SpentInserted DEF Kept
<1>4. SpentIsTaken'
  BY <1>2, <1>3 DEF Safe, SpentIsTaken, Real, RealInvoices, TypeOK
<1>5. SpentOnce'
  BY <1>2, <1>3 DEF Safe, SpentOnce, Real, SameDoc
<1>6. AppliedOnce'
  BY DEF Safe, AppliedOnce, Sale
<1>7. ASSUME NEW s \in Request, request'[s] = request[s],
             request[s].step \in AtWork
      PROVE  accrual'[request[s].accrual].status # "DELETED" =>
                accrual[request[s].accrual].status # "DELETED"
  BY <1>7 DEF Linked, RequestLinked, Inserted
<1>8. Exclusive'
  <2>1. ASSUME NEW j \in RealInvoices, NEW s \in Request
        PROVE  /\ Accrues(s, j)' => Accrues(s, j) /\ invoice'[j] = invoice[j]
               /\ Revokes(s, j)' => Revokes(s, j) /\ invoice'[j] = invoice[j]
    <3>1. j # i => invoice'[j] = invoice[j]
      BY DEF TypeOK, RealInvoices
    <3>2. CASE request'[s].step \in {"idle", "balance"}
      BY <3>2 DEF Accrues, Revokes
    <3>3. CASE request'[s] = request[s]
      BY <1>7, <3>1, <3>3 DEF Accrues, Revokes, AtWork
    <3> QED BY <3>2, <3>3
  <2> QED BY <2>1, ExclusiveKept DEF Safe
<1>9. ASSUME NEW s \in Request PROVE FailedUnspent(s)'
  <2>1. CASE request'[s].step \in {"idle", "balance"}
    BY <2>1 DEF FailedUnspent
  <2>2. CASE request'[s] = request[s] /\ request[s].step \in AtWork
    BY <1>2, <1>7, <2>2, FailedKept DEF Safe
  <2>3. CASE request'[s] = request[s] /\ request[s].step \notin AtWork
    BY <2>3 DEF FailedUnspent, AtWork
  <2> QED BY <2>1, <2>2, <2>3
<1>10. FailedIsUnspent'
  BY <1>9 DEF FailedIsUnspent, FailedUnspent
<1> QED BY <1>1, <1>4, <1>5, <1>6, <1>8, <1>10 DEF Safe

(* A write that finds a row gone: only the deletion of a user, or of a test *)
(* invoice, does that while the request holds the claim.                    *)
LEMMA LostWriteSafe ==
  ASSUME TypeOK, Linked, Safe, NEW r \in Request,
         \A a \in AccrualId : Kept(a),
         ~BothRows(request[r].invoice, request[r].accrual),
         \/ MarkCompleted(r) \/ MarkFailed(r)
         \/ MarkRevoked(r) \/ MarkRevocationFailed(r)
  PROVE  Safe'
<1>1. UNCHANGED <<invoice, accrual, wire, credited>>
  BY DEF MarkCompleted, MarkFailed, MarkRevoked, MarkRevocationFailed, provider
<1>2. /\ \A s \in Request : s # r => request'[s] = request[s]
      /\ \/ request'[r].step = "idle"
         \/ /\ request[r].step = "complete"
            /\ request'[r] = [request[r] EXCEPT !.step = "fail"]
         \/ /\ request[r].step = "revoked"
            /\ request'[r] = [request[r] EXCEPT !.step = "revocationFail"]
  BY DEF MarkCompleted, MarkFailed, MarkRevoked, MarkRevocationFailed, Goto,
         Finish, Idle, TypeOK
<1>3. request[r] \in RequestState
  BY DEF TypeOK
<1>4. \A i \in RealInvoices :
        /\ Accrues(r, i)' => Accrues(r, i)
        /\ Revokes(r, i)' => Revokes(r, i)
  BY <1>1, <1>2, <1>3 DEF Accrues, Revokes, RequestState
<1>5. FailedUnspent(r)'
  <2>1. CASE request[r].step = "complete"
             /\ request'[r] = [request[r] EXCEPT !.step = "fail"]
    <3> DEFINE i == request[r].invoice  a == request[r].accrual
    <3>1. a \in AccrualId /\ accrual[a].invoice = i /\ i \in InvoiceId
      BY <2>1 DEF Linked, RequestLinked, AtWork, Inserted
    <3>2. Row(i) \/ i \notin RealInvoices
      BY <2>1 DEF Safe, Exclusive, Accrues, Row, InvoiceStatus
    <3>3. CASE ~Row(i)
      <4>1. \A b \in AccrualId : Real(b) => ~SameDoc(b, a)
        BY <3>1, <3>2, <3>3 DEF Real, SameDoc, RealInvoices
      <4> QED BY <1>1, <1>2, <1>3, <2>1, <4>1
           DEF FailedUnspent, RequestState, Real, SameDoc
    <3>4. CASE accrual[a].status \notin AccrualStatus
      BY <1>1, <1>3, <2>1, <3>4, AttemptGone DEF FailedUnspent, RequestState, AtWork
    <3> QED BY <3>3, <3>4 DEF BothRows
  <2> QED BY <1>2, <1>3, <2>1 DEF FailedUnspent, RequestState
<1>6. (\A b \in AccrualId : Spent(b)' => Spent(b)) /\ AppliedOnce'
  BY <1>1 DEF Spent, Sale, Safe, AppliedOnce
<1> QED BY <1>1, <1>2, <1>4, <1>5, <1>6, QuietStep

(* The writes that close a claim.                                           *)
LEMMA WriteSafe ==
  ASSUME TypeOK, Linked, Safe, NEW r \in Request,
         \A a \in AccrualId : Kept(a),
         BothRows(request[r].invoice, request[r].accrual),
         UNCHANGED <<wire, credited>>,
         request' = [request EXCEPT ![r] = Idle]
            \/ request' = [request EXCEPT ![r].step = "balance"],
         NEW t \in InvoiceStatus,
         invoice' = [invoice EXCEPT ![request[r].invoice] = t],
         NEW s \in AccrualStatus, NEW v \in RevocationStatus,
         \/ accrual' = [accrual EXCEPT ![request[r].accrual].status = s]
         \/ accrual' = [accrual EXCEPT ![request[r].accrual].revocation = v],
         \/ request[r].step \in {"complete", "fail"}
         \/ request[r].step \in {"revoked", "revocationFail"},
         t \notin Taken => request[r].step = "fail" /\ ~request[r].uncertain
  PROVE  Safe'
<1>1. PICK i \in InvoiceId, a \in AccrualId :
        i = request[r].invoice /\ a = request[r].accrual /\ accrual[a].invoice = i
  BY DEF Linked, RequestLinked, AtWork, Inserted
<1>2. accrual[a].status \in AccrualStatus /\ accrual[a].status # "DELETED" /\ Row(i)
  BY <1>1 DEF BothRows, AccrualStatus
<1>3. /\ \A q \in Request : q # r => request'[q] = request[q]
      /\ request'[r].step \in {"idle", "balance"}
  BY DEF TypeOK, RequestState, Idle
<1>4. \A b \in AccrualId : accrual'[b].status # "DELETED" => accrual[b].status # "DELETED"
  BY <1>1, <1>2 DEF TypeOK, AccrualRow
<1>5. ASSUME i \in RealInvoices, NEW q \in Request
      PROVE  ~Accrues(q, i)' /\ ~Revokes(q, i)'
  <2>1. Accrues(r, i) \/ Revokes(r, i)
    BY <1>1, <1>2 DEF Accrues, Revokes
  <2>2. CASE q = r
    BY <1>3, <2>2 DEF Accrues, Revokes
  <2>3. CASE q # r
    <3>1. ~Accrues(q, i) /\ ~Revokes(q, i)
      BY <1>5, <2>1, <2>3 DEF Safe, Exclusive
    <3>2. request[q].invoice = i /\ request[q].step \in AtWork =>
            request[q].accrual \in AccrualId
      BY DEF Linked, RequestLinked, Inserted
    <3> QED BY <1>3, <1>4, <2>3, <3>1, <3>2 DEF Accrues, Revokes, AtWork
  <2> QED BY <2>2, <2>3
<1>6. i \in RealInvoices /\ t \notin Taken =>
        \A b \in AccrualId : Spent(b) /\ Real(b) => accrual[b].invoice # i
  BY <1>1, <1>2 DEF Safe, FailedIsUnspent, FailedUnspent, SameDoc
<1> QED BY <1>1, <1>2, <1>3, <1>4, <1>5, <1>6, MoveStep

(* A Siigo invoice is removed only while nothing of it is spent.            *)
LEMMA RemoveSafe ==
  ASSUME TypeOK, Linked, Safe, NEW i \in InvoiceId, Remove(i),
         \A a \in AccrualId : Kept(a)
  PROVE  Safe'
<1>1. /\ invoice' = [invoice EXCEPT ![i] = "DELETED"]
      /\ UNCHANGED <<wire, credited, request>>
      /\ \A a \in AccrualId :
            accrual'[a].status # "DELETED" => accrual[a].status # "DELETED"
  BY DEF Remove, provider, TypeOK, AccrualRow, Attempts, AccrualStatus
<1>2. i \in RealInvoices => invoice[i] \in {"PENDING", "FAILED"}
  BY DEF Remove, Removable, RealInvoices, RealDocs
<1>3. ASSUME i \in RealInvoices, NEW s \in Request
      PROVE  ~Accrues(s, i)' /\ ~Revokes(s, i)'
  <2>1. ~Accrues(s, i) /\ ~Revokes(s, i)
    BY <1>2, <1>3 DEF Safe, Exclusive
  <2>2. request[s].step \in AtWork => request[s].accrual \in AccrualId
    BY DEF Linked, RequestLinked, Inserted
  <2> QED BY <1>1, <2>1, <2>2 DEF Accrues, Revokes, AtWork
<1>4. ASSUME i \in RealInvoices, NEW a \in AccrualId, Spent(a), Real(a)
      PROVE  accrual[a].invoice # i
  BY <1>2, <1>4 DEF Safe, SpentIsTaken, Taken
<1>5. "DELETED" \notin InvoiceStatus
  BY DEF InvoiceStatus
<1> QED BY <1>1, <1>3, <1>4, <1>5, MoveStep

(* Deleting a user takes attempts away and nothing else: a sale does not    *)
(* stop being spent.                                                        *)
LEMMA RemoveUserSafe ==
  ASSUME TypeOK, Linked, Safe, NEW u \in User, RemoveUser(u),
         \A a \in AccrualId : Kept(a)
  PROVE  Safe'
<1>1. /\ UNCHANGED <<invoice, wire, credited, request>>
      /\ \A a \in AccrualId :
            accrual'[a].status # "DELETED" => accrual[a].status # "DELETED"
  BY DEF RemoveUser, provider, TypeOK, AccrualRow, AccrualStatus
<1>2. \A a \in AccrualId : Spent(a)' => Spent(a)
  BY <1>1 DEF Spent, Sale
<1>3. OneRowPerDoc' /\ AppliedOnce'
  BY <1>1 DEF Safe, OneRowPerDoc, RealInvoices, RealDocs, Row, DocOf,
              AppliedOnce, Sale
<1>4. SpentIsTaken' /\ SpentOnce'
  BY <1>1, <1>2, SpentKept DEF Safe
<1>5. \A s \in Request :
        request[s].step \in AtWork => request[s].accrual \in AccrualId
  BY DEF Linked, RequestLinked, Inserted
<1>6. ASSUME NEW i \in RealInvoices, NEW s \in Request
      PROVE  /\ Accrues(s, i)' => Accrues(s, i) /\ invoice'[i] = invoice[i]
             /\ Revokes(s, i)' => Revokes(s, i) /\ invoice'[i] = invoice[i]
  BY <1>1, <1>5 DEF Accrues, Revokes, AtWork
<1>7. Exclusive'
  BY <1>6, ExclusiveKept DEF Safe
<1>8. ASSUME NEW s \in Request PROVE FailedUnspent(s)'
  <2>1. CASE request[s].step \in AtWork
    BY <1>1, <1>2, <1>5, <2>1, FailedKept DEF Safe
  <2>2. CASE request[s].step \notin AtWork
    BY <1>1, <2>2 DEF FailedUnspent, AtWork
  <2> QED BY <2>1, <2>2
<1>9. FailedIsUnspent'
  BY <1>8 DEF FailedIsUnspent, FailedUnspent
<1> QED BY <1>3, <1>4, <1>7, <1>9 DEF Safe

(* A row is inserted only when its document has none, so nothing of it is   *)
(* spent.                                                                   *)
LEMMA CreateSafe ==
  ASSUME TypeOK, Linked, Safe, NEW r \in Request, Create(r),
         \A a \in AccrualId : Kept(a)
  PROVE  Safe'
<1>1. CASE UNCHANGED invoice
  BY <1>1, QuietActions
<1>2. CASE /\ UniqueName(request[r].doc)
           /\ \E i \in Invoices(request[r].doc) :
                /\ invoice[i] = "UNUSED"
                /\ invoice' = [invoice EXCEPT ![i] = "PENDING"]
  <2>1. PICK i \in InvoiceId :
          /\ DocOf(i) = request[r].doc
          /\ invoice[i] = "UNUSED"
          /\ invoice' = [invoice EXCEPT ![i] = "PENDING"]
    BY <1>2 DEF Invoices
  <2>2. /\ UNCHANGED <<accrual, wire, credited>>
        /\ \A s \in Request :
              request'[s] = request[s] \/ request'[s].step = "idle"
    BY DEF Create, Finish, provider, Idle, TypeOK
  <2>3. ASSUME i \in RealInvoices, NEW s \in Request
        PROVE  ~Accrues(s, i)' /\ ~Revokes(s, i)'
    <3>1. ~Accrues(s, i) /\ ~Revokes(s, i)
      BY <2>1, <2>3 DEF Safe, Exclusive
    <3> QED BY <2>2, <3>1 DEF Accrues, Revokes
  <2>4. \A j \in RealInvoices : DocOf(j) = DocOf(i) => ~Row(j)
    BY <1>2, <2>1 DEF UniqueName, Invoices, RealInvoices
  <2>5. ASSUME NEW a \in AccrualId, Spent(a), Real(a)
        PROVE  accrual[a].invoice # i
    BY <2>1, <2>5 DEF Safe, SpentIsTaken, Taken
  <2> QED BY <2>1, <2>2, <2>3, <2>4, <2>5, MoveStep
<1> QED BY <1>1, <1>2 DEF Create

(* A claim that wins finds an invoice nothing of which is spent: it spends  *)
(* one new sale, and it is the only request that accrues the invoice.       *)
LEMMA ClaimSafe ==
  ASSUME TypeOK, Linked, Safe, NEW r \in Request, Claim(r),
         \A a \in AccrualId : Kept(a)
  PROVE  Safe'
<1>1. CASE Finish(r) /\ UNCHANGED <<invoice, accrual, wire>>
  BY <1>1, QuietActions
<1>2. ASSUME ~(Finish(r) /\ UNCHANGED <<invoice, accrual, wire>>)
      PROVE  Safe'
  <2>1. PICK i \in InvoiceId, a \in AccrualId :
          /\ i = request[r].invoice
          /\ Claimable(i)
          /\ accrual[a].status = "UNUSED"
          /\ accrual' = [accrual EXCEPT ![a] =
                [invoice |-> i, user |-> request[r].user,
                 status |-> "PROCESSING", revocation |-> "NULL"]]
          /\ request' = [request EXCEPT ![r].step = "sale", ![r].accrual = a]
          /\ wire' = wire \cup {Sale(a)}
          /\ invoice' = [invoice EXCEPT ![i] = "PROCESSING"]
    BY <1>2 DEF Claim, NextAccrual, Sale, Linked, RequestLinked
  <2>2. credited' = credited
    BY DEF Claim
  <2>3. /\ request'[r].step = "sale" /\ request'[r].accrual = a
        /\ request'[r].invoice = i
        /\ \A s \in Request : s # r => request'[s] = request[s]
        /\ accrual'[a].status = "PROCESSING" /\ accrual'[a].invoice = i
        /\ \A b \in AccrualId : b # a => accrual'[b] = accrual[b]
        /\ invoice'[i] = "PROCESSING"
        /\ \A j \in InvoiceId : j # i => invoice'[j] = invoice[j]
    BY <2>1 DEF TypeOK, RequestState
  <2>4. \A b \in AccrualId : Spent(b)' => Spent(b) \/ b = a
    BY <2>1, <2>2 DEF Spent, Sale
  <2>5. ~Spent(a)
    BY <2>1, SpentInserted DEF Inserted
  <2>6. invoice[i] \in {"PENDING", "FAILED"} /\ Row(i)
    BY <2>1 DEF Claimable, Row, InvoiceStatus
  <2>7. ASSUME NEW b \in AccrualId, Spent(b), Real(b)
        PROVE  DocOf(accrual[b].invoice) # DocOf(i)
    <3>1. accrual[b].invoice \in RealInvoices
          /\ invoice[accrual[b].invoice] \in Taken
      BY <2>7, SpentInserted DEF Safe, SpentIsTaken, Real, RealInvoices
    <3>2. Row(accrual[b].invoice) /\ accrual[b].invoice # i
      BY <2>6, <3>1 DEF Row, Taken, InvoiceStatus
    <3> QED BY <2>6, <3>1, <3>2 DEF Safe, OneRowPerDoc, RealInvoices
  <2>8. ASSUME NEW s \in Request, s # r, request[s].step \in AtWork
        PROVE  request[s].accrual \in AccrualId
               /\ accrual'[request[s].accrual] = accrual[request[s].accrual]
    BY <2>1, <2>3, <2>8 DEF Linked, RequestLinked, Inserted
  <2>9. OneRowPerDoc'
    BY <2>3, <2>6 DEF Safe, OneRowPerDoc, RealInvoices, RealDocs, Row, DocOf
  <2>10. SpentIsTaken'
    <3> SUFFICES ASSUME NEW b \in AccrualId, Spent(b)', Real(b)'
                 PROVE  invoice'[accrual'[b].invoice] \in Taken
      BY DEF SpentIsTaken, Taken
    <3>1. CASE b = a
      BY <2>3, <3>1 DEF Taken
    <3>2. CASE b # a
      <4>1. Spent(b) /\ Real(b) /\ accrual[b].invoice \in InvoiceId
        BY <2>3, <2>4, <3>2, SpentInserted DEF Real
      <4> QED BY <2>3, <2>6, <3>2, <4>1 DEF Safe, SpentIsTaken, Taken
    <3> QED BY <3>1, <3>2
  <2>11. SpentOnce'
    <3>1. \A b \in AccrualId : b # a /\ Spent(b)' /\ Real(b)' =>
            /\ Spent(b) /\ Real(b)
            /\ DocOf(accrual'[b].invoice) # DocOf(accrual'[a].invoice)
      BY <2>3, <2>4, <2>7 DEF Real
    <3>2. \A b, c \in AccrualId : Real(b)' /\ SameDoc(b, c)' => Real(c)'
      BY DEF Real, SameDoc
    <3>3. \A b, c \in AccrualId :
            b # a /\ c # a => (SameDoc(b, c)' <=> SameDoc(b, c))
      BY <2>3 DEF SameDoc
    <3>4. ASSUME NEW b \in AccrualId, NEW c \in AccrualId,
                 Spent(b)', Spent(c)', Real(b)', SameDoc(b, c)'
          PROVE  b = c
      <4>1. Real(c)'
        BY <3>2, <3>4
      <4>2. CASE b # a /\ c # a
        BY <3>1, <3>3, <3>4, <4>1, <4>2 DEF Safe, SpentOnce
      <4>3. CASE b = a /\ c # a
        BY <3>1, <3>4, <4>1, <4>3 DEF SameDoc
      <4>4. CASE b # a /\ c = a
        BY <3>1, <3>4, <4>4 DEF SameDoc
      <4> QED BY <4>2, <4>3, <4>4
    <3> QED BY <3>4 DEF SpentOnce
  <2>12. AppliedOnce'
    BY <2>1, <2>2, <2>5 DEF Safe, AppliedOnce, Sale, Spent
  <2>13. Exclusive'
    <3>1. ASSUME NEW j \in RealInvoices, NEW s \in Request, s # r
          PROVE  /\ Accrues(s, j)' => Accrues(s, j) /\ j # i
                 /\ Revokes(s, j)' => Revokes(s, j) /\ j # i
      <4>1. /\ Accrues(s, j)' => Accrues(s, j)
            /\ Revokes(s, j)' => Revokes(s, j)
        BY <2>3, <2>8, <3>1 DEF Accrues, Revokes, AtWork
      <4> QED BY <2>6, <4>1 DEF Safe, Exclusive
    <3>2. \A j \in RealInvoices :
            ~Revokes(r, j)' /\ (Accrues(r, j)' => j = i)
      BY <2>3 DEF Accrues, Revokes
    <3>3. RealInvoices' = RealInvoices /\ RealInvoices \subseteq InvoiceId
      BY DEF RealInvoices, RealDocs, DocOf
    <3> QED BY <2>3, <3>1, <3>2, <3>3 DEF Safe, Exclusive
  <2>14. ASSUME NEW s \in Request PROVE FailedUnspent(s)'
    <3>1. CASE s = r
      BY <2>3, <3>1 DEF FailedUnspent
    <3>2. CASE s # r
      <4> SUFFICES ASSUME request[s].step = "fail", ~request[s].uncertain,
                          accrual'[request[s].accrual].status # "DELETED",
                          NEW b \in AccrualId, Spent(b)', Real(b)',
                          DocOf(accrual'[b].invoice) =
                            DocOf(accrual'[request[s].accrual].invoice)
                   PROVE  FALSE
        BY <2>3, <3>2 DEF FailedUnspent, SameDoc
      <4>1. PICK j \in InvoiceId :
              /\ j = request[s].invoice
              /\ accrual[request[s].accrual].invoice = j
              /\ accrual'[request[s].accrual] = accrual[request[s].accrual]
        BY <2>8, <3>2 DEF Linked, RequestLinked, AtWork
      <4>2. j \in RealInvoices /\ invoice[j] = "PROCESSING"
        BY <4>1 DEF Safe, Exclusive, Accrues, RealInvoices, Real
      <4>3. CASE b = a
        BY <2>3, <2>6, <4>1, <4>2, <4>3
        DEF Safe, OneRowPerDoc, RealInvoices, Row, InvoiceStatus
      <4>4. CASE b # a
        BY <2>3, <2>4, <4>1, <4>4
        DEF Safe, FailedIsUnspent, FailedUnspent, Real, SameDoc
      <4> QED BY <4>3, <4>4
    <3> QED BY <3>1, <3>2
  <2>15. FailedIsUnspent'
    BY <2>14 DEF FailedIsUnspent, FailedUnspent
  <2> QED BY <2>9, <2>10, <2>11, <2>12, <2>13, <2>15 DEF Safe
<1> QED BY <1>1, <1>2

(* A revocation claims an accrued invoice, which no request holds.          *)
LEMMA ClaimRevocationSafe ==
  ASSUME TypeOK, Linked, Safe, NEW r \in Request, ClaimRevocation(r),
         \A a \in AccrualId : Kept(a)
  PROVE  Safe'
<1>1. CASE Finish(r) /\ UNCHANGED <<invoice, accrual, wire>>
  BY <1>1, QuietActions
<1>2. ASSUME ~(Finish(r) /\ UNCHANGED <<invoice, accrual, wire>>)
      PROVE  Safe'
  <2>1. PICK i \in InvoiceId, a \in AccrualId :
          /\ i = request[r].invoice
          /\ invoice[i] = "COMPLETED"
          /\ accrual' = [accrual EXCEPT ![a].revocation = "PROCESSING"]
          /\ request' = [request EXCEPT ![r].step = "cancel", ![r].accrual = a]
          /\ wire' = wire \cup {CancelCall(r)}
          /\ invoice' = [invoice EXCEPT ![i] = "REVOKING"]
    BY <1>2 DEF ClaimRevocation, Revocable, Latest, CompletedAttempts, Attempts,
                CancelCall, Linked, RequestLinked
  <2>2. /\ credited' = credited
        /\ \A b \in AccrualId : Sale(b) \in wire' <=> Sale(b) \in wire
    BY <2>1 DEF ClaimRevocation, CancelCall, Sale
  <2>3. /\ request'[r].step = "cancel"
        /\ request'[r].invoice = i
        /\ \A s \in Request : s # r => request'[s] = request[s]
        /\ \A b \in AccrualId : accrual'[b].status = accrual[b].status
        /\ invoice'[i] = "REVOKING"
        /\ \A j \in InvoiceId : j # i => invoice'[j] = invoice[j]
    BY <2>1 DEF TypeOK, RequestState, AccrualRow
  <2>4. \A b \in AccrualId : Spent(b)' => Spent(b)
    BY <2>2 DEF Spent
  <2>5. OneRowPerDoc' /\ AppliedOnce'
    BY <2>1, <2>2, <2>3 DEF Safe, OneRowPerDoc, RealInvoices, RealDocs, Row,
       DocOf, InvoiceStatus, AppliedOnce
  <2>6. \A j \in RealInvoices : invoice[j] \in Taken => invoice'[j] \in Taken
    BY <2>3 DEF RealInvoices, Taken
  <2>7. SpentIsTaken' /\ SpentOnce'
    BY <2>4, <2>6, SpentKept DEF Safe
  <2>8. \A s \in Request :
          request[s].step \in AtWork => request[s].accrual \in AccrualId
    BY DEF Linked, RequestLinked, Inserted
  <2>9. Exclusive'
    <3>1. ASSUME NEW j \in RealInvoices, NEW s \in Request, s # r
          PROVE  /\ Accrues(s, j)' => Accrues(s, j) /\ j # i
                 /\ Revokes(s, j)' => Revokes(s, j) /\ j # i
      <4>1. /\ Accrues(s, j)' => Accrues(s, j)
            /\ Revokes(s, j)' => Revokes(s, j)
        BY <2>3, <2>8, <3>1 DEF Accrues, Revokes, AtWork
      <4> QED BY <2>1, <4>1 DEF Safe, Exclusive
    <3>2. \A j \in RealInvoices :
            ~Accrues(r, j)' /\ (Revokes(r, j)' => j = i)
      BY <2>3 DEF Accrues, Revokes
    <3>3. RealInvoices' = RealInvoices /\ RealInvoices \subseteq InvoiceId
      BY DEF RealInvoices, RealDocs, DocOf
    <3> QED BY <2>3, <3>1, <3>2, <3>3 DEF Safe, Exclusive
  <2>10. ASSUME NEW s \in Request PROVE FailedUnspent(s)'
    <3>1. CASE s = r
      BY <2>3, <3>1 DEF FailedUnspent
    <3>2. CASE s # r /\ request[s].step \in AtWork
      BY <2>3, <2>4, <2>8, <3>2, FailedKept DEF Safe
    <3>3. CASE s # r /\ request[s].step \notin AtWork
      BY <2>3, <3>3 DEF FailedUnspent, AtWork
    <3> QED BY <3>1, <3>2, <3>3
  <2>11. FailedIsUnspent'
    BY <2>10 DEF FailedIsUnspent, FailedUnspent
  <2> QED BY <2>5, <2>7, <2>9, <2>11 DEF Safe
<1> QED BY <1>1, <1>2

(* The four writes, whether or not they find both rows.                     *)
LEMMA WritesAreSafe ==
  ASSUME TypeOK, Linked, Safe, ~DbMayFail, NEW r \in Request,
         \A a \in AccrualId : Kept(a),
         \/ MarkCompleted(r) \/ MarkFailed(r)
         \/ MarkRevoked(r) \/ MarkRevocationFailed(r)
  PROVE  Safe'
<1>1. CASE ~BothRows(request[r].invoice, request[r].accrual)
  BY <1>1, LostWriteSafe
<1>2. CASE BothRows(request[r].invoice, request[r].accrual)
  <2>0. UNCHANGED <<wire, credited>>
    BY DEF MarkCompleted, MarkFailed, MarkRevoked, MarkRevocationFailed, provider
  <2>1. CASE MarkCompleted(r)
    <3>1. /\ request[r].step = "complete"
          /\ invoice' = [invoice EXCEPT ![request[r].invoice] = "COMPLETED"]
          /\ accrual' = [accrual EXCEPT ![request[r].accrual].status = "COMPLETED"]
          /\ request' = [request EXCEPT ![r].step = "balance"]
      BY <1>2, <2>1 DEF MarkCompleted, Goto
    <3>2. "COMPLETED" \in InvoiceStatus \cap AccrualStatus \cap Taken
          /\ "NULL" \in RevocationStatus
      BY DEF InvoiceStatus, AccrualStatus, Taken, RevocationStatus
    <3> QED BY <1>2, <2>0, <3>1, <3>2, WriteSafe
  <2>2. CASE MarkFailed(r)
    <3>1. PICK s \in {"UNVERIFIED", "FAILED"} :
          /\ s = IF request[r].uncertain THEN "UNVERIFIED" ELSE "FAILED"
          /\ request[r].step = "fail"
          /\ invoice' = [invoice EXCEPT ![request[r].invoice] = s]
          /\ accrual' = [accrual EXCEPT ![request[r].accrual].status = s]
          /\ request' = [request EXCEPT ![r] = Idle]
      BY <1>2, <2>2 DEF MarkFailed, Finish
    <3>2. s \in InvoiceStatus \cap AccrualStatus /\ "NULL" \in RevocationStatus
      BY DEF InvoiceStatus, AccrualStatus, RevocationStatus
    <3>3. s \notin Taken => ~request[r].uncertain
      BY <3>1 DEF Taken
    <3> QED BY <1>2, <2>0, <3>1, <3>2, <3>3, WriteSafe
  <2>3. CASE MarkRevoked(r)
    <3>1. /\ request[r].step = "revoked"
          /\ invoice' = [invoice EXCEPT ![request[r].invoice] = "REVOKED"]
          /\ accrual' =
                [accrual EXCEPT ![request[r].accrual].revocation = "COMPLETED"]
          /\ request' = [request EXCEPT ![r] = Idle]
      BY <1>2, <2>3 DEF MarkRevoked, Finish
    <3>2. "REVOKED" \in InvoiceStatus \cap Taken /\ "FAILED" \in AccrualStatus
          /\ "COMPLETED" \in RevocationStatus
      BY DEF InvoiceStatus, AccrualStatus, Taken, RevocationStatus
    <3> QED BY <1>2, <2>0, <3>1, <3>2, WriteSafe
  <2>4. CASE MarkRevocationFailed(r)
    <3>1. PICK v \in {"UNVERIFIED", "FAILED"} :
          /\ request[r].step = "revocationFail"
          /\ invoice' = [invoice EXCEPT ![request[r].invoice] = "COMPLETED"]
          /\ accrual' = [accrual EXCEPT ![request[r].accrual].revocation = v]
          /\ request' = [request EXCEPT ![r] = Idle]
      BY <1>2, <2>4 DEF MarkRevocationFailed, Finish
    <3>2. "COMPLETED" \in InvoiceStatus \cap Taken /\ "FAILED" \in AccrualStatus
          /\ v \in RevocationStatus
      BY DEF InvoiceStatus, AccrualStatus, Taken, RevocationStatus
    <3> QED BY <1>2, <2>0, <3>1, <3>2, WriteSafe
  <2> QED BY <2>1, <2>2, <2>3, <2>4
<1> QED BY <1>1, <1>2

LEMMA SafeStep ==
  ASSUME ~DbMayFail, TypeOK, Linked, Safe, [Next]_vars
  PROVE  Safe'
<1>1. \A a \in AccrualId : Kept(a)
  BY AttemptsAreKept
<1>2. ASSUME NEW r \in Request, Start(r) \/ Continue(r)
      PROVE  Safe'
  <2>1. CASE Start(r) \/ SaleDuplicate(r) \/ SaleUnanswered(r)
             \/ CancelAccepted(r) \/ CancelRejected(r) \/ CancelUnanswered(r)
    BY <1>1, <2>1, QuietActions
  <2>2. CASE SaleAccepted(r) \/ SaleRejected(r)
    BY <1>1, <2>2, SaleAnswerSafe
  <2>3. CASE MarkCompleted(r) \/ MarkFailed(r) \/ MarkRevoked(r)
             \/ MarkRevocationFailed(r)
    BY <1>1, <2>3, WritesAreSafe
  <2>4. CASE Create(r) \/ Claim(r) \/ ClaimRevocation(r) \/ RecordBalance(r)
    BY <1>1, <2>4, CreateSafe, ClaimSafe, ClaimRevocationSafe, RecordBalanceSafe
  <2> QED BY <1>2, <2>1, <2>2, <2>3, <2>4 DEF Continue
<1>3. ASSUME NEW i \in InvoiceId, Remove(i) PROVE Safe'
  BY <1>1, <1>3, RemoveSafe
<1>4. ASSUME NEW u \in User, RemoveUser(u) PROVE Safe'
  BY <1>1, <1>4, RemoveUserSafe
<1>5. CASE (\E a \in AccrualId : ProviderSale(a) \/ ProviderCancel(a)) \/ Crash
           \/ UNCHANGED vars
  BY <1>1, <1>5, EnvironmentSafe
<1> QED BY <1>2, <1>3, <1>4, <1>5 DEF Next

(* When no write fails after the provider answered, the inductive invariant *)
(* holds: whoever retries, removes, registers again, or restarts.           *)
THEOREM Inductive == ASSUME ~DbMayFail PROVE Spec => []IInv
<1>1. Init => IInv
  <2>1. Init => Safe
    BY DEF Init, Safe, OneRowPerDoc, RealInvoices, Row, InvoiceStatus,
       SpentIsTaken, SpentOnce, AppliedOnce, Spent, Exclusive, Accrues, Revokes,
       FailedIsUnspent, FailedUnspent, Idle
  <2>2. Init => TypeOK
    BY IdleType DEF Init, TypeOK, UnusedAccrual, AccrualRow, RevocationStatus
  <2>3. Init => Linked
    BY DEF Init, Linked, RequestLinked, Inserted, Idle, UnusedAccrual, AtWork
  <2> QED BY <2>1, <2>2, <2>3 DEF IInv
<1>2. IInv /\ [Next]_vars => IInv'
  BY TypeStep, LinkedStep, SafeStep DEF IInv
<1> QED BY <1>1, <1>2, PTL DEF Spec

(* The provider applies at most one sale of an invoice, for any number of   *)
(* documents, requests, users and attempts.                                 *)
THEOREM SingleCredit == ASSUME ~DbMayFail PROVE Spec => []AtMostOneCredit
<1>1. IInv => AtMostOneCredit
  BY DEF IInv, Safe, SpentOnce, Spent, Real, SameDoc, AtMostOneCredit,
     CreditsOf, AttemptsOf
<1> QED BY <1>1, Inductive, PTL

(* The invoice of a spent sale is not offered for accrual.                  *)
LEMMA SpentIsNotOffered ==
  ASSUME IInv, NEW d \in RealDocs, NEW a \in AttemptsOf(d), Spent(a)
  PROVE  ~(\A i \in Invoices(d) : Row(i) => Claimable(i))
<1>1. a \in AccrualId /\ DocOf(accrual[a].invoice) = d /\ Real(a)
  BY DEF AttemptsOf, Real
<1>2. accrual[a].invoice \in InvoiceId
  BY <1>1, SpentInserted DEF IInv
<1>3. invoice[accrual[a].invoice] \in Taken
  BY <1>1 DEF IInv, Safe, SpentIsTaken
<1> QED BY <1>1, <1>2, <1>3
    DEF Invoices, Row, InvoiceStatus, Taken, Claimable

(* An invoice offered for accrual, or out of the panel, was never credited. *)
THEOREM RetriesAreSafe == ASSUME ~DbMayFail PROVE Spec => []RetryIsSafe
<1>1. IInv => RetryIsSafe
  BY SpentIsNotOffered DEF RetryIsSafe, CreditsOf, Spent
<1> QED BY <1>1, Inductive, PTL

-----------------------------------------------------------------------------
(* The panel implements PointsLedger. *)

(* The books of one document, before and after a step of the provider.      *)
LEMMA SaleGrants ==
  ASSUME IInv, \A a \in AccrualId : Kept(a), NEW a \in AccrualId,
         Sale(a) \in wire, credited' = credited \cup {a},
         UNCHANGED cancelled
  PROVE  Ledger!Next \/ UNCHANGED pointsOf
<1>1. Inserted(a) /\ Inserted(a)' /\ accrual'[a].invoice = accrual[a].invoice
  BY DEF IInv, Linked, Kept, Sale
<1>2. a \notin credited /\ a \notin cancelled
  BY DEF IInv, Safe, AppliedOnce, TypeOK
<1> DEFINE e == DocOf(accrual[a].invoice)
<1>3. \A b \in AccrualId : b \in credited =>
        Inserted(b) /\ Inserted(b)' /\ accrual'[b].invoice = accrual[b].invoice
  BY DEF IInv, Linked, Kept
<1>4. \A d \in RealDocs : d # e => CreditsOf(d)' = CreditsOf(d)
  BY <1>1, <1>3 DEF CreditsOf, AttemptsOf, Inserted
<1>5. CASE e \notin RealDocs
  BY <1>4, <1>5 DEF pointsOf, RealDocs
<1>6. CASE e \in RealDocs
  <2>1. PICK d \in RealDocs : d = e
    BY <1>6
  <2>2. CreditsOf(d) = {}
    BY <1>2, <2>1
    DEF CreditsOf, AttemptsOf, IInv, Safe, SpentOnce, Spent, Real, SameDoc
  <2>3. CreditsOf(d)' = {a}
    <3>1. a \in CreditsOf(d)'
      BY <1>1, <2>1 DEF CreditsOf, AttemptsOf, Inserted
    <3>2. \A b \in CreditsOf(d)' : b # a => b \in CreditsOf(d)
      BY <1>3 DEF CreditsOf, AttemptsOf, Inserted
    <3> QED BY <2>2, <3>1, <3>2
  <2>4. pointsOf[d] = "none"
    BY <2>2 DEF pointsOf
  <2>5. ~({a} \subseteq cancelled')
    BY <1>2
  <2>6. pointsOf' = [pointsOf EXCEPT ![d] = "granted"]
    <3>1. pointsOf' = [c \in RealDocs |->
              IF CreditsOf(c)' = {} THEN "none"
              ELSE IF CreditsOf(c)' \subseteq cancelled' THEN "returned"
              ELSE "granted"]
      BY DEF pointsOf, RealDocs
    <3> QED BY <1>4, <2>1, <2>3, <2>5, <3>1 DEF pointsOf
  <2> QED BY <2>4, <2>6 DEF Ledger!Next, Ledger!Grant
<1> QED BY <1>5, <1>6

LEMMA CancelReturns ==
  ASSUME IInv, \A a \in AccrualId : Kept(a), NEW a \in credited,
         UNCHANGED credited, cancelled' = cancelled \cup {a}
  PROVE  Ledger!Next \/ UNCHANGED pointsOf
<1>1. \A b \in credited :
        Inserted(b) /\ Inserted(b)' /\ accrual'[b].invoice = accrual[b].invoice
  BY DEF IInv, Linked, Kept, TypeOK
<1>2. ASSUME NEW d \in RealDocs PROVE CreditsOf(d)' = CreditsOf(d)
  BY <1>1 DEF CreditsOf, AttemptsOf, Inserted
<1>3. ASSUME NEW d \in RealDocs, a \in CreditsOf(d)
      PROVE  CreditsOf(d) = {a}
  BY <1>3 DEF CreditsOf, AttemptsOf, IInv, Safe, SpentOnce, Spent, Real, SameDoc
<1>4. pointsOf' = [c \in RealDocs |->
          IF CreditsOf(c)' = {} THEN "none"
          ELSE IF CreditsOf(c)' \subseteq cancelled' THEN "returned"
          ELSE "granted"]
  BY DEF pointsOf, RealDocs
<1>5. \A d \in RealDocs : a \notin CreditsOf(d) =>
        (CreditsOf(d) \subseteq cancelled' <=> CreditsOf(d) \subseteq cancelled)
  OBVIOUS
<1>6. CASE a \in cancelled \/ \A d \in RealDocs : a \notin CreditsOf(d)
  <2>1. \A d \in RealDocs :
          CreditsOf(d) \subseteq cancelled' <=> CreditsOf(d) \subseteq cancelled
    BY <1>5, <1>6
  <2> QED BY <1>2, <1>4, <2>1 DEF pointsOf
<1>7. ASSUME a \notin cancelled, NEW d \in RealDocs, a \in CreditsOf(d)
      PROVE  Ledger!Next
  <2>1. pointsOf[d] = "granted"
    BY <1>3, <1>7 DEF pointsOf
  <2>2. \A c \in RealDocs : c # d => a \notin CreditsOf(c)
    BY <1>7 DEF CreditsOf, AttemptsOf
  <2>3. pointsOf' = [pointsOf EXCEPT ![d] = "returned"]
    <3>1. CreditsOf(d)' # {} /\ CreditsOf(d)' \subseteq cancelled'
      BY <1>2, <1>3, <1>7
    <3>2. \A c \in RealDocs : c # d =>
            /\ CreditsOf(c)' = CreditsOf(c)
            /\ CreditsOf(c) \subseteq cancelled' <=> CreditsOf(c) \subseteq cancelled
      BY <1>2, <1>5, <2>2
    <3> QED BY <1>4, <3>1, <3>2 DEF pointsOf
  <2> QED BY <2>1, <2>3 DEF Ledger!Next, Ledger!Return
<1> QED BY <1>6, <1>7

(* No other step touches the books.                                         *)
LEMMA BooksKept ==
  ASSUME IInv, \A a \in AccrualId : Kept(a), UNCHANGED <<credited, cancelled>>
  PROVE  UNCHANGED pointsOf
<1>1. \A b \in credited :
        Inserted(b) /\ Inserted(b)' /\ accrual'[b].invoice = accrual[b].invoice
  BY DEF IInv, Linked, Kept, TypeOK
<1>2. ASSUME NEW d \in RealDocs PROVE CreditsOf(d)' = CreditsOf(d)
  BY <1>1 DEF CreditsOf, AttemptsOf, Inserted
<1> QED BY <1>2 DEF pointsOf, RealDocs

(* Every step of the panel, the provider or the process either grants the   *)
(* points of one invoice, or returns them, or leaves every book as it was.  *)
LEMMA LedgerStep ==
  ASSUME IInv, [Next]_vars
  PROVE  [Ledger!Next]_pointsOf
<1>1. \A a \in AccrualId : Kept(a)
  BY AttemptsAreKept DEF IInv
<1>2. ASSUME NEW a \in AccrualId, ProviderSale(a)
      PROVE  Ledger!Next \/ UNCHANGED pointsOf
  BY <1>1, <1>2, SaleGrants DEF ProviderSale, Sale
<1>3. ASSUME NEW r \in Request, SaleAccepted(r)
      PROVE  Ledger!Next \/ UNCHANGED pointsOf
  <2>1. PICK a \in AccrualId : a = request[r].accrual
    BY <1>3 DEF SaleAccepted, IInv, Linked, RequestLinked, AtWork, Inserted
  <2> QED BY <1>1, <1>3, <2>1, SaleGrants DEF SaleAccepted, SaleCall, Sale
<1>4. ASSUME NEW a \in AccrualId, ProviderCancel(a)
      PROVE  Ledger!Next \/ UNCHANGED pointsOf
  <2>1. CASE a \in credited
    BY <1>1, <1>4, <2>1, CancelReturns DEF ProviderCancel
  <2>2. CASE a \notin credited
    BY <1>1, <1>4, <2>2, BooksKept DEF ProviderCancel
  <2> QED BY <2>1, <2>2
<1>5. ASSUME NEW r \in Request, CancelAccepted(r)
      PROVE  Ledger!Next \/ UNCHANGED pointsOf
  <2>1. PICK a \in credited : a = request[r].original
    BY <1>5 DEF CancelAccepted, Cancellable
  <2>2. UNCHANGED credited /\ cancelled' = cancelled \cup {a}
    BY <1>5, <2>1 DEF CancelAccepted
  <2> QED BY <1>1, <2>2, CancelReturns
<1>6. CASE UNCHANGED <<credited, cancelled>>
  BY <1>1, <1>6, BooksKept
<1> QED
  BY <1>2, <1>3, <1>4, <1>5, <1>6
  DEF Next, Start, Continue, RegisterBegin, AccrueBegin, RevokeBegin, Begin,
      Create, Claim, SaleRejected, SaleDuplicate, SaleUnanswered, MarkCompleted,
      RecordBalance, MarkFailed, ClaimRevocation, CancelRejected,
      CancelUnanswered, MarkRevoked, MarkRevocationFailed, Remove, RemoveUser,
      Crash, provider, vars

(* The panel implements the ledger: the points of an invoice are granted    *)
(* once and, once returned, never again.                                    *)
THEOREM Implements == ASSUME ~DbMayFail PROVE Spec => GrantedOnce
<1>1. Init => Ledger!Init
  BY DEF Init, Ledger!Init, pointsOf, CreditsOf
<1>2. IInv /\ [Next]_vars => [Ledger!Next]_pointsOf
  BY LedgerStep
<1> QED BY <1>1, <1>2, Inductive, PTL DEF Spec, GrantedOnce, Ledger!Spec

-----------------------------------------------------------------------------
(* No sale of an invoice offered for accrual is on its way, whatever write  *)
(* fails and whoever is removed.  A request serves an invoice from its      *)
(* claim until it ends, as long as its attempt exists.                      *)

Standing(a) == accrual[a].status \in AccrualStatus
Serves(r, i) ==
    /\ request[r].invoice = i
    /\ request[r].step \in {"sale", "complete", "balance", "fail"}
    /\ Standing(request[r].accrual)

(* An invoice with a sale in flight, or that is served, is not offered.     *)
FlightIsTaken ==
    \A a \in AccrualId :
        Sale(a) \in wire /\ Real(a) => invoice[accrual[a].invoice] \in Taken
ServedIsTaken ==
    \A i \in RealInvoices : \A r \in Request : Serves(r, i) => invoice[i] \in Taken

(* One request serves an invoice; a sale in flight there is the one it      *)
(* waits for, or it knows that it knows nothing.                            *)
OneServes ==
    \A i \in RealInvoices : \A r, s \in Request : Serves(r, i) /\ Serves(s, i) => r = s
Expects(r, a) ==
    \/ request[r].step = "sale" /\ request[r].accrual = a
    \/ request[r].step = "fail" /\ request[r].uncertain
ServersExpect ==
    \A i \in RealInvoices : \A r \in Request : \A a \in AccrualId :
        Serves(r, i) /\ Sale(a) \in wire /\ accrual[a].invoice = i => Expects(r, a)

Waiting == FlightIsTaken /\ ServedIsTaken /\ OneServes /\ ServersExpect

(* An attempt that was deleted does not come back.                          *)
Fades(a) == Inserted(a) /\ Standing(a)' => Standing(a)
LEMMA AttemptsFade ==
  ASSUME TypeOK, Linked, [Next]_vars, NEW a \in AccrualId
  PROVE  Fades(a)
<1>1. ASSUME NEW r \in Request, Claim(r) PROVE Fades(a)
  BY <1>1 DEF Claim, NextAccrual, Fades, Inserted, Standing, TypeOK
<1>2. ASSUME NEW r \in Request, ClaimRevocation(r) PROVE Fades(a)
  BY <1>2 DEF ClaimRevocation, Fades, Standing, TypeOK, AccrualRow
<1>3. ASSUME NEW r \in Request, MarkCompleted(r) \/ MarkFailed(r)
      PROVE  Fades(a)
  BY <1>3 DEF MarkCompleted, MarkFailed, BothRows, Fades, Standing, TypeOK
<1>4. ASSUME NEW r \in Request, MarkRevoked(r) \/ MarkRevocationFailed(r)
      PROVE  Fades(a)
  BY <1>4 DEF MarkRevoked, MarkRevocationFailed, BothRows, Fades, Standing, TypeOK
<1>5. ASSUME NEW i \in InvoiceId, Remove(i) PROVE Fades(a)
  BY <1>5 DEF Remove, Attempts, Fades, Standing, AccrualStatus
<1>6. ASSUME NEW u \in User, RemoveUser(u) PROVE Fades(a)
  BY <1>6 DEF RemoveUser, Fades, Standing, AccrualStatus
<1>7. CASE UNCHANGED accrual
  BY <1>7 DEF Fades, Standing
<1> QED
  BY <1>1, <1>2, <1>3, <1>4, <1>5, <1>6, <1>7
  DEF Next, Start, Continue, RegisterBegin, AccrueBegin, RevokeBegin, Begin,
      Create, SaleAccepted, SaleRejected, SaleDuplicate, SaleUnanswered,
      RecordBalance, CancelAccepted, CancelRejected, CancelUnanswered,
      ProviderSale, ProviderCancel, Crash, database, vars

(* A step that sends no sale keeps the invariant, if whoever still serves   *)
(* an invoice after it knows what it must, and an invoice that it offers    *)
(* has no sale in flight and nobody who serves it.                          *)
LEMMA WaitingKept ==
  ASSUME TypeOK, Linked, Waiting,
         \A a \in AccrualId : Kept(a) /\ Fades(a),
         \A a \in AccrualId : Sale(a) \in wire' => Sale(a) \in wire,
         \A s \in Request :
            \/ request'[s] = request[s]
            \/ \A i \in RealInvoices : Serves(s, i)' =>
                /\ Serves(s, i)
                /\ \A a \in AccrualId :
                    Sale(a) \in wire' /\ accrual[a].invoice = i => Expects(s, a)',
         \A i \in RealInvoices :
            \/ invoice'[i] = invoice[i]
            \/ invoice'[i] \in Taken
            \/ /\ \A a \in AccrualId : Sale(a) \in wire' => accrual[a].invoice # i
               /\ \A s \in Request : ~Serves(s, i)'
  PROVE  Waiting'
<1>1. ASSUME NEW a \in AccrualId, Sale(a) \in wire'
      PROVE  /\ Sale(a) \in wire
             /\ accrual'[a].invoice = accrual[a].invoice
             /\ accrual[a].invoice \in InvoiceId
  BY <1>1 DEF Linked, Sale, Kept
<1>2. ASSUME NEW s \in Request, NEW i \in RealInvoices, Serves(s, i)'
      PROVE  Serves(s, i)
  <2>1. CASE request'[s] = request[s]
    <3>1. Inserted(request[s].accrual)
      BY <1>2, <2>1 DEF Serves, Linked, RequestLinked, AtWork
    <3> QED BY <1>2, <2>1, <3>1 DEF Serves, Fades, Inserted, Standing
  <2> QED BY <1>2, <2>1
<1>3. FlightIsTaken'
  <2> SUFFICES ASSUME NEW a \in AccrualId, Sale(a) \in wire', Real(a)'
               PROVE  invoice'[accrual'[a].invoice] \in Taken
    BY DEF FlightIsTaken, Sale
  <2>1. PICK i \in RealInvoices : i = accrual[a].invoice
    BY <1>1 DEF Real, RealInvoices
  <2>2. invoice[i] \in Taken
    BY <1>1, <2>1 DEF Waiting, FlightIsTaken, Real
  <2> QED BY <1>1, <2>1, <2>2
<1>4. ServedIsTaken'
  <2> SUFFICES ASSUME NEW i \in RealInvoices, NEW s \in Request, Serves(s, i)'
               PROVE  invoice'[i] \in Taken
    BY DEF ServedIsTaken, RealInvoices, RealDocs, DocOf, InvoiceId
  <2> QED BY <1>2 DEF Waiting, ServedIsTaken
<1>5. OneServes'
  BY <1>2 DEF Waiting, OneServes, RealInvoices, RealDocs, DocOf, InvoiceId
<1>6. ServersExpect'
  <2> SUFFICES ASSUME NEW i \in RealInvoices, NEW s \in Request,
                      NEW a \in AccrualId, Serves(s, i)', Sale(a) \in wire',
                      accrual'[a].invoice = i
               PROVE  Expects(s, a)'
    BY DEF ServersExpect, RealInvoices, RealDocs, DocOf, InvoiceId, Sale
  <2>1. CASE request'[s] = request[s]
    BY <1>1, <1>2, <2>1 DEF Waiting, ServersExpect, Expects
  <2> QED BY <1>1, <2>1
<1> QED BY <1>3, <1>4, <1>5, <1>6 DEF Waiting

(* An invoice that is not taken has no sale in flight and is not served.    *)
LEMMA UntakenIsFree ==
  ASSUME TypeOK, Linked, Waiting, \A a \in AccrualId : Kept(a) /\ Fades(a),
         \A a \in AccrualId : Sale(a) \in wire' => Sale(a) \in wire,
         NEW i \in RealInvoices, invoice[i] \notin Taken,
         UNCHANGED request
  PROVE  /\ \A a \in AccrualId : Sale(a) \in wire' => accrual[a].invoice # i
         /\ \A s \in Request : ~Serves(s, i)'
<1>1. \A a \in AccrualId : Sale(a) \in wire' => accrual[a].invoice # i
  BY DEF Waiting, FlightIsTaken, Real, RealInvoices
<1>2. ASSUME NEW s \in Request, Serves(s, i)' PROVE FALSE
  <2>1. Inserted(request[s].accrual)
    BY <1>2 DEF Serves, Linked, RequestLinked, AtWork
  <2>2. Serves(s, i)
    BY <1>2, <2>1 DEF Serves, Fades, Inserted, Standing
  <2> QED BY <2>2 DEF Waiting, ServedIsTaken
<1> QED BY <1>1, <1>2

(* A request that begins, ends, or revokes, serves nothing after its step.  *)
LEMMA ElsewhereWaits ==
  ASSUME TypeOK, Linked, Waiting, NEW r \in Request,
         \A a \in AccrualId : Kept(a) /\ Fades(a),
         \/ Start(r) \/ Create(r)
         \/ Claim(r) /\ Finish(r) /\ UNCHANGED <<invoice, accrual, wire>>
         \/ ClaimRevocation(r) \/ CancelAccepted(r) \/ CancelRejected(r)
         \/ CancelUnanswered(r) \/ MarkRevoked(r) \/ MarkRevocationFailed(r)
  PROVE  Waiting'
<1>1. \A s \in Request : s # r => request'[s] = request[s]
  BY DEF Start, RegisterBegin, AccrueBegin, RevokeBegin, Begin, Create, Claim,
         ClaimRevocation, CancelAccepted, CancelRejected, CancelUnanswered,
         MarkRevoked, MarkRevocationFailed, Goto, Finish, TypeOK
<1>2. request'[r].step \notin {"sale", "complete", "balance", "fail"}
  <2>1. CASE Start(r)
    BY <2>1 DEF Start, RegisterBegin, AccrueBegin, RevokeBegin, Begin, Idle, TypeOK
  <2>2. CASE Finish(r)
    BY <2>2 DEF Finish, Idle, TypeOK
  <2>3. CASE ~Start(r) /\ ~Finish(r)
    BY <2>3 DEF Create, ClaimRevocation, CancelAccepted, CancelRejected,
         CancelUnanswered, MarkRevoked, MarkRevocationFailed, Goto, TypeOK, RequestState
  <2> QED BY <2>1, <2>2, <2>3
<1>3. \A a \in AccrualId : Sale(a) \in wire' => Sale(a) \in wire
  <2>1. CASE ClaimRevocation(r)
    BY <2>1 DEF ClaimRevocation, Sale
  <2>2. CASE ~ClaimRevocation(r)
    <3>1. wire' \subseteq wire
      BY <2>2 DEF Start, RegisterBegin, AccrueBegin, RevokeBegin, Begin, Create,
           CancelAccepted, CancelRejected, CancelUnanswered, MarkRevoked,
           MarkRevocationFailed, provider
    <3> QED BY <3>1
  <2> QED BY <2>1, <2>2
<1>4. ASSUME NEW i \in RealInvoices
      PROVE  \/ invoice'[i] = invoice[i]
             \/ invoice'[i] \in Taken
             \/ /\ \A a \in AccrualId : Sale(a) \in wire' => accrual[a].invoice # i
                /\ \A s \in Request : ~Serves(s, i)'
  <2>1. CASE Create(r) /\ ~UNCHANGED invoice
    <3>1. PICK n \in InvoiceId : /\ invoice[n] = "UNUSED"
                                /\ invoice' = [invoice EXCEPT ![n] = "PENDING"]
      BY <2>1 DEF Create, Invoices
    <3>2. CASE i = n
      <4>1. invoice[i] \notin Taken
        BY <3>1, <3>2 DEF Taken
      <4>2. \A a \in AccrualId : Sale(a) \in wire' => accrual[a].invoice # i
        BY <1>3, <4>1 DEF Waiting, FlightIsTaken, Real, RealInvoices
      <4>3. UNCHANGED accrual
        BY <2>1 DEF Create
      <4>4. \A s \in Request : ~Serves(s, i)'
        BY <1>1, <1>2, <4>1, <4>3 DEF Waiting, ServedIsTaken, Serves, Standing
      <4> QED BY <4>2, <4>4
    <3> QED BY <3>1, <3>2 DEF TypeOK
  <2>2. CASE ~Create(r) \/ UNCHANGED invoice
    BY <2>2 DEF Start, RegisterBegin, AccrueBegin, RevokeBegin, Begin,
         ClaimRevocation, CancelAccepted, CancelRejected, CancelUnanswered,
         MarkRevoked, MarkRevocationFailed, database, Taken, TypeOK, RealInvoices
  <2> QED BY <2>1, <2>2
<1>5. \A s \in Request :
        \/ request'[s] = request[s]
        \/ \A i \in RealInvoices : ~Serves(s, i)'
  BY <1>1, <1>2 DEF Serves
<1> QED BY <1>3, <1>4, <1>5, WaitingKept

(* A claim takes an invoice that was offered: it sends the one sale there   *)
(* is, and is the only one to serve the invoice.                            *)
LEMMA ClaimWaits ==
  ASSUME TypeOK, Linked, Waiting, NEW r \in Request, Claim(r),
         \A a \in AccrualId : Kept(a) /\ Fades(a),
         ~(Finish(r) /\ UNCHANGED <<invoice, accrual, wire>>)
  PROVE  Waiting'
<1>1. PICK n \in InvoiceId, b \in AccrualId, u \in User :
        /\ request[r].invoice = n
        /\ Claimable(n)
        /\ accrual[b].status = "UNUSED"
        /\ accrual' = [accrual EXCEPT ![b] =
                [invoice |-> n, user |-> u, status |-> "PROCESSING",
                 revocation |-> "NULL"]]
        /\ request' = [request EXCEPT ![r].step = "sale", ![r].accrual = b]
        /\ wire' = wire \cup {Sale(b)}
        /\ invoice' = [invoice EXCEPT ![n] = "PROCESSING"]
  <2>1. request[r].invoice \in InvoiceId
    BY DEF Claim, Linked, RequestLinked
  <2>2. request[r].user \in users => request[r].user \in User
    BY DEF TypeOK
  <2> QED BY <2>1, <2>2 DEF Claim, NextAccrual, Sale
<1>2. \A s \in Request : s # r => request'[s] = request[s]
  BY <1>1 DEF TypeOK
<1>3. /\ request'[r].step = "sale" /\ request'[r].accrual = b
      /\ request'[r].invoice = n
  BY <1>1 DEF TypeOK, RequestState
<1>4. ASSUME NEW a \in AccrualId, Sale(a) \in wire', a # b
      PROVE  /\ Sale(a) \in wire /\ accrual'[a] = accrual[a]
             /\ accrual[a].invoice \in InvoiceId
  BY <1>1, <1>4 DEF Linked, Sale, TypeOK
<1>5. accrual'[b].invoice = n
  BY <1>1 DEF TypeOK
<1>6. ASSUME NEW s \in Request, s # r, NEW i \in RealInvoices, Serves(s, i)'
      PROVE  Serves(s, i)
  <2>1. Inserted(request[s].accrual)
    BY <1>2, <1>6 DEF Serves, Linked, RequestLinked, AtWork
  <2> QED BY <1>2, <1>6, <2>1 DEF Serves, Fades, Inserted, Standing
<1>7. ASSUME NEW i \in RealInvoices, NEW s \in Request, Serves(s, i)
      PROVE  i # n
  BY <1>1, <1>7 DEF Waiting, ServedIsTaken, Taken, Claimable
<1>8. ASSUME NEW a \in AccrualId, Sale(a) \in wire, n \in RealInvoices
      PROVE  accrual[a].invoice # n
  BY <1>1, <1>8 DEF Waiting, FlightIsTaken, Taken, Claimable, Real, RealInvoices
<1>9. /\ invoice'[n] \in Taken
      /\ \A i \in InvoiceId : i # n => invoice'[i] = invoice[i]
  BY <1>1 DEF TypeOK, Taken
<1>10. FlightIsTaken'
  <2> SUFFICES ASSUME NEW a \in AccrualId, Sale(a) \in wire', Real(a)'
               PROVE  invoice'[accrual'[a].invoice] \in Taken
    BY DEF FlightIsTaken, Sale
  <2>1. CASE a = b
    BY <1>5, <1>9, <2>1
  <2>2. CASE a # b
    BY <1>4, <1>9, <2>2 DEF Waiting, FlightIsTaken, Real
  <2> QED BY <2>1, <2>2
<1>11. ServedIsTaken'
  <2> SUFFICES ASSUME NEW i \in RealInvoices, NEW s \in Request, Serves(s, i)'
               PROVE  invoice'[i] \in Taken
    BY DEF ServedIsTaken, RealInvoices, RealDocs, DocOf, InvoiceId
  <2>1. CASE s = r
    BY <1>3, <1>9, <2>1 DEF Serves
  <2>2. CASE s # r
    BY <1>6, <1>9, <2>2 DEF Waiting, ServedIsTaken, RealInvoices
  <2> QED BY <2>1, <2>2
<1>12. OneServes'
  <2> SUFFICES ASSUME NEW i \in RealInvoices, NEW s \in Request, NEW t \in Request,
                      Serves(s, i)', Serves(t, i)'
               PROVE  s = t
    BY DEF OneServes, RealInvoices, RealDocs, DocOf, InvoiceId
  <2>1. CASE s # r /\ t # r
    BY <1>6, <2>1 DEF Waiting, OneServes
  <2>2. CASE s = r \/ t = r
    <3>1. i = n
      BY <1>3, <2>2 DEF Serves
    <3> QED BY <1>6, <1>7, <3>1
  <2> QED BY <2>1, <2>2
<1>13. ServersExpect'
  <2> SUFFICES ASSUME NEW i \in RealInvoices, NEW s \in Request,
                      NEW a \in AccrualId, Serves(s, i)', Sale(a) \in wire',
                      accrual'[a].invoice = i
               PROVE  Expects(s, a)'
    BY DEF ServersExpect, RealInvoices, RealDocs, DocOf, InvoiceId, Sale
  <2>1. CASE s = r
    <3>1. i = n
      BY <1>3, <2>1 DEF Serves
    <3>2. a = b
      BY <1>4, <1>8, <3>1
    <3> QED BY <1>3, <2>1, <3>2 DEF Expects
  <2>2. CASE s # r
    <3>1. Serves(s, i) /\ a # b
      BY <1>5, <1>6, <1>7, <2>2
    <3>2. Expects(s, a)
      BY <1>4, <3>1 DEF Waiting, ServersExpect
    <3> QED BY <1>2, <2>2, <3>2 DEF Expects
  <2> QED BY <2>1, <2>2
<1> QED BY <1>10, <1>11, <1>12, <1>13 DEF Waiting

(* Whoever hears of a sale, or writes what it heard, has none in flight     *)
(* there, unless it heard nothing.                                          *)
LEMMA ServersWait ==
  ASSUME TypeOK, Linked, Waiting, NEW r \in Request,
         \A a \in AccrualId : Kept(a) /\ Fades(a),
         \/ SaleAccepted(r) \/ SaleRejected(r) \/ SaleDuplicate(r)
         \/ SaleUnanswered(r)
         \/ MarkCompleted(r) \/ RecordBalance(r) \/ MarkFailed(r)
  PROVE  Waiting'
<1>1. \A s \in Request : s # r => request'[s] = request[s]
  BY DEF SaleAccepted, SaleRejected, SaleDuplicate, SaleUnanswered,
         MarkCompleted, RecordBalance, MarkFailed, Goto, Finish, TypeOK
<1>2. /\ request[r].step \in {"sale", "complete", "balance", "fail"}
      /\ request[r].invoice \in InvoiceId
      /\ Inserted(request[r].accrual)
      /\ accrual[request[r].accrual].invoice = request[r].invoice
  BY DEF SaleAccepted, SaleRejected, SaleDuplicate, SaleUnanswered,
         MarkCompleted, RecordBalance, MarkFailed, Linked, RequestLinked, AtWork
<1>3. \/ request'[r].step = "idle"
      \/ /\ request'[r].invoice = request[r].invoice
         /\ request'[r].accrual = request[r].accrual
         /\ request'[r].step \in {"complete", "balance", "fail"}
         /\ request[r].step \in {"sale", "complete", "balance"}
         /\ \/ request'[r].step = "fail" /\ request'[r].uncertain
            \/ request[r].step = "sale" => Sale(request[r].accrual) \notin wire'
  <2>1. CASE Finish(r)
    BY <2>1 DEF Finish, Idle, TypeOK
  <2>2. CASE SaleAccepted(r) \/ SaleRejected(r)
    BY <2>2 DEF SaleAccepted, SaleRejected, SaleCall, Sale, Goto, TypeOK, RequestState
  <2>3. CASE SaleDuplicate(r) \/ SaleUnanswered(r)
    BY <2>3 DEF SaleDuplicate, SaleUnanswered, TypeOK, RequestState
  <2>4. CASE (MarkCompleted(r) \/ RecordBalance(r)) /\ ~Finish(r)
    BY <2>4 DEF MarkCompleted, RecordBalance, Goto, TypeOK, RequestState
  <2> QED BY <2>1, <2>2, <2>3, <2>4 DEF MarkFailed
<1>4. \A a \in AccrualId : Sale(a) \in wire' => Sale(a) \in wire
  BY DEF SaleAccepted, SaleRejected, SaleDuplicate, SaleUnanswered,
         MarkCompleted, RecordBalance, MarkFailed, provider
<1>5. ASSUME NEW i \in RealInvoices, Serves(r, i)'
      PROVE  /\ Serves(r, i)
             /\ \A a \in AccrualId :
                    Sale(a) \in wire' /\ accrual[a].invoice = i => Expects(r, a)'
  <2>1. Serves(r, i)
    BY <1>2, <1>3, <1>5 DEF Serves, Fades, Inserted
  <2>2. ASSUME NEW a \in AccrualId, Sale(a) \in wire', accrual[a].invoice = i
        PROVE  Expects(r, a)'
    <3>1. Expects(r, a)
      BY <1>4, <2>1, <2>2 DEF Waiting, ServersExpect
    <3>2. request[r].step = "sale" /\ request[r].accrual = a
      BY <1>3, <1>5, <3>1 DEF Expects, Serves
    <3> QED BY <1>3, <1>5, <2>2, <3>2 DEF Expects, Serves
  <2> QED BY <2>1, <2>2
<1>6. ASSUME NEW i \in RealInvoices
      PROVE  \/ invoice'[i] = invoice[i]
             \/ invoice'[i] \in Taken
             \/ /\ \A a \in AccrualId : Sale(a) \in wire' => accrual[a].invoice # i
                /\ \A s \in Request : ~Serves(s, i)'
  <2>1. CASE ~MarkFailed(r)
    BY <2>1 DEF SaleAccepted, SaleRejected, SaleDuplicate, SaleUnanswered,
         MarkCompleted, RecordBalance, database, Taken, TypeOK, RealInvoices
  <2>2. CASE MarkFailed(r) /\ request[r].uncertain
    BY <2>2 DEF MarkFailed, Taken, TypeOK, RealInvoices
  <2>3. CASE MarkFailed(r) /\ ~request[r].uncertain /\ invoice'[i] # invoice[i]
    <3>1. BothRows(request[r].invoice, request[r].accrual) /\ i = request[r].invoice
      BY <2>3 DEF MarkFailed, TypeOK, RealInvoices
    <3>2. Serves(r, i) /\ request[r].step = "fail"
      BY <2>3, <3>1 DEF MarkFailed, Serves, BothRows, Standing
    <3>3. ASSUME NEW a \in AccrualId, Sale(a) \in wire'
          PROVE  accrual[a].invoice # i
      BY <1>4, <2>3, <3>2, <3>3 DEF Waiting, ServersExpect, Expects
    <3>4. ASSUME NEW s \in Request, Serves(s, i)'
          PROVE  FALSE
      <4>1. s # r
        BY <2>3, <3>4 DEF MarkFailed, Finish, Idle, Serves, TypeOK
      <4>2. Inserted(request[s].accrual)
        BY <1>1, <3>4, <4>1 DEF Serves, Linked, RequestLinked, AtWork
      <4>3. Serves(s, i)
        BY <1>1, <3>4, <4>1, <4>2 DEF Serves, Fades, Inserted, Standing
      <4> QED BY <3>2, <4>1, <4>3 DEF Waiting, OneServes
    <3> QED BY <3>3, <3>4
  <2> QED BY <2>1, <2>2, <2>3
<1> QED BY <1>1, <1>4, <1>5, <1>6, WaitingKept

(* Removals, the provider working alone, restarts, and nothing at all.      *)
LEMMA EnvironmentWaits ==
  ASSUME TypeOK, Linked, Waiting, \A a \in AccrualId : Kept(a) /\ Fades(a),
         \/ \E i \in InvoiceId : Remove(i)
         \/ \E u \in User : RemoveUser(u)
         \/ \E a \in AccrualId : ProviderSale(a) \/ ProviderCancel(a)
         \/ Crash
         \/ UNCHANGED vars
  PROVE  Waiting'
<1>1. \A a \in AccrualId : Sale(a) \in wire' => Sale(a) \in wire
  BY DEF Remove, RemoveUser, ProviderSale, ProviderCancel, Crash, vars, provider
<1>2. \A s \in Request :
        request'[s] = request[s] \/ \A i \in RealInvoices : ~Serves(s, i)'
  <2>1. CASE Crash
    BY <2>1 DEF Crash, Serves, Idle
  <2> QED BY <2>1 DEF Remove, RemoveUser, ProviderSale, ProviderCancel, vars
<1>3. ASSUME NEW i \in RealInvoices
      PROVE  \/ invoice'[i] = invoice[i]
             \/ /\ \A a \in AccrualId : Sale(a) \in wire' => accrual[a].invoice # i
                /\ \A s \in Request : ~Serves(s, i)'
  <2>1. CASE Remove(i)
    <3>1. invoice[i] \notin Taken /\ UNCHANGED request
      BY <2>1 DEF Remove, Removable, RealInvoices, RealDocs, Taken
    <3> QED BY <1>1, <3>1, UntakenIsFree
  <2>2. CASE ~Remove(i)
    BY <2>2 DEF Remove, RemoveUser, ProviderSale, ProviderCancel, Crash, vars,
           database, RealInvoices, TypeOK
  <2> QED BY <2>1, <2>2
<1> QED BY <1>1, <1>2, <1>3, WaitingKept

(* An invoice offered for accrual, or out of the panel, has no sale on its  *)
(* way to the provider, even when writes fail and users are removed.        *)
THEOREM RetriesWait == Spec => []RetryWaitsForSale
<1>1. Init => Waiting
  BY DEF Init, Waiting, FlightIsTaken, ServedIsTaken, OneServes, ServersExpect,
         Serves, Idle
<1>2. ASSUME TypeOK, Linked, Waiting, [Next]_vars PROVE Waiting'
  <2>1. \A a \in AccrualId : Kept(a) /\ Fades(a)
    BY <1>2, AttemptsAreKept, AttemptsFade
  <2>2. ASSUME NEW r \in Request, Start(r) \/ Continue(r) PROVE Waiting'
    BY <1>2, <2>1, <2>2, ElsewhereWaits, ClaimWaits, ServersWait DEF Continue
  <2> QED BY <1>2, <2>1, <2>2, EnvironmentWaits DEF Next
<1>3. ASSUME Linked, Waiting PROVE RetryWaitsForSale
  <2> SUFFICES ASSUME NEW d \in RealDocs, NEW a \in AttemptsOf(d), Sale(a) \in wire,
                      \A i \in Invoices(d) : Row(i) => Claimable(i)
               PROVE  FALSE
    BY DEF RetryWaitsForSale, SaleInFlight, Sale
  <2>1. /\ a \in AccrualId /\ Real(a)
        /\ accrual[a].invoice \in Invoices(d)
    BY <1>3 DEF AttemptsOf, Real, Linked, Inserted, Invoices
  <2>2. invoice[accrual[a].invoice] \in Taken
    BY <1>3, <2>1 DEF Waiting, FlightIsTaken
  <2> QED BY <2>1, <2>2 DEF Row, InvoiceStatus, Taken, Claimable
<1> QED BY <1>1, <1>2, <1>3, TypeCorrect, PTL DEF Spec

-----------------------------------------------------------------------------
(* An uncertain call is not repeated.  The reason is what attempts and      *)
(* requests tell of a real invoice, when no write fails: an attempt that    *)
(* completed was applied, its revocation is the state of its invoice, and   *)
(* it is the one that a request revokes.                                    *)

StateOf(a) ==
    CASE accrual[a].revocation = "PROCESSING" -> "REVOKING"
      [] accrual[a].revocation = "COMPLETED" -> "REVOKED"
      [] OTHER -> "COMPLETED"
Tells(a) ==
    Standing(a) /\ Real(a) =>
        /\ accrual[a].status = "COMPLETED" =>
                a \in credited /\ invoice[accrual[a].invoice] = StateOf(a)
        /\ accrual[a].revocation # "NULL" => accrual[a].status = "COMPLETED"
Revoking == {"cancel", "revoked", "revocationFail"}
Knows(r) ==
    LET q == request[r] IN
    /\ q.step = "complete" => q.accrual \in credited
    /\ q.step \in Revoking \cup {"claimRevocation"} =>
            Inserted(q.original) /\ accrual[q.original].invoice = q.invoice
    /\ q.step \in Revoking /\ Standing(q.accrual) /\ Real(q.accrual) =>
            accrual[q.accrual].status = "COMPLETED"
Told == (\A a \in AccrualId : Tells(a)) /\ (\A r \in Request : Knows(r))

Completed(a) == Standing(a) /\ Real(a) /\ accrual[a].status = "COMPLETED"
Settled == {"COMPLETED", "REVOKING", "REVOKED"}

(* A document has one completed attempt at most.                            *)
LEMMA OneCompleted ==
  ASSUME IInv, Told, NEW a \in AccrualId, NEW b \in AccrualId,
         Completed(a), Completed(b), SameDoc(a, b)
  PROVE  a = b
  BY DEF IInv, Safe, SpentOnce, Spent, Told, Tells, Completed

LEMMA CompletedIsSettled ==
  ASSUME Told, NEW a \in AccrualId, Completed(a)
  PROVE  invoice[accrual[a].invoice] \in Settled
  BY DEF Told, Tells, Completed, StateOf, Settled

(* An attempt tells the same as before, if neither its row nor, when it     *)
(* completed, its invoice changed.                                          *)
LEMMA TellsKept ==
  ASSUME Told, NEW a \in AccrualId, credited \subseteq credited',
         accrual'[a] = accrual[a],
         Completed(a) => invoice'[accrual[a].invoice] = invoice[accrual[a].invoice]
  PROVE  Tells(a)'
  BY DEF Told, Tells, Standing, Real, StateOf, Completed

(* A step that writes an attempt and its invoice keeps what the others      *)
(* tell, if none of that invoice but the written one was completed.         *)
LEMMA PairTells ==
  ASSUME IInv, Told, NEW a \in AccrualId, NEW i \in InvoiceId,
         accrual'[a].invoice = i, UNCHANGED credited,
         \A b \in AccrualId : b # a => accrual'[b] = accrual[b],
         \A j \in InvoiceId : j # i => invoice'[j] = invoice[j],
         i \in RealInvoices =>
            /\ \/ Completed(a) /\ accrual[a].invoice = i
               \/ invoice[i] \notin Settled
            /\ accrual'[a].status = "COMPLETED" =>
                    a \in credited /\ invoice'[i] = StateOf(a)'
            /\ accrual'[a].revocation # "NULL" => accrual'[a].status = "COMPLETED"
  PROVE  \A b \in AccrualId : Tells(b)'
<1>1. Tells(a)'
  BY DEF Tells, Real, RealInvoices
<1>2. ASSUME NEW b \in AccrualId, b # a PROVE Tells(b)'
  <2>1. ASSUME Completed(b), accrual[b].invoice = i PROVE FALSE
    <3>1. i \in RealInvoices
      BY <2>1 DEF Completed, Real, RealInvoices
    <3>2. invoice[i] \in Settled
      BY <2>1, CompletedIsSettled
    <3>3. Completed(a) /\ SameDoc(a, b)
      BY <2>1, <3>1, <3>2 DEF SameDoc
    <3> QED BY <1>2, <2>1, <3>3, OneCompleted
  <2>2. Completed(b) => accrual[b].invoice \in InvoiceId
    BY DEF Completed, Standing, AccrualStatus, IInv, Linked, Inserted
  <2> QED BY <1>2, <2>1, <2>2, TellsKept
<1> QED BY <1>1, <1>2

(* A request that does not move knows what it knew, as a completed attempt  *)
(* stays completed.                                                         *)
Stays(a) == Completed(a) /\ Standing(a)' => accrual'[a].status = "COMPLETED"
LEMMA KnowsKept ==
  ASSUME IInv, Told, NEW s \in Request, request'[s] = request[s],
         \A a \in AccrualId : Kept(a) /\ Fades(a) /\ Stays(a),
         credited \subseteq credited'
  PROVE  Knows(s)'
<1> DEFINE q == request[s]
<1>1. q.step = "complete" => q.accrual \in credited
  BY DEF Told, Knows
<1>2. q.step \in Revoking \cup {"claimRevocation"} =>
        Inserted(q.original)' /\ accrual'[q.original].invoice = q.invoice
  BY DEF Told, Knows, Kept, Inserted
<1>3. q.step \in Revoking /\ Standing(q.accrual)' /\ Real(q.accrual)' =>
        accrual'[q.accrual].status = "COMPLETED"
  <2> SUFFICES ASSUME q.step \in Revoking, Standing(q.accrual)', Real(q.accrual)'
               PROVE  accrual'[q.accrual].status = "COMPLETED"
    OBVIOUS
  <2>1. Inserted(q.accrual)
    BY DEF IInv, Linked, RequestLinked, AtWork, Revoking
  <2>2. Standing(q.accrual) /\ Real(q.accrual)
    BY <2>1 DEF Kept, Fades, Inserted, Real
  <2> QED BY <2>1, <2>2 DEF Told, Knows, Stays, Completed, Inserted
<1> QED BY <1>1, <1>2, <1>3 DEF Knows

(* Nobody writes a failure over an attempt that completed.                  *)
LEMMA CompletedStays ==
  ASSUME IInv, Told, [Next]_vars, NEW a \in AccrualId
  PROVE  Stays(a)
<1>1. ASSUME NEW r \in Request, MarkFailed(r), Completed(a) PROVE Stays(a)
  <2>1. CASE BothRows(request[r].invoice, request[r].accrual) /\ a = request[r].accrual
    <3>1. request[r].step = "fail" /\ accrual[a].invoice = request[r].invoice
          /\ request[r].invoice \in InvoiceId
      BY <1>1, <2>1 DEF MarkFailed, IInv, Linked, RequestLinked, AtWork
    <3>2. request[r].invoice \in RealInvoices /\ Accrues(r, request[r].invoice)
      BY <1>1, <2>1, <3>1 DEF Completed, Real, RealInvoices, Accrues, Standing,
           AccrualStatus
    <3>3. invoice[request[r].invoice] = "PROCESSING"
      BY <3>2 DEF IInv, Safe, Exclusive
    <3> QED BY <1>1, <3>1, <3>3, CompletedIsSettled DEF Settled
  <2>2. CASE ~(BothRows(request[r].invoice, request[r].accrual) /\ a = request[r].accrual)
    BY <1>1, <2>2 DEF MarkFailed, Stays, Completed, IInv, TypeOK
  <2> QED BY <2>1, <2>2
<1>2. ASSUME NEW r \in Request, Claim(r) PROVE Stays(a)
  BY <1>2 DEF Claim, NextAccrual, Stays, Completed, IInv, TypeOK
<1>3. ASSUME NEW r \in Request, ClaimRevocation(r) PROVE Stays(a)
  BY <1>3 DEF ClaimRevocation, Stays, Completed, IInv, TypeOK, AccrualRow
<1>4. ASSUME NEW r \in Request, MarkCompleted(r) PROVE Stays(a)
  BY <1>4 DEF MarkCompleted, Stays, Completed, IInv, TypeOK, AccrualRow
<1>5. ASSUME NEW r \in Request, MarkRevoked(r) \/ MarkRevocationFailed(r)
      PROVE  Stays(a)
  BY <1>5 DEF MarkRevoked, MarkRevocationFailed, Stays, Completed, IInv, TypeOK,
         AccrualRow
<1>6. ASSUME NEW i \in InvoiceId, Remove(i) PROVE Stays(a)
  BY <1>6 DEF Remove, Stays, Completed, Standing, AccrualStatus, IInv, TypeOK, AccrualRow
<1>7. ASSUME NEW u \in User, RemoveUser(u) PROVE Stays(a)
  BY <1>7 DEF RemoveUser, Stays, Completed, Standing, AccrualStatus, IInv, TypeOK,
         AccrualRow
<1>8. CASE UNCHANGED accrual
  BY <1>8 DEF Stays, Completed
<1> QED
  BY <1>1, <1>2, <1>3, <1>4, <1>5, <1>6, <1>7, <1>8
  DEF Next, Start, Continue, RegisterBegin, AccrueBegin, RevokeBegin, Begin,
      Create, SaleAccepted, SaleRejected, SaleDuplicate, SaleUnanswered,
      RecordBalance, CancelAccepted, CancelRejected, CancelUnanswered,
      ProviderSale, ProviderCancel, Crash, database, vars, Stays

(* What the attempts tell stays true of an invoice that is registered or    *)
(* claimed: none of its attempts was completed.                             *)
LEMMA NewTells ==
  ASSUME IInv, Told, NEW r \in Request, Create(r) \/ Claim(r)
  PROVE  \A b \in AccrualId : Tells(b)'
<1>1. CASE UNCHANGED <<invoice, accrual>>
  BY <1>1, TellsKept DEF Create, Claim, provider
<1>2. CASE Create(r) /\ ~UNCHANGED invoice
  <2>1. PICK n \in InvoiceId : /\ invoice[n] = "UNUSED"
                              /\ invoice' = [invoice EXCEPT ![n] = "PENDING"]
    BY <1>2 DEF Create, Invoices
  <2>2. ASSUME NEW b \in AccrualId PROVE Tells(b)'
    <3>1. Completed(b) => accrual[b].invoice # n
      BY <2>1, CompletedIsSettled DEF Settled
    <3>2. UNCHANGED <<accrual, credited>>
      BY <1>2 DEF Create, provider
    <3> QED BY <2>1, <3>1, <3>2, TellsKept DEF IInv, TypeOK
  <2> QED BY <2>2
<1>3. CASE Claim(r) /\ ~UNCHANGED <<invoice, accrual>>
  <2>1. PICK n \in InvoiceId, a \in AccrualId, u \in User :
          /\ Claimable(n)
          /\ accrual' = [accrual EXCEPT ![a] =
                  [invoice |-> n, user |-> u, status |-> "PROCESSING",
                   revocation |-> "NULL"]]
          /\ invoice' = [invoice EXCEPT ![n] = "PROCESSING"]
    <3>1. request[r].invoice \in InvoiceId
      BY <1>3 DEF Claim, IInv, Linked, RequestLinked
    <3>2. request[r].user \in users => request[r].user \in User
      BY DEF IInv, TypeOK
    <3> QED BY <1>3, <3>1, <3>2 DEF Claim, NextAccrual
  <2>2. /\ accrual'[a].invoice = n /\ accrual'[a].status = "PROCESSING"
        /\ accrual'[a].revocation = "NULL"
        /\ \A b \in AccrualId : b # a => accrual'[b] = accrual[b]
        /\ \A j \in InvoiceId : j # n => invoice'[j] = invoice[j]
        /\ invoice[n] \notin Settled
    BY <2>1 DEF IInv, TypeOK, Claimable, Settled
  <2>3. UNCHANGED credited
    BY <1>3 DEF Claim
  <2> QED BY <2>2, <2>3, PairTells
<1> QED BY <1>1, <1>2, <1>3 DEF Create

(* The request that waits for a sale ends in the state it writes.           *)
LEMMA SaleTells ==
  ASSUME IInv, Told, NEW r \in Request, MarkCompleted(r) \/ MarkFailed(r)
  PROVE  \A b \in AccrualId : Tells(b)'
<1>1. CASE UNCHANGED <<invoice, accrual>>
  BY <1>1, TellsKept DEF MarkCompleted, MarkFailed, provider
<1>2. CASE ~UNCHANGED <<invoice, accrual>>
  <2>1. PICK i \in InvoiceId, a \in AccrualId :
          /\ i = request[r].invoice /\ a = request[r].accrual
          /\ accrual[a].invoice = i
          /\ Standing(a)
          /\ request[r].step \in {"complete", "fail"}
    BY <1>2 DEF MarkCompleted, MarkFailed, BothRows, Standing, IInv, Linked,
         RequestLinked, AtWork, Inserted
  <2>2. PICK s \in {"COMPLETED", "FAILED", "UNVERIFIED"} :
          /\ accrual' = [accrual EXCEPT ![a].status = s]
          /\ invoice' = [invoice EXCEPT ![i] = s]
          /\ s = "COMPLETED" => request[r].step = "complete"
    BY <1>2, <2>1 DEF MarkCompleted, MarkFailed
  <2>3. UNCHANGED credited
    BY DEF MarkCompleted, MarkFailed, provider
  <2>4. /\ accrual'[a].invoice = i /\ accrual'[a].status = s
        /\ accrual'[a].revocation = accrual[a].revocation
        /\ invoice'[i] = s
        /\ \A b \in AccrualId : b # a => accrual'[b] = accrual[b]
        /\ \A j \in InvoiceId : j # i => invoice'[j] = invoice[j]
    BY <2>1, <2>2 DEF IInv, TypeOK, AccrualRow
  <2>5. ASSUME i \in RealInvoices
        PROVE  /\ invoice[i] \notin Settled
               /\ s = "COMPLETED" => a \in credited
               /\ accrual[a].revocation = "NULL"
    <3>1. Accrues(r, i)
      BY <2>1 DEF Accrues, Standing, AccrualStatus
    <3>2. invoice[i] = "PROCESSING"
      BY <2>5, <3>1 DEF IInv, Safe, Exclusive
    <3>3. ~Completed(a)
      BY <2>1, <3>2, CompletedIsSettled DEF Settled
    <3>4. Real(a)
      BY <2>1, <2>5 DEF Real, RealInvoices
    <3> QED BY <2>1, <2>2, <3>2, <3>3, <3>4 DEF Told, Tells, Knows, Completed, Settled
  <2> QED BY <2>3, <2>4, <2>5, PairTells DEF StateOf
<1> QED BY <1>1, <1>2

(* So does the request that revokes, and it writes the one attempt that was *)
(* completed.                                                               *)
LEMMA RevocationTells ==
  ASSUME IInv, Told, NEW r \in Request,
         ClaimRevocation(r) \/ MarkRevoked(r) \/ MarkRevocationFailed(r)
  PROVE  \A b \in AccrualId : Tells(b)'
<1>1. CASE UNCHANGED <<invoice, accrual>>
  BY <1>1, TellsKept DEF ClaimRevocation, MarkRevoked, MarkRevocationFailed, provider
<1>2. CASE ~UNCHANGED <<invoice, accrual>>
  <2>1. PICK i \in InvoiceId, a \in AccrualId, v \in RevocationStatus :
          /\ accrual[a].invoice = i
          /\ Standing(a)
          /\ Real(a) => accrual[a].status = "COMPLETED"
          /\ accrual' = [accrual EXCEPT ![a].revocation = v]
          /\ v # "NULL"
          /\ invoice' = [invoice EXCEPT ![i] =
                IF v = "PROCESSING" THEN "REVOKING"
                ELSE IF v = "COMPLETED" THEN "REVOKED" ELSE "COMPLETED"]
    <3>1. CASE ClaimRevocation(r)
      BY <1>2, <3>1 DEF ClaimRevocation, Revocable, Latest, CompletedAttempts,
           Attempts, Standing, RevocationStatus, IInv, Linked, RequestLinked
    <3>2. CASE MarkRevoked(r) \/ MarkRevocationFailed(r)
      <4>1. /\ request[r].invoice \in InvoiceId
            /\ Inserted(request[r].accrual)
            /\ accrual[request[r].accrual].invoice = request[r].invoice
            /\ BothRows(request[r].invoice, request[r].accrual)
        BY <1>2, <3>2 DEF MarkRevoked, MarkRevocationFailed, IInv, Linked,
             RequestLinked, AtWork
      <4>2. Real(request[r].accrual) => accrual[request[r].accrual].status = "COMPLETED"
        BY <3>2, <4>1 DEF MarkRevoked, MarkRevocationFailed, BothRows, Standing,
             Told, Knows, Revoking
      <4> QED BY <1>2, <3>2, <4>1, <4>2 DEF MarkRevoked, MarkRevocationFailed,
             BothRows, Standing, RevocationStatus, Inserted
    <3> QED BY <3>1, <3>2
  <2>2. UNCHANGED credited
    BY DEF ClaimRevocation, MarkRevoked, MarkRevocationFailed, provider
  <2>3. /\ accrual'[a].invoice = i /\ accrual'[a].revocation = v
        /\ accrual'[a].status = accrual[a].status
        /\ invoice'[i] = StateOf(a)'
        /\ \A b \in AccrualId : b # a => accrual'[b] = accrual[b]
        /\ \A j \in InvoiceId : j # i => invoice'[j] = invoice[j]
    BY <2>1 DEF IInv, TypeOK, AccrualRow, StateOf
  <2>4. i \in RealInvoices => Completed(a) /\ a \in credited
    BY <2>1 DEF Completed, Real, RealInvoices, Told, Tells
  <2> QED BY <2>1, <2>2, <2>3, <2>4, PairTells DEF Completed
<1> QED BY <1>1, <1>2

(* Removals only take attempts away.                                        *)
LEMMA RemovalTells ==
  ASSUME IInv, Told,
         (\E i \in InvoiceId : Remove(i)) \/ (\E u \in User : RemoveUser(u)),
         NEW b \in AccrualId
  PROVE  Tells(b)'
<1>1. ASSUME NEW i \in InvoiceId, Remove(i) PROVE Tells(b)'
  <2>1. CASE b \in Attempts(i)
    BY <1>1, <2>1 DEF Remove, Tells, Standing, AccrualStatus, IInv, TypeOK, AccrualRow
  <2>2. CASE b \notin Attempts(i)
    <3>1. accrual'[b] = accrual[b] /\ UNCHANGED credited
      BY <1>1, <2>2 DEF Remove, IInv, TypeOK, provider
    <3>2. Completed(b) => accrual[b].invoice # i
      BY <2>2 DEF Completed, Attempts, Standing
    <3> QED BY <1>1, <3>1, <3>2, TellsKept DEF Remove, IInv, TypeOK
  <2> QED BY <2>1, <2>2
<1>2. ASSUME NEW u \in User, RemoveUser(u) PROVE Tells(b)'
  <2>1. CASE accrual'[b] = accrual[b]
    BY <1>2, <2>1, TellsKept DEF RemoveUser, provider
  <2>2. CASE accrual'[b] # accrual[b]
    BY <1>2, <2>2 DEF RemoveUser, Tells, Standing, AccrualStatus, IInv, TypeOK, AccrualRow
  <2> QED BY <2>1, <2>2
<1> QED BY <1>1, <1>2

(* Whatever the step, the attempts tell the truth.                          *)
LEMMA TellsStep ==
  ASSUME IInv, Told, [Next]_vars, NEW b \in AccrualId
  PROVE  Tells(b)'
<1>1. CASE UNCHANGED <<invoice, accrual>> /\ credited \subseteq credited'
  BY <1>1, TellsKept
<1> QED
  BY <1>1, NewTells, SaleTells, RevocationTells, RemovalTells
  DEF Next, Start, Continue, RegisterBegin, AccrueBegin, RevokeBegin, Begin,
      SaleAccepted, SaleRejected, SaleDuplicate, SaleUnanswered,
      RecordBalance, CancelAccepted, CancelRejected, CancelUnanswered,
      ProviderSale, ProviderCancel, Crash, database, provider, vars

(* What requests know: the one that moves, ...                              *)
LEMMA OwnKnows ==
  ASSUME IInv, Told, NEW r \in Request, Start(r) \/ Continue(r)
  PROVE  Knows(r)'
<1>1. CASE request'[r].step \in {"idle", "create", "claim", "sale", "balance", "fail"}
  BY <1>1 DEF Knows, Revoking
<1>2. CASE SaleAccepted(r)
  BY <1>2 DEF SaleAccepted, Goto, Knows, Revoking, IInv, TypeOK, RequestState
<1>3. ASSUME NEW u \in User, NEW i \in InvoiceId, RevokeBegin(r, u, i)
      PROVE  Knows(r)'
  <2>1. PICK a \in Attempts(i) :
          Begin(r, u, [Idle EXCEPT !.step = "claimRevocation", !.user = u,
                                   !.invoice = i, !.original = a])
    BY <1>3 DEF RevokeBegin, Latest
  <2>2. /\ request'[r].step = "claimRevocation"
        /\ request'[r].invoice = i /\ request'[r].original = a
    BY <2>1 DEF Begin, Idle, IInv, TypeOK
  <2>3. Inserted(a)' /\ accrual'[a].invoice = i
    BY <2>1 DEF Begin, Attempts, AccrualStatus, Inserted, database
  <2> QED BY <2>2, <2>3 DEF Knows, Revoking
<1>4. CASE ClaimRevocation(r) /\ ~Finish(r)
  <2>1. PICK a \in Revocable(request[r].invoice) :
          /\ accrual' = [accrual EXCEPT ![a].revocation = "PROCESSING"]
          /\ request' = [request EXCEPT ![r].step = "cancel", ![r].accrual = a]
    BY <1>4 DEF ClaimRevocation
  <2>2. a \in AccrualId /\ accrual[a].status = "COMPLETED"
    BY <2>1 DEF Revocable, Latest, CompletedAttempts, Attempts
  <2>3. /\ request'[r].step = "cancel" /\ request'[r].accrual = a
        /\ request'[r].original = request[r].original
        /\ request'[r].invoice = request[r].invoice
    BY <2>1, <2>2 DEF IInv, TypeOK, RequestState
  <2>4. \A b \in AccrualId : /\ accrual'[b].invoice = accrual[b].invoice
                            /\ accrual'[b].status = accrual[b].status
    BY <2>1, <2>2 DEF IInv, TypeOK, AccrualRow
  <2>5. Inserted(request[r].original)
        /\ accrual[request[r].original].invoice = request[r].invoice
    BY <1>4 DEF ClaimRevocation, Told, Knows
  <2> QED BY <2>2, <2>3, <2>4, <2>5 DEF Knows, Revoking, Inserted
<1>5. CASE /\ request[r].step \in Revoking /\ request'[r].step \in Revoking
           /\ request'[r].accrual = request[r].accrual
           /\ request'[r].original = request[r].original
           /\ request'[r].invoice = request[r].invoice
           /\ UNCHANGED accrual
  BY <1>5 DEF Told, Knows, Revoking, Standing, Real, Inserted
<1>6. CASE CancelAccepted(r) \/ CancelRejected(r) \/ CancelUnanswered(r)
  <2>1. /\ request[r].step \in Revoking /\ request'[r].step \in Revoking
        /\ request'[r].accrual = request[r].accrual
        /\ request'[r].original = request[r].original
        /\ request'[r].invoice = request[r].invoice
        /\ UNCHANGED accrual
    BY <1>6 DEF CancelAccepted, CancelRejected, CancelUnanswered, Goto, database,
         Revoking, IInv, TypeOK, RequestState
  <2> QED BY <1>5, <2>1
<1>7. CASE MarkRevoked(r) /\ ~Finish(r)
  <2>1. /\ request[r].step \in Revoking /\ request'[r].step \in Revoking
        /\ request'[r].accrual = request[r].accrual
        /\ request'[r].original = request[r].original
        /\ request'[r].invoice = request[r].invoice
        /\ UNCHANGED accrual
    BY <1>7 DEF MarkRevoked, Goto, Revoking, IInv, TypeOK, RequestState
  <2> QED BY <1>5, <2>1
<1>8. CASE Finish(r)
  BY <1>1, <1>8 DEF Finish, Idle, IInv, TypeOK
<1>9. CASE SaleRejected(r) \/ SaleDuplicate(r) \/ SaleUnanswered(r)
           \/ MarkCompleted(r) \/ RecordBalance(r)
  BY <1>1, <1>8, <1>9 DEF SaleRejected, SaleDuplicate, SaleUnanswered, MarkCompleted,
     RecordBalance, Goto, IInv, TypeOK, RequestState
<1>10. CASE Claim(r)
  BY <1>1, <1>8, <1>10 DEF Claim, IInv, TypeOK, RequestState
<1>11. CASE Start(r)
  BY <1>1, <1>3, <1>11 DEF Start, RegisterBegin, AccrueBegin, Begin, Idle, IInv, TypeOK
<1> QED BY <1>2, <1>4, <1>6, <1>7, <1>8, <1>9, <1>10, <1>11
        DEF Continue, Create, ClaimRevocation, MarkFailed, MarkRevocationFailed

(* ... and all the others.                                                  *)
LEMMA ToldStep == ASSUME IInv, Told, [Next]_vars PROVE Told'
<1>1. \A a \in AccrualId : Kept(a) /\ Fades(a) /\ Stays(a)
  BY AttemptsAreKept, AttemptsFade, CompletedStays DEF IInv
<1>2. credited \subseteq credited'
  BY DEF Next, Start, Continue, RegisterBegin, AccrueBegin, RevokeBegin, Begin,
       Create, Claim, SaleAccepted, SaleRejected, SaleDuplicate, SaleUnanswered,
       MarkCompleted, RecordBalance, MarkFailed, ClaimRevocation, CancelAccepted,
       CancelRejected, CancelUnanswered, MarkRevoked, MarkRevocationFailed,
       Remove, RemoveUser, ProviderSale, ProviderCancel, Crash, provider, vars
<1>3. ASSUME NEW s \in Request PROVE Knows(s)'
  <2>1. CASE request'[s] = request[s]
    BY <1>1, <1>2, <2>1, KnowsKept
  <2>2. CASE request'[s] = Idle
    BY <2>2 DEF Knows, Idle, Revoking
  <2>3. ASSUME NEW r \in Request, Start(r) \/ Continue(r), s # r
        PROVE  request'[s] = request[s]
    BY <2>3 DEF Start, Continue, RegisterBegin, AccrueBegin, RevokeBegin, Begin,
         Create, Claim, SaleAccepted, SaleRejected, SaleDuplicate, SaleUnanswered,
         MarkCompleted, RecordBalance, MarkFailed, ClaimRevocation, CancelAccepted,
         CancelRejected, CancelUnanswered, MarkRevoked, MarkRevocationFailed,
         Goto, Finish, IInv, TypeOK
  <2>4. CASE Start(s) \/ Continue(s)
    BY <2>4, OwnKnows
  <2> QED BY <2>1, <2>2, <2>3, <2>4
          DEF Next, Remove, RemoveUser, ProviderSale, ProviderCancel, Crash, vars
<1> QED BY <1>3, TellsStep DEF Told

LEMMA Telling == ASSUME ~DbMayFail PROVE Spec => []Told
<1>1. Init => Told
  BY DEF Init, Told, Tells, Knows, Idle, UnusedAccrual, Standing, AccrualStatus, Revoking
<1>2. IInv /\ Told /\ [Next]_vars => Told'
  BY ToldStep
<1> QED BY <1>1, <1>2, Inductive, PTL DEF Spec

(* After an ambiguous answer nothing is sent again: an UNVERIFIED invoice   *)
(* stays as it is, and a cancellation left UNVERIFIED is not repeated.      *)
THEOREM UncertainStays == ASSUME ~DbMayFail PROVE Spec => UncertainIsNeverResent
<1> DEFINE Uncertain(i) ==
        \/ invoice[i] = "UNVERIFIED"
        \/ \E a \in Attempts(i) : accrual[a].revocation = "UNVERIFIED"
<1>1. ASSUME IInv, Told, NEW i \in RealInvoices, Uncertain(i)
      PROVE  /\ invoice[i] \in {"UNVERIFIED", "COMPLETED"}
             /\ Revocable(i) = {}
  <2>1. CASE invoice[i] = "UNVERIFIED"
    BY <2>1 DEF Revocable
  <2>2. CASE \E a \in Attempts(i) : accrual[a].revocation = "UNVERIFIED"
    <3>1. PICK a \in AccrualId : /\ accrual[a].invoice = i /\ Standing(a)
                                /\ accrual[a].revocation = "UNVERIFIED"
      BY <2>2 DEF Attempts, Standing
    <3>2. Completed(a) /\ invoice[i] = "COMPLETED"
      BY <1>1, <3>1 DEF Told, Tells, Completed, Real, RealInvoices, StateOf
    <3>3. ASSUME NEW b \in Revocable(i) PROVE FALSE
      <4>1. /\ b \in AccrualId /\ Standing(b) /\ accrual[b].invoice = i
            /\ accrual[b].status = "COMPLETED"
            /\ accrual[b].revocation # "UNVERIFIED"
        BY <3>3 DEF Revocable, Latest, CompletedAttempts, Attempts, Standing
      <4>2. Completed(b) /\ SameDoc(a, b)
        BY <1>1, <3>1, <4>1 DEF Completed, Real, RealInvoices, SameDoc
      <4> QED BY <1>1, <3>1, <3>2, <4>1, <4>2, OneCompleted
    <3> QED BY <3>2, <3>3
  <2> QED BY <1>1, <2>1, <2>2
<1>2. ASSUME IInv, Told, [Next]_vars, NEW i \in RealInvoices, Uncertain(i)
      PROVE  CallsFor(DocOf(i), wire') \subseteq wire /\ invoice'[i] = invoice[i]
  <2>1. invoice[i] \in {"UNVERIFIED", "COMPLETED"} /\ Revocable(i) = {}
        /\ i \in InvoiceId /\ DocOf(i) \in RealDocs
    BY <1>1, <1>2 DEF RealInvoices
  <2>2. ASSUME NEW r \in Request, Claim(r)
        PROVE  CallsFor(DocOf(i), wire') \subseteq wire /\ invoice'[i] = invoice[i]
    <3>1. \A c \in wire' : c \in wire \/ (c.accrual \in AccrualId
                                         /\ accrual[c.accrual].status = "UNUSED")
      BY <2>2 DEF Claim, NextAccrual
    <3>2. CallsFor(DocOf(i), wire') \subseteq wire
      BY <3>1 DEF CallsFor, AttemptsOf
    <3> QED BY <1>2, <2>1, <2>2, <3>2 DEF Claim, Claimable, IInv, TypeOK
  <2>3. ASSUME NEW r \in Request, ClaimRevocation(r)
        PROVE  CallsFor(DocOf(i), wire') \subseteq wire /\ invoice'[i] = invoice[i]
    <3> DEFINE j == request[r].invoice
    <3>1. CASE UNCHANGED <<invoice, wire>>
      BY <3>1 DEF CallsFor
    <3>2. CASE Revocable(j) # {}
      <4>1. /\ j \in InvoiceId /\ Inserted(request[r].original)
            /\ accrual[request[r].original].invoice = j
            /\ invoice[j] = "COMPLETED"
        BY <1>2, <2>3, <3>2 DEF ClaimRevocation, Told, Knows, IInv, Linked,
             RequestLinked, Revocable
      <4>2. DocOf(j) # DocOf(i)
        BY <1>2, <2>1, <3>2, <4>1 DEF IInv, Safe, OneRowPerDoc, RealInvoices, Row,
           InvoiceStatus
      <4>3. request[r].original \notin AttemptsOf(DocOf(i))
        BY <4>1, <4>2 DEF AttemptsOf
      <4>4. \A c \in wire' : c \in wire \/ c.accrual = request[r].original
        BY <2>3 DEF ClaimRevocation
      <4> QED BY <1>2, <2>1, <2>3, <4>2, <4>3, <4>4
              DEF ClaimRevocation, CallsFor, IInv, TypeOK
    <3> QED BY <2>3, <3>1, <3>2 DEF ClaimRevocation
  <2>4. CASE wire' \subseteq wire
    <3>1. CallsFor(DocOf(i), wire') \subseteq wire
      BY <2>4 DEF CallsFor
    <3>2. ASSUME NEW r \in Request, Create(r) PROVE invoice'[i] = invoice[i]
      BY <1>2, <2>1, <3>2 DEF Create, Invoices, IInv, TypeOK
    <3>3. ASSUME NEW r \in Request, MarkCompleted(r) \/ MarkFailed(r)
          PROVE  invoice'[i] = invoice[i]
      <4>1. CASE invoice' = invoice
        BY <4>1
      <4>2. CASE invoice' # invoice
        <5>1. /\ BothRows(request[r].invoice, request[r].accrual)
              /\ request[r].step \in {"complete", "fail"}
          BY <3>3, <4>2 DEF MarkCompleted, MarkFailed
        <5>2. request[r].invoice = i => Accrues(r, i)
          BY <5>1 DEF Accrues, BothRows, AccrualStatus
        <5>3. request[r].invoice # i
          BY <1>2, <2>1, <5>2 DEF IInv, Safe, Exclusive
        <5> QED BY <1>2, <2>1, <3>3, <5>3 DEF MarkCompleted, MarkFailed, IInv, TypeOK
      <4> QED BY <4>1, <4>2
    <3>4. ASSUME NEW r \in Request, MarkRevoked(r) \/ MarkRevocationFailed(r)
          PROVE  invoice'[i] = invoice[i]
      <4>1. CASE invoice' = invoice
        BY <4>1
      <4>2. CASE invoice' # invoice
        <5>1. /\ BothRows(request[r].invoice, request[r].accrual)
              /\ request[r].step \in {"revoked", "revocationFail"}
          BY <3>4, <4>2 DEF MarkRevoked, MarkRevocationFailed
        <5>2. request[r].invoice = i => Revokes(r, i)
          BY <5>1 DEF Revokes, BothRows, AccrualStatus
        <5>3. request[r].invoice # i
          BY <1>2, <2>1, <5>2 DEF IInv, Safe, Exclusive
        <5> QED BY <1>2, <2>1, <3>4, <5>3
                DEF MarkRevoked, MarkRevocationFailed, IInv, TypeOK
      <4> QED BY <4>1, <4>2
    <3>5. ASSUME NEW j \in InvoiceId, Remove(j) PROVE invoice'[i] = invoice[i]
      BY <1>2, <2>1, <3>5 DEF Remove, Removable, RealDocs, IInv, TypeOK
    <3>6. invoice'[i] = invoice[i]
      BY <1>2, <2>2, <2>3, <3>2, <3>3, <3>4, <3>5
      DEF Next, Start, Continue, RegisterBegin, AccrueBegin, RevokeBegin, Begin,
          SaleAccepted, SaleRejected, SaleDuplicate, SaleUnanswered,
          RecordBalance, CancelAccepted, CancelRejected, CancelUnanswered,
          RemoveUser, ProviderSale, ProviderCancel, Crash, database, vars
    <3> QED BY <3>1, <3>6
  <2>5. wire' \subseteq wire \/ \E r \in Request : Claim(r) \/ ClaimRevocation(r)
    BY <1>2
    DEF Next, Start, Continue, RegisterBegin, AccrueBegin, RevokeBegin, Begin,
        Create, SaleAccepted, SaleRejected, SaleDuplicate, SaleUnanswered,
        MarkCompleted, RecordBalance, MarkFailed, CancelAccepted, CancelRejected,
        CancelUnanswered, MarkRevoked, MarkRevocationFailed, Remove, RemoveUser,
        ProviderSale, ProviderCancel, Crash, provider, vars
  <2> QED BY <2>2, <2>3, <2>4, <2>5
<1>3. IInv /\ Told /\ [Next]_vars =>
        [\A i \in RealInvoices :
            \/ invoice[i] = "UNVERIFIED"
            \/ \E a \in Attempts(i) : accrual[a].revocation = "UNVERIFIED"
            => /\ CallsFor(DocOf(i), wire') \subseteq wire
               /\ invoice'[i] = invoice[i]]_vars
  BY <1>2
<1> QED BY <1>3, Inductive, Telling, PTL DEF Spec, UncertainIsNeverResent

-----------------------------------------------------------------------------
(* The panel and the programme agree, when no write fails and no user is    *)
(* removed.  A cancellation of an invoice was asked for only while it is    *)
(* being revoked, was revoked, or has an unverified one; ...                *)

Cancellation(a) == [op |-> "cancel", accrual |-> a]
Asked(a) == a \in cancelled \/ Cancellation(a) \in wire
Untouched(i) ==
    \A a \in AccrualId : Inserted(a) /\ accrual[a].invoice = i => ~Asked(a)
Unverified(i) == \E a \in CompletedAttempts(i) : accrual[a].revocation = "UNVERIFIED"
Booked(i) ==
    /\ invoice[i] \in Settled => CompletedAttempts(i) # {}
    /\ invoice[i] \notin {"REVOKING", "REVOKED"} => Untouched(i) \/ Unverified(i)
    /\ invoice[i] = "REVOKED" => \E a \in cancelled : accrual[a].invoice = i

(* ... and the request that revokes it asked for one, of which it knows.    *)
Follows(r, i) ==
    LET q == request[r] IN
    Revokes(r, i) =>
        /\ q.step = "cancel" =>
            /\ \A a \in AccrualId :
                Inserted(a) /\ accrual[a].invoice = i /\ Asked(a) => a = q.original
            /\ ~(q.original \in cancelled /\ Cancellation(q.original) \in wire)
        /\ q.step = "revoked" => q.original \in cancelled
        /\ q.step = "revocationFail" /\ ~q.uncertain => Untouched(i)
Booking == \A i \in RealInvoices : Booked(i) /\ \A r \in Request : Follows(r, i)

(* Only a claim asks for a cancellation.                                    *)
Claims(r) == ClaimRevocation(r) /\ ~Finish(r)
LEMMA CancellationStep ==
  ASSUME IInv, [Next]_vars, NEW a \in AccrualId, Cancellation(a) \in wire'
  PROVE  \/ Cancellation(a) \in wire
         \/ \E r \in Request : Claims(r) /\ request[r].original = a
<1>1. ASSUME NEW r \in Request, ClaimRevocation(r), ~Finish(r),
             Cancellation(a) \in wire', Cancellation(a) \notin wire
      PROVE  request[r].original = a
  BY <1>1 DEF ClaimRevocation, Cancellation
<1>2. ASSUME NEW r \in Request, ClaimRevocation(r), Finish(r),
             Cancellation(a) \in wire', Cancellation(a) \notin wire
      PROVE  FALSE
  <2>1. request'[r].step = "idle"
    BY <1>2 DEF Finish, Idle, IInv, TypeOK
  <2>2. request'[r].step # "cancel" => UNCHANGED wire
    BY <1>2 DEF ClaimRevocation, IInv, TypeOK, RequestState
  <2> QED BY <1>2, <2>1, <2>2
<1>3. ASSUME NEW r \in Request, Claim(r), Cancellation(a) \in wire'
      PROVE  Cancellation(a) \in wire
  BY <1>3 DEF Claim, Cancellation
<1>4. wire' \subseteq wire \/ \E r \in Request : Claim(r) \/ ClaimRevocation(r)
  BY DEF Next, Start, Continue, RegisterBegin, AccrueBegin, RevokeBegin, Begin,
      Create, SaleAccepted, SaleRejected, SaleDuplicate, SaleUnanswered,
      MarkCompleted, RecordBalance, MarkFailed, CancelAccepted, CancelRejected,
      CancelUnanswered, MarkRevoked, MarkRevocationFailed, Remove, RemoveUser,
      ProviderSale, ProviderCancel, Crash, provider, vars
<1> QED BY <1>1, <1>2, <1>3, <1>4 DEF Claims

(* The provider cancels on a call that is in flight, and takes it.          *)
LEMMA CancelledStep ==
  ASSUME IInv, [Next]_vars, NEW a \in AccrualId, a \in cancelled', a \notin cancelled
  PROVE  Cancellation(a) \in wire /\ Cancellation(a) \notin wire'
<1>1. ASSUME NEW r \in Request, CancelAccepted(r)
      PROVE  Cancellation(a) \in wire /\ Cancellation(a) \notin wire'
  BY <1>1 DEF CancelAccepted, CancelCall, Cancellation
<1>2. ASSUME NEW b \in AccrualId, ProviderCancel(b)
      PROVE  Cancellation(a) \in wire /\ Cancellation(a) \notin wire'
  BY <1>2 DEF ProviderCancel, Cancellation
<1> QED BY <1>1, <1>2
    DEF Next, Start, Continue, RegisterBegin, AccrueBegin, RevokeBegin, Begin,
      Create, Claim, SaleAccepted, SaleRejected, SaleDuplicate, SaleUnanswered,
      MarkCompleted, RecordBalance, MarkFailed, ClaimRevocation, CancelRejected,
      CancelUnanswered, MarkRevoked, MarkRevocationFailed, Remove, RemoveUser,
      ProviderSale, Crash, provider, vars

(* What was asked for an invoice that nobody claims, was asked before.      *)
LEMMA AskedStep ==
  ASSUME IInv, Told, [Next]_vars, NEW i \in InvoiceId,
         \A r \in Request : Claims(r) => request[r].invoice # i,
         NEW a \in AccrualId, Inserted(a)', accrual'[a].invoice = i, Asked(a)'
  PROVE  Inserted(a) /\ accrual[a].invoice = i /\ Asked(a)
<1>1. CASE Asked(a)
  <2>1. Inserted(a)
    BY <1>1 DEF Asked, Cancellation, IInv, Linked, TypeOK
  <2> QED BY <1>1, <2>1, AttemptsAreKept DEF Kept, IInv
<1>2. CASE ~Asked(a)
  <2>1. PICK r \in Request : Claims(r) /\ request[r].original = a
    BY <1>2, CancellationStep, CancelledStep DEF Asked
  <2>2. Inserted(a) /\ accrual[a].invoice = request[r].invoice
    BY <2>1 DEF Claims, ClaimRevocation, Told, Knows
  <2>3. accrual[a].invoice = i
    BY <2>2, AttemptsAreKept DEF Kept, IInv
  <2> QED BY <2>1, <2>2, <2>3
<1> QED BY <1>1, <1>2

(* An invoice stays untouched until somebody claims its revocation.         *)
LEMMA UntouchedKept ==
  ASSUME IInv, Told, [Next]_vars, NEW i \in InvoiceId, Untouched(i),
         \A r \in Request : Claims(r) => request[r].invoice # i
  PROVE  Untouched(i)'
  BY AskedStep DEF Untouched

(* While a request revokes an invoice, or it is unverified, nobody claims   *)
(* its revocation.                                                          *)
LEMMA NoClaim ==
  ASSUME IInv, Told, NEW i \in RealInvoices, NEW r \in Request, Claims(r),
         request[r].invoice = i
  PROVE  /\ invoice[i] = "COMPLETED"
         /\ ~Unverified(i)
         /\ invoice'[i] = "REVOKING"
<1>1. PICK b \in Revocable(i) : TRUE
  BY DEF Claims, ClaimRevocation
<1>2. /\ b \in AccrualId /\ Standing(b) /\ accrual[b].invoice = i
      /\ accrual[b].status = "COMPLETED" /\ accrual[b].revocation # "UNVERIFIED"
      /\ invoice[i] = "COMPLETED"
  BY <1>1 DEF Revocable, Latest, CompletedAttempts, Attempts, Standing
<1>3. ASSUME Unverified(i) PROVE FALSE
  <2>1. PICK a \in AccrualId :
          /\ Standing(a) /\ accrual[a].invoice = i
          /\ accrual[a].status = "COMPLETED" /\ accrual[a].revocation = "UNVERIFIED"
    BY <1>3 DEF Unverified, CompletedAttempts, Attempts, Standing
  <2>2. Completed(a) /\ Completed(b) /\ SameDoc(a, b)
    BY <1>2, <2>1 DEF Completed, Real, RealInvoices, SameDoc
  <2> QED BY <1>2, <2>1, <2>2, OneCompleted
<1>4. invoice'[i] = "REVOKING"
  BY <1>2 DEF Claims, ClaimRevocation, IInv, TypeOK, RealInvoices
<1> QED BY <1>2, <1>3, <1>4

(* A completed attempt of a real invoice stays, with the verdict that its   *)
(* cancellation is unverified.                                              *)
LEMMA CompletedIsKept ==
  ASSUME ~UsersRemovable, IInv, Told, [Next]_vars, NEW i \in RealInvoices,
         NEW a \in CompletedAttempts(i)
  PROVE  /\ a \in CompletedAttempts(i)'
         /\ accrual[a].revocation = "UNVERIFIED" =>
                accrual'[a].revocation = "UNVERIFIED"
<1>1. /\ a \in AccrualId /\ Standing(a) /\ accrual[a].invoice = i
      /\ accrual[a].status = "COMPLETED" /\ Completed(a) /\ Inserted(a)
      /\ i \in InvoiceId
  BY DEF CompletedAttempts, Attempts, Standing, Completed, Real, RealInvoices,
     AccrualStatus, Inserted
<1>2. invoice[i] \in Settled
  BY <1>1, CompletedIsSettled
<1>3. Standing(a)'
  <2>1. ASSUME NEW r \in Request, MarkCompleted(r) \/ MarkFailed(r) \/ MarkRevoked(r)
                                  \/ MarkRevocationFailed(r)
        PROVE  Standing(a)'
    BY <1>1, <2>1 DEF MarkCompleted, MarkFailed, MarkRevoked, MarkRevocationFailed,
       Standing, AccrualStatus, IInv, TypeOK, AccrualRow
  <2>2. ASSUME NEW r \in Request, Claim(r) \/ ClaimRevocation(r) PROVE Standing(a)'
    BY <1>1, <2>2 DEF Claim, ClaimRevocation, NextAccrual, Standing, AccrualStatus,
       IInv, TypeOK, AccrualRow
  <2>3. ASSUME NEW j \in InvoiceId, Remove(j) PROVE Standing(a)'
    <3>1. j # i
      BY <1>2, <2>3 DEF Remove, Removable, RealInvoices, RealDocs, Settled
    <3> QED BY <1>1, <2>3, <3>1 DEF Remove, Attempts, Standing
  <2>4. CASE UNCHANGED accrual
    BY <1>1, <2>4 DEF Standing
  <2> QED BY <2>1, <2>2, <2>3, <2>4
      DEF Next, Start, Continue, RegisterBegin, AccrueBegin, RevokeBegin, Begin,
        Create, SaleAccepted, SaleRejected, SaleDuplicate, SaleUnanswered,
        RecordBalance, CancelAccepted, CancelRejected,
        CancelUnanswered, RemoveUser, ProviderSale, ProviderCancel, Crash,
        database, vars
<1>4. a \in CompletedAttempts(i)'
  BY <1>1, <1>3, CompletedStays, AttemptsAreKept
  DEF Stays, Kept, IInv, CompletedAttempts, Attempts, Standing
<1>5. ASSUME accrual[a].revocation = "UNVERIFIED"
      PROVE  accrual'[a].revocation = "UNVERIFIED"
  <2>1. invoice[i] = "COMPLETED"
    BY <1>1, <1>5 DEF Told, Tells, Completed, StateOf
  <2>2. ASSUME NEW r \in Request, MarkRevoked(r) \/ MarkRevocationFailed(r)
        PROVE  accrual'[a].revocation = "UNVERIFIED"
    <3>1. CASE accrual' = accrual
      BY <1>5, <3>1
    <3>2. CASE accrual' # accrual
      <4>1. /\ BothRows(request[r].invoice, request[r].accrual)
            /\ request[r].step \in {"revoked", "revocationFail"}
            /\ accrual[request[r].accrual].invoice = request[r].invoice
        BY <2>2, <3>2 DEF MarkRevoked, MarkRevocationFailed, IInv, Linked,
           RequestLinked, AtWork
      <4>2. request[r].accrual # a
        BY <1>1, <2>1, <4>1 DEF Revokes, BothRows, AccrualStatus, IInv, Safe, Exclusive
      <4> QED BY <1>1, <1>5, <2>2, <4>2
              DEF MarkRevoked, MarkRevocationFailed, IInv, TypeOK
    <3> QED BY <3>1, <3>2
  <2>3. ASSUME NEW r \in Request, ClaimRevocation(r)
        PROVE  accrual'[a].revocation = "UNVERIFIED"
    BY <1>1, <1>5, <2>3 DEF ClaimRevocation, Revocable, IInv, TypeOK
  <2>4. ASSUME NEW r \in Request, MarkCompleted(r) \/ MarkFailed(r)
        PROVE  accrual'[a].revocation = "UNVERIFIED"
    BY <1>1, <1>5, <2>4 DEF MarkCompleted, MarkFailed, IInv, TypeOK, AccrualRow
  <2>5. ASSUME NEW r \in Request, Claim(r) PROVE accrual'[a].revocation = "UNVERIFIED"
    BY <1>1, <1>5, <2>5 DEF Claim, NextAccrual, Inserted, IInv, TypeOK
  <2>6. ASSUME NEW j \in InvoiceId, Remove(j)
        PROVE  accrual'[a].revocation = "UNVERIFIED"
    BY <1>1, <1>5, <2>6 DEF Remove, IInv, TypeOK, AccrualRow
  <2> QED BY <1>5, <2>2, <2>3, <2>4, <2>5, <2>6
      DEF Next, Start, Continue, RegisterBegin, AccrueBegin, RevokeBegin, Begin,
        Create, SaleAccepted, SaleRejected, SaleDuplicate, SaleUnanswered,
        RecordBalance, CancelAccepted, CancelRejected,
        CancelUnanswered, RemoveUser, ProviderSale, ProviderCancel, Crash,
        database, vars
<1> QED BY <1>4, <1>5

(* What a step does to one invoice.                                         *)
Moves(r, i) == request[r].invoice = i /\ BothRows(i, request[r].accrual)
Written(r, i) ==
    \/ Create(r) /\ invoice'[i] = "PENDING"
    \/ Claim(r) /\ invoice'[i] = "PROCESSING"
    \/ Claims(r) /\ request[r].invoice = i
    \/ MarkFailed(r) /\ Moves(r, i) /\ invoice'[i] \in {"FAILED", "UNVERIFIED"}
    \/ MarkCompleted(r) /\ Moves(r, i) /\ invoice'[i] = "COMPLETED"
            /\ accrual'[request[r].accrual].status = "COMPLETED"
    \/ MarkRevoked(r) /\ Moves(r, i) /\ invoice'[i] = "REVOKED"
    \/ MarkRevocationFailed(r) /\ Moves(r, i) /\ invoice'[i] = "COMPLETED"
            /\ (request[r].uncertain =>
                    accrual'[request[r].accrual].revocation = "UNVERIFIED")
LEMMA InvoiceStep ==
  ASSUME IInv, [Next]_vars, NEW i \in RealInvoices, invoice'[i] # invoice[i]
  PROVE  \/ invoice'[i] = "DELETED" /\ invoice[i] \in {"PENDING", "FAILED"}
         \/ \E r \in Request : Written(r, i)
<1> i \in InvoiceId
  BY DEF RealInvoices
<1>1. ASSUME NEW r \in Request, Continue(r) PROVE Written(r, i)
  <2>1. CASE Create(r)
    BY <2>1 DEF Create, Written, IInv, TypeOK
  <2>2. CASE Claim(r)
    BY <2>2 DEF Claim, Written, IInv, TypeOK
  <2>3. CASE ClaimRevocation(r)
    <3>1. request[r].invoice = i /\ ~UNCHANGED invoice
      BY <2>3 DEF ClaimRevocation, IInv, TypeOK
    <3>2. request'[r].step = "cancel"
      BY <2>3, <3>1 DEF ClaimRevocation, IInv, TypeOK, RequestState
    <3>3. ~Finish(r)
      BY <3>2 DEF Finish, Idle, IInv, TypeOK
    <3> QED BY <2>3, <3>1, <3>3 DEF Written, Claims
  <2>4. CASE MarkCompleted(r) \/ MarkFailed(r) \/ MarkRevoked(r)
             \/ MarkRevocationFailed(r)
    <3>1. Inserted(request[r].accrual)
      BY <2>4 DEF MarkCompleted, MarkFailed, MarkRevoked, MarkRevocationFailed,
         IInv, Linked, RequestLinked, AtWork
    <3>2. Moves(r, i)
      BY <2>4 DEF MarkCompleted, MarkFailed, MarkRevoked, MarkRevocationFailed,
         Moves, IInv, TypeOK
    <3>3. CASE MarkCompleted(r)
      BY <3>1, <3>2, <3>3 DEF MarkCompleted, Written, Inserted, IInv, TypeOK, AccrualRow
    <3>4. CASE MarkFailed(r)
      BY <3>2, <3>4 DEF MarkFailed, Moves, Written, IInv, TypeOK
    <3>5. CASE MarkRevoked(r)
      BY <3>2, <3>5 DEF MarkRevoked, Moves, Written, IInv, TypeOK
    <3>6. CASE MarkRevocationFailed(r)
      BY <3>1, <3>2, <3>6 DEF MarkRevocationFailed, Moves, Written, Inserted, IInv,
         TypeOK, AccrualRow
    <3> QED BY <2>4, <3>3, <3>4, <3>5, <3>6
  <2>5. invoice' # invoice
    OBVIOUS
  <2> QED BY <1>1, <2>1, <2>2, <2>3, <2>4, <2>5
      DEF Continue, SaleAccepted, SaleRejected, SaleDuplicate, SaleUnanswered,
          RecordBalance, CancelAccepted, CancelRejected, CancelUnanswered, database
<1>2. ASSUME NEW j \in InvoiceId, Remove(j)
      PROVE  invoice'[i] = "DELETED" /\ invoice[i] \in {"PENDING", "FAILED"}
  BY <1>2 DEF Remove, Removable, RealInvoices, RealDocs, IInv, TypeOK
<1>3. invoice' # invoice
  OBVIOUS
<1> QED BY <1>1, <1>2, <1>3
    DEF Next, Start, RegisterBegin, AccrueBegin, RevokeBegin, Begin, RemoveUser,
        ProviderSale, ProviderCancel, Crash, database, vars

(* What was cancelled stays cancelled.                                      *)
LEMMA CancelledGrow == ASSUME [Next]_vars PROVE cancelled \subseteq cancelled'
  BY DEF Next, Start, Continue, RegisterBegin, AccrueBegin, RevokeBegin, Begin,
      Create, Claim, SaleAccepted, SaleRejected, SaleDuplicate, SaleUnanswered,
      MarkCompleted, RecordBalance, MarkFailed, ClaimRevocation, CancelAccepted,
      CancelRejected, CancelUnanswered, MarkRevoked, MarkRevocationFailed, Remove,
      RemoveUser, ProviderSale, ProviderCancel, Crash, provider, vars

(* The books of an invoice, after any step.                                 *)
LEMMA BookedStep ==
  ASSUME ~UsersRemovable, IInv, Told, Booking, [Next]_vars, NEW i \in RealInvoices
  PROVE  Booked(i)'
<1> i \in InvoiceId
  BY DEF RealInvoices
<1> Booked(i) /\ \A r \in Request : Follows(r, i)
  BY DEF Booking
<1>1. \A a \in CompletedAttempts(i) : a \in CompletedAttempts(i)'
  BY CompletedIsKept
<1>2. Unverified(i) => Unverified(i)'
  BY CompletedIsKept DEF Unverified
<1>3. Untouched(i) /\ invoice'[i] # "REVOKING" => Untouched(i)'
  BY UntouchedKept, NoClaim
<1>4. (\E a \in cancelled : accrual[a].invoice = i) =>
        \E a \in cancelled' : accrual'[a].invoice = i
  <2>1. cancelled \subseteq cancelled'
    BY CancelledGrow
  <2>2. \A a \in cancelled : accrual'[a].invoice = accrual[a].invoice
    BY AttemptsAreKept DEF Kept, IInv, Linked, TypeOK
  <2> QED BY <2>1, <2>2
<1>5. CASE invoice'[i] = invoice[i]
  BY <1>1, <1>2, <1>3, <1>4, <1>5 DEF Booked
<1>6. CASE invoice'[i] = "DELETED" /\ invoice[i] \in {"PENDING", "FAILED"}
  BY <1>2, <1>3, <1>6 DEF Booked, Settled
<1>7. ASSUME invoice'[i] # invoice[i], NEW r \in Request, Written(r, i)
      PROVE  Booked(i)'
  <2>1. CASE Create(r) /\ invoice'[i] = "PENDING"
    <3>1. invoice[i] = "UNUSED"
      BY <1>7, <2>1 DEF Create, Invoices, IInv, TypeOK
    <3> QED BY <1>2, <1>3, <2>1, <3>1 DEF Booked, Settled
  <2>2. CASE Claim(r) /\ invoice'[i] = "PROCESSING"
    <3>1. invoice[i] \in {"PENDING", "FAILED"}
      BY <1>7, <2>2 DEF Claim, Claimable, IInv, TypeOK
    <3> QED BY <1>2, <1>3, <2>2, <3>1 DEF Booked, Settled
  <2>3. CASE Claims(r) /\ request[r].invoice = i
    <3>1. invoice[i] = "COMPLETED" /\ invoice'[i] = "REVOKING"
      BY <2>3, NoClaim
    <3> QED BY <1>1, <3>1 DEF Booked, Settled
  <2>4. CASE /\ MarkCompleted(r) \/ MarkFailed(r)
             /\ Moves(r, i)
             /\ invoice'[i] \in {"FAILED", "UNVERIFIED", "COMPLETED"}
             /\ invoice'[i] = "COMPLETED" =>
                    /\ MarkCompleted(r)
                    /\ accrual'[request[r].accrual].status = "COMPLETED"
    <3>1. /\ request[r].step \in {"complete", "fail"}
          /\ Inserted(request[r].accrual)
          /\ accrual[request[r].accrual].invoice = i
      BY <2>4 DEF MarkCompleted, MarkFailed, Moves, IInv, Linked, RequestLinked, AtWork
    <3>2. invoice[i] = "PROCESSING"
      BY <2>4, <3>1 DEF Moves, BothRows, AccrualStatus, Accrues, IInv, Safe, Exclusive
    <3>3. Untouched(i)' \/ Unverified(i)'
      BY <1>2, <1>3, <2>4, <3>2 DEF Booked
    <3>4. invoice'[i] = "COMPLETED" =>
            request[r].accrual \in CompletedAttempts(i)'
      <4>1. accrual'[request[r].accrual].invoice = i
        BY <3>1, AttemptsAreKept DEF Kept, IInv, Inserted
      <4> QED BY <2>4, <3>1, <4>1
              DEF CompletedAttempts, Attempts, AccrualStatus, Inserted
    <3> QED BY <2>4, <3>3, <3>4 DEF Booked, Settled
  <2>5. CASE /\ MarkRevoked(r) \/ MarkRevocationFailed(r)
             /\ Moves(r, i)
             /\ \/ MarkRevoked(r) /\ invoice'[i] = "REVOKED"
                \/ /\ MarkRevocationFailed(r) /\ invoice'[i] = "COMPLETED"
                   /\ (request[r].uncertain =>
                        accrual'[request[r].accrual].revocation = "UNVERIFIED")
    <3>1. /\ request[r].step \in {"revoked", "revocationFail"}
          /\ Inserted(request[r].accrual)
          /\ accrual[request[r].accrual].invoice = i
          /\ Standing(request[r].accrual)
      BY <2>5 DEF MarkRevoked, MarkRevocationFailed, Moves, BothRows, Standing,
         IInv, Linked, RequestLinked, AtWork
    <3>2. Revokes(r, i)
      BY <2>5, <3>1 DEF Moves, Standing, AccrualStatus, Revokes
    <3>3. invoice[i] = "REVOKING"
      BY <3>2 DEF IInv, Safe, Exclusive
    <3>4. CompletedAttempts(i)' # {}
      BY <1>1, <3>3 DEF Booked, Settled
    <3>5. CASE MarkRevoked(r) /\ invoice'[i] = "REVOKED"
      <4>1. request[r].original \in cancelled
            /\ accrual[request[r].original].invoice = i
        BY <2>5, <3>2, <3>5 DEF MarkRevoked, Follows, Moves, Told, Knows, Revoking
      <4> QED BY <1>4, <3>4, <3>5, <4>1 DEF Booked
    <3>6. CASE /\ MarkRevocationFailed(r) /\ invoice'[i] = "COMPLETED"
               /\ (request[r].uncertain =>
                    accrual'[request[r].accrual].revocation = "UNVERIFIED")
      <4>1. CASE request[r].uncertain
        <5>1. accrual[request[r].accrual].status = "COMPLETED"
          BY <3>1, <3>6 DEF MarkRevocationFailed, Told, Knows, Revoking, Real, RealInvoices
        <5>2. request[r].accrual \in CompletedAttempts(i)
          BY <3>1, <5>1 DEF CompletedAttempts, Attempts, Standing, Inserted
        <5> QED BY <1>1, <3>4, <3>6, <4>1, <5>2 DEF Booked, Unverified
      <4>2. CASE ~request[r].uncertain
        <5>1. Untouched(i)
          BY <3>2, <3>6, <4>2 DEF Follows, MarkRevocationFailed
        <5> QED BY <1>3, <3>4, <3>6, <5>1 DEF Booked
      <4> QED BY <4>1, <4>2
    <3> QED BY <2>5, <3>5, <3>6
  <2> QED BY <1>7, <2>1, <2>2, <2>3, <2>4, <2>5 DEF Written
<1> QED BY <1>5, <1>6, <1>7, InvoiceStep

(* A request that does not move follows what it followed, ...               *)
LEMMA FollowsKept ==
  ASSUME IInv, IInv', Told, Booking, [Next]_vars, NEW i \in RealInvoices,
         NEW r \in Request, request'[r] = request[r]
  PROVE  Follows(r, i)'
<1> DEFINE q == request[r]
<1> i \in InvoiceId
  BY DEF RealInvoices
<1> SUFFICES ASSUME Revokes(r, i)' PROVE Follows(r, i)'
  BY DEF Follows
<1>1. q.invoice = i /\ q.step \in Revoking
  BY DEF Revokes, Revoking
<1>2. Inserted(q.accrual) /\ Inserted(q.accrual)'
  BY <1>1, AttemptsAreKept DEF Revoking, Kept, IInv, Linked, RequestLinked, AtWork, Inserted
<1>3. Standing(q.accrual)
  <2>1. accrual'[q.accrual].status \in AccrualStatus
    BY <1>2 DEF Revokes, Inserted, IInv, TypeOK, AccrualRow
  <2>2. \A a \in AccrualId : Fades(a)
    BY AttemptsFade DEF IInv
  <2> QED BY <1>2, <2>1, <2>2 DEF Fades, Inserted, Standing
<1>4. Revokes(r, i)
  BY <1>1, <1>3 DEF Revokes, Revoking, Standing, AccrualStatus
<1>5. Follows(r, i)
  BY DEF Booking
<1>6. \A s \in Request : Claims(s) => request[s].invoice # i
  <2>1. invoice[i] = "REVOKING"
    BY <1>4 DEF IInv, Safe, Exclusive
  <2> QED BY <2>1, NoClaim
<1>7. CASE q.step = "cancel"
  <2>1. \A a \in AccrualId :
          Inserted(a)' /\ accrual'[a].invoice = i /\ Asked(a)' => a = q.original
    BY <1>4, <1>5, <1>6, <1>7, AskedStep DEF Follows
  <2>2. Inserted(q.original) /\ accrual[q.original].invoice = i
    BY <1>1, <1>7 DEF Told, Knows, Revoking
  <2>3. ASSUME q.original \in cancelled', Cancellation(q.original) \in wire'
        PROVE  FALSE
    <3>1. q.original \in cancelled
      BY <2>2, <2>3, CancelledStep DEF Inserted
    <3>2. Cancellation(q.original) \notin wire
      BY <1>4, <1>5, <1>7, <3>1 DEF Follows
    <3>3. PICK s \in Request : Claims(s) /\ request[s].original = q.original
      BY <2>2, <2>3, <3>2, CancellationStep DEF Inserted
    <3>4. accrual[q.original].invoice = request[s].invoice
      BY <3>3 DEF Claims, ClaimRevocation, Told, Knows
    <3> QED BY <1>6, <2>2, <3>3, <3>4
  <2> QED BY <1>7, <2>1, <2>3 DEF Follows, Cancellation
<1>8. CASE q.step = "revoked"
  <2>1. q.original \in cancelled
    BY <1>4, <1>5, <1>8 DEF Follows
  <2> QED BY <1>8, <2>1, CancelledGrow DEF Follows
<1>9. CASE q.step = "revocationFail"
  BY <1>4, <1>5, <1>6, <1>9, UntouchedKept DEF Follows
<1> QED BY <1>1, <1>7, <1>8, <1>9 DEF Revoking

(* ... and the one that moves asks, learns or fails.                        *)
LEMMA FollowsOwn ==
  ASSUME ~DbMayFail, IInv, Told, Booking, NEW i \in RealInvoices,
         NEW r \in Request, Start(r) \/ Continue(r), [Next]_vars
  PROVE  Follows(r, i)'
<1> DEFINE q == request[r]
<1> i \in InvoiceId
  BY DEF RealInvoices
<1> Follows(r, i) /\ Booked(i)
  BY DEF Booking
<1>1. CASE Claims(r) /\ q.invoice = i
  <2>1. Untouched(i)
    BY <1>1, NoClaim DEF Booked
  <2>2. Inserted(q.original) /\ accrual[q.original].invoice = i
    BY <1>1 DEF Claims, ClaimRevocation, Told, Knows
  <2>3. PICK b \in AccrualId :
          /\ request' = [request EXCEPT ![r].step = "cancel", ![r].accrual = b]
          /\ wire' = wire \cup {Cancellation(q.original)}
          /\ UNCHANGED cancelled
    BY <1>1 DEF Claims, ClaimRevocation, Cancellation, Revocable, Latest,
       CompletedAttempts, Attempts
  <2>4. request'[r].step = "cancel" /\ request'[r].original = q.original
    BY <2>3 DEF IInv, TypeOK, RequestState
  <2>5. ASSUME NEW a \in AccrualId, Inserted(a)', accrual'[a].invoice = i, Asked(a)'
        PROVE  a = q.original
    <3>1. Cancellation(a) = Cancellation(q.original) \/ Asked(a)
      BY <2>3, <2>5 DEF Asked
    <3>2. ASSUME Asked(a) PROVE FALSE
      <4>1. Inserted(a)
        BY <3>2 DEF Asked, Cancellation, IInv, Linked, TypeOK
      <4>2. accrual[a].invoice = i
        BY <2>5, <4>1, AttemptsAreKept DEF Kept, IInv
      <4> QED BY <2>1, <3>2, <4>1, <4>2 DEF Untouched
    <3> QED BY <3>1, <3>2 DEF Cancellation
  <2>6. q.original \notin cancelled'
    BY <2>1, <2>2, <2>3 DEF Untouched, Asked, Inserted
  <2> QED BY <2>4, <2>5, <2>6 DEF Follows
<1>2. CASE CancelAccepted(r)
  BY <1>2 DEF CancelAccepted, Goto, Follows, IInv, TypeOK, RequestState
<1>3. CASE CancelRejected(r)
  <2>1. /\ request'[r].step = "revocationFail" /\ q.step = "cancel"
        /\ request'[r].invoice = q.invoice /\ request'[r].accrual = q.accrual
        /\ UNCHANGED <<accrual, cancelled>>
        /\ Cancellation(q.original) \in wire
        /\ wire' = wire \ {Cancellation(q.original)}
    BY <1>3 DEF CancelRejected, CancelCall, Cancellation, Goto, database, IInv,
       TypeOK, RequestState
  <2>2. ASSUME Revokes(r, i)' PROVE Untouched(i)'
    <3>1. Revokes(r, i)
      BY <2>1, <2>2 DEF Revokes
    <3>2. q.original \notin cancelled
      BY <2>1, <3>1 DEF Follows
    <3>3. ASSUME NEW a \in AccrualId, Inserted(a)', accrual'[a].invoice = i, Asked(a)'
          PROVE  FALSE
      <4>1. Inserted(a) /\ accrual[a].invoice = i /\ Asked(a)
        BY <2>1, <3>3 DEF Inserted, Asked
      <4>2. a = q.original
        BY <2>1, <3>1, <4>1 DEF Follows
      <4> QED BY <2>1, <3>2, <3>3, <4>2 DEF Asked
    <3> QED BY <3>3 DEF Untouched
  <2> QED BY <2>1, <2>2 DEF Follows
<1>4. CASE CancelUnanswered(r)
  BY <1>4 DEF CancelUnanswered, Follows, IInv, TypeOK, RequestState
<1>5. CASE MarkRevoked(r) /\ ~Finish(r)
  <2>1. /\ ~BothRows(q.invoice, q.accrual) /\ q.step = "revoked"
        /\ request'[r].invoice = q.invoice /\ request'[r].accrual = q.accrual
        /\ UNCHANGED accrual
    BY <1>5 DEF MarkRevoked, Goto, IInv, TypeOK, RequestState
  <2>2. ASSUME Revokes(r, i)' PROVE FALSE
    <3>1. Revokes(r, i)
      BY <2>1, <2>2 DEF Revokes
    <3>2. invoice[i] = "REVOKING"
      BY <3>1 DEF IInv, Safe, Exclusive
    <3>3. Standing(q.accrual)
      BY <2>1, <3>1 DEF Revokes, Standing, Inserted, IInv, Linked, RequestLinked, AtWork,
         TypeOK, AccrualRow
    <3> QED BY <2>1, <3>1, <3>2, <3>3 DEF Revokes, BothRows, Standing, Row, InvoiceStatus
  <2> QED BY <2>2 DEF Follows
<1>6. CASE Claims(r) /\ q.invoice # i
  <2>1. request'[r].invoice # i
    BY <1>6 DEF Claims, ClaimRevocation, IInv, TypeOK, RequestState
  <2> QED BY <2>1 DEF Follows, Revokes
<1>7. CASE request'[r].step \notin Revoking
  BY <1>7 DEF Follows, Revokes, Revoking
<1>8. Finish(r) => request'[r].step \notin Revoking
  BY DEF Finish, Idle, IInv, TypeOK, Revoking
<1>9. CASE SaleAccepted(r) \/ SaleRejected(r) \/ SaleDuplicate(r) \/ SaleUnanswered(r)
           \/ MarkCompleted(r) \/ RecordBalance(r) \/ Claim(r)
  <2>1. Finish(r) \/ request'[r].step \notin Revoking
    BY <1>9 DEF SaleAccepted, SaleRejected, SaleDuplicate, SaleUnanswered, MarkCompleted,
       RecordBalance, Claim, Goto, Revoking, IInv, TypeOK, RequestState
  <2> QED BY <1>7, <1>8, <2>1
<1>10. CASE Start(r)
  <2>1. request'[r].step \notin Revoking
    BY <1>10 DEF Start, RegisterBegin, AccrueBegin, RevokeBegin, Begin, Idle, IInv,
       TypeOK, Revoking
  <2> QED BY <1>7, <2>1
<1>11. CASE Create(r) \/ MarkFailed(r) \/ MarkRevocationFailed(r)
  BY <1>7, <1>8, <1>11 DEF Create, MarkFailed, MarkRevocationFailed
<1> QED BY <1>1, <1>2, <1>3, <1>4, <1>5, <1>6, <1>7, <1>8, <1>9, <1>10, <1>11
        DEF Continue, Claims

LEMMA FollowsStep ==
  ASSUME ~DbMayFail, IInv, IInv', Told, Booking, [Next]_vars, NEW i \in RealInvoices,
         NEW s \in Request
  PROVE  Follows(s, i)'
<1>1. CASE request'[s] = request[s]
  BY <1>1, FollowsKept
<1>2. CASE request'[s] = Idle
  BY <1>2 DEF Follows, Revokes, Idle
<1>3. ASSUME NEW r \in Request, Start(r) \/ Continue(r), s # r
      PROVE  request'[s] = request[s]
  BY <1>3 DEF Start, Continue, RegisterBegin, AccrueBegin, RevokeBegin, Begin,
       Create, Claim, SaleAccepted, SaleRejected, SaleDuplicate, SaleUnanswered,
       MarkCompleted, RecordBalance, MarkFailed, ClaimRevocation, CancelAccepted,
       CancelRejected, CancelUnanswered, MarkRevoked, MarkRevocationFailed,
       Goto, Finish, IInv, TypeOK
<1>4. CASE Start(s) \/ Continue(s)
  BY <1>4, FollowsOwn
<1> QED BY <1>1, <1>2, <1>3, <1>4
        DEF Next, Remove, RemoveUser, ProviderSale, ProviderCancel, Crash, vars

LEMMA KeepingBooks == ASSUME ~DbMayFail, ~UsersRemovable PROVE Spec => []Booking
<1>1. Init => Booking
  BY DEF Init, Booking, Booked, Follows, Revokes, Untouched, Inserted, UnusedAccrual,
     Idle, Settled, RealInvoices
<1>2. IInv /\ IInv' /\ Told /\ Booking /\ [Next]_vars => Booking'
  BY BookedStep, FollowsStep DEF Booking
<1> QED BY <1>1, <1>2, Inductive, Telling, PTL DEF Spec

(* What the panel shows is what the programme holds: COMPLETED invoices     *)
(* keep their points unless a cancellation is unverified, and the points of *)
(* REVOKED ones went back; if no write fails after the provider answered,   *)
(* and no user is removed, whose attempts would go along.                   *)
THEOREM PanelIsTrue ==
  ASSUME ~DbMayFail, ~UsersRemovable PROVE Spec => []PanelMatchesLedger
<1>1. ASSUME IInv, Told, Booking PROVE PanelMatchesLedger
  <2> SUFFICES ASSUME NEW i \in RealInvoices
               PROVE  LET d == DocOf(i) IN
                      /\ invoice[i] = "COMPLETED" =>
                            \/ CreditsOf(d) \ cancelled # {}
                            \/ \E a \in Attempts(i) : accrual[a].revocation = "UNVERIFIED"
                      /\ invoice[i] = "REVOKED" =>
                            CreditsOf(d) # {} /\ CreditsOf(d) \subseteq cancelled
    BY DEF PanelMatchesLedger
  <2> i \in InvoiceId /\ DocOf(i) \in RealDocs
    BY DEF RealInvoices
  <2>1. Booked(i)
    BY <1>1 DEF Booking
  <2>2. ASSUME NEW a \in AccrualId, Inserted(a), a \in credited, accrual[a].invoice = i
        PROVE  a \in CreditsOf(DocOf(i))
    BY <2>2 DEF CreditsOf, AttemptsOf, Inserted
  <2>3. ASSUME invoice[i] = "COMPLETED"
        PROVE  \/ CreditsOf(DocOf(i)) \ cancelled # {}
               \/ \E a \in Attempts(i) : accrual[a].revocation = "UNVERIFIED"
    <3>1. PICK a \in CompletedAttempts(i) : TRUE
      BY <2>1, <2>3 DEF Booked, Settled
    <3>2. a \in AccrualId /\ Inserted(a) /\ accrual[a].invoice = i /\ a \in credited
      BY <1>1 DEF CompletedAttempts, Attempts, Inserted, AccrualStatus, Told, Tells,
         Standing, Real
    <3>3. a \in CreditsOf(DocOf(i))
      BY <2>2, <3>2
    <3>4. CASE Untouched(i)
      BY <3>2, <3>3, <3>4 DEF Untouched, Asked
    <3>5. CASE Unverified(i)
      BY <3>5 DEF Unverified, CompletedAttempts
    <3> QED BY <2>1, <2>3, <3>4, <3>5 DEF Booked
  <2>4. ASSUME invoice[i] = "REVOKED"
        PROVE  CreditsOf(DocOf(i)) # {} /\ CreditsOf(DocOf(i)) \subseteq cancelled
    <3>1. PICK a \in cancelled : accrual[a].invoice = i
      BY <2>1, <2>4 DEF Booked
    <3>2. a \in AccrualId /\ Inserted(a) /\ a \in credited
      BY <1>1 DEF IInv, TypeOK, Linked
    <3>3. a \in CreditsOf(DocOf(i))
      BY <2>2, <3>1, <3>2
    <3>4. ASSUME NEW b \in CreditsOf(DocOf(i)) PROVE b = a
      BY <1>1, <3>1, <3>2, <3>4 DEF IInv, Safe, SpentOnce, Spent, Real, SameDoc,
         CreditsOf, AttemptsOf
    <3> QED BY <3>3, <3>4
  <2> QED BY <2>3, <2>4
<1> QED BY <1>1, Inductive, Telling, KeepingBooks, PTL
=============================================================================
