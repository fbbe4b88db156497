------------------------------ MODULE Quotations ------------------------------
(***************************************************************************)
(* The quotation of an operation and its document in Siigo.                *)
(*                                                                         *)
(*   apps/api/src/orders/siigo-quotation.service.ts                        *)
(*   apps/api/src/orders/orders.repository.ts  (siigo_quotations)          *)
(*                                                                         *)
(* An operation has one row.  A request computes the fingerprint of the    *)
(* operation, claims the row, builds the document from the operation as it *)
(* is by then, and creates it or, when the row names one, replaces its     *)
(* contents.  The contents of an operation stand for their fingerprint.    *)
(***************************************************************************)
EXTENDS Naturals, FiniteSets, Sequences

CONSTANTS
    Quoter,          \* requests that may be in progress together
    Content,         \* the contents an operation may have
    MaxDocuments,    \* bound: documents in Siigo
    MaxQuoteMishaps  \* bound: restarts, failing writes, late calls

ASSUME QuotationsAssumption ==
    MaxDocuments \in Nat /\ MaxQuoteMishaps \in Nat

VARIABLES
    quoted,        \* the operation: whether it lives, and its contents
    quotation,     \* its row of siigo_quotations
    quoter,        \* where each request is
    documents,     \* the documents that Siigo has for the operation
    lateQuotes,    \* calls given up on that have not reached Siigo yet
    overlap,       \* were two requests ever in charge of the row at once?
    quoteMishaps   \* how many of the mishaps there were

quotationVars ==
    <<quoted, quotation, quoter, documents, lateQuotes, overlap, quoteMishaps>>

NoDocument == 0
DocumentId == 1..MaxDocuments
Unquoted == "unquoted"
QuotationStatus == {"NONE", "SYNCING", "SYNCED", "ERROR"}

Quotation ==
    [status : QuotationStatus, externalId : DocumentId \cup {NoDocument},
     quotedFingerprint : Content \cup {Unquoted}]
(* answered: did the answer that told its identifier reach the CRM?        *)
Document == [content : Content, answered : BOOLEAN]
(* known: the document the row named when the job was read.                *)
QuoteCall == [known : DocumentId \cup {NoDocument}, content : Content]
QuoterState ==
    [at : {"idle"}] \cup
    [at : {"check"}, content : Content] \cup
    [at : {"upsert"}, insert : BOOLEAN] \cup
    [at : {"load", "unsaved"}] \cup
    [at : {"call"}, call : QuoteCall] \cup
    [at : {"save"}, content : Content, id : DocumentId]

NoQuotation ==
    [status |-> "NONE", externalId |-> NoDocument, quotedFingerprint |-> Unquoted]
NotQuoting == [at |-> "idle"]

QuotationsInit ==
    /\ quoted \in [state : {"LIVE"}, content : Content]
    /\ quotation = NoQuotation
    /\ quoter = [r \in Quoter |-> NotQuoting]
    /\ documents = <<>>
    /\ lateQuotes = {}
    /\ overlap = FALSE
    /\ quoteMishaps = 0

QuoterAt(r, state) == quoter' = [quoter EXCEPT ![r] = state]
StopQuoting(r) == QuoterAt(r, NotQuoting)
InCharge(r) == quoter[r].at \in {"load", "call", "save", "unsaved"}
QuoteMishap ==
    /\ quoteMishaps < MaxQuoteMishaps
    /\ quoteMishaps' = quoteMishaps + 1

-----------------------------------------------------------------------------
(* The operation changes under the quotation: edits, webhooks, deletion    *)

EditQuoted(content) ==
    /\ quoted.state # "DELETED"
    /\ quoted' = [quoted EXCEPT !.content = content]
    /\ UNCHANGED <<quotation, quoter, documents, lateQuotes, overlap, quoteMishaps>>

CancelQuoted ==
    /\ quoted.state = "LIVE"
    /\ quoted' = [quoted EXCEPT !.state = "CANCELLED"]
    /\ UNCHANGED <<quotation, quoter, documents, lateQuotes, overlap, quoteMishaps>>

(* The cancelled operation of a store is taken up again.                   *)
ReopenQuoted ==
    /\ quoted.state = "CANCELLED"
    /\ quoted' = [quoted EXCEPT !.state = "LIVE"]
    /\ UNCHANGED <<quotation, quoter, documents, lateQuotes, overlap, quoteMishaps>>

(* Its row goes with it.                                                   *)
DeleteQuoted ==
    /\ quoted.state # "DELETED"
    /\ quoted' = [quoted EXCEPT !.state = "DELETED"]
    /\ quotation' = NoQuotation
    /\ UNCHANGED <<quoter, documents, lateQuotes, overlap, quoteMishaps>>

-----------------------------------------------------------------------------
(* claim                                                                   *)

(* The fingerprint is computed before the transaction of the claim.        *)
ReadQuoted(r) ==
    /\ quoter[r] = NotQuoting
    /\ quoted.state # "DELETED"
    /\ QuoterAt(r, [at |-> "check", content |-> quoted.content])
    /\ UNCHANGED <<quoted, quotation, documents, lateQuotes, overlap, quoteMishaps>>

AlreadySynced(content) ==
    /\ quotation.externalId # NoDocument
    /\ quotation.quotedFingerprint = content

MayClaimQuotation(content) ==
    /\ quoted.state = "LIVE"
    /\ quotation.status # "SYNCING"
    /\ ~AlreadySynced(content)

(* The transaction reads without a lock, and writes what it decided.       *)
CheckQuotation(r) ==
    /\ quoter[r].at = "check"
    /\ IF MayClaimQuotation(quoter[r].content)
       THEN QuoterAt(r, [at |-> "upsert", insert |-> quotation.status = "NONE"])
       ELSE StopQuoting(r)
    /\ UNCHANGED <<quoted, quotation, documents, lateQuotes, overlap, quoteMishaps>>

(* A row that was there is updated whatever it has become; the insertion   *)
(* of a second one violates its key, and the operation may be gone.        *)
Upsertable(r) ==
    /\ quoted.state # "DELETED"
    /\ quoter[r].insert => quotation.status = "NONE"

UpsertQuotation(r) ==
    /\ quoter[r].at = "upsert"
    /\ Upsertable(r)
    /\ quotation' = [quotation EXCEPT !.status = "SYNCING"]
    /\ overlap' = (overlap \/ \E o \in Quoter : InCharge(o))
    /\ QuoterAt(r, [at |-> "load"])
    /\ UNCHANGED <<quoted, documents, lateQuotes, quoteMishaps>>

UpsertRefused(r) ==
    /\ quoter[r].at = "upsert"
    /\ ~Upsertable(r)
    /\ StopQuoting(r)
    /\ UNCHANGED <<quoted, quotation, documents, lateQuotes, overlap, quoteMishaps>>

-----------------------------------------------------------------------------
(* synchronize                                                             *)

(* The identifier is not looked at: every quotation is a new document.     *)
SlipKnownDocument == NoDocument

KnownDocument == quotation.externalId

(* Operation and row are read together, while the row is SYNCING.          *)
LoadQuotationJob(r) ==
    /\ quoter[r].at = "load"
    /\ IF quotation.status = "SYNCING"
       THEN QuoterAt(r, [at |-> "call", call |->
                [known |-> KnownDocument, content |-> quoted.content]])
       ELSE StopQuoting(r)
    /\ UNCHANGED <<quoted, quotation, documents, lateQuotes, overlap, quoteMishaps>>

(* Siigo creates a document, or replaces the contents of the known one.    *)
SiigoDoes(call, answered, id) ==
    IF call.known = NoDocument
    THEN /\ Len(documents) < MaxDocuments
         /\ id = Len(documents) + 1
         /\ documents' = Append(documents,
                [content |-> call.content, answered |-> answered])
    ELSE /\ id = call.known
         /\ documents' = [documents EXCEPT ![id].content = call.content]

SiigoAnswers(r) ==
    /\ quoter[r].at = "call"
    /\ \E id \in DocumentId :
        /\ SiigoDoes(quoter[r].call, TRUE, id)
        /\ QuoterAt(r, [at |-> "save",
                content |-> quoter[r].call.content, id |-> id])
    /\ UNCHANGED <<quoted, quotation, lateQuotes, overlap, quoteMishaps>>

(* The row stays as it is: the catch does not mark the error.              *)
SlipMarkQuotationError == UNCHANGED quotation

MarkQuotationError ==
    quotation' = IF quotation.status = "SYNCING"
                 THEN [quotation EXCEPT !.status = "ERROR"] ELSE quotation

(* The operation cannot be quoted, there is no exchange rate, no seller,   *)
(* or Siigo refuses.                                                       *)
QuoteFails(r) ==
    /\ quoter[r].at = "call"
    /\ MarkQuotationError
    /\ StopQuoting(r)
    /\ UNCHANGED <<quoted, documents, lateQuotes, overlap, quoteMishaps>>

QuoteAnswerLost(r) ==
    /\ quoter[r].at = "call"
    /\ \E id \in DocumentId : SiigoDoes(quoter[r].call, FALSE, id)
    /\ MarkQuotationError
    /\ StopQuoting(r)
    /\ UNCHANGED <<quoted, lateQuotes, overlap, quoteMishaps>>

QuoteTimesOut(r) ==
    /\ quoter[r].at = "call"
    /\ QuoteMishap
    /\ lateQuotes' = lateQuotes \cup {quoter[r].call}
    /\ MarkQuotationError
    /\ StopQuoting(r)
    /\ UNCHANGED <<quoted, documents, overlap>>

LateQuoteArrives(call) ==
    /\ call \in lateQuotes
    /\ lateQuotes' = lateQuotes \ {call}
    /\ \E id \in DocumentId : SiigoDoes(call, FALSE, id)
    /\ UNCHANGED <<quoted, quotation, quoter, overlap, quoteMishaps>>

(* The fingerprint saved is the one of the operation as it is now.         *)
SlipSavedQuotation(r) ==
    [status |-> "SYNCED", externalId |-> quoter[r].id,
     quotedFingerprint |-> quoted.content]

SavedQuotation(r) ==
    [status |-> "SYNCED", externalId |-> quoter[r].id,
     quotedFingerprint |-> quoter[r].content]

(* Only a row that is SYNCING takes the result.                            *)
SaveQuotation(r) ==
    /\ quoter[r].at = "save"
    /\ IF quotation.status = "SYNCING"
       THEN quotation' = SavedQuotation(r) /\ StopQuoting(r)
       ELSE UNCHANGED quotation /\ QuoterAt(r, [at |-> "unsaved"])
    /\ UNCHANGED <<quoted, documents, lateQuotes, overlap, quoteMishaps>>

(* Nothing took the result: the error is marked, if the row is SYNCING by  *)
(* then.                                                                   *)
QuotationUnconfirmed(r) ==
    /\ quoter[r].at = "unsaved"
    /\ MarkQuotationError
    /\ StopQuoting(r)
    /\ UNCHANGED <<quoted, documents, lateQuotes, overlap, quoteMishaps>>

(* The write fails, and the catch marks the error, or fails too.           *)
SaveQuotationFails(r) ==
    /\ quoter[r].at = "save"
    /\ QuoteMishap
    /\ MarkQuotationError \/ UNCHANGED quotation
    /\ StopQuoting(r)
    /\ UNCHANGED <<quoted, documents, lateQuotes, overlap>>

(* The process restarts; a call on its way may still arrive.               *)
QuotationsRestart ==
    /\ QuoteMishap
    /\ quoter' = [r \in Quoter |-> NotQuoting]
    /\ \E calls \in SUBSET {quoter[r].call : r \in
                            {q \in Quoter : quoter[q].at = "call"}} :
            lateQuotes' = lateQuotes \cup calls
    /\ UNCHANGED <<quoted, quotation, documents, overlap>>

QuoterStep(r) ==
    \/ CheckQuotation(r) \/ UpsertQuotation(r) \/ UpsertRefused(r)
    \/ LoadQuotationJob(r) \/ SiigoAnswers(r) \/ QuoteFails(r)
    \/ QuoteAnswerLost(r) \/ QuoteTimesOut(r)
    \/ SaveQuotation(r) \/ QuotationUnconfirmed(r) \/ SaveQuotationFails(r)

QuotationsNext ==
    \/ \E content \in Content : EditQuoted(content)
    \/ CancelQuoted \/ ReopenQuoted
    \/ DeleteQuoted
    \/ \E r \in Quoter : ReadQuoted(r) \/ QuoterStep(r)
    \/ \E call \in lateQuotes : LateQuoteArrives(call)
    \/ QuotationsRestart

QuotationsSpec == QuotationsInit /\ [][QuotationsNext]_quotationVars
(* Every wait of a request has a time limit.                               *)
QuotationsFairness == \A r \in Quoter : WF_quotationVars(QuoterStep(r))
QuotationsFairSpec == QuotationsSpec /\ QuotationsFairness

-----------------------------------------------------------------------------
(* Properties                                                              *)

(* The row, the requests and the documents have the declared shapes, and a *)
(* deleted operation has no row.                                           *)
QuotationsTypeOK ==
    /\ quoted \in [state : {"LIVE", "CANCELLED", "DELETED"}, content : Content]
    /\ quotation \in Quotation
    /\ quoted.state = "DELETED" => quotation = NoQuotation
    /\ quoter \in [Quoter -> QuoterState]
    /\ documents \in Seq(Document) /\ Len(documents) <= MaxDocuments
    /\ lateQuotes \subseteq QuoteCall
    /\ overlap \in BOOLEAN
    /\ quoteMishaps \in 0..MaxQuoteMishaps

(* What the panel shows as quoted is what Siigo has, although the          *)
(* operation is edited between claim, job and answer: unless two requests  *)
(* worked at once, or a call comes late.                                   *)
Undisturbed == ~overlap /\ quoteMishaps = 0
QuotedIsTrue ==
    quotation.status = "SYNCED" =>
        /\ quotation.externalId \in 1..Len(documents)
        /\ Undisturbed => documents[quotation.externalId].content
                                = quotation.quotedFingerprint

(* A second document whose identifier the CRM got exists only because two  *)
(* requests worked at once or a write failed: whoever claims a row that    *)
(* names a document replaces its contents.                                 *)
Answered == {d \in 1..Len(documents) : documents[d].answered}
NoSecondDocument == Undisturbed => Cardinality(Answered) <= 1

(* Why these hold: every identifier that the row, a request or a late call *)
(* has is one of Siigo's; ...                                              *)
Given(id) == id \in 0..Len(documents)
GivenIds ==
    /\ Given(quotation.externalId)
    /\ quotation.status = "SYNCED" => quotation.externalId # NoDocument
    /\ \A r \in Quoter :
        /\ quoter[r].at = "call" => Given(quoter[r].call.known)
        /\ quoter[r].at = "save" => Given(quoter[r].id)
    /\ \A call \in lateQuotes : Given(call.known)

(* ... the one request in charge keeps the row SYNCING, unless the         *)
(* operation is deleted, and follows the document that the row names; ...  *)
OneInCharge ==
    /\ \A r, o \in Quoter : InCharge(r) /\ InCharge(o) => r = o
    /\ \A r \in Quoter : InCharge(r) /\ quoted.state # "DELETED" =>
        /\ quotation.status = "SYNCING"
        /\ quoter[r].at = "call" => quoter[r].call.known = quotation.externalId
        /\ quoter[r].at = "save" => quotation.externalId \in {NoDocument, quoter[r].id}

(* ... and what was written is there.                                      *)
WrittenIsThere ==
    /\ quotation.status = "SYNCED" =>
        documents[quotation.externalId].content = quotation.quotedFingerprint
    /\ \A r \in Quoter :
        quoter[r].at = "save" => documents[quoter[r].id].content = quoter[r].content
OneAnswered ==
    /\ \A c, d \in Answered : c = d
    /\ \A d \in Answered :
        \/ quoted.state = "DELETED"
        \/ quotation.externalId = d
        \/ \E r \in Quoter : quoter[r].at = "save" /\ quoter[r].id = d
    /\ \A r \in Quoter : quoter[r].at = "call" /\ quoter[r].call.known = NoDocument
        => Answered = {}
QuotationsIInv ==
    /\ QuotationsTypeOK
    /\ GivenIds
    /\ Undisturbed => lateQuotes = {} /\ OneInCharge /\ WrittenIsThere /\ OneAnswered

(* A claimed row does not stay claimed, unless the process restarts or a   *)
(* write fails.                                                            *)
QuotingEnds ==
    quotation.status = "SYNCING" ~>
        quotation.status # "SYNCING" \/ quoteMishaps > 0

(* A request for contents that the row names as quoted is not sent, since  *)
(* the document has them (violated: the answer of an update is lost, the   *)
(* row keeps the old fingerprint, and the operation is edited back).       *)
WhatIsQuotedIsThere ==
    /\ AlreadySynced(quoted.content)
    /\ ~overlap
    /\ \A r \in Quoter : ~InCharge(r)
    => documents[quotation.externalId].content = quoted.content
=============================================================================
