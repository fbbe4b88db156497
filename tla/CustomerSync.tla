----------------------------- MODULE CustomerSync -----------------------------
(***************************************************************************)
(* A customer and its publication in Siigo and in the WooCommerce stores.  *)
(*                                                                         *)
(*   apps/api/src/customers/customer-integration.service.ts                *)
(*   apps/api/src/customers/customer-integrations.repository.ts            *)
(*   apps/api/src/customers/customers.service.ts  (update, sync, remove)   *)
(*   apps/api/src/customers/integrations/         (what is sent)           *)
(*                                                                         *)
(* A request reads the customer and enters the queue of each provider: it  *)
(* joins the last job of the queue when that sends the same data, and      *)
(* waits behind it otherwise.  A job finds or creates the customer there,  *)
(* updates it, and records how it went.  Every version of the data has an  *)
(* e-mail of its own, by which WooCommerce knows a customer; Siigo knows   *)
(* it by the document, which does not change.                              *)
(***************************************************************************)
EXTENDS Naturals, Sequences, FiniteSets

CONSTANTS
    Provider,          \* where the customer is published
    Retailer,          \* those of them that are WooCommerce stores
    Ficha,             \* versions of the customer's data
    Syncer,            \* requests that may be in progress together
    Nobody,            \* no request
    MaxPeople,         \* bound: customers each provider ever has
    MaxEdits,          \* bound: edits of the customer
    MaxSyncMishaps     \* bound: restarts, failing writes, lost or late answers

ASSUME CustomersAssumption ==
    /\ Retailer \subseteq Provider
    /\ Nobody \notin Syncer
    /\ "removed" \notin Ficha
    /\ {MaxPeople, MaxEdits, MaxSyncMishaps} \subseteq Nat

VARIABLES
    ficha,        \* the customer's data, and whether it was deleted
    link,         \* its rows of customer_integrations
    syncer,       \* the customer as each request read it
    job,          \* the job of each request at each provider
    inFlight,     \* the request whose job is the last of the queue
    remover,      \* the request that deletes the customer
    people,       \* the customers of each provider; data "removed" if deleted
    lateCalls,    \* calls given up on that have not been processed yet
    uncertain,    \* providers where a version may come after a newer one
    edits,        \* how many edits there were
    syncMishaps   \* how many of the mishaps there were

customerVars == <<ficha, link, syncer, job, inFlight, remover, people,
                  lateCalls, uncertain, edits, syncMishaps>>

PersonId == 0..MaxPeople      \* 0: no identifier
LinkRow == [status : {"PENDING", "SYNCED", "ERROR", "GONE"}, id : PersonId]
Snapshot == [data : Ficha, ids : [Provider -> PersonId]]
Reader == [at : {"idle", "work"}] \cup
          [at : {"read"}, wants : SUBSET Provider, seen : Snapshot]
Call == [at : {"find", "create", "failed"}, data : Ficha] \cup
        [at : {"remember", "update", "synced"}, data : Ficha, id : PersonId]
SyncJob ==
    [at : {"none"}] \cup Call \cup
    [at : {"joined"}, with : Syncer] \cup
    [at : {"queued"}, data : Ficha, id : PersonId, after : Syncer] \cup
    [at : {"start"}, data : Ficha, id : PersonId]
Remover == [at : {"idle"}] \cup
           [at : {"stores"}, left : SUBSET Retailer, ids : [Provider -> PersonId]]
LateCall == [provider : Provider, data : Ficha \cup {"removed"}, id : PersonId]

Resting == [at |-> "idle"]
NoJob == [at |-> "none"]
GoneRow == [status |-> "GONE", id |-> 0]

CustomersInit ==
    /\ ficha \in [data : Ficha, deleted : {FALSE}]
    /\ link = [p \in Provider |-> [status |-> "PENDING", id |-> 0]]
    /\ syncer = [r \in Syncer |-> Resting]
    /\ job = [r \in Syncer |-> [p \in Provider |-> NoJob]]
    /\ inFlight = [p \in Provider |-> Nobody]
    /\ remover = Resting
    /\ people = [p \in Provider |-> << >>]
    /\ lateCalls = {}
    /\ uncertain = {}
    /\ edits = 0
    /\ syncMishaps = 0

ids == [p \in Provider |-> link[p].id]
JobAtStep(r, p, state) == job' = [job EXCEPT ![r][p] = state]
FailedJob(r, p) == [at |-> "failed", data |-> job[r][p].data]
SyncMishap ==
    /\ syncMishaps < MaxSyncMishaps
    /\ syncMishaps' = syncMishaps + 1
BusyProviders == {p \in Provider : \E r \in Syncer : job[r][p].at # "none"}
Awaited == {p \in Provider : \E r \in Syncer :
                syncer[r].at = "read" /\ p \in syncer[r].wants}

Queues(r, p) == job[r][p].at \notin {"none", "joined"}

(* All that is on its way to a provider is the present version.            *)
NothingOlder(p) ==
    /\ \A c \in lateCalls : c.provider = p => c.data = ficha.data
    /\ \A r \in Syncer :
        /\ syncer[r].at = "read" /\ p \in syncer[r].wants => syncer[r].seen.data = ficha.data
        /\ Queues(r, p) => job[r][p].data = ficha.data

-----------------------------------------------------------------------------
(* The customer                                                            *)

(* An edit saves the data and puts every row back to PENDING.  Requests    *)
(* that already read the customer still send what they read.               *)
SlipEditedRow(row) == row
EditedRow(row) == [row EXCEPT !.status = "PENDING"]

EditCustomer(data) ==
    /\ ~ficha.deleted /\ edits < MaxEdits /\ data # ficha.data
    /\ edits' = edits + 1
    /\ ficha' = [ficha EXCEPT !.data = data]
    /\ link' = [p \in Provider |-> EditedRow(link[p])]
    /\ uncertain' = BusyProviders \cup Awaited \cup {c.provider : c \in lateCalls}
    /\ UNCHANGED <<syncer, job, inFlight, remover, people, lateCalls, syncMishaps>>

(* n8n links a customer that registered in a store by itself: the row says *)
(* SYNCED, whatever the data there.                                        *)
LinkCustomer(p) ==
    /\ ~ficha.deleted /\ p \in Retailer
    /\ SyncMishap
    /\ \E i \in DOMAIN people[p] :
        /\ people[p][i] # "removed"
        /\ link' = [link EXCEPT ![p] = [status |-> "SYNCED", id |-> i]]
    /\ uncertain' = uncertain \cup {p}
    /\ UNCHANGED <<ficha, syncer, job, inFlight, remover, people, lateCalls, edits>>

(* The deletion reads the customer and asks each store that it is linked   *)
(* to; the first failure keeps the customer, with all its rows.            *)
BeginRemoval ==
    /\ remover = Resting /\ ~ficha.deleted
    /\ remover' = [at |-> "stores", ids |-> ids,
                   left |-> {p \in Retailer : link[p].id # 0}]
    /\ UNCHANGED <<ficha, link, syncer, job, inFlight, people, lateCalls,
                   uncertain, edits, syncMishaps>>

RemoveFromStore(p) ==
    /\ remover.at = "stores" /\ p \in remover.left
    /\ people' = [people EXCEPT ![p][remover.ids[p]] = "removed"]
    /\ remover' = [remover EXCEPT !.left = @ \ {p}]
    /\ uncertain' = uncertain \cup {p}
    /\ UNCHANGED <<ficha, link, syncer, job, inFlight, lateCalls, edits, syncMishaps>>

(* The store did not delete the customer, did so unheard, or will.         *)
Deletion(p) == [provider |-> p, data |-> "removed", id |-> remover.ids[p]]
RemovalAborted(p) ==
    /\ remover.at = "stores" /\ p \in remover.left
    /\ remover' = Resting
    /\ \/ UNCHANGED <<people, lateCalls, uncertain, syncMishaps>>
       \/ /\ SyncMishap
          /\ people' = [people EXCEPT ![p][remover.ids[p]] = "removed"]
          /\ uncertain' = uncertain \cup {p}
          /\ UNCHANGED lateCalls
       \/ /\ SyncMishap
          /\ lateCalls' = lateCalls \cup {Deletion(p)}
          /\ uncertain' = uncertain \cup {p}
          /\ UNCHANGED people
    /\ UNCHANGED <<ficha, link, syncer, job, inFlight, edits>>

(* An order that came meanwhile keeps the customer too.                    *)
RemovalRefused ==
    /\ remover.at = "stores" /\ remover.left = {}
    /\ remover' = Resting
    /\ UNCHANGED <<ficha, link, syncer, job, inFlight, people, lateCalls,
                   uncertain, edits, syncMishaps>>

DeleteCustomer ==
    /\ remover.at = "stores" /\ remover.left = {}
    /\ ficha' = [ficha EXCEPT !.deleted = TRUE]
    /\ link' = [p \in Provider |-> GoneRow]
    /\ remover' = Resting
    /\ UNCHANGED <<syncer, job, inFlight, people, lateCalls, uncertain,
                   edits, syncMishaps>>

-----------------------------------------------------------------------------
(* The queues                                                              *)

(* A request reads the customer.  It is for one provider, or for all those *)
(* that are not SYNCED.                                                    *)
AskSync(r) ==
    /\ syncer[r].at = "idle" /\ ~ficha.deleted
    /\ \E wants \in {{p} : p \in Provider} \cup
                    {{p \in Provider : link[p].status # "SYNCED"}} :
        /\ wants # {}
        /\ syncer' = [syncer EXCEPT ![r] =
                [at |-> "read", wants |-> wants,
                 seen |-> [data |-> ficha.data, ids |-> ids]]]
    /\ UNCHANGED <<ficha, link, job, inFlight, remover, people, lateCalls,
                   uncertain, edits, syncMishaps>>

(* Two users send Siigo different sellers: their data differ even so.      *)
SameData(r, p, same) ==
    /\ inFlight[p] # Nobody
    /\ job[inFlight[p]][p].data = syncer[r].seen.data
    /\ p \in Retailer \/ same

Enter(r, p, same) ==
    LET seen == syncer[r].seen
        mine == [data |-> seen.data, id |-> seen.ids[p]]
    IN  IF SameData(r, p, same) THEN [at |-> "joined", with |-> inFlight[p]]
        ELSE IF inFlight[p] = Nobody
             THEN [at |-> "start", data |-> mine.data, id |-> mine.id]
             ELSE [at |-> "queued", data |-> mine.data, id |-> mine.id,
                   after |-> inFlight[p]]

EnterQueues(r) ==
    /\ syncer[r].at = "read"
    /\ \E same \in BOOLEAN :
        /\ job' = [job EXCEPT ![r] = [p \in Provider |->
                IF p \in syncer[r].wants THEN Enter(r, p, same) ELSE NoJob]]
        /\ inFlight' = [p \in Provider |->
                IF p \in syncer[r].wants /\ ~SameData(r, p, same)
                THEN r ELSE inFlight[p]]
    /\ syncer' = [syncer EXCEPT ![r] = [at |-> "work"]]
    /\ UNCHANGED <<ficha, link, remover, people, lateCalls, uncertain,
                   edits, syncMishaps>>

(* When a job ends, so do the requests that joined it; the next one of the *)
(* queue starts, and the last one leaves the queue empty.                  *)
SlipFollowing(q, r, p) == IF q = r THEN NoJob ELSE job[q][p]
Following(q, r, p) ==
    LET its == job[q][p] IN
    CASE q = r -> NoJob
      [] its.at = "joined" /\ its.with = r -> NoJob
      [] its.at = "queued" /\ its.after = r ->
            [at |-> "start", data |-> its.data, id |-> its.id]
      [] OTHER -> its
SlipReleased(r, p) == Nobody
Released(r, p) == IF inFlight[p] = r THEN Nobody ELSE inFlight[p]
JobEnds(r, p) ==
    /\ job' = [q \in Syncer |-> [job[q] EXCEPT ![p] = Following(q, r, p)]]
    /\ inFlight' = [inFlight EXCEPT ![p] = Released(r, p)]

(* The request is answered when all its jobs have ended.                   *)
SyncAnswered(r) ==
    /\ syncer[r].at = "work" /\ job[r] = [p \in Provider |-> NoJob]
    /\ syncer' = [syncer EXCEPT ![r] = Resting]
    /\ UNCHANGED <<ficha, link, job, inFlight, remover, people, lateCalls,
                   uncertain, edits, syncMishaps>>

-----------------------------------------------------------------------------
(* A job                                                                   *)

(* Without the customer, or if the write fails, the job ends in error and  *)
(* no row says so.                                                         *)
MarkPending(r, p) ==
    /\ job[r][p].at = "start"
    /\ ~ficha.deleted
    /\ link' = [link EXCEPT ![p].status = "PENDING"]
    /\ JobAtStep(r, p,
            IF job[r][p].id = 0 THEN [at |-> "find", data |-> job[r][p].data]
            ELSE [at |-> "update", data |-> job[r][p].data, id |-> job[r][p].id])
    /\ UNCHANGED <<ficha, syncer, inFlight, remover, people, lateCalls,
                   uncertain, edits, syncMishaps>>

MarkPendingFails(r, p) ==
    /\ job[r][p].at = "start"
    /\ \/ ficha.deleted /\ UNCHANGED syncMishaps
       \/ SyncMishap
    /\ JobEnds(r, p)
    /\ UNCHANGED <<ficha, link, syncer, remover, people, lateCalls, uncertain, edits>>

(* The customers that a provider takes for the one with these data.        *)
KnownAs(p, data) ==
    {i \in DOMAIN people[p] :
        people[p][i] # "removed" /\ (p \in Retailer => people[p][i] = data)}

FindCustomer(r, p) ==
    /\ job[r][p].at = "find"
    /\ LET data == job[r][p].data
           known == KnownAs(p, data) IN
       JobAtStep(r, p,
            IF known = {} THEN [at |-> "create", data |-> data]
            ELSE IF Cardinality(known) > 1 THEN [at |-> "failed", data |-> data]
            ELSE [at |-> "remember", data |-> data, id |-> CHOOSE i \in known : TRUE])
    /\ UNCHANGED <<ficha, link, syncer, inFlight, remover, people, lateCalls,
                   uncertain, edits, syncMishaps>>

(* The identifier found is saved before the customer is updated there.     *)
RememberExternalId(r, p) ==
    /\ job[r][p].at = "remember" /\ ~ficha.deleted
    /\ link' = [link EXCEPT ![p].id = job[r][p].id]
    /\ JobAtStep(r, p, [job[r][p] EXCEPT !.at = "update"])
    /\ UNCHANGED <<ficha, syncer, inFlight, remover, people, lateCalls,
                   uncertain, edits, syncMishaps>>

(* A provider accepts a customer nobody else there is taken for.           *)
Accepts(p, call) ==
    IF call.at = "create"
    THEN KnownAs(p, call.data) = {} /\ Len(people[p]) < MaxPeople
    ELSE /\ people[p][call.id] # "removed"
         /\ KnownAs(p, call.data) \subseteq {call.id}
Carried(p, call) ==
    IF call.at = "create" THEN Append(people[p], call.data)
    ELSE [people[p] EXCEPT ![call.id] = call.data]
IdOf(p, call) == IF call.at = "create" THEN Len(people[p]) + 1 ELSE call.id

Calling(r, p) == job[r][p].at \in {"create", "update"}

(* The present version is there for good if nothing older is on its way.   *)
ProviderAccepts(r, p) ==
    /\ Calling(r, p) /\ Accepts(p, job[r][p])
    /\ people' = [people EXCEPT ![p] = Carried(p, job[r][p])]
    /\ JobAtStep(r, p, [at |-> "synced", data |-> job[r][p].data,
                        id |-> IdOf(p, job[r][p])])
    /\ uncertain' = IF NothingOlder(p) /\ link[p].status # "SYNCED"
                    THEN uncertain \ {p} ELSE uncertain
    /\ UNCHANGED <<ficha, link, syncer, inFlight, remover, lateCalls, edits,
                   syncMishaps>>

(* It refuses the data, fails, or is not asked: a search or a write of the *)
(* identifier may fail before.                                             *)
ProviderRefuses(r, p) ==
    /\ job[r][p].at \in {"find", "remember", "create", "update"}
    /\ JobAtStep(r, p, FailedJob(r, p))
    /\ UNCHANGED <<ficha, link, syncer, inFlight, remover, people, lateCalls,
                   uncertain, edits, syncMishaps>>

(* The answer is lost after the provider did what it was asked, or before. *)
(* An update is asked again, a creation is not.  (A repeated deletion adds *)
(* nothing: what is deleted stays so.)                                     *)
OnItsWay(r, p) ==
    [provider |-> p, data |-> job[r][p].data,
     id |-> IF job[r][p].at = "create" THEN 0 ELSE job[r][p].id]
AnswerIsLost(r, p) ==
    /\ Calling(r, p) /\ SyncMishap
    /\ \/ /\ Accepts(p, job[r][p])
          /\ people' = [people EXCEPT ![p] = Carried(p, job[r][p])]
          /\ UNCHANGED lateCalls
       \/ /\ lateCalls' = lateCalls \cup {OnItsWay(r, p)}
          /\ UNCHANGED people
    /\ \/ JobAtStep(r, p, FailedJob(r, p))
       \/ job[r][p].at = "update" /\ UNCHANGED job
    /\ UNCHANGED <<ficha, link, syncer, inFlight, remover, uncertain, edits>>

LateCallArrives(c) ==
    LET call == [at |-> IF c.id = 0 THEN "create" ELSE "update",
                 data |-> c.data, id |-> c.id]
        accepted == c.data = "removed" \/ Accepts(c.provider, call)
    IN  /\ c \in lateCalls
        /\ lateCalls' = lateCalls \ {c}
        /\ people' = [people EXCEPT ![c.provider] =
                IF accepted THEN Carried(c.provider, call) ELSE @]
        /\ UNCHANGED <<ficha, link, syncer, job, inFlight, remover, uncertain,
                       edits, syncMishaps>>

(* The answer gives the identifier that the row keeps.                     *)
MarkSynced(r, p) ==
    /\ job[r][p].at = "synced" /\ ~ficha.deleted
    /\ link' = [link EXCEPT ![p] = [status |-> "SYNCED", id |-> job[r][p].id]]
    /\ JobEnds(r, p)
    /\ UNCHANGED <<ficha, syncer, remover, people, lateCalls, uncertain,
                   edits, syncMishaps>>

MarkSyncedFails(r, p) ==
    /\ job[r][p].at = "synced"
    /\ \/ ficha.deleted /\ UNCHANGED syncMishaps
       \/ SyncMishap
    /\ JobAtStep(r, p, FailedJob(r, p))
    /\ UNCHANGED <<ficha, link, syncer, inFlight, remover, people, lateCalls,
                   uncertain, edits>>

(* The error is recorded; if the row is gone or the write fails, only the  *)
(* request hears of it.                                                    *)
MarkSyncError(r, p) ==
    /\ job[r][p].at = "failed"
    /\ \/ /\ ~ficha.deleted
          /\ link' = [link EXCEPT ![p].status = "ERROR"]
          /\ UNCHANGED syncMishaps
       \/ ficha.deleted /\ UNCHANGED <<link, syncMishaps>>
       \/ ~ficha.deleted /\ SyncMishap /\ UNCHANGED link
    /\ JobEnds(r, p)
    /\ UNCHANGED <<ficha, syncer, remover, people, lateCalls, uncertain, edits>>

(* A restart ends every request; the rows stay as they are.  A job that    *)
(* was about to call a provider may have done so, and the deletion may     *)
(* have asked one of the stores: those calls arrive later, or never.       *)
Deletable == IF remover.at = "stores" THEN remover.left ELSE {}
CustomersRestart ==
    /\ SyncMishap
    /\ \E sent \in SUBSET {call \in Syncer \X Provider : Calling(call[1], call[2])},
          asked \in {{}} \cup {{p} : p \in Deletable} :
        /\ lateCalls' = lateCalls \cup {OnItsWay(call[1], call[2]) : call \in sent}
                                  \cup {Deletion(p) : p \in asked}
        /\ uncertain' = uncertain \cup asked
    /\ syncer' = [r \in Syncer |-> Resting]
    /\ job' = [r \in Syncer |-> [p \in Provider |-> NoJob]]
    /\ inFlight' = [p \in Provider |-> Nobody]
    /\ remover' = Resting
    /\ UNCHANGED <<ficha, link, people, edits>>

-----------------------------------------------------------------------------
SyncJobStep(r, p) ==
    \/ MarkPending(r, p) \/ MarkPendingFails(r, p)
    \/ FindCustomer(r, p) \/ RememberExternalId(r, p)
    \/ ProviderAccepts(r, p) \/ ProviderRefuses(r, p) \/ AnswerIsLost(r, p)
    \/ MarkSynced(r, p) \/ MarkSyncedFails(r, p) \/ MarkSyncError(r, p)
SyncerStep(r) == EnterQueues(r) \/ SyncAnswered(r)
RemoverStep ==
    \/ \E p \in Retailer : RemoveFromStore(p) \/ RemovalAborted(p)
    \/ RemovalRefused \/ DeleteCustomer

CustomersNext ==
    \/ \E data \in Ficha : EditCustomer(data)
    \/ \E p \in Provider : LinkCustomer(p)
    \/ BeginRemoval \/ RemoverStep
    \/ \E r \in Syncer : AskSync(r) \/ SyncerStep(r)
    \/ \E r \in Syncer, p \in Provider : SyncJobStep(r, p)
    \/ \E c \in lateCalls : LateCallArrives(c)
    \/ CustomersRestart

CustomersSpec ==
    /\ CustomersInit /\ [][CustomersNext]_customerVars
    /\ \A r \in Syncer : WF_customerVars(SyncerStep(r))
    /\ \A r \in Syncer, p \in Provider : WF_customerVars(SyncJobStep(r, p))

-----------------------------------------------------------------------------
CustomersTypeOK ==
    /\ ficha \in [data : Ficha, deleted : BOOLEAN]
    /\ link \in [Provider -> LinkRow]
    /\ \A p \in Provider : ficha.deleted <=> link[p] = GoneRow
    /\ syncer \in [Syncer -> Reader]
    /\ job \in [Syncer -> [Provider -> SyncJob]]
    /\ inFlight \in [Provider -> Syncer \cup {Nobody}]
    /\ remover \in Remover
    /\ people \in [Provider -> Seq(Ficha \cup {"removed"})]
    /\ \A p \in Provider : Len(people[p]) <= MaxPeople
    /\ lateCalls \subseteq LateCall
    /\ uncertain \subseteq Provider

(* A row that says SYNCED, even when requests are under way there, names a *)
(* customer of the provider that has the customer's present data, whatever *)
(* answers were lost and whatever calls a restart left on their way.  The  *)
(* code does not promise it if the customer was edited while a publication *)
(* of it, or a call given up on, was on its way there, nor after a store   *)
(* was asked to delete it or n8n linked it; it does again from the next    *)
(* publication that the provider accepts while nothing older is on its     *)
(* way, or the next edit while nothing at all is.                          *)
SyncedHasTheData ==
    \A p \in Provider :
        link[p].status = "SYNCED" /\ p \notin uncertain
            => /\ link[p].id \in DOMAIN people[p]
               /\ people[p][link[p].id] = ficha.data

(* However the queues are entered, one job at a time calls a provider, and *)
(* the queue is not taken for empty while it does: the identifier that one *)
(* job is given would be another's second customer.                        *)
Active(r, p) == job[r][p].at \notin {"none", "joined", "queued"}
OneJobCalls ==
    \A p \in Provider :
        LET calling == {r \in Syncer : Active(r, p)}
        IN  /\ Cardinality(calling) <= 1
            /\ calling # {} => inFlight[p] # Nobody

(* Why the two hold: a request has jobs only while it works; in each queue *)
(* every job waits behind another, no two behind the same one and none     *)
(* behind the last; ...                                                    *)
JobsAreWorked ==
    \A r \in Syncer, p \in Provider : job[r][p] # NoJob => syncer[r].at = "work"
Waits(r, p, o) == job[r][p].at = "queued" /\ job[r][p].after = o
Queue(p) ==
    /\ \A r, o \in Syncer : Active(r, p) /\ Active(o, p) => r = o
    /\ \A r \in Syncer : Active(r, p) => inFlight[p] # Nobody
    /\ inFlight[p] # Nobody => Queues(inFlight[p], p)
    /\ \A r, o \in Syncer : Waits(r, p, o) => Queues(o, p) /\ o # inFlight[p]
    /\ \A q, r, o \in Syncer : Waits(q, p, o) /\ Waits(r, p, o) => q = r

(* ... whoever has an identifier has one of the provider's; ...            *)
Person(p, id) == id \in 1..Len(people[p])
KnownPeople(p) ==
    /\ link[p].id = 0 \/ Person(p, link[p].id)
    /\ \A r \in Syncer :
        /\ syncer[r].at = "read" => syncer[r].seen.ids[p] = 0 \/ Person(p, syncer[r].seen.ids[p])
        /\ job[r][p].at \in {"queued", "start"} => job[r][p].id = 0 \/ Person(p, job[r][p].id)
        /\ job[r][p].at \in {"remember", "update", "synced"} => Person(p, job[r][p].id)
    /\ remover.at = "stores" /\ p \in remover.left => Person(p, remover.ids[p])
    /\ \A c \in lateCalls : c.provider = p =>
        Person(p, c.id) \/ (c.id = 0 /\ c.data \in Ficha)

(* ... and where no version may come late, all that is on its way is the   *)
(* present one, and no job has called since the row says SYNCED.           *)
Present(p) ==
    /\ NothingOlder(p)
    /\ \A r \in Syncer :
        job[r][p].at = "synced" => people[p][job[r][p].id] = ficha.data
    /\ link[p].status = "SYNCED" =>
        /\ Person(p, link[p].id) /\ people[p][link[p].id] = ficha.data
        /\ \A r \in Syncer : Active(r, p) => job[r][p].at = "start"
CustomersIInv ==
    /\ CustomersTypeOK /\ JobsAreWorked
    /\ \A p \in Provider :
        Queue(p) /\ KnownPeople(p) /\ (p \notin uncertain => Present(p))

(* Every request is answered, whatever it joined or waited for.            *)
SyncsEnd == \A r \in Syncer : syncer[r].at = "work" ~> syncer[r].at = "idle"
=============================================================================
