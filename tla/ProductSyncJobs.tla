---------------------------- MODULE ProductSyncJobs ----------------------------
(***************************************************************************)
(* The bulk publication of products to WooCommerce: jobs in a table, one   *)
(* loop per process that takes them in turn, two workers per job, and the  *)
(* recovery of interrupted jobs when the process starts.                   *)
(*                                                                         *)
(*   apps/api/src/inventory/bulk-product-sync.service.ts                    *)
(*                                                                         *)
(* The columns of the products themselves are left out; that a product is  *)
(* gone is what makes its writes throw.                                    *)
(***************************************************************************)
EXTENDS Naturals, FiniteSets

CONSTANTS
    Product,    \* the products that may be published
    Selections, \* the sets of products that a request may ask for
    Groups,     \* the batches they are sent in: by store and parent
    MaxJobs,    \* bound: jobs that are ever created
    MaxGone,    \* bound: products that are deleted
    Workers,    \* BATCH_CONCURRENCY
    MaxCrashes  \* bound: restarts of the Node process

ASSUME JobsAssumption ==
    /\ IsFiniteSet(Product)
    /\ {} \notin Selections
    /\ UNION Selections \subseteq UNION Groups
    /\ UNION Groups = Product
    /\ \A b, d \in Groups : b # d => b \cap d = {}
    /\ MaxJobs \in Nat
    /\ MaxGone \in Nat
    /\ Workers \in Nat \ {0}
    /\ MaxCrashes \in Nat

Job == 1..MaxJobs
Worker == 1..Workers
NoJob == 0

VARIABLES
    job,        \* the rows of product_sync_jobs with those of their items
    gone,       \* the products that were deleted
    created,    \* jobs whose create has not yet woken the loop
    drain,      \* where the loop is
    todo,       \* the batches of each job that no worker has taken
    worker,     \* what each worker of each job is doing
    crashes     \* restarts so far

jobVars == <<job, gone, created, drain, todo, worker, crashes>>

ProductSyncJobStatus ==
    {"PENDING", "RUNNING", "COMPLETED", "COMPLETED_WITH_ERRORS", "FAILED"}
ItemStatus == {"PENDING", "SYNCED", "ERROR"}
WorkerState ==
    [at : {"idle", "call", "record", "fail", "thrown"}, batch : SUBSET Product,
     left : SUBSET Product, ok : SUBSET Product]

Unused == [status |-> "UNUSED", items |-> <<>>, succeeded |-> 0, failed |-> 0]
IdleWorker == [at |-> "idle", batch |-> {}, left |-> {}, ok |-> {}]
Resting == [at |-> "asleep", job |-> NoJob]
Looking == [at |-> "look", job |-> NoJob]

Items(j) == DOMAIN job[j].items
ItemsThatAre(j, status) == {p \in Items(j) : job[j].items[p] = status}

(* A job is unused or has an item, with a status, for each of some         *)
(* products, and its workers hold batches of it.                           *)
JobsTypeOK ==
    /\ \A j \in Job : job[j] = Unused \/
        /\ job[j].status \in ProductSyncJobStatus
        /\ Items(j) \subseteq Product /\ Items(j) # {}
        /\ \A p \in Items(j) : job[j].items[p] \in ItemStatus
        /\ job[j].succeeded \in Nat /\ job[j].failed \in Nat
    /\ gone \subseteq Product
    /\ created \subseteq Job
    /\ drain \in [at : {"asleep", "look", "found", "wait"}, job : Job \cup {NoJob}]
    /\ \A j \in Job : todo[j] \subseteq SUBSET Items(j)
    /\ worker \in [Job -> [Worker -> WorkerState]]
    /\ \A j \in Job, w \in Worker :
        worker[j][w].batch \cup worker[j][w].left \subseteq Items(j)
    /\ crashes \in Nat

JobsInit ==
    /\ job = [j \in Job |-> Unused]
    /\ gone = {}
    /\ created = {}
    /\ drain = Resting
    /\ todo = [j \in Job |-> {}]
    /\ worker = [j \in Job |-> [w \in Worker |-> IdleWorker]]
    /\ crashes = 0

-----------------------------------------------------------------------------
(* Requests                                                                *)

CreateJob(j, products) ==
    /\ job[j] = Unused
    /\ \A k \in Job : k < j => job[k] # Unused
    /\ products \cap gone = {}
    /\ job' = [job EXCEPT ![j] =
            [status |-> "PENDING", items |-> [p \in products |-> "PENDING"],
             succeeded |-> 0, failed |-> 0]]
    /\ created' = created \cup {j}
    /\ UNCHANGED <<gone, drain, todo, worker, crashes>>

SlipSchedule(j) ==              \* Slip: every request starts a loop
    /\ j \in created
    /\ created' = created \ {j}
    /\ drain' = Looking
    /\ UNCHANGED <<job, gone, todo, worker, crashes>>

(* The request goes on when its transaction has been committed: it wakes   *)
(* the loop, and does nothing if the loop is awake.                        *)
Schedule(j) ==
    /\ j \in created
    /\ created' = created \ {j}
    /\ drain' = IF drain = Resting THEN Looking ELSE drain
    /\ UNCHANGED <<job, gone, todo, worker, crashes>>

RemoveProduct(p) ==
    /\ p \notin gone
    /\ Cardinality(gone) < MaxGone
    /\ gone' = gone \cup {p}
    /\ UNCHANGED <<job, created, drain, todo, worker, crashes>>

-----------------------------------------------------------------------------
(* The loop.  Definitions called Slip... are plausible mistakes in this    *)
(* code; the specification does not use them.                              *)

Pending == {j \in Job : job[j].status = "PENDING"}
Oldest(jobs) == CHOOSE j \in jobs : \A k \in jobs : j <= k

(* The query and the use of its answer are two steps: a job committed      *)
(* between them is not in the answer.                                      *)
Look ==
    /\ drain.at = "look"
    /\ drain' = [at |-> "found",
                 job |-> IF Pending = {} THEN NoJob ELSE Oldest(Pending)]
    /\ UNCHANGED <<job, gone, created, todo, worker, crashes>>

Sleep ==
    /\ drain = [at |-> "found", job |-> NoJob]
    /\ drain' = Resting
    /\ UNCHANGED <<job, gone, created, todo, worker, crashes>>

(* The claim, and the reading and grouping of the items that are pending.  *)
SlipAllItems(j) == Items(j)             \* Slip: recovery starts all over
SlipAllJobs(j) == Product               \* Slip: the query forgets the job
PendingItems(j) == ItemsThatAre(j, "PENDING")

ClaimJob(j) ==
    /\ drain = [at |-> "found", job |-> j]
    /\ job[j].status = "PENDING"
    /\ job' = [job EXCEPT ![j].status = "RUNNING"]
    /\ todo' = [todo EXCEPT ![j] = {b \cap PendingItems(j) : b \in Groups} \ {{}}]
    /\ drain' = [at |-> "wait", job |-> j]
    /\ UNCHANGED <<gone, created, worker, crashes>>

-----------------------------------------------------------------------------
(* A worker of job j                                                       *)

Put(j, w, state) == worker' = [worker EXCEPT ![j][w] = state]
At(j, w, at) == worker[j][w].at = at

(* Each worker takes the next batch and sends it to its store.             *)
Take(j, w, b) ==
    /\ At(j, w, "idle")
    /\ b \in todo[j]
    /\ todo' = [todo EXCEPT ![j] = @ \ {b}]
    /\ Put(j, w, [at |-> "call", batch |-> b, left |-> b, ok |-> {}])
    /\ UNCHANGED <<job, gone, created, drain, crashes>>

(* The store answers for each product by itself...                         *)
StoreAnswers(j, w, ok) ==
    /\ At(j, w, "call")
    /\ ok \subseteq worker[j][w].batch
    /\ Put(j, w, [worker[j][w] EXCEPT !.at = "record", !.ok = ok])
    /\ UNCHANGED <<job, gone, created, drain, todo, crashes>>

(* ... or the whole call fails, and with it every product of the batch.    *)
Failing(batch) == [at |-> "fail", batch |-> {}, left |-> batch, ok |-> {}]

CallFails(j, w) ==
    /\ At(j, w, "call")
    /\ Put(j, w, Failing(worker[j][w].batch))
    /\ UNCHANGED <<job, gone, created, drain, todo, crashes>>

JobDone(j, w, p) ==
    Put(j, w, IF worker[j][w].left = {p} THEN IdleWorker
              ELSE [worker[j][w] EXCEPT !.left = @ \ {p}, !.ok = @ \ {p}])

CompleteItem(j, w, p) ==
    /\ At(j, w, "record")
    /\ p \in worker[j][w].left \cap worker[j][w].ok
    /\ p \notin gone
    /\ job' = [job EXCEPT ![j].items[p] = "SYNCED", ![j].succeeded = @ + 1]
    /\ JobDone(j, w, p)
    /\ UNCHANGED <<gone, created, drain, todo, crashes>>

FailItem(j, w, p) ==
    /\ \/ At(j, w, "record") /\ p \in worker[j][w].left \ worker[j][w].ok
       \/ At(j, w, "fail") /\ p \in worker[j][w].left
    /\ p \notin gone
    /\ job' = [job EXCEPT ![j].items[p] = "ERROR", ![j].failed = @ + 1]
    /\ JobDone(j, w, p)
    /\ UNCHANGED <<gone, created, drain, todo, crashes>>

(* The write about a deleted product throws: the rest of the batch is not  *)
(* recorded, and the handler fails the whole batch; there it throws again. *)
WriteThrows(j, w, p) ==
    /\ p \in worker[j][w].left \cap gone
    /\ \/ /\ At(j, w, "record")
          /\ Put(j, w, Failing(worker[j][w].batch))
       \/ /\ At(j, w, "fail")
          /\ Put(j, w, [IdleWorker EXCEPT !.at = "thrown"])
    /\ UNCHANGED <<job, gone, created, drain, todo, crashes>>

-----------------------------------------------------------------------------
(* The end of a job                                                        *)

SlipQuiet(j) == todo[j] = {}            \* Slip: the workers are not awaited
Quiet(j) == todo[j] = {} /\ \A w \in Worker : At(j, w, "idle")

CompleteJob(j) ==
    /\ drain = [at |-> "wait", job |-> j]
    /\ Quiet(j)
    /\ job' = [job EXCEPT ![j].status =
            IF job[j].failed = 0 THEN "COMPLETED" ELSE "COMPLETED_WITH_ERRORS"]
    /\ drain' = Looking
    /\ UNCHANGED <<gone, created, todo, worker, crashes>>

SlipSwallowed(j) == FALSE               \* Slip: nobody catches what it threw

(* The first worker that throws ends the job; the others go on.            *)
FailJob(j) ==
    /\ drain = [at |-> "wait", job |-> j]
    /\ \E w \in Worker : At(j, w, "thrown")
    /\ job' = [job EXCEPT ![j].status = "FAILED"]
    /\ drain' = Looking
    /\ UNCHANGED <<gone, created, todo, worker, crashes>>

(* A restart: the jobs that were running are pending again.                *)
Restarted(status) == IF status = "RUNNING" THEN "PENDING" ELSE status

JobsRestart ==
    /\ crashes < MaxCrashes
    /\ crashes' = crashes + 1
    /\ job' = [j \in Job |-> [job[j] EXCEPT !.status = Restarted(@)]]
    /\ created' = {}
    /\ drain' = Looking
    /\ todo' = [j \in Job |-> {}]
    /\ worker' = [j \in Job |-> [w \in Worker |-> IdleWorker]]
    /\ UNCHANGED gone

Requests ==
    \/ \E j \in Job, products \in Selections : CreateJob(j, products)
    \/ \E p \in Product : RemoveProduct(p)
Loop ==
    \/ Look
    \/ Sleep
    \/ \E j \in Job : Schedule(j) \/ ClaimJob(j) \/ CompleteJob(j) \/ FailJob(j)
Record(j, w, p) == CompleteItem(j, w, p) \/ FailItem(j, w, p) \/ WriteThrows(j, w, p)
(* Every call ends: without an answer, by its time limit.                  *)
Work(j, w) ==
    \/ \E b \in todo[j] : Take(j, w, b)
    \/ \E ok \in SUBSET worker[j][w].batch : StoreAnswers(j, w, ok)
    \/ CallFails(j, w)
    \/ \E p \in Product : Record(j, w, p)

JobsNext ==
    \/ Requests
    \/ Loop
    \/ \E j \in Job, w \in Worker : Work(j, w)
    \/ JobsRestart

JobsSpec == JobsInit /\ [][JobsNext]_jobVars
JobsFairSpec ==
    /\ JobsSpec
    /\ WF_jobVars(Loop)
    /\ \A j \in Job, w \in Worker : WF_jobVars(Work(j, w))

-----------------------------------------------------------------------------
(* Properties                                                              *)

(* One job runs at a time: the one that the loop waits for.                *)
OneRunning ==
    \A j \in Job : job[j].status = "RUNNING" <=> drain = [at |-> "wait", job |-> j]

(* While the products of a job exist, its counters say how its items are,  *)
(* whatever was interrupted and resumed.                                   *)
Counted(j) ==
    Items(j) \cap gone = {} =>
        /\ job[j].succeeded = Cardinality(ItemsThatAre(j, "SYNCED"))
        /\ job[j].failed = Cardinality(ItemsThatAre(j, "ERROR"))
CountersMatch == \A j \in Job : Counted(j)

(* The panel's summary is right: a job shown as completed published every  *)
(* product, and one completed with errors tried each and has one to show.  *)
Summarised(j) ==
    /\ job[j].status = "COMPLETED" => ItemsThatAre(j, "SYNCED") = Items(j)
    /\ job[j].status = "COMPLETED_WITH_ERRORS" =>
        /\ ItemsThatAre(j, "PENDING") = {}
        /\ ItemsThatAre(j, "ERROR") # {}
CompletedIsTrue == \A j \in Job : Summarised(j)

(* What the three rely on: tables of rows, and workers, of these shapes... *)
JobRow ==
    [status : ProductSyncJobStatus,
     items : UNION {[products -> ItemStatus] : products \in (SUBSET Product) \ {{}}},
     succeeded : Nat, failed : Nat]
JobsShape ==
    /\ job \in [Job -> JobRow \cup {Unused}]
    /\ gone \subseteq Product
    /\ created \subseteq Job
    /\ drain \in [at : {"asleep", "look", "found", "wait"}, job : Job \cup {NoJob}]
    /\ crashes \in Nat
    /\ todo \in [Job -> SUBSET SUBSET Product]
    /\ worker \in [Job -> [Worker -> WorkerState]]

(* ... batches that wait or are in hand and have no product in common, ... *)
InHand(j, w) == worker[j][w].batch \cup worker[j][w].left
Disjoint(j) ==
    /\ \A b, d \in todo[j] : b # d => b \cap d = {}
    /\ \A b \in todo[j], w \in Worker : b \cap InHand(j, w) = {}
    /\ \A v, w \in Worker : v # w => InHand(j, v) \cap InHand(j, w) = {}

(* ... of products that nobody has recorded: a failed batch is recorded    *)
(* again only after a product of it was deleted; ...                       *)
Unrecorded(j) ==
    /\ \A b \in todo[j] : b # {} /\ b \subseteq PendingItems(j)
    /\ \A w \in Worker :
        /\ InHand(j, w) \subseteq Items(j)
        /\ worker[j][w].at \in {"idle", "thrown"} => InHand(j, w) = {}
        /\ worker[j][w].at = "call" => worker[j][w].left = worker[j][w].batch
        /\ worker[j][w].at = "record" => worker[j][w].left \subseteq worker[j][w].batch
        /\ worker[j][w].at \in {"call", "record"} \/ Items(j) \cap gone = {}
            => worker[j][w].left \subseteq PendingItems(j)

(* ... workers of the jobs that were claimed only, and none of those that  *)
(* completed; ...                                                          *)
Unattended(j) == job[j].status \notin {"RUNNING", "FAILED"} => Quiet(j)

(* ... and, of the job that runs, everything pending waiting or in hand,   *)
(* unless a worker gave up.                                                *)
Covered(j) ==
    job[j].status = "RUNNING" => \A p \in PendingItems(j) :
        \/ \E b \in todo[j] : p \in b
        \/ \E w \in Worker : p \in worker[j][w].left \/ At(j, w, "thrown")
FailureCounted(j) == job[j].failed # 0 <=> ItemsThatAre(j, "ERROR") # {}

JobSound(j) ==
    /\ Disjoint(j) /\ Unrecorded(j) /\ Unattended(j) /\ Covered(j)
    /\ FailureCounted(j) /\ Counted(j) /\ Summarised(j)
JobsIInv == JobsShape /\ OneRunning /\ \A j \in Job : JobSound(j)

(* A job that runs, or that is pending when the loop looks, ends, whatever *)
(* the stores answer, and however many products and restarts it loses.     *)
Ended(j) == job[j].status \in {"COMPLETED", "COMPLETED_WITH_ERRORS", "FAILED"}
JobsEnd ==
    \A j \in Job :
        (job[j].status = "RUNNING" \/ (job[j].status = "PENDING" /\ drain.at = "look"))
            ~> Ended(j)
=============================================================================
