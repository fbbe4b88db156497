------------------------- MODULE ProductSyncJobsProofs -------------------------
(* Proofs about ProductSyncJobs, for every value of its constants.          *)
EXTENDS ProductSyncJobs, FiniteSetTheorems, WellFoundedInduction, TLAPS

-----------------------------------------------------------------------------
(* Rows and workers                                                        *)

(* What the table says of a job that was created.                          *)
LEMMA RowFacts ==
  ASSUME JobsShape, NEW j \in Job, job[j] # Unused
  PROVE  /\ job[j] \in JobRow
         /\ Items(j) \subseteq Product /\ Items(j) # {}
         /\ job[j].items \in [Items(j) -> ItemStatus]
<1>1. job[j] \in JobRow
  BY DEF JobsShape
<1>2. PICK products \in (SUBSET Product) \ {{}} :
        job[j].items \in [products -> ItemStatus]
  BY <1>1 DEF JobRow
<1>3. Items(j) = products
  BY <1>2 DEF Items
<1> QED BY <1>1, <1>2, <1>3

LEMMA UnusedIsEmpty ==
  ASSUME NEW j \in Job, job[j] = Unused
  PROVE  /\ Items(j) = {} /\ \A status : ItemsThatAre(j, status) = {}
         /\ job[j].status = "UNUSED" /\ job[j].failed = 0 /\ job[j].succeeded = 0
  BY DEF Items, ItemsThatAre, Unused

(* The items of a job are finitely many.                                   *)
LEMMA FiniteItems ==
  ASSUME JobsShape, NEW j \in Job, NEW status
  PROVE  IsFiniteSet(ItemsThatAre(j, status))
<1>1. Items(j) \subseteq Product
  BY RowFacts, UnusedIsEmpty
<1>2. ItemsThatAre(j, status) \subseteq Product
  BY <1>1 DEF ItemsThatAre
<1> QED BY <1>2, FS_Subset, JobsAssumption

LEMMA IdleWorkerType == IdleWorker \in WorkerState
  BY DEF IdleWorker, WorkerState

(* A worker of one job moves, the others do not.                           *)
LEMMA PutFacts ==
  ASSUME JobsShape, NEW j \in Job, NEW w \in Worker,
         NEW state \in WorkerState, Put(j, w, state)
  PROVE  /\ worker' \in [Job -> [Worker -> WorkerState]]
         /\ worker'[j][w] = state
         /\ \A k \in Job, v \in Worker :
                k # j \/ v # w => worker'[k][v] = worker[k][v]
  BY DEF JobsShape, Put

(* What nobody touched stays as it is.                                     *)
LEMMA Untouched ==
  ASSUME NEW j \in Job, JobSound(j),
         job'[j] = job[j], todo'[j] = todo[j], gone \subseteq gone',
         \A w \in Worker : worker'[j][w] = worker[j][w]
  PROVE  JobSound(j)'
<1>1. Items(j)' = Items(j)
      /\ \A status : ItemsThatAre(j, status)' = ItemsThatAre(j, status)
  BY DEF Items, ItemsThatAre
<1>2. Disjoint(j)'
  BY DEF JobSound, Disjoint, InHand
<1>3. Unrecorded(j)'
  BY <1>1 DEF JobSound, Unrecorded, InHand, PendingItems
<1>4. Unattended(j)'
  BY DEF JobSound, Unattended, Quiet, At
<1>5. Covered(j)'
  BY <1>1 DEF JobSound, Covered, PendingItems, At
<1>6. FailureCounted(j)' /\ Counted(j)' /\ Summarised(j)'
  BY <1>1 DEF JobSound, FailureCounted, Counted, Summarised
<1> QED BY <1>2, <1>3, <1>4, <1>5, <1>6 DEF JobSound

(* A step that moves one job and nothing else preserves what is said of    *)
(* all of them, if it does so for that one.                                *)
LEMMA OneJobMoves ==
  ASSUME JobsIInv, NEW j \in Job, JobSound(j)', gone' = gone,
         \A k \in Job : k # j => /\ job'[k] = job[k] /\ todo'[k] = todo[k]
                                /\ \A w \in Worker : worker'[k][w] = worker[k][w]
  PROVE  \A k \in Job : JobSound(k)'
  BY Untouched DEF JobsIInv

LEMMA StatusesKept ==
  ASSUME OneRunning, drain' = drain,
         \A k \in Job : job'[k].status = job[k].status
  PROVE  OneRunning'
  BY DEF OneRunning

-----------------------------------------------------------------------------
(* Workers *)

LEMMA TakeStep ==
  ASSUME JobsIInv, NEW j \in Job, NEW w \in Worker, NEW b \in todo[j], Take(j, w, b)
  PROVE  JobsIInv'
<1> DEFINE state == [at |-> "call", batch |-> b, left |-> b, ok |-> {}]
<1>1. JobsShape /\ JobSound(j) /\ OneRunning
  BY DEF JobsIInv
<1>2. /\ UNCHANGED <<job, gone, created, drain, crashes>>
      /\ todo' = [todo EXCEPT ![j] = @ \ {b}] /\ Put(j, w, state)
      /\ worker[j][w].at = "idle"
  BY DEF Take, At
<1>3. state \in WorkerState
  BY <1>1 DEF WorkerState, JobsShape
<1>4. /\ worker' \in [Job -> [Worker -> WorkerState]]
      /\ worker'[j][w] = state
      /\ \A k \in Job, v \in Worker : k # j \/ v # w => worker'[k][v] = worker[k][v]
  BY <1>1, <1>2, <1>3, PutFacts
<1>5. JobsShape'
  BY <1>1, <1>2, <1>4 DEF JobsShape
<1>6. todo'[j] = todo[j] \ {b} /\ \A k \in Job : k # j => todo'[k] = todo[k]
  BY <1>1, <1>2 DEF JobsShape
<1>7. InHand(j, w)' = b /\ \A v \in Worker : v # w => InHand(j, v)' = InHand(j, v)
  BY <1>4 DEF InHand
<1>8. Items(j)' = Items(j) /\ \A status : ItemsThatAre(j, status)' = ItemsThatAre(j, status)
  BY <1>2 DEF Items, ItemsThatAre
<1>9. b # {} /\ b \subseteq PendingItems(j) /\ b \subseteq Items(j)
  BY <1>1 DEF JobSound, Unrecorded, PendingItems, ItemsThatAre
<1>10. Disjoint(j)'
  BY <1>1, <1>6, <1>7 DEF JobSound, Disjoint
<1>11. Unrecorded(j)'
  BY <1>1, <1>2, <1>4, <1>6, <1>7, <1>8, <1>9 DEF JobSound, Unrecorded, PendingItems
<1>12. Unattended(j)'
  BY <1>1, <1>2 DEF JobSound, Unattended, Quiet
<1>13. Covered(j)'
  <2>1. worker[j][w].left = {}
    BY <1>1, <1>2 DEF JobSound, Unrecorded, InHand
  <2>2. b \in todo[j] /\ worker'[j][w].left = b
    BY <1>4
  <2>3. SUFFICES ASSUME job[j].status = "RUNNING", NEW p \in PendingItems(j)
                 PROVE  \/ \E d \in todo'[j] : p \in d
                        \/ \E v \in Worker :
                                p \in worker'[j][v].left \/ worker'[j][v].at = "thrown"
    BY <1>2, <1>8 DEF Covered, PendingItems, At
  <2>4. \/ \E d \in todo[j] : p \in d
        \/ \E v \in Worker : p \in worker[j][v].left \/ worker[j][v].at = "thrown"
    BY <1>1, <2>3 DEF JobSound, Covered, At
  <2> QED BY <1>2, <1>4, <1>6, <2>1, <2>2, <2>4
<1>14. FailureCounted(j)' /\ Counted(j)' /\ Summarised(j)'
  BY <1>1, <1>2, <1>8 DEF JobSound, FailureCounted, Counted, Summarised
<1>15. JobSound(j)'
  BY <1>10, <1>11, <1>12, <1>13, <1>14 DEF JobSound
<1> QED BY <1>1, <1>2, <1>4, <1>5, <1>6, <1>15, OneJobMoves, StatusesKept DEF JobsIInv

(* A worker learns how its call went, or gives up its batch: what it has   *)
(* in hand does not grow, and what it has to record is no less unless it   *)
(* ends.                                                                   *)
LEMMA WorkerMoves ==
  ASSUME JobsIInv, NEW j \in Job, NEW w \in Worker, NEW state \in WorkerState,
         Put(j, w, state), UNCHANGED <<job, gone, created, drain, todo, crashes>>,
         worker[j][w].at \in {"call", "record", "fail"},
         state.batch \cup state.left \subseteq InHand(j, w),
         \/ state.at = "thrown" /\ state.batch \cup state.left = {}
         \/ /\ state.at \in {"record", "fail"}
            /\ worker[j][w].left \subseteq state.left
            /\ state.at = "record" =>
                    state.left \subseteq PendingItems(j) \cap state.batch
            /\ Items(j) \cap gone = {} => state.left \subseteq PendingItems(j)
  PROVE  JobsIInv'
<1>1. JobsShape /\ JobSound(j) /\ OneRunning
  BY DEF JobsIInv
<1>2. /\ worker' \in [Job -> [Worker -> WorkerState]]
      /\ worker'[j][w] = state
      /\ \A k \in Job, v \in Worker : k # j \/ v # w => worker'[k][v] = worker[k][v]
  BY <1>1, PutFacts
<1>3. JobsShape'
  BY <1>1, <1>2 DEF JobsShape
<1>4. /\ InHand(j, w)' \subseteq InHand(j, w)
      /\ InHand(j, w)' = state.batch \cup state.left
      /\ \A v \in Worker : v # w => InHand(j, v)' = InHand(j, v)
  BY <1>2 DEF InHand
<1>5. Items(j)' = Items(j) /\ \A status : ItemsThatAre(j, status)' = ItemsThatAre(j, status)
  BY DEF Items, ItemsThatAre
<1>6. Disjoint(j)'
  BY <1>1, <1>4 DEF JobSound, Disjoint
<1>7. Unrecorded(j)'
  BY <1>1, <1>2, <1>4, <1>5 DEF JobSound, Unrecorded, PendingItems
<1>8. Unattended(j)'
  BY <1>1 DEF JobSound, Unattended, Quiet, At
<1>9. Covered(j)'
  <2>1. SUFFICES ASSUME job[j].status = "RUNNING", NEW p \in PendingItems(j)
                 PROVE  \/ \E d \in todo[j] : p \in d
                        \/ \E v \in Worker :
                                p \in worker'[j][v].left \/ worker'[j][v].at = "thrown"
    BY <1>5 DEF Covered, PendingItems, At
  <2>2. \/ \E d \in todo[j] : p \in d
        \/ \E v \in Worker : p \in worker[j][v].left \/ worker[j][v].at = "thrown"
    BY <1>1, <2>1 DEF JobSound, Covered, At
  <2> QED BY <1>2, <2>2
<1>10. FailureCounted(j)' /\ Counted(j)' /\ Summarised(j)'
  BY <1>1, <1>5 DEF JobSound, FailureCounted, Counted, Summarised
<1>11. JobSound(j)'
  BY <1>6, <1>7, <1>8, <1>9, <1>10 DEF JobSound
<1> QED BY <1>1, <1>2, <1>3, <1>11, OneJobMoves, StatusesKept DEF JobsIInv

LEMMA AnswerStep ==
  ASSUME JobsIInv, NEW j \in Job, NEW w \in Worker,
         (\E ok \in SUBSET worker[j][w].batch : StoreAnswers(j, w, ok)) \/ CallFails(j, w)
  PROVE  JobsIInv'
<1>1. JobsShape /\ JobSound(j) /\ worker[j][w] \in WorkerState
  BY DEF JobsIInv, JobsShape
<1>2. /\ worker[j][w].at = "call" /\ worker[j][w].left = worker[j][w].batch
      /\ worker[j][w].left \subseteq PendingItems(j)
  BY <1>1 DEF StoreAnswers, CallFails, At, JobSound, Unrecorded
<1>3. ASSUME NEW ok \in SUBSET worker[j][w].batch, StoreAnswers(j, w, ok)
      PROVE  JobsIInv'
  <2> DEFINE state == [worker[j][w] EXCEPT !.at = "record", !.ok = ok]
  <2>1. /\ state \in WorkerState /\ state.at = "record"
        /\ state.left = worker[j][w].left /\ state.batch = worker[j][w].batch
    BY <1>1 DEF WorkerState
  <2>2. Put(j, w, state) /\ UNCHANGED <<job, gone, created, drain, todo, crashes>>
    BY <1>3 DEF StoreAnswers
  <2> HIDE DEF state
  <2> QED BY <1>2, <2>1, <2>2, WorkerMoves DEF InHand
<1>4. ASSUME CallFails(j, w) PROVE JobsIInv'
  <2> DEFINE state == Failing(worker[j][w].batch)
  <2>1. /\ state \in WorkerState /\ state.at = "fail"
        /\ state.left = worker[j][w].left /\ state.batch = {}
    BY <1>1, <1>2 DEF WorkerState, Failing
  <2>2. Put(j, w, state) /\ UNCHANGED <<job, gone, created, drain, todo, crashes>>
    BY <1>4 DEF CallFails
  <2> HIDE DEF state
  <2> QED BY <1>2, <2>1, <2>2, WorkerMoves DEF InHand
<1> QED BY <1>3, <1>4

LEMMA ThrowStep ==
  ASSUME JobsIInv, NEW j \in Job, NEW w \in Worker, NEW p \in Product, WriteThrows(j, w, p)
  PROVE  JobsIInv'
<1>1. JobsShape /\ JobSound(j) /\ worker[j][w] \in WorkerState
  BY DEF JobsIInv, JobsShape
<1>2. Items(j) \cap gone # {}
  BY <1>1 DEF WriteThrows, JobSound, Unrecorded, InHand
<1>3. ASSUME At(j, w, "record"), Put(j, w, Failing(worker[j][w].batch))
      PROVE  JobsIInv'
  <2> DEFINE state == Failing(worker[j][w].batch)
  <2>1. /\ state \in WorkerState /\ state.at = "fail"
        /\ state.left = worker[j][w].batch /\ state.batch = {}
    BY <1>1 DEF WorkerState, Failing
  <2>2. worker[j][w].left \subseteq worker[j][w].batch
    BY <1>1, <1>3 DEF JobSound, Unrecorded, At
  <2>3. Put(j, w, state) /\ UNCHANGED <<job, gone, created, drain, todo, crashes>>
    BY <1>3 DEF WriteThrows
  <2> HIDE DEF state
  <2> QED BY <1>2, <1>3, <2>1, <2>2, <2>3, WorkerMoves DEF InHand, At
<1>4. ASSUME At(j, w, "fail"), Put(j, w, [IdleWorker EXCEPT !.at = "thrown"])
      PROVE  JobsIInv'
  <2> DEFINE state == [IdleWorker EXCEPT !.at = "thrown"]
  <2>1. /\ state \in WorkerState /\ state.at = "thrown"
        /\ state.left = {} /\ state.batch = {}
    BY DEF WorkerState, IdleWorker
  <2>2. Put(j, w, state) /\ UNCHANGED <<job, gone, created, drain, todo, crashes>>
    BY <1>4 DEF WriteThrows
  <2> HIDE DEF state
  <2> QED BY <1>4, <2>1, <2>2, WorkerMoves DEF InHand, At
<1> QED BY <1>3, <1>4 DEF WriteThrows

(* The write of an item, and what it leaves in the row of its job.         *)
Writes(j, p, verdict) ==
  job' = IF verdict = "SYNCED"
         THEN [job EXCEPT ![j].items[p] = "SYNCED", ![j].succeeded = @ + 1]
         ELSE [job EXCEPT ![j].items[p] = "ERROR", ![j].failed = @ + 1]

LEMMA ItemWritten ==
  ASSUME JobsShape, NEW j \in Job, NEW p \in Items(j), NEW verdict \in {"SYNCED", "ERROR"},
         Writes(j, p, verdict)
  PROVE  /\ job' \in [Job -> JobRow \cup {Unused}]
         /\ \A k \in Job : k # j => job'[k] = job[k]
         /\ job'[j].status = job[j].status
         /\ Items(j)' = Items(j)
         /\ job'[j].succeeded = IF verdict = "SYNCED" THEN job[j].succeeded + 1 ELSE job[j].succeeded
         /\ job'[j].failed = IF verdict = "SYNCED" THEN job[j].failed ELSE job[j].failed + 1
         /\ job[j].succeeded \in Nat /\ job[j].failed \in Nat
         /\ job'[j].items[p] = verdict
         /\ \A q \in Items(j) : q # p => job'[j].items[q] = job[j].items[q]
<1>1. job[j] # Unused
  BY UnusedIsEmpty
<1>2. /\ job[j] \in JobRow /\ job[j].items \in [Items(j) -> ItemStatus]
      /\ Items(j) \subseteq Product /\ Items(j) # {}
  BY <1>1, RowFacts
<1> DEFINE items == [job[j].items EXCEPT ![p] = verdict]
<1>3. items \in [Items(j) -> ItemStatus] /\ items[p] = verdict
      /\ \A q \in Items(j) : q # p => items[q] = job[j].items[q]
  BY <1>2 DEF ItemStatus
<1>4. items \in UNION {[products -> ItemStatus] : products \in (SUBSET Product) \ {{}}}
  <2>1. Items(j) \in (SUBSET Product) \ {{}}
    BY <1>2
  <2> HIDE DEF items
  <2> QED BY <1>3, <2>1
<1> DEFINE row == [job[j] EXCEPT !.items = items]
<1>5. job'[j] = IF verdict = "SYNCED" THEN [row EXCEPT !.succeeded = job[j].succeeded + 1]
                ELSE [row EXCEPT !.failed = job[j].failed + 1]
  <2>1. CASE verdict = "SYNCED"
    <3>1. job'[j] = [job[j] EXCEPT !.items[p] = "SYNCED", !.succeeded = job[j].succeeded + 1]
      BY <2>1 DEF JobsShape, Writes
    <3> QED BY <1>2, <2>1, <3>1 DEF JobRow
  <2>2. CASE verdict = "ERROR"
    <3>1. job'[j] = [job[j] EXCEPT !.items[p] = "ERROR", !.failed = job[j].failed + 1]
      BY <2>2 DEF JobsShape, Writes
    <3> QED BY <1>2, <2>2, <3>1 DEF JobRow
  <2> QED BY <2>1, <2>2
<1>6. \A k \in Job : k # j => job'[k] = job[k]
  BY DEF JobsShape, Writes
<1>7. job' = [job EXCEPT ![j] = job'[j]]
  BY DEF JobsShape, Writes
<1> HIDE DEF items
<1>8. /\ row \in JobRow /\ row.items = items /\ row.status = job[j].status
      /\ row.succeeded = job[j].succeeded /\ row.failed = job[j].failed
      /\ job[j].succeeded \in Nat /\ job[j].failed \in Nat
  BY <1>2, <1>4 DEF JobRow
<1> HIDE DEF row
<1>9. /\ job'[j] \in JobRow /\ job'[j].items = items /\ job'[j].status = job[j].status
      /\ job'[j].succeeded = IF verdict = "SYNCED" THEN job[j].succeeded + 1 ELSE job[j].succeeded
      /\ job'[j].failed = IF verdict = "SYNCED" THEN job[j].failed ELSE job[j].failed + 1
  <2> DEFINE Rows(its) == [status : ProductSyncJobStatus, items : its,
                           succeeded : Nat, failed : Nat]
  <2>1. PICK its : JobRow = Rows(its)
    BY DEF JobRow
  <2>2. CASE verdict = "SYNCED"
    BY <1>5, <1>8, <2>1, <2>2
  <2>3. CASE verdict = "ERROR"
    BY <1>5, <1>8, <2>1, <2>3
  <2> QED BY <2>2, <2>3
<1>10. job' \in [Job -> JobRow \cup {Unused}]
  BY <1>7, <1>9 DEF JobsShape
<1>11. Items(j)' = Items(j)
  BY <1>3, <1>9 DEF Items
<1> QED BY <1>3, <1>6, <1>8, <1>9, <1>10, <1>11

(* The sets of items that are in a status, and how many they become.       *)
LEMMA OneMore ==
  ASSUME JobsShape, NEW j \in Job, NEW p \in Items(j), NEW status,
         p \notin ItemsThatAre(j, status), ItemsThatAre(j, status)' =
            ItemsThatAre(j, status) \cup {p}
  PROVE  Cardinality(ItemsThatAre(j, status)') = Cardinality(ItemsThatAre(j, status)) + 1
  BY FiniteItems, FS_AddElement

LEMMA RecordStep ==
  ASSUME JobsIInv, NEW j \in Job, NEW w \in Worker, NEW p \in Product,
         CompleteItem(j, w, p) \/ FailItem(j, w, p)
  PROVE  JobsIInv'
<1> SUFFICES ASSUME NEW verdict \in {"SYNCED", "ERROR"},
                    \/ verdict = "SYNCED" /\ CompleteItem(j, w, p)
                    \/ verdict = "ERROR" /\ FailItem(j, w, p)
             PROVE  JobsIInv'
  OBVIOUS
<1>1. JobsShape /\ JobSound(j) /\ OneRunning /\ worker[j][w] \in WorkerState
  BY DEF JobsIInv, JobsShape
<1>2. /\ p \in worker[j][w].left /\ p \notin gone /\ worker[j][w].at \in {"record", "fail"}
      /\ UNCHANGED <<gone, created, drain, todo, crashes>> /\ JobDone(j, w, p)
      /\ verdict = "SYNCED" => worker[j][w].at = "record"
  BY DEF CompleteItem, FailItem, At
<1>3. p \in Items(j)
  BY <1>1, <1>2 DEF JobSound, Unrecorded, InHand
<1>4. Writes(j, p, verdict)
  BY DEF CompleteItem, FailItem, Writes
<1>5. verdict \in {"SYNCED", "ERROR"}
  OBVIOUS
<1>6. /\ job' \in [Job -> JobRow \cup {Unused}]
      /\ \A k \in Job : k # j => job'[k] = job[k]
      /\ job'[j].status = job[j].status
      /\ Items(j)' = Items(j)
      /\ job'[j].succeeded = IF verdict = "SYNCED" THEN job[j].succeeded + 1 ELSE job[j].succeeded
      /\ job'[j].failed = IF verdict = "SYNCED" THEN job[j].failed ELSE job[j].failed + 1
      /\ job[j].succeeded \in Nat /\ job[j].failed \in Nat
      /\ job'[j].items[p] = verdict
      /\ \A q \in Items(j) : q # p => job'[j].items[q] = job[j].items[q]
  BY <1>1, <1>3, <1>4, ItemWritten
<1> DEFINE state == IF worker[j][w].left = {p} THEN IdleWorker
                    ELSE [worker[j][w] EXCEPT !.left = @ \ {p}, !.ok = @ \ {p}]
<1>7. /\ state \in WorkerState
      /\ state.left = worker[j][w].left \ {p}
      /\ state.batch \subseteq worker[j][w].batch
      /\ state.at = "idle" => state.batch = {}
      /\ state.at \in {"idle", worker[j][w].at}
      /\ state.at # "idle" => state.batch = worker[j][w].batch
  <2>1. CASE worker[j][w].left = {p}
    BY <2>1, IdleWorkerType DEF IdleWorker
  <2>2. CASE worker[j][w].left # {p}
    BY <1>1, <1>2, <2>2 DEF WorkerState
  <2> QED BY <2>1, <2>2
<1>8. /\ worker' \in [Job -> [Worker -> WorkerState]]
      /\ worker'[j][w] = state
      /\ \A k \in Job, v \in Worker : k # j \/ v # w => worker'[k][v] = worker[k][v]
  <2>1. Put(j, w, state)
    BY <1>2 DEF JobDone
  <2> HIDE DEF state
  <2> QED BY <1>1, <1>7, <2>1, PutFacts
<1> HIDE DEF state
<1>9. JobsShape' /\ OneRunning'
  BY <1>1, <1>2, <1>6, <1>8, StatusesKept DEF JobsShape
<1>10. /\ InHand(j, w)' \subseteq InHand(j, w)
       /\ \A v \in Worker : v # w => InHand(j, v)' = InHand(j, v)
  BY <1>7, <1>8 DEF InHand
<1>11. Disjoint(j)'
  BY <1>1, <1>2, <1>10 DEF JobSound, Disjoint
<1>12. /\ PendingItems(j)' = PendingItems(j) \ {p}
       /\ ItemsThatAre(j, "SYNCED")' = IF verdict = "SYNCED"
            THEN ItemsThatAre(j, "SYNCED") \cup {p} ELSE ItemsThatAre(j, "SYNCED") \ {p}
       /\ ItemsThatAre(j, "ERROR")' = IF verdict = "ERROR"
            THEN ItemsThatAre(j, "ERROR") \cup {p} ELSE ItemsThatAre(j, "ERROR") \ {p}
  BY <1>3, <1>5, <1>6 DEF PendingItems, ItemsThatAre
<1>13. PendingItems(j)' = PendingItems(j) \ {p}
  BY <1>12
<1>14. /\ \A b \in todo[j] : p \notin b
       /\ \A v \in Worker : v # w => p \notin InHand(j, v)
  BY <1>1, <1>2 DEF JobSound, Disjoint, InHand
<1>15. Unrecorded(j)'
  <2>1. \A b \in todo'[j] : b # {} /\ b \subseteq PendingItems(j)'
    BY <1>1, <1>2, <1>13, <1>14 DEF JobSound, Unrecorded
  <2>2. ASSUME NEW v \in Worker, v # w
        PROVE  /\ InHand(j, v)' \subseteq Items(j)'
               /\ worker'[j][v].at \in {"idle", "thrown"} => InHand(j, v)' = {}
               /\ worker'[j][v].at = "call" => worker'[j][v].left = worker'[j][v].batch
               /\ worker'[j][v].at = "record" => worker'[j][v].left \subseteq worker'[j][v].batch
               /\ worker'[j][v].at \in {"call", "record"} \/ Items(j)' \cap gone' = {}
                    => worker'[j][v].left \subseteq PendingItems(j)'
    BY <1>1, <1>2, <1>6, <1>8, <1>10, <1>13, <1>14, <2>2 DEF JobSound, Unrecorded, InHand
  <2>3. /\ InHand(j, w)' \subseteq Items(j)'
        /\ worker'[j][w].at \in {"idle", "thrown"} => InHand(j, w)' = {}
        /\ worker'[j][w].at = "call" => worker'[j][w].left = worker'[j][w].batch
        /\ worker'[j][w].at = "record" => worker'[j][w].left \subseteq worker'[j][w].batch
        /\ worker'[j][w].at \in {"call", "record"} \/ Items(j)' \cap gone' = {}
              => worker'[j][w].left \subseteq PendingItems(j)'
    <3>1. state.at = "idle" => state.left = {}
      <4>1. CASE worker[j][w].left = {p}
        BY <4>1, <1>7
      <4>2. CASE worker[j][w].left # {p}
        BY <4>2, <1>2, <1>1 DEF state, WorkerState
      <4> QED BY <4>1, <4>2
    <3>2. InHand(j, w) \subseteq Items(j) /\ InHand(j, w)' = state.batch \cup state.left
      BY <1>1, <1>8 DEF JobSound, Unrecorded, InHand
    <3> QED BY <1>1, <1>2, <1>6, <1>7, <1>8, <1>10, <1>13, <3>1, <3>2
            DEF JobSound, Unrecorded
  <2> QED BY <2>1, <2>2, <2>3 DEF Unrecorded
<1>16. Unattended(j)'
  BY <1>1, <1>2, <1>6 DEF JobSound, Unattended, Quiet, At
<1>17. Covered(j)'
  <2>1. SUFFICES ASSUME job[j].status = "RUNNING", NEW q \in PendingItems(j), q # p
                 PROVE  \/ \E d \in todo[j] : q \in d
                        \/ \E v \in Worker :
                                q \in worker'[j][v].left \/ worker'[j][v].at = "thrown"
    BY <1>2, <1>6, <1>13 DEF Covered, At
  <2>2. \/ \E d \in todo[j] : q \in d
        \/ \E v \in Worker : q \in worker[j][v].left \/ worker[j][v].at = "thrown"
    BY <1>1, <2>1 DEF JobSound, Covered, At
  <2> QED BY <1>2, <1>7, <1>8, <2>1, <2>2
<1>18. FailureCounted(j)'
  <2>1. CASE verdict = "SYNCED"
    <3>1. p \in PendingItems(j)
      BY <1>1, <1>2, <2>1 DEF JobSound, Unrecorded
    <3>2. ItemsThatAre(j, "ERROR")' = ItemsThatAre(j, "ERROR")
      BY <1>6, <1>12, <2>1, <3>1 DEF PendingItems, ItemsThatAre
    <3> QED BY <1>1, <1>6, <2>1, <3>2 DEF JobSound, FailureCounted
  <2>2. CASE verdict = "ERROR"
    BY <1>6, <1>12, <2>2 DEF FailureCounted
  <2> QED BY <1>5, <2>1, <2>2
<1>19. Counted(j)'
  <2>1. SUFFICES ASSUME Items(j) \cap gone = {}
                 PROVE  /\ job'[j].succeeded = Cardinality(ItemsThatAre(j, "SYNCED")')
                        /\ job'[j].failed = Cardinality(ItemsThatAre(j, "ERROR")')
    BY <1>2, <1>6 DEF Counted
  <2>2. p \in PendingItems(j)
    BY <1>1, <1>2, <2>1 DEF JobSound, Unrecorded
  <2>3. p \notin ItemsThatAre(j, "SYNCED") /\ p \notin ItemsThatAre(j, "ERROR")
    BY <2>2 DEF PendingItems, ItemsThatAre
  <2>4. /\ job[j].succeeded = Cardinality(ItemsThatAre(j, "SYNCED"))
        /\ job[j].failed = Cardinality(ItemsThatAre(j, "ERROR"))
    BY <1>1, <2>1 DEF JobSound, Counted
  <2>5. CASE verdict = "SYNCED"
    <3>1. /\ ItemsThatAre(j, "SYNCED")' = ItemsThatAre(j, "SYNCED") \cup {p}
          /\ ItemsThatAre(j, "ERROR")' = ItemsThatAre(j, "ERROR")
      BY <1>6, <1>12, <2>3, <2>5
    <3> QED BY <1>1, <1>3, <1>6, <2>3, <2>4, <2>5, <3>1, OneMore
  <2>6. CASE verdict = "ERROR"
    <3>1. /\ ItemsThatAre(j, "ERROR")' = ItemsThatAre(j, "ERROR") \cup {p}
          /\ ItemsThatAre(j, "SYNCED")' = ItemsThatAre(j, "SYNCED")
      BY <1>6, <1>12, <2>3, <2>6
    <3> QED BY <1>1, <1>3, <1>6, <2>3, <2>4, <2>6, <3>1, OneMore
  <2> QED BY <1>5, <2>5, <2>6
<1>20. Summarised(j)'
  <2>1. ~Quiet(j)
    BY <1>2 DEF Quiet, At
  <2>2. job[j].status \in {"RUNNING", "FAILED"}
    BY <1>1, <2>1 DEF JobSound, Unattended
  <2> QED BY <1>6, <2>2 DEF Summarised
<1>21. JobSound(j)'
  BY <1>11, <1>15, <1>16, <1>17, <1>18, <1>19, <1>20 DEF JobSound
<1> QED BY <1>2, <1>6, <1>8, <1>9, <1>21, OneJobMoves DEF JobsIInv

-----------------------------------------------------------------------------
(* Requests *)

LEMMA CreateStep ==
  ASSUME JobsIInv, NEW j \in Job, NEW products \in Selections, CreateJob(j, products)
  PROVE  JobsIInv'
<1> DEFINE row == [status |-> "PENDING", items |-> [p \in products |-> "PENDING"],
                   succeeded |-> 0, failed |-> 0]
<1>1. JobsShape /\ JobSound(j) /\ OneRunning
  BY DEF JobsIInv
<1>2. /\ job[j] = Unused /\ job' = [job EXCEPT ![j] = row] /\ created' = created \cup {j}
      /\ UNCHANGED <<gone, drain, todo, worker, crashes>>
  BY DEF CreateJob
<1>3. products \in (SUBSET Product) \ {{}}
  BY JobsAssumption
<1>4. row \in JobRow
  <2> DEFINE items == [p \in products |-> "PENDING"]
  <2>1. items \in [products -> ItemStatus]
    BY DEF ItemStatus
  <2> HIDE DEF items
  <2> DEFINE its == UNION {[ps -> ItemStatus] : ps \in (SUBSET Product) \ {{}}}
  <2>2. items \in its
    BY <1>3, <2>1
  <2>3. JobRow = [status : ProductSyncJobStatus, items : its, succeeded : Nat, failed : Nat]
    BY DEF JobRow
  <2> HIDE DEF its
  <2>4. [status |-> "PENDING", items |-> items, succeeded |-> 0, failed |-> 0] \in JobRow
    BY <2>2, <2>3 DEF ProductSyncJobStatus
  <2> QED BY <2>4 DEF items
<1>5. job'[j] = row /\ \A k \in Job : k # j => job'[k] = job[k]
  BY <1>1, <1>2 DEF JobsShape
<1>6. Items(j)' = products /\ PendingItems(j)' = products
  BY <1>5 DEF Items, PendingItems, ItemsThatAre
<1>7. ItemsThatAre(j, "SYNCED")' = {} /\ ItemsThatAre(j, "ERROR")' = {}
  BY <1>5 DEF Items, ItemsThatAre
<1>8. job'[j].status = "PENDING" /\ job'[j].succeeded = 0 /\ job'[j].failed = 0
  BY <1>5
<1>9. JobsShape'
  <2> HIDE DEF row
  <2> QED BY <1>1, <1>2, <1>4 DEF JobsShape
<1> HIDE DEF row
<1>10. Quiet(j) /\ \A w \in Worker : InHand(j, w) = {}
  BY <1>1, <1>2, UnusedIsEmpty DEF JobSound, Unattended, Unrecorded, Quiet, At
<1>11. Disjoint(j)' /\ Unrecorded(j)'
  BY <1>1, <1>2, <1>10 DEF JobSound, Disjoint, Unrecorded, InHand, Quiet, At
<1>12. Unattended(j)' /\ Covered(j)'
  BY <1>2, <1>8, <1>10 DEF Unattended, Quiet, At, Covered
<1>13. FailureCounted(j)' /\ Counted(j)' /\ Summarised(j)'
  BY <1>7, <1>8, FS_EmptySet DEF FailureCounted, Counted, Summarised
<1>14. JobSound(j)'
  BY <1>11, <1>12, <1>13 DEF JobSound
<1>15. OneRunning'
  <2>1. job[j].status = "UNUSED"
    BY <1>2, UnusedIsEmpty
  <2> QED BY <1>1, <1>2, <1>5, <1>8, <2>1 DEF OneRunning
<1> QED BY <1>2, <1>5, <1>9, <1>14, <1>15, OneJobMoves DEF JobsIInv

LEMMA RemoveStep ==
  ASSUME JobsIInv, NEW p \in Product, RemoveProduct(p)
  PROVE  JobsIInv'
<1>1. \A j \in Job : JobSound(j)'
  BY Untouched DEF JobsIInv, RemoveProduct
<1> QED BY <1>1 DEF JobsIInv, JobsShape, RemoveProduct, OneRunning

-----------------------------------------------------------------------------
(* The loop *)

(* There is an oldest one of the jobs that are pending.                    *)
LEMMA OldestIsAJob ==
  ASSUME NEW jobs \in SUBSET Job, jobs # {}
  PROVE  Oldest(jobs) \in jobs
<1> DEFINE upTo(j) == {k \in jobs : k <= j}
<1> DEFINE prefixes == {upTo(j) : j \in jobs}
<1>1. IsFiniteSet(jobs)
  <2>1. IsFiniteSet(1..MaxJobs)
    BY FS_Interval, JobsAssumption
  <2> QED BY <2>1, FS_Subset DEF Job
<1>2. \A k \in jobs : upTo(k) \in FiniteSubsetsOf(jobs) /\ upTo(k) \subseteq jobs
  <2>1. \A k \in jobs : upTo(k) \in SUBSET jobs
    OBVIOUS
  <2> HIDE DEF upTo
  <2> QED BY <1>1, <2>1, FS_FiniteSubsetsOfFinite
<1>3. \E s \in prefixes : \A t \in prefixes : <<t, s>> \notin StrictSubsetOrdering(jobs)
  <2> HIDE DEF upTo
  <2>1. prefixes \subseteq FiniteSubsetsOf(jobs) /\ prefixes # {}
    BY <1>2
  <2> HIDE DEF prefixes
  <2> QED BY <2>1, FS_StrictSubsetOrderingWellFounded, WFMin
<1>4. PICK j \in jobs : \A k \in jobs : <<upTo(k), upTo(j)>> \notin StrictSubsetOrdering(jobs)
  BY <1>3
<1>5. ASSUME NEW k \in jobs PROVE j <= k
  <2>1. j \in Nat /\ k \in Nat /\ \A i \in jobs : i \in Nat
    BY DEF Job
  <2>2. SUFFICES ASSUME k < j PROVE FALSE
    BY <2>1
  <2>3. ASSUME NEW i \in upTo(k) PROVE i \in upTo(j)
    BY <2>1, <2>2
  <2>4. j \in upTo(j) /\ j \notin upTo(k)
    BY <2>1, <2>2
  <2> HIDE DEF upTo
  <2>5. <<upTo(k), upTo(j)>> \in StrictSubsetOrdering(jobs)
    BY <1>2, <2>3, <2>4 DEF StrictSubsetOrdering
  <2> QED BY <1>4, <2>5
<1> QED BY <1>5 DEF Oldest

(* The loop looks, sleeps or is woken: nothing runs before or after.       *)
LEMMA LoopStep ==
  ASSUME JobsIInv, Look \/ Sleep \/ \E j \in Job : Schedule(j)
  PROVE  JobsIInv'
<1>1. \A k \in Job : JobSound(k)'
  BY Untouched DEF JobsIInv, Look, Sleep, Schedule
<1>2. UNCHANGED <<job, gone, todo, worker, crashes>> /\ created' \subseteq created
  BY DEF Look, Sleep, Schedule
<1>3. /\ drain' \in [at : {"asleep", "look", "found", "wait"}, job : Job \cup {NoJob}]
      /\ \A k \in Job : drain' = [at |-> "wait", job |-> k] <=> drain = [at |-> "wait", job |-> k]
  <2>1. CASE Look
    <3> DEFINE next == IF Pending = {} THEN NoJob ELSE Oldest(Pending)
    <3>1. next \in Job \cup {NoJob}
      BY OldestIsAJob DEF Pending
    <3> HIDE DEF next
    <3>2. drain' = [at |-> "found", job |-> next] /\ drain.at = "look"
      BY <2>1 DEF Look, next
    <3> QED BY <3>1, <3>2
  <2>2. CASE Sleep
    BY <2>2 DEF Sleep, Resting
  <2>3. ASSUME NEW j \in Job, Schedule(j)
        PROVE  /\ drain' \in [at : {"asleep", "look", "found", "wait"}, job : Job \cup {NoJob}]
               /\ \A k \in Job : drain' = [at |-> "wait", job |-> k]
                                    <=> drain = [at |-> "wait", job |-> k]
    BY <2>3 DEF Schedule, Resting, Looking, JobsIInv, JobsShape
  <2> QED BY <2>1, <2>2, <2>3
<1>4. JobsShape'
  BY <1>2, <1>3 DEF JobsIInv, JobsShape
<1>5. OneRunning'
  BY <1>2, <1>3 DEF JobsIInv, OneRunning
<1> QED BY <1>1, <1>4, <1>5 DEF JobsIInv

(* The claim of a job puts every item that is pending into a batch.        *)
LEMMA ClaimStep ==
  ASSUME JobsIInv, NEW j \in Job, ClaimJob(j)
  PROVE  JobsIInv'
<1> DEFINE batches == {b \cap PendingItems(j) : b \in Groups} \ {{}}
<1>1. JobsShape /\ JobSound(j) /\ OneRunning
  BY DEF JobsIInv
<1>2. /\ drain = [at |-> "found", job |-> j] /\ job[j].status = "PENDING"
      /\ job' = [job EXCEPT ![j].status = "RUNNING"]
      /\ todo' = [todo EXCEPT ![j] = batches]
      /\ drain' = [at |-> "wait", job |-> j]
      /\ UNCHANGED <<gone, created, worker, crashes>>
  BY DEF ClaimJob
<1>3. job[j] \in JobRow /\ Items(j) \subseteq Product
  BY <1>1, <1>2, RowFacts DEF Unused
<1>4. PendingItems(j) \subseteq Items(j)
  BY DEF PendingItems, ItemsThatAre
<1>5. /\ job'[j] \in JobRow /\ job'[j].status = "RUNNING" /\ job'[j].items = job[j].items
      /\ job'[j].succeeded = job[j].succeeded /\ job'[j].failed = job[j].failed
  <2> DEFINE Rows(its) == [status : ProductSyncJobStatus, items : its,
                           succeeded : Nat, failed : Nat]
  <2>1. PICK its : JobRow = Rows(its)
    BY DEF JobRow
  <2>2. job'[j] = [job[j] EXCEPT !.status = "RUNNING"]
    BY <1>1, <1>2 DEF JobsShape
  <2> QED BY <1>3, <2>1, <2>2 DEF ProductSyncJobStatus
<1>6. \A k \in Job : k # j => job'[k] = job[k] /\ todo'[k] = todo[k]
  BY <1>1, <1>2 DEF JobsShape
<1>7. todo'[j] = batches /\ batches \in SUBSET SUBSET Product
  BY <1>1, <1>2, <1>3, <1>4 DEF JobsShape
<1>8. JobsShape'
  <2>1. job' = [job EXCEPT ![j] = job'[j]]
    BY <1>1, <1>2 DEF JobsShape
  <2> HIDE DEF batches
  <2> QED BY <1>1, <1>2, <1>5, <1>7, <2>1 DEF JobsShape
<1>9. Items(j)' = Items(j) /\ PendingItems(j)' = PendingItems(j)
      /\ ItemsThatAre(j, "SYNCED")' = ItemsThatAre(j, "SYNCED")
      /\ ItemsThatAre(j, "ERROR")' = ItemsThatAre(j, "ERROR")
  BY <1>5 DEF Items, PendingItems, ItemsThatAre
<1>10. Quiet(j) /\ \A w \in Worker : InHand(j, w) = {} /\ InHand(j, w)' = {}
  BY <1>1, <1>2 DEF JobSound, Unattended, Unrecorded, InHand, Quiet, At
<1>11. Disjoint(j)'
  <2>1. \A b, d \in batches : b # d => b \cap d = {}
    BY JobsAssumption
  <2> HIDE DEF batches
  <2> QED BY <1>7, <1>10, <2>1 DEF Disjoint
<1>12. Unrecorded(j)'
  <2>1. \A b \in batches : b # {} /\ b \subseteq PendingItems(j)
    OBVIOUS
  <2> HIDE DEF batches
  <2> QED BY <1>1, <1>2, <1>7, <1>9, <1>10, <2>1 DEF JobSound, Unrecorded, InHand
<1>13. Unattended(j)' /\ Covered(j)'
  <2>1. ASSUME NEW p \in PendingItems(j) PROVE \E b \in batches : p \in b
    <3>1. PICK b \in Groups : p \in b
      BY <1>3, <1>4, JobsAssumption
    <3>2. b \cap PendingItems(j) \in batches /\ p \in b \cap PendingItems(j)
      BY <3>1
    <3> QED BY <3>2
  <2> HIDE DEF batches
  <2> QED BY <1>5, <1>7, <1>9, <2>1 DEF Unattended, Covered
<1>14. FailureCounted(j)' /\ Counted(j)' /\ Summarised(j)'
  BY <1>1, <1>2, <1>5, <1>9 DEF JobSound, FailureCounted, Counted, Summarised
<1>15. JobSound(j)'
  BY <1>11, <1>12, <1>13, <1>14 DEF JobSound
<1>16. OneRunning'
  BY <1>1, <1>2, <1>5, <1>6 DEF OneRunning
<1> QED BY <1>2, <1>6, <1>8, <1>15, <1>16, OneJobMoves DEF JobsIInv

(* The loop ends the job that runs.                                        *)
LEMMA EndStep ==
  ASSUME JobsIInv, NEW j \in Job, CompleteJob(j) \/ FailJob(j)
  PROVE  JobsIInv'
<1> DEFINE status == job'[j].status
<1>1. JobsShape /\ JobSound(j) /\ OneRunning
  BY DEF JobsIInv
<1>2. /\ drain = [at |-> "wait", job |-> j] /\ drain' = Looking
      /\ UNCHANGED <<gone, created, todo, worker, crashes>>
  BY DEF CompleteJob, FailJob
<1>3. job[j].status = "RUNNING"
  BY <1>1, <1>2 DEF OneRunning
<1>4. job[j] \in JobRow
  BY <1>1, <1>3, RowFacts DEF Unused
<1>5. PICK end \in {"COMPLETED", "COMPLETED_WITH_ERRORS", "FAILED"} :
        /\ job' = [job EXCEPT ![j].status = end]
        /\ end = "COMPLETED" => job[j].failed = 0 /\ Quiet(j)
        /\ end = "COMPLETED_WITH_ERRORS" => job[j].failed # 0 /\ Quiet(j)
  BY DEF CompleteJob, FailJob
<1>6. /\ job'[j] \in JobRow /\ job'[j].status = end /\ job'[j].items = job[j].items
      /\ job'[j].succeeded = job[j].succeeded /\ job'[j].failed = job[j].failed
  <2> DEFINE Rows(its) == [status : ProductSyncJobStatus, items : its,
                           succeeded : Nat, failed : Nat]
  <2>1. PICK its : JobRow = Rows(its)
    BY DEF JobRow
  <2>2. job'[j] = [job[j] EXCEPT !.status = end]
    BY <1>1, <1>5 DEF JobsShape
  <2> QED BY <1>4, <2>1, <2>2 DEF ProductSyncJobStatus
<1>7. \A k \in Job : k # j => job'[k] = job[k]
  BY <1>1, <1>5 DEF JobsShape
<1>8. JobsShape'
  <2>1. job' = [job EXCEPT ![j] = job'[j]]
    BY <1>1, <1>5 DEF JobsShape
  <2> QED BY <1>1, <1>2, <1>6, <2>1 DEF JobsShape, Looking
<1>9. Items(j)' = Items(j) /\ PendingItems(j)' = PendingItems(j)
      /\ ItemsThatAre(j, "SYNCED")' = ItemsThatAre(j, "SYNCED")
      /\ ItemsThatAre(j, "ERROR")' = ItemsThatAre(j, "ERROR")
  BY <1>6 DEF Items, PendingItems, ItemsThatAre
<1>10. Disjoint(j)' /\ Unrecorded(j)'
  BY <1>1, <1>2, <1>9 DEF JobSound, Disjoint, Unrecorded, InHand
<1>11. Unattended(j)' /\ Covered(j)'
  BY <1>2, <1>5, <1>6 DEF Unattended, Covered, Quiet, At
<1>12. FailureCounted(j)' /\ Counted(j)'
  BY <1>1, <1>2, <1>6, <1>9 DEF JobSound, FailureCounted, Counted
<1>13. Summarised(j)'
  <2>1. SUFFICES ASSUME Quiet(j), end # "FAILED"
                 PROVE  /\ end = "COMPLETED" => ItemsThatAre(j, "SYNCED") = Items(j)
                        /\ end = "COMPLETED_WITH_ERRORS" =>
                            PendingItems(j) = {} /\ ItemsThatAre(j, "ERROR") # {}
    BY <1>5, <1>6, <1>9 DEF Summarised, PendingItems
  <2>2. PendingItems(j) = {}
    BY <1>1, <1>3, <2>1 DEF JobSound, Covered, Unrecorded, InHand, Quiet, At
  <2>3. \A p \in Items(j) : job[j].items[p] \in ItemStatus
    BY <1>1, <1>3, RowFacts DEF Unused
  <2> QED BY <1>1, <1>5, <2>2, <2>3
          DEF JobSound, FailureCounted, PendingItems, ItemsThatAre, ItemStatus
<1>14. JobSound(j)'
  BY <1>10, <1>11, <1>12, <1>13 DEF JobSound
<1>15. OneRunning'
  BY <1>1, <1>2, <1>5, <1>6, <1>7 DEF OneRunning, Looking
<1> QED BY <1>2, <1>7, <1>8, <1>14, <1>15, OneJobMoves DEF JobsIInv

-----------------------------------------------------------------------------
(* The process *)

LEMMA RestartStep ==
  ASSUME JobsIInv, JobsRestart
  PROVE  JobsIInv'
<1>1. /\ JobsShape /\ OneRunning /\ \A j \in Job : JobSound(j)
      /\ job' = [j \in Job |-> [job[j] EXCEPT !.status = Restarted(job[j].status)]]
      /\ todo' = [j \in Job |-> {}]
      /\ worker' = [j \in Job |-> [w \in Worker |-> IdleWorker]]
      /\ created' = {} /\ drain' = Looking /\ gone' = gone /\ crashes' = crashes + 1
  BY DEF JobsIInv, JobsRestart
<1>2. ASSUME NEW j \in Job
      PROVE  /\ job'[j] \in JobRow \cup {Unused}
             /\ job'[j].status = Restarted(job[j].status) /\ job'[j].items = job[j].items
             /\ job'[j].succeeded = job[j].succeeded /\ job'[j].failed = job[j].failed
  <2>1. job'[j] = [job[j] EXCEPT !.status = Restarted(job[j].status)]
    BY <1>1
  <2>2. CASE job[j] = Unused
    BY <2>1, <2>2 DEF Unused, Restarted
  <2>3. CASE job[j] # Unused
    <3> DEFINE Rows(its) == [status : ProductSyncJobStatus, items : its,
                             succeeded : Nat, failed : Nat]
    <3>1. PICK its : JobRow = Rows(its)
      BY DEF JobRow
    <3>2. job[j] \in JobRow
      BY <1>1, <2>3, RowFacts
    <3> QED BY <2>1, <3>1, <3>2 DEF ProductSyncJobStatus, Restarted
  <2> QED BY <2>2, <2>3
<1>3. JobsShape'
  <2>1. job' \in [Job -> JobRow \cup {Unused}]
    BY <1>1, <1>2
  <2> QED BY <1>1, <2>1, IdleWorkerType DEF JobsShape, Looking
<1>4. OneRunning'
  BY <1>1, <1>2 DEF OneRunning, Looking, Restarted
<1>5. ASSUME NEW j \in Job PROVE JobSound(j)'
  <2>1. Items(j)' = Items(j) /\ PendingItems(j)' = PendingItems(j)
        /\ ItemsThatAre(j, "SYNCED")' = ItemsThatAre(j, "SYNCED")
        /\ ItemsThatAre(j, "ERROR")' = ItemsThatAre(j, "ERROR")
        /\ ItemsThatAre(j, "PENDING")' = ItemsThatAre(j, "PENDING")
    BY <1>2 DEF Items, PendingItems, ItemsThatAre
  <2>2. todo'[j] = {} /\ \A w \in Worker : worker'[j][w] = IdleWorker
    BY <1>1
  <2>3. Disjoint(j)' /\ Unrecorded(j)' /\ Unattended(j)'
    BY <2>2 DEF Disjoint, Unrecorded, Unattended, InHand, Quiet, At, IdleWorker
  <2>4. Covered(j)'
    BY <1>2 DEF Covered, Restarted
  <2>5. FailureCounted(j)' /\ Counted(j)'
    BY <1>1, <1>2, <2>1 DEF JobSound, FailureCounted, Counted
  <2>6. Summarised(j)'
    BY <1>1, <1>2, <2>1 DEF JobSound, Summarised, Restarted
  <2> QED BY <2>3, <2>4, <2>5, <2>6 DEF JobSound
<1> QED BY <1>3, <1>4, <1>5 DEF JobsIInv

LEMMA JobsInitially == ASSUME JobsInit PROVE JobsIInv
<1>1. \A j \in Job : job[j] = Unused /\ todo[j] = {}
                    /\ \A w \in Worker : worker[j][w] = IdleWorker
  BY DEF JobsInit
<1>2. JobsShape
  BY IdleWorkerType DEF JobsInit, JobsShape, Resting
<1>3. OneRunning
  BY <1>1, UnusedIsEmpty DEF OneRunning, JobsInit, Resting
<1>4. ASSUME NEW j \in Job PROVE JobSound(j)
  <2>1. /\ Items(j) = {} /\ \A status : ItemsThatAre(j, status) = {}
        /\ job[j].status = "UNUSED" /\ job[j].failed = 0 /\ job[j].succeeded = 0
    BY <1>1, UnusedIsEmpty
  <2>2. Disjoint(j) /\ Unrecorded(j) /\ Unattended(j) /\ Covered(j)
    BY <1>1, <2>1 DEF Disjoint, Unrecorded, Unattended, Covered, InHand, Quiet, At, IdleWorker
  <2>3. FailureCounted(j) /\ Counted(j) /\ Summarised(j)
    BY <2>1, FS_EmptySet DEF FailureCounted, Counted, Summarised
  <2> QED BY <2>2, <2>3 DEF JobSound
<1> QED BY <1>2, <1>3, <1>4 DEF JobsIInv

LEMMA JobsStutters == ASSUME JobsIInv, UNCHANGED jobVars PROVE JobsIInv'
<1>1. \A j \in Job : JobSound(j)'
  BY Untouched DEF JobsIInv, jobVars
<1> QED BY <1>1 DEF JobsIInv, JobsShape, OneRunning, jobVars

LEMMA WorkStep ==
  ASSUME JobsIInv, NEW j \in Job, NEW w \in Worker, Work(j, w)
  PROVE  JobsIInv'
<1>1. CASE \E b \in todo[j] : Take(j, w, b)
  BY <1>1, TakeStep
<1>2. CASE (\E ok \in SUBSET worker[j][w].batch : StoreAnswers(j, w, ok)) \/ CallFails(j, w)
  BY <1>2, AnswerStep
<1>3. ASSUME NEW p \in Product, Record(j, w, p) PROVE JobsIInv'
  BY <1>3, RecordStep, ThrowStep DEF Record
<1> QED BY <1>1, <1>2, <1>3 DEF Work

-----------------------------------------------------------------------------
(* Theorems *)

(* Whatever the stores answer, whichever products are deleted and whenever *)
(* the process restarts, the tables, the loop and the workers agree.       *)
THEOREM JobsAreSound == JobsSpec => []JobsIInv
<1>1. ASSUME JobsIInv, [JobsNext]_jobVars PROVE JobsIInv'
  <2>1. CASE Requests
    BY <1>1, <2>1, CreateStep, RemoveStep DEF Requests
  <2>2. CASE Loop
    BY <1>1, <2>2, LoopStep, ClaimStep, EndStep DEF Loop
  <2>3. CASE \E j \in Job, w \in Worker : Work(j, w)
    BY <1>1, <2>3, WorkStep
  <2>4. CASE JobsRestart
    BY <1>1, <2>4, RestartStep
  <2>5. CASE UNCHANGED jobVars
    BY <1>1, <2>5, JobsStutters
  <2> QED BY <1>1, <2>1, <2>2, <2>3, <2>4, <2>5 DEF JobsNext
<1> QED BY <1>1, JobsInitially, PTL DEF JobsSpec

(* bulk-product-sync: a job is of one of the shapes that the table allows, *)
(* and its workers hold items of it only.                                  *)
THEOREM JobsTyped == JobsSpec => []JobsTypeOK
<1>1. ASSUME JobsIInv PROVE JobsTypeOK
  <2>1. JobsShape /\ \A j \in Job : Unrecorded(j)
    BY <1>1 DEF JobsIInv, JobSound
  <2>2. ASSUME NEW j \in Job, job[j] # Unused
        PROVE  /\ job[j].status \in ProductSyncJobStatus
               /\ Items(j) \subseteq Product /\ Items(j) # {}
               /\ \A p \in Items(j) : job[j].items[p] \in ItemStatus
               /\ job[j].succeeded \in Nat /\ job[j].failed \in Nat
    BY <2>1, <2>2, RowFacts DEF JobRow
  <2>3. ASSUME NEW j \in Job
        PROVE  /\ todo[j] \subseteq SUBSET Items(j)
               /\ \A w \in Worker : worker[j][w].batch \cup worker[j][w].left \subseteq Items(j)
    BY <2>1 DEF Unrecorded, PendingItems, ItemsThatAre, InHand
  <2> QED BY <2>1, <2>2, <2>3 DEF JobsTypeOK, JobsShape
<1> QED BY <1>1, JobsAreSound, PTL

(* bulk-product-sync: one job runs at a time, the one the loop waits for.  *)
THEOREM JobsRunAlone == JobsSpec => []OneRunning
<1>1. JobsIInv => OneRunning
  BY DEF JobsIInv
<1> QED BY <1>1, JobsAreSound, PTL

(* bulk-product-sync: the counters of a job say how its items are, through *)
(* every interruption and resumption, while its products exist.            *)
THEOREM JobsCount == JobsSpec => []CountersMatch
<1>1. JobsIInv => CountersMatch
  BY DEF JobsIInv, JobSound, CountersMatch
<1> QED BY <1>1, JobsAreSound, PTL

(* bulk-product-sync: a job shown as completed published every product of  *)
(* it, and one completed with errors tried each.                           *)
THEOREM JobsTellTheTruth == JobsSpec => []CompletedIsTrue
<1>1. JobsIInv => CompletedIsTrue
  BY DEF JobsIInv, JobSound, CompletedIsTrue
<1> QED BY <1>1, JobsAreSound, PTL
=============================================================================
