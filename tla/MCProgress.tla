------------------------------ MODULE MCProgress ------------------------------
(* Product jobs, quotations and accruals under the fairness of the process. *)
(* They share nothing, so each behaviour lets one of them move, and only    *)
(* the steps of that one are fair in it.  Accruals move with restarts, or   *)
(* without them and then under fairness, one request fewer at a time.       *)
EXTENDS ProductSyncJobs, Quotations, PointsInvoices

VARIABLE moving

(* Three products: two of one store and parent, one of another.            *)
CONSTANTS p1, p2, p3
Products == {p1, p2, p3}
Selected == {{p1, p2}, {p2, p3}}
Batches == {{p1, p2}, {p3}}

(* The contents of an operation are interchangeable: one stands for all    *)
(* those it may begin with.  So are requests: one stays out of "accruals". *)
Spare == CHOOSE r \in Request : TRUE
ProgressInit ==
    /\ moving \in {"jobs", "quotations", "accruals", "restarts"}
    /\ JobsInit /\ QuotationsInit /\ Init
    /\ quoted.content = CHOOSE c \in Content : TRUE
ProgressNext ==
    /\ UNCHANGED moving
    /\ \/ moving = "jobs" /\ JobsNext /\ UNCHANGED <<quotationVars, vars>>
       \/ moving = "quotations" /\ QuotationsNext /\ UNCHANGED <<jobVars, vars>>
       \/ /\ moving = "accruals" /\ Next /\ ~Crash
          /\ UNCHANGED <<jobVars, quotationVars, request[Spare]>>
       \/ moving = "restarts" /\ Next /\ UNCHANGED <<jobVars, quotationVars>>

ProgressSpec ==
    /\ ProgressInit
    /\ [][ProgressNext]_<<moving, jobVars, quotationVars, vars>>
    /\ WF_jobVars(moving = "jobs" /\ Loop)
    /\ \A j \in Job, w \in Worker : WF_jobVars(moving = "jobs" /\ Work(j, w))
    /\ \A r \in Quoter : WF_quotationVars(moving = "quotations" /\ QuoterStep(r))
    /\ \A r \in Request : WF_vars(moving = "accruals" /\ Continue(r))

(* Every job the loop sees ends, and no quotation and no invoice keeps the *)
(* claim of a request that ended, unless a restart ended it.               *)
ProgressSettles ==
    /\ JobsEnd /\ QuotingEnds
    /\ moving # "restarts" => ClaimsAreReleased
=============================================================================
