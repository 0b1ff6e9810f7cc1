------------------------------ MODULE ReviewJobs ------------------------------
(***************************************************************************)
(* The review tables of mai-store for one project: review jobs, the runs   *)
(* (attempts) of a job, the CI watches and the cleanup tasks.  Every store *)
(* method is one BEGIN IMMEDIATE transaction of SQLite, so each is one     *)
(* atomic action here; the guards and the writes are those of the SQL.     *)
(*                                                                         *)
(* The actions take the arguments of the methods.  Who calls them, with    *)
(* what and in which order is module ReviewLoop.                           *)
(*                                                                         *)
(* Time is abstracted to what the SQL compares: "due" stands for           *)
(* next_attempt_at <= now (or NULL), "live" for lease_expires_at > now.    *)
(* Job and run ids grow in the order of creation, so the maximum of a set  *)
(* of ids is its ORDER BY created_at DESC LIMIT 1.                         *)
(***************************************************************************)
EXTENDS Integers, FiniteSets

CONSTANTS
    Prs,          \* pull requests of the project
    MaxHead,      \* bound: heads of a pull request are 1..MaxHead, in push order
    Deliveries,   \* webhook delivery ids
    Owners,       \* lease owners: one per running pool worker
    MaxJobs,      \* bound: jobs ever created
    MaxRuns,      \* bound: runs ever created
    MaxAttempts,  \* attempts of one job (max_attempts)
    None          \* SQL NULL for deliveries and owners

ASSUME NoneAssumption == None \notin Deliveries /\ None \notin Owners
ASSUME PrsAssumption == Prs # {}
ASSUME BoundAssumption ==
    /\ MaxHead \in Nat \ {0}
    /\ MaxJobs \in Nat \ {0}
    /\ MaxRuns \in Nat \ {0}
    /\ MaxAttempts \in Nat \ {0}

VARIABLES
    job,    \* project_review_jobs
    run,    \* project_review_runs
    task,   \* project_review_cleanup_tasks
    watch   \* project_review_ci_watches: the watched head of each PR, 0 for none

tables == <<job, run, task, watch>>

-----------------------------------------------------------------------------

JobIds == 1..MaxJobs
RunIds == 1..MaxRuns
Heads == 1..MaxHead

\* A reviewer agent is named by the run that created it.
TaskIds == {"reviewer", "context"} \X RunIds

Terminal == {"succeeded", "failed", "cancelled", "superseded", "skipped"}
Executing == {"preparing", "running", "submission_pending", "reconciling"}
Active == Executing \cup {"queued", "retry_waiting"}

JobRow ==
    [pr : Prs,
     head : Heads,
     status : Active \cup Terminal \cup {"absent", "deleted"},
     attempts : 0..MaxAttempts,
     due : BOOLEAN,
     reviewer : 0..MaxRuns,
     run : 0..MaxRuns,
     owner : Owners \cup {None},
     live : BOOLEAN,
     delivery : Deliveries \cup {None},
     intent : BOOLEAN,
     receipt : BOOLEAN]

RunRow == [job : 0..MaxJobs, open : BOOLEAN, reviewer : 0..MaxRuns]

NewJob(p, h, d, status) ==
    [pr |-> p, head |-> h, status |-> status, attempts |-> 0, due |-> TRUE,
     reviewer |-> 0, run |-> 0, owner |-> None, live |-> FALSE, delivery |-> d,
     intent |-> FALSE, receipt |-> FALSE]

TablesInit ==
    /\ job = [j \in JobIds |->
                 NewJob(CHOOSE p \in Prs : TRUE, 1, None, "absent")]
    /\ run = [r \in RunIds |-> [job |-> 0, open |-> FALSE, reviewer |-> 0]]
    /\ task = [t \in TaskIds |-> "absent"]
    /\ watch = [p \in Prs |-> 0]

-----------------------------------------------------------------------------
(***************************************************************************)
(* Lookups.                                                                *)
(***************************************************************************)
MaxId(S) == IF S = {} THEN 0 ELSE CHOOSE x \in S : \A y \in S : y <= x

Stored(j) == job[j].status \notin {"absent", "deleted"}

ActiveJobs(p) == {j \in JobIds : job[j].status \in Active /\ job[j].pr = p}

LoadActive(p) == MaxId(ActiveJobs(p))

\* load_job_by_delivery: any job of the PR that still carries the delivery id.
KnownDelivery(p, d) ==
    d # None /\ \E j \in JobIds : Stored(j) /\ job[j].pr = p /\ job[j].delivery = d

\* latest_same_head_failed_job, before its filter on the status.
LatestSameHead(p, h) ==
    MaxId({j \in JobIds : Stored(j) /\ job[j].pr = p /\ job[j].head = h})

RunExists(r) == run[r].job # 0 /\ Stored(run[r].job)

LatestRun(j) == MaxId({r \in RunIds : run[r].job = j})

FreeJobs == {j \in JobIds : job[j].status = "absent"}
NextJob == CHOOSE j \in FreeJobs : \A i \in FreeJobs : j <= i

FreeRuns == {r \in RunIds : run[r].job = 0}
NextRun == CHOOSE r \in FreeRuns : \A q \in FreeRuns : r <= q

Coalesce(d, old) == IF d = None THEN old ELSE d

-----------------------------------------------------------------------------
(***************************************************************************)
(* ensure_project_review_cleanup_tasks: INSERT OR IGNORE of the tasks that *)
(* the stored rows J of the jobs in S ask for.                             *)
(***************************************************************************)
Needed(j, row) ==
    {<<"reviewer", row.reviewer>>,
     <<"context", IF row.run # 0 THEN row.run ELSE LatestRun(j)>>}

EnsureTasks(S, J) ==
    [t \in TaskIds |->
        IF task[t] = "absent" /\ \E j \in S : t \in Needed(j, J[j])
        THEN "waiting" ELSE task[t]]

\* UPDATE of one row, with the cleanup tasks when the row became terminal.
WriteRow(j, row) ==
    /\ job' = [job EXCEPT ![j] = row]
    /\ task' = IF row.status \in Terminal
               THEN EnsureTasks({j}, [job EXCEPT ![j] = row]) ELSE task

-----------------------------------------------------------------------------
(***************************************************************************)
(* Admission of work.                                                      *)
(***************************************************************************)

\* Mutant of EnqueueInTransaction: the superseding UPDATE is missing.
EnqueueBeside(p, h, d, watched) ==
    /\ ~KnownDelivery(p, d) /\ FreeJobs # {}
    /\ LoadActive(p) # 0 => job[LoadActive(p)].head # h
    /\ job' = [job EXCEPT ![NextJob] = NewJob(p, h, d, "queued")]
    /\ UNCHANGED <<run, task>>

\* enqueue_in_transaction.  A watched (CI watch) signal never touches the
\* active job of the same head; a current one records its delivery on it.
EnqueueInTransaction(p, h, d, watched) ==
    LET old == LoadActive(p) IN
    /\ UNCHANGED run
    /\ \/ /\ KnownDelivery(p, d)
          /\ UNCHANGED <<job, task>>
       \/ /\ ~KnownDelivery(p, d)
          /\ old # 0
          /\ job[old].head = h
          /\ job' = IF watched THEN job
                    ELSE [job EXCEPT ![old].delivery = Coalesce(d, @)]
          /\ UNCHANGED task
       \/ /\ ~KnownDelivery(p, d)
          /\ old = 0
          /\ FreeJobs # {}
          /\ job' = [job EXCEPT ![NextJob] = NewJob(p, h, d, "queued")]
          /\ UNCHANGED task
       \/ /\ ~KnownDelivery(p, d)
          /\ old # 0
          /\ job[old].head # h
          /\ FreeJobs # {}
          /\ LET J == [job EXCEPT ![old].status = "superseded"] IN
             /\ task' = EnsureTasks({old}, J)
             /\ job' = [J EXCEPT ![NextJob] = NewJob(p, h, d, "queued")]

\* The active job of the PR whose updated_at such an enqueue moves.
Touched(p, h, d) ==
    IF ~KnownDelivery(p, d) /\ LoadActive(p) # 0 THEN {LoadActive(p)} ELSE {}

\* enqueue_project_review_job, enqueue_reviewable_project_review_job.
Enqueue(p, h, d) ==
    /\ EnqueueInTransaction(p, h, d, FALSE)
    /\ UNCHANGED watch

\* enqueue_project_review_job_from_ci_watch: compare-and-delete of the watch,
\* then the candidate (whose head is the one just evaluated, and whose delivery
\* is the one the watch was written for) is enqueued.
EnqueueFromWatch(p, seen, h, d) ==
    IF watch[p] = seen /\ seen # 0
    THEN /\ watch' = [watch EXCEPT ![p] = 0]
         /\ EnqueueInTransaction(p, h, d, TRUE)
    ELSE UNCHANGED tables

\* The candidate of one PR in admit_project_review_discovery.
AdmitCandidate(p, h) ==
    LET latest == LatestSameHead(p, h)
        failed == LoadActive(p) = 0 /\ latest # 0 /\ job[latest].status = "failed"
        row == job[latest]
    IN
    /\ UNCHANGED watch
    /\ \/ /\ failed
          /\ row.attempts < MaxAttempts /\ ~row.intent /\ ~row.receipt
          /\ job' = [job EXCEPT ![latest] =
                        [row EXCEPT !.status = "queued", !.due = TRUE,
                                    !.reviewer = 0, !.run = 0,
                                    !.owner = None, !.live = FALSE]]
          /\ UNCHANGED <<run, task>>
       \/ /\ ~failed
          /\ EnqueueInTransaction(p, h, None, FALSE)

\* A CI-pending PR of a discovery batch: upsert of its watch.
AdmitWatch(p, h) ==
    /\ watch' = [watch EXCEPT ![p] = h]
    /\ UNCHANGED <<job, run, task>>

ReplaceWatchHead(p, seen, h) ==
    /\ watch' = IF watch[p] = seen /\ seen # 0
                THEN [watch EXCEPT ![p] = h] ELSE watch
    /\ UNCHANGED <<job, run, task>>

DeleteWatch(p, seen) ==
    /\ watch' = IF watch[p] = seen THEN [watch EXCEPT ![p] = 0] ELSE watch
    /\ UNCHANGED <<job, run, task>>

-----------------------------------------------------------------------------
(***************************************************************************)
(* Leases.                                                                 *)
(***************************************************************************)

\* Mutants of ClaimDue: without the NOT EXISTS on live leases, and without the
\* one on the jobs that keep a reviewer.
ClaimDueDespiteLeases(expired) ==
    {j \in JobIds :
        /\ job[j].status \in {"queued", "retry_waiting", "reconciling"}
        /\ job[j].due
        /\ j \in expired}

ClaimDueDespiteReviewers(expired) ==
    {j \in ClaimDueDespiteLeases(expired) :
        \A i \in JobIds : job[i].owner # None => i \in expired}

\* Jobs claim_due_project_review_job may take.  "expired" holds the jobs whose
\* lease is NULL or not later than the caller's claimed_at: the worker reads
\* its clock once, before recovery, and compares with that reading here.
ClaimDue(expired) ==
    {j \in JobIds :
        /\ job[j].status \in {"queued", "retry_waiting", "reconciling"}
        /\ job[j].due
        /\ j \in expired
        /\ \A i \in JobIds : job[i].owner # None => i \in expired
        /\ \A i \in JobIds \ {j} :
              ~(job[i].reviewer # 0 /\ job[i].status \in Executing \cup {"retry_waiting"})}

\* ORDER BY reconciling first; the rest of the order is by due time.
ClaimOrder(S) ==
    IF \E j \in S : job[j].status = "reconciling"
    THEN {j \in S : job[j].status = "reconciling"} ELSE S

\* Mutant of Claim: the submission intent is not looked at.
ClaimAfresh(j, w, expired) ==
    /\ j \in ClaimOrder(ClaimDue(expired))
    /\ job' = [job EXCEPT ![j] =
                  [@ EXCEPT !.status = "preparing", !.due = TRUE, !.owner = w, !.live = TRUE]]
    /\ UNCHANGED <<run, task, watch>>

Claim(j, w, expired) ==
    /\ j \in ClaimOrder(ClaimDue(expired))
    /\ job' = [job EXCEPT ![j] =
                  [@ EXCEPT !.status = IF job[j].intent THEN "reconciling" ELSE "preparing",
                            !.due = TRUE, !.owner = w, !.live = TRUE]]
    /\ UNCHANGED <<run, task, watch>>

\* heartbeat_project_review_job: the rows its UPDATE matches.
CanHeartbeat(j, w) ==
    /\ job[j].owner = w
    /\ \/ job[j].status \in Executing
       \/ job[j].status = "succeeded" /\ job[j].receipt /\ job[j].run # 0

HeartbeatJob(j) ==
    /\ job' = [job EXCEPT ![j].live = TRUE]
    /\ UNCHANGED <<run, task, watch>>

\* The passing of time.
LeaseLapses(j) ==
    /\ job[j].live
    /\ job' = [job EXCEPT ![j].live = FALSE]
    /\ UNCHANGED <<run, task, watch>>

BecomesDue(j) ==
    /\ ~job[j].due
    /\ job' = [job EXCEPT ![j].due = TRUE]
    /\ UNCHANGED <<run, task, watch>>

-----------------------------------------------------------------------------
(***************************************************************************)
(* Saving a claimed job.  The incoming row c was read earlier, changed by  *)
(* a transition of job.rs and stamped with updated_at.  "overtaken" says   *)
(* that a later updated_at was committed since: the upsert then matches no *)
(* row, as it does for a terminal row, and the save still reports success. *)
(***************************************************************************)
Upsert(j, c, overtaken) ==
    IF job[j].status \in Terminal \/ overtaken
    THEN /\ job' = job
         /\ task' = IF c.status \in Terminal THEN EnsureTasks({j}, job) ELSE task
    ELSE WriteRow(j, c)

\* Mutant of SaveClaimed: whoever saves is taken for the owner.
SaveAnyway(j, w, c, overtaken) ==
    /\ Stored(j)
    /\ UNCHANGED <<run, watch>>
    /\ Upsert(j, c, overtaken)

\* Between two saves of one owner only the lease deadline can be later in the
\* stored row, and the later of the two is kept.
SaveClaimed(j, w, c, overtaken) ==
    /\ Stored(j)
    /\ UNCHANGED <<run, watch>>
    /\ IF job[j].owner = w
       THEN Upsert(j, IF c.owner = w THEN [c EXCEPT !.live = job[j].live] ELSE c, overtaken)
       ELSE UNCHANGED <<job, task>>

(***************************************************************************)
(* The transitions of job.rs and job_worker.rs on a row.                   *)
(***************************************************************************)
Unleased(row) == [row EXCEPT !.run = 0, !.owner = None, !.live = FALSE]

Finished(row, status) == [Unleased(row) EXCEPT !.status = status, !.due = TRUE]

ScheduleRetry(row) == [Unleased(row) EXCEPT !.status = "retry_waiting", !.due = FALSE]

BeginReconciliation(row) == [Unleased(row) EXCEPT !.status = "reconciling", !.due = FALSE]

StartRunning(row, reviewer) ==
    [row EXCEPT !.status = "running", !.reviewer = reviewer]

\* skip_claimed_project_review_job_for_ci_pending, when it does skip.
CanSkipForCi(j, w, d) ==
    /\ Stored(j)
    /\ job[j].owner = w
    /\ job[j].status = "preparing"
    /\ job[j].delivery = d

SkipForCiPending(j) ==
    LET row == job[j] IN
    /\ WriteRow(j, Finished(row, "skipped"))
    /\ watch' = IF watch[row.pr] = 0
                THEN [watch EXCEPT ![row.pr] = row.head] ELSE watch
    /\ UNCHANGED run

-----------------------------------------------------------------------------
(***************************************************************************)
(* Attempts.                                                               *)
(***************************************************************************)
\* Mutant of CanBegin: the attempt limit is not checked again.
CanBeginForever(j, w) ==
    Stored(j) /\ job[j].status = "preparing" /\ job[j].owner = w /\ job[j].run = 0

CanBegin(j, w) ==
    /\ Stored(j)
    /\ job[j].status = "preparing"
    /\ job[j].owner = w
    /\ job[j].run = 0
    /\ job[j].attempts < MaxAttempts

Begun(row, r) == [row EXCEPT !.attempts = @ + 1, !.run = r]

\* Mutant of BeginAttempt: the job counts the attempt before its run is stored.
BeginUncounted(j, overtaken) ==
    /\ FreeRuns # {}
    /\ Upsert(j, [job[j] EXCEPT !.attempts = @ + 1], overtaken)
    /\ UNCHANGED <<run, watch>>

\* begin_claimed_project_review_attempt: the run row is inserted whether or
\* not the upsert of the job matched.
BeginAttempt(j, overtaken) ==
    /\ FreeRuns # {}
    /\ Upsert(j, Begun(job[j], NextRun), overtaken)
    /\ run' = [run EXCEPT ![NextRun] =
                  [job |-> j, open |-> TRUE, reviewer |-> job[j].reviewer]]
    /\ UNCHANGED watch

\* save_project_review_run with status Running: delete and re-create.
SaveRunRunning(r, reviewer) ==
    /\ run' = [run EXCEPT ![r].open = TRUE, ![r].reviewer = reviewer]
    /\ UNCHANGED <<job, task, watch>>

\* Mutant of CanFinishRun: the recovery mode is not told apart.
CanFinishPointedRun(r, recovery) ==
    RunExists(r) /\ (~run[r].open \/ job[run[r].job].run = r)

\* finish_project_review_run_with_mode; "recovery" is ExpiredRecovery mode.
CanFinishRun(r, recovery) ==
    LET j == run[r].job IN
    /\ RunExists(r)
    /\ \/ ~run[r].open
       \/ job[j].run = r
       \/ recovery /\ job[j].run = 0 /\ ~job[j].live

FinishRun(r) ==
    LET j == run[r].job IN
    /\ run' = [run EXCEPT ![r].open = FALSE]
    /\ job' = IF run[r].open /\ job[j].run = r /\ job[j].status \in Terminal
              THEN [job EXCEPT ![j] = Unleased(@)] ELSE job
    /\ UNCHANGED <<task, watch>>

-----------------------------------------------------------------------------
(***************************************************************************)
(* Submission.                                                             *)
(***************************************************************************)

\* Mutant of CanRecordIntent: an existing receipt is no error.
CanRecordIntentAgain(j) == Stored(j)

\* record_project_review_submission_intent: an existing receipt is an error;
\* no other status is.
CanRecordIntent(j) == Stored(j) /\ ~job[j].receipt

RecordIntent(j) ==
    /\ job' = [job EXCEPT ![j] =
                  [@ EXCEPT !.intent = TRUE,
                            !.status = IF job[j].status = "reconciling"
                                       THEN "reconciling" ELSE "submission_pending"]]
    /\ UNCHANGED <<run, task, watch>>

MarkReconciling(j) ==
    /\ job' = IF Stored(j) /\ job[j].intent /\ ~job[j].receipt
              THEN [job EXCEPT ![j].status = "reconciling"] ELSE job
    /\ UNCHANGED <<run, task, watch>>

\* Mutant of CanRecordReceipt: the archive of the latest run is not required.
CanRecordReceiptEarly(j) ==
    /\ Stored(j)
    /\ job[j].intent /\ ~job[j].receipt
    /\ job[j].status \in {"submission_pending", "reconciling"}

\* record_project_review_submission_receipt, first time.  A job that lost its
\* active run needs the archive of its latest run, if it has one.
CanRecordReceipt(j) ==
    LET last == LatestRun(j) IN
    /\ Stored(j)
    /\ job[j].intent /\ ~job[j].receipt
    /\ job[j].status \in {"submission_pending", "reconciling"}
    /\ \/ job[j].run # 0
       \/ last # 0 /\ ~run[last].open
       \/ last = 0 /\ job[j].attempts = 0

RecordReceipt(j) ==
    LET row == job[j] IN
    /\ WriteRow(j, [row EXCEPT !.receipt = TRUE, !.status = "succeeded", !.due = TRUE,
                               !.owner = IF row.run = 0 THEN None ELSE row.owner,
                               !.live = row.run # 0 /\ row.live])
    /\ UNCHANGED <<run, watch>>

-----------------------------------------------------------------------------
(***************************************************************************)
(* Recovery and cancellation.                                              *)
(***************************************************************************)

\* The open runs load_expired_unfinished_*_project_review_attempts lists.
ExpiredOpenRuns(expired, statuses) ==
    {r \in RunIds :
        /\ RunExists(r) /\ run[r].open
        /\ job[run[r].job].run = r
        /\ job[run[r].job].status \in statuses
        /\ run[r].job \in expired}

\* release_expired_archived_terminal_project_review_ownership
ReleaseTerminalOwnership(expired) ==
    /\ job' = [j \in JobIds |->
                  IF /\ job[j].status \in Terminal /\ job[j].run # 0
                     /\ j \in expired /\ ~run[job[j].run].open
                  THEN Unleased(job[j]) ELSE job[j]]
    /\ UNCHANGED <<run, task, watch>>

\* Mutant of MustRecover: a job still preparing is forgotten.
MustRecoverStarted(j, expired) ==
    /\ j \in expired
    /\ \/ job[j].status \in {"running", "submission_pending"}
       \/ job[j].status = "reconciling" /\ job[j].owner # None

\* recover_expired_project_review_jobs
MustRecover(j, expired) ==
    /\ j \in expired
    /\ \/ job[j].status \in {"preparing", "running", "submission_pending"}
       \/ job[j].status = "reconciling" /\ job[j].owner # None

RecoverJobs(expired) ==
    /\ run' = [r \in RunIds |->
                  IF \E j \in expired : job[j].run = r /\ job[j].status \in Executing
                  THEN [run[r] EXCEPT !.open = FALSE] ELSE run[r]]
    /\ job' = [j \in JobIds |->
                  IF MustRecover(j, expired)
                  THEN [Unleased(job[j]) EXCEPT
                          !.status = IF job[j].intent THEN "reconciling"
                                     ELSE "retry_waiting",
                          !.due = TRUE]
                  ELSE job[j]]
    /\ UNCHANGED <<task, watch>>

\* cancel_active_project_review_jobs
CancelActive ==
    LET S == {j \in JobIds : job[j].status \in Active}
        J == [j \in JobIds |->
                 IF j \in S
                 THEN [job[j] EXCEPT !.status = "cancelled", !.owner = None, !.live = FALSE]
                 ELSE job[j]]
    IN /\ job' = J
       /\ task' = EnsureTasks(S, J)
       /\ UNCHANGED <<run, watch>>

-----------------------------------------------------------------------------
(***************************************************************************)
(* Cleanup tasks and retention.                                            *)
(***************************************************************************)
TaskJob(t) == run[t[2]].job

ClaimTask(t) ==
    /\ task[t] \in {"waiting", "running"}
    /\ job[TaskJob(t)].run = 0
    /\ task' = [task EXCEPT ![t] = "running"]
    /\ UNCHANGED <<job, run, watch>>

CompleteTask(t) ==
    /\ task[t] = "running"
    /\ task' = [task EXCEPT ![t] = "succeeded"]
    /\ UNCHANGED <<job, run, watch>>

\* prune_project_review_jobs_before_batch, one job of the batch.
Prune(j) ==
    /\ job[j].status \in Terminal
    /\ ~job[j].live
    /\ \A t \in TaskIds : TaskJob(t) = j => task[t] \in {"absent", "succeeded"}
    /\ job' = [job EXCEPT ![j].status = "deleted"]
    /\ task' = [t \in TaskIds |-> IF TaskJob(t) = j THEN "absent" ELSE task[t]]
    /\ UNCHANGED <<run, watch>>

-----------------------------------------------------------------------------
TypeOK ==
    /\ job \in [JobIds -> JobRow]
    /\ run \in [RunIds -> RunRow]
    /\ task \in [TaskIds -> {"absent", "waiting", "running", "succeeded"}]
    /\ watch \in [Prs -> 0..MaxHead]
=============================================================================
