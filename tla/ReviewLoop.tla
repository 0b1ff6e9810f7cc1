------------------------------ MODULE ReviewLoop ------------------------------
(***************************************************************************)
(* The review loop of one project: pool workers (one per running server    *)
(* instance, several during a rolling deployment), the heartbeat task and  *)
(* the Reviewer turn of each, the producers of jobs (webhooks, discovery,  *)
(* the CI watch, a user) and the cleanup loop, all working on the tables   *)
(* of module ReviewJobs.                                                   *)
(*                                                                         *)
(* A worker keeps in "copy" the job row it holds in memory, which is the   *)
(* row its next save writes.                                               *)
(***************************************************************************)
EXTENDS ReviewJobs

CONSTANTS
    Workers,   \* pool workers: one per running server instance
    Gone,      \* the lease owner name of a worker that no longer runs
    Events     \* bound: what may happen to the loop in a run, out of AllEvents

ASSUME OwnersAssumption == Gone \notin Workers /\ Owners = Workers \cup {Gone}

AllEvents ==
    {"push", "late", "discovery", "watch", "skip", "submit", "clean", "fault", "crash",
     "stop"}

ASSUME EventsAssumption == Events \subseteq AllEvents

VARIABLES
    head,     \* the head of each pull request on GitHub
    worker,   \* the pool workers
    agent     \* the Reviewer turn each worker started

vars == <<job, run, task, watch, head, worker, agent>>

-----------------------------------------------------------------------------

\* Where the pool worker stands.
Recovering == {"rec_terminal", "rec_active", "rec_jobs", "rec_done", "repair"}
Preflight == {"preflight", "preflight_save", "preflight_replace", "replace"}
Attempt == {"begin", "warning_save", "prepare", "running_save", "run_status",
            "turn_start", "turn", "finish"}
Reconcile == {"reconcile", "reconcile_save"}
Control == {"off", "startup", "idle", "claim", "reload", "finish_owned", "final_save",
            "plain_save", "stopping", "cancel_runs"}
           \cup Recovering \cup Preflight \cup Attempt \cup Reconcile

\* A row stamped with updated_at waits for its transaction.
Stamped == {"begin", "warning_save", "running_save", "preflight_save",
            "preflight_replace", "reconcile_save", "final_save",
            "plain_save"}

WorkerRow ==
    [pc : Control,
     j : 0..MaxJobs,            \* the claimed job
     copy : JobRow,             \* its row in memory
     overtaken : BOOLEAN,       \* see SaveClaimed
     run : 0..MaxRuns,          \* the run of this attempt
     result : {"ok", "timeout", "err", "unfinalized"},
     heartbeat : BOOLEAN,       \* the heartbeat task is alive
     cancelled : BOOLEAN,       \* the attempt's cancellation token
     expired : SUBSET JobIds,   \* leases not later than claimed_at
     todo : SUBSET RunIds,      \* runs left to finish
     kept : 0..MaxRuns]         \* reviewer the singleton repair keeps

NoCopy == NewJob(CHOOSE p \in Prs : TRUE, 1, None, "absent")

Resting(pc) ==
    [pc |-> pc, j |-> 0, copy |-> NoCopy, overtaken |-> FALSE, run |-> 0,
     result |-> "ok", heartbeat |-> FALSE, cancelled |-> FALSE,
     expired |-> {}, todo |-> {}, kept |-> 0]

\* The Reviewer turn: its input is queued first; "checked" once the submission
\* tool has compared the head with GitHub, "posting" once it has recorded its
\* intent.  run: the run the turn is recorded on, 0 if that failed.
AgentRow == [j : 0..MaxJobs, reviewer : 0..MaxRuns, run : 0..MaxRuns,
             step : {"none", "queued", "turn", "checked", "posting"}]

NoAgent == [j |-> 0, reviewer |-> 0, run |-> 0, step |-> "none"]

Init ==
    /\ TablesInit
    /\ head = [p \in Prs |-> 1]
    /\ worker = [w \in Workers |-> Resting("off")]
    /\ agent = [w \in Workers |-> NoAgent]

LoopTypeOK ==
    /\ TypeOK
    /\ head \in [Prs -> Heads]
    /\ worker \in [Workers -> WorkerRow]
    /\ agent \in [Workers -> AgentRow]

-----------------------------------------------------------------------------

Expired(w) == worker[w].expired \cup {j \in JobIds : job[j].owner = None}

Goes(w, row) == worker' = [worker EXCEPT ![w] = row]

To(w, pc) == Goes(w, [worker[w] EXCEPT !.pc = pc])

Rests(w, pc) == Goes(w, Resting(pc))

\* The attempt has its result; only the finish of its run is left.
Finishes(w, result) ==
    Goes(w, [worker[w] EXCEPT !.pc = "finish", !.result = result, !.copy = NoCopy,
                              !.overtaken = FALSE])

\* The attempt is over, and with it the heartbeat.
Reloads(w, result) ==
    Goes(w, [Resting("reload") EXCEPT !.j = worker[w].j, !.result = result])

\* A lease on j was just granted or renewed: it is later than any claimed_at.
Renewed(W, j) ==
    [v \in Workers |-> [W[v] EXCEPT !.expired = @ \ {j}]]

\* A write to the jobs in S by somebody else: it overtakes a stamped row of a
\* worker when its clock reading is the later one, which is not determined.
Overtakes(S) ==
    \E V \in SUBSET {w \in Workers : worker[w].j \in S /\ worker[w].pc \in Stamped} :
        worker' = [w \in Workers |->
                     IF w \in V THEN [worker[w] EXCEPT !.overtaken = TRUE] ELSE worker[w]]

\* The same for a write of worker w, which then rests.
Overtaking(w, S) ==
    \E V \in SUBSET {v \in Workers \ {w} : worker[v].j \in S /\ worker[v].pc \in Stamped} :
        worker' = [v \in Workers |->
                     IF v = w THEN Resting("idle")
                     ELSE IF v \in V THEN [worker[v] EXCEPT !.overtaken = TRUE]
                     ELSE worker[v]]

\* Stamps the row c and goes to the save at pc.
Save(w, pc, c) ==
    Goes(w, [worker[w] EXCEPT !.pc = pc, !.copy = c, !.overtaken = FALSE])

-----------------------------------------------------------------------------
(***************************************************************************)
(* Producers.                                                              *)
(***************************************************************************)

Push(p) ==
    /\ "push" \in Events
    /\ head[p] < MaxHead
    /\ head' = [head EXCEPT ![p] = @ + 1]
    /\ UNCHANGED <<tables, worker, agent>>

\* A pull_request or completed check webhook, or a manual request (no delivery
\* id).  A webhook may be delivered late, so its head may be an older one.
Signal(p) ==
    \E h \in 1..head[p], d \in Deliveries \cup {None} :
        /\ h = head[p] \/ "late" \in Events
        /\ Enqueue(p, h, d)
        /\ Overtakes(Touched(p, h, d))
        /\ UNCHANGED <<head, agent>>

Discover(p) ==
    /\ "discovery" \in Events
    /\ \E h \in 1..head[p] :
          \/ AdmitCandidate(p, h) /\ Overtakes(Touched(p, h, None))
          \/ AdmitWatch(p, h) /\ UNCHANGED worker
    /\ UNCHANGED <<head, agent>>

\* reconcile_project_review_ci_watch: the watch is read, the PR evaluated, and
\* the outcome written only if the watch still has the head that was read.
CheckWatch(p) ==
    /\ "watch" \in Events
    /\ watch[p] # 0
    /\ \E h \in 1..head[p] :
          \/ \E d \in Deliveries \cup {None} : EnqueueFromWatch(p, watch[p], h, d)
          \/ ReplaceWatchHead(p, watch[p], h)
          \/ DeleteWatch(p, watch[p])
    /\ UNCHANGED <<head, worker, agent>>

-----------------------------------------------------------------------------
(***************************************************************************)
(* Pool worker: startup, recovery, claim.                                  *)
(***************************************************************************)

\* finish_project_review_run_at refuses a run whose turn is running: that turn
\* has no canonical history yet.
Archivable(r) ==
    \A w \in Workers : agent[w].run = r => agent[w].step \in {"none", "queued"}

Finishable(r, recovery) == CanFinishRun(r, recovery) /\ Archivable(r)

OpenRuns == {r \in RunIds : RunExists(r) /\ run[r].open}

OwnedReviewers == {job[j].reviewer : j \in {i \in JobIds : job[i].status \in Active}} \ {0}

\* A pool worker takes a fresh owner name, so the rows of the worker that ran
\* here before belong to nobody alive.  repair_project_review_worker_startup
\* lists every open run, and keeps at most one reviewer a non-terminal job owns.
Start(w) ==
    /\ worker[w].pc = "off"
    /\ job' = [j \in JobIds |->
                  IF job[j].owner = w THEN [job[j] EXCEPT !.owner = Gone] ELSE job[j]]
    /\ \E k \in {0} \cup OwnedReviewers :
          Goes(w, [Resting("startup") EXCEPT !.todo = OpenRuns, !.kept = k])
    /\ UNCHANGED <<run, task, watch, head, agent>>

\* One run of the list is finished: by the recovery of expired leases as a run
\* its job still points to, by the singleton repair also when it does not.
Listed(w) == {r \in worker[w].todo : Finishable(r, worker[w].pc \in {"startup", "repair"})}

FinishListed(w) ==
    /\ worker[w].pc \in {"startup", "rec_terminal", "rec_active", "repair"}
    /\ \E r \in Listed(w) :
          FinishRun(r) /\ Goes(w, [worker[w] EXCEPT !.todo = @ \ {r}])
    /\ UNCHANGED <<head, agent>>

\* An error of any step of startup or recovery starts the pass over.
PassFails(w) ==
    /\ worker[w].pc \in {"startup", "claim"} \cup Recovering
    /\ "fault" \in Events \/ worker[w].todo # Listed(w)
    /\ Rests(w, IF worker[w].pc = "startup" THEN "off" ELSE "idle")
    /\ UNCHANGED <<tables, head, agent>>

\* The repair deletes every other reviewer; at startup the turn of the kept one
\* is cancelled too, unless there was nothing to repair.
Started(w) ==
    /\ worker[w].pc = "startup" /\ worker[w].todo = {}
    /\ Rests(w, "idle")
    /\ \/ agent' = [agent EXCEPT ![w] = NoAgent]
       \/ agent[w].reviewer = worker[w].kept /\ UNCHANGED agent
    /\ UNCHANGED <<tables, head>>

\* The worker reads its clock and lists the runs of expired terminal jobs.
Recover(w) ==
    /\ worker[w].pc = "idle"
    /\ LET expired == {j \in JobIds : ~job[j].live} IN
       Goes(w, [Resting("rec_terminal") EXCEPT
                  !.expired = expired,
                  !.todo = ExpiredOpenRuns(expired, Terminal)])
    /\ UNCHANGED <<tables, head, agent>>

RecoverActiveRuns(w) ==
    /\ worker[w].pc = "rec_terminal" /\ worker[w].todo = {}
    /\ Goes(w, [worker[w] EXCEPT !.pc = "rec_active",
                                 !.todo = ExpiredOpenRuns(Expired(w), Executing)])
    /\ UNCHANGED <<tables, head, agent>>

RecoverOwnership(w) ==
    /\ worker[w].pc = "rec_active" /\ worker[w].todo = {}
    /\ ReleaseTerminalOwnership(Expired(w))
    /\ To(w, "rec_jobs")
    /\ UNCHANGED <<head, agent>>

RecoverExpiredJobs(w) ==
    /\ worker[w].pc = "rec_jobs"
    /\ RecoverJobs(Expired(w))
    /\ To(w, "rec_done")
    /\ UNCHANGED <<head, agent>>

\* repair_project_review_singleton at run time spares the kept reviewer's run.
Repair(w) ==
    /\ worker[w].pc = "rec_done"
    /\ \E k \in {0} \cup OwnedReviewers :
          Goes(w, [worker[w] EXCEPT
                     !.pc = "repair", !.kept = k,
                     !.todo = {r \in OpenRuns : k = 0 \/ run[r].reviewer # k}])
    /\ UNCHANGED <<tables, head, agent>>

Repaired(w) ==
    /\ worker[w].pc = "repair" /\ worker[w].todo = {}
    /\ To(w, "claim")
    /\ agent' = [agent EXCEPT ![w] = IF @.reviewer = worker[w].kept THEN @ ELSE NoAgent]
    /\ UNCHANGED <<tables, head>>

ClaimJob(w) ==
    /\ worker[w].pc = "claim"
    /\ \E j \in JobIds :
          /\ Claim(j, w, Expired(w))
          /\ worker' = Renewed([worker EXCEPT ![w] =
                [Resting(IF job[j].intent THEN "reconcile" ELSE "preflight") EXCEPT
                    !.j = j, !.copy = job'[j], !.heartbeat = TRUE]], j)
    /\ UNCHANGED <<head, agent>>

NothingDue(w) ==
    /\ worker[w].pc = "claim"
    /\ ClaimDue(Expired(w)) = {}
    /\ Rests(w, "idle")
    /\ UNCHANGED <<tables, head, agent>>

-----------------------------------------------------------------------------
(***************************************************************************)
(* Heartbeat task of the claimed job.  It outlives a pool worker that is   *)
(* aborted.                                                                *)
(***************************************************************************)

Heartbeat(w) ==
    /\ worker[w].heartbeat
    /\ CanHeartbeat(worker[w].j, w)
    /\ HeartbeatJob(worker[w].j)
    /\ \E V \in SUBSET {v \in Workers : v = w /\ worker[v].pc \in Stamped} :
          worker' = Renewed([v \in Workers |->
                                IF v \in V THEN [worker[v] EXCEPT !.overtaken = TRUE]
                                ELSE worker[v]], worker[w].j)
    /\ UNCHANGED <<head, agent>>

\* The UPDATE matched no row: the attempt is cancelled unless a receipt was
\* recorded.
HeartbeatLost(w) ==
    /\ worker[w].heartbeat
    /\ ~CanHeartbeat(worker[w].j, w)
    /\ Goes(w, [worker[w] EXCEPT
                  !.heartbeat = FALSE,
                  !.cancelled = @ \/ ~Stored(worker[w].j) \/ ~job[worker[w].j].receipt])
    /\ UNCHANGED <<tables, head, agent>>

\* An error other than SQLite contention.
HeartbeatFails(w) ==
    /\ "fault" \in Events
    /\ worker[w].heartbeat
    /\ Goes(w, [worker[w] EXCEPT !.heartbeat = FALSE, !.cancelled = TRUE])
    /\ UNCHANGED <<tables, head, agent>>

-----------------------------------------------------------------------------
(***************************************************************************)
(* Preflight: the last eligibility check before a Reviewer exists.         *)
(***************************************************************************)

\* schedule_retry fails the job when no attempt, or no time, is left.
Failures(c) ==
    {Finished(c, "failed")}
    \cup (IF c.attempts < MaxAttempts THEN {ScheduleRetry(c)} ELSE {})

\* Eligible, or a manual request, which is not evaluated.
PreflightContinues(w) ==
    /\ worker[w].pc = "preflight"
    /\ Save(w, "begin", worker[w].copy)
    /\ UNCHANGED <<tables, head, agent>>

\* The evaluation failed, or a skip reason other than a moved head or
\* unfinished checks holds (draft, closed, already reviewed).
PreflightRejects(w) ==
    /\ "skip" \in Events
    /\ worker[w].pc = "preflight"
    /\ \E c \in Failures(worker[w].copy) \cup {Finished(worker[w].copy, "skipped")} :
          Save(w, "preflight_save", c)
    /\ UNCHANGED <<tables, head, agent>>

PreflightHeadChanged(w) ==
    LET c == worker[w].copy IN
    /\ worker[w].pc = "preflight"
    /\ head[c.pr] # c.head
    /\ Save(w, "preflight_replace", Finished(c, "superseded"))
    /\ UNCHANGED <<tables, head, agent>>

\* CI is still running: skip, or look again when another delivery came in.
PreflightCiPending(w) ==
    LET j == worker[w].j
        mine == Stored(j) /\ job[j].owner = w /\ job[j].status = "preparing"
    IN
    /\ "skip" \in Events
    /\ worker[w].pc = "preflight"
    /\ head[worker[w].copy.pr] = worker[w].copy.head
    /\ \/ /\ CanSkipForCi(j, w, worker[w].copy.delivery)
          /\ SkipForCiPending(j)
          /\ Rests(w, "idle")
       \/ /\ mine /\ ~CanSkipForCi(j, w, worker[w].copy.delivery)
          /\ Goes(w, [worker[w] EXCEPT !.copy = job[j]])
          /\ UNCHANGED tables
       \/ /\ ~mine
          /\ Rests(w, "off")
          /\ UNCHANGED tables
    /\ UNCHANGED <<head, agent>>

PreflightSaves(w) ==
    LET me == worker[w] IN
    /\ me.pc \in {"preflight_save", "preflight_replace"}
    /\ SaveClaimed(me.j, w, me.copy, me.overtaken)
    /\ \/ me.pc = "preflight_replace" /\ job[me.j].owner = w /\ To(w, "replace")
       \/ Rests(w, "idle")
    /\ UNCHANGED <<head, agent>>

\* enqueue_project_review_replacement of the head the evaluation returned.
Replace(w) ==
    LET c == worker[w].copy IN
    /\ worker[w].pc = "replace"
    /\ \/ \E h \in (c.head + 1)..head[c.pr] :
              Enqueue(c.pr, h, None) /\ Overtaking(w, Touched(c.pr, h, None))
       \/ UNCHANGED tables /\ Rests(w, "idle")
    /\ UNCHANGED <<head, agent>>

\* The attempt's token fired during preflight; the loop ends.
PreflightCancelled(w) ==
    /\ worker[w].pc \in Preflight /\ worker[w].cancelled
    /\ Rests(w, "off")
    /\ UNCHANGED <<tables, head, agent>>

-----------------------------------------------------------------------------
(***************************************************************************)
(* Attempt.                                                                *)
(***************************************************************************)

Begin(w) ==
    LET me == worker[w] IN
    /\ me.pc = "begin"
    /\ IF CanBegin(me.j, w)
       THEN /\ BeginAttempt(me.j, me.overtaken)
            /\ Goes(w, [me EXCEPT !.run = NextRun,
                                  !.copy = Begun(job[me.j], NextRun),
                                  !.overtaken = FALSE,
                                  !.pc = IF me.cancelled THEN "finish"
                                         ELSE IF job[me.j].reviewer = 0 THEN "warning_save"
                                         ELSE "prepare",
                                  !.result = IF me.cancelled THEN "err" ELSE "ok"])
       ELSE Reloads(w, "err") /\ UNCHANGED tables
    /\ UNCHANGED <<head, agent>>

\* Before a reviewer is created its image is prepared and the warning saved.
SaveWarning(w) ==
    LET me == worker[w] IN
    /\ me.pc = "warning_save"
    /\ SaveClaimed(me.j, w, me.copy, me.overtaken)
    /\ IF job[me.j].owner = w
       THEN Goes(w, [me EXCEPT !.pc = "prepare", !.overtaken = FALSE])
       ELSE Finishes(w, "err")
    /\ UNCHANGED <<head, agent>>

\* The reviewer of the job is resumed; without one it is created, or adopted
\* when an agent with the marker of this job exists.
Prepared(w) ==
    LET me == worker[w]
        former == {run[r].reviewer : r \in {q \in RunIds : run[q].job = me.j}}
        reviewers == IF me.copy.reviewer # 0 THEN {me.copy.reviewer}
                     ELSE {me.run} \cup (former \ {0})
    IN
    /\ me.pc = "prepare"
    /\ \E a \in reviewers : Save(w, "running_save", StartRunning(me.copy, a))
    /\ UNCHANGED <<tables, head, agent>>

\* An error or the time limit of image and reviewer, or the cancelled token.
AttemptFails(w) ==
    /\ worker[w].pc \in {"warning_save", "prepare"}
    /\ \E res \in {"timeout", "err"} : Finishes(w, res)
    /\ UNCHANGED <<tables, head, agent>>

\* A lost lease returns here without the finish of the run.
SaveRunning(w) ==
    LET me == worker[w] IN
    /\ me.pc = "running_save"
    /\ SaveClaimed(me.j, w, me.copy, me.overtaken)
    /\ IF job[me.j].owner = w
       THEN Goes(w, [me EXCEPT !.pc = "run_status", !.overtaken = FALSE])
       ELSE Reloads(w, "err")
    /\ UNCHANGED <<head, agent>>

SaveRunStatus(w) ==
    LET me == worker[w] IN
    /\ me.pc = "run_status"
    /\ SaveRunRunning(me.run, me.copy.reviewer)
    /\ To(w, "turn_start")
    /\ UNCHANGED <<head, agent>>

\* The turn runs from here on, even when its run is not the active one.
StartTurn(w) ==
    LET me == worker[w]
        active == /\ run[me.run].open
                  /\ job[me.j].run = me.run
                  /\ job[me.j].status \in Executing
    IN
    /\ me.pc = "turn_start"
    /\ agent[w] = NoAgent
    /\ agent' = [agent EXCEPT ![w] = [j |-> me.j, reviewer |-> me.copy.reviewer,
                                      run |-> IF active THEN me.run ELSE 0,
                                      step |-> "queued"]]
    /\ IF active
       THEN Goes(w, [me EXCEPT !.pc = "turn", !.copy = NoCopy])
       ELSE Finishes(w, "err")
    /\ UNCHANGED <<tables, head>>

\* The turn ended with a result or an error, the watchdog gave it up (its
\* cancellation may fail too), or it did not start.
EndTurn(w) ==
    /\ worker[w].pc \in {"turn_start", "turn"}
    /\ \/ worker[w].pc = "turn" /\ agent[w] = NoAgent /\ Finishes(w, "ok")
       \/ \E res \in {"timeout", "err"} : Finishes(w, res)
    /\ UNCHANGED <<tables, head, agent>>

\* finish_attempt.
FinishAttempt(w) ==
    LET me == worker[w] IN
    /\ me.pc = "finish"
    /\ IF Finishable(me.run, FALSE)
       THEN FinishRun(me.run) /\ Reloads(w, me.result)
       ELSE Reloads(w, "unfinalized") /\ UNCHANGED tables
    /\ UNCHANGED <<head, agent>>

\* The run's canonical history is not available, or the store fails.
FinishFails(w) ==
    /\ "fault" \in Events
    /\ worker[w].pc = "finish"
    /\ Reloads(w, "unfinalized")
    /\ UNCHANGED <<tables, head, agent>>

\* The store fails after a lost claim, or between the two saves.
AttemptBreaks(w) ==
    /\ "fault" \in Events
    /\ worker[w].pc \in {"begin", "running_save", "run_status"}
    /\ Reloads(w, "err")
    /\ UNCHANGED <<tables, head, agent>>

-----------------------------------------------------------------------------
(***************************************************************************)
(* After the attempt: the persisted row decides.                           *)
(***************************************************************************)

\* cleanup_terminal_reviewer deletes the agent that carries the job's marker;
\* a failure leaves it to the cleanup task.
ReviewerDeleted(w, j) ==
    \/ agent' = [agent EXCEPT ![w] = IF @.j = j THEN NoAgent ELSE @]
    \/ UNCHANGED agent

\* What the result of the attempt makes of a row that is neither terminal nor
\* reconciling.
Outcomes(row, result) ==
    IF result # "err" /\ row.intent THEN {BeginReconciliation(row)}
    ELSE Failures(row) \cup
         (IF result = "ok" THEN {Finished(row, "succeeded")}
          ELSE IF result = "err" THEN {Finished(row, "superseded")} ELSE {})

Reload(w) ==
    LET me == worker[w]
        row == job[me.j]
    IN
    /\ me.pc = "reload"
    /\ UNCHANGED <<tables, head>>
    /\ \/ /\ ~Stored(me.j)
          /\ Rests(w, "idle") /\ UNCHANGED agent
       \/ /\ Stored(me.j) /\ row.receipt
          /\ IF row.run # 0
             THEN Save(w, "finish_owned", row) /\ UNCHANGED agent
             ELSE Rests(w, "idle") /\ ReviewerDeleted(w, me.j)
       \/ /\ row.status \in Terminal /\ ~row.receipt
          /\ IF row.owner = w
             THEN Save(w, "plain_save", [row EXCEPT !.owner = None, !.live = FALSE])
             ELSE Rests(w, "idle")
          /\ ReviewerDeleted(w, me.j)
       \/ /\ row.status = "reconciling" /\ ~row.receipt
          /\ \E c \in {BeginReconciliation(row), Finished(row, "failed")} :
                Save(w, "plain_save", c)
          /\ UNCHANGED agent
       \/ /\ row.status \in Active \ {"reconciling"} /\ ~row.receipt
          /\ IF me.result = "unfinalized" THEN Rests(w, "idle")
             ELSE \E c \in Outcomes(row, me.result) : Save(w, "final_save", c)
          /\ UNCHANGED agent

\* finish_owned_terminal_project_review_run.  If it fails, or the job still
\* has an active run afterwards, the pool worker ends.
CanFinishOwned(w) ==
    LET c == worker[w].copy IN
    /\ c.status \in Terminal /\ c.owner = w /\ c.live
    /\ run[c.run].job = worker[w].j
    /\ Finishable(c.run, FALSE)

FinishOwned(w) ==
    /\ worker[w].pc = "finish_owned"
    /\ CanFinishOwned(w)
    /\ FinishRun(worker[w].copy.run)
    /\ IF job'[worker[w].j].run = 0
       THEN Rests(w, "idle") /\ ReviewerDeleted(w, worker[w].j)
       ELSE Rests(w, "off") /\ UNCHANGED agent
    /\ UNCHANGED head

FinishOwnedFails(w) ==
    /\ worker[w].pc = "finish_owned"
    /\ "fault" \in Events \/ ~CanFinishOwned(w)
    /\ Rests(w, "off")
    /\ UNCHANGED <<tables, head, agent>>

\* The reviewer is deleted when the row saved, or the row found when the lease
\* was lost, is terminal.
FinalSave(w) ==
    LET me == worker[w] IN
    /\ me.pc = "final_save"
    /\ SaveClaimed(me.j, w, me.copy, me.overtaken)
    /\ Rests(w, "idle")
    /\ IF (IF job[me.j].owner = w THEN me.copy ELSE job[me.j]).status \in Terminal
       THEN ReviewerDeleted(w, me.j) ELSE UNCHANGED agent
    /\ UNCHANGED head

PlainSave(w) ==
    LET me == worker[w] IN
    /\ me.pc = "plain_save"
    /\ SaveClaimed(me.j, w, me.copy, me.overtaken)
    /\ Rests(w, "idle")
    /\ UNCHANGED <<head, agent>>

\* The load or the save fails; this is only logged.
SaveFails(w) ==
    /\ "fault" \in Events
    /\ worker[w].pc \in {"reload", "final_save", "plain_save", "reconcile_save",
                         "preflight_save", "preflight_replace"}
    /\ Rests(w, "idle")
    /\ UNCHANGED <<tables, head, agent>>

-----------------------------------------------------------------------------
(***************************************************************************)
(* Reconciliation of an intent without receipt: GitHub is searched for the *)
(* marker of the job; nothing is posted.                                   *)
(***************************************************************************)

ReconcileFinds(w) ==
    LET j == worker[w].j IN
    /\ worker[w].pc = "reconcile"
    /\ CanRecordReceipt(j)
    /\ RecordReceipt(j)
    /\ ReviewerDeleted(w, j)
    /\ Overtaking(w, {j})
    /\ UNCHANGED head

ReconcileMisses(w) ==
    /\ worker[w].pc = "reconcile"
    /\ \E c \in {BeginReconciliation(worker[w].copy), Finished(worker[w].copy, "failed")} :
          Save(w, "reconcile_save", c)
    /\ UNCHANGED <<tables, head, agent>>

ReconcileSaves(w) ==
    LET me == worker[w] IN
    /\ me.pc = "reconcile_save"
    /\ SaveClaimed(me.j, w, me.copy, me.overtaken)
    /\ Rests(w, "idle")
    /\ IF me.copy.status \in Terminal
       THEN ReviewerDeleted(w, me.j) ELSE UNCHANGED agent
    /\ UNCHANGED head

ReconcileCancelled(w) ==
    /\ worker[w].pc \in Reconcile /\ worker[w].cancelled
    /\ Rests(w, "idle")
    /\ UNCHANGED <<tables, head, agent>>

-----------------------------------------------------------------------------
(***************************************************************************)
(* The Reviewer turn.  What GitHub answers to the POST, and whether the    *)
(* search before a second one finds the first, is a choice here: GitHub's   *)
(* side of the protocol is left out.                                       *)
(***************************************************************************)

AgentTo(w, step) == agent' = [agent EXCEPT ![w].step = step]

AgentStarts(w) ==
    /\ agent[w].step = "queued"
    /\ AgentTo(w, "turn")
    /\ UNCHANGED <<tables, head, worker>>

\* The submission tool compares the head with GitHub and reads the job.
AgentChecks(w) ==
    LET j == agent[w].j IN
    /\ "submit" \in Events
    /\ agent[w].step = "turn"
    /\ Stored(j) /\ ~job[j].receipt
    /\ head[job[j].pr] = job[j].head
    /\ AgentTo(w, "checked")
    /\ UNCHANGED <<tables, head, worker>>

\* The intent is stamped with the time it was built, which may be before or
\* after the stamp of a row a worker is about to save, and moves updated_at of
\* the job there, back if need be.
AgentRecordsIntent(w) ==
    LET j == agent[w].j IN
    /\ agent[w].step = "checked"
    /\ IF CanRecordIntent(j)
       THEN /\ RecordIntent(j)
            /\ AgentTo(w, "posting")
            /\ \E V \in SUBSET {v \in Workers : worker[v].j = j /\ worker[v].pc \in Stamped} :
                  worker' = [v \in Workers |->
                                IF worker[v].j = j /\ worker[v].pc \in Stamped
                                THEN [worker[v] EXCEPT !.overtaken = v \in V]
                                ELSE worker[v]]
       ELSE /\ AgentTo(w, "turn")
            /\ UNCHANGED <<tables, worker>>
    /\ UNCHANGED head

\* GitHub accepted the POST, or the search found the earlier one.
AgentPosts(w) ==
    LET j == agent[w].j IN
    /\ agent[w].step = "posting"
    /\ CanRecordReceipt(j)
    /\ RecordReceipt(j)
    /\ Overtakes({j})
    /\ AgentTo(w, "turn")
    /\ UNCHANGED head

\* The answer is lost or unreadable, or the search found nothing.
AgentInDoubt(w) ==
    /\ agent[w].step = "posting"
    /\ MarkReconciling(agent[w].j)
    /\ Overtakes({agent[w].j})
    /\ AgentTo(w, "turn")
    /\ UNCHANGED head

\* A refusal, recorded as a failure of the job or not, and any other error.
AgentRefused(w) ==
    /\ agent[w].step = "posting"
    /\ \/ job[agent[w].j].intent /\ ~job[agent[w].j].receipt /\ Overtakes({agent[w].j})
       \/ UNCHANGED worker
    /\ AgentTo(w, "turn")
    /\ UNCHANGED <<tables, head>>

\* The turn completes or is cancelled, at any point of the tool call.
AgentEnds(w) ==
    /\ agent[w].step # "none"
    /\ agent' = [agent EXCEPT ![w] = NoAgent]
    /\ UNCHANGED <<tables, head, worker>>

-----------------------------------------------------------------------------
(***************************************************************************)
(* Stopping the loop of a project, and the crash of a server.              *)
(***************************************************************************)

\* stop_project_review_loop: the pool worker is aborted where it stands; its
\* heartbeat task is detached, not cancelled.
Stop(w) ==
    /\ "stop" \in Events
    /\ worker[w].pc \notin {"off", "stopping", "cancel_runs"}
    /\ Goes(w, [Resting("stopping") EXCEPT
                  !.j = worker[w].j, !.heartbeat = worker[w].heartbeat])
    /\ UNCHANGED <<tables, head, agent>>

CancelJobs(w) ==
    /\ worker[w].pc = "stopping"
    /\ CancelActive
    /\ Goes(w, [worker[w] EXCEPT !.pc = "cancel_runs", !.todo = OpenRuns])
    /\ UNCHANGED <<head, agent>>

\* cancel_active_project_review_runs ignores the runs it fails to finish.
CancelRun(w) ==
    /\ worker[w].pc = "cancel_runs"
    /\ \E r \in worker[w].todo :
          /\ Goes(w, [worker[w] EXCEPT !.todo = @ \ {r}])
          /\ \/ Finishable(r, FALSE) /\ FinishRun(r)
             \/ UNCHANGED tables
    /\ UNCHANGED <<head, agent>>

\* The reviewers are deleted.
Stopped(w) ==
    /\ worker[w].pc = "cancel_runs" /\ worker[w].todo = {}
    /\ To(w, "off")
    /\ agent' = [agent EXCEPT ![w] = NoAgent]
    /\ UNCHANGED <<tables, head>>

Crash(w) ==
    /\ "crash" \in Events
    /\ worker[w] # Resting("off")
    /\ Rests(w, "off")
    /\ agent' = [agent EXCEPT ![w] = NoAgent]
    /\ UNCHANGED <<tables, head>>

-----------------------------------------------------------------------------
(***************************************************************************)
(* Time, and the cleanup of finished jobs.                                 *)
(***************************************************************************)

Time ==
    /\ \E j \in JobIds : LeaseLapses(j) \/ BecomesDue(j)
    /\ UNCHANGED <<head, worker, agent>>

TakeTask(t) ==
    /\ "clean" \in Events
    /\ ClaimTask(t)
    /\ UNCHANGED <<head, worker, agent>>

\* The resource of the task is removed, then the task is completed.
FinishTask(t) ==
    /\ CompleteTask(t)
    /\ agent' = [w \in Workers |->
                    IF t[1] = "reviewer" /\ agent[w].reviewer = t[2] THEN NoAgent
                    ELSE agent[w]]
    /\ UNCHANGED <<head, worker>>

Retain(j) ==
    /\ "clean" \in Events
    /\ Prune(j)
    /\ UNCHANGED <<head, worker, agent>>

-----------------------------------------------------------------------------

Produce(p) == Push(p) \/ Signal(p) \/ Discover(p) \/ CheckWatch(p)

Pool(w) ==
    \/ Start(w) \/ FinishListed(w) \/ Started(w) \/ Recover(w) \/ RecoverActiveRuns(w)
    \/ RecoverOwnership(w) \/ RecoverExpiredJobs(w) \/ Repair(w) \/ Repaired(w)
    \/ ClaimJob(w) \/ NothingDue(w)

Work(w) ==
    \/ PreflightContinues(w) \/ PreflightRejects(w) \/ PreflightHeadChanged(w)
    \/ PreflightCiPending(w) \/ PreflightSaves(w) \/ Replace(w)
    \/ Begin(w) \/ SaveWarning(w) \/ Prepared(w) \/ SaveRunning(w) \/ SaveRunStatus(w)
    \/ StartTurn(w) \/ EndTurn(w) \/ FinishAttempt(w)
    \/ Reload(w) \/ FinishOwned(w) \/ FinalSave(w) \/ PlainSave(w)
    \/ ReconcileFinds(w) \/ ReconcileMisses(w) \/ ReconcileSaves(w)

Beat(w) == Heartbeat(w) \/ HeartbeatLost(w)

Fail(w) ==
    \/ PassFails(w) \/ HeartbeatFails(w) \/ PreflightCancelled(w) \/ AttemptFails(w)
    \/ AttemptBreaks(w) \/ FinishFails(w) \/ FinishOwnedFails(w) \/ SaveFails(w)
    \/ ReconcileCancelled(w) \/ Crash(w)

Review(w) ==
    \/ AgentStarts(w) \/ AgentChecks(w) \/ AgentRecordsIntent(w) \/ AgentPosts(w) \/ AgentInDoubt(w)
    \/ AgentRefused(w) \/ AgentEnds(w)

Halt(w) == Stop(w) \/ CancelJobs(w) \/ CancelRun(w) \/ Stopped(w)

Clean == (\E t \in TaskIds : TakeTask(t) \/ FinishTask(t)) \/ (\E j \in JobIds : Retain(j))

Next ==
    \/ \E p \in Prs : Produce(p)
    \/ \E w \in Workers : Pool(w) \/ Work(w) \/ Beat(w) \/ Fail(w) \/ Review(w) \/ Halt(w)
    \/ Time
    \/ Clean

Spec == Init /\ [][Next]_vars

-----------------------------------------------------------------------------
(***************************************************************************)
(* Fairness.  A live server runs its tasks, a crashed one or a loop that   *)
(* ended is started again (supervisor, next signal, periodic discovery), a *)
(* lease nobody renews lapses, a due time comes, and a Reviewer turn ends. *)
(* No choice inside a step is fair: every attempt may fail.                *)
(***************************************************************************)
Lapses(j) ==
    /\ Time
    /\ \A w \in Workers : ~(worker[w].heartbeat /\ worker[w].j = j)
    /\ job[j].live /\ ~job'[j].live

FallsDue(j) == Time /\ ~job[j].due /\ job'[j].due

Fairness ==
    /\ \A w \in Workers :
        /\ WF_vars(Pool(w)) /\ WF_vars(Work(w)) /\ WF_vars(Beat(w))
        /\ WF_vars(PassFails(w)) /\ WF_vars(FinishOwnedFails(w))
        /\ WF_vars(AgentEnds(w)) /\ WF_vars(CancelJobs(w))
        /\ WF_vars(CancelRun(w)) /\ WF_vars(Stopped(w))
    /\ \A j \in JobIds : WF_vars(Lapses(j)) /\ WF_vars(FallsDue(j))

FairSpec == Spec /\ Fairness

-----------------------------------------------------------------------------
(***************************************************************************)
(* Properties.                                                             *)
(***************************************************************************)

\* Once GitHub's receipt is recorded the job has succeeded for good: no stale
\* save, recovery, cancellation, discovery or late submission brings it back.
ReceiptIsFinal ==
    [][\A j \in JobIds :
          job[j].receipt => job'[j].receipt /\ job'[j].status \in {"succeeded", "deleted"}]_vars

\* A submitted job that has let go of its active run has the history of its
\* latest run archived; the reviewer, with the thread, may then be deleted.
ArchivedBeforeReceipt ==
    \A j \in JobIds :
        job[j].receipt /\ job[j].run = 0 /\ LatestRun(j) # 0 => ~run[LatestRun(j)].open

\* With a submission in doubt no step, and no recovery after a crash, sends
\* the job back to a fresh attempt.
NoSecondAttempt ==
    [][\A j \in JobIds :
          job[j].intent /\ ~job[j].receipt /\ job'[j].status = "preparing"
          => job[j].status = "preparing"]_vars

\* The attempt counter never runs ahead of the runs stored for the job,
\* whatever saves were overtaken (load_project_review_attempts relies on it).
RunsBelong ==
    \A j \in JobIds : job[j].attempts <= Cardinality({r \in RunIds : run[r].job = j})

\* A submission brings a job back that a newer head, a stop or an error ended.
Revived(j) ==
    job[j].status \in Terminal /\ job'[j].status \in Active /\ job'[j].intent

\* A pull request has at most one job that is not terminal.
OneActive == \A p \in Prs : Cardinality(ActiveJobs(p)) <= 1

\* Webhooks, discovery, the CI watch, a preflight replacement and stale saves
\* never give a pull request a second job that is not terminal, in whatever
\* order they meet: only the submission of a turn whose job had ended does.
SecondJobIsRevived ==
    [][OneActive => OneActive' \/ \E j \in JobIds : Revived(j)]_vars

Executes(j) == job[j].status \in Executing /\ job[j].owner # None

\* Only one logical Review of the project has a Reviewer or may create one: a
\* job that keeps its Reviewer through a crash, a retry or a reconciliation
\* keeps every other job of the project from executing.
OneReviewer ==
    \A i, j \in JobIds :
        job[i].status \in Active /\ job[i].reviewer # 0 /\ i # j
        => ~Executes(j) /\ ~(job[j].status \in Active /\ job[j].reviewer # 0)

\* A worker starts a job only when the lease of every job is over, though it
\* compares with a clock reading from before its recovery pass and heartbeats
\* come in meanwhile.  A slow worker may still be at work on one of them.
ClaimWaitsForLeases ==
    [][\A j \in JobIds, w \in Workers :
          job[j].owner # w /\ job'[j].owner = w
          => \A i \in JobIds : job[i].owner = None \/ ~job[i].live]_vars

\* w is at work on a job that was taken from it.
Slow(w, j) ==
    /\ worker[w].j = j /\ job[j].owner # w
    /\ worker[w].pc \notin {"replace", "stopping", "cancel_runs"}

\* Whatever a worker does that goes on with a job after its lease was taken
\* over, it leaves the job of the next one as it is: all it may still do to the
\* row is to record the Review it found on GitHub, or to archive its run after
\* the job has ended.
SlowWorkerIsHarmless ==
    [][\A w \in Workers, j \in JobIds :
          Slow(w, j) /\ worker'[w].pc # worker[w].pc
          => \/ job'[j] = job[j]
             \/ job'[j].receipt
             \/ job[j].status \in Terminal /\ job'[j].status = job[j].status]_vars

\* A job lets go of its active run only when the run is archived, so that
\* recovery can still find it.
RunReleasedArchived ==
    [][\A j \in JobIds :
          LET r == job[j].run IN
          r # 0 /\ run[r].open /\ job'[j].run # r => ~run'[r].open]_vars

\* Every attempt the job counts has its run, and every run is counted, when
\* no worker holds the job.
AttemptsMatch ==
    \A j \in JobIds :
        Stored(j) /\ job[j].owner = None
        => job[j].attempts = Cardinality({r \in RunIds : run[r].job = j})

\* An attempt that was cancelled because its lease is lost, and has returned,
\* begins no submission.
CancelledAttemptIsSilent ==
    [][\A w \in Workers :
          worker[w].pc = "finish" /\ worker[w].result = "err" /\ worker[w].cancelled
          => ~(agent[w].step = "checked" /\ agent'[w].step = "posting")]_vars

Held(j) == job[j].status \in {"preparing", "running", "submission_pending"}

Leftover(r) == RunExists(r) /\ run[r].open /\ job[run[r].job].status \in Terminal

\* MaxRuns is a bound: a worker that needs one more run waits forever.
OutOfRuns == FreeRuns = {}

Calm == <>[][\A w \in Workers : ~Crash(w)]_vars

\* Once crashes cease, a job in the hands of a worker, dead or alive, comes
\* back: it ends, or it waits for a retry or a reconciliation.
EventuallyReleased == Calm => \A j \in JobIds : Held(j) ~> (~Held(j) \/ OutOfRuns)

\* Once crashes cease, no open run of a finished job stays behind.
EventuallyArchived == Calm => \A r \in RunIds : Leftover(r) ~> (~Leftover(r) \/ OutOfRuns)
=============================================================================
