--------------------------- MODULE ReviewSignals ---------------------------
(***************************************************************************)
(* From GitHub to a Review: how mai-server learns that a pull request      *)
(* wants a review, and keeps knowing it.  Three producers read GitHub and  *)
(* later write the tables of ReviewJobs: the webhook handler, the CI watch *)
(* scheduler and the discovery scheduler.  The pool worker reads GitHub    *)
(* once more before it starts a Reviewer.  What any of them holds may be   *)
(* out of date when it writes.                                             *)
(*                                                                         *)
(* Attempts are one step here; their detail is module ReviewLoop.          *)
(***************************************************************************)
EXTENDS ReviewJobs, Sequences

CONSTANTS
    Pool,        \* lease owner of the one pool worker
    PageSize,    \* SELECTOR_PAGE_SIZE
    MaxChanges,  \* bound: changes at GitHub, errors and crashes
    Events       \* what may happen: "push", "ci", "rerun", "close", "draft",
                 \* "reopen", "hook", "replay", "watch", "scan", "lost", "error", "crash"

ASSUME SignalsAssumption ==
    /\ Prs \subseteq Nat \ {0}
    /\ Owners = {Pool}
    /\ PageSize \in Nat \ {0}
    /\ MaxChanges \in Nat

VARIABLES
    pull,     \* GitHub: state, head, checks of that head, our reviews in order
    spent,    \* changes, errors and crashes so far
    note,     \* delivery_id of the CI watch of a pull request
    heard,    \* deliveries the relay has handed over
    hook,     \* the webhook event being handled
    watcher,  \* the CI watch being reconciled
    scan,     \* the discovery of the project
    worker,   \* the pool worker
    asked     \* pull requests whose head is known to want a review

github == <<pull, spent>>
tasks == <<hook, watcher, scan, worker>>
vars == <<job, run, task, watch, note, github, heard, tasks, asked>>

(* An evaluation: the state of a pull request at one moment. *)
Nothing == [pr |-> 0, head |-> 0, verdict |-> "none", delivery |-> None, seen |-> 0]

NoScan == [on |-> FALSE, page |-> 1, todo |-> {}, full |-> FALSE, found |-> {}]

Free == [pc |-> "idle", j |-> 0, copy |-> NewJob(CHOOSE p \in Prs : TRUE, 1, None, "absent"),
         head |-> 0, verdict |-> "none"]

Init ==
    /\ TablesInit
    /\ pull \in [Prs -> [state : {"open", "closed"}, head : {1}, ci : {"pending", "done"}, reviews : {<<>>}]]
    /\ spent = 0
    /\ note = [p \in Prs |-> None]
    /\ heard = {}
    /\ hook = Nothing
    /\ watcher = Nothing
    /\ scan = NoScan
    /\ worker = Free
    /\ asked = {}

-----------------------------------------------------------------------------
(* GitHub. *)

\* already_reviewed_current_head: the commit of the latest own review.
Reviewed(p) ==
    LET reviews == pull[p].reviews
    IN reviews # <<>> /\ reviews[Len(reviews)] = pull[p].head

\* Mutant of Verdict: a head that has its Review may be reviewed again.
VerdictAfresh(p) ==
    CASE pull[p].state # "open" -> pull[p].state
      [] pull[p].state = "open" /\ pull[p].ci = "pending" -> "pending"
      [] pull[p].state = "open" /\ pull[p].ci = "done" -> "eligible"

Verdict(p) ==
    CASE pull[p].state # "open" -> pull[p].state
      [] pull[p].state = "open" /\ pull[p].ci = "pending" -> "pending"
      [] pull[p].state = "open" /\ pull[p].ci = "done" ->
           IF Reviewed(p) THEN "reviewed" ELSE "eligible"

Evaluated(p) == [Nothing EXCEPT !.pr = p, !.head = pull[p].head, !.verdict = Verdict(p)]

Wants(p) == Verdict(p) = "eligible"

Changes(event) ==
    /\ event \in Events
    /\ spent < MaxChanges
    /\ spent' = spent + 1

\* People and CI.  A change that takes the wish for a review back, or makes
\* it one for another head, is followed by a webhook of its own.
PullChanges(p) ==
    /\ \/ /\ Changes("push")
          /\ pull[p].head < MaxHead
          /\ \E ci \in {"pending", "done"} :
               pull' = [pull EXCEPT ![p].head = @ + 1, ![p].ci = ci]
          /\ asked' = asked \ {p}
       \/ /\ Changes("ci")
          /\ pull[p].ci = "pending"
          /\ pull' = [pull EXCEPT ![p].ci = "done"]
          /\ UNCHANGED asked
       \/ /\ Changes("rerun")
          /\ pull[p].ci = "done"
          /\ pull' = [pull EXCEPT ![p].ci = "pending"]
          /\ asked' = asked \ {p}
       \/ \E state \in {"closed", "draft"} :
            /\ Changes(IF state = "closed" THEN "close" ELSE "draft")
            /\ pull[p].state = "open"
            /\ pull' = [pull EXCEPT ![p].state = state]
            /\ asked' = asked \ {p}
       \/ /\ Changes("reopen")
          /\ pull[p].state # "open"
          /\ pull' = [pull EXCEPT ![p].state = "open"]
          /\ UNCHANGED asked
    /\ UNCHANGED <<tables, note, heard, tasks>>

-----------------------------------------------------------------------------
(***************************************************************************)
(* Webhooks: one event at a time, as the client of the relay hands them    *)
(* over.                                                                   *)
(***************************************************************************)

\* enqueue_project_review_relay_signal evaluates the pull request.  The hook
\* may be lost, late, or handed over again when its acknowledgement was lost.
HookArrives(p, d) ==
    /\ "hook" \in Events
    /\ hook = Nothing
    /\ d \notin heard \/ "replay" \in Events
    /\ heard' = heard \cup {d}
    /\ hook' = [Evaluated(p) EXCEPT !.delivery = d]
    /\ UNCHANGED <<tables, note, github, watcher, scan, worker, asked>>

\* enqueue_project_review_completed_check_signal takes the head the event names
\* and evaluates nothing.
CheckCompletes(p, d) ==
    /\ "hook" \in Events
    /\ hook = Nothing
    /\ d \notin heard \/ "replay" \in Events
    /\ heard' = heard \cup {d}
    /\ \E h \in 1 .. pull[p].head :
         /\ h = pull[p].head => pull[p].ci = "done"
         /\ hook' = [Nothing EXCEPT !.pr = p, !.head = h, !.verdict = "eligible", !.delivery = d]
    /\ UNCHANGED <<tables, note, github, watcher, scan, worker, asked>>

\* The wish the committed signal stands for, if it is still the current one.
Asking(s) ==
    IF pull[s.pr].state = "open" /\ pull[s.pr].head = s.head /\ ~Reviewed(s.pr)
    THEN asked \cup {s.pr} ELSE asked

\* upsert_project_review_ci_watch_on_connection keeps the delivery of a watch
\* of this head.
UpsertWatch(p, h, d) ==
    /\ AdmitWatch(p, h)
    /\ note' = [note EXCEPT ![p] = IF watch[p] = h /\ @ # None THEN @ ELSE d]

\* A watch that goes takes its delivery along.
NotesKept == note' = [p \in Prs |-> IF watch'[p] = 0 THEN None ELSE note[p]]

HookQueues ==
    /\ hook.verdict = "eligible"
    /\ Enqueue(hook.pr, hook.head, hook.delivery)
    /\ hook' = Nothing
    /\ asked' = Asking(hook)
    /\ UNCHANGED <<note, github, heard, watcher, scan, worker>>

HookWatches ==
    /\ hook.verdict = "pending"
    /\ UpsertWatch(hook.pr, hook.head, hook.delivery)
    /\ hook' = Nothing
    /\ asked' = Asking(hook)
    /\ UNCHANGED <<github, heard, watcher, scan, worker>>

HookIgnores ==
    /\ hook.verdict \in {"closed", "draft", "reviewed"}
    /\ DeleteWatch(hook.pr, hook.head)
    /\ NotesKept
    /\ hook' = Nothing
    /\ UNCHANGED <<github, heard, watcher, scan, worker, asked>>

HookFails ==
    /\ hook # Nothing
    /\ Changes("lost")
    /\ hook' = Nothing
    /\ UNCHANGED <<tables, note, pull, heard, watcher, scan, worker, asked>>

-----------------------------------------------------------------------------
(***************************************************************************)
(* The CI watch scheduler: loads a watch that is due, evaluates the pull   *)
(* request, and writes only if the watch has still the head it loaded.     *)
(***************************************************************************)

WatchLoads(p) ==
    /\ "watch" \in Events
    /\ watcher = Nothing
    /\ watch[p] # 0
    /\ watcher' = [Nothing EXCEPT !.pr = p, !.seen = watch[p], !.delivery = note[p]]
    /\ UNCHANGED <<tables, note, github, heard, hook, scan, worker, asked>>

WatchEvaluates ==
    /\ watcher.pr # 0 /\ watcher.verdict = "none"
    /\ watcher' = [Evaluated(watcher.pr) EXCEPT !.seen = watcher.seen,
                                                !.delivery = watcher.delivery]
    /\ UNCHANGED <<tables, note, github, heard, hook, scan, worker, asked>>

WatchQueues ==
    /\ watcher.verdict = "eligible"
    /\ EnqueueFromWatch(watcher.pr, watcher.seen, watcher.head, watcher.delivery)
    /\ NotesKept
    /\ watcher' = Nothing
    /\ UNCHANGED <<github, heard, hook, scan, worker, asked>>

\* A watch of the evaluated head is only scheduled again.
WatchStays ==
    /\ watcher.verdict = "pending"
    /\ IF watcher.head = watcher.seen THEN UNCHANGED tables
       ELSE ReplaceWatchHead(watcher.pr, watcher.seen, watcher.head)
    /\ watcher' = Nothing
    /\ UNCHANGED <<note, github, heard, hook, scan, worker, asked>>

\* Mutant of WatchDrops: whatever head is watched by now goes.
WatchDropsAny ==
    /\ watcher.verdict \in {"closed", "draft", "reviewed"}
    /\ DeleteWatch(watcher.pr, watch[watcher.pr])
    /\ NotesKept
    /\ watcher' = Nothing
    /\ UNCHANGED <<github, heard, hook, scan, worker, asked>>

\* Mutant of WatchDrops: the watch of a closed pull request is scheduled again.
WatchDropsNone ==
    /\ watcher.verdict \in {"closed", "draft", "reviewed"}
    /\ watcher' = Nothing
    /\ UNCHANGED <<tables, note, github, heard, hook, scan, worker, asked>>

WatchDrops ==
    /\ watcher.verdict \in {"closed", "draft", "reviewed"}
    /\ DeleteWatch(watcher.pr, watcher.seen)
    /\ NotesKept
    /\ watcher' = Nothing
    /\ UNCHANGED <<github, heard, hook, scan, worker, asked>>

\* The evaluation or the write fails: the watch is scheduled again.
WatchFails ==
    /\ watcher # Nothing
    /\ Changes("error")
    /\ watcher' = Nothing
    /\ UNCHANGED <<tables, note, pull, heard, hook, scan, worker, asked>>

-----------------------------------------------------------------------------
(***************************************************************************)
(* Discovery.  The scheduler never starts a scan beside another one; it    *)
(* scans again after its interval, after a backoff, or when it is told to. *)
(***************************************************************************)

Open == {p \in Prs : pull[p].state # "closed"}

\* The open pull requests in order of creation, cut into pages.
Page(n) ==
    {p \in Open : Cardinality({q \in Open : q < p}) \in (n - 1) * PageSize .. n * PageSize - 1}

\* Mutant of Listed: the listing ends with the first page.
ListedOnce(s) == [s EXCEPT !.page = @ + 1, !.todo = Page(s.page), !.full = FALSE]

\* A page that is not full is the last one.
Listed(s) ==
    [s EXCEPT !.page = @ + 1, !.todo = Page(s.page),
              !.full = Cardinality(Page(s.page)) = PageSize]

ScanStarts ==
    /\ "scan" \in Events
    /\ ~scan.on
    /\ scan' = [scan EXCEPT !.on = TRUE, !.full = TRUE]
    /\ UNCHANGED <<tables, note, github, heard, hook, watcher, worker, asked>>

\* The next page is read when every candidate of the last one is evaluated.
ScanLists ==
    /\ scan.on /\ scan.todo = {} /\ scan.full
    /\ scan' = Listed(scan)
    /\ UNCHANGED <<tables, note, github, heard, hook, watcher, worker, asked>>

\* evaluate_pull_request_page, collect_evaluated_pull_request: candidates of a
\* page are evaluated side by side; eligible and pending ones are collected.
ScanEvaluates(p) ==
    /\ p \in scan.todo
    /\ scan' = [scan EXCEPT !.todo = @ \ {p},
                            !.found = @ \cup {e \in {Evaluated(p)} :
                                                e.verdict \in {"eligible", "pending"}}]
    /\ UNCHANGED <<tables, note, github, heard, hook, watcher, worker, asked>>

\* A candidate that cannot be read is left out of the batch.
ScanMisses(p) ==
    /\ p \in scan.todo
    /\ Changes("error")
    /\ scan' = [scan EXCEPT !.todo = @ \ {p}]
    /\ UNCHANGED <<tables, note, pull, heard, hook, watcher, worker, asked>>

\* An identity, a page or the admission that fails ends the scan; nothing of it
\* is written.
ScanFails ==
    /\ scan.on
    /\ Changes("error")
    /\ scan' = NoScan
    /\ UNCHANGED <<tables, note, pull, heard, hook, watcher, worker, asked>>

\* admit_project_review_discovery, one candidate of the batch.  A failed job
\* of this head that may not run again suppresses it.
Suppressed(p, h) ==
    LET latest == LatestSameHead(p, h) IN
    /\ LoadActive(p) = 0
    /\ latest # 0 /\ job[latest].status = "failed"
    /\ ~(job[latest].attempts < MaxAttempts /\ ~job[latest].intent /\ ~job[latest].receipt)

Admitting == scan.on /\ scan.todo = {} /\ ~scan.full

ScanAdmits(e) ==
    /\ Admitting /\ e \in scan.found
    /\ \/ /\ e.verdict = "eligible" /\ ~Suppressed(e.pr, e.head)
          /\ AdmitCandidate(e.pr, e.head)
          /\ UNCHANGED note
       \/ /\ e.verdict = "eligible" /\ Suppressed(e.pr, e.head)
          /\ UNCHANGED <<tables, note>>
       \/ /\ e.verdict = "pending"
          /\ UpsertWatch(e.pr, e.head, None)
    /\ scan' = [scan EXCEPT !.found = @ \ {e}]
    /\ UNCHANGED <<github, heard, hook, watcher, worker, asked>>

ScanEnds ==
    /\ Admitting /\ scan.found = {}
    /\ scan' = NoScan
    /\ UNCHANGED <<tables, note, github, heard, hook, watcher, worker, asked>>

-----------------------------------------------------------------------------
(***************************************************************************)
(* The pool worker.                                                        *)
(***************************************************************************)

Expired == {j \in JobIds : ~job[j].live}

WorkerRecovers ==
    /\ worker.pc = "idle"
    /\ \E j \in JobIds : MustRecover(j, Expired)
    /\ RecoverJobs(Expired)
    /\ UNCHANGED <<note, github, heard, tasks, asked>>

WorkerClaims(j) ==
    /\ worker.pc = "idle"
    /\ Claim(j, Pool, Expired)
    /\ worker' = [Free EXCEPT !.pc = "preflight", !.j = j, !.copy = job'[j]]
    /\ UNCHANGED <<note, github, heard, hook, watcher, scan, asked>>

WorkerEvaluates ==
    LET e == Evaluated(worker.copy.pr) IN
    /\ worker.pc = "preflight"
    /\ worker' = [worker EXCEPT !.pc = "decide", !.head = e.head, !.verdict = e.verdict]
    /\ UNCHANGED <<tables, note, github, heard, hook, watcher, scan, asked>>

\* The evaluation fails: a retry, or no more of them.
WorkerCannotEvaluate ==
    /\ worker.pc = "preflight"
    /\ Changes("error")
    /\ \E row \in {Finished(worker.copy, "failed"), ScheduleRetry(worker.copy)} :
         SaveClaimed(worker.j, Pool, row, FALSE)
    /\ worker' = Free
    /\ asked' = {p \in asked : ActiveJobs(p)' # {}}
    /\ UNCHANGED <<note, pull, heard, hook, watcher, scan>>

\* Two transactions: the job of the old head goes, then its replacement comes,
\* unless the new head is not eligible.
WorkerSupersedes ==
    /\ worker.pc = "decide" /\ worker.head # worker.copy.head
    /\ SaveClaimed(worker.j, Pool, Finished(worker.copy, "superseded"), FALSE)
    /\ worker' = IF job[worker.j].owner = Pool /\ worker.verdict = "eligible"
                 THEN [worker EXCEPT !.pc = "replace"] ELSE Free
    /\ UNCHANGED <<note, github, heard, hook, watcher, scan, asked>>

WorkerReplaces ==
    /\ worker.pc = "replace"
    /\ Enqueue(worker.copy.pr, worker.head, None)
    /\ worker' = Free
    /\ UNCHANGED <<note, github, heard, hook, watcher, scan, asked>>

WorkerFailsToReplace ==
    /\ worker.pc = "replace"
    /\ "error" \in Events
    /\ worker' = Free
    /\ UNCHANGED <<tables, note, github, heard, hook, watcher, scan, asked>>

\* CI is pending: the job becomes a watch, unless another delivery came in; then
\* the pull request is evaluated again.
WorkerSkipsForCi ==
    LET mine == job[worker.j].owner = Pool /\ job[worker.j].status = "preparing" IN
    /\ worker.pc = "decide" /\ worker.head = worker.copy.head /\ worker.verdict = "pending"
    /\ IF CanSkipForCi(worker.j, Pool, worker.copy.delivery)
       THEN SkipForCiPending(worker.j) /\ worker' = Free
       ELSE /\ worker' = IF mine THEN [worker EXCEPT !.pc = "preflight", !.copy = job[worker.j]]
                         ELSE Free
            /\ UNCHANGED tables
    /\ UNCHANGED <<note, github, heard, hook, watcher, scan, asked>>

\* Closed, draft or reviewed: the copy is saved, whatever came in meanwhile.
WorkerSkips ==
    /\ worker.pc = "decide" /\ worker.head = worker.copy.head
    /\ worker.verdict \in {"closed", "draft", "reviewed"}
    /\ SaveClaimed(worker.j, Pool, Finished(worker.copy, "skipped"), FALSE)
    /\ worker' = Free
    /\ UNCHANGED <<note, github, heard, hook, watcher, scan, asked>>

Eligible == /\ worker.pc = "decide"
            /\ worker.head = worker.copy.head /\ worker.verdict = "eligible"

\* begin_claimed_project_review_attempt and the start of the Reviewer.
WorkerBegins ==
    /\ Eligible
    /\ CanBegin(worker.j, Pool)
    /\ job' = [job EXCEPT ![worker.j].status = "running", ![worker.j].attempts = @ + 1]
    /\ worker' = [Free EXCEPT !.pc = "review", !.j = worker.j]
    /\ UNCHANGED <<run, task, watch, note, github, heard, hook, watcher, scan, asked>>

\* A job whose attempts are used up fails, one that was taken away is left alone.
WorkerCannotBegin ==
    LET row == job[worker.j] IN
    /\ Eligible
    /\ ~CanBegin(worker.j, Pool)
    /\ IF row.owner = Pool /\ row.status = "preparing"
       THEN WriteRow(worker.j, Finished(row, "failed")) /\ asked' = asked \ {row.pr}
       ELSE UNCHANGED <<job, task, asked>>
    /\ worker' = Free
    /\ UNCHANGED <<run, watch, note, github, heard, hook, watcher, scan>>

Holds(j) == job[j].owner = Pool /\ job[j].status = "running"

\* The Review goes to GitHub for the head the job was made for.
Submits ==
    LET row == job[worker.j] IN
    /\ worker.pc = "review" /\ Holds(worker.j)
    /\ pull[row.pr].head = row.head /\ pull[row.pr].state # "closed"
    /\ pull' = [pull EXCEPT ![row.pr].reviews = Append(@, row.head)]
    /\ WriteRow(worker.j, [Finished(row, "succeeded") EXCEPT !.intent = TRUE, !.receipt = TRUE])
    /\ asked' = asked \ {row.pr}
    /\ worker' = Free
    /\ UNCHANGED <<run, watch, note, spent, heard, hook, watcher, scan>>

\* The attempt finds another head: its job goes, and nothing replaces it here.
AttemptFindsHeadMoved ==
    LET row == job[worker.j] IN
    /\ worker.pc = "review" /\ Holds(worker.j)
    /\ pull[row.pr].head # row.head
    /\ WriteRow(worker.j, Finished(row, "superseded"))
    /\ worker' = Free
    /\ UNCHANGED <<run, watch, note, github, heard, hook, watcher, scan, asked>>

\* The attempt ends without a Review: a retry, or no more of them.
AttemptFails ==
    LET row == job[worker.j]
        again == row.attempts < MaxAttempts
    IN
    /\ worker.pc = "review" /\ Holds(worker.j)
    /\ WriteRow(worker.j, IF again THEN ScheduleRetry(row) ELSE Finished(row, "failed"))
    /\ asked' = IF again THEN asked ELSE asked \ {row.pr}
    /\ worker' = Free
    /\ UNCHANGED <<run, watch, note, github, heard, hook, watcher, scan>>

\* The heartbeat found that the job is somebody else's business.
AttemptCancelled ==
    /\ worker.pc = "review" /\ ~Holds(worker.j)
    /\ worker' = Free
    /\ UNCHANGED <<tables, note, github, heard, hook, watcher, scan, asked>>

LeaseEnds(j) ==
    /\ job[j].live /\ worker.j # j
    /\ LeaseLapses(j)
    /\ UNCHANGED <<note, github, heard, tasks, asked>>

RetryDue(j) ==
    /\ BecomesDue(j)
    /\ UNCHANGED <<note, github, heard, tasks, asked>>

Crash ==
    /\ Changes("crash")
    /\ hook' = Nothing /\ watcher' = Nothing /\ scan' = NoScan /\ worker' = Free
    /\ UNCHANGED <<tables, note, pull, heard, asked>>

-----------------------------------------------------------------------------
Hook == HookQueues \/ HookWatches \/ HookIgnores
Watcher == WatchEvaluates \/ WatchQueues \/ WatchStays \/ WatchDrops
Scan == \/ ScanStarts \/ ScanLists \/ ScanEnds
        \/ \E p \in Prs : ScanEvaluates(p)
        \/ \E e \in scan.found : ScanAdmits(e)
Worker == \/ WorkerRecovers \/ WorkerEvaluates \/ WorkerSupersedes \/ WorkerReplaces
          \/ WorkerSkipsForCi \/ WorkerSkips
          \/ WorkerBegins \/ WorkerCannotBegin \/ AttemptCancelled
          \/ \E j \in JobIds : WorkerClaims(j)
Attempt == Submits \/ AttemptFindsHeadMoved \/ AttemptFails
Faults == \/ HookFails \/ WatchFails \/ ScanFails \/ WorkerCannotEvaluate
          \/ WorkerFailsToReplace \/ Crash
          \/ \E p \in Prs : ScanMisses(p)

Next ==
    \/ \E p \in Prs : PullChanges(p) \/ WatchLoads(p)
    \/ \E p \in Prs, d \in Deliveries : HookArrives(p, d) \/ CheckCompletes(p, d)
    \/ Hook \/ Watcher \/ Scan \/ Worker \/ Attempt \/ Faults
    \/ \E j \in JobIds : LeaseEnds(j) \/ RetryDue(j)

Spec == Init /\ [][Next]_vars

(* A task that can proceed does, clocks go on, a turn of a Reviewer ends, and
   a watch that is due gets its turn: a watch that was looked at is scheduled
   behind the others.  Nobody has to change a pull request, GitHub owes no
   webhook, and nothing has to fail.                                       *)
FairSpec ==
    /\ Spec
    /\ WF_vars(Hook) /\ WF_vars(Watcher) /\ WF_vars(Scan) /\ WF_vars(Worker) /\ WF_vars(Attempt)
    /\ \A p \in Prs : SF_vars(WatchLoads(p))
    /\ WF_vars(\E j \in JobIds : LeaseEnds(j) \/ RetryDue(j))

-----------------------------------------------------------------------------
(* Properties *)

\* The types of the variables; a delivery is noted only for a watch.
SignalsTypeOK ==
    /\ TypeOK
    /\ pull \in [Prs -> [state : {"open", "closed", "draft"}, head : Heads,
                         ci : {"pending", "done"}, reviews : Seq(Heads)]]
    /\ note \in [Prs -> Deliveries \cup {None}]
    /\ \A p \in Prs : note[p] # None => watch[p] # 0
    /\ asked \in SUBSET Prs

Kept(p) ==
    \/ watch[p] # 0
    \/ ActiveJobs(p) # {}
    \/ worker.pc = "replace" /\ worker.copy.pr = p

(* Once a webhook has said that the head of a pull request wants a review,
   that is never forgotten before the Review exists, the job has failed, or
   the pull request changed: stale writes of the other producers and of the
   worker take it away from each other only to pass it on.  That is without
   webhooks handed over twice, checks that run again, pull requests that reopen,
   failing writes, crashes and discovery, which may admit what it read before the
   webhook; with them the next discovery has to find the pull request again. *)
AskedIsKept == \A p \in asked : Kept(p)

(* No head gets two automatic Reviews, although producers queue it from what
   they read before the first was posted. *)
NoSecondReview ==
    \A p \in Prs : \A i, k \in DOMAIN pull[p].reviews :
        pull[p].reviews[i] = pull[p].reviews[k] => i = k

GivenUp(p) == Suppressed(p, pull[p].head)

(* Webhooks may be lost and everything else may fail a number of times: an
   open pull request with finished checks is reviewed in the end, unless it
   changes or its job has used up its attempts. *)
EveryWishAnswered == \A p \in Prs : Wants(p) ~> (~Wants(p) \/ GivenUp(p) \/ FreeJobs = {})

(* A closed pull request leaves no job and no watch behind. *)
ClosedIsForgotten ==
    \A p \in Prs : pull[p].state = "closed" ~>
        \/ pull[p].state # "closed"
        \/ watch[p] = 0 /\ ActiveJobs(p) = {}
        \/ FreeJobs = {}
=============================================================================
