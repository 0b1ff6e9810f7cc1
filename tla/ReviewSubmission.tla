-------------------------- MODULE ReviewSubmission --------------------------
(***************************************************************************)
(* How one job posts its Review: the tool call github_api_request of the   *)
(* Reviewer turn, GitHub, and the reconciliation of a POST whose outcome   *)
(* is not known.  The POST is made by a sidecar container: it may be under *)
(* way after the call has given up, after the turn and after a crash.      *)
(*                                                                         *)
(* What the calls say (event and body hash) is a member of Texts, and      *)
(* whether they carry inline comments a Boolean.  The lease of the job and *)
(* the archive of its runs are those of module ReviewLoop.                 *)
(***************************************************************************)
EXTENDS Naturals, Sequences, FiniteSets

CONSTANTS
    Texts,       \* event and body of a submission
    MaxAttempts, \* max_attempts of the job
    MaxPosts,    \* bound: no call begins after this many POSTs
    None,
    Events       \* "push", "crash", "silent": a cancelled turn goes on

ASSUME SubmissionAssumption ==
    /\ MaxAttempts \in Nat \ {0}
    /\ MaxPosts \in Nat \ {0}
    /\ None \notin Texts

VARIABLES
    row,      \* the job
    attempts, \* attempt_count
    turn,     \* the call a turn is making
    worker,   \* "attempt" while the pool worker runs one, else "free"
    sent,     \* the POSTs, in order
    moved,    \* the head of the pull request is not the job's any more
    late      \* five minutes have passed since the intent was created

vars == <<row, attempts, turn, worker, sent, moved, late>>

Turns == 1 .. MaxAttempts
Active == {"running", "submission_pending", "reconciling", "retry_waiting"}

Quiet == [pc |-> "idle", text |-> None, inline |-> FALSE, had |-> FALSE,
          fallback |-> FALSE, post |-> 0, stale |-> FALSE]

Init ==
    /\ row = [status |-> "running", intent |-> None, inline |-> FALSE,
              receipt |-> 0, misplaced |-> FALSE]
    /\ attempts = 1
    /\ turn = [t \in Turns |-> [Quiet EXCEPT !.pc = IF t = 1 THEN "idle" ELSE "over"]]
    /\ worker = "attempt"
    /\ sent = <<>>
    /\ moved = FALSE
    /\ late = FALSE

Unresolved == row.intent # None /\ row.receipt = 0

-----------------------------------------------------------------------------
(* The store. *)

\* record_submission_intent_on_path: the same text, with the comments or
\* without them.  The status of the job is not looked at.
SameSubmission(c) ==
    /\ row.intent = c.text
    /\ c.inline => row.inline

RecordedIntent(c) ==
    [row EXCEPT !.intent = c.text,
                !.inline = IF row.intent = None THEN c.inline ELSE @,
                !.status = IF @ = "reconciling" THEN @ ELSE "submission_pending"]

\* mark_project_review_submission_reconciling
Reconciling == IF Unresolved THEN [row EXCEPT !.status = "reconciling"] ELSE row

\* record_submission_receipt_on_path
CanRecordReceipt == Unresolved /\ row.status \in {"submission_pending", "reconciling"}

Received(i) == [row EXCEPT !.status = "succeeded", !.receipt = i, !.misplaced = FALSE]

\* schedule_review_reconciliation, begin_review_reconciliation: an error
\* replaces the failure that was stored.
Rescheduled(error) ==
    IF late THEN [row EXCEPT !.status = "failed", !.misplaced = FALSE]
    ELSE [row EXCEPT !.status = "reconciling", !.misplaced = @ /\ ~error]

-----------------------------------------------------------------------------
(***************************************************************************)
(* GitHub.                                                                 *)
(***************************************************************************)

Post(c) == [text |-> c.text, inline |-> c.inline, again |-> c.had, state |-> "flying"]

\* Accepted; an inline comment is on no line of the diff; lost or refused.
GitHubAnswers(i) ==
    /\ sent[i].state = "flying"
    /\ \E state \in {"accepted", "dropped"} \cup {s \in {"misplaced"} : sent[i].inline} :
         sent' = [sent EXCEPT ![i].state = state]
    /\ UNCHANGED <<row, attempts, turn, worker, moved, late>>

\* Mutant of Reviews: those of other jobs at the same head count as well.
ReviewsOfAnyone == {i \in DOMAIN sent : sent[i].state = "accepted"} \cup {MaxPosts + 1}

\* The reviews with the marker of this job and its head.
Reviews == {i \in DOMAIN sent : sent[i].state = "accepted"}

Oldest(S) == CHOOSE i \in S : \A k \in S : i <= k

Push ==
    /\ "push" \in Events
    /\ moved' = TRUE
    /\ UNCHANGED <<row, attempts, turn, worker, sent, late>>

-----------------------------------------------------------------------------
(***************************************************************************)
(* execute_project_github_api_request.                                     *)
(***************************************************************************)

Returns(t) == turn' = [turn EXCEPT ![t] = [Quiet EXCEPT !.stale = turn[t].stale]]

\* A head that moved marks the target of the turn stale, for good.
CheckHead(t, text, inline) ==
    /\ turn[t].pc = "idle"
    /\ Len(sent) < MaxPosts
    /\ turn' = IF moved THEN [turn EXCEPT ![t].stale = TRUE]
               ELSE [turn EXCEPT ![t] = [@ EXCEPT !.pc = "read", !.text = text, !.inline = inline]]
    /\ UNCHANGED <<row, attempts, worker, sent, moved, late>>

\* Mutant of BodyOnlyAllowed: the failure that was stored is not looked at.
BodyOnlyAlways(c) == row.intent = c.text /\ row.inline /\ ~c.inline

\* review_body_only_fallback_is_allowed
BodyOnlyAllowed(c) == row.intent = c.text /\ row.inline /\ ~c.inline /\ row.misplaced

\* Mutant of HadIntent: only an intent of this process counts.
HadIntentRunning == row.intent # None /\ row.status # "reconciling"

HadIntent == row.intent # None

\* load_project_review_job; with a receipt the call is done.
ReadJob(t) ==
    /\ turn[t].pc = "read"
    /\ IF row.receipt # 0 THEN Returns(t)
       ELSE turn' = [turn EXCEPT ![t] = [@ EXCEPT !.pc = "record", !.had = HadIntent,
                                                  !.fallback = BodyOnlyAllowed(turn[t])]]
    /\ UNCHANGED <<row, attempts, worker, sent, moved, late>>

RecordIntent(t) ==
    LET c == turn[t] IN
    /\ c.pc = "record"
    /\ IF row.receipt = 0 /\ (row.intent = None \/ SameSubmission(c))
       THEN /\ row' = RecordedIntent(c)
            /\ turn' = [turn EXCEPT ![t].pc = IF c.had THEN "search" ELSE "post"]
       ELSE Returns(t) /\ UNCHANGED row
    /\ UNCHANGED <<attempts, worker, sent, moved, late>>

\* reconcile_project_review_submission, from the call.
Search(t) ==
    /\ turn[t].pc = "search"
    /\ IF Reviews # {}
       THEN /\ row' = IF CanRecordReceipt THEN Received(Oldest(Reviews)) ELSE row
            /\ Returns(t)
       ELSE /\ turn' = [turn EXCEPT ![t].pc = IF turn[t].fallback THEN "post" ELSE "mark"]
            /\ UNCHANGED row
    /\ UNCHANGED <<attempts, worker, sent, moved, late>>

MarkUncertain(t) ==
    /\ turn[t].pc = "mark"
    /\ row' = Reconciling
    /\ Returns(t)
    /\ UNCHANGED <<attempts, worker, sent, moved, late>>

SendPost(t) ==
    /\ turn[t].pc = "post"
    /\ sent' = Append(sent, Post(turn[t]))
    /\ turn' = [turn EXCEPT ![t] = [@ EXCEPT !.pc = "wait", !.post = Len(sent) + 1]]
    /\ UNCHANGED <<row, attempts, worker, moved, late>>

\* The receipt, or a response that cannot be parsed.
Accepted(t) ==
    LET i == turn[t].post IN
    /\ turn[t].pc = "wait" /\ sent[i].state = "accepted"
    /\ row' \in {IF CanRecordReceipt THEN Received(i) ELSE row, Reconciling}
    /\ Returns(t)
    /\ UNCHANGED <<attempts, worker, sent, moved, late>>

\* record_project_review_submission_failure
Misplaced(t) ==
    /\ turn[t].pc = "wait" /\ sent[turn[t].post].state = "misplaced"
    /\ row' = IF Unresolved THEN [row EXCEPT !.misplaced = TRUE] ELSE row
    /\ Returns(t)
    /\ UNCHANGED <<attempts, worker, sent, moved, late>>

\* A transport error, a timeout or a status that may be retried makes the job
\* reconciling; an error of the sidecar and any other refusal write nothing.
Uncertain(t) ==
    /\ turn[t].pc = "wait"
    /\ row' \in {row, Reconciling}
    /\ Returns(t)
    /\ UNCHANGED <<attempts, worker, sent, moved, late>>

\* GitHub or the store cannot be read.
CallFails(t) ==
    /\ turn[t].pc \in {"read", "record", "search", "mark"}
    /\ Returns(t)
    /\ UNCHANGED <<row, attempts, worker, sent, moved, late>>

-----------------------------------------------------------------------------
(***************************************************************************)
(* The worker.                                                             *)
(***************************************************************************)

Failed == [row EXCEPT !.status = "failed", !.misplaced = FALSE]

\* apply_review_failure, schedule_retry: whatever is true of the intent.
AfterFailure ==
    {Failed} \cup {r \in {[row EXCEPT !.status = "retry_waiting", !.misplaced = FALSE]} :
                      attempts < MaxAttempts}

\* run_claimed_project_review_job, by the result of the attempt: what the turn
\* reported, an error, an error because the head moved, or a run that could not
\* be archived.  Only the first looks at the intent.
Outcomes(result) ==
    CASE result = "report" /\ Unresolved ->
           {[row EXCEPT !.status = "reconciling", !.misplaced = FALSE]}
      [] result = "report" /\ ~Unresolved ->
           AfterFailure \cup {[row EXCEPT !.status = "succeeded"]}
      [] result = "error" -> AfterFailure
      [] result = "head changed" -> {[row EXCEPT !.status = "superseded"]}
      [] result = "not archived" -> {row}

Results(t) ==
    {"report", "error", "not archived"} \cup {r \in {"head changed"} : turn[t].stale}

\* A job that is reconciling or terminal by now is decided by its row.  The turn
\* is over, unless it was only not waited for.
AttemptEnds ==
    /\ worker = "attempt"
    /\ \/ turn[attempts].pc = "idle" /\ turn' = [turn EXCEPT ![attempts].pc = "over"]
       \/ "silent" \in Events /\ UNCHANGED turn
    /\ \/ row.status \in {"running", "submission_pending"}
          /\ \E result \in Results(attempts) : row' \in Outcomes(result)
       \/ row.status = "reconciling" /\ row' = Rescheduled(FALSE)
       \/ row.status \notin Active /\ UNCHANGED row
    /\ worker' = "free"
    /\ UNCHANGED <<attempts, sent, moved, late>>

Crash ==
    /\ "crash" \in Events
    /\ worker = "attempt"
    /\ turn' = [t \in Turns |-> [turn[t] EXCEPT !.pc = "over"]]
    /\ worker' = "free"
    /\ UNCHANGED <<row, attempts, sent, moved, late>>

\* recover_jobs_on_path, when the lease of the attempt has lapsed.
Recover ==
    /\ worker = "free" /\ row.status \in {"running", "submission_pending"}
    /\ row' = [row EXCEPT !.status = IF row.intent = None THEN "retry_waiting" ELSE "reconciling"]
    /\ UNCHANGED <<attempts, turn, worker, sent, moved, late>>

MayAttempt == attempts < MaxAttempts

\* claim_due_job_on_path: an intent makes it a reconciliation.
ClaimRetry ==
    /\ worker = "free" /\ row.status = "retry_waiting"
    /\ \/ /\ row.intent # None
          /\ row' = [row EXCEPT !.status = "reconciling"]
          /\ UNCHANGED <<attempts, turn, worker>>
       \/ /\ row.intent = None /\ ~MayAttempt
          /\ row' = Failed
          /\ UNCHANGED <<attempts, turn, worker>>
       \/ /\ row.intent = None /\ MayAttempt
          /\ row' = [row EXCEPT !.status = "running"]
          /\ attempts' = attempts + 1
          /\ turn' = [turn EXCEPT ![attempts + 1].pc = "idle"]
          /\ worker' = "attempt"
    /\ UNCHANGED <<sent, moved, late>>

\* Mutant of Reconcile: the search goes on for ever.
ReconcileForever ==
    /\ worker = "free" /\ row.status = "reconciling"
    /\ row' = IF Reviews # {} THEN Received(Oldest(Reviews)) ELSE row
    /\ UNCHANGED <<attempts, turn, worker, sent, moved, late>>

\* run_claimed_project_review_reconciliation: the search finds the review or
\* not, or cannot be made.
Reconcile ==
    /\ worker = "free" /\ row.status = "reconciling"
    /\ \/ /\ Reviews # {} /\ row' = Received(Oldest(Reviews))
       \/ /\ Reviews = {} /\ row' = Rescheduled(FALSE)
       \/ /\ row' = Rescheduled(TRUE)
    /\ UNCHANGED <<attempts, turn, worker, sent, moved, late>>

FiveMinutes ==
    /\ row.intent # None /\ ~late
    /\ late' = TRUE
    /\ UNCHANGED <<row, attempts, turn, worker, sent, moved>>

-----------------------------------------------------------------------------
Call(t) == \/ ReadJob(t) \/ RecordIntent(t) \/ Search(t) \/ MarkUncertain(t) \/ SendPost(t)
           \/ Accepted(t) \/ Misplaced(t) \/ Uncertain(t) \/ CallFails(t)
Worker == Recover \/ ClaimRetry \/ Reconcile

Next ==
    \/ \E t \in Turns : Call(t) \/ \E text \in Texts, b \in BOOLEAN : CheckHead(t, text, b)
    \/ \E i \in DOMAIN sent : GitHubAnswers(i)
    \/ AttemptEnds \/ Worker \/ Push \/ Crash \/ FiveMinutes

Spec == Init /\ [][Next]_vars

(* A call ends, because a sidecar has a timeout; a turn ends; the pool worker
   goes on; time passes.  GitHub need not answer.                           *)
FairSpec ==
    /\ Spec
    /\ \A t \in Turns : WF_vars(Call(t))
    /\ SF_vars(AttemptEnds) /\ WF_vars(Worker) /\ WF_vars(FiveMinutes)

-----------------------------------------------------------------------------
(* Properties *)

\* The types of the variables.
TypeOK ==
    /\ row \in [status : Active \cup {"succeeded", "failed", "superseded"},
                intent : Texts \cup {None}, inline : BOOLEAN,
                receipt : Nat, misplaced : BOOLEAN]
    /\ attempts \in Turns
    /\ sent \in Seq([text : Texts, inline : BOOLEAN, again : BOOLEAN,
                     state : {"flying", "accepted", "misplaced", "dropped"}])

(* Of everything the turns of a job send, whatever is lost, retried or cut off
   by a crash, only one POST is not a recovery. *)
OneFullPost == Cardinality({i \in DOMAIN sent : ~sent[i].again}) <= 1

(* The recovery without comments is sent only for a POST that GitHub refused
   for its comments, so that there is no second Review beside the full one. *)
RecoveryAfterRefusal ==
    \A i \in DOMAIN sent : sent[i].again =>
        /\ ~sent[i].inline
        /\ \E k \in 1 .. i - 1 : /\ sent[k].state = "misplaced"
                                 /\ sent[k].text = sent[i].text

(* A receipt stands for a Review of this job that is at GitHub, with the text
   the job intended. *)
ReceiptIsReal ==
    row.receipt # 0 => /\ row.receipt \in DOMAIN sent
                       /\ sent[row.receipt].state = "accepted"
                       /\ sent[row.receipt].text = row.intent

(* The outcome of an intent does not stay open. *)
IntentResolved == Unresolved ~> ~Unresolved \/ row.status \notin Active

(* docs/project-review-loop.md: the body-only recovery is made once. *)
OneRecovery == Cardinality({i \in DOMAIN sent : sent[i].again}) <= 1

(* docs/project-review-loop.md: a job with an intent and no receipt is
   reconciled; it ends without a receipt only when that took too long. *)
UnresolvedIsReconciled == Unresolved /\ row.status \notin Active => late
=============================================================================
