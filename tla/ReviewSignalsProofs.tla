------------------------- MODULE ReviewSignalsProofs -------------------------
(***************************************************************************)
(* Theorems about the way from GitHub to a Review, for every number of     *)
(* pull requests, heads, deliveries, jobs, attempts and changes.           *)
(*                                                                         *)
(* For every choice of Events no head is reviewed twice.  ReviewInv ties   *)
(* what the worker holds to its job and to the Reviews there are; it is    *)
(* shown group of actions by group of actions.                             *)
(***************************************************************************)
EXTENDS ReviewSignals, TLAPS, WellFoundedInduction

-----------------------------------------------------------------------------
(***************************************************************************)
(* The inductive invariant of NoSecondReview.                              *)
(***************************************************************************)
Verdicts == {"none", "eligible", "pending", "reviewed", "closed", "draft"}

Eval ==
    [pr : Prs \cup {0}, head : Heads \cup {0}, verdict : Verdicts,
     delivery : Deliveries \cup {None}, seen : 0..MaxHead]

Found == {e \in Eval : e.pr \in Prs /\ e.head \in Heads}

ScanType ==
    [on : BOOLEAN, page : Nat, todo : SUBSET Prs, full : BOOLEAN, found : SUBSET Found]

PullType ==
    [state : {"open", "closed", "draft"}, head : Heads, ci : {"pending", "done"},
     reviews : Seq(Heads)]

WorkerType ==
    [pc : {"idle", "preflight", "decide", "replace", "review"}, j : JobIds \cup {0},
     copy : JobRow, head : Heads \cup {0}, verdict : Verdicts]

JobsTyped == job \in [JobIds -> JobRow]

PullTyped == pull \in [Prs -> PullType]

\* What the producers hold names a pull request and a head.
SourcesTyped ==
    /\ watch \in [Prs -> 0..MaxHead]
    /\ note \in [Prs -> Deliveries \cup {None}]
    /\ hook \in Eval /\ (hook # Nothing => hook.pr \in Prs /\ hook.head \in Heads)
    /\ watcher \in Eval /\ (watcher # Nothing => watcher.pr \in Prs)
    /\ watcher.verdict # "none" => watcher.head \in Heads
    /\ scan \in ScanType

SignalTypes == JobsTyped /\ PullTyped /\ SourcesTyped /\ worker \in WorkerType

\* What the worker holds is about the job it claimed.
Claimed == worker.pc # "idle" =>
    /\ worker.j \in JobIds
    /\ job[worker.j].status # "absent"
    /\ worker.pc # "review" => /\ worker.copy.pr = job[worker.j].pr
                               /\ worker.copy.head = job[worker.j].head
    /\ worker.pc \in {"decide", "replace"} => worker.head \in Heads

\* The Reviews of a pull request are of ever later heads.
Ordered == \A p \in Prs :
    LET s == pull[p].reviews IN
    /\ \A i \in DOMAIN s : s[i] <= pull[p].head
    /\ \A i, k \in DOMAIN s : i < k => s[i] < s[k]

Unreviewed(p, h) == \A i \in DOMAIN pull[p].reviews : pull[p].reviews[i] < h

\* A job goes on to its Review only for a head that was not reviewed.
Afresh ==
    /\ Eligible => Unreviewed(worker.copy.pr, worker.copy.head)
    /\ worker.pc = "review" => Unreviewed(job[worker.j].pr, job[worker.j].head)

ReviewInv == SignalTypes /\ Claimed /\ Ordered /\ Afresh

-----------------------------------------------------------------------------
(***************************************************************************)
(* Ids and rows of the tables.                                             *)
(***************************************************************************)

\* A nonempty set of ids below n has a least and a greatest element.
LEMMA Extremes ==
    ASSUME NEW n \in Nat, NEW S, S \subseteq 1..n, S # {}
    PROVE  /\ \E x \in S : \A y \in S : x <= y
           /\ \E x \in S : \A y \in S : y <= x
<1> DEFINE R == {ss \in Nat \X Nat : ss[1] < ss[2]}
<1>1. ASSUME NEW T, T \subseteq Nat, T # {}
      PROVE  \E x \in T : \A y \in T : x <= y
  <2>1. IsWellFoundedOn(R, Nat)
    BY NatLessThanWellFounded DEF OpToRel
  <2>2. \E x \in T : \A y \in T : ~(<<y, x>> \in R)
    <3> HIDE DEF R
    <3> QED BY <1>1, <2>1, WFMin
  <2>3. \A x, y \in T : ~(<<y, x>> \in R) => x <= y
    BY <1>1
  <2> QED BY <2>2, <2>3
<1> DEFINE T == {t \in 0..n : n - t \in S}
<1>2. \A x \in S : n - x \in T /\ n - (n - x) = x
  <2> TAKE x \in S
  <2>1. x \in 1..n
    OBVIOUS
  <2>2. n - x \in 0..n /\ n - (n - x) = x
    BY <2>1
  <2> QED BY <2>2
<1>3. T \subseteq Nat /\ T # {}
  <2>1. T \subseteq Nat
    OBVIOUS
  <2> HIDE DEF T
  <2> QED BY <1>2, <2>1
<1>4. PICK t \in T : \A u \in T : t <= u
  BY <1>1, <1>3
<1>5. \A y \in S : y <= n - t
  <2> TAKE y \in S
  <2>1. t <= n - y
    BY <1>2, <1>4
  <2>2. y \in 1..n /\ t \in 0..n
    OBVIOUS
  <2> QED BY <2>1, <2>2
<1>6. S \subseteq Nat
  OBVIOUS
<1> QED BY <1>1, <1>4, <1>5, <1>6

\* MaxId of a set of ids is 0 or one of them.
LEMMA MaxIdIn ==
    ASSUME NEW S, S \subseteq JobIds
    PROVE  MaxId(S) # 0 => MaxId(S) \in S
BY Extremes, BoundAssumption DEF MaxId, JobIds

LEMMA NextJobFree == FreeJobs # {} => NextJob \in FreeJobs
<1>1. FreeJobs \subseteq 1..MaxJobs
  BY DEF FreeJobs, JobIds
<1> QED BY <1>1, Extremes, BoundAssumption DEF NextJob

LEMMA LoadActiveIn ==
    ASSUME NEW p
    PROVE  LoadActive(p) # 0 => LoadActive(p) \in ActiveJobs(p)
<1>1. ActiveJobs(p) \subseteq JobIds
  BY DEF ActiveJobs
<1> QED BY <1>1, MaxIdIn DEF LoadActive

LEMMA LatestSameHeadIn ==
    ASSUME NEW p, NEW h
    PROVE  LatestSameHead(p, h) # 0 =>
               /\ LatestSameHead(p, h) \in JobIds
               /\ job[LatestSameHead(p, h)].pr = p /\ job[LatestSameHead(p, h)].head = h
               /\ Stored(LatestSameHead(p, h))
<1>1. {j \in JobIds : Stored(j) /\ job[j].pr = p /\ job[j].head = h} \subseteq JobIds
  OBVIOUS
<1> QED BY <1>1, MaxIdIn DEF LatestSameHead

LEMMA Statuses ==
    /\ \A s \in Active : s # "absent" /\ s # "deleted" /\ s \notin Terminal
    /\ \A s \in Terminal : s # "absent" /\ s # "deleted" /\ s \notin Active
    /\ {"queued", "preparing", "running", "reconciling", "retry_waiting"} \subseteq Active
    /\ {"failed", "superseded", "skipped", "succeeded"} \subseteq Terminal
BY DEF Active, Executing, Terminal

LEMMA Zeros ==
    /\ 0 \in 0..MaxRuns /\ 0 \in 0..MaxAttempts /\ 0 \in 0..MaxHead
    /\ 1 \in Heads /\ Heads \subseteq 0..MaxHead
    /\ Heads \subseteq Nat /\ JobIds \subseteq Nat /\ Prs \subseteq Nat /\ 0 \notin Heads
    /\ 0 \notin JobIds /\ 0 \notin Prs
BY BoundAssumption, SignalsAssumption DEF Heads, JobIds

LEMMA NewRow ==
    ASSUME NEW p \in Prs, NEW h \in Heads, NEW d \in Deliveries \cup {None},
           NEW s \in Active \cup {"absent"}
    PROVE  /\ NewJob(p, h, d, s) \in JobRow
           /\ NewJob(p, h, d, s).pr = p /\ NewJob(p, h, d, s).head = h
           /\ NewJob(p, h, d, s).delivery = d /\ NewJob(p, h, d, s).status = s
BY Zeros DEF NewJob, JobRow

\* A row that is released keeps what it is about.
LEMMA ReleasedRow ==
    ASSUME NEW row \in JobRow
    PROVE  /\ \A s \in Terminal :
                /\ Finished(row, s) \in JobRow /\ Finished(row, s).status = s
                /\ Finished(row, s).pr = row.pr /\ Finished(row, s).head = row.head
                /\ Finished(row, s).delivery = row.delivery
           /\ ScheduleRetry(row) \in JobRow /\ ScheduleRetry(row).status = "retry_waiting"
           /\ ScheduleRetry(row).pr = row.pr /\ ScheduleRetry(row).head = row.head
           /\ ScheduleRetry(row).delivery = row.delivery
           /\ Unleased(row) \in JobRow /\ Unleased(row).pr = row.pr
           /\ Unleased(row).head = row.head /\ Unleased(row).delivery = row.delivery
           /\ Unleased(row).status = row.status
BY Zeros, Statuses DEF Finished, ScheduleRetry, Unleased, JobRow

-----------------------------------------------------------------------------
(***************************************************************************)
(* What the steps do to the rows: a job stays the job of its pull request  *)
(* and of its head.                                                        *)
(***************************************************************************)
Same(row, old) == row.status # "absent" /\ row.pr = old.pr /\ row.head = old.head

JobsMove ==
    /\ job' \in [JobIds -> JobRow]
    /\ \A j \in JobIds : job[j].status # "absent" => Same(job'[j], job[j])

LEMMA NoJobMoves ==
    ASSUME JobsTyped, job' = job
    PROVE  JobsMove
BY DEF JobsTyped, JobsMove, Same

LEMMA OneJobMoves ==
    ASSUME JobsTyped, NEW j \in JobIds, NEW row \in JobRow, job' = [job EXCEPT ![j] = row],
           job[j].status # "absent" => Same(row, job[j])
    PROVE  JobsMove
BY DEF JobsTyped, JobsMove, Same

\* enqueue_in_transaction: a delivery for the active job of the head, or a new
\* job and the end of the one it supersedes.
Joins(p, h, d) ==
    \E old \in ActiveJobs(p) :
        /\ job[old].head = h
        /\ job' = job \/ job' = [job EXCEPT ![old].delivery = Coalesce(d, @)]

Adds(p, h, d) ==
    \E new \in FreeJobs :
        /\ job' \in [JobIds -> JobRow]
        /\ job'[new] = NewJob(p, h, d, "queued")
        /\ \A j \in JobIds \ {new} :
              \/ job'[j] = job[j]
              \/ j \in ActiveJobs(p) /\ job'[j] = [job[j] EXCEPT !.status = "superseded"]

LEMMA EnqueueCases ==
    ASSUME JobsTyped, NEW p \in Prs, NEW h \in Heads, NEW d \in Deliveries \cup {None},
           NEW watched, EnqueueInTransaction(p, h, d, watched)
    PROVE  (KnownDelivery(p, d) /\ job' = job) \/ Joins(p, h, d) \/ Adds(p, h, d)
<1> DEFINE old == LoadActive(p)
<1> DEFINE row == NewJob(p, h, d, "queued")
<1>1. old # 0 => old \in ActiveJobs(p) /\ old \in JobIds
  BY LoadActiveIn DEF ActiveJobs
<1>2. FreeJobs # {} => NextJob \in FreeJobs /\ NextJob \in JobIds
  BY NextJobFree DEF FreeJobs
<1>3. row \in JobRow
  BY NewRow, Statuses
<1> HIDE DEF row
<1>4. CASE KnownDelivery(p, d) /\ job' = job
  BY <1>4
<1>5. CASE /\ old # 0 /\ job[old].head = h
           /\ job' = job \/ job' = [job EXCEPT ![old].delivery = Coalesce(d, @)]
  BY <1>1, <1>5 DEF Joins
<1>6. CASE FreeJobs # {} /\ job' = [job EXCEPT ![NextJob] = row]
  BY <1>2, <1>3, <1>6 DEF JobsTyped, row, Adds
<1>7. CASE /\ old # 0 /\ FreeJobs # {}
           /\ job' = [[job EXCEPT ![old].status = "superseded"] EXCEPT ![NextJob] = row]
  <2>1. [job[old] EXCEPT !.status = "superseded"] \in JobRow
    BY <1>1, <1>7, Statuses DEF JobsTyped, JobRow
  <2>2. job' \in [JobIds -> JobRow] /\ job'[NextJob] = row
    BY <1>1, <1>2, <1>3, <1>7, <2>1 DEF JobsTyped
  <2>3. ASSUME NEW j \in JobIds \ {NextJob}
        PROVE  \/ job'[j] = job[j]
               \/ j \in ActiveJobs(p) /\ job'[j] = [job[j] EXCEPT !.status = "superseded"]
    BY <1>1, <1>2, <1>7 DEF JobsTyped
  <2>4. NextJob \in FreeJobs /\ job'[NextJob] = NewJob(p, h, d, "queued")
    BY <1>2, <1>7, <2>2 DEF row
  <2> HIDE DEF old
  <2> QED BY <2>2, <2>3, <2>4 DEF Adds
<1> QED BY <1>4, <1>5, <1>6, <1>7 DEF EnqueueInTransaction, row

LEMMA EnqueueMoves ==
    ASSUME JobsTyped, NEW p \in Prs, NEW h \in Heads, NEW d \in Deliveries \cup {None},
           NEW watched, EnqueueInTransaction(p, h, d, watched)
    PROVE  JobsMove
<1>1. CASE job' = job
  BY <1>1, NoJobMoves
<1>2. ASSUME NEW old \in ActiveJobs(p), job' = [job EXCEPT ![old].delivery = Coalesce(d, @)]
      PROVE  JobsMove
  <2> DEFINE row == [job[old] EXCEPT !.delivery = Coalesce(d, @)]
  <2>1. old \in JobIds /\ job[old] \in JobRow
    BY DEF ActiveJobs, JobsTyped
  <2>2. row \in JobRow /\ (job[old].status # "absent" => Same(row, job[old]))
    BY <2>1 DEF JobRow, Coalesce, Same
  <2>3. job' = [job EXCEPT ![old] = row]
    BY <1>2
  <2> QED BY <2>1, <2>2, <2>3, OneJobMoves
<1>3. ASSUME NEW new \in FreeJobs, job' \in [JobIds -> JobRow],
             \A j \in JobIds \ {new} :
                 \/ job'[j] = job[j]
                 \/ j \in ActiveJobs(p) /\ job'[j] = [job[j] EXCEPT !.status = "superseded"]
      PROVE  JobsMove
  <2>1. \A j \in JobIds : job[j].status # "absent" => j # new
    BY DEF FreeJobs
  <2>2. ASSUME NEW j \in JobIds, job'[j] = [job[j] EXCEPT !.status = "superseded"]
        PROVE  Same(job'[j], job[j])
    BY <2>2 DEF JobsTyped, JobRow, Same
  <2> QED BY <1>3, <2>1, <2>2 DEF JobsMove, Same
<1>4. CASE Joins(p, h, d)
  BY <1>1, <1>2, <1>4 DEF Joins
<1>5. CASE Adds(p, h, d)
  BY <1>3, <1>5 DEF Adds
<1> QED BY <1>1, <1>4, <1>5, EnqueueCases

LEMMA AdmissionMoves ==
    ASSUME JobsTyped, NEW p \in Prs, NEW h \in Heads, AdmitCandidate(p, h)
    PROVE  JobsMove
<1> DEFINE latest == LatestSameHead(p, h)
<1>1. CASE EnqueueInTransaction(p, h, None, FALSE)
  BY <1>1, EnqueueMoves
<1>2. CASE latest # 0 /\ job' = [job EXCEPT ![latest] =
                           [job[latest] EXCEPT !.status = "queued", !.due = TRUE,
                                    !.reviewer = 0, !.run = 0,
                                    !.owner = None, !.live = FALSE]]
  <2> DEFINE row == [job[latest] EXCEPT !.status = "queued", !.due = TRUE, !.reviewer = 0,
                                        !.run = 0, !.owner = None, !.live = FALSE]
  <2>1. latest \in JobIds /\ job[latest] \in JobRow
    BY <1>2, LatestSameHeadIn DEF JobsTyped
  <2>2. row \in JobRow /\ Same(row, job[latest])
    BY <2>1, Zeros, Statuses DEF JobRow, Same
  <2>3. job' = [job EXCEPT ![latest] = row]
    BY <1>2
  <2> HIDE DEF row, latest
  <2> QED BY <2>1, <2>2, <2>3, OneJobMoves
<1> QED BY <1>1, <1>2 DEF AdmitCandidate

LEMMA WatchEnqueueMoves ==
    ASSUME JobsTyped, NEW p \in Prs, NEW seen, NEW h \in Heads,
           NEW d \in Deliveries \cup {None}, EnqueueFromWatch(p, seen, h, d)
    PROVE  JobsMove
BY EnqueueMoves, NoJobMoves DEF EnqueueFromWatch, tables

LEMMA WriteMoves ==
    ASSUME JobsTyped, NEW j \in JobIds, NEW row \in JobRow, WriteRow(j, row),
           Same(row, job[j])
    PROVE  JobsMove
BY OneJobMoves DEF WriteRow

\* A claimed row is saved from a copy of the same job, or not at all.
LEMMA SaveCases ==
    ASSUME JobsTyped, NEW j \in JobIds, NEW c \in JobRow, c.owner = None,
           SaveClaimed(j, Pool, c, FALSE)
    PROVE  \/ job' = job /\ (job[j].owner # Pool \/ job[j].status \in Terminal)
           \/ job' = [job EXCEPT ![j] = c] /\ job[j].owner = Pool
BY NoneAssumption, SignalsAssumption DEF SaveClaimed, Upsert, WriteRow

LEMMA SaveMoves ==
    ASSUME JobsTyped, NEW j \in JobIds, NEW c \in JobRow, c.owner = None,
           SaveClaimed(j, Pool, c, FALSE), Same(c, job[j])
    PROVE  JobsMove
BY SaveCases, NoJobMoves, OneJobMoves

LEMMA ReleasedOwner ==
    ASSUME NEW row \in JobRow
    PROVE  ScheduleRetry(row).owner = None /\ \A s : Finished(row, s).owner = None
BY DEF Finished, ScheduleRetry, Unleased, JobRow

LEMMA ClaimMoves ==
    ASSUME JobsTyped, NEW j \in JobIds, NEW expired, Claim(j, Pool, expired)
    PROVE  /\ JobsMove
           /\ job[j].status \in Active /\ job'[j].status \in Active
           /\ job'[j].delivery = job[j].delivery
           /\ \A i \in JobIds \ {j} : job'[i] = job[i]
<1> DEFINE s == IF job[j].intent THEN "reconciling" ELSE "preparing"
           row == [job[j] EXCEPT !.status = s, !.due = TRUE, !.owner = Pool, !.live = TRUE]
<1>1. job[j].status \in {"queued", "retry_waiting", "reconciling"}
  BY DEF Claim, ClaimOrder, ClaimDue
<1>2. job[j] \in JobRow /\ s \in {"reconciling", "preparing"}
  BY DEF JobsTyped
<1>3. job' = [job EXCEPT ![j] = row]
  BY DEF Claim
<1>4. row \in JobRow /\ Same(row, job[j]) /\ row.status \in Active /\ row.delivery = job[j].delivery
  <2> HIDE DEF s
  <2> QED BY <1>2, Statuses, SignalsAssumption DEF JobRow, Same
<1> HIDE DEF row
<1>5. JobsMove
  BY <1>3, <1>4, OneJobMoves
<1> QED BY <1>1, <1>3, <1>4, <1>5, Statuses DEF JobsTyped

LEMMA LeaseMoves ==
    ASSUME JobsTyped, NEW j \in JobIds, LeaseLapses(j) \/ BecomesDue(j)
    PROVE  /\ JobsMove
           /\ \A i \in JobIds : /\ job'[i].delivery = job[i].delivery
                                /\ job'[i].status = job[i].status
                                /\ job'[i].pr = job[i].pr /\ job'[i].head = job[i].head
<1> DEFINE lapsed == [job[j] EXCEPT !.live = FALSE]
           due == [job[j] EXCEPT !.due = TRUE]
<1>1. ASSUME NEW row \in {lapsed, due}
      PROVE  /\ row \in JobRow
             /\ row.delivery = job[j].delivery /\ row.status = job[j].status
             /\ row.pr = job[j].pr /\ row.head = job[j].head
  <2>1. job[j] \in JobRow
    BY DEF JobsTyped
  <2>2. CASE row = lapsed
    BY <2>1, <2>2 DEF JobRow
  <2>3. CASE row = due
    BY <2>1, <2>3 DEF JobRow
  <2> QED BY <2>2, <2>3
<1>2. PICK row \in {lapsed, due} : job' = [job EXCEPT ![j] = row]
  BY DEF LeaseLapses, BecomesDue
<1> HIDE DEF lapsed, due
<1> QED BY <1>1, <1>2, OneJobMoves DEF JobsTyped, Same

LEMMA RecoveryMoves ==
    ASSUME JobsTyped, NEW expired, RecoverJobs(expired)
    PROVE  /\ JobsMove
           /\ \A j \in JobIds : /\ job'[j].delivery = job[j].delivery
                                /\ job'[j].pr = job[j].pr /\ job'[j].head = job[j].head
                                /\ job[j].status \in Active => job'[j].status \in Active
                                /\ job[j].status = "absent" => job'[j].status = "absent"
<1> DEFINE Back(j) == [Unleased(job[j]) EXCEPT
                          !.status = IF job[j].intent THEN "reconciling" ELSE "retry_waiting",
                          !.due = TRUE]
<1>1. ASSUME NEW j \in JobIds
      PROVE  /\ Back(j) \in JobRow /\ Back(j).status \in Active
             /\ Back(j).delivery = job[j].delivery
             /\ Back(j).pr = job[j].pr /\ Back(j).head = job[j].head
  <2> DEFINE s == IF job[j].intent THEN "reconciling" ELSE "retry_waiting"
  <2>1. Unleased(job[j]) \in JobRow /\ s \in {"reconciling", "retry_waiting"}
    BY ReleasedRow DEF JobsTyped
  <2>2. /\ Unleased(job[j]).delivery = job[j].delivery
        /\ Unleased(job[j]).pr = job[j].pr /\ Unleased(job[j]).head = job[j].head
    BY ReleasedRow DEF JobsTyped
  <2> HIDE DEF s
  <2>3. [Unleased(job[j]) EXCEPT !.status = s, !.due = TRUE] \in JobRow
    BY <2>1, Statuses DEF JobRow
  <2>4. LET b == [Unleased(job[j]) EXCEPT !.status = s, !.due = TRUE] IN
          /\ b.status = s /\ b.delivery = Unleased(job[j]).delivery
          /\ b.pr = Unleased(job[j]).pr /\ b.head = Unleased(job[j]).head
    BY <2>1 DEF JobRow
  <2> QED BY <2>1, <2>2, <2>3, <2>4, Statuses DEF s
<1>2. job' = [j \in JobIds |-> IF MustRecover(j, expired) THEN Back(j) ELSE job[j]]
  BY DEF RecoverJobs
<1>3. \A j \in JobIds : job'[j] \in {Back(j), job[j]} /\ (job'[j] = job[j] \/ MustRecover(j, expired))
  BY <1>2
<1>4. \A j \in JobIds : MustRecover(j, expired) => job[j].status # "absent"
  BY DEF MustRecover
<1>5. job' \in [JobIds -> JobRow]
  BY <1>1, <1>2 DEF JobsTyped
<1> HIDE DEF Back
<1> QED BY <1>1, <1>3, <1>4, <1>5, Statuses DEF JobsMove, Same

-----------------------------------------------------------------------------
(***************************************************************************)
(* NoSecondReview.  Most steps leave GitHub and the worker alone, or send  *)
(* the worker home.                                                        *)
(***************************************************************************)
LEMMA Evaluations ==
    ASSUME PullTyped
    PROVE  /\ Nothing \in Eval /\ Nothing.verdict = "none" /\ Nothing.pr = 0
           /\ \A p \in Prs :
                /\ Evaluated(p) \in Eval
                /\ Evaluated(p).pr = p /\ Evaluated(p).head = pull[p].head
                /\ Evaluated(p).verdict = Verdict(p)
                /\ pull[p].head \in Heads /\ Verdict(p) \in Verdicts \ {"none"}
<1>1. Nothing \in Eval /\ Nothing.verdict = "none" /\ Nothing.pr = 0
  BY Zeros DEF Nothing, Eval, Verdicts
<1>2. ASSUME NEW p \in Prs
      PROVE  pull[p].head \in Heads /\ Verdict(p) \in Verdicts \ {"none"}
  BY DEF PullTyped, PullType, Verdict, Verdicts
<1>3. ASSUME NEW p \in Prs
      PROVE  /\ Evaluated(p) \in Eval
             /\ Evaluated(p).pr = p /\ Evaluated(p).head = pull[p].head
             /\ Evaluated(p).verdict = Verdict(p)
  <2>1. \A h \in Heads, v \in Verdicts :
           LET e == [Nothing EXCEPT !.pr = p, !.head = h, !.verdict = v] IN
           e \in Eval /\ e.pr = p /\ e.head = h /\ e.verdict = v
    BY <1>1 DEF Eval
  <2> QED BY <1>2, <2>1 DEF Evaluated
<1> QED BY <1>1, <1>2, <1>3

LEMMA FreeWorker ==
    /\ Free \in WorkerType /\ Free.pc = "idle"
    /\ Free.copy.delivery = None
<1> DEFINE first == CHOOSE p \in Prs : TRUE
           row == NewJob(first, 1, None, "absent")
<1>1. first \in Prs
  BY PrsAssumption
<1>2. Free = [pc |-> "idle", j |-> 0, copy |-> row, head |-> 0, verdict |-> "none"]
  BY DEF Free
<1> HIDE DEF first
<1>3. row \in JobRow /\ row.delivery = None
  BY <1>1, NewRow, Zeros
<1> HIDE DEF row
<1> QED BY <1>2, <1>3 DEF WorkerType, Verdicts

LEMMA OthersStep ==
    ASSUME ReviewInv, JobsMove, SourcesTyped', UNCHANGED <<pull, worker>>
    PROVE  ReviewInv'
<1>1. SignalTypes'
  BY DEF ReviewInv, SignalTypes, JobsTyped, JobsMove, PullTyped
<1>2. Claimed' /\ (worker.pc # "idle" => Same(job'[worker.j], job[worker.j]))
  BY DEF ReviewInv, Claimed, JobsMove, Same
<1>3. Ordered' /\ \A p, h : Unreviewed(p, h)' <=> Unreviewed(p, h)
  BY DEF ReviewInv, Ordered, Unreviewed
<1>4. Afresh'
  BY <1>2, <1>3 DEF ReviewInv, Afresh, Eligible, Same, Unreviewed
<1> QED BY <1>1, <1>2, <1>3, <1>4 DEF ReviewInv

LEMMA FreeingStep ==
    ASSUME ReviewInv, JobsMove, SourcesTyped', UNCHANGED pull, worker' = Free
    PROVE  ReviewInv'
<1>1. SignalTypes'
  BY FreeWorker DEF ReviewInv, SignalTypes, JobsTyped, JobsMove, PullTyped
<1>2. worker'.pc = "idle"
  BY FreeWorker
<1>3. Claimed' /\ Ordered' /\ Afresh'
  BY <1>2 DEF ReviewInv, Claimed, Ordered, Afresh, Eligible
<1> QED BY <1>1, <1>3 DEF ReviewInv

\* What leaves the sources alone.
LEMMA SourcesKept ==
    ASSUME SourcesTyped, UNCHANGED <<watch, note, hook, watcher, scan>>
    PROVE  SourcesTyped'
BY DEF SourcesTyped

LEMMA NotesTyped ==
    ASSUME SourcesTyped, NotesKept
    PROVE  note' \in [Prs -> Deliveries \cup {None}]
BY DEF SourcesTyped, NotesKept

LEMMA ReviewedHeads ==
    ASSUME NEW s \in Seq(Heads)
    PROVE  /\ Len(s) \in Nat /\ DOMAIN s = 1 .. Len(s)
           /\ \A i \in DOMAIN s : s[i] \in Heads /\ s[i] \in Nat
<1>1. Heads \subseteq Nat
  BY Zeros
<1>2. Len(s) \in Nat /\ DOMAIN s = 1 .. Len(s) /\ \A i \in 1 .. Len(s) : s[i] \in Heads
  OBVIOUS
<1> QED BY <1>1, <1>2

LEMMA GitHubStep ==
    ASSUME ReviewInv, NEW p \in Prs, PullChanges(p)
    PROVE  ReviewInv'
<1>1. /\ PullTyped'
      /\ \A q \in Prs : /\ pull'[q].reviews = pull[q].reviews
                        /\ pull[q].head <= pull'[q].head
  <2>1. pull[p] \in PullType /\ pull[p].head \in Nat /\ MaxHead \in Nat
    BY Zeros, BoundAssumption DEF ReviewInv, SignalTypes, PullTyped, PullType
  <2>2. PICK row : /\ pull' = [pull EXCEPT ![p] = row]
                   /\ row \in PullType /\ row.reviews = pull[p].reviews
                   /\ pull[p].head <= row.head
    <3>1. ASSUME NEW ci \in {"pending", "done"}, pull[p].head < MaxHead
          PROVE  LET row == [pull[p] EXCEPT !.head = @ + 1, !.ci = ci] IN
                 row \in PullType /\ row.reviews = pull[p].reviews /\ pull[p].head <= row.head
      <4>1. pull[p].head + 1 \in Heads /\ pull[p].head <= pull[p].head + 1
        BY <2>1, <3>1 DEF Heads
      <4> QED BY <2>1, <4>1 DEF PullType
    <3>2. ASSUME NEW ci \in {"pending", "done"}
          PROVE  LET row == [pull[p] EXCEPT !.ci = ci] IN
                 row \in PullType /\ row.reviews = pull[p].reviews /\ pull[p].head <= row.head
      BY <2>1 DEF PullType
    <3>3. ASSUME NEW state \in {"open", "closed", "draft"}
          PROVE  LET row == [pull[p] EXCEPT !.state = state] IN
                 row \in PullType /\ row.reviews = pull[p].reviews /\ pull[p].head <= row.head
      BY <2>1 DEF PullType
    <3>4. pull \in [Prs -> PullType]
      BY DEF ReviewInv, SignalTypes, PullTyped
    <3> DEFINE Pushed(ci) == [pull EXCEPT ![p].head = @ + 1, ![p].ci = ci]
    <3>5. ASSUME NEW ci \in {"pending", "done"}, pull[p].head < MaxHead,
                 pull' = Pushed(ci)
          PROVE  pull' = [pull EXCEPT ![p] = [pull[p] EXCEPT !.head = @ + 1, !.ci = ci]]
      BY <3>4, <3>5 DEF PullType
    <3>6. CASE \E ci \in {"pending", "done"} :
                 pull[p].head < MaxHead /\ pull' = Pushed(ci)
      <4>1. PICK ci \in {"pending", "done"} :
                 pull[p].head < MaxHead /\ pull' = Pushed(ci)
        BY <3>6
      <4> QED BY <3>1, <3>5, <4>1
    <3>7. CASE \E ci \in {"pending", "done"} : pull' = [pull EXCEPT ![p].ci = ci]
      BY <3>2, <3>7
    <3>8. CASE \E state \in {"open", "closed", "draft"} : pull' = [pull EXCEPT ![p].state = state]
      BY <3>3, <3>8
    <3> QED BY <3>6, <3>7, <3>8 DEF PullChanges
  <2>3. \A q \in Prs : pull[q] \in PullType /\ pull[q].head \in Nat
    BY Zeros DEF ReviewInv, SignalTypes, PullTyped, PullType
  <2>4. pull \in [Prs -> PullType]
    BY DEF ReviewInv, SignalTypes, PullTyped
  <2>5. ASSUME NEW q \in Prs
        PROVE  pull'[q].reviews = pull[q].reviews /\ pull[q].head <= pull'[q].head
    BY <2>2, <2>3, <2>4
  <2> QED BY <2>2, <2>4, <2>5 DEF PullTyped
<1>2. JobsMove /\ SourcesTyped'
  BY NoJobMoves, SourcesKept DEF ReviewInv, SignalTypes, PullChanges, tables, tasks
<1>3. UNCHANGED <<job, worker>>
  BY DEF PullChanges, tables, tasks
<1>4. SignalTypes' /\ Claimed'
  BY <1>1, <1>2, <1>3 DEF ReviewInv, SignalTypes, JobsTyped, Claimed
<1>5. Ordered'
  <2> SUFFICES ASSUME NEW q \in Prs
               PROVE  LET s == pull'[q].reviews IN
                      /\ \A i \in DOMAIN s : s[i] <= pull'[q].head
                      /\ \A i, k \in DOMAIN s : i < k => s[i] < s[k]
    BY DEF Ordered
  <2>1. /\ pull[q].head \in Nat /\ pull'[q].head \in Nat
        /\ pull[q].reviews \in Seq(Heads)
    BY <1>1, Zeros DEF ReviewInv, SignalTypes, PullTyped, PullType
  <2>2. \A i \in DOMAIN pull[q].reviews : pull[q].reviews[i] \in Nat
    BY <2>1, ReviewedHeads
  <2> QED BY <1>1, <2>1, <2>2 DEF ReviewInv, Ordered
<1>6. \A q \in Prs : \A h : Unreviewed(q, h)' <=> Unreviewed(q, h)
  BY <1>1 DEF Unreviewed
<1>7. Eligible => worker.copy.pr \in Prs
  BY DEF ReviewInv, SignalTypes, WorkerType, JobRow
<1>8. worker.pc = "review" => job[worker.j].pr \in Prs
  BY DEF ReviewInv, SignalTypes, Claimed, JobsTyped, JobRow
<1>9. Afresh'
  BY <1>3, <1>6, <1>7, <1>8 DEF ReviewInv, Afresh, Eligible
<1> QED BY <1>4, <1>5, <1>9 DEF ReviewInv

LEMMA HookStep ==
    ASSUME ReviewInv,
           \/ \E p \in Prs, d \in Deliveries : HookArrives(p, d) \/ CheckCompletes(p, d)
           \/ Hook \/ HookFails
    PROVE  ReviewInv'
<1> USE DEF ReviewInv, SignalTypes
<1>1. SourcesTyped /\ PullTyped /\ JobsTyped
  OBVIOUS
<1>2. ASSUME NEW p \in Prs, NEW d \in Deliveries, HookArrives(p, d)
      PROVE  ReviewInv'
  <2>1. /\ [Evaluated(p) EXCEPT !.delivery = d] \in Eval
        /\ [Evaluated(p) EXCEPT !.delivery = d].pr = p
        /\ [Evaluated(p) EXCEPT !.delivery = d].head \in Heads
    BY <1>1, Evaluations DEF Eval
  <2>2. SourcesTyped'
    BY <1>1, <1>2, <2>1 DEF SourcesTyped, HookArrives, tables
  <2> QED BY <1>1, <1>2, <2>2, NoJobMoves, OthersStep DEF HookArrives, tables, github
<1>3. ASSUME NEW p \in Prs, NEW d \in Deliveries, CheckCompletes(p, d)
      PROVE  ReviewInv'
  <2>1. PICK h \in 1 .. pull[p].head :
           hook' = [Nothing EXCEPT !.pr = p, !.head = h, !.verdict = "eligible", !.delivery = d]
    BY <1>3 DEF CheckCompletes
  <2>2. h \in Heads
    BY <1>1, Evaluations, Zeros, BoundAssumption DEF Heads
  <2>3. hook' \in Eval /\ hook'.pr = p /\ hook'.head = h
    BY <1>1, <2>1, <2>2, Evaluations DEF Eval, Verdicts
  <2>4. SourcesTyped'
    BY <1>1, <1>3, <2>2, <2>3 DEF SourcesTyped, CheckCompletes, tables
  <2> QED BY <1>1, <1>3, <2>4, NoJobMoves, OthersStep DEF CheckCompletes, tables, github
<1>4. ASSUME Hook \/ HookFails
      PROVE  ReviewInv'
  <2>1. hook' = Nothing /\ Nothing \in Eval
    BY <1>1, <1>4, Evaluations DEF Hook, HookQueues, HookWatches, HookIgnores, HookFails
  <2>2. Nothing.verdict = "none"
    BY <1>1, Evaluations
  <2>3. hook # Nothing => hook.pr \in Prs /\ hook.head \in Heads /\ hook.delivery \in Deliveries \cup {None}
    BY <1>1 DEF SourcesTyped, Eval
  <2>4. hook.verdict # "none" => hook # Nothing
    BY <2>2
  <2>5. CASE HookQueues
    <3>1. EnqueueInTransaction(hook.pr, hook.head, hook.delivery, FALSE)
          /\ hook.verdict = "eligible"
      BY <2>5 DEF HookQueues, Enqueue
    <3>2. JobsMove
      BY <1>1, <2>3, <2>4, <3>1, EnqueueMoves
    <3>3. SourcesTyped'
      BY <1>1, <2>1, <2>5 DEF SourcesTyped, HookQueues, Enqueue
    <3> QED BY <2>5, <3>2, <3>3, OthersStep DEF HookQueues, github
  <2>6. CASE HookWatches
    <3>1. hook.pr \in Prs /\ hook.head \in 0..MaxHead /\ hook.delivery \in Deliveries \cup {None}
      BY <2>3, <2>4, <2>6, Zeros DEF HookWatches
    <3>2. /\ watch' = [watch EXCEPT ![hook.pr] = hook.head]
          /\ note' = [note EXCEPT ![hook.pr] = IF watch[hook.pr] = hook.head /\ @ # None
                                               THEN @ ELSE hook.delivery]
          /\ UNCHANGED <<job, watcher, scan, pull, worker>>
      BY <2>6 DEF HookWatches, UpsertWatch, AdmitWatch, github
    <3>3. SourcesTyped'
      BY <1>1, <2>1, <3>1, <3>2 DEF SourcesTyped
    <3> QED BY <1>1, <3>2, <3>3, NoJobMoves, OthersStep
  <2>7. CASE HookIgnores
    <3>1. watch' \in [Prs -> 0..MaxHead] /\ note' \in [Prs -> Deliveries \cup {None}]
      BY <1>1, <2>7, Zeros, NotesTyped DEF HookIgnores, DeleteWatch, SourcesTyped
    <3>2. SourcesTyped'
      BY <1>1, <2>1, <2>7, <3>1 DEF SourcesTyped, HookIgnores
    <3> QED BY <1>1, <2>7, <3>2, NoJobMoves, OthersStep DEF HookIgnores, DeleteWatch, github
  <2>8. CASE HookFails
    <3>1. SourcesTyped'
      BY <1>1, <2>1, <2>8 DEF SourcesTyped, HookFails, tables
    <3> QED BY <1>1, <2>8, <3>1, NoJobMoves, OthersStep DEF HookFails, tables
  <2> QED BY <1>4, <2>5, <2>6, <2>7, <2>8 DEF Hook
<1> QED BY <1>2, <1>3, <1>4

LEMMA WatcherStep ==
    ASSUME ReviewInv, (\E p \in Prs : WatchLoads(p)) \/ Watcher \/ WatchFails
    PROVE  ReviewInv'
<1> USE DEF ReviewInv, SignalTypes
<1>1. SourcesTyped /\ PullTyped /\ JobsTyped
  OBVIOUS
<1>2. Nothing \in Eval /\ Nothing.verdict = "none"
  BY <1>1, Evaluations
<1>3. watcher # Nothing => watcher.pr \in Prs
  BY <1>1 DEF SourcesTyped
<1>4. watcher.verdict # "none" => watcher # Nothing /\ watcher.head \in Heads
  BY <1>1, <1>2 DEF SourcesTyped
<1>5. watcher.delivery \in Deliveries \cup {None} /\ watcher.seen \in 0..MaxHead
  BY <1>1 DEF SourcesTyped, Eval
<1>6. ASSUME NEW p \in Prs, WatchLoads(p)
      PROVE  ReviewInv'
  <2>1. watch[p] \in 0..MaxHead /\ note[p] \in Deliveries \cup {None}
    BY <1>1 DEF SourcesTyped
  <2>2. watcher' = [Nothing EXCEPT !.pr = p, !.seen = watch[p], !.delivery = note[p]]
    BY <1>6 DEF WatchLoads
  <2>3. watcher' \in Eval /\ watcher'.pr = p /\ watcher'.verdict = "none"
    BY <1>2, <2>1, <2>2 DEF Eval
  <2>4. SourcesTyped'
    BY <1>1, <1>6, <2>3 DEF SourcesTyped, WatchLoads, tables
  <2> QED BY <1>1, <1>6, <2>4, NoJobMoves, OthersStep DEF WatchLoads, tables, github
<1>7. ASSUME WatchEvaluates
      PROVE  ReviewInv'
  <2>1. watcher.pr \in Prs
    BY <1>1, <1>3, <1>7, Evaluations DEF WatchEvaluates
  <2>2. Evaluated(watcher.pr) \in Eval /\ Evaluated(watcher.pr).pr \in Prs
        /\ Evaluated(watcher.pr).head \in Heads
    BY <1>1, <2>1, Evaluations
  <2>3. watcher' = [Evaluated(watcher.pr) EXCEPT !.seen = watcher.seen,
                                                 !.delivery = watcher.delivery]
    BY <1>7 DEF WatchEvaluates
  <2>4. watcher' \in Eval /\ watcher'.pr \in Prs /\ watcher'.head \in Heads
    BY <1>5, <2>2, <2>3 DEF Eval
  <2>5. SourcesTyped'
    BY <1>1, <1>7, <2>4 DEF SourcesTyped, WatchEvaluates, tables
  <2> QED BY <1>1, <1>7, <2>5, NoJobMoves, OthersStep DEF WatchEvaluates, tables, github
<1>8. ASSUME watcher' = Nothing, UNCHANGED <<hook, scan, pull, worker>>, JobsMove,
             watch' \in [Prs -> 0..MaxHead], note' \in [Prs -> Deliveries \cup {None}]
      PROVE  ReviewInv'
  <2>1. SourcesTyped'
    BY <1>1, <1>2, <1>8 DEF SourcesTyped
  <2> QED BY <1>8, <2>1, OthersStep
<1>9. /\ watch \in [Prs -> 0..MaxHead]
      /\ note \in [Prs -> Deliveries \cup {None}]
      /\ NotesKept => note' \in [Prs -> Deliveries \cup {None}]
  BY <1>1, NotesTyped DEF SourcesTyped
<1>10. CASE WatchQueues
  <2>1. JobsMove
    BY <1>1, <1>3, <1>4, <1>5, <1>10, WatchEnqueueMoves DEF WatchQueues
  <2>2. watch' \in [Prs -> 0..MaxHead]
    BY <1>9, <1>10, Zeros DEF WatchQueues, EnqueueFromWatch, tables
  <2> QED BY <1>8, <1>9, <1>10, <2>1, <2>2 DEF WatchQueues, github
<1>11. CASE WatchStays
  <2>1. watch' \in [Prs -> 0..MaxHead] /\ job' = job
    BY <1>4, <1>9, <1>11, Zeros DEF WatchStays, ReplaceWatchHead, tables
  <2> QED BY <1>1, <1>8, <1>9, <1>11, <2>1, NoJobMoves DEF WatchStays, github
<1>12. CASE WatchDrops
  <2>1. watch' \in [Prs -> 0..MaxHead] /\ job' = job
    BY <1>9, <1>12, Zeros DEF WatchDrops, DeleteWatch
  <2> QED BY <1>1, <1>8, <1>9, <1>12, <2>1, NoJobMoves DEF WatchDrops, github
<1>13. CASE WatchFails
  BY <1>1, <1>8, <1>9, <1>13, NoJobMoves DEF WatchFails, tables
<1> QED BY <1>6, <1>7, <1>10, <1>11, <1>12, <1>13 DEF Watcher

LEMMA ScanStep ==
    ASSUME ReviewInv, Scan \/ ScanFails \/ \E p \in Prs : ScanMisses(p)
    PROVE  ReviewInv'
<1> USE DEF ReviewInv, SignalTypes
<1>1. SourcesTyped /\ PullTyped /\ JobsTyped
  OBVIOUS
<1>2. scan \in ScanType /\ NoScan \in ScanType
  BY <1>1 DEF SourcesTyped, NoScan, ScanType
<1>3. ASSUME scan' \in ScanType, UNCHANGED <<hook, watcher, pull, worker>>, JobsMove,
             watch' \in [Prs -> 0..MaxHead], note' \in [Prs -> Deliveries \cup {None}]
      PROVE  ReviewInv'
  <2>1. SourcesTyped'
    BY <1>1, <1>3 DEF SourcesTyped
  <2> QED BY <1>3, <2>1, OthersStep
<1>4. /\ watch \in [Prs -> 0..MaxHead]
      /\ note \in [Prs -> Deliveries \cup {None}]
  BY <1>1 DEF SourcesTyped
<1>5. ASSUME scan' \in ScanType, UNCHANGED <<tables, note, hook, watcher, pull, worker>>
      PROVE  ReviewInv'
  BY <1>1, <1>3, <1>4, <1>5, NoJobMoves DEF tables
<1>6. CASE ScanStarts \/ ScanLists \/ ScanEnds \/ ScanFails
           \/ \E p \in Prs : ScanMisses(p)
  <2>1. CASE ScanStarts
    BY <1>2, <1>5, <2>1 DEF ScanStarts, ScanType, github
  <2>2. CASE ScanLists
    <3>1. Page(scan.page) \subseteq Prs
      BY DEF Page, Open
    <3>2. scan' = [scan EXCEPT !.page = @ + 1, !.todo = Page(scan.page),
                               !.full = Cardinality(Page(scan.page)) = PageSize]
      BY <2>2 DEF ScanLists, Listed
    <3> DEFINE P == Page(scan.page)
               b == Cardinality(P) = PageSize
    <3>3. scan.page + 1 \in Nat /\ P \in SUBSET Prs /\ b \in BOOLEAN
      BY <1>2, <3>1 DEF ScanType
    <3> HIDE DEF P, b
    <3>4. scan' \in ScanType
      <4>1. scan' = [scan EXCEPT !.page = scan.page + 1, !.todo = P, !.full = b]
        BY <3>2 DEF P, b
      <4> QED BY <1>2, <3>3, <4>1 DEF ScanType
    <3> QED BY <1>5, <2>2, <3>4 DEF ScanLists, github
  <2>3. CASE ScanEnds \/ ScanFails
    BY <1>2, <1>5, <2>3 DEF ScanEnds, ScanFails, github
  <2>4. ASSUME NEW p \in Prs, ScanMisses(p)
        PROVE  ReviewInv'
    <3>1. scan' = [scan EXCEPT !.todo = @ \ {p}]
      BY <2>4 DEF ScanMisses
    <3>2. scan' \in ScanType
      BY <1>2, <3>1 DEF ScanType
    <3> QED BY <1>5, <2>4, <3>2 DEF ScanMisses
  <2> QED BY <1>6, <2>1, <2>2, <2>3, <2>4
<1>7. ASSUME NEW p \in Prs, ScanEvaluates(p)
      PROVE  ReviewInv'
  <2>1. Evaluated(p) \in Found
    BY <1>1, Evaluations DEF Found
  <2> DEFINE F == scan.found \cup {e \in {Evaluated(p)} : e.verdict \in {"eligible", "pending"}}
  <2>2. F \in SUBSET Found
    BY <1>2, <2>1 DEF ScanType
  <2>3. scan' = [scan EXCEPT !.todo = @ \ {p}, !.found = F]
    BY <1>7 DEF ScanEvaluates
  <2> HIDE DEF F
  <2>4. scan' \in ScanType
    BY <1>2, <2>2, <2>3 DEF ScanType
  <2> QED BY <1>5, <1>7, <2>4 DEF ScanEvaluates, github
<1>8. ASSUME NEW e \in scan.found, ScanAdmits(e)
      PROVE  ReviewInv'
  <2>1. e.pr \in Prs /\ e.head \in Heads
    BY <1>2 DEF Found, ScanType
  <2>2. scan' \in ScanType
    <3>1. scan' = [scan EXCEPT !.found = @ \ {e}]
      BY <1>8 DEF ScanAdmits
    <3> QED BY <1>2, <3>1 DEF ScanType
  <2>3. CASE AdmitCandidate(e.pr, e.head) /\ UNCHANGED note
    <3>1. JobsMove /\ watch' = watch
      BY <1>1, <2>1, <2>3, AdmissionMoves DEF AdmitCandidate
    <3> QED BY <1>2, <1>3, <1>4, <1>8, <2>2, <2>3, <3>1 DEF ScanAdmits, github
  <2>4. CASE UNCHANGED <<tables, note>>
    BY <1>2, <1>5, <1>8, <2>2, <2>4 DEF ScanAdmits, github
  <2>5. CASE UpsertWatch(e.pr, e.head, None)
    <3>1. e.head \in 0..MaxHead
      BY <2>1, Zeros
    <3>2. /\ watch' = [watch EXCEPT ![e.pr] = e.head] /\ job' = job
          /\ note' = [note EXCEPT ![e.pr] = IF watch[e.pr] = e.head /\ @ # None THEN @ ELSE None]
      BY <2>5 DEF UpsertWatch, AdmitWatch
    <3>3. watch' \in [Prs -> 0..MaxHead] /\ note' \in [Prs -> Deliveries \cup {None}]
      BY <1>4, <2>1, <3>1, <3>2
    <3> QED BY <1>1, <1>2, <1>3, <1>8, <2>2, <3>2, <3>3, NoJobMoves DEF ScanAdmits, github
  <2> QED BY <1>8, <2>3, <2>4, <2>5 DEF ScanAdmits
<1> QED BY <1>6, <1>7, <1>8 DEF Scan

-----------------------------------------------------------------------------
(* The worker. *)

\* The worker and its row, in types.
LEMMA WorkerTypes ==
    ASSUME ReviewInv
    PROVE  /\ worker \in WorkerType /\ worker.copy \in JobRow
           /\ job \in [JobIds -> JobRow] /\ JobsTyped
           /\ SourcesTyped /\ PullTyped
           /\ watch \in [Prs -> 0..MaxHead]
           /\ worker.pc # "idle" => /\ worker.j \in JobIds /\ job[worker.j] \in JobRow
                                    /\ job[worker.j].status # "absent"
                                    /\ job[worker.j].pr \in Prs /\ job[worker.j].head \in Heads
           /\ worker.pc \in {"preflight", "decide", "replace"} =>
                /\ worker.copy.pr = job[worker.j].pr /\ worker.copy.head = job[worker.j].head
                /\ worker.copy.pr \in Prs /\ worker.copy.head \in Heads
           /\ worker.pc \in {"decide", "replace"} => worker.head \in Heads
BY DEF ReviewInv, SignalTypes, Claimed, JobsTyped, SourcesTyped, WorkerType, JobRow

\* A copy of the row the worker holds is saved as released.
LEMMA SavesCopy ==
    ASSUME ReviewInv, worker.pc \in {"preflight", "decide"},
           NEW c, c = ScheduleRetry(worker.copy) \/ \E s \in Terminal : c = Finished(worker.copy, s)
    PROVE  /\ c \in JobRow /\ c.owner = None /\ Same(c, job[worker.j])
           /\ c.delivery = worker.copy.delivery
           /\ SaveClaimed(worker.j, Pool, c, FALSE) => JobsMove
<1>1. /\ worker.copy \in JobRow /\ JobsTyped /\ worker.j \in JobIds
      /\ worker.copy.pr = job[worker.j].pr /\ worker.copy.head = job[worker.j].head
  BY WorkerTypes
<1>2. c \in JobRow /\ c.owner = None /\ Same(c, job[worker.j]) /\ c.delivery = worker.copy.delivery
  <2>1. CASE c = ScheduleRetry(worker.copy)
    BY <1>1, <2>1, ReleasedRow, ReleasedOwner DEF Same
  <2>2. ASSUME NEW s \in Terminal, c = Finished(worker.copy, s)
        PROVE  c \in JobRow /\ c.owner = None /\ Same(c, job[worker.j])
               /\ c.delivery = worker.copy.delivery
    <3>1. c \in JobRow /\ c.owner = None /\ c.delivery = worker.copy.delivery
      BY <1>1, <2>2, ReleasedRow, ReleasedOwner
    <3>2. c.status = s /\ c.pr = worker.copy.pr /\ c.head = worker.copy.head
      BY <1>1, <2>2, ReleasedRow
    <3> QED BY <1>1, <3>1, <3>2, Statuses DEF Same
  <2> QED BY <2>1, <2>2
<1> QED BY <1>1, <1>2, SaveMoves

\* The row itself is written as released.
LEMMA WritesOwn ==
    ASSUME ReviewInv, worker.pc # "idle",
           NEW row, row = ScheduleRetry(job[worker.j])
                    \/ \E s \in Terminal : row = Finished(job[worker.j], s)
    PROVE  /\ row \in JobRow /\ Same(row, job[worker.j])
           /\ row.delivery = job[worker.j].delivery
           /\ WriteRow(worker.j, row) => JobsMove
<1>1. /\ job[worker.j] \in JobRow /\ JobsTyped /\ worker.j \in JobIds
  BY WorkerTypes
<1>2. row \in JobRow /\ Same(row, job[worker.j]) /\ row.delivery = job[worker.j].delivery
  <2>1. CASE row = ScheduleRetry(job[worker.j])
    BY <1>1, <2>1, ReleasedRow DEF Same
  <2>2. ASSUME NEW s \in Terminal, row = Finished(job[worker.j], s)
        PROVE  row \in JobRow /\ Same(row, job[worker.j]) /\ row.delivery = job[worker.j].delivery
    <3>1. row \in JobRow /\ row.delivery = job[worker.j].delivery
      BY <1>1, <2>2, ReleasedRow
    <3>2. row.status = s /\ row.pr = job[worker.j].pr /\ row.head = job[worker.j].head
      BY <1>1, <2>2, ReleasedRow
    <3> QED BY <3>1, <3>2, Statuses DEF Same
  <2> QED BY <2>1, <2>2
<1> QED BY <1>1, <1>2, WriteMoves

\* A pull request whose latest Review is not of its head was not reviewed for it.
LEMMA UnreviewedHead ==
    ASSUME ReviewInv, NEW p \in Prs, Verdict(p) = "eligible"
    PROVE  Unreviewed(p, pull[p].head)
<1> DEFINE s == pull[p].reviews
<1>1. s \in Seq(Heads) /\ pull[p].head \in Nat
  BY Zeros DEF ReviewInv, SignalTypes, PullTyped, PullType
<1>2. /\ Len(s) \in Nat /\ DOMAIN s = 1 .. Len(s)
      /\ \A i \in DOMAIN s : s[i] \in Nat
  BY <1>1, ReviewedHeads
<1>3. /\ \A i \in DOMAIN s : s[i] <= pull[p].head
      /\ \A i, k \in DOMAIN s : i < k => s[i] < s[k]
  BY DEF ReviewInv, Ordered
<1>4. s = <<>> \/ s[Len(s)] # pull[p].head
  <2>1. pull[p].state \in {"open", "closed", "draft"} /\ pull[p].ci \in {"pending", "done"}
    BY DEF ReviewInv, SignalTypes, PullTyped, PullType
  <2> QED BY <2>1 DEF Verdict, Reviewed
<1> HIDE DEF s
<1>5. ASSUME NEW i \in DOMAIN s
      PROVE  s[i] < pull[p].head
  <2>1. Len(s) \in DOMAIN s /\ s # <<>>
    BY <1>2
  <2>2. s[Len(s)] < pull[p].head
    BY <1>1, <1>2, <1>3, <1>4, <2>1
  <2>3. i = Len(s) \/ s[i] < s[Len(s)]
    BY <1>2, <1>3, <2>1
  <2> QED BY <1>1, <1>2, <2>1, <2>2, <2>3
<1> QED BY <1>5 DEF Unreviewed, s

LEMMA WorkerStep ==
    ASSUME ReviewInv,
           Worker \/ WorkerCannotEvaluate \/ WorkerFailsToReplace \/ AttemptFindsHeadMoved
           \/ AttemptFails
    PROVE  ReviewInv'
<1>1. /\ worker \in WorkerType /\ worker.copy \in JobRow
      /\ job \in [JobIds -> JobRow] /\ JobsTyped /\ SourcesTyped /\ PullTyped
      /\ watch \in [Prs -> 0..MaxHead]
  BY WorkerTypes
\* A step that only moves the worker, its row and the watches.
<1>2. ASSUME JobsMove, watch' \in [Prs -> 0..MaxHead],
             UNCHANGED <<note, pull, hook, watcher, scan>>
      PROVE  SourcesTyped' /\ SignalTypes' = (worker' \in WorkerType)
  BY <1>1, <1>2 DEF SourcesTyped, SignalTypes, JobsTyped, PullTyped, JobsMove
<1>3. ASSUME JobsMove, UNCHANGED <<watch, note, pull, hook, watcher, scan>>, worker' = Free
      PROVE  ReviewInv'
  <2>1. SourcesTyped'
    BY <1>1, <1>3, SourcesKept
  <2> QED BY <1>3, <2>1, FreeingStep
<1>4. ASSUME JobsMove, UNCHANGED <<watch, note, pull, hook, watcher, scan>>,
             worker' \in WorkerType, Claimed', Afresh'
      PROVE  ReviewInv'
  <2>1. SignalTypes'
    BY <1>1, <1>2, <1>4
  <2>2. Ordered'
    BY <1>4 DEF ReviewInv, Ordered
  <2> QED BY <1>4, <2>1, <2>2 DEF ReviewInv
<1>5. CASE WorkerRecovers
  <2>1. JobsMove /\ SourcesTyped'
    BY <1>1, <1>5, RecoveryMoves, SourcesKept DEF WorkerRecovers, RecoverJobs, tasks
  <2> QED BY <1>5, <2>1, OthersStep DEF WorkerRecovers, github, tasks
<1>6. ASSUME NEW j \in JobIds, WorkerClaims(j)
      PROVE  ReviewInv'
  <2>1. /\ JobsMove /\ job[j].status \in Active
    BY <1>1, <1>6, ClaimMoves DEF WorkerClaims
  <2>2. job'[j] \in JobRow /\ job'[j].status # "absent"
    BY <2>1, Statuses DEF JobsMove, Same
  <2>3. worker' = [Free EXCEPT !.pc = "preflight", !.j = j, !.copy = job'[j]]
    BY <1>6 DEF WorkerClaims
  <2>4. /\ worker' \in WorkerType /\ worker'.pc = "preflight" /\ worker'.j = j
        /\ worker'.copy = job'[j]
    BY <2>2, <2>3, FreeWorker DEF WorkerType
  <2>5. Claimed' /\ Afresh'
    BY <2>2, <2>4 DEF Claimed, Afresh, Eligible
  <2> QED BY <1>4, <1>6, <2>1, <2>4, <2>5 DEF WorkerClaims, Claim, github
<1>7. CASE WorkerEvaluates
  <2> DEFINE p == worker.copy.pr
  <2>1. /\ worker.pc = "preflight" /\ JobsMove
        /\ worker.j \in JobIds /\ job[worker.j].status # "absent"
        /\ p = job[worker.j].pr /\ worker.copy.head = job[worker.j].head /\ p \in Prs
    BY <1>1, <1>7, WorkerTypes, NoJobMoves DEF WorkerEvaluates, tables
  <2>2. /\ worker' = [worker EXCEPT !.pc = "decide", !.head = pull[p].head, !.verdict = Verdict(p)]
        /\ pull[p].head \in Heads /\ Verdict(p) \in Verdicts
    BY <1>1, <1>7, <2>1, Evaluations DEF WorkerEvaluates
  <2> HIDE DEF p
  <2>3. /\ worker' \in WorkerType /\ worker'.pc = "decide" /\ worker'.j = worker.j
        /\ worker'.copy = worker.copy /\ worker'.head = pull[p].head
        /\ worker'.verdict = Verdict(p)
    BY <1>1, <2>2 DEF WorkerType
  <2>4. Claimed'
    BY <1>7, <2>1, <2>2, <2>3 DEF Claimed, WorkerEvaluates, tables, p
  <2>5. Afresh'
    <3>1. Verdict(p) = "eligible" => Unreviewed(p, pull[p].head)
      BY <2>1, UnreviewedHead
    <3> QED BY <1>7, <2>3, <3>1 DEF Afresh, Eligible, Unreviewed, WorkerEvaluates, github, p
  <2> QED BY <1>4, <1>7, <2>1, <2>3, <2>4, <2>5 DEF WorkerEvaluates, tables, github
<1>8. CASE WorkerCannotEvaluate
  <2>1. PICK row \in {Finished(worker.copy, "failed"), ScheduleRetry(worker.copy)} :
           SaveClaimed(worker.j, Pool, row, FALSE)
    BY <1>8 DEF WorkerCannotEvaluate
  <2>2. JobsMove
    BY <1>8, <2>1, SavesCopy, Statuses DEF WorkerCannotEvaluate
  <2> QED BY <1>3, <1>8, <2>1, <2>2 DEF WorkerCannotEvaluate, SaveClaimed
<1>9. CASE WorkerSupersedes
  <2>1. /\ worker.pc = "decide" /\ JobsMove
        /\ UNCHANGED <<watch, note, pull, hook, watcher, scan>>
    BY <1>9, SavesCopy, Statuses DEF WorkerSupersedes, SaveClaimed, github
  <2>2. CASE worker' = Free
    BY <1>3, <2>1, <2>2
  <2>3. CASE worker' = [worker EXCEPT !.pc = "replace"]
    <3>1. /\ worker' \in WorkerType /\ worker'.pc = "replace" /\ worker'.j = worker.j
          /\ worker'.copy = worker.copy /\ worker'.head = worker.head
      BY <1>1, <2>3 DEF WorkerType
    <3>2. Claimed' /\ Afresh'
      BY <1>1, <2>1, <3>1, WorkerTypes DEF Claimed, Afresh, Eligible, JobsMove, Same
    <3> QED BY <1>4, <2>1, <3>1, <3>2
  <2> QED BY <1>9, <2>2, <2>3 DEF WorkerSupersedes
<1>10. CASE WorkerReplaces
  <2>1. worker.copy.pr \in Prs /\ worker.head \in Heads
    BY <1>10, WorkerTypes DEF WorkerReplaces
  <2>2. JobsMove
    BY <1>1, <1>10, <2>1, EnqueueMoves DEF WorkerReplaces, Enqueue
  <2> QED BY <1>3, <1>10, <2>2 DEF WorkerReplaces, Enqueue, github
<1>11. CASE WorkerFailsToReplace
  BY <1>1, <1>3, <1>11, NoJobMoves DEF WorkerFailsToReplace, tables, github
<1>12. CASE WorkerSkipsForCi
  <2> DEFINE skips == CanSkipForCi(worker.j, Pool, worker.copy.delivery)
  <2>1. worker.pc = "decide" /\ UNCHANGED <<note, pull, hook, watcher, scan>>
    BY <1>12 DEF WorkerSkipsForCi, github
  <2>2. CASE skips
    <3>1. SkipForCiPending(worker.j) /\ worker' = Free
      BY <1>12, <2>2 DEF WorkerSkipsForCi
    <3>2. JobsMove
      BY <2>1, <3>1, WritesOwn, Statuses DEF SkipForCiPending
    <3>3. watch' \in [Prs -> 0..MaxHead]
      <4>1. job[worker.j].pr \in Prs /\ job[worker.j].head \in 0..MaxHead
        BY <2>1, WorkerTypes, Zeros
      <4> QED BY <1>1, <3>1, <4>1 DEF SkipForCiPending
    <3> QED BY <1>2, <2>1, <3>1, <3>2, <3>3, FreeingStep
  <2>3. CASE ~skips
    <3>1. /\ UNCHANGED tables
          /\ \/ worker' = Free
             \/ worker' = [worker EXCEPT !.pc = "preflight", !.copy = job[worker.j]]
      BY <1>12, <2>3 DEF WorkerSkipsForCi
    <3>2. JobsMove /\ watch' = watch
      BY <1>1, <3>1, NoJobMoves DEF tables
    <3>3. CASE worker' = [worker EXCEPT !.pc = "preflight", !.copy = job[worker.j]]
      <4>1. job[worker.j] \in JobRow /\ worker.j \in JobIds /\ job[worker.j].status # "absent"
        BY <2>1, WorkerTypes
      <4>2. /\ worker' \in WorkerType /\ worker'.pc = "preflight" /\ worker'.j = worker.j
            /\ worker'.copy = job[worker.j]
        BY <1>1, <3>3, <4>1 DEF WorkerType
      <4>3. Claimed' /\ Afresh'
        BY <3>1, <4>1, <4>2 DEF Claimed, Afresh, Eligible, tables
      <4> QED BY <1>4, <2>1, <3>2, <4>2, <4>3
    <3> QED BY <1>3, <2>1, <3>1, <3>2, <3>3
  <2> QED BY <2>2, <2>3
<1>13. CASE WorkerSkips
  <2>1. JobsMove
    BY <1>13, SavesCopy, Statuses DEF WorkerSkips
  <2> QED BY <1>3, <1>13, <2>1 DEF WorkerSkips, SaveClaimed, github
<1>14. CASE WorkerBegins
  <2> DEFINE row == [job[worker.j] EXCEPT !.status = "running", !.attempts = @ + 1]
  <2>1. /\ Eligible /\ worker.pc = "decide" /\ CanBegin(worker.j, Pool)
        /\ UNCHANGED <<watch, note, pull, hook, watcher, scan>>
    BY <1>14 DEF WorkerBegins, Eligible, github
  <2>2. /\ job[worker.j] \in JobRow /\ worker.j \in JobIds /\ job[worker.j].status # "absent"
        /\ worker.copy.pr = job[worker.j].pr /\ worker.copy.head = job[worker.j].head
    BY <2>1, WorkerTypes
  <2>3. job[worker.j].attempts + 1 \in 0..MaxAttempts
    BY <2>1, <2>2, BoundAssumption DEF CanBegin, JobRow
  <2>4. row \in JobRow /\ Same(row, job[worker.j]) /\ job' = [job EXCEPT ![worker.j] = row]
    <3>1. row \in JobRow /\ row.pr = job[worker.j].pr /\ row.head = job[worker.j].head
          /\ row.status = "running"
      BY <2>2, <2>3, Statuses DEF JobRow
    <3>2. job' = [job EXCEPT ![worker.j] = row]
      BY <1>1, <1>14, <2>2 DEF WorkerBegins, JobRow
    <3> QED BY <3>1, <3>2 DEF Same
  <2> HIDE DEF row
  <2>5. JobsMove /\ job'[worker.j].pr = worker.copy.pr /\ job'[worker.j].head = worker.copy.head
    BY <1>1, <2>2, <2>4, OneJobMoves DEF Same
  <2>6. /\ worker' \in WorkerType /\ worker'.pc = "review" /\ worker'.j = worker.j
    BY <1>1, <1>14, <2>2, FreeWorker DEF WorkerBegins, WorkerType
  <2>7. Claimed'
    BY <2>2, <2>5, <2>6 DEF Claimed, JobsMove, Same
  <2>8. Afresh'
    <3>1. Unreviewed(worker.copy.pr, worker.copy.head)
      BY <2>1 DEF ReviewInv, Afresh
    <3> QED BY <2>1, <2>5, <2>6, <3>1 DEF Afresh, Eligible, Unreviewed
  <2> QED BY <1>4, <2>1, <2>5, <2>6, <2>7, <2>8
<1>15. CASE WorkerCannotBegin
  <2>1. worker.pc = "decide" /\ worker' = Free
        /\ UNCHANGED <<watch, note, pull, hook, watcher, scan>>
    BY <1>15 DEF WorkerCannotBegin, Eligible, github
  <2>2. JobsMove
    BY <1>1, <1>15, <2>1, WritesOwn, Statuses, NoJobMoves DEF WorkerCannotBegin
  <2> QED BY <1>3, <2>1, <2>2
<1>16. CASE AttemptCancelled
  BY <1>1, <1>3, <1>16, NoJobMoves DEF AttemptCancelled, tables, github
<1>17. CASE AttemptFindsHeadMoved \/ AttemptFails
  <2>1. worker.pc = "review" /\ worker' = Free
        /\ UNCHANGED <<watch, note, pull, hook, watcher, scan>>
    BY <1>17 DEF AttemptFindsHeadMoved, AttemptFails, github
  <2>2. \/ WriteRow(worker.j, Finished(job[worker.j], "superseded"))
        \/ WriteRow(worker.j, Finished(job[worker.j], "failed"))
        \/ WriteRow(worker.j, ScheduleRetry(job[worker.j]))
    BY <1>17 DEF AttemptFindsHeadMoved, AttemptFails
  <2>3. JobsMove
    BY <2>1, <2>2, WritesOwn, Statuses
  <2> QED BY <1>3, <2>1, <2>3
<1> QED BY <1>5, <1>6, <1>7, <1>8, <1>9, <1>10, <1>11, <1>12, <1>13, <1>14, <1>15, <1>16, <1>17
        DEF Worker

\* A Review comes after all Reviews of its pull request.
LEMMA SubmitStep ==
    ASSUME ReviewInv, Submits
    PROVE  ReviewInv'
<1> DEFINE row == job[worker.j]
           p == row.pr
           s == pull[p].reviews
           done == [Finished(row, "succeeded") EXCEPT !.intent = TRUE, !.receipt = TRUE]
<1>1. /\ worker.pc = "review" /\ worker.j \in JobIds /\ row \in JobRow /\ JobsTyped
      /\ row.status # "absent" /\ p \in Prs /\ row.head \in Heads /\ SourcesTyped
      /\ pull \in [Prs -> PullType]
  BY WorkerTypes DEF Submits, PullTyped
<1>2. pull[p].head = row.head /\ Unreviewed(p, row.head)
  BY <1>1 DEF Submits, ReviewInv, Afresh
<1>3. JobsMove
  <2>1. Finished(row, "succeeded") \in JobRow /\ Same(Finished(row, "succeeded"), row)
    BY <1>1, ReleasedRow, Statuses DEF Same
  <2>2. done \in JobRow /\ Same(done, row)
    BY <2>1 DEF JobRow, Same
  <2>3. WriteRow(worker.j, done)
    BY DEF Submits
  <2> HIDE DEF done
  <2> QED BY <1>1, <2>2, <2>3, WriteMoves
<1>4. pull' = [pull EXCEPT ![p] = [pull[p] EXCEPT !.reviews = Append(s, row.head)]]
  BY DEF Submits
<1>5. s \in Seq(Heads) /\ pull[p] \in PullType
  BY <1>1 DEF PullType
<1>6. /\ Append(s, row.head) \in Seq(Heads)
      /\ Len(s) \in Nat /\ DOMAIN s = 1 .. Len(s)
      /\ DOMAIN Append(s, row.head) = 1 .. Len(s) + 1
      /\ Append(s, row.head)[Len(s) + 1] = row.head
      /\ \A i \in DOMAIN s : Append(s, row.head)[i] = s[i]
  <2>1. row.head \in Heads /\ s \in Seq(Heads)
    BY <1>1, <1>5
  <2> HIDE DEF s, row
  <2> QED BY <2>1
<1>7. /\ \A i \in DOMAIN s : s[i] \in Nat /\ s[i] < row.head
      /\ \A i, k \in DOMAIN s : i < k => s[i] < s[k]
      /\ row.head \in Nat
  BY <1>1, <1>2, <1>5, ReviewedHeads, Zeros DEF Unreviewed, ReviewInv, Ordered
<1>8. PullTyped'
  <2>1. [pull[p] EXCEPT !.reviews = Append(s, row.head)] \in PullType
    BY <1>5, <1>6 DEF PullType
  <2> QED BY <1>1, <1>4, <2>1 DEF PullTyped
<1>9. Ordered'
  <2>1. /\ pull'[p].reviews = Append(s, row.head) /\ pull'[p].head = row.head
        /\ \A q \in Prs : q # p => pull'[q] = pull[q]
    BY <1>1, <1>2, <1>4, <1>5 DEF PullType
  <2> HIDE DEF s, p, row
  <2>2. \A i \in DOMAIN Append(s, row.head) : i \in DOMAIN s \/ i = Len(s) + 1
    BY <1>6
  <2>3. \A i \in DOMAIN Append(s, row.head) : Append(s, row.head)[i] <= row.head
    BY <1>6, <1>7, <2>2
  <2>4. \A i, k \in DOMAIN Append(s, row.head) :
           i < k => Append(s, row.head)[i] < Append(s, row.head)[k]
    <3> TAKE i, k \in DOMAIN Append(s, row.head)
    <3> HAVE i < k
    <3>1. i \in DOMAIN s
      BY <1>6, <2>2
    <3>2. CASE k \in DOMAIN s
      BY <1>6, <1>7, <3>1, <3>2
    <3>3. CASE k = Len(s) + 1
      BY <1>6, <1>7, <3>1, <3>3
    <3> QED BY <2>2, <3>2, <3>3
  <2> QED BY <2>1, <2>3, <2>4 DEF ReviewInv, Ordered
<1>10. worker' = Free /\ SourcesTyped'
  BY <1>1, SourcesKept DEF Submits
<1>11. Claimed' /\ Afresh' /\ SignalTypes'
  BY <1>3, <1>8, <1>10, FreeWorker DEF Claimed, Afresh, Eligible, SignalTypes, JobsTyped, JobsMove
<1> QED BY <1>9, <1>11 DEF ReviewInv

LEMMA InitInv == Init => ReviewInv
<1> SUFFICES ASSUME Init PROVE ReviewInv
  OBVIOUS
<1>1. JobsTyped
  <2> DEFINE first == CHOOSE p \in Prs : TRUE
  <2>1. first \in Prs /\ job = [j \in JobIds |-> NewJob(first, 1, None, "absent")]
    BY PrsAssumption DEF Init, TablesInit
  <2> HIDE DEF first
  <2> QED BY <2>1, NewRow, Zeros DEF JobsTyped
<1>2. PullTyped /\ \A p \in Prs : pull[p].reviews = <<>>
  <2> DEFINE First == [state : {"open", "closed"}, head : {1}, ci : {"pending", "done"},
                       reviews : {<<>>}]
  <2>1. First \subseteq PullType /\ \A row \in First : row.reviews = <<>>
    <3>1. <<>> \in Seq(Heads) /\ 1 \in Heads
      BY Zeros
    <3> QED BY <3>1 DEF PullType
  <2>2. pull \in [Prs -> First]
    BY DEF Init
  <2> HIDE DEF First
  <2> QED BY <2>1, <2>2 DEF PullTyped
<1>3. SourcesTyped
  <2>1. Nothing \in Eval /\ Nothing.verdict = "none"
    BY <1>2, Evaluations
  <2> QED BY <2>1, Zeros DEF Init, TablesInit, SourcesTyped, NoScan, ScanType
<1>4. worker \in WorkerType /\ worker.pc = "idle"
  BY FreeWorker DEF Init
<1> QED BY <1>1, <1>2, <1>3, <1>4 DEF ReviewInv, SignalTypes, Claimed, Ordered, Afresh, Eligible

LEMMA NextInv == ReviewInv /\ [Next]_vars => ReviewInv'
<1> SUFFICES ASSUME ReviewInv, [Next]_vars PROVE ReviewInv'
  OBVIOUS
<1>1. CASE UNCHANGED vars
  <2>1. JobsMove /\ SourcesTyped'
    BY <1>1, WorkerTypes, NoJobMoves, SourcesKept DEF vars, tasks
  <2> QED BY <1>1, <2>1, OthersStep DEF vars, github, tasks
<1>2. ASSUME NEW j \in JobIds, LeaseEnds(j) \/ RetryDue(j)
      PROVE  ReviewInv'
  <2>1. JobsMove /\ SourcesTyped'
    BY <1>2, WorkerTypes, LeaseMoves, SourcesKept
       DEF LeaseEnds, RetryDue, LeaseLapses, BecomesDue, tasks
  <2> QED BY <1>2, <2>1, OthersStep DEF LeaseEnds, RetryDue, github, tasks
<1>3. CASE Crash
  <2>1. JobsMove
    BY <1>3, WorkerTypes, NoJobMoves DEF Crash, tables
  <2>2. SourcesTyped'
    <3>1. Nothing \in Eval /\ Nothing.verdict = "none" /\ SourcesTyped
      BY WorkerTypes, Evaluations
    <3> QED BY <1>3, <3>1 DEF Crash, SourcesTyped, NoScan, ScanType, tables
  <2> QED BY <1>3, <2>1, <2>2, FreeingStep DEF Crash
<1> QED BY <1>1, <1>2, <1>3, GitHubStep, HookStep, WatcherStep, ScanStep, WorkerStep, SubmitStep
        DEF Next, Attempt, Faults

\* No head gets two automatic Reviews (NoSecondReview of ReviewSignals), whatever is
\* lost, late, handed over twice or fails, and wherever the server crashes: the worker
\* evaluates the pull request after it claimed the job, and nobody else submits.
THEOREM ReviewedOnce == Spec => []NoSecondReview
<1>1. ReviewInv => NoSecondReview
  <2> SUFFICES ASSUME ReviewInv, NEW p \in Prs,
                      NEW i \in DOMAIN pull[p].reviews, NEW k \in DOMAIN pull[p].reviews, i # k
               PROVE  pull[p].reviews[i] # pull[p].reviews[k]
    BY DEF NoSecondReview
  <2> DEFINE s == pull[p].reviews
  <2>1. s \in Seq(Heads)
    BY DEF ReviewInv, SignalTypes, PullTyped, PullType
  <2>2. /\ Len(s) \in Nat /\ DOMAIN s = 1 .. Len(s) /\ s[i] \in Nat /\ s[k] \in Nat
    BY <2>1, ReviewedHeads
  <2>3. i < k \/ k < i
    BY <2>2
  <2>4. (i < k => s[i] < s[k]) /\ (k < i => s[k] < s[i])
    BY DEF ReviewInv, Ordered
  <2> QED BY <2>2, <2>3, <2>4
<1> QED BY <1>1, InitInv, NextInv, PTL DEF Spec
=============================================================================
