--------------------------- MODULE ReviewLoopProofs ---------------------------
(***************************************************************************)
(* Theorems about the review loop, for every choice of Events and every    *)
(* number of pull requests, heads, deliveries, workers, jobs, runs and     *)
(* attempts: the types, that a receipt is final, that no attempt is        *)
(* counted without its run, that a second job of a pull request is always  *)
(* one a submission brought back, and that a claim waits for every lease.  *)
(* While no job is brought back, one Reviewer of the project.  With one    *)
(* worker, a run is archived before its job is done and a submission in    *)
(* doubt never leads to a fresh attempt.                                   *)
(*                                                                         *)
(* The first part shows of each transaction of ReviewJobs that it keeps    *)
(* types and receipts, the second of each action of the loop (LoopInv).    *)
(* The third reads every action again, once, and says what it may do to    *)
(* one row, one run, one worker and one turn (LoopMove).  The other        *)
(* invariants are shown by those moves alone, but for the one on leases    *)
(* (Lapsed), for which every action is read once more.                     *)
(***************************************************************************)
EXTENDS ReviewLoop, TLAPS, WellFoundedInduction, FiniteSetTheorems

-----------------------------------------------------------------------------
(***************************************************************************)
(* Ids: the first free and the latest of a set of ids.                     *)
(***************************************************************************)

\* A nonempty set of numbers has a least element.
LEMMA LeastExists ==
    ASSUME NEW S, S \subseteq Nat, S # {}
    PROVE  \E x \in S : \A y \in S : x <= y
<1> DEFINE R == {ss \in Nat \X Nat : ss[1] < ss[2]}
<1>1. IsWellFoundedOn(R, Nat)
  BY NatLessThanWellFounded DEF OpToRel
<1>2. \E x \in S : \A y \in S : ~(<<y, x>> \in R)
  <2> HIDE DEF R
  <2> QED BY <1>1, WFMin
<1>3. \A x, y \in S : ~(<<y, x>> \in R) => x <= y
  OBVIOUS
<1> QED BY <1>2, <1>3

\* A nonempty set of ids below n has a greatest element.
LEMMA GreatestExists ==
    ASSUME NEW n \in Nat, NEW S, S \subseteq 1..n, S # {}
    PROVE  \E x \in S : \A y \in S : y <= x
<1> DEFINE T == {t \in 0..n : n - t \in S}
<1>1. T \subseteq Nat
  OBVIOUS
<1>2. \A x \in S : n - x \in T
  <2> TAKE x \in S
  <2>1. x \in 1..n
    OBVIOUS
  <2>2. n - x \in 0..n /\ n - (n - x) = x
    BY <2>1
  <2> QED BY <2>2
<1>3. PICK t \in T : \A u \in T : t <= u
  BY <1>1, <1>2, LeastExists
<1>4. n - t \in S
  OBVIOUS
<1>5. ASSUME NEW y \in S PROVE y <= n - t
  <2>1. t <= n - y
    BY <1>2, <1>3
  <2>2. y \in 1..n /\ t \in 0..n
    OBVIOUS
  <2> QED BY <2>1, <2>2
<1> QED BY <1>4, <1>5

\* MaxId of a set of ids is 0 or the greatest of them.
LEMMA MaxIdType ==
    ASSUME NEW n \in Nat, NEW S, S \subseteq 1..n
    PROVE  /\ MaxId(S) \in 0..n
           /\ MaxId(S) # 0 => MaxId(S) \in S
           /\ S # {} => MaxId(S) \in S /\ \A y \in S : y <= MaxId(S)
<1>1. CASE S = {}
  BY <1>1 DEF MaxId
<1>2. CASE S # {}
  <2>1. \E x \in S : \A y \in S : y <= x
    BY <1>2, GreatestExists
  <2>2. MaxId(S) = CHOOSE x \in S : \A y \in S : y <= x
    BY <1>2 DEF MaxId
  <2>3. MaxId(S) \in S /\ \A y \in S : y <= MaxId(S)
    BY <2>1, <2>2
  <2>4. MaxId(S) \in 1..n
    BY <2>3
  <2> HIDE DEF MaxId
  <2> QED BY <1>2, <2>3, <2>4
<1> QED BY <1>1, <1>2

\* The first free id is an id.
LEMMA FreshIdType ==
    /\ FreeJobs # {} => NextJob \in FreeJobs
    /\ FreeRuns # {} => NextRun \in FreeRuns
<1>1. ASSUME FreeJobs # {} PROVE NextJob \in FreeJobs
  <2>1. FreeJobs \subseteq Nat
    BY BoundAssumption DEF FreeJobs, JobIds
  <2> QED BY <1>1, <2>1, LeastExists DEF NextJob
<1>2. ASSUME FreeRuns # {} PROVE NextRun \in FreeRuns
  <2>1. FreeRuns \subseteq Nat
    BY BoundAssumption DEF FreeRuns, RunIds
  <2> QED BY <1>2, <2>1, LeastExists DEF NextRun
<1> QED BY <1>1, <1>2

LEMMA LoadActiveType ==
    ASSUME NEW p
    PROVE  /\ LoadActive(p) \in 0..MaxJobs
           /\ LoadActive(p) # 0 => LoadActive(p) \in ActiveJobs(p)
<1>1. ActiveJobs(p) \subseteq 1..MaxJobs /\ MaxJobs \in Nat
  BY BoundAssumption DEF ActiveJobs, JobIds
<1> QED BY <1>1, MaxIdType DEF LoadActive

LEMMA LatestSameHeadType ==
    ASSUME NEW p, NEW h, LatestSameHead(p, h) # 0
    PROVE  LatestSameHead(p, h) \in JobIds
<1>1. {j \in JobIds : Stored(j) /\ job[j].pr = p /\ job[j].head = h} \subseteq 1..MaxJobs
  BY DEF JobIds
<1> QED BY <1>1, BoundAssumption, MaxIdType DEF LatestSameHead

LEMMA LatestRunType ==
    ASSUME NEW j
    PROVE  /\ LatestRun(j) \in 0..MaxRuns
           /\ LatestRun(j) # 0 => LatestRun(j) \in RunIds /\ run[LatestRun(j)].job = j
<1>1. {r \in RunIds : run[r].job = j} \subseteq 1..MaxRuns /\ MaxRuns \in Nat
  BY BoundAssumption DEF RunIds
<1> QED BY <1>1, MaxIdType DEF LatestRun

-----------------------------------------------------------------------------
(***************************************************************************)
(* Types of rows.                                                          *)
(***************************************************************************)
LEMMA Bounds ==
    /\ 0 \in 0..MaxRuns /\ 0 \in 0..MaxJobs /\ 0 \in 0..MaxAttempts /\ 0 \in 0..MaxHead
    /\ 1 \in Heads /\ RunIds \subseteq 0..MaxRuns /\ JobIds \subseteq 0..MaxJobs
    /\ Heads \subseteq 0..MaxHead
BY BoundAssumption DEF Heads, RunIds, JobIds

LEMMA NewJobType ==
    ASSUME NEW p \in Prs, NEW h \in Heads, NEW d \in Deliveries \cup {None},
           NEW s \in Active \cup Terminal \cup {"absent", "deleted"}
    PROVE  NewJob(p, h, d, s) \in JobRow
BY Bounds DEF NewJob, JobRow

LEMMA UnleasedType ==
    ASSUME NEW row \in JobRow
    PROVE  Unleased(row) \in JobRow
BY Bounds DEF Unleased, JobRow

LEMMA FinishedType ==
    ASSUME NEW row \in JobRow, NEW s \in Terminal
    PROVE  Finished(row, s) \in JobRow
BY UnleasedType DEF Finished, JobRow

LEMMA WaitingType ==
    ASSUME NEW row \in JobRow
    PROVE  ScheduleRetry(row) \in JobRow /\ BeginReconciliation(row) \in JobRow
BY UnleasedType DEF ScheduleRetry, BeginReconciliation, JobRow, Active, Executing

-----------------------------------------------------------------------------
(***************************************************************************)
(* Types of the tables.                                                    *)
(***************************************************************************)
LEMMA EnsureTasksType ==
    ASSUME TypeOK, NEW S, NEW J
    PROVE  EnsureTasks(S, J) \in [TaskIds -> {"absent", "waiting", "running", "succeeded"}]
BY DEF TypeOK, EnsureTasks

LEMMA TablesInitType == TablesInit => TypeOK
<1> SUFFICES ASSUME TablesInit PROVE TypeOK
  OBVIOUS
<1>1. (CHOOSE p \in Prs : TRUE) \in Prs
  BY PrsAssumption
<1>2. job \in [JobIds -> JobRow]
  BY <1>1, Bounds, NewJobType DEF TablesInit
<1>3. run \in [RunIds -> RunRow]
  BY Bounds DEF TablesInit, RunRow
<1>4. watch \in [Prs -> 0..MaxHead]
  BY Bounds DEF TablesInit
<1> QED BY <1>2, <1>3, <1>4 DEF TablesInit, TypeOK

LEMMA WriteRowType ==
    ASSUME TypeOK, NEW j \in JobIds, NEW row \in JobRow, WriteRow(j, row),
           UNCHANGED <<run, watch>>
    PROVE  TypeOK'
BY EnsureTasksType DEF WriteRow, TypeOK

LEMMA EnqueueInTransactionType ==
    ASSUME TypeOK, NEW p \in Prs, NEW h \in Heads, NEW d \in Deliveries \cup {None},
           NEW watched \in BOOLEAN, EnqueueInTransaction(p, h, d, watched),
           watch' \in [Prs -> 0..MaxHead]
    PROVE  TypeOK'
<1> DEFINE old == LoadActive(p)
<1> DEFINE Fresh(J) == [J EXCEPT ![NextJob] = NewJob(p, h, d, "queued")]
<1>1. old # 0 => old \in JobIds
  BY LoadActiveType DEF ActiveJobs
<1>2. ASSUME NEW J \in [JobIds -> JobRow], FreeJobs # {} PROVE Fresh(J) \in [JobIds -> JobRow]
  BY <1>2, NewJobType, FreshIdType DEF FreeJobs, Active
<1>3. job \in [JobIds -> JobRow]
  BY DEF TypeOK
<1>4. job' \in [JobIds -> JobRow] /\ task' \in [TaskIds -> {"absent", "waiting", "running", "succeeded"}]
  <2>1. CASE job' = job /\ task' = task
    BY <2>1 DEF TypeOK
  <2>2. CASE old # 0 /\ job' = [job EXCEPT ![old].delivery = Coalesce(d, @)] /\ task' = task
    BY <1>1, <2>2 DEF TypeOK, Coalesce, JobRow
  <2>3. CASE FreeJobs # {} /\ job' = Fresh(job) /\ task' = task
    BY <1>2, <1>3, <2>3 DEF TypeOK
  <2>4. CASE /\ old # 0 /\ FreeJobs # {}
             /\ job' = Fresh([job EXCEPT ![old].status = "superseded"])
             /\ task' = EnsureTasks({old}, [job EXCEPT ![old].status = "superseded"])
    <3>1. [job EXCEPT ![old].status = "superseded"] \in [JobIds -> JobRow]
      BY <1>1, <1>3, <2>4 DEF JobRow, Terminal
    <3> QED BY <1>2, <2>4, <3>1, EnsureTasksType
  <2> QED BY <2>1, <2>2, <2>3, <2>4 DEF EnqueueInTransaction
<1> QED BY <1>4 DEF EnqueueInTransaction, TypeOK

LEMMA EnqueueType ==
    ASSUME TypeOK, NEW p \in Prs, NEW h \in Heads, NEW d \in Deliveries \cup {None},
           Enqueue(p, h, d)
    PROVE  TypeOK'
<1>1. EnqueueInTransaction(p, h, d, FALSE) /\ watch' \in [Prs -> 0..MaxHead]
  BY DEF Enqueue, TypeOK
<1> QED BY <1>1, EnqueueInTransactionType

LEMMA AdmissionType ==
    ASSUME TypeOK, NEW p \in Prs, NEW h \in Heads, NEW seen, NEW d \in Deliveries \cup {None},
           \/ AdmitCandidate(p, h) \/ AdmitWatch(p, h) \/ EnqueueFromWatch(p, seen, h, d)
           \/ ReplaceWatchHead(p, seen, h) \/ DeleteWatch(p, seen)
    PROVE  TypeOK'
<1>1. watch' \in [Prs -> 0..MaxHead]
  BY Bounds DEF TypeOK, AdmitCandidate, AdmitWatch, EnqueueFromWatch, ReplaceWatchHead,
     DeleteWatch, tables
<1>2. CASE \E x \in BOOLEAN, e \in Deliveries \cup {None} : EnqueueInTransaction(p, h, e, x)
  BY <1>1, <1>2, EnqueueInTransactionType
<1>3. CASE UNCHANGED <<job, run, task>>
  BY <1>1, <1>3 DEF TypeOK
<1>4. CASE /\ LatestSameHead(p, h) # 0
           /\ job' = [job EXCEPT ![LatestSameHead(p, h)] =
                        [job[LatestSameHead(p, h)] EXCEPT
                            !.status = "queued", !.due = TRUE, !.reviewer = 0, !.run = 0,
                            !.owner = None, !.live = FALSE]]
           /\ UNCHANGED <<run, task>>
  <2> DEFINE latest == LatestSameHead(p, h)
  <2> DEFINE row == [job[latest] EXCEPT
                       !.status = "queued", !.due = TRUE, !.reviewer = 0, !.run = 0,
                       !.owner = None, !.live = FALSE]
  <2>1. latest \in JobIds
    BY <1>4, LatestSameHeadType
  <2>2. job[latest] \in JobRow
    BY <2>1 DEF TypeOK
  <2>3. row \in JobRow
    BY <2>2, Bounds DEF JobRow, Active
  <2>4. job' \in [JobIds -> JobRow]
    BY <1>4, <2>3 DEF TypeOK
  <2> QED BY <1>1, <1>4, <2>4 DEF TypeOK
<1> QED BY <1>2, <1>3, <1>4 DEF AdmitCandidate, AdmitWatch, EnqueueFromWatch,
           ReplaceWatchHead, DeleteWatch, tables

LEMMA ClaimType ==
    ASSUME TypeOK, NEW j \in JobIds, NEW w \in Owners, NEW expired, Claim(j, w, expired)
    PROVE  TypeOK'
<1>1. job[j] \in JobRow
  BY DEF TypeOK
<1>2. ASSUME NEW s \in {"reconciling", "preparing"}
      PROVE  [job[j] EXCEPT !.status = s, !.due = TRUE, !.owner = w, !.live = TRUE] \in JobRow
  BY <1>1 DEF JobRow, Executing, Active
<1> QED BY <1>2 DEF TypeOK, Claim

LEMMA LeaseType ==
    ASSUME TypeOK, NEW j \in JobIds, HeartbeatJob(j) \/ LeaseLapses(j) \/ BecomesDue(j)
    PROVE  TypeOK'
<1>1. job[j] \in JobRow
  BY DEF TypeOK
<1>2. \A b \in BOOLEAN : [job[j] EXCEPT !.live = b] \in JobRow /\ [job[j] EXCEPT !.due = b] \in JobRow
  BY <1>1 DEF JobRow
<1> QED BY <1>2 DEF TypeOK, HeartbeatJob, LeaseLapses, BecomesDue

LEMMA UpsertType ==
    ASSUME TypeOK, NEW j \in JobIds, NEW c \in JobRow, NEW overtaken,
           Upsert(j, c, overtaken)
    PROVE  /\ job' \in [JobIds -> JobRow]
           /\ task' \in [TaskIds -> {"absent", "waiting", "running", "succeeded"}]
BY EnsureTasksType DEF TypeOK, Upsert, WriteRow

LEMMA SaveClaimedType ==
    ASSUME TypeOK, NEW j \in JobIds, NEW w, NEW c \in JobRow, NEW overtaken,
           SaveClaimed(j, w, c, overtaken)
    PROVE  TypeOK'
<1>1. [c EXCEPT !.live = job[j].live] \in JobRow
  BY DEF TypeOK, JobRow
<1>2. CASE job[j].owner = w
  BY <1>1, <1>2, UpsertType DEF SaveClaimed, TypeOK
<1>3. CASE job[j].owner # w
  BY <1>3 DEF SaveClaimed, TypeOK
<1> QED BY <1>2, <1>3

LEMMA SkipForCiPendingType ==
    ASSUME TypeOK, NEW j \in JobIds, SkipForCiPending(j)
    PROVE  TypeOK'
<1>1. job[j] \in JobRow /\ Finished(job[j], "skipped") \in JobRow
  BY FinishedType DEF TypeOK, Terminal
<1>2. job[j].head \in 0..MaxHead
  BY <1>1, Bounds DEF JobRow
<1>3. watch' \in [Prs -> 0..MaxHead]
  BY <1>2 DEF SkipForCiPending, TypeOK
<1>4. job' \in [JobIds -> JobRow]
  BY <1>1 DEF SkipForCiPending, WriteRow, TypeOK
<1>5. task' \in [TaskIds -> {"absent", "waiting", "running", "succeeded"}]
  BY EnsureTasksType DEF SkipForCiPending, WriteRow, TypeOK
<1> QED BY <1>3, <1>4, <1>5 DEF SkipForCiPending, TypeOK

LEMMA BegunType ==
    ASSUME NEW row \in JobRow, row.attempts < MaxAttempts, NEW r \in RunIds
    PROVE  Begun(row, r) \in JobRow
<1>1. row.attempts + 1 \in 0..MaxAttempts /\ r \in 0..MaxRuns
  BY BoundAssumption, Bounds DEF JobRow
<1> QED BY <1>1 DEF Begun, JobRow

LEMMA BeginAttemptType ==
    ASSUME TypeOK, NEW j \in JobIds, NEW w, CanBegin(j, w), NEW overtaken,
           BeginAttempt(j, overtaken)
    PROVE  TypeOK'
<1>1. NextRun \in RunIds
  BY FreshIdType DEF BeginAttempt, FreeRuns
<1>2. Begun(job[j], NextRun) \in JobRow
  BY <1>1, BegunType DEF TypeOK, CanBegin
<1>3. run' \in [RunIds -> RunRow]
  BY <1>1, Bounds DEF BeginAttempt, TypeOK, RunRow, JobRow
<1> QED BY <1>2, <1>3, UpsertType DEF BeginAttempt, TypeOK

LEMMA RunStepType ==
    ASSUME TypeOK, NEW r \in RunIds,
           \/ \E a \in 0..MaxRuns : SaveRunRunning(r, a)
           \/ RunExists(r) /\ FinishRun(r)
    PROVE  TypeOK'
<1>1. run' \in [RunIds -> RunRow]
  <2>1. run \in [RunIds -> RunRow] /\ run[r] \in RunRow
    BY DEF TypeOK
  <2>2. CASE \E a \in 0..MaxRuns : SaveRunRunning(r, a)
    <3>1. PICK a \in 0..MaxRuns : SaveRunRunning(r, a)
      BY <2>2
    <3>2. run' = [run EXCEPT ![r] = [run[r] EXCEPT !.open = TRUE, !.reviewer = a]]
      BY <2>1, <3>1 DEF SaveRunRunning, RunRow
    <3>3. [run[r] EXCEPT !.open = TRUE, !.reviewer = a] \in RunRow
      BY <2>1 DEF RunRow
    <3> QED BY <2>1, <3>2, <3>3
  <2>3. CASE FinishRun(r)
    <3>1. run' = [run EXCEPT ![r] = [run[r] EXCEPT !.open = FALSE]]
      BY <2>3 DEF FinishRun
    <3>2. [run[r] EXCEPT !.open = FALSE] \in RunRow
      BY <2>1 DEF RunRow
    <3> QED BY <2>1, <3>1, <3>2
  <2> QED BY <2>2, <2>3
<1>2. job' \in [JobIds -> JobRow]
  BY UnleasedType DEF TypeOK, SaveRunRunning, FinishRun
<1> QED BY <1>1, <1>2 DEF TypeOK, SaveRunRunning, FinishRun

LEMMA SubmissionType ==
    ASSUME TypeOK, NEW j \in JobIds,
           RecordIntent(j) \/ MarkReconciling(j) \/ RecordReceipt(j)
    PROVE  TypeOK'
<1>0. job[j] \in JobRow
  BY DEF TypeOK
<1>1. CASE RecordIntent(j) \/ MarkReconciling(j)
  <2>1. ASSUME NEW s \in {"reconciling", "submission_pending"}
        PROVE  /\ [job[j] EXCEPT !.status = s] \in JobRow
               /\ [job[j] EXCEPT !.intent = TRUE, !.status = s] \in JobRow
    BY <1>0 DEF JobRow, Active, Executing
  <2> QED BY <1>1, <2>1 DEF TypeOK, RecordIntent, MarkReconciling
<1>2. CASE RecordReceipt(j)
  <2> DEFINE row == [job[j] EXCEPT !.receipt = TRUE, !.status = "succeeded", !.due = TRUE,
                         !.owner = IF job[j].run = 0 THEN None ELSE job[j].owner,
                         !.live = job[j].run # 0 /\ job[j].live]
  <2>1. row \in JobRow
    <3> DEFINE o == IF job[j].run = 0 THEN None ELSE job[j].owner
               l == job[j].run # 0 /\ job[j].live
    <3>1. o \in Owners \cup {None} /\ l \in BOOLEAN
      BY <1>0 DEF JobRow
    <3> HIDE DEF o, l
    <3>2. [job[j] EXCEPT !.receipt = TRUE, !.status = "succeeded", !.due = TRUE,
                         !.owner = o, !.live = l] \in JobRow
      BY <1>0, <3>1 DEF JobRow, Terminal
    <3> QED BY <3>2 DEF o, l
  <2>2. WriteRow(j, row) /\ UNCHANGED <<run, watch>>
    BY <1>2 DEF RecordReceipt
  <2> QED BY <2>1, <2>2, WriteRowType
<1> QED BY <1>1, <1>2

LEMMA RecoveryType ==
    ASSUME TypeOK, NEW expired,
           ReleaseTerminalOwnership(expired) \/ RecoverJobs(expired) \/ CancelActive
    PROVE  TypeOK'
<1>1. CASE ReleaseTerminalOwnership(expired)
  BY <1>1, UnleasedType DEF ReleaseTerminalOwnership, TypeOK
<1>2. CASE RecoverJobs(expired)
  <2>1. ASSUME NEW j \in JobIds, NEW s \in {"reconciling", "retry_waiting"}
        PROVE  [Unleased(job[j]) EXCEPT !.status = s, !.due = TRUE] \in JobRow
    <3>1. Unleased(job[j]) \in JobRow
      BY UnleasedType DEF TypeOK
    <3> QED BY <3>1 DEF JobRow, Active, Executing
  <2>2. job' \in [JobIds -> JobRow]
    BY <1>2, <2>1 DEF RecoverJobs, TypeOK
  <2>3. run' \in [RunIds -> RunRow]
    BY <1>2 DEF RecoverJobs, TypeOK, RunRow
  <2> QED BY <1>2, <2>2, <2>3 DEF RecoverJobs, TypeOK
<1>3. CASE CancelActive
  <2>1. \A j \in JobIds :
           [job[j] EXCEPT !.status = "cancelled", !.owner = None, !.live = FALSE] \in JobRow
    <3> TAKE j \in JobIds
    <3>1. job[j] \in JobRow
      BY DEF TypeOK
    <3> QED BY <3>1 DEF JobRow, Terminal
  <2>2. job' \in [JobIds -> JobRow]
    BY <1>3, <2>1 DEF CancelActive, TypeOK
  <2> QED BY <1>3, <2>2, EnsureTasksType DEF CancelActive, TypeOK
<1> QED BY <1>1, <1>2, <1>3

LEMMA CleanupType ==
    ASSUME TypeOK,
           \/ \E t \in TaskIds : ClaimTask(t) \/ CompleteTask(t)
           \/ \E j \in JobIds : Prune(j)
    PROVE  TypeOK'
BY DEF TypeOK, ClaimTask, CompleteTask, Prune, JobRow

-----------------------------------------------------------------------------
(***************************************************************************)
(* What the transactions do to a row with a receipt.                       *)
(***************************************************************************)
Done == {"succeeded", "deleted"}

\* A row with a receipt is a success, or pruned.
ReceiptRows == \A j \in JobIds : job[j].receipt => job[j].status \in Done

KeepsReceipts ==
    \A j \in JobIds : job[j].receipt => job'[j].receipt /\ job'[j].status \in Done

LEMMA RowWritten ==
    ASSUME TypeOK, ReceiptRows, NEW j \in JobIds, NEW row,
           job' = [job EXCEPT ![j] = row],
           row.receipt => row.status \in Done,
           job[j].receipt => row.receipt
    PROVE  ReceiptRows' /\ KeepsReceipts
BY DEF TypeOK, ReceiptRows, KeepsReceipts

LEMMA JobsKept ==
    ASSUME ReceiptRows, job' = job
    PROVE  ReceiptRows' /\ KeepsReceipts
BY DEF ReceiptRows, KeepsReceipts

LEMMA Disjoint ==
    ASSUME NEW s \in Active
    PROVE  s \notin Terminal /\ s \notin Done /\ s # "absent"
BY DEF Active, Executing, Terminal, Done

LEMMA EnqueueReceipts ==
    ASSUME TypeOK, ReceiptRows, NEW p \in Prs, NEW h \in Heads,
           NEW d \in Deliveries \cup {None},
           NEW watched, EnqueueInTransaction(p, h, d, watched)
    PROVE  ReceiptRows' /\ KeepsReceipts
<1> DEFINE old == LoadActive(p)
<1> DEFINE new == NewJob(p, h, d, "queued")
<1>1. old # 0 => old \in JobIds /\ ~job[old].receipt
  BY LoadActiveType, Disjoint DEF ActiveJobs, ReceiptRows
<1>2. FreeJobs # {} => NextJob \in JobIds /\ ~job[NextJob].receipt
  BY FreshIdType DEF FreeJobs, ReceiptRows, Done
<1>3. ~new.receipt
  BY DEF NewJob
<1>4. CASE job' = job
  BY <1>4, JobsKept
<1>5. CASE old # 0 /\ job' = [job EXCEPT ![old].delivery = Coalesce(d, @)]
  <2>1. ~[job[old] EXCEPT !.delivery = Coalesce(d, @)].receipt
    BY <1>1, <1>5 DEF TypeOK, JobRow
  <2> QED BY <1>1, <1>5, <2>1, RowWritten
<1>6. CASE FreeJobs # {} /\ job' = [job EXCEPT ![NextJob] = new]
  BY <1>2, <1>3, <1>6, RowWritten
<1>7. CASE /\ old # 0 /\ FreeJobs # {}
           /\ job' = [[job EXCEPT ![old].status = "superseded"] EXCEPT ![NextJob] = new]
  <2>1. ~[job[old] EXCEPT !.status = "superseded"].receipt
    BY <1>1, <1>7 DEF TypeOK, JobRow
  <2> QED BY <1>1, <1>2, <1>3, <1>7, <2>1 DEF TypeOK, ReceiptRows, KeepsReceipts
<1> QED BY <1>4, <1>5, <1>6, <1>7 DEF EnqueueInTransaction

LEMMA AdmissionReceipts ==
    ASSUME TypeOK, ReceiptRows, NEW p \in Prs, NEW h \in Heads, NEW seen,
           NEW d \in Deliveries \cup {None},
           \/ AdmitCandidate(p, h) \/ AdmitWatch(p, h) \/ EnqueueFromWatch(p, seen, h, d)
           \/ ReplaceWatchHead(p, seen, h) \/ DeleteWatch(p, seen)
    PROVE  ReceiptRows' /\ KeepsReceipts
<1>1. CASE \E x \in BOOLEAN, e \in Deliveries \cup {None} : EnqueueInTransaction(p, h, e, x)
  BY <1>1, EnqueueReceipts
<1>2. CASE job' = job
  BY <1>2, JobsKept
<1>3. CASE /\ LatestSameHead(p, h) # 0 /\ ~job[LatestSameHead(p, h)].receipt
           /\ job' = [job EXCEPT ![LatestSameHead(p, h)] =
                        [job[LatestSameHead(p, h)] EXCEPT
                            !.status = "queued", !.due = TRUE, !.reviewer = 0, !.run = 0,
                            !.owner = None, !.live = FALSE]]
  <2> DEFINE latest == LatestSameHead(p, h)
  <2>1. latest \in JobIds
    BY <1>3, LatestSameHeadType
  <2>2. job[latest] \in JobRow
    BY <2>1 DEF TypeOK
  <2>3. ~[job[latest] EXCEPT !.status = "queued", !.due = TRUE, !.reviewer = 0, !.run = 0,
                             !.owner = None, !.live = FALSE].receipt
    BY <1>3, <2>2 DEF JobRow
  <2> QED BY <1>3, <2>1, <2>3, RowWritten
<1> QED BY <1>1, <1>2, <1>3 DEF AdmitCandidate, AdmitWatch, EnqueueFromWatch,
           ReplaceWatchHead, DeleteWatch, tables

LEMMA ClaimReceipts ==
    ASSUME TypeOK, ReceiptRows, NEW j \in JobIds, NEW w, NEW expired, Claim(j, w, expired)
    PROVE  ReceiptRows' /\ KeepsReceipts /\ ~job'[j].receipt
<1>1. job[j].status \in {"queued", "retry_waiting", "reconciling"}
  BY DEF Claim, ClaimOrder, ClaimDue
<1>2. ~job[j].receipt
  BY <1>1 DEF ReceiptRows, Done
<1> DEFINE s == IF job[j].intent THEN "reconciling" ELSE "preparing"
           row == [job[j] EXCEPT !.status = s, !.due = TRUE, !.owner = w, !.live = TRUE]
<1>3. job' = [job EXCEPT ![j] = row]
  BY DEF Claim
<1>4. ~row.receipt
  <2> HIDE DEF s
  <2> QED BY <1>2 DEF TypeOK, JobRow
<1> HIDE DEF row
<1> QED BY <1>2, <1>3, <1>4, RowWritten DEF TypeOK

LEMMA LeaseReceipts ==
    ASSUME TypeOK, ReceiptRows, NEW j \in JobIds,
           HeartbeatJob(j) \/ LeaseLapses(j) \/ BecomesDue(j)
    PROVE  ReceiptRows' /\ KeepsReceipts
<1>1. job[j] \in JobRow
  BY DEF TypeOK
<1>2. \A b : /\ [job[j] EXCEPT !.live = b].receipt = job[j].receipt
             /\ [job[j] EXCEPT !.live = b].status = job[j].status
             /\ [job[j] EXCEPT !.due = b].receipt = job[j].receipt
             /\ [job[j] EXCEPT !.due = b].status = job[j].status
  BY <1>1 DEF JobRow
<1>3. job[j].receipt => job[j].status \in Done
  BY DEF ReceiptRows
<1> QED BY <1>2, <1>3, RowWritten DEF HeartbeatJob, LeaseLapses, BecomesDue

\* A row in memory that carries no receipt can replace no row that has one: the
\* latter is terminal.
LEMMA SaveReceipts ==
    ASSUME TypeOK, ReceiptRows, NEW j \in JobIds, NEW w, NEW c \in JobRow, ~c.receipt,
           NEW overtaken, SaveClaimed(j, w, c, overtaken)
    PROVE  ReceiptRows' /\ KeepsReceipts
<1>1. ~[c EXCEPT !.live = job[j].live].receipt
  BY DEF JobRow
<1>2. job[j].receipt => job[j].status \in Terminal
  BY DEF SaveClaimed, Stored, ReceiptRows, Done, Terminal
<1>3. CASE job' = job
  BY <1>3, JobsKept
<1>4. CASE /\ job[j].status \notin Terminal
           /\ \/ job' = [job EXCEPT ![j] = c]
              \/ job' = [job EXCEPT ![j] = [c EXCEPT !.live = job[j].live]]
  BY <1>1, <1>2, <1>4, RowWritten
<1> QED BY <1>3, <1>4 DEF SaveClaimed, Upsert, WriteRow

LEMMA PreparingReceipts ==
    ASSUME TypeOK, ReceiptRows, NEW j \in JobIds, job[j].status = "preparing",
           \/ SkipForCiPending(j)
           \/ \E overtaken \in BOOLEAN : BeginAttempt(j, overtaken)
    PROVE  /\ ReceiptRows' /\ KeepsReceipts
           /\ \A r : ~Begun(job[j], r).receipt
<1>1. job[j] \in JobRow /\ ~job[j].receipt
  BY DEF TypeOK, ReceiptRows, Done
<1>2. ~Finished(job[j], "skipped").receipt
  BY <1>1 DEF Finished, Unleased, JobRow
<1>3. \A r : ~Begun(job[j], r).receipt
  BY <1>1 DEF Begun, JobRow
<1>4. CASE job' = job
  BY <1>3, <1>4, JobsKept
<1>5. CASE job' = [job EXCEPT ![j] = Finished(job[j], "skipped")]
  BY <1>2, <1>3, <1>5, <1>1, RowWritten
<1>6. CASE job' = [job EXCEPT ![j] = Begun(job[j], NextRun)]
  BY <1>3, <1>6, <1>1, RowWritten
<1> QED BY <1>4, <1>5, <1>6 DEF SkipForCiPending, BeginAttempt, Upsert, WriteRow

LEMMA RunStepReceipts ==
    ASSUME TypeOK, ReceiptRows, NEW r \in RunIds,
           \/ \E a : SaveRunRunning(r, a)
           \/ RunExists(r) /\ FinishRun(r)
    PROVE  ReceiptRows' /\ KeepsReceipts
<1> DEFINE j == run[r].job
<1>1. CASE job' = job
  BY <1>1, JobsKept
<1>2. CASE j \in JobIds /\ job' = [job EXCEPT ![j] = Unleased(@)]
  <2>1. job[j] \in JobRow /\ (job[j].receipt => job[j].status \in Done)
    BY <1>2 DEF TypeOK, ReceiptRows
  <2>2. Unleased(job[j]).receipt = job[j].receipt /\ Unleased(job[j]).status = job[j].status
    BY <2>1 DEF Unleased, JobRow
  <2> QED BY <1>2, <2>1, <2>2, RowWritten
<1>3. RunExists(r) => j \in JobIds
  BY DEF RunExists, TypeOK, RunRow, JobIds
<1> QED BY <1>1, <1>2, <1>3 DEF SaveRunRunning, FinishRun

LEMMA SubmissionReceipts ==
    ASSUME TypeOK, ReceiptRows, NEW j \in JobIds,
           \/ CanRecordIntent(j) /\ RecordIntent(j)
           \/ MarkReconciling(j) \/ RecordReceipt(j)
    PROVE  ReceiptRows' /\ KeepsReceipts
<1>1. job[j] \in JobRow
  BY DEF TypeOK
<1>2. CASE job' = job
  BY <1>2, JobsKept
<1>3. CASE /\ ~job[j].receipt
           /\ \E s : \/ job' = [job EXCEPT ![j] = [job[j] EXCEPT !.status = s]]
                     \/ job' = [job EXCEPT ![j] = [job[j] EXCEPT !.intent = TRUE, !.status = s]]
  <2>1. \A s : /\ ~[job[j] EXCEPT !.status = s].receipt
               /\ ~[job[j] EXCEPT !.intent = TRUE, !.status = s].receipt
    BY <1>1, <1>3 DEF JobRow
  <2> QED BY <1>3, <2>1, RowWritten
<1>4. CASE RecordReceipt(j)
  <2> DEFINE o == IF job[j].run = 0 THEN None ELSE job[j].owner
             l == job[j].run # 0 /\ job[j].live
             row == [job[j] EXCEPT !.receipt = TRUE, !.status = "succeeded", !.due = TRUE,
                                   !.owner = o, !.live = l]
  <2>1. job' = [job EXCEPT ![j] = row]
    BY <1>4 DEF RecordReceipt, WriteRow
  <2>2. row.receipt /\ row.status = "succeeded"
    <3> HIDE DEF o, l
    <3> QED BY <1>1 DEF JobRow
  <2> HIDE DEF row
  <2> QED BY <2>1, <2>2, RowWritten DEF Done
<1> QED BY <1>2, <1>3, <1>4 DEF CanRecordIntent, RecordIntent, MarkReconciling

LEMMA RecoveryReceipts ==
    ASSUME TypeOK, ReceiptRows, NEW expired,
           ReleaseTerminalOwnership(expired) \/ RecoverJobs(expired) \/ CancelActive
    PROVE  ReceiptRows' /\ KeepsReceipts
<1>1. ASSUME NEW j \in JobIds
      PROVE  /\ job[j] \in JobRow
             /\ Unleased(job[j]).receipt = job[j].receipt
             /\ Unleased(job[j]).status = job[j].status
  BY DEF TypeOK, Unleased, JobRow
<1>2. CASE ReleaseTerminalOwnership(expired)
  BY <1>1, <1>2 DEF ReleaseTerminalOwnership, ReceiptRows, KeepsReceipts
<1>3. CASE RecoverJobs(expired)
  <2>1. ASSUME NEW j \in JobIds, NEW s
        PROVE  [Unleased(job[j]) EXCEPT !.status = s, !.due = TRUE].receipt = job[j].receipt
    BY <1>1 DEF Unleased, JobRow
  <2>2. \A j \in JobIds : MustRecover(j, expired) => ~job[j].receipt
    BY DEF MustRecover, ReceiptRows, Done
  <2> QED BY <1>3, <2>1, <2>2 DEF RecoverJobs, ReceiptRows, KeepsReceipts
<1>4. CASE CancelActive
  <2>1. ASSUME NEW j \in JobIds
        PROVE  [job[j] EXCEPT !.status = "cancelled", !.owner = None, !.live = FALSE].receipt
               = job[j].receipt
    BY <1>1 DEF JobRow
  <2>2. \A j \in JobIds : job[j].status \in Active => ~job[j].receipt
    BY Disjoint DEF ReceiptRows
  <2> QED BY <1>4, <2>1, <2>2 DEF CancelActive, ReceiptRows, KeepsReceipts
<1> QED BY <1>2, <1>3, <1>4

LEMMA CleanupReceipts ==
    ASSUME TypeOK, ReceiptRows,
           \/ \E t \in TaskIds : ClaimTask(t) \/ CompleteTask(t)
           \/ \E j \in JobIds : Prune(j)
    PROVE  ReceiptRows' /\ KeepsReceipts
<1>1. CASE job' = job
  BY <1>1, JobsKept
<1>2. ASSUME NEW j \in JobIds, job' = [job EXCEPT ![j].status = "deleted"]
      PROVE  ReceiptRows' /\ KeepsReceipts
  <2>1. /\ [job[j] EXCEPT !.status = "deleted"].receipt = job[j].receipt
        /\ [job[j] EXCEPT !.status = "deleted"].status = "deleted"
    BY DEF TypeOK, JobRow
  <2> QED BY <1>2, <2>1, RowWritten DEF Done
<1> QED BY <1>1, <1>2 DEF ClaimTask, CompleteTask, Prune

-----------------------------------------------------------------------------
(***************************************************************************)
(* The inductive invariant.  A receipt cannot be undone by the tables      *)
(* alone: a save writes the row a worker holds in memory.  So the rows in  *)
(* memory must carry no receipt, except the one the worker that archives a *)
(* submitted run reads, and never writes.                                  *)
(***************************************************************************)

\* Where a worker has no claimed job, and where it has a run.
Unclaimed == {"off", "startup", "idle", "claim", "stopping", "cancel_runs"} \cup Recovering
HasRun == Attempt \ {"begin"}

WorkerOK(m) ==
    /\ m \in WorkerRow
    /\ m.pc \notin Unclaimed \/ m.heartbeat => m.j \in JobIds
    /\ m.pc \in HasRun => m.run \in RunIds
    /\ m.pc = "finish_owned" => m.copy.run \in RunIds
    /\ m.pc # "finish_owned" => ~m.copy.receipt

WorkersOK(W) == W \in [Workers -> WorkerRow] /\ \A w \in Workers : WorkerOK(W[w])

AgentOK(a) == a \in AgentRow /\ (a.step # "none" => a.j \in JobIds)

AgentsOK == agent \in [Workers -> AgentRow] /\ \A w \in Workers : AgentOK(agent[w])

TablesOK == TypeOK /\ ReceiptRows

LoopInv == TablesOK /\ head \in [Prs -> Heads] /\ WorkersOK(worker) /\ AgentsOK

\* What every step does to the tables.
TablesStep == TablesOK' /\ KeepsReceipts

LoopStep == LoopInv' /\ KeepsReceipts

-----------------------------------------------------------------------------
(***************************************************************************)
(* Rows of workers.                                                        *)
(***************************************************************************)
LEMMA PcTypes ==
    /\ Unclaimed \subseteq Control /\ Attempt \subseteq Control /\ Preflight \subseteq Control
    /\ Reconcile \subseteq Control /\ Stamped \subseteq Control
    /\ {"reload", "finish_owned", "final_save", "plain_save"} \subseteq Control
    /\ "finish_owned" \notin Unclaimed /\ Unclaimed \cap HasRun = {}
    /\ HasRun \subseteq Attempt /\ "finish_owned" \notin HasRun
BY DEF Unclaimed, Control, Attempt, Preflight, Reconcile, Stamped, Recovering, HasRun

LEMMA NoCopyType == NoCopy \in JobRow /\ ~NoCopy.receipt
<1>1. (CHOOSE p \in Prs : TRUE) \in Prs
  BY PrsAssumption
<1>2. NoCopy \in JobRow
  BY <1>1, Bounds, NewJobType DEF NoCopy
<1>3. ~NoCopy.receipt
  BY DEF NoCopy, NewJob
<1> QED BY <1>2, <1>3

LEMMA RestingType ==
    ASSUME NEW pc \in Control
    PROVE  Resting(pc) \in WorkerRow
BY Bounds, NoCopyType DEF Resting, WorkerRow

LEMMA RestingOK ==
    ASSUME NEW pc \in Unclaimed
    PROVE  WorkerOK(Resting(pc))
<1>1. Resting(pc) \in WorkerRow
  BY PcTypes, RestingType
<1>2. Resting(pc).pc = pc /\ Resting(pc).heartbeat = FALSE /\ Resting(pc).copy = NoCopy
  BY DEF Resting
<1> QED BY <1>1, <1>2, PcTypes, NoCopyType DEF WorkerOK

\* A pass over the tables: the runs to finish, the expired leases.
LEMMA PassGoesOK ==
    ASSUME NEW m, WorkerOK(m), m.pc \in Unclaimed,
           NEW pc \in Unclaimed, NEW todo \in SUBSET RunIds, NEW kept \in 0..MaxRuns,
           NEW expired \in SUBSET JobIds
    PROVE  /\ WorkerOK([m EXCEPT !.pc = pc])
           /\ WorkerOK([m EXCEPT !.todo = todo])
           /\ WorkerOK([m EXCEPT !.pc = pc, !.todo = todo])
           /\ WorkerOK([m EXCEPT !.pc = pc, !.kept = kept, !.todo = todo])
           /\ WorkerOK([m EXCEPT !.todo = todo, !.kept = kept])
           /\ WorkerOK([m EXCEPT !.expired = expired, !.todo = todo])
BY PcTypes DEF WorkerOK, WorkerRow

LEMMA PassOK ==
    ASSUME NEW pc \in Unclaimed, NEW todo \in SUBSET RunIds, NEW kept \in 0..MaxRuns,
           NEW expired \in SUBSET JobIds
    PROVE  /\ WorkerOK([Resting(pc) EXCEPT !.todo = todo, !.kept = kept])
           /\ WorkerOK([Resting(pc) EXCEPT !.expired = expired, !.todo = todo])
<1>1. WorkerOK(Resting(pc)) /\ Resting(pc).pc \in Unclaimed
  BY RestingOK DEF Resting
<1> QED BY <1>1, PassGoesOK

LEMMA SaveOK ==
    ASSUME NEW m, WorkerOK(m), m.j \in JobIds, NEW pc \in Control,
           pc # "finish_owned", pc \in HasRun => m.run \in RunIds,
           NEW c \in JobRow, ~c.receipt
    PROVE  /\ WorkerOK([m EXCEPT !.pc = pc, !.copy = c, !.overtaken = FALSE])
           /\ WorkerOK([m EXCEPT !.copy = c]) \/ m.pc = "finish_owned"
BY DEF WorkerOK, WorkerRow

LEMMA ToOK ==
    ASSUME NEW m, WorkerOK(m), m.j \in JobIds, m.pc # "finish_owned", NEW pc \in Control,
           pc # "finish_owned", pc \in HasRun => m.run \in RunIds
    PROVE  /\ WorkerOK([m EXCEPT !.pc = pc])
           /\ WorkerOK([m EXCEPT !.pc = pc, !.overtaken = FALSE])
BY DEF WorkerOK, WorkerRow

LEMMA FinishOK ==
    ASSUME NEW m, WorkerOK(m), m.j \in JobIds, m.run \in RunIds,
           NEW result \in {"ok", "timeout", "err"}
    PROVE  WorkerOK([m EXCEPT !.pc = "finish", !.result = result, !.copy = NoCopy,
                              !.overtaken = FALSE])
<1>1. "finish" \in Control
  BY DEF Control, Attempt
<1>2. result \in {"ok", "timeout", "err", "unfinalized"}
  OBVIOUS
<1> QED BY <1>1, <1>2, NoCopyType DEF WorkerOK, WorkerRow

LEMMA ReloadOK ==
    ASSUME NEW j \in JobIds, NEW result \in {"ok", "timeout", "err", "unfinalized"}
    PROVE  WorkerOK([Resting("reload") EXCEPT !.j = j, !.result = result])
<1> DEFINE m == Resting("reload")
<1>1. m \in WorkerRow /\ m.pc = "reload" /\ m.copy = NoCopy
  BY PcTypes, RestingType DEF Resting
<1>2. j \in 0..MaxJobs
  BY Bounds
<1>3. "reload" \notin HasRun
  BY DEF HasRun, Attempt
<1>4. ASSUME NEW n \in WorkerRow, n.pc = "reload", n.copy = NoCopy
      PROVE  WorkerOK([n EXCEPT !.j = j, !.result = result])
  BY <1>2, <1>3, <1>4, NoCopyType DEF WorkerOK, WorkerRow
<1> QED BY <1>1, <1>4

LEMMA OvertakenOK ==
    ASSUME NEW m, WorkerOK(m), NEW b \in BOOLEAN
    PROVE  WorkerOK([m EXCEPT !.overtaken = b])
BY DEF WorkerOK, WorkerRow

LEMMA HeartbeatEndsOK ==
    ASSUME NEW m, WorkerOK(m), NEW b \in BOOLEAN
    PROVE  WorkerOK([m EXCEPT !.heartbeat = FALSE, !.cancelled = b])
BY DEF WorkerOK, WorkerRow

LEMMA StoppingOK ==
    ASSUME NEW m, WorkerOK(m)
    PROVE  WorkerOK([Resting("stopping") EXCEPT !.j = m.j, !.heartbeat = m.heartbeat])
<1>1. /\ Resting("stopping") \in WorkerRow /\ Resting("stopping").pc = "stopping"
      /\ Resting("stopping").copy = NoCopy /\ "stopping" \in Unclaimed
  BY PcTypes, RestingType DEF Resting, Unclaimed
<1>2. m.j \in 0..MaxJobs /\ m.heartbeat \in BOOLEAN /\ (m.heartbeat => m.j \in JobIds)
  BY DEF WorkerOK, WorkerRow
<1>3. ASSUME NEW n \in WorkerRow, n.pc = "stopping", n.copy = NoCopy
      PROVE  WorkerOK([n EXCEPT !.j = m.j, !.heartbeat = m.heartbeat])
  BY <1>1, <1>2, <1>3, PcTypes, NoCopyType DEF WorkerOK, WorkerRow
<1> QED BY <1>1, <1>3

-----------------------------------------------------------------------------
(***************************************************************************)
(* All workers.                                                            *)
(***************************************************************************)
LEMMA GoesOK ==
    ASSUME WorkersOK(worker), NEW w \in Workers, NEW row, WorkerOK(row), Goes(w, row)
    PROVE  WorkersOK(worker')
BY DEF WorkersOK, WorkerOK, Goes

LEMMA OvertakesOK ==
    ASSUME WorkersOK(worker), NEW S, Overtakes(S)
    PROVE  WorkersOK(worker')
<1>1. ASSUME NEW w \in Workers PROVE WorkerOK([worker[w] EXCEPT !.overtaken = TRUE])
  BY OvertakenOK DEF WorkersOK
<1> QED BY <1>1 DEF WorkersOK, WorkerOK, Overtakes

LEMMA OvertakingOK ==
    ASSUME WorkersOK(worker), NEW w \in Workers, NEW S, Overtaking(w, S)
    PROVE  WorkersOK(worker')
<1>1. ASSUME NEW v \in Workers PROVE WorkerOK([worker[v] EXCEPT !.overtaken = TRUE])
  BY OvertakenOK DEF WorkersOK
<1>2. WorkerOK(Resting("idle"))
  BY RestingOK DEF Unclaimed
<1> QED BY <1>1, <1>2 DEF WorkersOK, WorkerOK, Overtaking

LEMMA RenewedOK ==
    ASSUME NEW W, WorkersOK(W), NEW j
    PROVE  WorkersOK(Renewed(W, j))
<1>1. ASSUME NEW v \in Workers PROVE WorkerOK([W[v] EXCEPT !.expired = @ \ {j}])
  <2>1. WorkerOK(W[v]) /\ W[v].expired \ {j} \in SUBSET JobIds
    BY DEF WorkersOK, WorkerOK, WorkerRow
  <2> QED BY <2>1 DEF WorkerOK, WorkerRow
<1> QED BY <1>1 DEF WorkersOK, WorkerOK, Renewed

LEMMA TablesKept ==
    ASSUME TablesOK, UNCHANGED tables
    PROVE  TablesStep
BY JobsKept DEF TablesOK, TablesStep, TypeOK, ReceiptRows, KeepsReceipts, tables

LEMMA StepBy ==
    ASSUME TablesStep, head' \in [Prs -> Heads], WorkersOK(worker'), AgentsOK'
    PROVE  LoopStep
BY DEF LoopStep, LoopInv, TablesStep, TablesOK

LEMMA AgentGoesOK ==
    ASSUME AgentsOK, NEW w \in Workers, NEW a, AgentOK(a), agent' = [agent EXCEPT ![w] = a]
    PROVE  AgentsOK'
BY DEF AgentsOK, AgentOK

LEMMA NoAgentOK == AgentOK(NoAgent)
BY Bounds DEF AgentOK, AgentRow, NoAgent

LEMMA AgentStepsOK ==
    ASSUME NEW a, AgentOK(a), a.step # "none",
           NEW s \in {"none", "queued", "turn", "checked", "posting"}
    PROVE  AgentOK([a EXCEPT !.step = s])
BY DEF AgentOK, AgentRow

LEMMA ReviewerDeletedOK ==
    ASSUME AgentsOK, NEW w \in Workers, NEW j, ReviewerDeleted(w, j)
    PROVE  AgentsOK'
BY NoAgentOK, AgentGoesOK DEF ReviewerDeleted, AgentsOK

-----------------------------------------------------------------------------
(***************************************************************************)
(* The invariant and receipts, action by action.                           *)
(***************************************************************************)
LEMMA HeadType ==
    ASSUME LoopInv, NEW p \in Prs, NEW h \in 1..head[p]
    PROVE  h \in Heads
BY BoundAssumption DEF LoopInv, Heads

LEMMA ProduceStep ==
    ASSUME LoopInv, NEW p \in Prs, Produce(p)
    PROVE  LoopStep
<1>1. CASE Push(p)
  <2>1. head[p] + 1 \in Heads
    BY <1>1, BoundAssumption DEF LoopInv, Push, Heads
  <2> QED BY <1>1, <2>1, TablesKept, StepBy DEF LoopInv, Push, AgentsOK
<1>2. CASE Signal(p)
  <2>1. PICK h \in 1..head[p], d \in Deliveries \cup {None} :
           Enqueue(p, h, d) /\ Overtakes(Touched(p, h, d)) /\ UNCHANGED <<head, agent>>
    BY <1>2 DEF Signal
  <2>2. TablesStep
    BY <2>1, HeadType, EnqueueType, EnqueueReceipts DEF LoopInv, TablesOK, TablesStep, Enqueue
  <2> QED BY <2>1, <2>2, OvertakesOK, StepBy DEF LoopInv, AgentsOK
<1>3. CASE Discover(p)
  <2>1. PICK h \in 1..head[p] :
           \/ AdmitCandidate(p, h) /\ Overtakes(Touched(p, h, None))
           \/ AdmitWatch(p, h) /\ UNCHANGED worker
    BY <1>3 DEF Discover
  <2>2. TablesStep
    BY <2>1, HeadType, AdmissionType, AdmissionReceipts DEF LoopInv, TablesOK, TablesStep
  <2> QED BY <1>3, <2>1, <2>2, OvertakesOK, StepBy DEF Discover, LoopInv, AgentsOK
<1>4. CASE CheckWatch(p)
  <2>1. PICK h \in 1..head[p] :
           \/ \E d \in Deliveries \cup {None} : EnqueueFromWatch(p, watch[p], h, d)
           \/ ReplaceWatchHead(p, watch[p], h) \/ DeleteWatch(p, watch[p])
    BY <1>4 DEF CheckWatch
  <2>2. TablesStep
    BY <2>1, HeadType, AdmissionType, AdmissionReceipts DEF LoopInv, TablesOK, TablesStep
  <2> QED BY <1>4, <2>2, StepBy DEF CheckWatch, LoopInv, AgentsOK
<1> QED BY <1>1, <1>2, <1>3, <1>4 DEF Produce

LEMMA PoolTypes ==
    ASSUME TypeOK
    PROVE  /\ OpenRuns \in SUBSET RunIds
           /\ OwnedReviewers \subseteq 0..MaxRuns
           /\ \A e, s : ExpiredOpenRuns(e, s) \in SUBSET RunIds
<1>1. \A j \in JobIds : job[j].reviewer \in 0..MaxRuns
  BY DEF TypeOK, JobRow
<1> QED BY <1>1 DEF OpenRuns, OwnedReviewers, ExpiredOpenRuns

\* A pass moves on, or ends.
LEMMA PassStep ==
    ASSUME LoopInv, NEW w \in Workers, worker[w].pc \in Unclaimed,
           NEW pc \in Unclaimed, NEW todo \in SUBSET RunIds, NEW kept \in 0..MaxRuns,
           NEW expired \in SUBSET JobIds,
           \/ Rests(w, pc) \/ To(w, pc)
           \/ Goes(w, [Resting(pc) EXCEPT !.todo = todo, !.kept = kept])
           \/ Goes(w, [Resting(pc) EXCEPT !.expired = expired, !.todo = todo])
           \/ Goes(w, [worker[w] EXCEPT !.todo = todo])
           \/ Goes(w, [worker[w] EXCEPT !.pc = pc, !.todo = todo])
           \/ Goes(w, [worker[w] EXCEPT !.pc = pc, !.kept = kept, !.todo = todo])
    PROVE  WorkersOK(worker')
<1>1. WorkersOK(worker) /\ WorkerOK(worker[w])
  BY DEF LoopInv, WorkersOK
<1> QED BY <1>1, RestingOK, PassOK, PassGoesOK, GoesOK DEF Rests, To

LEMMA PoolStep ==
    ASSUME LoopInv, NEW w \in Workers, Pool(w)
    PROVE  LoopStep
<1>0. /\ TypeOK /\ ReceiptRows /\ head \in [Prs -> Heads] /\ AgentsOK /\ WorkersOK(worker)
      /\ {"off", "startup", "idle", "claim", "rec_terminal", "rec_active", "rec_jobs",
          "rec_done", "repair"} \subseteq Unclaimed
      /\ 0 \in 0..MaxRuns /\ {} \in SUBSET RunIds /\ {} \in SUBSET JobIds
  BY Bounds DEF LoopInv, TablesOK, Unclaimed, Recovering
<1>1. CASE Start(w)
  <2>1. PICK k \in {0} \cup OwnedReviewers :
           Goes(w, [Resting("startup") EXCEPT !.todo = OpenRuns, !.kept = k])
    BY <1>1 DEF Start
  <2>2. WorkersOK(worker')
    BY <1>0, <2>1, PoolTypes, PassOK, GoesOK
  <2>3. ASSUME NEW j \in JobIds
        PROVE  /\ [job[j] EXCEPT !.owner = Gone] \in JobRow
               /\ [job[j] EXCEPT !.owner = Gone].receipt = job[j].receipt
               /\ [job[j] EXCEPT !.owner = Gone].status = job[j].status
    <3>1. job[j] \in JobRow /\ Gone \in Owners
      BY <1>0, OwnersAssumption DEF TypeOK
    <3> QED BY <3>1 DEF JobRow
  <2>4. job' = [j \in JobIds |->
                   IF job[j].owner = w THEN [job[j] EXCEPT !.owner = Gone] ELSE job[j]]
    BY <1>1 DEF Start
  <2>5. ReceiptRows' /\ KeepsReceipts /\ job' \in [JobIds -> JobRow]
    BY <1>0, <2>3, <2>4 DEF ReceiptRows, KeepsReceipts, TypeOK
  <2>6. TablesStep
    BY <1>0, <1>1, <2>5 DEF Start, TablesStep, TablesOK, TypeOK
  <2> QED BY <1>0, <1>1, <2>2, <2>6, StepBy DEF Start, AgentsOK
<1>2. CASE FinishListed(w)
  <2>1. PICK r \in Listed(w) : FinishRun(r) /\ Goes(w, [worker[w] EXCEPT !.todo = @ \ {r}])
    BY <1>2 DEF FinishListed
  <2>2. worker[w].todo \in SUBSET RunIds /\ worker[w].pc \in Unclaimed
    BY <1>0, <1>2 DEF WorkersOK, WorkerRow, FinishListed
  <2>3. r \in RunIds /\ RunExists(r)
    BY <2>1, <2>2 DEF Listed, Finishable, CanFinishRun
  <2>4. TablesStep
    BY <1>0, <2>1, <2>3, RunStepType, RunStepReceipts DEF TablesStep, TablesOK
  <2>5. WorkersOK(worker')
    BY <1>0, <2>1, <2>2, PassStep
  <2> QED BY <1>0, <1>2, <2>4, <2>5, StepBy DEF FinishListed, AgentsOK
<1>3. CASE Started(w) \/ Recover(w) \/ RecoverActiveRuns(w) \/ Repair(w) \/ Repaired(w)
           \/ NothingDue(w)
  <2>1. worker[w].pc \in Unclaimed
    BY <1>0, <1>3 DEF Started, Recover, RecoverActiveRuns, Repair, Repaired, NothingDue
  <2>2. {j \in JobIds : ~job[j].live} \in SUBSET JobIds
    OBVIOUS
  <2>3. \A k : {r \in OpenRuns : k = 0 \/ run[r].reviewer # k} \in SUBSET RunIds
    BY <1>0, PoolTypes
  <2>4. WorkersOK(worker')
    <3>1. CASE Started(w)
      BY <1>0, <2>1, <3>1, PassStep DEF Started
    <3>2. CASE Recover(w)
      BY <1>0, <2>1, <2>2, <3>2, PassStep, PoolTypes DEF Recover
    <3>3. CASE RecoverActiveRuns(w)
      BY <1>0, <2>1, <3>3, PassStep, PoolTypes DEF RecoverActiveRuns
    <3>4. CASE Repair(w)
      <4>1. PICK k \in {0} \cup OwnedReviewers :
               Goes(w, [worker[w] EXCEPT !.pc = "repair", !.kept = k,
                           !.todo = {r \in OpenRuns : k = 0 \/ run[r].reviewer # k}])
        BY <3>4 DEF Repair
      <4>2. k \in 0..MaxRuns
        BY <1>0, PoolTypes
      <4> QED BY <1>0, <2>1, <2>3, <4>1, <4>2, PassStep
    <3>5. CASE Repaired(w) \/ NothingDue(w)
      BY <1>0, <2>1, <3>5, PassStep DEF Repaired, NothingDue
    <3> QED BY <1>3, <3>1, <3>2, <3>3, <3>4, <3>5
  <2>5. AgentsOK'
    <3>1. CASE UNCHANGED agent
      BY <1>0, <3>1 DEF AgentsOK
    <3>2. CASE \E a \in {agent[w], NoAgent} : agent' = [agent EXCEPT ![w] = a]
      BY <1>0, <3>2, NoAgentOK, AgentGoesOK DEF AgentsOK
    <3> QED BY <1>3, <3>1, <3>2 DEF Started, Recover, RecoverActiveRuns, Repair, Repaired,
               NothingDue
  <2>6. UNCHANGED <<tables, head>>
    BY <1>3 DEF Started, Recover, RecoverActiveRuns, Repair, Repaired, NothingDue
  <2> QED BY <1>0, <2>4, <2>5, <2>6, TablesKept, StepBy DEF TablesOK
<1>4. CASE RecoverOwnership(w) \/ RecoverExpiredJobs(w)
  <2>1. worker[w].pc \in Unclaimed /\ (To(w, "rec_jobs") \/ To(w, "rec_done"))
    BY <1>0, <1>4 DEF RecoverOwnership, RecoverExpiredJobs
  <2>2. WorkersOK(worker')
    BY <1>0, <2>1, PassStep
  <2>3. TablesStep
    BY <1>0, <1>4, RecoveryType, RecoveryReceipts
       DEF RecoverOwnership, RecoverExpiredJobs, TablesStep, TablesOK
  <2> QED BY <1>0, <1>4, <2>2, <2>3, StepBy DEF RecoverOwnership, RecoverExpiredJobs, AgentsOK
<1>5. CASE ClaimJob(w)
  <2>1. PICK j \in JobIds :
           /\ Claim(j, w, Expired(w))
           /\ worker' = Renewed([worker EXCEPT ![w] =
                 [Resting(IF job[j].intent THEN "reconcile" ELSE "preflight") EXCEPT
                     !.j = j, !.copy = job'[j], !.heartbeat = TRUE]], j)
    BY <1>5 DEF ClaimJob
  <2>2. TablesStep /\ ~job'[j].receipt
    BY <1>0, <2>1, OwnersAssumption, ClaimType, ClaimReceipts DEF TablesStep, TablesOK
  <2>3. job'[j] \in JobRow
    BY <2>2 DEF TablesStep, TablesOK, TypeOK
  <2> DEFINE pc == IF job[j].intent THEN "reconcile" ELSE "preflight"
             m == [Resting(pc) EXCEPT !.j = j, !.copy = job'[j], !.heartbeat = TRUE]
  <2>4. pc \in Control /\ pc \notin HasRun /\ pc # "finish_owned"
    BY DEF Control, Reconcile, Preflight, HasRun, Attempt
  <2>5. WorkerOK(m)
    <3>1. Resting(pc) \in WorkerRow /\ Resting(pc).pc = pc
      BY <2>4, RestingType DEF Resting
    <3> HIDE DEF pc
    <3>2. ASSUME NEW n \in WorkerRow, n.pc = pc, NEW c \in JobRow, ~c.receipt
          PROVE  WorkerOK([n EXCEPT !.j = j, !.copy = c, !.heartbeat = TRUE])
      BY <2>4, <3>2, Bounds DEF WorkerOK, WorkerRow
    <3> QED BY <2>2, <2>3, <3>1, <3>2
  <2> HIDE DEF m
  <2>6. WorkersOK([worker EXCEPT ![w] = m])
    BY <1>0, <2>5 DEF WorkersOK, WorkerOK
  <2>7. WorkersOK(worker')
    BY <2>1, <2>6, RenewedOK DEF m
  <2> QED BY <1>0, <1>5, <2>2, <2>7, StepBy DEF ClaimJob, AgentsOK
<1> QED BY <1>1, <1>2, <1>3, <1>4, <1>5 DEF Pool

\* What may become of a row in memory.
LEMMA CopyOutcomes ==
    ASSUME NEW c \in JobRow, ~c.receipt
    PROVE  /\ \A s \in Terminal : Finished(c, s) \in JobRow /\ ~Finished(c, s).receipt
           /\ \A d \in Failures(c) : d \in JobRow /\ ~d.receipt
           /\ BeginReconciliation(c) \in JobRow /\ ~BeginReconciliation(c).receipt
           /\ "skipped" \in Terminal /\ "superseded" \in Terminal /\ "failed" \in Terminal
           /\ "succeeded" \in Terminal
<1>1. Unleased(c) \in JobRow /\ ~Unleased(c).receipt
  BY UnleasedType DEF Unleased, JobRow
<1>2. \A s \in Terminal : Finished(c, s) \in JobRow /\ ~Finished(c, s).receipt
  BY <1>1, FinishedType DEF Finished, JobRow
<1>3. ScheduleRetry(c) \in JobRow /\ ~ScheduleRetry(c).receipt
  BY <1>1, WaitingType DEF ScheduleRetry, JobRow
<1>4. BeginReconciliation(c) \in JobRow /\ ~BeginReconciliation(c).receipt
  BY <1>1, WaitingType DEF BeginReconciliation, JobRow
<1> QED BY <1>2, <1>3, <1>4 DEF Failures, Terminal

LEMMA PreflightStep ==
    ASSUME LoopInv, NEW w \in Workers,
           \/ PreflightContinues(w) \/ PreflightRejects(w) \/ PreflightHeadChanged(w)
           \/ PreflightCiPending(w) \/ PreflightSaves(w) \/ Replace(w)
    PROVE  LoopStep
<1> DEFINE m == worker[w]
<1>0. /\ TypeOK /\ ReceiptRows /\ head \in [Prs -> Heads] /\ AgentsOK /\ WorkersOK(worker)
      /\ WorkerOK(m) /\ m.pc \in Preflight
  BY DEF LoopInv, TablesOK, WorkersOK, PreflightContinues, PreflightRejects,
     PreflightHeadChanged, PreflightCiPending, PreflightSaves, Replace, Preflight
<1>1. m.pc \notin Unclaimed /\ m.pc # "finish_owned"
  BY <1>0 DEF Preflight, Unclaimed, Recovering
<1>2. m.j \in JobIds /\ m.copy \in JobRow /\ ~m.copy.receipt
  BY <1>0, <1>1 DEF WorkerOK, WorkerRow
<1>3. AgentsOK'
  BY <1>0 DEF AgentsOK, PreflightContinues, PreflightRejects,
     PreflightHeadChanged, PreflightCiPending, PreflightSaves, Replace
<1>4. head' = head
  BY DEF PreflightContinues, PreflightRejects,
     PreflightHeadChanged, PreflightCiPending, PreflightSaves, Replace
<1>5. WorkerOK(Resting("idle")) /\ WorkerOK(Resting("off"))
  BY RestingOK DEF Unclaimed
<1>6. ASSUME NEW c \in JobRow, ~c.receipt, NEW pc \in {"begin", "preflight_save", "preflight_replace"}
      PROVE  WorkerOK([m EXCEPT !.pc = pc, !.copy = c, !.overtaken = FALSE])
  <2>1. pc \in Control /\ pc # "finish_owned" /\ pc \notin HasRun
    BY DEF Control, Attempt, Preflight, HasRun
  <2> QED BY <1>0, <1>2, <1>6, <2>1, SaveOK
<1>7. CASE PreflightContinues(w) \/ PreflightRejects(w) \/ PreflightHeadChanged(w)
  <2>1. \A c \in Failures(m.copy) \cup {Finished(m.copy, "skipped"), Finished(m.copy, "superseded")} :
           c \in JobRow /\ ~c.receipt
    BY <1>2, CopyOutcomes
  <2>2. \E c \in JobRow, pc \in {"begin", "preflight_save", "preflight_replace"} :
           ~c.receipt /\ Save(w, pc, c)
    BY <1>2, <1>7, <2>1 DEF PreflightContinues, PreflightRejects, PreflightHeadChanged
  <2>3. WorkersOK(worker')
    BY <1>0, <1>6, <2>2, GoesOK DEF Save
  <2>4. UNCHANGED tables
    BY <1>7 DEF PreflightContinues, PreflightRejects, PreflightHeadChanged
  <2> QED BY <1>0, <1>3, <1>4, <2>3, <2>4, TablesKept, StepBy DEF TablesOK
<1>8. CASE PreflightCiPending(w)
  <2>1. CASE /\ CanSkipForCi(m.j, w, m.copy.delivery) /\ SkipForCiPending(m.j)
             /\ Rests(w, "idle")
    <3>1. TablesStep
      BY <1>0, <1>2, <2>1, SkipForCiPendingType, PreparingReceipts
         DEF CanSkipForCi, TablesStep, TablesOK
    <3> QED BY <1>0, <1>3, <1>4, <1>5, <2>1, <3>1, GoesOK, StepBy DEF Rests
  <2>2. CASE /\ job[m.j].status = "preparing"
             /\ Goes(w, [m EXCEPT !.copy = job[m.j]]) /\ UNCHANGED tables
    <3>1. job[m.j] \in JobRow /\ ~job[m.j].receipt
      BY <1>0, <1>2, <2>2 DEF TypeOK, ReceiptRows, Done
    <3>2. WorkerOK([m EXCEPT !.copy = job[m.j]])
      BY <1>0, <1>1, <3>1 DEF WorkerOK, WorkerRow
    <3> QED BY <1>0, <1>3, <1>4, <2>2, <3>2, GoesOK, TablesKept, StepBy DEF TablesOK
  <2>3. CASE Rests(w, "off") /\ UNCHANGED tables
    BY <1>0, <1>3, <1>4, <1>5, <2>3, GoesOK, TablesKept, StepBy DEF Rests, TablesOK
  <2> QED BY <1>8, <2>1, <2>2, <2>3 DEF PreflightCiPending
<1>9. CASE PreflightSaves(w)
  <2>1. TablesStep
    BY <1>0, <1>2, <1>9, SaveClaimedType, SaveReceipts DEF PreflightSaves, TablesStep, TablesOK
  <2>2. WorkerOK([m EXCEPT !.pc = "replace"])
    <3>1. "replace" \in Control /\ "replace" \notin HasRun
      BY DEF Control, Preflight, HasRun, Attempt
    <3> QED BY <1>0, <1>1, <1>2, <3>1, ToOK
  <2>3. WorkersOK(worker')
    BY <1>0, <1>5, <1>9, <2>2, GoesOK DEF PreflightSaves, To, Rests
  <2> QED BY <1>0, <1>3, <1>4, <2>1, <2>3, StepBy
<1>10. CASE Replace(w)
  <2> DEFINE c == m.copy
  <2>1. CASE \E h \in (c.head + 1)..head[c.pr] :
                Enqueue(c.pr, h, None) /\ Overtaking(w, Touched(c.pr, h, None))
    <3>1. PICK h \in (c.head + 1)..head[c.pr] :
                Enqueue(c.pr, h, None) /\ Overtaking(w, Touched(c.pr, h, None))
      BY <2>1
    <3>2. c.pr \in Prs /\ h \in Heads
      <4>1. c.pr \in Prs /\ c.head \in Heads /\ head[c.pr] \in Heads
        BY <1>0, <1>2 DEF JobRow
      <4> QED BY <4>1, BoundAssumption DEF Heads
    <3>3. TablesStep
      BY <1>0, <3>1, <3>2, EnqueueType, EnqueueReceipts DEF TablesOK, TablesStep, Enqueue
    <3> QED BY <1>0, <1>3, <1>4, <3>1, <3>3, OvertakingOK, StepBy
  <2>2. CASE UNCHANGED tables /\ Rests(w, "idle")
    BY <1>0, <1>3, <1>4, <1>5, <2>2, GoesOK, TablesKept, StepBy DEF Rests, TablesOK
  <2> QED BY <1>10, <2>1, <2>2 DEF Replace
<1> QED BY <1>7, <1>8, <1>9, <1>10

LEMMA AttemptStep ==
    ASSUME LoopInv, NEW w \in Workers,
           \/ Begin(w) \/ SaveWarning(w) \/ Prepared(w) \/ SaveRunning(w) \/ SaveRunStatus(w)
           \/ StartTurn(w) \/ EndTurn(w) \/ FinishAttempt(w)
           \/ AttemptFails(w) \/ AttemptBreaks(w) \/ FinishFails(w)
    PROVE  LoopStep
<1> DEFINE m == worker[w]
<1>0. /\ TypeOK /\ ReceiptRows /\ head \in [Prs -> Heads] /\ AgentsOK /\ WorkersOK(worker)
      /\ WorkerOK(m) /\ m.pc \in Attempt
  BY DEF LoopInv, TablesOK, WorkersOK, Attempt, Begin, SaveWarning, Prepared, SaveRunning,
     SaveRunStatus, StartTurn, EndTurn, FinishAttempt, AttemptFails, AttemptBreaks, FinishFails
<1>1. m.pc \notin Unclaimed /\ m.pc # "finish_owned" /\ Attempt \subseteq Control
      /\ "finish_owned" \notin Attempt /\ "reload" \notin Attempt
  BY <1>0, PcTypes DEF Attempt, Unclaimed, Recovering
<1>2. /\ m.j \in JobIds /\ m.copy \in JobRow /\ ~m.copy.receipt
      /\ m.pc # "begin" => m.run \in RunIds
      /\ m.result \in {"ok", "timeout", "err", "unfinalized"}
      /\ m.overtaken \in BOOLEAN
  BY <1>0, <1>1 DEF WorkerOK, WorkerRow, HasRun
<1>3. \A r \in {"ok", "timeout", "err", "unfinalized"} : Reloads(w, r) => WorkersOK(worker')
  BY <1>0, <1>2, ReloadOK, GoesOK DEF Reloads
<1>4. \A r \in {"ok", "timeout", "err"} :
         m.pc # "begin" /\ Finishes(w, r) => WorkersOK(worker')
  BY <1>0, <1>2, FinishOK, GoesOK DEF Finishes
<1>5. \A pc \in Attempt \ {"begin"} : m.pc # "begin" =>
         /\ WorkerOK([m EXCEPT !.pc = pc])
         /\ WorkerOK([m EXCEPT !.pc = pc, !.overtaken = FALSE])
  BY <1>0, <1>1, <1>2, ToOK
<1>6. {"warning_save", "prepare", "run_status", "turn_start", "turn", "finish", "running_save"}
      \subseteq Attempt \ {"begin"}
  BY DEF Attempt
<1>7. CASE Begin(w)
  <2>1. CASE CanBegin(m.j, w)
    <3> DEFINE pc == IF m.cancelled THEN "finish"
                     ELSE IF job[m.j].reviewer = 0 THEN "warning_save" ELSE "prepare"
               res == IF m.cancelled THEN "err" ELSE "ok"
               c == Begun(job[m.j], NextRun)
    <3>1. /\ BeginAttempt(m.j, m.overtaken) /\ UNCHANGED <<head, agent>>
          /\ Goes(w, [m EXCEPT !.run = NextRun, !.copy = c, !.overtaken = FALSE,
                               !.pc = pc, !.result = res])
      BY <1>7, <2>1 DEF Begin
    <3>2. job[m.j].status = "preparing" /\ NextRun \in RunIds /\ NextRun \in 0..MaxRuns
      BY <2>1, <3>1, FreshIdType, Bounds DEF CanBegin, BeginAttempt, FreeRuns
    <3>3. TablesStep /\ ~c.receipt
      BY <1>0, <1>2, <2>1, <3>1, <3>2, BeginAttemptType, PreparingReceipts
         DEF TablesStep, TablesOK
    <3>4. c \in JobRow
      BY <1>0, <1>2, <2>1, <3>2, BegunType DEF TypeOK, CanBegin
    <3>5. pc \in Control /\ pc # "finish_owned" /\ res \in {"ok", "timeout", "err", "unfinalized"}
      BY <1>1, <1>6
    <3> HIDE DEF pc, c, res
    <3>6. WorkerOK([m EXCEPT !.run = NextRun, !.copy = c, !.overtaken = FALSE,
                             !.pc = pc, !.result = res])
      BY <1>0, <1>2, <3>2, <3>3, <3>4, <3>5 DEF WorkerOK, WorkerRow
    <3>7. WorkersOK(worker')
      BY <1>0, <3>1, <3>6, GoesOK
    <3> QED BY <1>0, <3>1, <3>3, <3>7, StepBy DEF AgentsOK
  <2>2. CASE ~CanBegin(m.j, w)
    <3>1. Reloads(w, "err") /\ UNCHANGED <<tables, head, agent>>
      BY <1>7, <2>2 DEF Begin
    <3> QED BY <1>0, <1>3, <3>1, TablesKept, StepBy DEF TablesOK, AgentsOK
  <2> QED BY <2>1, <2>2
<1>8. CASE SaveWarning(w) \/ SaveRunning(w)
  <2>1. /\ SaveClaimed(m.j, w, m.copy, m.overtaken) /\ UNCHANGED <<head, agent>>
        /\ m.pc # "begin"
        /\ \/ \E pc \in {"prepare", "run_status"} : Goes(w, [m EXCEPT !.pc = pc, !.overtaken = FALSE])
           \/ Finishes(w, "err") \/ Reloads(w, "err")
    BY <1>8 DEF SaveWarning, SaveRunning
  <2>2. TablesStep
    BY <1>0, <1>2, <2>1, SaveClaimedType, SaveReceipts DEF TablesStep, TablesOK
  <2>3. WorkersOK(worker')
    BY <1>0, <1>3, <1>4, <1>5, <1>6, <2>1, GoesOK
  <2> QED BY <1>0, <2>1, <2>2, <2>3, StepBy DEF AgentsOK
<1>9. CASE Prepared(w)
  <2>1. PICK a : /\ Save(w, "running_save", StartRunning(m.copy, a))
                 /\ \/ a = m.copy.reviewer \/ a = m.run
                    \/ \E q \in RunIds : a = run[q].reviewer
    BY <1>9 DEF Prepared
  <2>2. a \in 0..MaxRuns /\ m.run \in RunIds
    BY <1>0, <1>2, <1>9, <2>1, Bounds DEF Prepared, TypeOK, RunRow, JobRow
  <2>3. StartRunning(m.copy, a) \in JobRow /\ ~StartRunning(m.copy, a).receipt
    BY <1>2, <2>2 DEF StartRunning, JobRow, Active, Executing
  <2>4. WorkersOK(worker')
    BY <1>0, <1>1, <1>2, <1>6, <2>1, <2>2, <2>3, SaveOK, GoesOK DEF Save
  <2> QED BY <1>0, <1>9, <2>4, TablesKept, StepBy DEF Prepared, TablesOK, AgentsOK
<1>10. CASE SaveRunStatus(w)
  <2>1. /\ SaveRunRunning(m.run, m.copy.reviewer) /\ To(w, "turn_start")
        /\ UNCHANGED <<head, agent>> /\ m.pc # "begin"
    BY <1>10 DEF SaveRunStatus
  <2>2. m.copy.reviewer \in 0..MaxRuns
    BY <1>2 DEF JobRow
  <2>3. TablesStep
    BY <1>0, <1>2, <2>1, <2>2, RunStepType, RunStepReceipts DEF TablesStep, TablesOK
  <2>4. WorkersOK(worker')
    BY <1>0, <1>5, <1>6, <2>1, GoesOK DEF To
  <2> QED BY <1>0, <2>1, <2>3, <2>4, StepBy DEF AgentsOK
<1>11. CASE StartTurn(w)
  <2>1. PICK r \in {m.run, 0} :
           agent' = [agent EXCEPT ![w] = [j |-> m.j, reviewer |-> m.copy.reviewer,
                                          run |-> r, step |-> "queued"]]
    BY <1>11 DEF StartTurn
  <2>2. AgentOK([j |-> m.j, reviewer |-> m.copy.reviewer, run |-> r, step |-> "queued"])
    BY <1>0, <1>2, Bounds DEF AgentOK, AgentRow, WorkerOK, WorkerRow, JobRow
  <2>3. AgentsOK'
    BY <1>0, <2>1, <2>2, AgentGoesOK
  <2>4. WorkerOK([m EXCEPT !.pc = "turn", !.copy = NoCopy])
    BY <1>0, <1>1, <1>2, <1>6, <1>11, NoCopyType DEF StartTurn, WorkerOK, WorkerRow
  <2>5. m.pc # "begin" /\ UNCHANGED <<tables, head>>
        /\ (Goes(w, [m EXCEPT !.pc = "turn", !.copy = NoCopy]) \/ Finishes(w, "err"))
    BY <1>11 DEF StartTurn
  <2>6. WorkersOK(worker')
    BY <1>0, <1>4, <2>4, <2>5, GoesOK
  <2> QED BY <1>0, <2>3, <2>5, <2>6, TablesKept, StepBy DEF TablesOK
<1>12. CASE EndTurn(w) \/ AttemptFails(w)
  <2>1. /\ m.pc # "begin" /\ \E r \in {"ok", "timeout", "err"} : Finishes(w, r)
        /\ UNCHANGED <<tables, head, agent>>
    BY <1>12 DEF EndTurn, AttemptFails
  <2> QED BY <1>0, <1>4, <2>1, TablesKept, StepBy DEF TablesOK, AgentsOK
<1>13. CASE FinishAttempt(w)
  <2>1. UNCHANGED <<head, agent>> /\ m.pc = "finish"
        /\ \/ RunExists(m.run) /\ FinishRun(m.run) /\ Reloads(w, m.result)
           \/ Reloads(w, "unfinalized") /\ UNCHANGED tables
    BY <1>13 DEF FinishAttempt, Finishable, CanFinishRun
  <2>2. TablesStep
    BY <1>0, <1>2, <2>1, RunStepType, RunStepReceipts, TablesKept DEF TablesStep, TablesOK
  <2> QED BY <1>0, <1>2, <1>3, <2>1, <2>2, StepBy DEF AgentsOK
<1>14. CASE AttemptBreaks(w) \/ FinishFails(w)
  <2>1. UNCHANGED <<tables, head, agent>> /\ (Reloads(w, "err") \/ Reloads(w, "unfinalized"))
    BY <1>14 DEF AttemptBreaks, FinishFails
  <2> QED BY <1>0, <1>3, <2>1, TablesKept, StepBy DEF TablesOK, AgentsOK
<1> QED BY <1>7, <1>8, <1>9, <1>10, <1>11, <1>12, <1>13, <1>14

LEMMA AfterStep ==
    ASSUME LoopInv, NEW w \in Workers,
           \/ Reload(w) \/ FinishOwned(w) \/ FinalSave(w) \/ PlainSave(w)
           \/ ReconcileFinds(w) \/ ReconcileMisses(w) \/ ReconcileSaves(w)
    PROVE  LoopStep
<1> DEFINE m == worker[w]
           row == job[m.j]
<1>0. /\ TypeOK /\ ReceiptRows /\ head \in [Prs -> Heads] /\ AgentsOK /\ WorkersOK(worker)
      /\ WorkerOK(m)
      /\ m.pc \in {"reload", "finish_owned", "final_save", "plain_save"} \cup Reconcile
  BY DEF LoopInv, TablesOK, WorkersOK, Reload, FinishOwned, FinalSave, PlainSave,
     ReconcileFinds, ReconcileMisses, ReconcileSaves, Reconcile
<1>1. m.pc \notin Unclaimed /\ m.pc \in Control
  BY <1>0, PcTypes DEF Unclaimed, Recovering, Reconcile
<1>2. m.j \in JobIds /\ row \in JobRow /\ m.copy \in JobRow
  BY <1>0, <1>1 DEF WorkerOK, WorkerRow, TypeOK
<1>3. WorkerOK(Resting("idle")) /\ WorkerOK(Resting("off"))
  BY RestingOK DEF Unclaimed
<1>4. Rests(w, "idle") \/ Rests(w, "off") => WorkersOK(worker')
  BY <1>0, <1>3, GoesOK DEF Rests
<1>5. ASSUME NEW c \in JobRow, ~c.receipt, NEW pc \in {"final_save", "plain_save", "reconcile_save"},
             Save(w, pc, c)
      PROVE  WorkersOK(worker')
  <2>1. pc \in Control /\ pc # "finish_owned" /\ pc \notin HasRun
    BY PcTypes DEF Reconcile, HasRun, Attempt
  <2> QED BY <1>0, <1>2, <1>5, <2>1, SaveOK, GoesOK DEF Save
<1>6. \A c \in {m.copy, row} : ~c.receipt =>
         /\ \A s \in Terminal : Finished(c, s) \in JobRow /\ ~Finished(c, s).receipt
         /\ \A d \in Failures(c) : d \in JobRow /\ ~d.receipt
         /\ BeginReconciliation(c) \in JobRow /\ ~BeginReconciliation(c).receipt
         /\ "failed" \in Terminal /\ "succeeded" \in Terminal /\ "superseded" \in Terminal
  BY <1>2, CopyOutcomes
<1>7. UNCHANGED agent \/ ReviewerDeleted(w, m.j) => AgentsOK'
  BY <1>0, ReviewerDeletedOK DEF AgentsOK
<1>8. CASE Reload(w)
  <2>1. UNCHANGED <<tables, head>> /\ (UNCHANGED agent \/ ReviewerDeleted(w, m.j))
    BY <1>8 DEF Reload
  <2>2. WorkersOK(worker')
    <3>1. CASE Rests(w, "idle")
      BY <1>4, <3>1
    <3>2. CASE row.receipt /\ row.run # 0 /\ Save(w, "finish_owned", row)
      <4>1. row.run \in RunIds /\ "finish_owned" \in Control /\ "finish_owned" \notin HasRun
        BY <1>2, <3>2, PcTypes DEF JobRow, RunIds
      <4>2. WorkerOK([m EXCEPT !.pc = "finish_owned", !.copy = row, !.overtaken = FALSE])
        BY <1>0, <1>2, <4>1, PcTypes DEF WorkerOK, WorkerRow
      <4> QED BY <1>0, <3>2, <4>2, GoesOK DEF Save
    <3>3. CASE ~row.receipt /\ Save(w, "plain_save", [row EXCEPT !.owner = None, !.live = FALSE])
      <4>1. [row EXCEPT !.owner = None, !.live = FALSE] \in JobRow
            /\ ~[row EXCEPT !.owner = None, !.live = FALSE].receipt
        BY <1>2, <3>3 DEF JobRow
      <4> QED BY <1>5, <3>3, <4>1
    <3>4. CASE ~row.receipt /\ \E c \in {BeginReconciliation(row), Finished(row, "failed")} :
                                  Save(w, "plain_save", c)
      BY <1>5, <1>6, <3>4
    <3>5. CASE ~row.receipt /\ \E c \in Outcomes(row, m.result) : Save(w, "final_save", c)
      <4>1. \A c \in Outcomes(row, m.result) : c \in JobRow /\ ~c.receipt
        BY <1>6, <3>5 DEF Outcomes
      <4> QED BY <1>5, <3>5, <4>1
    <3> QED BY <1>8, <3>1, <3>2, <3>3, <3>4, <3>5 DEF Reload
  <2> QED BY <1>0, <1>7, <2>1, <2>2, TablesKept, StepBy DEF TablesOK
<1>9. CASE FinishOwned(w)
  <2>1. /\ FinishRun(m.copy.run) /\ RunExists(m.copy.run) /\ m.pc = "finish_owned"
        /\ Rests(w, "idle") \/ Rests(w, "off")
        /\ UNCHANGED agent \/ ReviewerDeleted(w, m.j)
        /\ UNCHANGED head
    BY <1>9 DEF FinishOwned, CanFinishOwned, Finishable, CanFinishRun
  <2>2. TablesStep
    BY <1>0, <2>1, RunStepType, RunStepReceipts DEF WorkerOK, TablesStep, TablesOK
  <2> QED BY <1>0, <1>4, <1>7, <2>1, <2>2, StepBy
<1>10. CASE FinalSave(w) \/ PlainSave(w) \/ ReconcileSaves(w)
  <2>1. /\ SaveClaimed(m.j, w, m.copy, m.overtaken) /\ Rests(w, "idle") /\ UNCHANGED head
        /\ UNCHANGED agent \/ ReviewerDeleted(w, m.j)
        /\ m.pc # "finish_owned"
    BY <1>10 DEF FinalSave, PlainSave, ReconcileSaves
  <2>2. TablesStep
    BY <1>0, <1>2, <2>1, SaveClaimedType, SaveReceipts DEF WorkerOK, TablesStep, TablesOK
  <2> QED BY <1>0, <1>4, <1>7, <2>1, <2>2, StepBy
<1>11. CASE ReconcileFinds(w)
  <2>1. TablesStep
    BY <1>0, <1>2, <1>11, SubmissionType, SubmissionReceipts
       DEF ReconcileFinds, TablesStep, TablesOK
  <2> QED BY <1>0, <1>7, <1>11, <2>1, OvertakingOK, StepBy DEF ReconcileFinds
<1>12. CASE ReconcileMisses(w)
  <2>1. ~m.copy.receipt
    BY <1>0, <1>12 DEF ReconcileMisses, WorkerOK
  <2>2. WorkersOK(worker')
    BY <1>5, <1>6, <1>12, <2>1 DEF ReconcileMisses
  <2> QED BY <1>0, <1>12, <2>2, TablesKept, StepBy DEF ReconcileMisses, TablesOK, AgentsOK
<1> QED BY <1>8, <1>9, <1>10, <1>11, <1>12

LEMMA BeatStep ==
    ASSUME LoopInv, NEW w \in Workers, Beat(w) \/ HeartbeatFails(w)
    PROVE  LoopStep
<1> DEFINE m == worker[w]
<1>0. /\ TypeOK /\ ReceiptRows /\ head \in [Prs -> Heads] /\ AgentsOK /\ WorkersOK(worker)
      /\ WorkerOK(m) /\ m.heartbeat
  BY DEF LoopInv, TablesOK, WorkersOK, Beat, Heartbeat, HeartbeatLost, HeartbeatFails
<1>1. m.j \in JobIds /\ m.cancelled \in BOOLEAN
  BY <1>0 DEF WorkerOK, WorkerRow
<1>2. CASE Heartbeat(w)
  <2>1. PICK V : worker' = Renewed([v \in Workers |->
                                IF v \in V THEN [worker[v] EXCEPT !.overtaken = TRUE]
                                ELSE worker[v]], m.j)
    BY <1>2 DEF Heartbeat
  <2>2. WorkersOK([v \in Workers |-> IF v \in V THEN [worker[v] EXCEPT !.overtaken = TRUE]
                                     ELSE worker[v]])
    <3>1. ASSUME NEW v \in Workers PROVE WorkerOK([worker[v] EXCEPT !.overtaken = TRUE])
      BY <1>0, OvertakenOK DEF WorkersOK
    <3> QED BY <1>0, <3>1 DEF WorkersOK, WorkerOK
  <2>3. TablesStep
    BY <1>0, <1>1, <1>2, LeaseType, LeaseReceipts DEF Heartbeat, TablesStep, TablesOK
  <2> QED BY <1>0, <1>2, <2>1, <2>2, <2>3, RenewedOK, StepBy DEF Heartbeat, AgentsOK
<1>3. CASE HeartbeatLost(w) \/ HeartbeatFails(w)
  <2>1. \E b \in BOOLEAN : Goes(w, [m EXCEPT !.heartbeat = FALSE, !.cancelled = b])
    <3>1. CASE HeartbeatFails(w)
      BY <3>1 DEF HeartbeatFails
    <3>2. CASE HeartbeatLost(w)
      <4> DEFINE b == m.cancelled \/ ~Stored(m.j) \/ ~job[m.j].receipt
      <4>1. Goes(w, [m EXCEPT !.heartbeat = FALSE, !.cancelled = b])
        BY <3>2 DEF HeartbeatLost
      <4>2. b \in BOOLEAN
        BY <1>1 DEF Stored
      <4> QED BY <4>1, <4>2
    <3> QED BY <1>3, <3>1, <3>2
  <2>2. WorkersOK(worker')
    BY <1>0, <2>1, HeartbeatEndsOK, GoesOK
  <2> QED BY <1>0, <1>3, <2>2, TablesKept, StepBy DEF HeartbeatLost, HeartbeatFails, TablesOK, AgentsOK
<1> QED BY <1>2, <1>3 DEF Beat

LEMMA FailStep ==
    ASSUME LoopInv, NEW w \in Workers, Fail(w)
    PROVE  LoopStep
<1>0. /\ TypeOK /\ ReceiptRows /\ head \in [Prs -> Heads] /\ AgentsOK /\ WorkersOK(worker)
      /\ WorkerOK(Resting("idle")) /\ WorkerOK(Resting("off"))
  BY RestingOK DEF LoopInv, TablesOK, Unclaimed
<1>1. CASE HeartbeatFails(w)
  BY <1>1, BeatStep
<1>2. CASE AttemptFails(w) \/ AttemptBreaks(w) \/ FinishFails(w)
  BY <1>2, AttemptStep
<1>3. CASE PassFails(w) \/ PreflightCancelled(w) \/ FinishOwnedFails(w) \/ SaveFails(w)
           \/ ReconcileCancelled(w) \/ Crash(w)
  <2>1. UNCHANGED <<tables, head>> /\ (Rests(w, "idle") \/ Rests(w, "off"))
    BY <1>3 DEF PassFails, PreflightCancelled, FinishOwnedFails, SaveFails,
       ReconcileCancelled, Crash
  <2>2. AgentsOK'
    <3>1. CASE agent' = agent
      BY <1>0, <3>1 DEF AgentsOK
    <3>2. CASE agent' = [agent EXCEPT ![w] = NoAgent]
      BY <1>0, <3>2, NoAgentOK, AgentGoesOK
    <3> QED BY <1>3, <3>1, <3>2 DEF PassFails, PreflightCancelled, FinishOwnedFails, SaveFails,
               ReconcileCancelled, Crash
  <2>3. WorkersOK(worker')
    BY <1>0, <2>1, GoesOK DEF Rests
  <2> QED BY <1>0, <2>1, <2>2, <2>3, TablesKept, StepBy DEF TablesOK
<1> QED BY <1>1, <1>2, <1>3 DEF Fail

LEMMA ReviewStep ==
    ASSUME LoopInv, NEW w \in Workers, Review(w)
    PROVE  LoopStep
<1> DEFINE j == agent[w].j
<1>0. /\ TypeOK /\ ReceiptRows /\ head \in [Prs -> Heads] /\ AgentsOK /\ WorkersOK(worker)
      /\ AgentOK(agent[w])
  BY DEF LoopInv, TablesOK, AgentsOK
<1>1. /\ agent[w].step # "none" /\ UNCHANGED head
      /\ \/ \E s \in {"turn", "checked", "posting"} : AgentTo(w, s)
         \/ agent' = [agent EXCEPT ![w] = NoAgent]
  BY DEF Review, AgentStarts, AgentChecks, AgentRecordsIntent, AgentPosts, AgentInDoubt,
     AgentRefused, AgentEnds
<1>2. j \in JobIds
  BY <1>0, <1>1 DEF AgentOK
<1>3. AgentsOK'
  BY <1>0, <1>1, NoAgentOK, AgentStepsOK, AgentGoesOK DEF AgentTo
<1>4. CASE UNCHANGED tables /\ (UNCHANGED worker \/ Overtakes({j}))
  BY <1>0, <1>1, <1>3, <1>4, OvertakesOK, TablesKept, StepBy DEF TablesOK
<1>5. CASE /\ \/ MarkReconciling(j)
              \/ RecordReceipt(j)
           /\ Overtakes({j})
  <2>1. TablesStep
    BY <1>0, <1>2, <1>5, SubmissionType, SubmissionReceipts DEF TablesStep, TablesOK
  <2> QED BY <1>0, <1>1, <1>3, <1>5, <2>1, OvertakesOK, StepBy
<1>6. CASE /\ CanRecordIntent(j) /\ RecordIntent(j)
           /\ \E V : worker' = [v \in Workers |->
                        IF worker[v].j = j /\ worker[v].pc \in Stamped
                        THEN [worker[v] EXCEPT !.overtaken = v \in V] ELSE worker[v]]
  <2>1. TablesStep
    BY <1>0, <1>2, <1>6, SubmissionType, SubmissionReceipts DEF TablesStep, TablesOK
  <2>2. ASSUME NEW v \in Workers, NEW b \in BOOLEAN
        PROVE  WorkerOK([worker[v] EXCEPT !.overtaken = b])
    BY <1>0, OvertakenOK DEF WorkersOK
  <2>3. PICK V : worker' = [v \in Workers |->
                        IF worker[v].j = j /\ worker[v].pc \in Stamped
                        THEN [worker[v] EXCEPT !.overtaken = v \in V] ELSE worker[v]]
    BY <1>6
  <2>4. ASSUME NEW v \in Workers PROVE WorkerOK(worker'[v])
    <3> DEFINE b == v \in V
    <3>1. WorkerOK(worker[v]) /\ b \in BOOLEAN
      BY <1>0 DEF WorkersOK
    <3>2. worker'[v] = worker[v] \/ worker'[v] = [worker[v] EXCEPT !.overtaken = b]
      BY <2>3
    <3> QED BY <2>2, <3>1, <3>2
  <2>5. WorkersOK(worker')
    BY <2>3, <2>4 DEF WorkersOK, WorkerOK
  <2> QED BY <1>0, <1>1, <1>3, <2>1, <2>5, StepBy
<1> QED BY <1>4, <1>5, <1>6 DEF Review, AgentStarts, AgentChecks, AgentRecordsIntent,
           AgentPosts, AgentInDoubt, AgentRefused, AgentEnds

LEMMA HaltStep ==
    ASSUME LoopInv, NEW w \in Workers, Halt(w)
    PROVE  LoopStep
<1> DEFINE m == worker[w]
<1>0. /\ TypeOK /\ ReceiptRows /\ head \in [Prs -> Heads] /\ AgentsOK /\ WorkersOK(worker)
      /\ WorkerOK(m)
      /\ {"stopping", "cancel_runs", "off"} \subseteq Unclaimed
      /\ 0 \in 0..MaxRuns /\ {} \in SUBSET RunIds /\ {} \in SUBSET JobIds
  BY Bounds DEF LoopInv, TablesOK, WorkersOK, Unclaimed
<1>1. CASE Stop(w)
  BY <1>0, <1>1, StoppingOK, GoesOK, TablesKept, StepBy DEF Stop, TablesOK, AgentsOK
<1>2. CASE CancelJobs(w)
  <2>1. WorkersOK(worker')
    BY <1>0, <1>2, PoolTypes, PassStep DEF CancelJobs
  <2>2. TablesStep
    BY <1>0, <1>2, RecoveryType, RecoveryReceipts DEF CancelJobs, TablesStep, TablesOK
  <2> QED BY <1>0, <1>2, <2>1, <2>2, StepBy DEF CancelJobs, AgentsOK
<1>3. CASE CancelRun(w)
  <2>1. PICK r \in m.todo : /\ Goes(w, [m EXCEPT !.todo = @ \ {r}])
                            /\ \/ RunExists(r) /\ FinishRun(r)
                               \/ UNCHANGED tables
    BY <1>3 DEF CancelRun, Finishable, CanFinishRun
  <2>2. m.todo \in SUBSET RunIds /\ m.todo \ {r} \in SUBSET RunIds /\ m.pc \in Unclaimed
    BY <1>0, <1>3 DEF CancelRun, WorkerOK, WorkerRow
  <2>3. WorkersOK(worker')
    BY <1>0, <2>1, <2>2, PassStep
  <2>4. TablesStep
    BY <1>0, <2>1, <2>2, RunStepType, RunStepReceipts, TablesKept DEF TablesStep, TablesOK
  <2> QED BY <1>0, <1>3, <2>3, <2>4, StepBy DEF CancelRun, AgentsOK
<1>4. CASE Stopped(w)
  <2>1. WorkersOK(worker')
    BY <1>0, <1>4, PassStep DEF Stopped
  <2>2. AgentsOK'
    BY <1>0, <1>4, NoAgentOK, AgentGoesOK DEF Stopped
  <2> QED BY <1>0, <1>4, <2>1, <2>2, TablesKept, StepBy DEF Stopped, TablesOK
<1> QED BY <1>1, <1>2, <1>3, <1>4 DEF Halt

LEMMA TimeStep ==
    ASSUME LoopInv, Time \/ Clean
    PROVE  LoopStep
<1>0. /\ TypeOK /\ ReceiptRows /\ head \in [Prs -> Heads] /\ AgentsOK /\ WorkersOK(worker)
  BY DEF LoopInv, TablesOK
<1>1. UNCHANGED <<head, worker>>
  BY DEF Time, Clean, TakeTask, FinishTask, Retain
<1>2. TablesStep
  BY <1>0, LeaseType, LeaseReceipts, CleanupType, CleanupReceipts
     DEF Time, Clean, TakeTask, FinishTask, Retain, TablesStep, TablesOK
<1>3. AgentsOK'
  <2>1. CASE agent' = agent
    BY <1>0, <2>1 DEF AgentsOK
  <2>2. CASE \E A : agent' = [w \in Workers |-> IF w \in A THEN NoAgent ELSE agent[w]]
    BY <1>0, <2>2, NoAgentOK DEF AgentsOK, AgentOK
  <2>3. ASSUME NEW t \in TaskIds, FinishTask(t) PROVE AgentsOK'
    <3> DEFINE A == {w \in Workers : t[1] = "reviewer" /\ agent[w].reviewer = t[2]}
    <3>1. agent' = [w \in Workers |-> IF w \in A THEN NoAgent ELSE agent[w]]
      BY <2>3 DEF FinishTask
    <3> QED BY <2>2, <3>1
  <2> QED BY <2>1, <2>3 DEF Time, Clean, TakeTask, Retain
<1> QED BY <1>0, <1>1, <1>2, <1>3, StepBy

-----------------------------------------------------------------------------
(***************************************************************************)
(* The theorems.                                                           *)
(***************************************************************************)
LEMMA LoopInvInit == Init => LoopInv
<1> SUFFICES ASSUME Init PROVE LoopInv
  OBVIOUS
<1>1. TypeOK /\ ReceiptRows
  <2>1. TypeOK
    BY TablesInitType DEF Init
  <2>2. \A j \in JobIds : ~job[j].receipt
    BY DEF Init, TablesInit, NewJob
  <2> QED BY <2>1, <2>2 DEF ReceiptRows
<1>2. head \in [Prs -> Heads]
  BY Bounds DEF Init
<1>3. WorkersOK(worker)
  <2>1. WorkerOK(Resting("off"))
    BY RestingOK DEF Unclaimed
  <2> QED BY <2>1 DEF Init, WorkersOK, WorkerOK
<1>4. AgentsOK
  BY NoAgentOK DEF Init, AgentsOK, AgentOK
<1> QED BY <1>1, <1>2, <1>3, <1>4 DEF LoopInv, TablesOK

LEMMA LoopInvStep == LoopInv /\ [Next]_vars => LoopInv' /\ (KeepsReceipts \/ UNCHANGED vars)
<1> SUFFICES ASSUME LoopInv, [Next]_vars PROVE LoopInv' /\ (KeepsReceipts \/ UNCHANGED vars)
  OBVIOUS
<1>1. CASE UNCHANGED vars
  BY <1>1 DEF vars, LoopInv, TablesOK, TypeOK, ReceiptRows, AgentsOK
<1>2. ASSUME NEW w \in Workers,
             Pool(w) \/ Work(w) \/ Beat(w) \/ Fail(w) \/ Review(w) \/ Halt(w)
      PROVE  LoopStep
  BY <1>2, PoolStep, PreflightStep, AttemptStep, AfterStep, BeatStep, FailStep, ReviewStep,
     HaltStep DEF Work
<1>3. CASE Next
  BY <1>2, <1>3, ProduceStep, TimeStep DEF Next, LoopStep
<1> QED BY <1>1, <1>3

\* The tables, the workers' rows in memory and the turns keep their types.
THEOREM LoopTypes == Spec => []LoopTypeOK
<1>1. LoopInv => LoopTypeOK
  BY DEF LoopInv, TablesOK, WorkersOK, AgentsOK, LoopTypeOK
<1> QED BY <1>1, LoopInvInit, LoopInvStep, PTL DEF Spec

\* A recorded receipt is final: whatever the workers of a rolling deployment,
\* the turns, the producers and the cleanup do, in any order and after any
\* crash, the job never leaves "succeeded" except by being pruned.
THEOREM ReceiptFinal == Spec => ReceiptIsFinal
<1> DEFINE Step == \A j \in JobIds :
              job[j].receipt => job'[j].receipt /\ job'[j].status \in {"succeeded", "deleted"}
<1>1. LoopInv /\ [Next]_vars => Step \/ UNCHANGED vars
  BY LoopInvStep DEF KeepsReceipts, Done
<1>2. LoopInv /\ [Next]_vars => LoopInv'
  BY LoopInvStep
<1>3. LoopInv /\ [Next]_vars => [Step]_vars
  BY <1>1
<1> QED BY <1>2, <1>3, LoopInvInit, PTL DEF Spec, ReceiptIsFinal

-----------------------------------------------------------------------------
(***************************************************************************)
(* What a step may do.  A step of the loop is described by what becomes of *)
(* each row of the jobs, each run, each worker and each turn; the actor of *)
(* a row's move is named where the invariants need it.                     *)
(***************************************************************************)
\* Saves of a row a worker has in memory.
SavePcs == Stamped \ {"begin"}

\* Where a worker stands when it archives a run.
Archiving == Unclaimed \cup {"finish", "finish_owned"}

\* What a row is, but for its lease and the times in it.
SameJob(x, y) == y.pr = x.pr /\ y.head = x.head /\ y.attempts = x.attempts /\ y.intent = x.intent /\ y.receipt = x.receipt
SameRow(x, y) == SameJob(x, y) /\ y.status = x.status /\ y.reviewer = x.reviewer /\ y.run = x.run
SameHands(x, y) == y.reviewer = x.reviewer /\ y.run = x.run

\* What one step may do to the row of job j, in the hands of worker w where a
\* worker does it.
Keeps(j) ==
    /\ SameRow(job[j], job'[j])
    /\ \/ job'[j].owner = job[j].owner
       \/ \E w \in Workers : worker[w].pc = "off" /\ job[j].owner = w /\ job'[j].owner = Gone

\* Given up by the tables: superseded, blocked or cancelled; a lease may stay.
Drops(j) ==
    /\ job[j].status \in Active /\ job'[j].status \in {"superseded", "cancelled"}
    /\ SameJob(job[j], job'[j]) /\ SameHands(job[j], job'[j])
    /\ job'[j].owner \in {job[j].owner, None}

\* A row becomes the queued one of its pull request, and its forerunner ends.
Queued(j) ==
    /\ \A i \in JobIds \ {j} : job'[i].status \in {job[i].status, "superseded"}
    /\ job'[j].status = "queued" /\ job'[j].reviewer = 0 /\ job'[j].run = 0
    /\ job'[j].owner = None /\ ~job'[j].intent /\ ~job'[j].receipt
    /\ LET old == LoadActive(job'[j].pr)
       IN \/ old = 0
          \/ old # j /\ old \in JobIds /\ job'[old].status = "superseded"

Creates(j) == job[j].status = "absent" /\ job'[j].attempts = 0 /\ Queued(j)

Requeues(j) == job[j].status = "failed" /\ SameJob(job[j], job'[j]) /\ Queued(j)

\* claim_project_review: the only way to a lease; no recovery pass holds it.
Claims(j, w) ==
    /\ worker[w].pc = "claim" /\ j \in ClaimDue(Expired(w))
    /\ SameJob(job[j], job'[j]) /\ SameHands(job[j], job'[j])
    /\ job'[j].status = IF job[j].intent THEN "reconciling" ELSE "preparing"
    /\ job'[j].owner = w
    /\ \A i \in JobIds \ {j} : job'[i] = job[i]
    /\ \A v \in Workers : j \notin worker'[v].expired

\* The run of an attempt is stored, and then the attempt counted in the row.
Begins(j, w) ==
    /\ worker[w].pc = "begin" /\ worker[w].j = j /\ CanBegin(j, w) /\ FreeRuns # {}
    /\ run' = [run EXCEPT ![NextRun] =
                  [job |-> j, open |-> TRUE, reviewer |-> job[j].reviewer]]
    /\ worker'[w].pc \in HasRun /\ \A v \in Workers \ {w} : worker'[v] = worker[v]

Counts(j, w) ==
    /\ Begins(j, w)
    /\ job'[j].pr = job[j].pr /\ job'[j].head = job[j].head /\ job'[j].status = "preparing"
    /\ job'[j].attempts = job[j].attempts + 1 /\ job'[j].run = NextRun
    /\ job'[j].reviewer = job[j].reviewer /\ job'[j].owner = w
    /\ job'[j].intent = job[j].intent /\ job'[j].receipt = job[j].receipt

\* The row in memory is written over the stored one while the lease is held.
Saves(j, w) ==
    /\ worker[w].pc \in SavePcs /\ worker[w].j = j
    /\ job[j].owner = w /\ job[j].status \in Active
    /\ SameRow(worker[w].copy, job'[j]) /\ job'[j].owner = worker[w].copy.owner

Skips(j, w) ==
    /\ worker[w].pc = "preflight" /\ worker[w].j = j
    /\ job[j].owner = w /\ job[j].status = "preparing"
    /\ SameJob(job[j], job'[j]) /\ job'[j].status = "skipped" /\ job'[j].owner = None
    /\ job'[j].run = 0 /\ job'[j].reviewer = job[j].reviewer

\* Recovery lets go of a run after it archived it.
Frees(j) ==
    /\ SameJob(job[j], job'[j]) /\ job'[j].reviewer = job[j].reviewer
    /\ job'[j].run = 0 /\ job'[j].owner = None
    /\ job[j].run # 0 => job[j].run \in RunIds /\ ~run'[job[j].run].open

Releases(j) == job[j].status \in Terminal /\ job'[j].status = job[j].status /\ Frees(j)

Recovers(j) ==
    /\ job[j].status \in Executing /\ Frees(j)
    /\ job'[j].status = IF job[j].intent THEN "reconciling" ELSE "retry_waiting"

\* What the submission of a turn records.
Intends(j, w) ==
    /\ agent[w].step = "checked" /\ agent[w].j = j
    /\ Stored(j) /\ ~job[j].receipt /\ ~job'[j].receipt /\ job'[j].intent
    /\ job'[j].status = IF job[j].status = "reconciling" THEN "reconciling" ELSE "submission_pending"
    /\ job'[j].pr = job[j].pr /\ job'[j].head = job[j].head
    /\ job'[j].attempts = job[j].attempts /\ SameHands(job[j], job'[j])
    /\ job'[j].owner = job[j].owner

Doubts(j, w) ==
    /\ agent[w].step = "posting" /\ agent[w].j = j
    /\ Stored(j) /\ job[j].intent /\ ~job[j].receipt
    /\ job'[j].status = "reconciling"
    /\ SameJob(job[j], job'[j]) /\ SameHands(job[j], job'[j]) /\ job'[j].owner = job[j].owner

Succeeds(j, w) ==
    /\ \/ agent[w].step = "posting" /\ agent[w].j = j
       \/ worker[w].pc = "reconcile" /\ worker[w].j = j
    /\ CanRecordReceipt(j)
    /\ job'[j].status = "succeeded" /\ job'[j].receipt /\ job'[j].intent
    /\ job'[j].pr = job[j].pr /\ job'[j].head = job[j].head
    /\ job'[j].attempts = job[j].attempts /\ SameHands(job[j], job'[j])
    /\ job'[j].owner \in {job[j].owner, None}

Prunes(j) ==
    /\ job[j].status \in Terminal /\ job'[j].status = "deleted"
    /\ SameJob(job[j], job'[j]) /\ SameHands(job[j], job'[j]) /\ job'[j].owner = job[j].owner

RowMove(j) ==
    \/ Keeps(j) \/ Drops(j) \/ Creates(j) \/ Requeues(j) \/ Releases(j) \/ Recovers(j) \/ Prunes(j)
    \/ \E w \in Workers : \/ Claims(j, w) \/ Counts(j, w) \/ Saves(j, w) \/ Skips(j, w)
                          \/ Intends(j, w) \/ Doubts(j, w) \/ Succeeds(j, w)

\* What one step may do to the run r.
RunKept(r) ==
    /\ run'[r].job = run[r].job
    /\ \/ run'[r].open = run[r].open
       \/ run'[r].open /\ \E w \in Workers : worker[w].pc = "run_status" /\ worker[w].run = r
       \/ ~run'[r].open /\ \E w \in Workers : worker[w].pc \in Archiving

\* A new run is stored by an attempt only.
RunBegun(r) == \E w \in Workers : Begins(worker[w].j, w) /\ r = NextRun

RunMove(r) == RunKept(r) \/ RunBegun(r)

Moves == (\A j \in JobIds : RowMove(j)) /\ (\A r \in RunIds : RunMove(r))

(***************************************************************************)
(* What one step may do to worker w.                                       *)
(***************************************************************************)
SweptPcs == {"rec_done", "repair", "claim"}

\* The job has an owner and executes.
ExecutesRow(row) == row.status \in Executing /\ row.owner # None

\* A bystander: at most its row is overtaken, a lease renewed, its list shorter.
Stays(w) ==
    LET m == worker[w] n == worker'[w]
    IN /\ n.pc = m.pc /\ n.j = m.j /\ n.copy = m.copy /\ n.run = m.run /\ n.result = m.result
       /\ n.expired \subseteq m.expired

\* It starts over, without a row in memory.
Rested(w) ==
    /\ worker'[w].pc \in {"off", "startup", "idle", "rec_terminal", "stopping"}
    /\ worker'[w].copy = NoCopy

Passes(w) ==
    LET m == worker[w] n == worker'[w]
    IN /\ m.pc \in Unclaimed /\ n.pc \in Unclaimed
       /\ n.j = m.j /\ n.copy = m.copy /\ n.expired = m.expired
       /\ n.pc \in SweptPcs => \/ m.pc \in SweptPcs
                               \/ \A j \in m.expired : ~ExecutesRow(job'[j])

Claimed(w) ==
    LET n == worker'[w]
    IN \E j \in JobIds :
          /\ Claims(j, w) /\ n.j = j /\ n.copy = job'[j]
          /\ n.pc = IF job[j].intent THEN "reconcile" ELSE "preflight"

\* A row that lets go of its run and its lease.
LetsGo(x, y) ==
    /\ SameJob(x, y) /\ y.reviewer = x.reviewer /\ y.run = 0 /\ y.owner = None

Settled(x, y) == LetsGo(x, y) /\ y.status \in Terminal \cup {"retry_waiting"}

Doubted(x, y) == LetsGo(x, y) /\ y.status = "reconciling"

\* The head is looked up, and the job given back, started or replaced.
Preflights(w) ==
    LET m == worker[w] n == worker'[w]
    IN /\ n.j = m.j
       /\ \/ /\ m.pc = "preflight" /\ n.pc = "preflight" /\ n.copy = job[m.j] /\ job' = job
             /\ job[m.j].owner = w /\ job[m.j].status = "preparing"
          \/ m.pc = "preflight" /\ n.pc = "begin" /\ n.copy = m.copy
          \/ /\ m.pc = "preflight" /\ n.pc \in {"preflight_save", "preflight_replace"}
             /\ Settled(m.copy, n.copy)
          \/ m.pc = "preflight_replace" /\ n.pc = "replace" /\ n.copy = m.copy

\* An attempt has begun: what the row in memory is then.
Starts(w) ==
    LET m == worker[w] n == worker'[w] row == job[m.j]
    IN /\ Begins(m.j, w) /\ (Counts(m.j, w) \/ job' = job)
       /\ n.j = m.j /\ n.run = NextRun /\ n.pc \in {"finish", "warning_save", "prepare"}
       /\ n.copy.pr = row.pr /\ n.copy.head = row.head /\ n.copy.status = "preparing"
       /\ n.copy.attempts = row.attempts + 1 /\ n.copy.run = NextRun
       /\ n.copy.reviewer = row.reviewer /\ n.copy.owner = w
       /\ n.copy.intent = row.intent /\ n.copy.receipt = row.receipt

\* The steps of an attempt.
Advances(w) ==
    LET m == worker[w] n == worker'[w]
    IN /\ m.pc \in HasRun /\ n.j = m.j /\ n.run = m.run
       /\ \/ n.pc = "finish" /\ n.copy = NoCopy /\ job' = job
          \/ n.pc = "turn" /\ n.copy = NoCopy
          \/ /\ m.pc = "prepare" /\ n.pc = "running_save"
             /\ SameJob(m.copy, n.copy) /\ n.copy.status = "running"
             /\ n.copy.run = m.copy.run /\ n.copy.owner = m.copy.owner
          \/ /\ <<m.pc, n.pc>> \in {<<"warning_save", "prepare">>,
                                    <<"running_save", "run_status">>,
                                    <<"run_status", "turn_start">>}
             /\ n.copy = m.copy

\* An attempt is over; only an unfinalized one leaves its run open.
Returns(w) ==
    LET m == worker[w] n == worker'[w]
    IN /\ n.pc = "reload" /\ n.j = m.j /\ n.copy = NoCopy
       /\ \/ n.result = "unfinalized"
          \/ m.pc = "begin" /\ ~CanBegin(m.j, w) /\ job' = job
          \/ m.pc = "running_save" /\ job[m.j].owner # w /\ job' = job
          \/ m.pc = "finish" /\ ~run'[m.run].open
          \/ "fault" \in Events

\* The row is read again and the outcome decided by it.
Decides(w) ==
    LET m == worker[w] n == worker'[w] row == job[m.j]
    IN /\ m.pc = "reload" /\ n.j = m.j /\ job' = job
       /\ \/ n.pc = "finish_owned" /\ row.receipt /\ n.copy = row
          \/ /\ n.pc = "plain_save" /\ row.status \in Terminal /\ ~row.receipt
             /\ SameRow(row, n.copy) /\ n.copy.owner = None
          \/ /\ n.pc = "plain_save" /\ row.status = "reconciling"
             /\ Settled(row, n.copy) \/ Doubted(row, n.copy)
          \/ /\ n.pc = "final_save" /\ row.status \in Active \ {"reconciling"}
             /\ m.result # "unfinalized"
             /\ \/ Settled(row, n.copy)
                \/ row.intent /\ Doubted(row, n.copy)

\* No Review was found on GitHub for the marker.
Misses(w) ==
    LET m == worker[w] n == worker'[w]
    IN /\ m.pc = "reconcile" /\ n.pc = "reconcile_save" /\ n.j = m.j
       /\ Settled(m.copy, n.copy) \/ Doubted(m.copy, n.copy)

WorkerMove(w) ==
    \/ Stays(w) \/ Rested(w) \/ Passes(w) \/ Claimed(w) \/ Preflights(w) \/ Starts(w)
    \/ Advances(w) \/ Returns(w) \/ Decides(w) \/ Misses(w)

\* What one step may do to the turn worker w started.
TurnMove(w) ==
    \/ agent'[w].step \in {agent[w].step, "none", "queued", "turn"}
    \/ agent[w].step = "checked" \/ "submit" \in Events

LoopMove == Moves /\ \A w \in Workers : WorkerMove(w) /\ TurnMove(w)

-----------------------------------------------------------------------------
LEMMA RowsKept ==
    ASSUME job' = job, run' = run
    PROVE  Moves
BY DEF Moves, RowMove, RunMove, Keeps, RunKept, SameRow, SameJob

\* One row moves and the runs do not.
LEMMA OneMoves ==
    ASSUME NEW j \in JobIds, \A i \in JobIds \ {j} : job'[i] = job[i], RowMove(j), run' = run
    PROVE  Moves
BY DEF Moves, RowMove, RunMove, Keeps, RunKept, SameRow, SameJob

\* The fields of a row some of whose other fields change.
LEMMA RowFields ==
    ASSUME NEW x \in JobRow, NEW b
    PROVE  /\ SameRow(x, [x EXCEPT !.live = b]) /\ [x EXCEPT !.live = b].owner = x.owner
           /\ SameRow(x, [x EXCEPT !.due = b]) /\ [x EXCEPT !.due = b].owner = x.owner
           /\ SameRow(x, [x EXCEPT !.delivery = b]) /\ [x EXCEPT !.delivery = b].owner = x.owner
           /\ SameRow(x, [x EXCEPT !.owner = b]) /\ [x EXCEPT !.owner = b].owner = b
BY DEF JobRow, SameJob, SameRow

LEMMA StatusFields ==
    ASSUME NEW x \in JobRow, NEW s
    PROVE  /\ SameJob(x, [x EXCEPT !.status = s]) /\ SameHands(x, [x EXCEPT !.status = s])
           /\ [x EXCEPT !.status = s].owner = x.owner /\ [x EXCEPT !.status = s].status = s
BY DEF JobRow, SameJob, SameHands

LEMMA UnleasedFields ==
    ASSUME NEW x \in JobRow
    PROVE  LET y == Unleased(x)
           IN /\ SameJob(x, y) /\ y.reviewer = x.reviewer /\ y.status = x.status
              /\ y.run = 0 /\ y.owner = None
              /\ y.due = x.due
BY DEF JobRow, SameJob, Unleased

LEMMA FinishedFields ==
    ASSUME NEW x \in JobRow, NEW s
    PROVE  /\ LET y == Finished(x, s)
              IN /\ SameJob(x, y) /\ y.reviewer = x.reviewer /\ y.status = s
                 /\ y.run = 0 /\ y.owner = None
           /\ LET y == [Unleased(x) EXCEPT !.status = s, !.due = TRUE]
              IN /\ SameJob(x, y) /\ y.reviewer = x.reviewer /\ y.status = s
                 /\ y.run = 0 /\ y.owner = None
           /\ LET y == ScheduleRetry(x)
              IN /\ SameJob(x, y) /\ y.reviewer = x.reviewer /\ y.status = "retry_waiting"
                 /\ y.run = 0 /\ y.owner = None
           /\ LET y == BeginReconciliation(x)
              IN /\ SameJob(x, y) /\ y.reviewer = x.reviewer /\ y.status = "reconciling"
                 /\ y.run = 0 /\ y.owner = None
BY DEF JobRow, SameJob, Unleased, Finished, ScheduleRetry, BeginReconciliation

LEMMA EnqueueMoves ==
    ASSUME TypeOK, NEW p \in Prs, NEW h \in Heads, NEW d \in Deliveries \cup {None}, NEW watched,
           EnqueueInTransaction(p, h, d, watched)
    PROVE  Moves
<1> DEFINE old == LoadActive(p)
           new == NewJob(p, h, d, "queued")
<1>1. old # 0 => old \in JobIds /\ job[old] \in JobRow /\ job[old].status \in Active
  BY LoadActiveType DEF ActiveJobs, TypeOK
<1>2. FreeJobs # {} => NextJob \in JobIds /\ job[NextJob].status = "absent"
  BY FreshIdType DEF FreeJobs
<1>3. /\ new.pr = p /\ new.attempts = 0 /\ new.status = "queued" /\ new.reviewer = 0
      /\ new.run = 0 /\ new.owner = None /\ ~new.intent /\ ~new.receipt
  BY DEF NewJob
<1>4. job \in [JobIds -> JobRow] /\ run' = run
  BY DEF TypeOK, EnqueueInTransaction
<1>5. CASE job' = job
  BY <1>4, <1>5, RowsKept
<1>6. CASE old # 0 /\ \E e : job' = [job EXCEPT ![old].delivery = e]
  <2>1. Keeps(old)
    <3>1. PICK e : job' = [job EXCEPT ![old].delivery = e]
      BY <1>6
    <3>2. job'[old] = [job[old] EXCEPT !.delivery = e]
      BY <1>1, <1>4, <1>6, <3>1
    <3>3. job[old] \in JobRow
      BY <1>1, <1>6
    <3>4. /\ SameRow(job[old], [job[old] EXCEPT !.delivery = e])
          /\ [job[old] EXCEPT !.delivery = e].owner = job[old].owner
      BY <3>3, RowFields
    <3>5. SameRow(job[old], job'[old]) /\ job'[old].owner = job[old].owner
      BY <3>2, <3>4
    <3> QED BY <3>5 DEF Keeps
  <2>2. \A i \in JobIds \ {old} : job'[i] = job[i]
    BY <1>4, <1>6
  <2> QED BY <1>1, <1>4, <1>6, <2>1, <2>2, OneMoves DEF RowMove
<1>7. CASE old = 0 /\ FreeJobs # {} /\ job' = [job EXCEPT ![NextJob] = new]
  <2>1. job'[NextJob] = new /\ \A i \in JobIds \ {NextJob} : job'[i] = job[i]
    BY <1>2, <1>4, <1>7
  <2>2. Creates(NextJob)
    <3> HIDE DEF new
    <3> QED BY <1>2, <1>3, <1>7, <2>1 DEF Creates, Queued
  <2> QED BY <1>2, <1>4, <1>7, <2>1, <2>2, OneMoves DEF RowMove
<1>8. CASE /\ old # 0 /\ FreeJobs # {}
           /\ job' = [[job EXCEPT ![old].status = "superseded"] EXCEPT ![NextJob] = new]
  <2> HIDE DEF new
  <2>0. old # NextJob
    BY <1>1, <1>2, <1>8, Disjoint
  <2>1. /\ job'[NextJob] = new /\ job'[old] = [job[old] EXCEPT !.status = "superseded"]
        /\ \A i \in JobIds \ {old, NextJob} : job'[i] = job[i]
    BY <1>1, <1>2, <1>4, <1>8, <2>0
  <2>2. Drops(old) /\ job'[old].status = "superseded"
    <3> DEFINE row == [job[old] EXCEPT !.status = "superseded"]
    <3>1. job[old] \in JobRow
      BY <1>1, <1>8
    <3>2. /\ SameJob(job[old], row) /\ SameHands(job[old], row)
          /\ row.owner = job[old].owner /\ row.status = "superseded"
      BY <3>1, StatusFields
    <3> HIDE DEF row
    <3>3. job'[old] = row
      BY <2>1 DEF row
    <3> QED BY <1>1, <1>8, <3>2, <3>3 DEF Drops
  <2>3. Creates(NextJob)
    BY <1>1, <1>2, <1>3, <1>8, <2>0, <2>1, <2>2 DEF Creates, Queued
  <2>4. \A i \in JobIds : RowMove(i)
    BY <2>1, <2>2, <2>3 DEF RowMove, Keeps, SameRow, SameJob
  <2> QED BY <1>4, <2>4 DEF Moves, RunMove, RunKept
<1> QED BY <1>5, <1>6, <1>7, <1>8 DEF EnqueueInTransaction

LEMMA AdmissionMoves ==
    ASSUME TypeOK, NEW p \in Prs, NEW h \in Heads, NEW seen, NEW d \in Deliveries \cup {None},
           \/ AdmitCandidate(p, h) \/ AdmitWatch(p, h) \/ EnqueueFromWatch(p, seen, h, d)
           \/ ReplaceWatchHead(p, seen, h) \/ DeleteWatch(p, seen)
    PROVE  Moves
<1>1. CASE \E x \in BOOLEAN, e \in Deliveries \cup {None} : EnqueueInTransaction(p, h, e, x)
  BY <1>1, EnqueueMoves
<1>2. CASE job' = job /\ run' = run
  BY <1>2, RowsKept
<1> DEFINE latest == LatestSameHead(p, h)
           row == [job[latest] EXCEPT !.status = "queued", !.due = TRUE, !.reviewer = 0,
                                      !.run = 0, !.owner = None, !.live = FALSE]
<1>3. CASE /\ latest # 0 /\ job[latest].status = "failed" /\ LoadActive(p) = 0
           /\ ~job[latest].intent /\ ~job[latest].receipt
           /\ job' = [job EXCEPT ![latest] = row]
           /\ run' = run
  <2>1. latest \in JobIds
    BY <1>3, LatestSameHeadType
  <2>2. latest \in {j \in JobIds : Stored(j) /\ job[j].pr = p /\ job[j].head = h}
    <3>1. {j \in JobIds : Stored(j) /\ job[j].pr = p /\ job[j].head = h} \subseteq 1..MaxJobs
      BY DEF JobIds
    <3> QED BY <1>3, <3>1, BoundAssumption, MaxIdType DEF LatestSameHead
  <2>3. job[latest] \in JobRow /\ job[latest].pr = p
    BY <2>1, <2>2 DEF TypeOK
  <2>4. /\ SameJob(job[latest], row) /\ row.status = "queued" /\ row.reviewer = 0 /\ row.run = 0
        /\ row.owner = None
    BY <2>3 DEF JobRow, SameJob
  <2> HIDE DEF row
  <2>5. job'[latest] = row /\ \A i \in JobIds \ {latest} : job'[i] = job[i]
    BY <1>3, <2>1 DEF TypeOK
  <2>6. Requeues(latest)
    BY <1>3, <2>3, <2>4, <2>5 DEF Requeues, Queued, SameJob
  <2> QED BY <1>3, <2>1, <2>5, <2>6, OneMoves DEF RowMove
<1> QED BY <1>1, <1>2, <1>3 DEF AdmitCandidate, AdmitWatch, EnqueueFromWatch,
           ReplaceWatchHead, DeleteWatch, tables

\* A save writes the row in memory, if the claim is still this worker's.
LEMMA SaveMoves ==
    ASSUME LoopInv, NEW w \in Workers, worker[w].pc \in SavePcs,
           SaveClaimed(worker[w].j, w, worker[w].copy, worker[w].overtaken)
    PROVE  Moves
<1> DEFINE j == worker[w].j
           c == worker[w].copy
           row == IF c.owner = w THEN [c EXCEPT !.live = job[j].live] ELSE c
<1>1. job \in [JobIds -> JobRow] /\ run' = run
  BY DEF LoopInv, TablesOK, TypeOK, SaveClaimed
<1>2. j \in JobIds /\ c \in JobRow
  <2>1. worker[w].pc \notin Unclaimed
    BY DEF SavePcs, Stamped, Unclaimed, Recovering
  <2> QED BY <2>1 DEF LoopInv, WorkersOK, WorkerOK, WorkerRow
<1>3. CASE job' = job
  BY <1>1, <1>3, RowsKept
<1>4. CASE /\ job[j].owner = w /\ Stored(j) /\ job[j].status \notin Terminal
           /\ job' = [job EXCEPT ![j] = row]
  <2>1. SameRow(c, row) /\ row.owner = c.owner
    <3>1. SameRow(c, [c EXCEPT !.live = job[j].live]) /\ [c EXCEPT !.live = job[j].live].owner = c.owner
      BY <1>2, RowFields
    <3>2. SameRow(c, c)
      BY DEF SameRow, SameJob
    <3> QED BY <3>1, <3>2
  <2> HIDE DEF row
  <2>2. job'[j] = row /\ \A i \in JobIds \ {j} : job'[i] = job[i]
    BY <1>1, <1>2, <1>4
  <2>3. job[j].status \in Active
    BY <1>1, <1>2, <1>4 DEF JobRow, Stored
  <2>4. Saves(j, w)
    BY <1>4, <2>1, <2>2, <2>3 DEF Saves
  <2> QED BY <1>1, <1>2, <2>2, <2>4, OneMoves DEF RowMove
<1> QED BY <1>3, <1>4 DEF SaveClaimed, Upsert, WriteRow

LEMMA ClaimMoves ==
    ASSUME TypeOK, NEW w \in Workers, NEW j \in JobIds, worker[w].pc = "claim",
           Claim(j, w, Expired(w)), \A v \in Workers : j \notin worker'[v].expired
    PROVE  Moves /\ Claims(j, w) /\ job'[j] \in JobRow
<1> DEFINE row == [job[j] EXCEPT !.status = IF job[j].intent THEN "reconciling" ELSE "preparing",
                                 !.due = TRUE, !.owner = w, !.live = TRUE]
<1>1. job[j] \in JobRow /\ w \in Owners
  BY OwnersAssumption DEF TypeOK
<1>2. job' = [job EXCEPT ![j] = row] /\ run' = run /\ j \in ClaimDue(Expired(w))
  BY DEF Claim, ClaimOrder
<1>3. /\ SameJob(job[j], row) /\ SameHands(job[j], row) /\ row.owner = w /\ row \in JobRow
      /\ row.status = IF job[j].intent THEN "reconciling" ELSE "preparing"
  BY <1>1 DEF SameJob, SameHands, JobRow, Active, Executing
<1> HIDE DEF row
<1>4. job'[j] = row /\ \A i \in JobIds \ {j} : job'[i] = job[i]
  BY <1>2 DEF TypeOK
<1>5. Claims(j, w)
  BY <1>2, <1>3, <1>4 DEF Claims
<1> QED BY <1>2, <1>3, <1>4, <1>5, OneMoves DEF RowMove

LEMMA LeaseMoves ==
    ASSUME TypeOK, NEW j \in JobIds, HeartbeatJob(j) \/ LeaseLapses(j) \/ BecomesDue(j)
    PROVE  Moves
<1>1. job[j] \in JobRow /\ run' = run
  BY DEF TypeOK, HeartbeatJob, LeaseLapses, BecomesDue
<1>2. PICK b \in BOOLEAN : \/ job' = [job EXCEPT ![j] = [job[j] EXCEPT !.live = b]]
                           \/ job' = [job EXCEPT ![j] = [job[j] EXCEPT !.due = b]]
  BY DEF HeartbeatJob, LeaseLapses, BecomesDue
<1>3. \A i \in JobIds \ {j} : job'[i] = job[i]
  BY <1>2 DEF TypeOK
<1>4. job'[j] = [job[j] EXCEPT !.live = b] \/ job'[j] = [job[j] EXCEPT !.due = b]
  BY <1>2 DEF TypeOK
<1>5. /\ SameRow(job[j], [job[j] EXCEPT !.live = b])
      /\ [job[j] EXCEPT !.live = b].owner = job[j].owner
      /\ SameRow(job[j], [job[j] EXCEPT !.due = b])
      /\ [job[j] EXCEPT !.due = b].owner = job[j].owner
  BY <1>1, RowFields
<1>6. SameRow(job[j], job'[j]) /\ job'[j].owner = job[j].owner
  BY <1>4, <1>5
<1> QED BY <1>1, <1>3, <1>6, OneMoves DEF RowMove, Keeps

\* A worker that starts leaves the rows of its predecessor to nobody.
LEMMA StartMoves ==
    ASSUME TypeOK, NEW w \in Workers, Start(w)
    PROVE  Moves
<1>1. /\ worker[w].pc = "off" /\ run' = run
      /\ job' = [j \in JobIds |->
                    IF job[j].owner = w THEN [job[j] EXCEPT !.owner = Gone] ELSE job[j]]
  BY DEF Start
<1>2. ASSUME NEW j \in JobIds PROVE Keeps(j)
  <2>1. job[j] \in JobRow
    BY DEF TypeOK
  <2>2. CASE job[j].owner = w
    <3>1. SameRow(job[j], [job[j] EXCEPT !.owner = Gone]) /\ [job[j] EXCEPT !.owner = Gone].owner = Gone
      BY <2>1, RowFields
    <3>2. job'[j] = [job[j] EXCEPT !.owner = Gone]
      BY <1>1, <2>2
    <3>3. SameRow(job[j], job'[j]) /\ job'[j].owner = Gone
      BY <3>1, <3>2
    <3> QED BY <1>1, <2>2, <3>3 DEF Keeps
  <2>3. CASE job[j].owner # w
    BY <1>1, <2>3 DEF Keeps, SameRow, SameJob
  <2> QED BY <2>2, <2>3
<1> QED BY <1>1, <1>2 DEF Moves, RowMove, RunMove, RunKept

LEMMA SkipMoves ==
    ASSUME TypeOK, NEW w \in Workers, worker[w].pc = "preflight", worker[w].j \in JobIds,
           NEW d, CanSkipForCi(worker[w].j, w, d), SkipForCiPending(worker[w].j)
    PROVE  Moves
<1> DEFINE j == worker[w].j
           row == Finished(job[j], "skipped")
<1>1. /\ job' = [job EXCEPT ![j] = row] /\ run' = run /\ job[j] \in JobRow
      /\ job[j].owner = w /\ job[j].status = "preparing"
  BY DEF SkipForCiPending, WriteRow, CanSkipForCi, TypeOK
<1>2. /\ SameJob(job[j], row) /\ row.reviewer = job[j].reviewer /\ row.status = "skipped"
      /\ row.run = 0 /\ row.owner = None
  BY <1>1, FinishedFields
<1> HIDE DEF row
<1>3. job'[j] = row /\ \A i \in JobIds \ {j} : job'[i] = job[i]
  BY <1>1 DEF TypeOK
<1>4. Skips(j, w)
  BY <1>1, <1>2, <1>3 DEF Skips
<1> QED BY <1>1, <1>3, <1>4, OneMoves DEF RowMove

LEMMA BeginMoves ==
    ASSUME TypeOK, NEW w \in Workers, worker[w].pc = "begin", worker[w].j \in JobIds,
           CanBegin(worker[w].j, w), BeginAttempt(worker[w].j, worker[w].overtaken),
           worker'[w].pc \in HasRun, \A v \in Workers \ {w} : worker'[v] = worker[v]
    PROVE  /\ Moves /\ Begins(worker[w].j, w)
           /\ Counts(worker[w].j, w) \/ job' = job
<1> DEFINE j == worker[w].j
           row == Begun(job[j], NextRun)
<1>0. NextRun \in RunIds
  BY FreshIdType DEF BeginAttempt, FreeRuns
<1>1. /\ job[j] \in JobRow /\ job[j].status = "preparing" /\ job[j].owner = w
      /\ job[j].attempts \in Nat
  BY DEF TypeOK, CanBegin, JobRow
<1>2. Begins(j, w)
  BY DEF Begins, BeginAttempt
<1>3. \A r \in RunIds : RunMove(r)
  <2>1. \A r \in RunIds \ {NextRun} : run'[r] = run[r]
    BY <1>0, <1>2 DEF Begins, TypeOK
  <2>2. RunBegun(NextRun)
    BY <1>2 DEF RunBegun
  <2> QED BY <2>1, <2>2 DEF RunMove, RunKept
<1>4. CASE job' = job
  BY <1>2, <1>3, <1>4 DEF Moves, RowMove, Keeps, SameRow, SameJob
<1>5. CASE job' = [job EXCEPT ![j] = row]
  <2>1. /\ row.pr = job[j].pr /\ row.head = job[j].head /\ row.status = "preparing"
        /\ row.attempts = job[j].attempts + 1 /\ row.run = NextRun
        /\ row.reviewer = job[j].reviewer /\ row.owner = w
        /\ row.intent = job[j].intent /\ row.receipt = job[j].receipt
    BY <1>1 DEF Begun, JobRow
  <2> HIDE DEF row
  <2>2. job'[j] = row /\ \A i \in JobIds \ {j} : job'[i] = job[i]
    BY <1>5 DEF TypeOK
  <2>3. Counts(j, w)
    BY <1>2, <2>1, <2>2 DEF Counts
  <2>4. \A i \in JobIds : RowMove(i)
    BY <2>2, <2>3 DEF RowMove, Keeps, SameRow, SameJob
  <2> QED BY <1>2, <1>3, <2>3, <2>4 DEF Moves
<1> QED BY <1>2, <1>4, <1>5 DEF BeginAttempt, Upsert, WriteRow

LEMMA RunFields ==
    ASSUME NEW x \in RunRow, NEW b, NEW k
    PROVE  /\ [x EXCEPT !.open = b].job = x.job /\ [x EXCEPT !.open = b].open = b
           /\ [x EXCEPT !.open = b, !.reviewer = k].job = x.job
           /\ [x EXCEPT !.open = b, !.reviewer = k].open = b
           /\ [x EXCEPT !.open = b].reviewer = x.reviewer
BY DEF RunRow

\* A run is archived, and lets go of its job when the job is terminal.
LEMMA FinishMoves ==
    ASSUME TypeOK, NEW w \in Workers, worker[w].pc \in Archiving,
           NEW r \in RunIds, FinishRun(r), RunExists(r)
    PROVE  /\ Moves /\ run' = [run EXCEPT ![r].open = FALSE] /\ ~run'[r].open
           /\ \A j \in JobIds : Keeps(j) \/ Releases(j)
<1> DEFINE j == run[r].job
           row == Unleased(job[j])
<1>1. j \in JobIds /\ job[j] \in JobRow /\ run[r] \in RunRow
  BY DEF TypeOK, RunRow, RunExists, JobIds
<1>2. run' = [run EXCEPT ![r] = [run[r] EXCEPT !.open = FALSE]]
  BY DEF FinishRun
<1>3. /\ \A q \in RunIds : run'[q].job = run[q].job /\ (run'[q].open = run[q].open \/ ~run'[q].open)
      /\ ~run'[r].open
  <2>1. \A q \in RunIds \ {r} : run'[q] = run[q]
    BY <1>2 DEF TypeOK
  <2>2. run'[r] = [run[r] EXCEPT !.open = FALSE]
    BY <1>2 DEF TypeOK
  <2>3. run'[r].job = run[r].job /\ run'[r].open = FALSE
    BY <1>1, <2>2, RunFields
  <2> QED BY <2>1, <2>3
<1>4. CASE job' = job
  BY <1>2, <1>3, <1>4 DEF Moves, RowMove, Keeps, SameRow, SameJob, RunMove, RunKept
<1>5. CASE /\ job[j].run = r /\ job[j].status \in Terminal
           /\ job' = [job EXCEPT ![j] = row]
  <2>1. /\ SameJob(job[j], row) /\ row.reviewer = job[j].reviewer /\ row.status = job[j].status
        /\ row.run = 0 /\ row.owner = None
    BY <1>1, UnleasedFields
  <2> HIDE DEF row
  <2>2. job'[j] = row /\ \A i \in JobIds \ {j} : job'[i] = job[i]
    BY <1>1, <1>5 DEF TypeOK
  <2>3. Releases(j)
    BY <1>3, <1>5, <2>1, <2>2 DEF Releases, Frees
  <2>4. \A i \in JobIds : Keeps(i) \/ Releases(i)
    BY <2>2, <2>3 DEF Keeps, SameRow, SameJob
  <2> QED BY <1>2, <1>3, <2>4 DEF Moves, RowMove, RunMove, RunKept
<1> QED BY <1>4, <1>5 DEF FinishRun

LEMMA RunStatusMoves ==
    ASSUME TypeOK, NEW w \in Workers, worker[w].pc = "run_status", worker[w].run \in RunIds,
           NEW k, SaveRunRunning(worker[w].run, k)
    PROVE  Moves
<1> DEFINE r == worker[w].run
<1>1. /\ job' = job /\ run[r] \in RunRow
      /\ run' = [run EXCEPT ![r] = [run[r] EXCEPT !.open = TRUE, !.reviewer = k]]
  BY DEF SaveRunRunning, TypeOK
<1>2. /\ \A q \in RunIds \ {r} : run'[q] = run[q]
      /\ run'[r] = [run[r] EXCEPT !.open = TRUE, !.reviewer = k]
  BY <1>1 DEF TypeOK
<1>3. run'[r].job = run[r].job /\ run'[r].open
  <2>1. run[r] \in [job : 0..MaxJobs, open : BOOLEAN, reviewer : 0..MaxRuns]
    BY <1>1 DEF RunRow
  <2> QED BY <1>2, <2>1
<1>4. \A q \in RunIds : RunKept(q)
  BY <1>2, <1>3 DEF RunKept
<1> QED BY <1>1, <1>4 DEF Moves, RowMove, Keeps, SameRow, SameJob, RunMove, RunKept

LEMMA IntentMoves ==
    ASSUME TypeOK, NEW w \in Workers, agent[w].step = "checked", agent[w].j \in JobIds,
           CanRecordIntent(agent[w].j), RecordIntent(agent[w].j)
    PROVE  Moves
<1> DEFINE j == agent[w].j
           s == IF job[j].status = "reconciling" THEN "reconciling" ELSE "submission_pending"
           row == [job[j] EXCEPT !.intent = TRUE, !.status = s]
<1>1. job' = [job EXCEPT ![j] = row] /\ run' = run
  BY DEF RecordIntent
<1>2. job[j] \in JobRow /\ Stored(j) /\ ~job[j].receipt
  BY DEF TypeOK, CanRecordIntent
<1>3. /\ row.pr = job[j].pr /\ row.head = job[j].head /\ row.attempts = job[j].attempts
      /\ row.intent /\ ~row.receipt /\ row.status = s /\ SameHands(job[j], row)
      /\ row.owner = job[j].owner
  BY <1>2 DEF JobRow, SameHands
<1> HIDE DEF row
<1>4. job'[j] = row /\ \A i \in JobIds \ {j} : job'[i] = job[i]
  BY <1>1 DEF TypeOK
<1>5. Intends(j, w)
  BY <1>2, <1>3, <1>4 DEF Intends
<1> QED BY <1>1, <1>4, <1>5, OneMoves DEF RowMove

LEMMA DoubtMoves ==
    ASSUME TypeOK, NEW w \in Workers, agent[w].step = "posting", agent[w].j \in JobIds,
           MarkReconciling(agent[w].j)
    PROVE  Moves
<1> DEFINE j == agent[w].j
           row == [job[j] EXCEPT !.status = "reconciling"]
<1>1. CASE job' = job /\ run' = run
  BY <1>1, RowsKept
<1>2. CASE Stored(j) /\ job[j].intent /\ ~job[j].receipt /\ job' = [job EXCEPT ![j] = row] /\ run' = run
  <2>1. job[j] \in JobRow
    BY DEF TypeOK
  <2>2. /\ SameJob(job[j], row) /\ SameHands(job[j], row) /\ row.owner = job[j].owner
        /\ row.status = "reconciling"
    BY <2>1, StatusFields
  <2> HIDE DEF row
  <2>3. job'[j] = row /\ \A i \in JobIds \ {j} : job'[i] = job[i]
    BY <1>2 DEF TypeOK
  <2>4. Doubts(j, w)
    BY <1>2, <2>2, <2>3 DEF Doubts
  <2> QED BY <1>2, <2>3, <2>4, OneMoves DEF RowMove
<1> QED BY <1>1, <1>2 DEF MarkReconciling

LEMMA ReceiptMoves ==
    ASSUME TypeOK, NEW w \in Workers, NEW j \in JobIds,
           \/ agent[w].step = "posting" /\ agent[w].j = j
           \/ worker[w].pc = "reconcile" /\ worker[w].j = j,
           CanRecordReceipt(j), RecordReceipt(j)
    PROVE  Moves
<1> DEFINE o == IF job[j].run = 0 THEN None ELSE job[j].owner
           l == job[j].run # 0 /\ job[j].live
           row == [job[j] EXCEPT !.receipt = TRUE, !.status = "succeeded", !.due = TRUE,
                                 !.owner = o, !.live = l]
<1>1. job' = [job EXCEPT ![j] = row] /\ run' = run
  BY DEF RecordReceipt, WriteRow
<1>2. job[j] \in JobRow /\ Stored(j) /\ job[j].intent
  BY DEF TypeOK, CanRecordReceipt
<1>3. o \in {job[j].owner, None}
  OBVIOUS
<1> HIDE DEF o, l
<1>4. /\ row.pr = job[j].pr /\ row.head = job[j].head /\ row.attempts = job[j].attempts
      /\ row.intent /\ row.receipt /\ row.status = "succeeded" /\ SameHands(job[j], row)
      /\ row.owner \in {job[j].owner, None}
  BY <1>2, <1>3 DEF JobRow, SameHands
<1> HIDE DEF row
<1>5. job'[j] = row /\ \A i \in JobIds \ {j} : job'[i] = job[i]
  BY <1>1 DEF TypeOK
<1>6. Succeeds(j, w)
  BY <1>2, <1>4, <1>5 DEF Succeeds
<1> QED BY <1>1, <1>5, <1>6, OneMoves DEF RowMove

LEMMA OwnershipMoves ==
    ASSUME TypeOK, NEW expired, ReleaseTerminalOwnership(expired)
    PROVE  Moves
<1>1. run' = run /\ job' = [j \in JobIds |->
                  IF /\ job[j].status \in Terminal /\ job[j].run # 0
                     /\ j \in expired /\ ~run[job[j].run].open
                  THEN Unleased(job[j]) ELSE job[j]]
  BY DEF ReleaseTerminalOwnership
<1>2. ASSUME NEW j \in JobIds PROVE RowMove(j)
  <2>1. job[j] \in JobRow /\ (job[j].run # 0 => job[j].run \in RunIds)
    BY DEF TypeOK, JobRow, RunIds
  <2>2. CASE job'[j] = job[j]
    BY <2>2 DEF RowMove, Keeps, SameRow, SameJob
  <2>3. CASE /\ job[j].status \in Terminal /\ ~run[job[j].run].open
             /\ job'[j] = Unleased(job[j])
    <3>1. /\ SameJob(job[j], job'[j]) /\ job'[j].reviewer = job[j].reviewer
          /\ job'[j].status = job[j].status /\ job'[j].run = 0 /\ job'[j].owner = None
      BY <2>1, <2>3, UnleasedFields
    <3> QED BY <1>1, <2>1, <2>3, <3>1 DEF RowMove, Releases, Frees
  <2> QED BY <1>1, <2>2, <2>3
<1> QED BY <1>1, <1>2 DEF Moves, RunMove, RunKept

LEMMA RecoverMoves ==
    ASSUME TypeOK, NEW w \in Workers, worker[w].pc \in Archiving,
           NEW expired, RecoverJobs(expired)
    PROVE  /\ Moves
           /\ \A j \in JobIds \cap expired : job'[j].status \in Executing => job'[j].owner = None
<1>1. /\ run' = [r \in RunIds |->
                  IF \E j \in expired : job[j].run = r /\ job[j].status \in Executing
                  THEN [run[r] EXCEPT !.open = FALSE] ELSE run[r]]
      /\ job' = [j \in JobIds |->
                  IF MustRecover(j, expired)
                  THEN [Unleased(job[j]) EXCEPT
                          !.status = IF job[j].intent THEN "reconciling"
                                     ELSE "retry_waiting",
                          !.due = TRUE]
                  ELSE job[j]]
  BY DEF RecoverJobs
<1>2. ASSUME NEW r \in RunIds
      PROVE  /\ run'[r].job = run[r].job /\ (run'[r].open = run[r].open \/ ~run'[r].open)
             /\ (\E j \in expired : job[j].run = r /\ job[j].status \in Executing) => ~run'[r].open
  <2>1. run[r] \in RunRow
    BY DEF TypeOK
  <2>2. [run[r] EXCEPT !.open = FALSE].job = run[r].job /\ [run[r] EXCEPT !.open = FALSE].open = FALSE
    BY <2>1, RunFields
  <2> QED BY <1>1, <2>2
<1>3. ASSUME NEW j \in JobIds
      PROVE  \/ job'[j] = job[j] /\ ~MustRecover(j, expired)
             \/ Recovers(j) /\ MustRecover(j, expired)
  <2>1. job[j] \in JobRow /\ (job[j].run # 0 => job[j].run \in RunIds)
    BY DEF TypeOK, JobRow, RunIds
  <2>2. CASE ~MustRecover(j, expired)
    BY <1>1, <2>2
  <2>3. CASE MustRecover(j, expired)
    <3> DEFINE s == IF job[j].intent THEN "reconciling" ELSE "retry_waiting"
    <3>1. job'[j] = [Unleased(job[j]) EXCEPT !.status = s, !.due = TRUE]
      BY <1>1, <2>3
    <3> HIDE DEF s
    <3>2. /\ SameJob(job[j], job'[j]) /\ job'[j].reviewer = job[j].reviewer
          /\ job'[j].status = s /\ job'[j].run = 0 /\ job'[j].owner = None
      BY <2>1, <3>1 DEF JobRow, SameJob, Unleased
    <3>3. job[j].status \in Executing /\ j \in expired
      BY <2>3 DEF MustRecover, Executing
    <3>4. job[j].run # 0 => ~run'[job[j].run].open
      BY <1>2, <2>1, <3>3
    <3> QED BY <2>1, <2>3, <3>2, <3>3, <3>4 DEF Recovers, Frees, s
  <2> QED BY <2>2, <2>3
<1>4. ASSUME NEW j \in JobIds \cap expired, job'[j].status \in Executing PROVE job'[j].owner = None
  <2>1. CASE Recovers(j)
    BY <2>1 DEF Recovers, Frees
  <2>2. CASE job'[j] = job[j] /\ ~MustRecover(j, expired)
    BY <1>4, <2>2 DEF MustRecover, Executing
  <2> QED BY <1>3, <2>1, <2>2
<1> QED BY <1>2, <1>3, <1>4 DEF Moves, RowMove, Keeps, SameRow, SameJob, RunMove, RunKept

LEMMA CancelMoves ==
    ASSUME TypeOK, CancelActive
    PROVE  Moves
<1>1. /\ run' = run
      /\ job' = [j \in JobIds |->
                 IF job[j].status \in Active
                 THEN [job[j] EXCEPT !.status = "cancelled", !.owner = None, !.live = FALSE]
                 ELSE job[j]]
  BY DEF CancelActive
<1>2. ASSUME NEW j \in JobIds PROVE Keeps(j) \/ Drops(j)
  <2>1. job[j] \in JobRow
    BY DEF TypeOK
  <2>2. CASE job'[j] = job[j]
    BY <2>2 DEF Keeps, SameRow, SameJob
  <2>3. CASE /\ job[j].status \in Active
             /\ job'[j] = [job[j] EXCEPT !.status = "cancelled", !.owner = None, !.live = FALSE]
    <3>1. /\ SameJob(job[j], job'[j]) /\ SameHands(job[j], job'[j])
          /\ job'[j].status = "cancelled" /\ job'[j].owner = None
      BY <2>1, <2>3 DEF JobRow, SameJob, SameHands
    <3> QED BY <2>3, <3>1 DEF Drops
  <2> QED BY <1>1, <2>2, <2>3
<1> QED BY <1>1, <1>2 DEF Moves, RowMove, RunMove, RunKept

LEMMA PruneMoves ==
    ASSUME TypeOK, NEW j \in JobIds, Prune(j)
    PROVE  Moves
<1> DEFINE row == [job[j] EXCEPT !.status = "deleted"]
<1>1. job' = [job EXCEPT ![j] = row] /\ run' = run /\ job[j].status \in Terminal /\ job[j] \in JobRow
  BY DEF Prune, TypeOK
<1>2. /\ SameJob(job[j], row) /\ SameHands(job[j], row) /\ row.owner = job[j].owner
      /\ row.status = "deleted"
  BY <1>1, StatusFields
<1> HIDE DEF row
<1>3. job'[j] = row /\ \A i \in JobIds \ {j} : job'[i] = job[i]
  BY <1>1 DEF TypeOK
<1> QED BY <1>1, <1>2, <1>3, OneMoves DEF RowMove, Prunes

-----------------------------------------------------------------------------
(***************************************************************************)
(* Every step is such a move.                                              *)
(***************************************************************************)
LEMMA GoesMoves ==
    ASSUME WorkersOK(worker), NEW w \in Workers, NEW row, Goes(w, row)
    PROVE  worker'[w] = row /\ \A v \in Workers \ {w} : Stays(v)
BY DEF WorkersOK, Goes, Stays

LEMMA MoveBy ==
    ASSUME Moves, NEW w \in Workers, WorkerMove(w), \A v \in Workers \ {w} : Stays(v),
           agent' = agent
    PROVE  LoopMove
BY DEF LoopMove, WorkerMove, TurnMove

LEMMA OvertakesMoves ==
    ASSUME WorkersOK(worker), NEW S, Overtakes(S)
    PROVE  \A v \in Workers : Stays(v)
<1>1. ASSUME NEW v \in Workers
      PROVE  worker'[v] = worker[v] \/ worker'[v] = [worker[v] EXCEPT !.overtaken = TRUE]
  BY DEF Overtakes
<1>2. ASSUME NEW v \in Workers PROVE worker[v] \in WorkerRow
  BY DEF WorkersOK
<1>3. ASSUME NEW v \in Workers PROVE Stays(v)
  <2>1. CASE worker'[v] = worker[v]
    BY <2>1 DEF Stays
  <2>2. CASE worker'[v] = [worker[v] EXCEPT !.overtaken = TRUE]
    BY <1>2, <2>2 DEF Stays, WorkerRow
  <2> QED BY <1>1, <2>1, <2>2
<1> QED BY <1>3

LEMMA OvertakingMoves ==
    ASSUME WorkersOK(worker), NEW w \in Workers, NEW S, Overtaking(w, S)
    PROVE  worker'[w] = Resting("idle") /\ \A v \in Workers \ {w} : Stays(v)
<1>1. ASSUME NEW v \in Workers \ {w}
      PROVE  worker'[v] = worker[v] \/ worker'[v] = [worker[v] EXCEPT !.overtaken = TRUE]
  BY DEF Overtaking
<1>2. ASSUME NEW v \in Workers PROVE worker[v] \in WorkerRow
  BY DEF WorkersOK
<1>3. ASSUME NEW v \in Workers \ {w} PROVE Stays(v)
  <2>1. CASE worker'[v] = worker[v]
    BY <2>1 DEF Stays
  <2>2. CASE worker'[v] = [worker[v] EXCEPT !.overtaken = TRUE]
    BY <1>2, <2>2 DEF Stays, WorkerRow
  <2> QED BY <1>1, <2>1, <2>2
<1>4. worker'[w] = Resting("idle")
  BY DEF Overtaking
<1> QED BY <1>3, <1>4

LEMMA RestedMoves ==
    ASSUME NEW w \in Workers, NEW pc \in {"off", "startup", "idle", "rec_terminal", "stopping"}
    PROVE  /\ worker'[w] = Resting(pc) => WorkerMove(w)
           /\ \A todo, kept : worker'[w] = [Resting(pc) EXCEPT !.todo = todo, !.kept = kept]
                              => WorkerMove(w)
           /\ \A todo, expired : worker'[w] = [Resting(pc) EXCEPT !.expired = expired, !.todo = todo]
                                 => WorkerMove(w)
           /\ \A j, heartbeat : worker'[w] = [Resting(pc) EXCEPT !.j = j, !.heartbeat = heartbeat]
                                => WorkerMove(w)
<1>1. pc \in Control
  BY PcTypes DEF Unclaimed, Recovering
<1>p. Resting(pc) \in WorkerRow /\ Resting(pc).pc = pc /\ Resting(pc).copy = NoCopy
  BY <1>1, RestingType DEF Resting
<1>r. PICK m : m = Resting(pc)
  OBVIOUS
<1>2. m \in WorkerRow /\ m.pc = pc /\ m.copy = NoCopy
  BY <1>p, <1>r
<1>3. worker'[w].pc = pc /\ worker'[w].copy = NoCopy => WorkerMove(w)
  BY DEF WorkerMove, Rested
<1>4. ASSUME NEW todo, NEW kept, worker'[w] = [m EXCEPT !.todo = todo, !.kept = kept]
      PROVE  WorkerMove(w)
  BY <1>2, <1>3, <1>4 DEF WorkerRow
<1>5. ASSUME NEW todo, NEW expired, worker'[w] = [m EXCEPT !.expired = expired, !.todo = todo]
      PROVE  WorkerMove(w)
  BY <1>2, <1>3, <1>5 DEF WorkerRow
<1>6. ASSUME NEW j, NEW heartbeat, worker'[w] = [m EXCEPT !.j = j, !.heartbeat = heartbeat]
      PROVE  WorkerMove(w)
  BY <1>2, <1>3, <1>6 DEF WorkerRow
<1>7. worker'[w] = m => WorkerMove(w)
  BY <1>2, <1>3
<1>8. \A todo, kept : worker'[w] = [m EXCEPT !.todo = todo, !.kept = kept] => WorkerMove(w)
  BY <1>4, Zenon
<1>9. \A todo, expired : worker'[w] = [m EXCEPT !.expired = expired, !.todo = todo]
                         => WorkerMove(w)
  BY <1>5, Zenon
<1>10. \A j, heartbeat : worker'[w] = [m EXCEPT !.j = j, !.heartbeat = heartbeat]
                         => WorkerMove(w)
  BY <1>6, Zenon
<1> QED BY <1>r, <1>7, <1>8, <1>9, <1>10, Zenon

LEMMA ProduceMoves ==
    ASSUME LoopInv, NEW p \in Prs, Produce(p)
    PROVE  LoopMove
<1>0. TypeOK /\ WorkersOK(worker) /\ agent' = agent
  BY DEF LoopInv, TablesOK, Produce, Push, Signal, Discover, CheckWatch
<1>1. Moves
  <2>1. CASE Push(p)
    BY <2>1, RowsKept DEF Push, tables
  <2>2. CASE Signal(p)
    BY <1>0, <2>2, HeadType, EnqueueMoves DEF Signal, Enqueue
  <2>3. CASE Discover(p)
    <3>1. PICK h \in 1..head[p] : AdmitCandidate(p, h) \/ AdmitWatch(p, h)
      BY <2>3 DEF Discover
    <3> QED BY <1>0, <3>1, HeadType, AdmissionMoves
  <2>4. CASE CheckWatch(p)
    <3>1. PICK h \in 1..head[p], d \in Deliveries \cup {None} :
             \/ EnqueueFromWatch(p, watch[p], h, d)
             \/ ReplaceWatchHead(p, watch[p], h) \/ DeleteWatch(p, watch[p])
      BY <2>4 DEF CheckWatch
    <3> QED BY <1>0, <3>1, HeadType, AdmissionMoves
  <2> QED BY <2>1, <2>2, <2>3, <2>4 DEF Produce
<1>2. worker' = worker \/ \E S : Overtakes(S)
  BY DEF Produce, Push, Signal, Discover, CheckWatch
<1>3. \A v \in Workers : Stays(v)
  BY <1>0, <1>2, OvertakesMoves DEF Stays
<1> QED BY <1>0, <1>1, <1>3 DEF LoopMove, WorkerMove, TurnMove

LEMMA PassMoves ==
    ASSUME LoopInv, NEW w \in Workers, worker[w].pc \in Unclaimed,
           NEW pc \in Unclaimed, pc \in SweptPcs => worker[w].pc \in SweptPcs, NEW todo, NEW kept,
           \/ Goes(w, [worker[w] EXCEPT !.pc = pc])
           \/ Goes(w, [worker[w] EXCEPT !.pc = pc, !.todo = todo])
           \/ Goes(w, [worker[w] EXCEPT !.pc = pc, !.kept = kept, !.todo = todo])
    PROVE  WorkerMove(w) /\ \A v \in Workers \ {w} : Stays(v)
<1> DEFINE m == worker[w] n == worker'[w]
<1>1. WorkersOK(worker) /\ m \in WorkerRow
  BY DEF LoopInv, WorkersOK
<1>2. /\ \/ n = [m EXCEPT !.pc = pc]
         \/ n = [m EXCEPT !.pc = pc, !.todo = todo]
         \/ n = [m EXCEPT !.pc = pc, !.kept = kept, !.todo = todo]
      /\ \A v \in Workers \ {w} : Stays(v)
  BY <1>1, GoesMoves
<1>3. n.pc = pc /\ n.j = m.j /\ n.copy = m.copy /\ n.expired = m.expired
  <2>1. CASE n = [m EXCEPT !.pc = pc]
    BY <1>1, <2>1 DEF WorkerRow
  <2>2. CASE n = [m EXCEPT !.pc = pc, !.todo = todo]
    BY <1>1, <2>2 DEF WorkerRow
  <2>3. CASE n = [m EXCEPT !.pc = pc, !.kept = kept, !.todo = todo]
    BY <1>1, <2>3 DEF WorkerRow
  <2> QED BY <1>2, <2>1, <2>2, <2>3
<1>4. Passes(w)
  BY <1>3 DEF Passes
<1> QED BY <1>2, <1>4 DEF WorkerMove

LEMMA ListedMoves ==
    ASSUME LoopInv, NEW w \in Workers, NEW todo, Goes(w, [worker[w] EXCEPT !.todo = todo])
    PROVE  \A v \in Workers : Stays(v)
<1>1. WorkersOK(worker) /\ worker[w] \in WorkerRow
  BY DEF LoopInv, WorkersOK
<1>2. worker'[w] = [worker[w] EXCEPT !.todo = todo] /\ \A v \in Workers \ {w} : Stays(v)
  BY <1>1, GoesMoves
<1>3. Stays(w)
  BY <1>1, <1>2 DEF WorkerRow, Stays
<1> QED BY <1>2, <1>3

LEMMA PoolMoves ==
    ASSUME LoopInv, NEW w \in Workers, Pool(w)
    PROVE  LoopMove
<1> DEFINE m == worker[w]
<1>0. /\ TypeOK /\ WorkersOK(worker) /\ m \in WorkerRow
      /\ {"off", "startup", "idle", "claim", "rec_terminal", "rec_active", "rec_jobs",
          "rec_done", "repair"} \subseteq Unclaimed
      /\ Unclaimed \subseteq Archiving
      /\ {"rec_done", "repair", "claim"} = SweptPcs
  BY DEF LoopInv, TablesOK, WorkersOK, Unclaimed, Recovering, SweptPcs, Archiving
<1>1. UNCHANGED tables => Moves
  BY RowsKept DEF tables
<1>2. \A v \in Workers : agent'[v].step \in {agent[v].step, "none"}
  <2>1. agent' = agent \/ agent' = [agent EXCEPT ![w] = NoAgent]
           \/ agent' = [agent EXCEPT ![w] = IF @.reviewer = worker[w].kept THEN @ ELSE NoAgent]
    BY DEF Pool, Start, FinishListed, Started, Recover, RecoverActiveRuns, RecoverOwnership,
       RecoverExpiredJobs, Repair, Repaired, ClaimJob, NothingDue
  <2>2. NoAgent.step = "none"
    BY DEF NoAgent
  <2> QED BY <2>1, <2>2 DEF LoopInv, AgentsOK
<1>3. ASSUME Moves, WorkerMove(w), \A v \in Workers \ {w} : Stays(v) PROVE LoopMove
  BY <1>2, <1>3 DEF LoopMove, TurnMove, WorkerMove
<1>4. CASE Start(w)
  <2>1. PICK k : Goes(w, [Resting("startup") EXCEPT !.todo = OpenRuns, !.kept = k])
    BY <1>4 DEF Start
  <2>2. /\ worker'[w] = [Resting("startup") EXCEPT !.todo = OpenRuns, !.kept = k]
        /\ \A v \in Workers \ {w} : Stays(v)
    BY <1>0, <2>1, GoesMoves
  <2>3. WorkerMove(w)
    BY <2>2, RestedMoves
  <2> QED BY <1>0, <1>3, <1>4, <2>2, <2>3, StartMoves
<1>5. CASE FinishListed(w)
  <2>1. PICK r \in Listed(w) : FinishRun(r) /\ Goes(w, [worker[w] EXCEPT !.todo = @ \ {r}])
    BY <1>5 DEF FinishListed
  <2>2. r \in RunIds /\ RunExists(r) /\ m.pc \in Archiving
    BY <1>0, <1>5, <2>1 DEF WorkerRow, Listed, Finishable, CanFinishRun, FinishListed
  <2>3. Moves
    BY <1>0, <2>1, <2>2, FinishMoves
  <2>4. \A v \in Workers : Stays(v)
    BY <2>1, ListedMoves
  <2> QED BY <1>3, <2>3, <2>4 DEF WorkerMove
<1>6. CASE Started(w) \/ NothingDue(w)
  <2>1. Rests(w, "idle") /\ UNCHANGED tables
    BY <1>6 DEF Started, NothingDue
  <2>2. WorkerMove(w) /\ \A v \in Workers \ {w} : Stays(v)
    BY <1>0, <2>1, GoesMoves, RestedMoves DEF Rests
  <2> QED BY <1>1, <1>3, <2>1, <2>2
<1>7. CASE Recover(w)
  <2>1. PICK e, todo : Goes(w, [Resting("rec_terminal") EXCEPT !.expired = e, !.todo = todo])
    BY <1>7 DEF Recover
  <2>2. /\ worker'[w] = [Resting("rec_terminal") EXCEPT !.expired = e, !.todo = todo]
        /\ \A v \in Workers \ {w} : Stays(v)
    BY <1>0, <2>1, GoesMoves
  <2>3. WorkerMove(w)
    BY <2>2, RestedMoves
  <2> QED BY <1>1, <1>3, <1>7, <2>2, <2>3 DEF Recover
<1>8. CASE RecoverActiveRuns(w) \/ Repair(w) \/ Repaired(w)
  <2>1. /\ UNCHANGED tables /\ m.pc \in Unclaimed
        /\ \E pc \in Unclaimed : \E todo, kept :
              /\ pc \in SweptPcs => m.pc \in SweptPcs
              /\ \/ Goes(w, [m EXCEPT !.pc = pc])
                 \/ Goes(w, [m EXCEPT !.pc = pc, !.todo = todo])
                 \/ Goes(w, [m EXCEPT !.pc = pc, !.kept = kept, !.todo = todo])
    BY <1>0, <1>8 DEF RecoverActiveRuns, Repair, Repaired, To
  <2>2. WorkerMove(w) /\ \A v \in Workers \ {w} : Stays(v)
    BY <2>1, PassMoves
  <2> QED BY <1>1, <1>3, <2>1, <2>2
<1>9. CASE RecoverOwnership(w)
  <2>1. /\ ReleaseTerminalOwnership(Expired(w)) /\ Goes(w, [m EXCEPT !.pc = "rec_jobs"])
        /\ m.pc \in Unclaimed /\ "rec_jobs" \in Unclaimed /\ "rec_jobs" \notin SweptPcs
    BY <1>0, <1>9 DEF RecoverOwnership, To
  <2>2. WorkerMove(w) /\ \A v \in Workers \ {w} : Stays(v)
    BY <2>1, PassMoves
  <2> QED BY <1>0, <1>3, <2>1, <2>2, OwnershipMoves
<1>10. CASE RecoverExpiredJobs(w)
  <2>1. /\ RecoverJobs(Expired(w)) /\ m.pc = "rec_jobs" /\ m.pc \in Unclaimed
        /\ m.pc \in Archiving /\ worker'[w] = [m EXCEPT !.pc = "rec_done"]
        /\ \A v \in Workers \ {w} : Stays(v)
    BY <1>0, <1>10, GoesMoves DEF RecoverExpiredJobs, To
  <2>2. /\ Moves
        /\ \A j \in JobIds \cap Expired(w) : job'[j].status \in Executing => job'[j].owner = None
    BY <1>0, <2>1, RecoverMoves
  <2>3. \A j \in m.expired : ~ExecutesRow(job'[j])
    BY <1>0, <2>2 DEF Expired, WorkerRow, ExecutesRow
  <2>4. /\ worker'[w].pc = "rec_done" /\ worker'[w].j = m.j /\ worker'[w].copy = m.copy
        /\ worker'[w].expired = m.expired
    BY <1>0, <2>1 DEF WorkerRow
  <2>5. Passes(w)
    BY <1>0, <2>1, <2>3, <2>4 DEF Passes
  <2> QED BY <1>3, <2>1, <2>2, <2>5 DEF WorkerMove
<1>11. CASE ClaimJob(w)
  <2>1. PICK j \in JobIds :
           /\ Claim(j, w, Expired(w))
           /\ worker' = Renewed([worker EXCEPT ![w] =
                 [Resting(IF job[j].intent THEN "reconcile" ELSE "preflight") EXCEPT
                     !.j = j, !.copy = job'[j], !.heartbeat = TRUE]], j)
    BY <1>11 DEF ClaimJob
  <2> DEFINE pc == IF job[j].intent THEN "reconcile" ELSE "preflight"
             n == [Resting(pc) EXCEPT !.j = j, !.copy = job'[j], !.heartbeat = TRUE]
  <2>2. pc \in Control
    BY DEF Control, Reconcile, Preflight
  <2>3. Resting(pc) \in WorkerRow /\ Resting(pc).pc = pc
    BY <2>2, RestingType DEF Resting
  <2> HIDE DEF pc, n
  <2>4. worker' = Renewed([worker EXCEPT ![w] = n], j)
    BY <2>1 DEF n, pc
  <2>5. ASSUME NEW v \in Workers \ {w} PROVE Stays(v) /\ j \notin worker'[v].expired
    <3>1. worker[v] \in WorkerRow /\ worker'[v] = [worker[v] EXCEPT !.expired = worker[v].expired \ {j}]
      BY <1>0, <2>4 DEF Renewed, WorkersOK
    <3> QED BY <3>1 DEF Stays, WorkerRow
  <2>6. worker'[w] = [n EXCEPT !.expired = n.expired \ {j}]
    BY <1>0, <2>4 DEF Renewed, WorkersOK
  <2>7. worker'[w].pc = pc /\ worker'[w].j = j /\ worker'[w].copy = job'[j] /\ j \notin worker'[w].expired
    <3>1. ASSUME NEW r \in WorkerRow, NEW c
          PROVE  LET a == [r EXCEPT !.j = j, !.copy = c, !.heartbeat = TRUE]
                     b == [a EXCEPT !.expired = a.expired \ {j}]
                 IN b.pc = r.pc /\ b.j = j /\ b.copy = c /\ j \notin b.expired
      BY DEF WorkerRow
    <3> QED BY <2>3, <2>6, <3>1 DEF n
  <2>8. \A v \in Workers : j \notin worker'[v].expired
    BY <2>5, <2>7
  <2>9. Moves /\ Claims(j, w)
    BY <1>0, <1>11, <2>1, <2>8, ClaimMoves DEF ClaimJob
  <2>10. Claimed(w)
    BY <2>7, <2>9 DEF Claimed, pc
  <2> QED BY <1>3, <2>5, <2>9, <2>10 DEF WorkerMove
<1> QED BY <1>4, <1>5, <1>6, <1>7, <1>8, <1>9, <1>10, <1>11 DEF Pool

\* A worker stamps a row, or moves on with the one it has.
LEMMA SaveFields ==
    ASSUME NEW m \in WorkerRow, NEW pc, NEW c
    PROVE  /\ LET n == [m EXCEPT !.pc = pc, !.copy = c, !.overtaken = FALSE]
              IN n.pc = pc /\ n.copy = c /\ n.j = m.j /\ n.run = m.run
           /\ LET n == [m EXCEPT !.pc = pc, !.overtaken = FALSE]
              IN n.pc = pc /\ n.copy = m.copy /\ n.j = m.j /\ n.run = m.run
           /\ LET n == [m EXCEPT !.pc = pc]
              IN n.pc = pc /\ n.copy = m.copy /\ n.j = m.j /\ n.run = m.run
           /\ LET n == [m EXCEPT !.copy = c]
              IN n.pc = m.pc /\ n.copy = c /\ n.j = m.j /\ n.run = m.run
           /\ LET n == [m EXCEPT !.pc = pc, !.copy = c]
              IN n.pc = pc /\ n.copy = c /\ n.j = m.j /\ n.run = m.run
<1>1. m \in [pc : Control, j : 0..MaxJobs, copy : JobRow, overtaken : BOOLEAN, run : 0..MaxRuns,
             result : {"ok", "timeout", "err", "unfinalized"}, heartbeat : BOOLEAN,
             cancelled : BOOLEAN, expired : SUBSET JobIds, todo : SUBSET RunIds,
             kept : 0..MaxRuns]
  BY DEF WorkerRow
<1> QED BY <1>1

LEMMA SettledRows ==
    ASSUME NEW c \in JobRow
    PROVE  /\ \A s \in Terminal : Settled(c, Finished(c, s))
           /\ \A d \in Failures(c) : Settled(c, d)
           /\ Doubted(c, BeginReconciliation(c))
           /\ {"skipped", "superseded", "failed", "succeeded"} \subseteq Terminal
<1>1. \A s : LetsGo(c, Finished(c, s)) /\ Finished(c, s).status = s
  BY FinishedFields DEF LetsGo
<1>2. LetsGo(c, ScheduleRetry(c)) /\ ScheduleRetry(c).status = "retry_waiting"
  BY FinishedFields DEF LetsGo
<1>3. LetsGo(c, BeginReconciliation(c)) /\ BeginReconciliation(c).status = "reconciling"
  BY FinishedFields DEF LetsGo
<1>4. {"skipped", "superseded", "failed", "succeeded"} \subseteq Terminal
  BY DEF Terminal
<1> QED BY <1>1, <1>2, <1>3, <1>4 DEF Settled, Doubted, Failures

LEMMA PreflightMoves ==
    ASSUME LoopInv, NEW w \in Workers,
           \/ PreflightContinues(w) \/ PreflightRejects(w) \/ PreflightHeadChanged(w)
           \/ PreflightCiPending(w) \/ PreflightSaves(w) \/ Replace(w)
    PROVE  LoopMove
<1> DEFINE m == worker[w] n == worker'[w]
<1>0. /\ TypeOK /\ head \in [Prs -> Heads] /\ WorkersOK(worker) /\ m \in WorkerRow
      /\ m.j \in JobIds /\ m.copy \in JobRow /\ m.pc \in Preflight
  <2>1. m.pc \in Preflight
    BY DEF PreflightContinues, PreflightRejects, PreflightHeadChanged, PreflightCiPending,
       PreflightSaves, Replace, Preflight
  <2>2. m.pc \notin Unclaimed
    BY <2>1 DEF Preflight, Unclaimed, Recovering
  <2> QED BY <2>1, <2>2 DEF LoopInv, TablesOK, WorkersOK, WorkerOK, WorkerRow
<1>1. agent' = agent
  BY DEF PreflightContinues, PreflightRejects, PreflightHeadChanged, PreflightCiPending,
     PreflightSaves, Replace
<1>2. UNCHANGED tables => Moves
  BY RowsKept DEF tables
<1>3. ASSUME NEW pc \in {"idle", "off"}, Rests(w, pc)
      PROVE  WorkerMove(w) /\ \A v \in Workers \ {w} : Stays(v)
  BY <1>0, <1>3, GoesMoves, RestedMoves DEF Rests
<1>4. CASE PreflightContinues(w) \/ PreflightRejects(w) \/ PreflightHeadChanged(w)
  <2>1. /\ m.pc = "preflight" /\ UNCHANGED tables
        /\ \/ Save(w, "begin", m.copy)
           \/ \E c : \E pc \in {"preflight_save", "preflight_replace"} : Settled(m.copy, c) /\ Save(w, pc, c)
    <3>0. /\ \A c \in Failures(m.copy) \cup {Finished(m.copy, "skipped")} : Settled(m.copy, c)
          /\ Settled(m.copy, Finished(m.copy, "superseded"))
      BY <1>0, SettledRows
    <3>1. CASE PreflightContinues(w)
      BY <3>1 DEF PreflightContinues
    <3>2. CASE PreflightRejects(w)
      <4>1. PICK c \in Failures(m.copy) \cup {Finished(m.copy, "skipped")} :
               Save(w, "preflight_save", c)
        BY <3>2 DEF PreflightRejects
      <4>2. Settled(m.copy, c)
        BY <3>0, <4>1
      <4> QED BY <3>2, <4>1, <4>2 DEF PreflightRejects
    <3>3. CASE PreflightHeadChanged(w)
      BY <3>0, <3>3 DEF PreflightHeadChanged
    <3> QED BY <1>4, <3>1, <3>2, <3>3
  <2>2. \E c, pc : /\ Save(w, pc, c)
                   /\ \/ pc = "begin" /\ c = m.copy
                      \/ pc \in {"preflight_save", "preflight_replace"} /\ Settled(m.copy, c)
    BY <2>1
  <2>3. PICK c, pc : /\ Save(w, pc, c)
                     /\ \/ pc = "begin" /\ c = m.copy
                        \/ pc \in {"preflight_save", "preflight_replace"} /\ Settled(m.copy, c)
    BY <2>2
  <2>4. n = [m EXCEPT !.pc = pc, !.copy = c, !.overtaken = FALSE] /\ \A v \in Workers \ {w} : Stays(v)
    BY <1>0, <2>3, GoesMoves DEF Save
  <2>5. n.pc = pc /\ n.copy = c /\ n.j = m.j
    BY <1>0, <2>4, SaveFields
  <2>6. Preflights(w)
    BY <2>1, <2>3, <2>5 DEF Preflights
  <2> QED BY <1>1, <1>2, <2>1, <2>4, <2>6, MoveBy DEF WorkerMove
<1>5. CASE PreflightCiPending(w)
  <2>1. CASE /\ CanSkipForCi(m.j, w, m.copy.delivery) /\ SkipForCiPending(m.j) /\ Rests(w, "idle")
    <3>1. Moves
      BY <1>0, <1>5, <2>1, SkipMoves DEF PreflightCiPending
    <3> QED BY <1>1, <1>3, <2>1, <3>1, MoveBy
  <2>2. CASE /\ job[m.j].owner = w /\ job[m.j].status = "preparing"
             /\ Goes(w, [m EXCEPT !.copy = job[m.j]]) /\ UNCHANGED tables
    <3>1. n = [m EXCEPT !.copy = job[m.j]] /\ \A v \in Workers \ {w} : Stays(v)
      BY <1>0, <2>2, GoesMoves
    <3>2. n.pc = m.pc /\ n.copy = job[m.j] /\ n.j = m.j /\ m.pc = "preflight"
      BY <1>0, <1>5, <3>1, SaveFields DEF PreflightCiPending
    <3>3. Preflights(w)
      BY <2>2, <3>2 DEF Preflights, tables
    <3> QED BY <1>1, <1>2, <2>2, <3>1, <3>3, MoveBy DEF WorkerMove
  <2>3. CASE Rests(w, "off") /\ UNCHANGED tables
    BY <1>1, <1>2, <1>3, <2>3, MoveBy
  <2> QED BY <1>5, <2>1, <2>2, <2>3 DEF PreflightCiPending
<1>6. CASE PreflightSaves(w)
  <2>1. Moves
    BY <1>6, SaveMoves DEF PreflightSaves, SavePcs, Stamped
  <2>2. CASE m.pc = "preflight_replace" /\ To(w, "replace")
    <3>1. n = [m EXCEPT !.pc = "replace"] /\ \A v \in Workers \ {w} : Stays(v)
      BY <1>0, <2>2, GoesMoves DEF To
    <3>2. n.pc = "replace" /\ n.copy = m.copy /\ n.j = m.j
      BY <1>0, <3>1, SaveFields
    <3>3. Preflights(w)
      BY <2>2, <3>2 DEF Preflights
    <3> QED BY <1>1, <2>1, <3>1, <3>3, MoveBy DEF WorkerMove
  <2>3. CASE Rests(w, "idle")
    BY <1>1, <1>3, <2>1, <2>3, MoveBy
  <2> QED BY <1>6, <2>2, <2>3 DEF PreflightSaves
<1>7. CASE Replace(w)
  <2> DEFINE c == m.copy
  <2>1. CASE UNCHANGED tables /\ Rests(w, "idle")
    BY <1>1, <1>2, <1>3, <2>1, MoveBy
  <2>2. CASE \E h \in (c.head + 1)..head[c.pr] :
                Enqueue(c.pr, h, None) /\ Overtaking(w, Touched(c.pr, h, None))
    <3>1. PICK h \in (c.head + 1)..head[c.pr] :
                Enqueue(c.pr, h, None) /\ Overtaking(w, Touched(c.pr, h, None))
      BY <2>2
    <3>2. c.pr \in Prs /\ h \in Heads
      <4>1. c.pr \in Prs /\ c.head \in Heads /\ head[c.pr] \in Heads
        BY <1>0 DEF JobRow
      <4> QED BY <4>1, BoundAssumption DEF Heads
    <3>3. Moves
      BY <1>0, <3>1, <3>2, EnqueueMoves DEF Enqueue
    <3>4. WorkerMove(w) /\ \A v \in Workers \ {w} : Stays(v)
      BY <1>0, <3>1, OvertakingMoves, RestedMoves
    <3> QED BY <1>1, <3>3, <3>4, MoveBy
  <2> QED BY <1>7, <2>1, <2>2 DEF Replace
<1> QED BY <1>4, <1>5, <1>6, <1>7

LEMMA AttemptMoves ==
    ASSUME LoopInv, NEW w \in Workers,
           \/ Begin(w) \/ SaveWarning(w) \/ Prepared(w) \/ SaveRunning(w) \/ SaveRunStatus(w)
           \/ StartTurn(w) \/ EndTurn(w) \/ FinishAttempt(w)
           \/ AttemptFails(w) \/ AttemptBreaks(w) \/ FinishFails(w)
    PROVE  LoopMove
<1> DEFINE m == worker[w] n == worker'[w]
<1>0. /\ TypeOK /\ WorkersOK(worker) /\ WorkersOK(worker') /\ m \in WorkerRow /\ n \in WorkerRow
      /\ m.j \in JobIds /\ m.copy \in JobRow /\ m.pc \in Attempt
      /\ m.pc \in HasRun => m.run \in RunIds
  <2>1. m.pc \in Attempt
    BY DEF Attempt, Begin, SaveWarning, Prepared, SaveRunning,
       SaveRunStatus, StartTurn, EndTurn, FinishAttempt, AttemptFails, AttemptBreaks, FinishFails
  <2>2. m.pc \notin Unclaimed
    BY <2>1 DEF Attempt, Unclaimed, Recovering
  <2>3. LoopInv'
    BY AttemptStep DEF LoopStep
  <2> QED BY <2>1, <2>2, <2>3 DEF LoopInv, TablesOK, WorkersOK, WorkerOK, WorkerRow
<1>1. UNCHANGED tables => Moves
  BY RowsKept DEF tables
<1>2. ASSUME NEW row, Goes(w, row)
      PROVE  n = row /\ \A v \in Workers \ {w} : Stays(v)
  BY <1>0, <1>2, GoesMoves
<1>3. ASSUME NEW r, Reloads(w, r)
      PROVE  /\ n.pc = "reload" /\ n.copy = NoCopy /\ n.j = m.j /\ n.result = r
             /\ \A v \in Workers \ {w} : Stays(v)
  <2>1. n = [Resting("reload") EXCEPT !.j = m.j, !.result = r] /\ \A v \in Workers \ {w} : Stays(v)
    BY <1>2, <1>3 DEF Reloads
  <2> QED BY <2>1 DEF Resting
<1>4. ASSUME NEW r, Finishes(w, r)
      PROVE  /\ n.pc = "finish" /\ n.copy = NoCopy /\ n.j = m.j /\ n.run = m.run
             /\ \A v \in Workers \ {w} : Stays(v)
  <2>1. /\ n = [m EXCEPT !.pc = "finish", !.result = r, !.copy = NoCopy, !.overtaken = FALSE]
        /\ \A v \in Workers \ {w} : Stays(v)
    BY <1>2, <1>4 DEF Finishes
  <2> QED BY <1>0, <2>1 DEF WorkerRow
<1>5. HasRun = {"warning_save", "prepare", "running_save", "run_status",
                "turn_start", "turn", "finish"}
  BY DEF HasRun, Attempt
<1>6. ASSUME UNCHANGED tables, NEW r, Finishes(w, r), m.pc \in HasRun, agent' = agent
      PROVE  LoopMove
  <2>1. Advances(w)
    BY <1>4, <1>6 DEF Advances, tables
  <2> QED BY <1>1, <1>4, <1>6, <2>1, MoveBy DEF WorkerMove
<1>7. CASE Begin(w)
  <2>1. CASE CanBegin(m.j, w)
    <3> DEFINE pc == IF m.cancelled THEN "finish"
                     ELSE IF job[m.j].reviewer = 0 THEN "warning_save" ELSE "prepare"
               res == IF m.cancelled THEN "err" ELSE "ok"
               c == Begun(job[m.j], NextRun)
    <3>1. /\ BeginAttempt(m.j, m.overtaken) /\ UNCHANGED <<head, agent>> /\ m.pc = "begin"
          /\ Goes(w, [m EXCEPT !.run = NextRun, !.copy = c, !.overtaken = FALSE,
                               !.pc = pc, !.result = res])
      BY <1>7, <2>1 DEF Begin
    <3>2. pc \in {"finish", "warning_save", "prepare"}
      OBVIOUS
    <3>3. /\ job[m.j] \in JobRow /\ job[m.j].status = "preparing" /\ job[m.j].owner = w
      BY <1>0, <2>1 DEF TypeOK, CanBegin
    <3>4. /\ c.pr = job[m.j].pr /\ c.head = job[m.j].head /\ c.status = "preparing"
          /\ c.attempts = job[m.j].attempts + 1 /\ c.run = NextRun
          /\ c.reviewer = job[m.j].reviewer /\ c.owner = w
          /\ c.intent = job[m.j].intent /\ c.receipt = job[m.j].receipt
      BY <3>3 DEF Begun, JobRow
    <3> HIDE DEF pc, res, c
    <3>5. /\ n = [m EXCEPT !.run = NextRun, !.copy = c, !.overtaken = FALSE,
                           !.pc = pc, !.result = res]
          /\ \A v \in Workers \ {w} : Stays(v)
      BY <1>2, <3>1
    <3>6. n.pc = pc /\ n.j = m.j /\ n.copy = c /\ n.run = NextRun
      BY <1>0, <3>5 DEF WorkerRow
    <3>7. Moves /\ Begins(m.j, w) /\ (Counts(m.j, w) \/ job' = job)
      <4>1. \A v \in Workers \ {w} : worker'[v] = worker[v]
        BY <3>1 DEF Goes
      <4> QED BY <1>0, <1>5, <2>1, <3>1, <3>2, <3>6, <4>1, BeginMoves
    <3>8. Starts(w)
      BY <3>2, <3>4, <3>6, <3>7 DEF Starts
    <3> QED BY <3>1, <3>5, <3>7, <3>8, MoveBy DEF WorkerMove
  <2>2. CASE ~CanBegin(m.j, w)
    <3>1. Reloads(w, "err") /\ UNCHANGED <<tables, head, agent>> /\ m.pc = "begin"
      BY <1>7, <2>2 DEF Begin
    <3>2. Returns(w)
      BY <1>3, <2>2, <3>1 DEF Returns, tables
    <3> QED BY <1>1, <1>3, <3>1, <3>2, MoveBy DEF WorkerMove
  <2> QED BY <2>1, <2>2
<1>8. CASE SaveWarning(w) \/ SaveRunning(w)
  <2>1. /\ m.pc \in SavePcs /\ m.pc \in HasRun /\ agent' = agent
        /\ SaveClaimed(m.j, w, m.copy, m.overtaken)
    BY <1>5, <1>8 DEF SaveWarning, SaveRunning, SavePcs, Stamped
  <2>2. Moves
    BY <2>1, SaveMoves
  <2>3. CASE \E pc : /\ Goes(w, [m EXCEPT !.pc = pc, !.overtaken = FALSE])
                     /\ <<m.pc, pc>> \in {<<"warning_save", "prepare">>, <<"running_save", "run_status">>}
    <3>1. PICK pc : /\ n = [m EXCEPT !.pc = pc, !.overtaken = FALSE]
                    /\ <<m.pc, pc>> \in {<<"warning_save", "prepare">>, <<"running_save", "run_status">>}
                    /\ \A v \in Workers \ {w} : Stays(v)
      BY <1>2, <2>3
    <3>2. n.pc = pc /\ n.copy = m.copy /\ n.j = m.j /\ n.run = m.run
      BY <1>0, <3>1, SaveFields
    <3>3. Advances(w)
      BY <2>1, <3>1, <3>2 DEF Advances
    <3> QED BY <2>1, <2>2, <3>1, <3>3, MoveBy DEF WorkerMove
  <2>4. CASE job[m.j].owner # w
    <3>1. job' = job
      BY <2>1, <2>4 DEF SaveClaimed
    <3>2. CASE SaveWarning(w)
      <4>1. Finishes(w, "err")
        BY <2>4, <3>2 DEF SaveWarning
      <4>2. Advances(w)
        BY <1>4, <2>1, <3>1, <4>1 DEF Advances
      <4> QED BY <1>4, <2>1, <2>2, <4>1, <4>2, MoveBy DEF WorkerMove
    <3>3. CASE SaveRunning(w)
      <4>1. Reloads(w, "err") /\ m.pc = "running_save"
        BY <2>4, <3>3 DEF SaveRunning
      <4>2. Returns(w)
        BY <1>3, <2>4, <3>1, <4>1 DEF Returns
      <4> QED BY <1>3, <2>1, <2>2, <4>1, <4>2, MoveBy DEF WorkerMove
    <3> QED BY <1>8, <3>2, <3>3
  <2> QED BY <1>8, <2>3, <2>4 DEF SaveWarning, SaveRunning
<1>9. CASE Prepared(w)
  <2>1. PICK a : Save(w, "running_save", StartRunning(m.copy, a))
    BY <1>9 DEF Prepared
  <2> DEFINE c == StartRunning(m.copy, a)
  <2>2. /\ SameJob(m.copy, c) /\ c.status = "running" /\ c.run = m.copy.run
        /\ c.owner = m.copy.owner
    BY <1>0 DEF StartRunning, JobRow, SameJob
  <2> HIDE DEF c
  <2>3. /\ n = [m EXCEPT !.pc = "running_save", !.copy = c, !.overtaken = FALSE]
        /\ \A v \in Workers \ {w} : Stays(v)
    BY <1>2, <2>1 DEF Save, c
  <2>4. n.pc = "running_save" /\ n.copy = c /\ n.j = m.j /\ n.run = m.run
    BY <1>0, <2>3, SaveFields
  <2>5. Advances(w)
    BY <1>5, <1>9, <2>2, <2>4 DEF Advances, Prepared
  <2> QED BY <1>1, <1>9, <2>3, <2>5, MoveBy DEF WorkerMove, Prepared
<1>10. CASE SaveRunStatus(w)
  <2>1. /\ m.pc = "run_status" /\ SaveRunRunning(m.run, m.copy.reviewer) /\ To(w, "turn_start")
        /\ agent' = agent
    BY <1>10 DEF SaveRunStatus
  <2>2. Moves
    BY <1>0, <1>5, <2>1, RunStatusMoves
  <2>3. n = [m EXCEPT !.pc = "turn_start"] /\ \A v \in Workers \ {w} : Stays(v)
    BY <1>2, <2>1 DEF To
  <2>4. n.pc = "turn_start" /\ n.copy = m.copy /\ n.j = m.j /\ n.run = m.run
    BY <1>0, <2>3, SaveFields
  <2>5. Advances(w)
    BY <1>5, <2>1, <2>4 DEF Advances
  <2> QED BY <2>1, <2>2, <2>3, <2>5, MoveBy DEF WorkerMove
<1>11. CASE StartTurn(w)
  <2>1. /\ m.pc \in HasRun /\ UNCHANGED tables
        /\ Goes(w, [m EXCEPT !.pc = "turn", !.copy = NoCopy]) \/ Finishes(w, "err")
    BY <1>5, <1>11 DEF StartTurn
  <2>2. \A v \in Workers : TurnMove(v)
    <3>1. PICK r : agent' = [agent EXCEPT ![w] = [j |-> m.j, reviewer |-> m.copy.reviewer,
                                                  run |-> r, step |-> "queued"]]
      BY <1>11 DEF StartTurn
    <3> QED BY <3>1 DEF TurnMove, LoopInv, AgentsOK
  <2>3. Advances(w) /\ \A v \in Workers \ {w} : Stays(v)
    <3>1. CASE Finishes(w, "err")
      BY <1>4, <2>1, <3>1 DEF Advances, tables
    <3>2. CASE Goes(w, [m EXCEPT !.pc = "turn", !.copy = NoCopy])
      <4>1. n = [m EXCEPT !.pc = "turn", !.copy = NoCopy] /\ \A v \in Workers \ {w} : Stays(v)
        BY <1>2, <3>2
      <4>2. n.pc = "turn" /\ n.copy = NoCopy /\ n.j = m.j /\ n.run = m.run
        BY <1>0, <4>1, SaveFields
      <4> QED BY <2>1, <4>1, <4>2 DEF Advances
    <3> QED BY <2>1, <3>1, <3>2
  <2> QED BY <1>1, <2>1, <2>2, <2>3 DEF LoopMove, WorkerMove
<1>12. CASE EndTurn(w) \/ AttemptFails(w)
  <2>1. m.pc \in HasRun /\ UNCHANGED tables /\ agent' = agent /\ \E r : Finishes(w, r)
    BY <1>5, <1>12 DEF EndTurn, AttemptFails
  <2> QED BY <1>6, <2>1
<1>13. CASE FinishAttempt(w)
  <2>1. CASE Finishable(m.run, FALSE)
    <3>1. /\ FinishRun(m.run) /\ Reloads(w, m.result) /\ m.pc = "finish" /\ agent' = agent
          /\ RunExists(m.run) /\ m.run \in RunIds /\ m.pc \in Archiving
      BY <1>0, <1>5, <1>13, <2>1 DEF FinishAttempt, Finishable, CanFinishRun, Archiving
    <3>2. Moves /\ ~run'[m.run].open
      BY <1>0, <3>1, FinishMoves
    <3>3. Returns(w)
      BY <1>3, <3>1, <3>2 DEF Returns
    <3> QED BY <1>3, <3>1, <3>2, <3>3, MoveBy DEF WorkerMove
  <2>2. CASE ~Finishable(m.run, FALSE)
    <3>1. Reloads(w, "unfinalized") /\ UNCHANGED tables /\ agent' = agent
      BY <1>13, <2>2 DEF FinishAttempt
    <3>2. Returns(w)
      BY <1>3, <3>1 DEF Returns
    <3> QED BY <1>1, <1>3, <3>1, <3>2, MoveBy DEF WorkerMove
  <2> QED BY <2>1, <2>2
<1>14. CASE AttemptBreaks(w) \/ FinishFails(w)
  <2>1. "fault" \in Events /\ UNCHANGED tables /\ agent' = agent /\ \E r : Reloads(w, r)
    BY <1>14 DEF AttemptBreaks, FinishFails
  <2>2. PICK r : Reloads(w, r)
    BY <2>1
  <2>3. Returns(w)
    BY <1>3, <2>1, <2>2 DEF Returns
  <2> QED BY <1>1, <1>3, <2>1, <2>2, <2>3, MoveBy DEF WorkerMove
<1> QED BY <1>7, <1>8, <1>9, <1>10, <1>11, <1>12, <1>13, <1>14

LEMMA ReviewerDeletedMoves ==
    ASSUME AgentsOK, NEW w \in Workers, NEW j, UNCHANGED agent \/ ReviewerDeleted(w, j)
    PROVE  \A v \in Workers : TurnMove(v)
BY DEF ReviewerDeleted, TurnMove, NoAgent, AgentsOK

LEMMA AfterMoves ==
    ASSUME LoopInv, NEW w \in Workers,
           \/ Reload(w) \/ FinishOwned(w) \/ FinalSave(w) \/ PlainSave(w)
           \/ ReconcileFinds(w) \/ ReconcileMisses(w) \/ ReconcileSaves(w)
    PROVE  LoopMove
<1> DEFINE m == worker[w] n == worker'[w] row == job[m.j]
<1>0. /\ TypeOK /\ WorkersOK(worker) /\ m \in WorkerRow /\ AgentsOK
      /\ m.j \in JobIds /\ m.copy \in JobRow /\ row \in JobRow
      /\ m.pc \in {"reload", "finish_owned", "final_save", "plain_save"} \cup Reconcile
  <2>1. m.pc \in {"reload", "finish_owned", "final_save", "plain_save"} \cup Reconcile
    BY DEF Reload, FinishOwned, FinalSave, PlainSave,
       ReconcileFinds, ReconcileMisses, ReconcileSaves, Reconcile
  <2>2. m.pc \notin Unclaimed
    BY <2>1 DEF Reconcile, Unclaimed, Recovering
  <2> QED BY <2>1, <2>2 DEF LoopInv, TablesOK, TypeOK, WorkersOK, WorkerOK, WorkerRow
<1>1. UNCHANGED tables => Moves
  BY RowsKept DEF tables
<1>2. \A v \in Workers : TurnMove(v)
  <2>1. UNCHANGED agent \/ ReviewerDeleted(w, m.j)
    BY DEF Reload, FinishOwned, FinalSave, PlainSave, ReconcileFinds, ReconcileMisses, ReconcileSaves
  <2> QED BY <1>0, <2>1, ReviewerDeletedMoves
<1>3. ASSUME Moves, WorkerMove(w), \A v \in Workers \ {w} : Stays(v) PROVE LoopMove
  BY <1>2, <1>3 DEF LoopMove, WorkerMove
<1>4. ASSUME NEW pc \in {"idle", "off"}, Rests(w, pc)
      PROVE  WorkerMove(w) /\ \A v \in Workers \ {w} : Stays(v)
  BY <1>0, <1>4, GoesMoves, RestedMoves DEF Rests
<1>5. ASSUME NEW pc, NEW c, Save(w, pc, c)
      PROVE  /\ n.pc = pc /\ n.copy = c /\ n.j = m.j
             /\ \A v \in Workers \ {w} : Stays(v)
  <2>1. /\ n = [m EXCEPT !.pc = pc, !.copy = c, !.overtaken = FALSE]
        /\ \A v \in Workers \ {w} : Stays(v)
    BY <1>0, <1>5, GoesMoves DEF Save
  <2> QED BY <1>0, <2>1, SaveFields
<1>6. CASE Reload(w)
  <2>0. UNCHANGED tables /\ m.pc = "reload" /\ job' = job
    BY <1>6 DEF Reload, tables
  <2>1. CASE Rests(w, "idle")
    BY <1>1, <1>3, <1>4, <2>0, <2>1
  <2>2. CASE row.receipt /\ Save(w, "finish_owned", row)
    <3>1. Decides(w)
      BY <1>5, <2>0, <2>2 DEF Decides
    <3> QED BY <1>1, <1>3, <1>5, <2>0, <2>2, <3>1 DEF WorkerMove
  <2>3. CASE /\ row.status \in Terminal /\ ~row.receipt
             /\ Save(w, "plain_save", [row EXCEPT !.owner = None, !.live = FALSE])
    <3> DEFINE c == [row EXCEPT !.owner = None, !.live = FALSE]
    <3>1. SameRow(row, c) /\ c.owner = None
      BY <1>0 DEF SameRow, SameJob, JobRow
    <3> HIDE DEF c
    <3>2. n.pc = "plain_save" /\ n.copy = c /\ n.j = m.j /\ \A v \in Workers \ {w} : Stays(v)
      BY <1>5, <2>3 DEF c
    <3>3. Decides(w)
      BY <2>0, <2>3, <3>1, <3>2 DEF Decides
    <3> QED BY <1>1, <1>3, <2>0, <3>2, <3>3 DEF WorkerMove
  <2>4. CASE /\ row.status = "reconciling"
             /\ \E c \in {BeginReconciliation(row), Finished(row, "failed")} : Save(w, "plain_save", c)
    <3>1. Doubted(row, BeginReconciliation(row)) /\ Settled(row, Finished(row, "failed"))
      BY <1>0, SettledRows
    <3>2. PICK c : Save(w, "plain_save", c) /\ (Settled(row, c) \/ Doubted(row, c))
      BY <2>4, <3>1
    <3>3. n.pc = "plain_save" /\ n.copy = c /\ n.j = m.j /\ \A v \in Workers \ {w} : Stays(v)
      BY <1>5, <3>2
    <3>4. Decides(w)
      BY <2>0, <2>4, <3>2, <3>3 DEF Decides
    <3> QED BY <1>1, <1>3, <2>0, <3>3, <3>4 DEF WorkerMove
  <2>5. CASE /\ row.status \in Active \ {"reconciling"} /\ m.result # "unfinalized"
             /\ \E c \in Outcomes(row, m.result) : Save(w, "final_save", c)
    <3>1. /\ Doubted(row, BeginReconciliation(row)) /\ \A d \in Failures(row) : Settled(row, d)
          /\ \A s \in {"superseded", "succeeded"} : Settled(row, Finished(row, s))
      BY <1>0, SettledRows
    <3>2. \A c \in Outcomes(row, m.result) : Settled(row, c) \/ (row.intent /\ Doubted(row, c))
      BY <3>1 DEF Outcomes
    <3>3. PICK c : Save(w, "final_save", c) /\ (Settled(row, c) \/ (row.intent /\ Doubted(row, c)))
      BY <2>5, <3>2
    <3>4. n.pc = "final_save" /\ n.copy = c /\ n.j = m.j /\ \A v \in Workers \ {w} : Stays(v)
      BY <1>5, <3>3
    <3>5. Decides(w)
      BY <2>0, <2>5, <3>3, <3>4 DEF Decides
    <3> QED BY <1>1, <1>3, <2>0, <3>4, <3>5 DEF WorkerMove
  <2> QED BY <1>6, <2>1, <2>2, <2>3, <2>4, <2>5 DEF Reload
<1>7. CASE FinishOwned(w)
  <2>1. /\ FinishRun(m.copy.run) /\ RunExists(m.copy.run) /\ m.pc = "finish_owned"
        /\ Rests(w, "idle") \/ Rests(w, "off")
        /\ m.pc \in Archiving
    BY <1>7 DEF FinishOwned, CanFinishOwned, Finishable, CanFinishRun, Archiving
  <2>2. m.copy.run \in RunIds
    BY <2>1 DEF LoopInv, WorkersOK, WorkerOK
  <2>3. Moves
    BY <1>0, <2>1, <2>2, FinishMoves
  <2> QED BY <1>3, <1>4, <2>1, <2>3
<1>8. CASE FinalSave(w) \/ PlainSave(w) \/ ReconcileSaves(w)
  <2>1. /\ SaveClaimed(m.j, w, m.copy, m.overtaken) /\ Rests(w, "idle") /\ m.pc \in SavePcs
    BY <1>8 DEF FinalSave, PlainSave, ReconcileSaves, SavePcs, Stamped
  <2> QED BY <1>3, <1>4, <2>1, SaveMoves
<1>9. CASE ReconcileFinds(w)
  <2>1. Moves
    BY <1>0, <1>9, ReceiptMoves DEF ReconcileFinds
  <2>2. WorkerMove(w) /\ \A v \in Workers \ {w} : Stays(v)
    BY <1>0, <1>9, OvertakingMoves, RestedMoves DEF ReconcileFinds
  <2> QED BY <1>3, <2>1, <2>2
<1>10. CASE ReconcileMisses(w)
  <2>1. Doubted(m.copy, BeginReconciliation(m.copy)) /\ Settled(m.copy, Finished(m.copy, "failed"))
    BY <1>0, SettledRows
  <2>2. PICK c : Save(w, "reconcile_save", c) /\ (Settled(m.copy, c) \/ Doubted(m.copy, c))
    BY <1>10, <2>1 DEF ReconcileMisses
  <2>3. Misses(w)
    BY <1>5, <1>10, <2>2 DEF Misses, ReconcileMisses
  <2> QED BY <1>1, <1>3, <1>5, <1>10, <2>2, <2>3 DEF WorkerMove, ReconcileMisses
<1> QED BY <1>6, <1>7, <1>8, <1>9, <1>10

LEMMA BeatMoves ==
    ASSUME LoopInv, NEW w \in Workers, Beat(w) \/ HeartbeatFails(w)
    PROVE  LoopMove
<1> DEFINE m == worker[w]
<1>0. /\ TypeOK /\ WorkersOK(worker) /\ m \in WorkerRow /\ m.j \in JobIds /\ agent' = agent
  BY DEF LoopInv, TablesOK, WorkersOK, WorkerOK, Beat, Heartbeat, HeartbeatLost, HeartbeatFails
<1>1. CASE Heartbeat(w)
  <2>1. PICK V : worker' = Renewed([v \in Workers |->
                                IF v \in V THEN [worker[v] EXCEPT !.overtaken = TRUE]
                                ELSE worker[v]], m.j)
    BY <1>1 DEF Heartbeat
  <2>2. ASSUME NEW v \in Workers PROVE Stays(v)
    <3>1. worker[v] \in WorkerRow
      BY <1>0 DEF WorkersOK
    <3>2. PICK x \in {worker[v], [worker[v] EXCEPT !.overtaken = TRUE]} :
             worker'[v] = [x EXCEPT !.expired = x.expired \ {m.j}]
      BY <2>1 DEF Renewed
    <3>3. /\ x \in WorkerRow /\ x.pc = worker[v].pc /\ x.j = worker[v].j /\ x.copy = worker[v].copy
          /\ x.run = worker[v].run /\ x.result = worker[v].result
          /\ x.expired = worker[v].expired
      BY <3>1 DEF WorkerRow
    <3> QED BY <3>2, <3>3 DEF Stays, WorkerRow
  <2>3. Moves
    BY <1>0, <1>1, LeaseMoves DEF Heartbeat
  <2> QED BY <1>0, <2>2, <2>3, MoveBy DEF WorkerMove
<1>2. CASE HeartbeatLost(w) \/ HeartbeatFails(w)
  <2>1. PICK b : Goes(w, [m EXCEPT !.heartbeat = FALSE, !.cancelled = b])
    BY <1>2 DEF HeartbeatLost, HeartbeatFails
  <2>2. /\ worker'[w] = [m EXCEPT !.heartbeat = FALSE, !.cancelled = b]
        /\ \A v \in Workers \ {w} : Stays(v)
    BY <1>0, <2>1, GoesMoves
  <2>3. Stays(w)
    BY <1>0, <2>2 DEF Stays, WorkerRow
  <2>4. Moves
    BY <1>2, RowsKept DEF HeartbeatLost, HeartbeatFails, tables
  <2> QED BY <1>0, <2>2, <2>3, <2>4, MoveBy DEF WorkerMove
<1> QED BY <1>1, <1>2 DEF Beat

LEMMA FailMoves ==
    ASSUME LoopInv, NEW w \in Workers, Fail(w)
    PROVE  LoopMove
<1>0. WorkersOK(worker) /\ AgentsOK
  BY DEF LoopInv
<1>1. CASE HeartbeatFails(w)
  BY <1>1, BeatMoves
<1>2. CASE AttemptFails(w) \/ AttemptBreaks(w) \/ FinishFails(w)
  BY <1>2, AttemptMoves
<1>3. CASE PassFails(w) \/ PreflightCancelled(w) \/ FinishOwnedFails(w) \/ SaveFails(w)
           \/ ReconcileCancelled(w) \/ Crash(w)
  <2>1. UNCHANGED tables /\ (Rests(w, "idle") \/ Rests(w, "off"))
    BY <1>3 DEF PassFails, PreflightCancelled, FinishOwnedFails, SaveFails,
       ReconcileCancelled, Crash
  <2>2. \A v \in Workers : TurnMove(v)
    <3>1. agent' = agent \/ agent' = [agent EXCEPT ![w] = NoAgent]
      BY <1>3 DEF PassFails, PreflightCancelled, FinishOwnedFails, SaveFails,
         ReconcileCancelled, Crash
    <3> QED BY <1>0, <3>1 DEF TurnMove, NoAgent, AgentsOK
  <2>3. WorkerMove(w) /\ \A v \in Workers \ {w} : Stays(v)
    BY <1>0, <2>1, GoesMoves, RestedMoves DEF Rests
  <2>4. Moves
    BY <2>1, RowsKept DEF tables
  <2> QED BY <2>2, <2>3, <2>4 DEF LoopMove, WorkerMove
<1> QED BY <1>1, <1>2, <1>3 DEF Fail

LEMMA ReviewMoves ==
    ASSUME LoopInv, NEW w \in Workers, Review(w)
    PROVE  LoopMove
<1> DEFINE j == agent[w].j
<1>0. /\ TypeOK /\ WorkersOK(worker) /\ AgentsOK /\ j \in JobIds
  <2>1. agent[w].step # "none"
    BY DEF Review, AgentStarts, AgentChecks, AgentRecordsIntent, AgentPosts, AgentInDoubt,
       AgentRefused, AgentEnds
  <2> QED BY <2>1 DEF LoopInv, TablesOK, AgentsOK, AgentOK
<1>1. \A v \in Workers : TurnMove(v)
  <2>1. CASE AgentStarts(w) \/ AgentPosts(w) \/ AgentInDoubt(w) \/ AgentRefused(w)
    BY <1>0, <2>1 DEF AgentStarts, AgentPosts, AgentInDoubt, AgentRefused, AgentTo, TurnMove,
       AgentsOK, AgentRow
  <2>2. CASE AgentEnds(w)
    BY <1>0, <2>2 DEF AgentEnds, TurnMove, NoAgent, AgentsOK
  <2>3. CASE AgentChecks(w)
    BY <2>3 DEF AgentChecks, TurnMove
  <2>4. CASE AgentRecordsIntent(w)
    <3>1. agent[w].step = "checked" /\ \E x : AgentTo(w, x)
      BY <2>4 DEF AgentRecordsIntent
    <3> QED BY <1>0, <3>1 DEF AgentTo, TurnMove, AgentsOK
  <2> QED BY <2>1, <2>2, <2>3, <2>4 DEF Review
<1>2. UNCHANGED tables => Moves
  BY RowsKept DEF tables
<1>3. UNCHANGED worker \/ Overtakes({j}) => \A v \in Workers : Stays(v)
  BY <1>0, OvertakesMoves DEF Stays
<1>4. ASSUME Moves, \A v \in Workers : Stays(v) PROVE LoopMove
  BY <1>1, <1>4 DEF LoopMove, WorkerMove
<1>5. CASE AgentStarts(w) \/ AgentChecks(w) \/ AgentRefused(w) \/ AgentEnds(w)
  <2>1. UNCHANGED tables /\ (UNCHANGED worker \/ Overtakes({j}))
    BY <1>5 DEF AgentStarts, AgentChecks, AgentRefused, AgentEnds
  <2> QED BY <1>2, <1>3, <1>4, <2>1
<1>6. CASE AgentRecordsIntent(w)
  <2>1. CASE CanRecordIntent(j)
    <3>1. /\ RecordIntent(j) /\ agent[w].step = "checked"
          /\ \E V : worker' = [v \in Workers |->
                        IF worker[v].j = j /\ worker[v].pc \in Stamped
                        THEN [worker[v] EXCEPT !.overtaken = v \in V] ELSE worker[v]]
      BY <1>6, <2>1 DEF AgentRecordsIntent
    <3>2. ASSUME NEW v \in Workers PROVE Stays(v)
      <4>1. worker[v] \in WorkerRow
        BY <1>0 DEF WorkersOK
      <4>2. worker'[v] = worker[v] \/ \E b : worker'[v] = [worker[v] EXCEPT !.overtaken = b]
        BY <3>1
      <4> QED BY <4>1, <4>2 DEF Stays, WorkerRow
    <3>3. Moves
      BY <1>0, <2>1, <3>1, IntentMoves
    <3> QED BY <1>4, <3>2, <3>3
  <2>2. CASE ~CanRecordIntent(j)
    <3>1. UNCHANGED tables /\ UNCHANGED worker
      BY <1>6, <2>2 DEF AgentRecordsIntent
    <3> QED BY <1>2, <1>3, <1>4, <3>1
  <2> QED BY <2>1, <2>2
<1>7. CASE AgentPosts(w)
  <2>1. Moves
    BY <1>0, <1>7, ReceiptMoves DEF AgentPosts
  <2> QED BY <1>3, <1>4, <1>7, <2>1 DEF AgentPosts
<1>8. CASE AgentInDoubt(w)
  <2>1. Moves
    BY <1>0, <1>8, DoubtMoves DEF AgentInDoubt
  <2> QED BY <1>3, <1>4, <1>8, <2>1 DEF AgentInDoubt
<1> QED BY <1>5, <1>6, <1>7, <1>8 DEF Review

LEMMA HaltMoves ==
    ASSUME LoopInv, NEW w \in Workers, Halt(w)
    PROVE  LoopMove
<1> DEFINE m == worker[w]
<1>0. /\ TypeOK /\ WorkersOK(worker) /\ AgentsOK /\ m \in WorkerRow
      /\ {"stopping", "cancel_runs", "off"} \subseteq Unclaimed
      /\ {"stopping", "cancel_runs", "off"} \cap SweptPcs = {}
      /\ Unclaimed \subseteq Archiving
  BY DEF LoopInv, TablesOK, WorkersOK, Unclaimed, SweptPcs, Archiving
<1>1. \A v \in Workers : TurnMove(v)
  <2>1. agent' = agent \/ agent' = [agent EXCEPT ![w] = NoAgent]
    BY DEF Halt, Stop, CancelJobs, CancelRun, Stopped
  <2> QED BY <1>0, <2>1 DEF TurnMove, NoAgent, AgentsOK
<1>2. UNCHANGED tables => Moves
  BY RowsKept DEF tables
<1>3. ASSUME Moves, WorkerMove(w), \A v \in Workers \ {w} : Stays(v) PROVE LoopMove
  BY <1>1, <1>3 DEF LoopMove, WorkerMove
<1>4. CASE Stop(w)
  <2>1. /\ UNCHANGED tables
        /\ Goes(w, [Resting("stopping") EXCEPT !.j = m.j, !.heartbeat = m.heartbeat])
    BY <1>4 DEF Stop
  <2>2. /\ worker'[w] = [Resting("stopping") EXCEPT !.j = m.j, !.heartbeat = m.heartbeat]
        /\ \A v \in Workers \ {w} : Stays(v)
    BY <1>0, <2>1, GoesMoves
  <2>3. WorkerMove(w)
    BY <2>2, RestedMoves
  <2> QED BY <1>2, <1>3, <2>1, <2>2, <2>3
<1>5. CASE CancelJobs(w)
  <2>1. /\ CancelActive /\ m.pc = "stopping"
        /\ Goes(w, [m EXCEPT !.pc = "cancel_runs", !.todo = OpenRuns])
    BY <1>5 DEF CancelJobs
  <2>2. WorkerMove(w) /\ \A v \in Workers \ {w} : Stays(v)
    BY <1>0, <2>1, PassMoves
  <2> QED BY <1>0, <1>3, <2>1, <2>2, CancelMoves
<1>6. CASE CancelRun(w)
  <2>1. PICK r \in m.todo : /\ Goes(w, [m EXCEPT !.todo = @ \ {r}])
                            /\ \/ RunExists(r) /\ FinishRun(r)
                               \/ UNCHANGED tables
    BY <1>6 DEF CancelRun, Finishable, CanFinishRun
  <2>2. r \in RunIds /\ m.pc \in Archiving
    BY <1>0, <1>6, <2>1 DEF CancelRun, WorkerRow
  <2>3. Moves
    BY <1>0, <1>2, <2>1, <2>2, FinishMoves
  <2>4. \A v \in Workers : Stays(v)
    BY <2>1, ListedMoves
  <2> QED BY <1>3, <2>3, <2>4 DEF WorkerMove
<1>7. CASE Stopped(w)
  <2>1. UNCHANGED tables /\ m.pc = "cancel_runs" /\ Goes(w, [m EXCEPT !.pc = "off"])
    BY <1>7 DEF Stopped, To
  <2>2. WorkerMove(w) /\ \A v \in Workers \ {w} : Stays(v)
    BY <1>0, <2>1, PassMoves
  <2> QED BY <1>2, <1>3, <2>1, <2>2
<1> QED BY <1>4, <1>5, <1>6, <1>7 DEF Halt

LEMMA TimeMoves ==
    ASSUME LoopInv, Time \/ Clean
    PROVE  LoopMove
<1>0. TypeOK /\ AgentsOK /\ worker' = worker
  BY DEF LoopInv, TablesOK, Time, Clean, TakeTask, FinishTask, Retain
<1>1. \A v \in Workers : TurnMove(v)
  <2>1. \A v \in Workers : agent'[v] \in {agent[v], NoAgent}
    BY <1>0 DEF Time, Clean, TakeTask, FinishTask, Retain
  <2> QED BY <2>1 DEF TurnMove, NoAgent
<1>2. Moves
  <2>1. CASE Time
    <3>1. PICK j \in JobIds : LeaseLapses(j) \/ BecomesDue(j)
      BY <2>1 DEF Time
    <3> QED BY <1>0, <3>1, LeaseMoves
  <2>2. CASE \E t \in TaskIds : TakeTask(t) \/ FinishTask(t)
    BY <2>2, RowsKept DEF TakeTask, FinishTask, ClaimTask, CompleteTask
  <2>3. CASE \E j \in JobIds : Retain(j)
    BY <1>0, <2>3, PruneMoves DEF Retain
  <2> QED BY <2>1, <2>2, <2>3 DEF Clean
<1> QED BY <1>0, <1>1, <1>2 DEF LoopMove, WorkerMove, Stays

\* Every step of the loop moves the rows, the runs, the workers and the turns
\* in one of the ways named above.
LEMMA LoopMoves == LoopInv /\ [Next]_vars => LoopMove
<1> SUFFICES ASSUME LoopInv, [Next]_vars PROVE LoopMove
  OBVIOUS
<1>1. CASE UNCHANGED vars
  BY <1>1, RowsKept DEF vars, LoopMove, WorkerMove, Stays, TurnMove
<1>2. ASSUME NEW w \in Workers,
             Pool(w) \/ Work(w) \/ Beat(w) \/ Fail(w) \/ Review(w) \/ Halt(w)
      PROVE  LoopMove
  BY <1>2, PoolMoves, PreflightMoves, AttemptMoves, AfterMoves, BeatMoves, FailMoves,
     ReviewMoves, HaltMoves DEF Work
<1>3. CASE Next
  BY <1>2, <1>3, ProduceMoves, TimeMoves DEF Next
<1> QED BY <1>1, <1>3

-----------------------------------------------------------------------------
(***************************************************************************)
(* The attempts of a job are counted after their runs are stored, in the   *)
(* row and in every copy of it.                                            *)
(***************************************************************************)
\* The runs stored for job j in the table R.
RunsOf(R, j) == {r \in RunIds : R[r].job = j}

\* No row in memory counts more attempts than there are runs.
CopiesCounted ==
    \A w \in Workers :
        worker[w].j \in JobIds => worker[w].copy.attempts <= Cardinality(RunsOf(run, worker[w].j))

LEMMA RunsFinite ==
    ASSUME NEW S \in SUBSET RunIds
    PROVE  IsFiniteSet(S) /\ Cardinality(S) \in Nat
<1>1. IsFiniteSet(RunIds)
  BY FS_Interval, BoundAssumption DEF RunIds
<1> QED BY <1>1, FS_Subset, FS_CardinalityType

\* Runs are stored for good: the count of a job never falls.
LEMMA RunsGrow ==
    ASSUME LoopMove, NEW j \in JobIds
    PROVE  /\ RunsOf(run, j) \subseteq RunsOf(run', j)
           /\ Cardinality(RunsOf(run, j)) <= Cardinality(RunsOf(run', j))
           /\ Cardinality(RunsOf(run, j)) \in Nat /\ Cardinality(RunsOf(run', j)) \in Nat
<1>1. RunsOf(run, j) \subseteq RunsOf(run', j)
  <2>1. ASSUME NEW r \in RunIds, run[r].job = j PROVE run'[r].job = j
    <3>1. CASE RunKept(r)
      BY <2>1, <3>1 DEF RunKept
    <3>2. CASE RunBegun(r)
      <4>1. FreeRuns # {} /\ r = NextRun
        BY <3>2 DEF RunBegun, Begins
      <4>2. run[r].job = 0
        BY <4>1, FreshIdType DEF FreeRuns
      <4> QED BY <2>1, <4>2 DEF JobIds
    <3> QED BY <3>1, <3>2 DEF LoopMove, Moves, RunMove
  <2> QED BY <2>1 DEF RunsOf
<1>2. RunsOf(run, j) \in SUBSET RunIds /\ RunsOf(run', j) \in SUBSET RunIds
  BY DEF RunsOf
<1> QED BY <1>1, <1>2, RunsFinite, FS_Subset

\* A begun attempt has its run.
LEMMA RunCounted ==
    ASSUME LoopMove, LoopInv, NEW w \in Workers, NEW j \in JobIds, Begins(j, w)
    PROVE  Cardinality(RunsOf(run', j)) = Cardinality(RunsOf(run, j)) + 1
<1>1. NextRun \in RunIds /\ run[NextRun].job = 0
  BY FreshIdType DEF Begins, FreeRuns
<1>2. RunsOf(run', j) = RunsOf(run, j) \cup {NextRun} /\ NextRun \notin RunsOf(run, j)
  <2>1. run'[NextRun].job = j /\ \A r \in RunIds \ {NextRun} : run'[r] = run[r]
    BY <1>1 DEF Begins, LoopInv, TablesOK, TypeOK
  <2> QED BY <1>1, <2>1 DEF RunsOf, JobIds
<1>3. IsFiniteSet(RunsOf(run, j))
  BY RunsFinite DEF RunsOf
<1> QED BY <1>2, <1>3, FS_AddElement

LEMMA CountedStep ==
    ASSUME LoopInv, LoopInv', RunsBelong, CopiesCounted, LoopMove
    PROVE  RunsBelong' /\ CopiesCounted'
<1>0. /\ job \in [JobIds -> JobRow] /\ job' \in [JobIds -> JobRow]
      /\ \A w \in Workers : worker[w] \in WorkerRow /\ worker'[w] \in WorkerRow
  BY DEF LoopInv, TablesOK, TypeOK, WorkersOK
<1>1. \A x \in JobRow : x.attempts \in Nat
  BY Bounds DEF JobRow
<1>2. ASSUME NEW j \in JobIds PROVE job'[j].attempts <= Cardinality(RunsOf(run', j))
  <2>0. /\ Cardinality(RunsOf(run, j)) <= Cardinality(RunsOf(run', j))
        /\ Cardinality(RunsOf(run, j)) \in Nat /\ Cardinality(RunsOf(run', j)) \in Nat
        /\ job[j].attempts \in Nat /\ job'[j].attempts \in Nat
        /\ job[j].attempts <= Cardinality(RunsOf(run, j))
    BY <1>0, <1>1, RunsGrow DEF RunsBelong, RunsOf
  <2>1. CASE job'[j].attempts = job[j].attempts
    BY <2>0, <2>1
  <2>2. CASE job'[j].attempts = 0
    BY <2>0, <2>2
  <2>3. ASSUME NEW w \in Workers, Counts(j, w) PROVE job'[j].attempts <= Cardinality(RunsOf(run', j))
    <3>1. job'[j].attempts = job[j].attempts + 1 /\ Begins(j, w)
      BY <2>3 DEF Counts
    <3>2. Cardinality(RunsOf(run', j)) = Cardinality(RunsOf(run, j)) + 1
      BY <3>1, RunCounted
    <3> QED BY <2>0, <3>1, <3>2
  <2>4. ASSUME NEW w \in Workers, Saves(j, w) PROVE job'[j].attempts <= Cardinality(RunsOf(run', j))
    <3>1. job'[j].attempts = worker[w].copy.attempts /\ worker[w].j = j
      BY <2>4 DEF Saves, SameRow, SameJob
    <3> QED BY <2>0, <3>1 DEF CopiesCounted
  <2>5. RowMove(j)
    BY DEF LoopMove, Moves
  <2>6. \/ job'[j].attempts = job[j].attempts \/ job'[j].attempts = 0
        \/ \E w \in Workers : Counts(j, w) \/ Saves(j, w)
    BY <2>5 DEF RowMove, Keeps, Drops, Creates, Requeues, Releases, Recovers, Prunes, Claims,
       Skips, Intends, Doubts, Succeeds, Frees, SameRow, SameJob
  <2> QED BY <2>1, <2>2, <2>3, <2>4, <2>6
<1>3. ASSUME NEW w \in Workers, worker'[w].j \in JobIds
      PROVE  worker'[w].copy.attempts <= Cardinality(RunsOf(run', worker'[w].j))
  <2> DEFINE m == worker[w] n == worker'[w] j == n.j
  <2>0. /\ Cardinality(RunsOf(run, j)) <= Cardinality(RunsOf(run', j))
        /\ Cardinality(RunsOf(run, j)) \in Nat /\ Cardinality(RunsOf(run', j)) \in Nat
    BY <1>3, RunsGrow DEF RunsOf
  <2>1. WorkerMove(w)
    BY DEF LoopMove
  <2>2. CASE n.j = m.j /\ n.copy.attempts = m.copy.attempts
    <3>1. m.copy.attempts \in Nat /\ m.copy.attempts <= Cardinality(RunsOf(run, j))
      BY <1>0, <1>1, <1>3, <2>2 DEF CopiesCounted, WorkerRow
    <3> QED BY <2>0, <2>2, <3>1
  <2>3. CASE n.copy = NoCopy
    BY <2>0, <2>3 DEF NoCopy, NewJob
  <2>4. CASE n.j = m.j /\ n.copy.attempts = job[j].attempts
    BY <1>0, <1>1, <1>3, <2>0, <2>4 DEF RunsBelong, RunsOf
  <2>5. CASE Claimed(w)
    <3>1. n.copy.attempts = job[j].attempts
      BY <2>5 DEF Claimed, Claims, SameJob
    <3> QED BY <1>0, <1>1, <1>3, <2>0, <3>1 DEF RunsBelong, RunsOf
  <2>6. CASE Starts(w)
    <3>1. n.copy.attempts = job[j].attempts + 1 /\ Begins(j, w)
      BY <2>6 DEF Starts
    <3>2. Cardinality(RunsOf(run', j)) = Cardinality(RunsOf(run, j)) + 1
      BY <1>3, <3>1, RunCounted
    <3> QED BY <1>0, <1>1, <1>3, <2>0, <3>1, <3>2 DEF RunsBelong, RunsOf
  <2>7. \/ n.j = m.j /\ n.copy.attempts = m.copy.attempts
        \/ n.copy = NoCopy
        \/ n.j = m.j /\ n.copy.attempts = job[j].attempts
        \/ Claimed(w) \/ Starts(w)
    BY <2>1 DEF WorkerMove, Stays, Rested, Passes, Preflights, Advances, Returns, Decides, Misses,
       Settled, Doubted, LetsGo, SameRow, SameJob
  <2> QED BY <2>2, <2>3, <2>4, <2>5, <2>6, <2>7
<1> QED BY <1>2, <1>3 DEF RunsBelong, CopiesCounted, RunsOf

LEMMA CountedInit == Init => RunsBelong /\ CopiesCounted
<1> SUFFICES ASSUME Init PROVE RunsBelong /\ CopiesCounted
  OBVIOUS
<1>1. ASSUME NEW j \in JobIds PROVE job[j].attempts = 0
  BY <1>1 DEF Init, TablesInit, NewJob
<1>2. ASSUME NEW w \in Workers PROVE worker[w].copy.attempts = 0
  BY <1>2 DEF Init, Resting, NoCopy, NewJob
<1>3. ASSUME NEW j PROVE 0 <= Cardinality(RunsOf(run, j))
  BY RunsFinite DEF RunsOf
<1>4. RunsBelong
  BY <1>1, <1>3 DEF RunsBelong, RunsOf
<1>5. CopiesCounted
  BY <1>2, <1>3 DEF CopiesCounted
<1> QED BY <1>4, <1>5

\* The attempt counter of a job never runs ahead of its stored runs, for any
\* number of server instances, whatever saves are overtaken and whatever fails.
THEOREM RunsCounted == Spec => []RunsBelong
<1>1. Init => LoopInv /\ RunsBelong /\ CopiesCounted
  BY LoopInvInit, CountedInit
<1>2. LoopInv /\ RunsBelong /\ CopiesCounted /\ [Next]_vars
      => (LoopInv /\ RunsBelong /\ CopiesCounted)'
  BY LoopInvStep, LoopMoves, CountedStep
<1> QED BY <1>1, <1>2, PTL DEF Spec

-----------------------------------------------------------------------------
(***************************************************************************)
(* The lease of a job, and the row in memory of the worker that has it.    *)
(***************************************************************************)
\* A job that waits to be claimed has let go of its lease, and a new one has no
\* reviewer.
Waiting(row) ==
    /\ row.status \in {"queued", "retry_waiting"} => row.owner = None
    /\ row.status = "queued" => row.reviewer = 0

RowsWait == \A j \in JobIds : Waiting(job[j])

CopiesWait == \A w \in Workers : Waiting(worker[w].copy)

\* Where a worker holds a row in memory: one that keeps the lease, or one that
\* lets go of it.
Working == {"preflight", "begin", "warning_save", "prepare", "running_save", "run_status",
            "turn_start", "reconcile"}
LettingGo == {"preflight_save", "preflight_replace", "replace", "final_save", "plain_save",
              "reconcile_save"}

\* The row in memory is one of the claimed job.
CopyOf(w) ==
    LET me == worker[w]
    IN /\ me.pc \in Working \cup LettingGo =>
             /\ me.copy.pr = job[me.j].pr
             /\ me.copy.status # "absent" /\ job[me.j].status # "absent"
       /\ me.pc \in Working => me.copy.owner = w
       /\ me.pc \in LettingGo => me.copy.owner = None

CopiesMatch == \A w \in Workers : CopyOf(w)

\* No submission brings an ended job back in this step.
Unrevived == \A j \in JobIds : ~Revived(j)

LEMMA SavingPcs ==
    /\ SavePcs \subseteq Working \cup LettingGo
    /\ (Working \cup LettingGo) \cap (Unclaimed \cup {"reload", "turn", "finish", "finish_owned"}) = {}
    /\ SweptPcs \subseteq Unclaimed /\ "claim" \in SweptPcs
    /\ SavePcs \cap Working = {"warning_save", "running_save"}
    /\ SweptPcs \cap {"off", "startup", "idle", "rec_terminal", "stopping"} = {}
    /\ {"off", "startup", "idle", "rec_terminal", "stopping"} \subseteq Unclaimed
    /\ Working \cap LettingGo = {}
BY DEF SavePcs, Stamped, Working, LettingGo, Unclaimed, Recovering, SweptPcs

LEMMA OwnerNames ==
    ASSUME NEW w \in Workers
    PROVE  w # None /\ Gone # None /\ w # Gone
BY NoneAssumption, OwnersAssumption

LEMMA RowsWaitStep ==
    ASSUME RowsWait, CopiesWait, LoopMove
    PROVE  RowsWait'
<1> SUFFICES ASSUME NEW j \in JobIds PROVE Waiting(job'[j])
  BY DEF RowsWait
<1>1. Waiting(job[j]) /\ \A w \in Workers : Waiting(worker[w].copy)
  BY DEF RowsWait, CopiesWait
<1>2. CASE Keeps(j)
  <2>1. SameRow(job[j], job'[j])
    BY <1>2 DEF Keeps
  <2>2. job[j].owner = None => job'[j].owner = None
    BY <1>2, OwnerNames DEF Keeps
  <2> QED BY <1>1, <2>1, <2>2 DEF Waiting, SameRow
<1>3. CASE Drops(j) \/ Prunes(j)
  BY <1>3 DEF Drops, Prunes, Waiting
<1>4. CASE Creates(j) \/ Requeues(j)
  BY <1>4 DEF Creates, Requeues, Queued, Waiting
<1>5. CASE Releases(j) \/ Recovers(j)
  BY <1>5 DEF Releases, Recovers, Frees, Waiting, Terminal
<1>6. ASSUME NEW w \in Workers,
             Claims(j, w) \/ Counts(j, w) \/ Skips(j, w) \/ Intends(j, w) \/ Doubts(j, w)
             \/ Succeeds(j, w)
      PROVE  Waiting(job'[j])
  BY <1>6 DEF Claims, Counts, Skips, Intends, Doubts, Succeeds, Waiting
<1>7. ASSUME NEW w \in Workers, Saves(j, w) PROVE Waiting(job'[j])
  BY <1>1, <1>7 DEF Saves, Waiting, SameRow
<1> QED BY <1>2, <1>3, <1>4, <1>5, <1>6, <1>7 DEF LoopMove, Moves, RowMove

LEMMA CopiesWaitStep ==
    ASSUME LoopInv, RowsWait, RowsWait', CopiesWait, LoopMove
    PROVE  CopiesWait'
<1> SUFFICES ASSUME NEW w \in Workers PROVE Waiting(worker'[w].copy)
  BY DEF CopiesWait
<1> DEFINE m == worker[w] n == worker'[w]
<1>0. Waiting(m.copy) /\ \A j \in JobIds : Waiting(job[j]) /\ Waiting(job'[j])
  BY DEF RowsWait, CopiesWait
<1>1. Waiting(NoCopy)
  BY DEF Waiting, NoCopy, NewJob
<1>2. ASSUME NEW x, NEW y, Settled(x, y) \/ Doubted(x, y) PROVE Waiting(y)
  BY <1>2 DEF Waiting, Settled, Doubted, LetsGo, Terminal
<1>3. m.pc \notin Unclaimed => m.j \in JobIds
  BY DEF LoopInv, WorkersOK, WorkerOK
<1>4. WorkerMove(w)
  BY DEF LoopMove
<1>5. CASE Stays(w) \/ Passes(w)
  BY <1>0, <1>5 DEF Stays, Passes
<1>6. CASE Rested(w) \/ Returns(w)
  BY <1>1, <1>6 DEF Rested, Returns
<1>7. CASE Claimed(w)
  BY <1>0, <1>7 DEF Claimed
<1>8. CASE Preflights(w)
  BY <1>0, <1>2, <1>3, <1>8 DEF Preflights, Unclaimed, Recovering
<1>9. CASE Starts(w)
  BY <1>9 DEF Starts, Waiting
<1>10. CASE Advances(w)
  BY <1>0, <1>1, <1>10 DEF Advances, Waiting
<1>11. CASE Decides(w)
  <2>1. m.j \in JobIds
    BY <1>3, <1>11 DEF Decides, Unclaimed, Recovering
  <2>2. Waiting(job[m.j])
    BY <1>0, <2>1
  <2>3. SameRow(job[m.j], n.copy) /\ n.copy.owner = None => Waiting(n.copy)
    BY <2>2 DEF SameRow, Waiting
  <2> QED BY <1>2, <1>11, <2>2, <2>3 DEF Decides
<1>12. CASE Misses(w)
  BY <1>2, <1>12 DEF Misses
<1> QED BY <1>4, <1>5, <1>6, <1>7, <1>8, <1>9, <1>10, <1>11, <1>12 DEF WorkerMove

\* A job keeps its pull request, and saves do not undo its creation.
LEMMA RowsStay ==
    ASSUME CopiesMatch, LoopMove, NEW j \in JobIds, job[j].status # "absent"
    PROVE  job'[j].status # "absent" /\ job'[j].pr = job[j].pr
<1>1. ASSUME NEW w \in Workers, Saves(j, w)
      PROVE  job'[j].status # "absent" /\ job'[j].pr = job[j].pr
  <2>1. worker[w].pc \in Working \cup LettingGo /\ worker[w].j = j
    BY <1>1, SavingPcs DEF Saves
  <2> QED BY <1>1, <2>1 DEF Saves, CopiesMatch, CopyOf, SameRow, SameJob
<1>2. RowMove(j)
  BY DEF LoopMove, Moves
<1>3. CASE Keeps(j) \/ Drops(j) \/ Requeues(j) \/ Releases(j) \/ Recovers(j) \/ Prunes(j)
  BY <1>3 DEF Keeps, Drops, Requeues, Queued, Releases, Recovers, Prunes, Frees, SameRow, SameJob
<1>4. ASSUME NEW w \in Workers,
             Claims(j, w) \/ Counts(j, w) \/ Skips(j, w) \/ Intends(j, w) \/ Doubts(j, w)
             \/ Succeeds(j, w)
      PROVE  job'[j].status # "absent" /\ job'[j].pr = job[j].pr
  BY <1>4 DEF Claims, Counts, Skips, Intends, Doubts, Succeeds, SameJob
<1> QED BY <1>1, <1>2, <1>3, <1>4 DEF RowMove, Creates

LEMMA CopiesMatchStep ==
    ASSUME LoopInv, CopiesMatch, LoopMove
    PROVE  CopiesMatch'
<1> SUFFICES ASSUME NEW w \in Workers,
                    worker'[w].pc \in Working \cup LettingGo
             PROVE  /\ worker'[w].copy.pr = job'[worker'[w].j].pr
                    /\ worker'[w].copy.status # "absent" /\ job'[worker'[w].j].status # "absent"
                    /\ worker'[w].pc \in Working => worker'[w].copy.owner = w
                    /\ worker'[w].pc \in LettingGo => worker'[w].copy.owner = None
  BY SavingPcs DEF CopiesMatch, CopyOf
<1> DEFINE m == worker[w] n == worker'[w]
<1>1. WorkerMove(w)
  BY DEF LoopMove
<1>2. m.pc \notin Unclaimed => m.j \in JobIds
  BY DEF LoopInv, WorkersOK, WorkerOK
<1>3. m.pc \in Working \cup LettingGo =>
         /\ m.j \in JobIds
         /\ m.copy.pr = job[m.j].pr /\ m.copy.status # "absent" /\ job[m.j].status # "absent"
         /\ job'[m.j].pr = job[m.j].pr /\ job'[m.j].status # "absent"
         /\ m.pc \in Working => m.copy.owner = w
         /\ m.pc \in LettingGo => m.copy.owner = None
  BY <1>2, SavingPcs, RowsStay DEF CopiesMatch, CopyOf
<1>4. CASE Stays(w)
  BY <1>3, <1>4 DEF Stays
<1>5. ~Rested(w) /\ ~Passes(w) /\ ~Returns(w)
  BY SavingPcs DEF Rested, Passes, Returns
<1>6. CASE Claimed(w)
  <2>1. PICK j \in JobIds : Claims(j, w) /\ n.j = j /\ n.copy = job'[j]
                            /\ n.pc = IF job[j].intent THEN "reconcile" ELSE "preflight"
    BY <1>6 DEF Claimed
  <2>2. n.copy.status \in {"preparing", "reconciling"} /\ n.copy.owner = w
    BY <2>1 DEF Claims
  <2>3. n.pc \notin LettingGo
    BY <2>1 DEF LettingGo
  <2> QED BY <2>1, <2>2, <2>3
<1>7. CASE Preflights(w)
  <2>1. m.pc \in {"preflight", "preflight_replace"}
    BY <1>7 DEF Preflights
  <2>2. m.pc \in Working \cup LettingGo
    BY <2>1 DEF Working, LettingGo
  <2>3. CASE n.copy = job[m.j] /\ n.pc = "preflight"
    BY <1>3, <1>7, <2>2, <2>3 DEF Preflights, LettingGo, Working
  <2>4. CASE m.pc = "preflight" /\ n.pc = "begin" /\ n.copy = m.copy
    BY <1>3, <1>7, <2>2, <2>4 DEF Preflights, LettingGo, Working
  <2>5. CASE n.pc \in {"preflight_save", "preflight_replace"} /\ Settled(m.copy, n.copy)
    BY <1>3, <1>7, <2>2, <2>5 DEF Preflights, LettingGo, Working, Settled, LetsGo, SameJob, Terminal
  <2>6. CASE m.pc = "preflight_replace" /\ n.pc = "replace" /\ n.copy = m.copy
    BY <1>3, <1>7, <2>2, <2>6 DEF Preflights, LettingGo, Working
  <2> QED BY <1>7, <2>3, <2>4, <2>5, <2>6 DEF Preflights
<1>8. CASE Starts(w)
  <2>1. m.pc \in Working \cup LettingGo
    BY <1>8 DEF Starts, Begins, Working
  <2>2. n.j = m.j /\ n.copy.pr = job[m.j].pr /\ n.copy.status = "preparing" /\ n.copy.owner = w
    BY <1>8 DEF Starts
  <2>3. n.pc \notin LettingGo
    BY <1>8 DEF Starts, LettingGo
  <2> QED BY <1>3, <2>1, <2>2, <2>3
<1>9. CASE Advances(w)
  <2>1. n.pc \notin {"finish", "turn"}
    BY SavingPcs
  <2>2. /\ n.j = m.j /\ m.pc \in Working /\ n.pc \notin LettingGo
        /\ n.copy.pr = m.copy.pr /\ n.copy.owner = m.copy.owner
        /\ n.copy.status \in {m.copy.status, "running"}
    BY <1>9, <2>1 DEF Advances, Working, LettingGo, SameJob
  <2> QED BY <1>3, <2>2
<1>10. CASE Decides(w)
  <2>1. m.j \in JobIds /\ job' = job /\ n.j = m.j
    BY <1>2, <1>10 DEF Decides, Unclaimed, Recovering
  <2>2. \/ job[m.j].status \in Active \cup Terminal
           /\ (Settled(job[m.j], n.copy) \/ Doubted(job[m.j], n.copy))
        \/ job[m.j].status \in Terminal /\ SameRow(job[m.j], n.copy) /\ n.copy.owner = None
    <3>1. n.pc # "finish_owned"
      BY SavingPcs
    <3> QED BY <1>10, <3>1 DEF Decides, Active, Executing
  <2>3. n.pc \notin Working
    BY <1>10 DEF Decides, Working
  <2> QED BY <2>1, <2>2, <2>3 DEF Settled, Doubted, LetsGo, SameRow, SameJob, Active, Executing,
             Terminal
<1>11. CASE Misses(w)
  <2>1. m.pc \in Working /\ n.j = m.j /\ n.pc \notin Working
    BY <1>11 DEF Misses, Working
  <2>2. n.copy.pr = m.copy.pr /\ n.copy.status # "absent" /\ n.copy.owner = None
    BY <1>11 DEF Misses, Settled, Doubted, LetsGo, SameJob, Terminal
  <2> QED BY <1>3, <2>1, <2>2
<1> QED BY <1>1, <1>4, <1>5, <1>6, <1>7, <1>8, <1>9, <1>10, <1>11 DEF WorkerMove

HeldLoop == LoopInv /\ RowsWait /\ CopiesWait /\ CopiesMatch

LEMMA HeldLoopInit == Init => HeldLoop
<1> SUFFICES ASSUME Init PROVE HeldLoop
  OBVIOUS
<1>1. LoopInv
  BY LoopInvInit
<1>2. \A j \in JobIds : job[j].status = "absent"
  BY DEF Init, TablesInit, NewJob
<1>3. \A w \in Workers : worker[w].pc = "off" /\ worker[w].copy = NoCopy
  BY DEF Init, Resting
<1>4. Waiting(NoCopy)
  BY DEF Waiting, NoCopy, NewJob
<1>5. RowsWait
  BY <1>2 DEF RowsWait, Waiting
<1>6. CopiesWait
  BY <1>3, <1>4 DEF CopiesWait
<1>7. CopiesMatch
  BY <1>3 DEF CopiesMatch, CopyOf, Working, LettingGo
<1> QED BY <1>1, <1>5, <1>6, <1>7 DEF HeldLoop

LEMMA HeldLoopStep == HeldLoop /\ [Next]_vars => HeldLoop' /\ LoopMove
<1> SUFFICES ASSUME HeldLoop, [Next]_vars PROVE HeldLoop' /\ LoopMove
  OBVIOUS
<1>1. LoopInv /\ LoopInv' /\ LoopMove
  BY LoopInvStep, LoopMoves DEF HeldLoop
<1>2. RowsWait'
  BY <1>1, RowsWaitStep DEF HeldLoop
<1>3. CopiesWait'
  BY <1>1, <1>2, CopiesWaitStep DEF HeldLoop
<1>4. CopiesMatch'
  BY <1>1, CopiesMatchStep DEF HeldLoop
<1> QED BY <1>1, <1>2, <1>3, <1>4 DEF HeldLoop

-----------------------------------------------------------------------------
(***************************************************************************)
(* One job of a pull request, one Reviewer of the project.                 *)
(***************************************************************************)
\* Two active jobs of one pull request are one.
OneJob ==
    \A i, j \in JobIds :
        job[i].status \in Active /\ job[j].status \in Active /\ job[i].pr = job[j].pr => i = j

\* What a recovery pass has swept executes nothing.
Swept ==
    \A w \in Workers :
        worker[w].pc \in SweptPcs => \A i \in worker[w].expired : ~ExecutesRow(job[i])

\* Two jobs with a lease that execute are one.
OneExecutor == \A i, j \in JobIds : ExecutesRow(job[i]) /\ ExecutesRow(job[j]) => i = j

\* A job that executes is the only active one with a reviewer.
Alone ==
    \A i, j \in JobIds :
        ExecutesRow(job[j]) /\ i # j /\ job[i].status \in Active => job[i].reviewer = 0

\* Two active jobs with a reviewer are one.
OneKeeper ==
    \A i, j \in JobIds :
        /\ job[i].status \in Active /\ job[i].reviewer # 0
        /\ job[j].status \in Active /\ job[j].reviewer # 0
        => i = j

Exclusive == Swept /\ OneExecutor /\ Alone /\ OneKeeper

\* A row with an owner executes when it is active.
LEMMA OwnedExecutes ==
    ASSUME HeldLoop, NEW j \in JobIds, job[j].status \in Active, job[j].owner # None
    PROVE  ExecutesRow(job[j])
BY DEF HeldLoop, RowsWait, Waiting, ExecutesRow, Active

\* A job whose submission is recorded was active, if it was not brought back.
LEMMA SubmitMove ==
    ASSUME NEW j \in JobIds, ~Revived(j), NEW w \in Workers, Intends(j, w) \/ Doubts(j, w)
    PROVE  job[j].status \in Active \/ job[j].status \notin Active \cup Terminal \cup {"absent", "deleted"}
<1>1. job'[j].intent /\ job'[j].status \in Active /\ Stored(j)
  BY DEF Intends, Doubts, SameJob, Active, Executing
<1> QED BY <1>1 DEF Revived, Stored

\* A job that is active was, or is new.
LEMMA ActiveMove ==
    ASSUME HeldLoop, LoopMove, NEW j \in JobIds, ~Revived(j), job'[j].status \in Active
    PROVE  \/ /\ job[j].status \in Active /\ job'[j].pr = job[j].pr
              /\ job'[j].reviewer = job[j].reviewer \/ ExecutesRow(job[j])
           \/ Creates(j) \/ Requeues(j)
<1>1. RowMove(j)
  BY DEF LoopMove, Moves
<1>2. job[j].status \in Active => job'[j].pr = job[j].pr
  BY RowsStay DEF HeldLoop, Active, Executing
<1>3. ASSUME NEW w \in Workers, Saves(j, w) PROVE job[j].status \in Active /\ ExecutesRow(job[j])
  BY <1>3, OwnerNames, OwnedExecutes DEF Saves
<1>4. ASSUME NEW w \in Workers, Intends(j, w) \/ Doubts(j, w)
      PROVE  job[j].status \in Active /\ job'[j].reviewer = job[j].reviewer
  <2>1. job[j].status \in Active \cup Terminal \cup {"absent", "deleted"}
    BY DEF HeldLoop, LoopInv, TablesOK, TypeOK, JobRow
  <2>2. job'[j].reviewer = job[j].reviewer
    BY <1>4 DEF Intends, Doubts, SameHands
  <2> QED BY <1>4, <2>1, <2>2, SubmitMove
<1>5. CASE Keeps(j) \/ Recovers(j)
  BY <1>2, <1>5 DEF Keeps, Recovers, Frees, SameRow, Active
<1>6. ~Drops(j) /\ ~Releases(j) /\ ~Prunes(j)
  BY DEF Drops, Releases, Prunes, Active, Executing, Terminal
<1>7. ASSUME NEW w \in Workers, Claims(j, w) \/ Counts(j, w)
      PROVE  job[j].status \in Active /\ job'[j].reviewer = job[j].reviewer
  BY <1>7 DEF Claims, Counts, Begins, CanBegin, ClaimDue, SameHands, Active, Executing
<1>8. \A w \in Workers : ~Skips(j, w) /\ ~Succeeds(j, w)
  BY DEF Skips, Succeeds, Active, Executing
<1> QED BY <1>1, <1>2, <1>3, <1>4, <1>5, <1>6, <1>7, <1>8 DEF RowMove

\* A new job found no active one of its pull request, or superseded it.
LEMMA QueuedMove ==
    ASSUME HeldLoop, OneJob, LoopMove, Unrevived,
           NEW i \in JobIds, Creates(i) \/ Requeues(i),
           NEW j \in JobIds, j # i, job'[j].status \in Active
    PROVE  job'[j].pr # job'[i].pr
<1> DEFINE p == job'[i].pr
<1>1. Queued(i)
  BY DEF Creates, Requeues
<1>2. job'[j].status = job[j].status
  BY <1>1 DEF Queued, Active, Executing
<1>3. ~Creates(j) /\ ~Requeues(j)
  BY <1>2 DEF Creates, Requeues, Active, Executing
<1>4. job[j].status \in Active /\ job'[j].pr = job[j].pr
  BY <1>3, ActiveMove DEF Unrevived
<1>5. ASSUME job[j].pr = p PROVE FALSE
  <2>1. j \in ActiveJobs(p) /\ ActiveJobs(p) \subseteq 1..MaxJobs /\ MaxJobs \in Nat
    BY <1>4, <1>5, BoundAssumption DEF ActiveJobs, JobIds
  <2>2. LoadActive(p) \in ActiveJobs(p)
    BY <2>1, MaxIdType DEF LoadActive
  <2>3. LoadActive(p) = j
    BY <1>4, <1>5, <2>2 DEF OneJob, ActiveJobs
  <2>4. job'[j].status = "superseded"
    BY <1>1, <2>1, <2>3 DEF Queued, JobIds
  <2> QED BY <2>4 DEF Active, Executing
<1> QED BY <1>4, <1>5

LEMMA OneJobStep ==
    ASSUME HeldLoop, OneJob, LoopMove, Unrevived
    PROVE  OneJob'
<1> SUFFICES ASSUME NEW i \in JobIds, NEW j \in JobIds, i # j, job'[i].pr = job'[j].pr,
                    job'[i].status \in Active, job'[j].status \in Active
             PROVE  FALSE
  BY DEF OneJob
<1>1. ~Creates(i) /\ ~Requeues(i)
  BY QueuedMove
<1>2. ~Creates(j) /\ ~Requeues(j)
  BY QueuedMove
<1>3. job[i].status \in Active /\ job'[i].pr = job[i].pr
  BY <1>1, ActiveMove DEF Unrevived
<1>4. job[j].status \in Active /\ job'[j].pr = job[j].pr
  BY <1>2, ActiveMove DEF Unrevived
<1> QED BY <1>3, <1>4 DEF OneJob

LEMMA AtMostOne ==
    ASSUME NEW S, IsFiniteSet(S)
    PROVE  Cardinality(S) <= 1 <=> \A x, y \in S : x = y
<1>0. Cardinality(S) \in Nat
  BY FS_CardinalityType
<1>1. ASSUME NEW x \in S, NEW y \in S, x # y PROVE Cardinality(S) > 1
  <2>1. Cardinality({x, y}) = 2
    <3>1. IsFiniteSet({x}) /\ Cardinality({x}) = 1
      BY FS_Singleton
    <3>2. Cardinality({x} \cup {y}) = 2
      BY <1>1, <3>1, FS_AddElement
    <3>3. {x} \cup {y} = {x, y}
      OBVIOUS
    <3> QED BY <3>2, <3>3
  <2>2. Cardinality({x, y}) <= Cardinality(S)
    BY <1>1, FS_Subset
  <2> QED BY <1>0, <2>1, <2>2
<1>2. ASSUME \A x, y \in S : x = y PROVE Cardinality(S) <= 1
  <2>1. CASE S = {}
    BY <2>1, FS_EmptySet
  <2>2. ASSUME NEW x \in S PROVE Cardinality(S) <= 1
    <3>1. S = {x}
      BY <1>2, <2>2
    <3>2. Cardinality({x}) = 1
      BY FS_Singleton
    <3> QED BY <3>1, <3>2
  <2> QED BY <2>1, <2>2
<1> QED BY <1>0, <1>1, <1>2

\* Counted, or compared in pairs: a pull request has one active job.
LEMMA OneJobCounted == HeldLoop => (OneActive <=> OneJob)
<1> SUFFICES ASSUME HeldLoop PROVE OneActive <=> OneJob
  OBVIOUS
<1>1. \A j \in JobIds : job[j].pr \in Prs
  BY DEF HeldLoop, LoopInv, TablesOK, TypeOK, JobRow
<1>2. ASSUME NEW p \in Prs
      PROVE  Cardinality(ActiveJobs(p)) <= 1 <=> \A i, j \in ActiveJobs(p) : i = j
  <2>1. IsFiniteSet(ActiveJobs(p))
    <3>1. ActiveJobs(p) \subseteq JobIds /\ IsFiniteSet(JobIds)
      BY FS_Interval, BoundAssumption DEF ActiveJobs, JobIds
    <3> QED BY <3>1, FS_Subset
  <2> QED BY <2>1, AtMostOne
<1>3. OneActive <=> \A p \in Prs : \A i, j \in ActiveJobs(p) : i = j
  BY <1>2 DEF OneActive
<1>4. (\A p \in Prs : \A i, j \in ActiveJobs(p) : i = j) <=> OneJob
  BY <1>1 DEF OneJob, ActiveJobs
<1> QED BY <1>3, <1>4

\* Webhooks, discovery, the CI watch, a preflight replacement and stale saves
\* never give a pull request a second active job, for any number of server
\* instances: only the submission of a turn whose job had ended does.
THEOREM SecondJobComesBack == Spec => SecondJobIsRevived
<1> DEFINE Back == \E j \in JobIds : Revived(j)
           Step == OneJob => OneJob' \/ Back
<1>1. HeldLoop /\ [Next]_vars => HeldLoop' /\ LoopMove
  BY HeldLoopStep
<1>2. HeldLoop /\ LoopMove => Step
  BY OneJobStep DEF Unrevived
<1>3. HeldLoop /\ [Next]_vars => [Step]_vars
  BY <1>1, <1>2
<1>4. HeldLoop => (OneActive <=> OneJob)
  BY OneJobCounted
<1>5. Step <=> (OneJob => OneJob' \/ Back)
  OBVIOUS
<1> HIDE DEF Step, Back
<1>6. Spec => [](HeldLoop /\ (OneActive <=> OneJob)) /\ [][Step]_vars
  BY <1>1, <1>3, <1>4, HeldLoopInit, PTL DEF Spec
<1> QED BY <1>5, <1>6, PTL DEF SecondJobIsRevived, Back

\* Only a claim makes a job execute.
LEMMA ExecutesMove ==
    ASSUME HeldLoop, LoopMove, NEW j \in JobIds, ~Revived(j), ExecutesRow(job'[j])
    PROVE  ExecutesRow(job[j]) \/ \E w \in Workers : Claims(j, w)
<1>1. RowMove(j)
  BY DEF LoopMove, Moves
<1>2. CASE Keeps(j)
  BY <1>2, OwnerNames DEF Keeps, SameRow, ExecutesRow
<1>3. ASSUME NEW w \in Workers, Saves(j, w) PROVE ExecutesRow(job[j])
  BY <1>3, OwnerNames, OwnedExecutes DEF Saves
<1>4. ASSUME NEW w \in Workers, Intends(j, w) \/ Doubts(j, w) PROVE ExecutesRow(job[j])
  <2>1. job[j].status \in Active \cup Terminal \cup {"absent", "deleted"}
    BY DEF HeldLoop, LoopInv, TablesOK, TypeOK, JobRow
  <2>2. job[j].owner # None
    BY <1>4 DEF Intends, Doubts, ExecutesRow
  <2> QED BY <1>4, <2>1, <2>2, SubmitMove, OwnedExecutes
<1>5. ASSUME NEW w \in Workers, Counts(j, w) PROVE ExecutesRow(job[j])
  BY <1>5, OwnerNames DEF Counts, Begins, CanBegin, ExecutesRow, Executing
<1>6. /\ ~Drops(j) /\ ~Creates(j) /\ ~Requeues(j) /\ ~Prunes(j) /\ ~Releases(j) /\ ~Recovers(j)
      /\ \A w \in Workers : ~Skips(j, w) /\ ~Succeeds(j, w)
  BY DEF Drops, Creates, Requeues, Queued, Prunes, Releases, Recovers, Frees, Skips, Succeeds,
     ExecutesRow, Executing, Terminal
<1> QED BY <1>1, <1>2, <1>3, <1>4, <1>5, <1>6 DEF RowMove

LEMMA SweptStep ==
    ASSUME HeldLoop, Swept, LoopMove, Unrevived
    PROVE  Swept'
<1> SUFFICES ASSUME NEW w \in Workers, worker'[w].pc \in SweptPcs, NEW i \in worker'[w].expired,
                    ExecutesRow(job'[i])
             PROVE  FALSE
  BY DEF Swept
<1> DEFINE m == worker[w] n == worker'[w]
<1>1. n.pc \in Unclaimed
  BY SavingPcs
<1>2. Stays(w) \/ Passes(w)
  <2>1. WorkerMove(w)
    BY DEF LoopMove
  <2>2. ~Rested(w)
    BY SavingPcs DEF Rested
  <2>3. ~Claimed(w) /\ ~Preflights(w) /\ ~Starts(w) /\ ~Advances(w) /\ ~Returns(w)
        /\ ~Decides(w) /\ ~Misses(w)
    BY DEF SweptPcs, Claimed, Preflights, Starts, Advances, Returns, Decides, Misses
  <2> QED BY <2>1, <2>2, <2>3 DEF WorkerMove
<1>3. i \in m.expired /\ i \in JobIds
  BY <1>2 DEF Stays, Passes, HeldLoop, LoopInv, WorkersOK, WorkerRow
<1>4. ~ExecutesRow(job[i])
  <2>1. m.pc \in SweptPcs \/ ~ExecutesRow(job'[i])
    BY <1>2, <1>3 DEF Stays, Passes
  <2> QED BY <1>3, <2>1 DEF Swept
<1>5. PICK v \in Workers : Claims(i, v)
  BY <1>3, <1>4, ExecutesMove DEF Unrevived
<1> QED BY <1>5 DEF Claims

\* Whoever claims, nobody executes.
LEMMA ClaimAlone ==
    ASSUME HeldLoop, Swept, NEW j \in JobIds, NEW w \in Workers, Claims(j, w), NEW i \in JobIds
    PROVE  /\ ~ExecutesRow(job[i])
           /\ i # j /\ job[i].status \in Active => job[i].reviewer = 0
           /\ i # j => job'[i] = job[i]
<1>1. j \in ClaimDue(Expired(w)) /\ worker[w].pc \in SweptPcs
  BY SavingPcs DEF Claims
<1>2. ~ExecutesRow(job[i])
  BY <1>1 DEF ClaimDue, Expired, ExecutesRow, Swept
<1>3. ASSUME i # j, job[i].status \in Active PROVE job[i].reviewer = 0
  <2>1. job[i].status = "queued" => job[i].reviewer = 0
    BY DEF HeldLoop, RowsWait, Waiting
  <2>2. ~(job[i].reviewer # 0 /\ job[i].status \in Executing \cup {"retry_waiting"})
    BY <1>1, <1>3 DEF ClaimDue
  <2> QED BY <1>3, <2>1, <2>2 DEF Active
<1> QED BY <1>2, <1>3 DEF Claims

LEMMA OneExecutorStep ==
    ASSUME HeldLoop, Swept, OneExecutor, LoopMove, Unrevived
    PROVE  OneExecutor'
<1> SUFFICES ASSUME NEW i \in JobIds, NEW j \in JobIds, ExecutesRow(job'[i]), ExecutesRow(job'[j]),
                    i # j
             PROVE  FALSE
  BY DEF OneExecutor
<1>1. ASSUME NEW a \in JobIds, NEW b \in JobIds, a # b, ExecutesRow(job'[b]),
             NEW w \in Workers, Claims(a, w)
      PROVE  FALSE
  <2>1. job'[b] = job[b] /\ ~ExecutesRow(job[b])
    BY <1>1, ClaimAlone
  <2> QED BY <1>1, <2>1
<1>2. ExecutesRow(job[i]) /\ ExecutesRow(job[j])
  BY <1>1, ExecutesMove DEF Unrevived
<1> QED BY <1>2 DEF OneExecutor

LEMMA AloneStep ==
    ASSUME HeldLoop, Swept, OneExecutor, Alone, LoopMove, Unrevived
    PROVE  Alone'
<1> SUFFICES ASSUME NEW i \in JobIds, NEW j \in JobIds, ExecutesRow(job'[j]), i # j,
                    job'[i].status \in Active
             PROVE  job'[i].reviewer = 0
  BY DEF Alone
<1>1. CASE ExecutesRow(job[j])
  <2>1. CASE Creates(i) \/ Requeues(i)
    BY <2>1 DEF Creates, Requeues, Queued
  <2>2. CASE job[i].status \in Active /\ ~ExecutesRow(job[i]) /\ job'[i].reviewer = job[i].reviewer
    BY <1>1, <2>2 DEF Alone
  <2>3. ~ExecutesRow(job[i])
    BY <1>1 DEF OneExecutor
  <2> QED BY <2>1, <2>2, <2>3, ActiveMove DEF Unrevived
<1>2. CASE \E w \in Workers : Claims(j, w)
  BY <1>2, ClaimAlone
<1> QED BY <1>1, <1>2, ExecutesMove DEF Unrevived

LEMMA OneKeeperStep ==
    ASSUME HeldLoop, OneExecutor, Alone, OneKeeper, LoopMove, Unrevived
    PROVE  OneKeeper'
<1> SUFFICES ASSUME NEW i \in JobIds, NEW j \in JobIds, i # j,
                    job'[i].status \in Active, job'[i].reviewer # 0,
                    job'[j].status \in Active, job'[j].reviewer # 0
             PROVE  FALSE
  BY DEF OneKeeper
<1>1. ASSUME NEW a \in JobIds, job'[a].status \in Active, job'[a].reviewer # 0
      PROVE  /\ job[a].status \in Active
             /\ job[a].reviewer # 0 \/ ExecutesRow(job[a])
  BY <1>1, ActiveMove DEF Unrevived, Creates, Requeues, Queued
<1>2. ~ExecutesRow(job[i]) \/ ~ExecutesRow(job[j])
  BY DEF OneExecutor
<1>3. ExecutesRow(job[i]) => job[j].reviewer = 0
  BY <1>1 DEF Alone
<1>4. ExecutesRow(job[j]) => job[i].reviewer = 0
  BY <1>1 DEF Alone
<1> QED BY <1>1, <1>2, <1>3, <1>4 DEF OneKeeper

LEMMA ExclusiveInit == Init => Exclusive
<1> SUFFICES ASSUME Init PROVE Exclusive
  OBVIOUS
<1>1. \A j \in JobIds : job[j].status = "absent"
  BY DEF Init, TablesInit, NewJob
<1>2. \A w \in Workers : worker[w].pc = "off"
  BY DEF Init, Resting
<1> QED BY <1>1, <1>2 DEF Exclusive, Swept, SweptPcs, OneExecutor, ExecutesRow, Alone, OneKeeper,
        Active, Executing

\* No submission ever brings a job back that had ended.
NoRevival == [][Unrevived]_vars

\* Only one logical Review of the project has a Reviewer or may create one, for
\* any number of server instances, overtaken saves, failing store calls, crashes
\* and submissions, until a submission brings a job back that had ended.
THEOREM OneReviewerHolds == Spec /\ NoRevival => []OneReviewer
<1>1. Init => HeldLoop /\ Exclusive
  BY HeldLoopInit, ExclusiveInit
<1>2. UNCHANGED vars => Unrevived
  BY DEF vars, tables, Unrevived, Revived, Active, Executing, Terminal
<1>3. HeldLoop /\ Exclusive /\ [Next]_vars /\ [Unrevived]_vars => (HeldLoop /\ Exclusive)'
  BY <1>2, HeldLoopStep, SweptStep, OneExecutorStep, AloneStep, OneKeeperStep DEF Exclusive
<1>4. HeldLoop /\ Exclusive => OneReviewer
  BY DEF Exclusive, Alone, OneKeeper, OneReviewer, Executes, ExecutesRow
<1> QED BY <1>1, <1>3, <1>4, PTL DEF Spec, NoRevival

-----------------------------------------------------------------------------
(***************************************************************************)
(* Leases as a claim sees them: against a reading of the clock from before *)
(* the recovery pass.                                                      *)
(***************************************************************************)
\* A lease on the list of a recovery pass is over: whoever renews one takes it
\* off every list.
ListedLapsed == \A w \in Workers : \A i \in worker[w].expired : ~job[i].live

\* A row in memory that lets go of its owner has no lease either.
CopiesLapsed == \A w \in Workers : worker[w].pc \in LettingGo => ~worker[w].copy.live

Lapsed == ListedLapsed /\ CopiesLapsed

\* What one step may do to the lease of job j and to the list and the row in
\* memory of worker w.
Renews(j) == job'[j].live => job[j].live \/ \A v \in Workers : j \notin worker'[v].expired

Lists(w) ==
    LET m == worker[w] n == worker'[w]
    IN /\ n.expired \subseteq m.expired \/ (job' = job /\ \A i \in n.expired : ~job[i].live)
       /\ n.pc \in LettingGo => ~n.copy.live \/ (m.pc \in LettingGo /\ n.copy = m.copy)

LeasesMove == (\A j \in JobIds : Renews(j)) /\ (\A w \in Workers : Lists(w))

\* No lease is granted or renewed.
NoneRenewed == \A j \in JobIds : job'[j].live => job[j].live

LEMMA LiveFields ==
    ASSUME NEW x \in JobRow, NEW s, NEW r
    PROVE  /\ ~Unleased(x).live /\ ~Finished(x, s).live /\ ~ScheduleRetry(x).live
           /\ ~BeginReconciliation(x).live /\ ~[x EXCEPT !.owner = None, !.live = FALSE].live
           /\ ~[Unleased(x) EXCEPT !.status = s, !.due = TRUE].live
           /\ ~[x EXCEPT !.status = s, !.owner = None, !.live = FALSE].live
           /\ Begun(x, r).live = x.live
BY DEF JobRow, Unleased, Finished, ScheduleRetry, BeginReconciliation, Begun

LEMMA LiveOutcomes ==
    ASSUME NEW x \in JobRow, NEW c,
           \/ c = [x EXCEPT !.owner = None, !.live = FALSE]
           \/ c = BeginReconciliation(x) \/ c = ScheduleRetry(x)
           \/ \E s : c = Finished(x, s)
    PROVE  ~c.live
<1>1. ASSUME NEW s, c = Finished(x, s) PROVE ~c.live
  BY <1>1, LiveFields
<1>2. ASSUME c = BeginReconciliation(x) \/ c = ScheduleRetry(x) PROVE ~c.live
  BY <1>2, LiveFields
<1>3. ASSUME c = [x EXCEPT !.owner = None, !.live = FALSE] PROVE ~c.live
  BY <1>3, LiveFields
<1> QED BY <1>1, <1>2, <1>3

LEMMA OneRenewed ==
    ASSUME TypeOK, NEW j, NEW row, job' = [job EXCEPT ![j] = row], j \in JobIds /\ row.live => job[j].live
    PROVE  NoneRenewed
BY DEF TypeOK, NoneRenewed

LEMMA EnqueueRenews ==
    ASSUME TypeOK, NEW p, NEW h, NEW d, NEW watched, EnqueueInTransaction(p, h, d, watched)
    PROVE  NoneRenewed
<1> DEFINE old == LoadActive(p)
           new == NewJob(p, h, d, "queued")
<1>1. ~new.live
  BY DEF NewJob
<1> HIDE DEF new
<1>2. CASE job' = job
  BY <1>2 DEF NoneRenewed
<1>3. CASE \E e : job' = [job EXCEPT ![old].delivery = e]
  <2>1. PICK e : job' = [job EXCEPT ![old] = [job[old] EXCEPT !.delivery = e]]
    BY <1>3
  <2>2. old \in JobIds => [job[old] EXCEPT !.delivery = e].live = job[old].live
    BY DEF TypeOK, JobRow
  <2> QED BY <2>1, <2>2, OneRenewed
<1>4. CASE job' = [job EXCEPT ![NextJob] = new]
  BY <1>1, <1>4, OneRenewed
<1>5. CASE job' = [[job EXCEPT ![old].status = "superseded"] EXCEPT ![NextJob] = new]
  <2>1. ASSUME NEW j \in JobIds, job'[j].live PROVE job[j].live
    <3>1. job \in [JobIds -> JobRow]
      BY DEF TypeOK
    <3>2. j # NextJob
      BY <1>1, <1>5, <2>1, <3>1
    <3>3. job'[j] = job[j] \/ job'[j] = [job[j] EXCEPT !.status = "superseded"]
      BY <1>5, <3>1, <3>2
    <3>4. [job[j] EXCEPT !.status = "superseded"].live = job[j].live
      BY <3>1 DEF JobRow
    <3> QED BY <2>1, <3>3, <3>4
  <2> QED BY <2>1 DEF NoneRenewed
<1> QED BY <1>2, <1>3, <1>4, <1>5 DEF EnqueueInTransaction, new

LEMMA AdmissionRenews ==
    ASSUME TypeOK, NEW p, NEW h, NEW seen, NEW d,
           \/ Enqueue(p, h, d) \/ AdmitCandidate(p, h) \/ AdmitWatch(p, h)
           \/ EnqueueFromWatch(p, seen, h, d) \/ ReplaceWatchHead(p, seen, h) \/ DeleteWatch(p, seen)
    PROVE  NoneRenewed
<1> DEFINE latest == LatestSameHead(p, h)
           row == [job[latest] EXCEPT !.status = "queued", !.due = TRUE, !.reviewer = 0,
                                      !.run = 0, !.owner = None, !.live = FALSE]
<1>1. CASE \E x, e : EnqueueInTransaction(p, h, e, x)
  BY <1>1, EnqueueRenews
<1>2. CASE job' = job
  BY <1>2 DEF NoneRenewed
<1>3. CASE job' = [job EXCEPT ![latest] = row]
  <2>1. latest \in JobIds => ~row.live
    BY DEF TypeOK, JobRow
  <2> HIDE DEF row
  <2> QED BY <1>3, <2>1, OneRenewed
<1> QED BY <1>1, <1>2, <1>3 DEF Enqueue, AdmitCandidate, AdmitWatch, EnqueueFromWatch,
           ReplaceWatchHead, DeleteWatch, tables

\* The transactions that write a row without its lease, or take it away.
LEMMA RowRenews ==
    ASSUME TypeOK, NEW j \in JobIds, NEW o,
           \/ LeaseLapses(j) \/ BecomesDue(j) \/ SkipForCiPending(j) \/ BeginAttempt(j, o)
           \/ RecordIntent(j) \/ MarkReconciling(j) \/ RecordReceipt(j) \/ Prune(j)
    PROVE  NoneRenewed
<1> DEFINE x == job[j]
           recorded == [x EXCEPT !.receipt = TRUE, !.status = "succeeded", !.due = TRUE,
                                 !.owner = IF x.run = 0 THEN None ELSE x.owner,
                                 !.live = x.run # 0 /\ x.live]
           intent == [x EXCEPT !.intent = TRUE,
                               !.status = IF x.status = "reconciling" THEN "reconciling"
                                          ELSE "submission_pending"]
<1>1. x \in JobRow
  BY DEF TypeOK
<1>2. /\ \A s : [x EXCEPT !.status = s].live = x.live
      /\ [x EXCEPT !.due = TRUE].live = x.live /\ ~[x EXCEPT !.live = FALSE].live
      /\ ~Finished(x, "skipped").live /\ Begun(x, NextRun).live = x.live
      /\ intent.live = x.live /\ (recorded.live => x.live)
  BY <1>1, LiveFields DEF JobRow
<1>3. \/ job' = job
      \/ \E s : job' = [job EXCEPT ![j] = [x EXCEPT !.status = s]]
      \/ job' = [job EXCEPT ![j] = [x EXCEPT !.due = TRUE]]
      \/ job' = [job EXCEPT ![j] = [x EXCEPT !.live = FALSE]]
      \/ job' = [job EXCEPT ![j] = Finished(x, "skipped")]
      \/ job' = [job EXCEPT ![j] = Begun(x, NextRun)]
      \/ job' = [job EXCEPT ![j] = intent]
      \/ job' = [job EXCEPT ![j] = recorded]
  BY DEF LeaseLapses, BecomesDue, SkipForCiPending, BeginAttempt, RecordIntent, MarkReconciling,
     RecordReceipt, Prune, WriteRow, Upsert
<1> HIDE DEF recorded, intent
<1>4. CASE job' = job
  BY <1>4 DEF NoneRenewed
<1>5. ASSUME NEW row, job' = [job EXCEPT ![j] = row], row.live => x.live PROVE NoneRenewed
  BY <1>5, OneRenewed
<1> QED BY <1>2, <1>3, <1>4, <1>5

\* The transactions that write many rows.
LEMMA TableRenews ==
    ASSUME TypeOK, NEW w, NEW e, NEW r \in RunIds,
           Start(w) \/ FinishRun(r) \/ ReleaseTerminalOwnership(e) \/ RecoverJobs(e) \/ CancelActive
    PROVE  NoneRenewed
<1>1. \A j \in JobIds : job[j] \in JobRow
  BY DEF TypeOK
<1>2. CASE Start(w)
  <2>1. ASSUME NEW j \in JobIds
        PROVE  [job[j] EXCEPT !.owner = Gone].live = job[j].live
    BY <1>1 DEF JobRow
  <2>2. \A j \in JobIds : job'[j] = IF job[j].owner = w THEN [job[j] EXCEPT !.owner = Gone] ELSE job[j]
    BY <1>2 DEF Start
  <2> QED BY <2>1, <2>2 DEF NoneRenewed
<1>3. CASE FinishRun(r)
  <2>1. CASE job' = job
    BY <2>1 DEF NoneRenewed
  <2>2. CASE job' = [job EXCEPT ![run[r].job] = Unleased(job[run[r].job])]
    <3>1. run[r].job \in JobIds => ~Unleased(job[run[r].job]).live
      BY <1>1, LiveFields
    <3> QED BY <2>2, <3>1, OneRenewed
  <2> QED BY <1>3, <2>1, <2>2 DEF FinishRun
<1>4. ASSUME NEW j \in JobIds, ReleaseTerminalOwnership(e) \/ RecoverJobs(e) \/ CancelActive,
             job'[j].live
      PROVE  job[j].live
  <2>1. /\ ~Unleased(job[j]).live
        /\ \A s : ~[Unleased(job[j]) EXCEPT !.status = s, !.due = TRUE].live
        /\ ~[job[j] EXCEPT !.status = "cancelled", !.owner = None, !.live = FALSE].live
    BY <1>1, LiveFields
  <2>2. \/ job'[j] = job[j] \/ job'[j] = Unleased(job[j])
        \/ \E s : job'[j] = [Unleased(job[j]) EXCEPT !.status = s, !.due = TRUE]
        \/ job'[j] = [job[j] EXCEPT !.status = "cancelled", !.owner = None, !.live = FALSE]
    BY <1>4 DEF ReleaseTerminalOwnership, RecoverJobs, CancelActive
  <2> QED BY <1>4, <2>1, <2>2
<1> QED BY <1>2, <1>3, <1>4 DEF NoneRenewed

\* A save keeps the lease of the stored row, or lets go of it.
LEMMA SaveRenews ==
    ASSUME HeldLoop, CopiesLapsed, NEW w \in Workers, worker[w].pc \in SavePcs,
           SaveClaimed(worker[w].j, w, worker[w].copy, worker[w].overtaken)
    PROVE  NoneRenewed
<1> DEFINE j == worker[w].j
           c == worker[w].copy
<1>1. j \in JobIds /\ c \in JobRow
  <2>1. worker[w].pc \notin Unclaimed
    BY DEF SavePcs, Stamped, Unclaimed, Recovering
  <2> QED BY <2>1 DEF HeldLoop, LoopInv, WorkersOK, WorkerOK, WorkerRow
<1>2. c.owner = w \/ ~c.live
  BY SavingPcs DEF HeldLoop, CopiesMatch, CopyOf, CopiesLapsed
<1>3. TypeOK
  BY DEF HeldLoop, LoopInv, TablesOK
<1>4. CASE job' = job
  BY <1>4 DEF NoneRenewed
<1>5. CASE c.owner = w /\ job' = [job EXCEPT ![j] = [c EXCEPT !.live = job[j].live]]
  <2>1. [c EXCEPT !.live = job[j].live].live = job[j].live
    BY <1>1 DEF JobRow
  <2> QED BY <1>1, <1>3, <1>5, <2>1, OneRenewed
<1>6. CASE c.owner # w /\ job' = [job EXCEPT ![j] = c]
  BY <1>2, <1>3, <1>6, OneRenewed
<1> QED BY <1>4, <1>5, <1>6 DEF SaveClaimed, Upsert, WriteRow

-----------------------------------------------------------------------------
\* The lists and the rows in memory.
LEMMA GoesLists ==
    ASSUME WorkersOK(worker), NEW w \in Workers, NEW row, Goes(w, row),
           row.expired \subseteq worker[w].expired,
           row.pc \in LettingGo =>
              ~row.copy.live \/ (worker[w].pc \in LettingGo /\ row.copy = worker[w].copy)
    PROVE  \A v \in Workers : Lists(v)
<1> SUFFICES ASSUME NEW v \in Workers PROVE Lists(v)
  OBVIOUS
<1>1. worker'[v] = IF v = w THEN row ELSE worker[v]
  BY DEF Goes, WorkersOK
<1> QED BY <1>1 DEF Lists

LEMMA RestLists ==
    ASSUME WorkersOK(worker), NEW w \in Workers, NEW pc, pc \notin LettingGo,
           \/ Rests(w, pc)
           \/ \E j, h : Goes(w, [Resting(pc) EXCEPT !.j = j, !.heartbeat = h])
           \/ \E t, k : Goes(w, [Resting(pc) EXCEPT !.todo = t, !.kept = k])
           \/ \E j, r : Goes(w, [Resting(pc) EXCEPT !.j = j, !.result = r])
    PROVE  \A v \in Workers : Lists(v)
<1>1. PICK row : Goes(w, row) /\ row.pc = pc /\ row.expired = {}
  <2>1. ASSUME NEW j, NEW h
        PROVE  /\ [Resting(pc) EXCEPT !.j = j, !.heartbeat = h].pc = pc
               /\ [Resting(pc) EXCEPT !.j = j, !.heartbeat = h].expired = {}
    BY DEF Resting
  <2>2. ASSUME NEW t, NEW k
        PROVE  /\ [Resting(pc) EXCEPT !.todo = t, !.kept = k].pc = pc
               /\ [Resting(pc) EXCEPT !.todo = t, !.kept = k].expired = {}
    BY DEF Resting
  <2>3. ASSUME NEW j, NEW r
        PROVE  /\ [Resting(pc) EXCEPT !.j = j, !.result = r].pc = pc
               /\ [Resting(pc) EXCEPT !.j = j, !.result = r].expired = {}
    BY DEF Resting
  <2>4. Resting(pc).pc = pc /\ Resting(pc).expired = {}
    BY DEF Resting
  <2> QED BY <2>1, <2>2, <2>3, <2>4 DEF Rests
<1> QED BY <1>1, GoesLists

\* The row in memory of worker w with other fields than its list.
LEMMA RowLists ==
    ASSUME WorkersOK(worker), NEW w \in Workers, NEW pc, NEW c, NEW o, NEW r, NEW b, NEW t, NEW k,
           LET m == worker[w]
           IN \/ Goes(w, [m EXCEPT !.pc = pc]) /\ c = m.copy
              \/ Goes(w, [m EXCEPT !.pc = pc, !.todo = t]) /\ c = m.copy
              \/ Goes(w, [m EXCEPT !.pc = pc, !.kept = k, !.todo = t]) /\ c = m.copy
              \/ Goes(w, [m EXCEPT !.pc = pc, !.overtaken = FALSE]) /\ c = m.copy
              \/ Goes(w, [m EXCEPT !.pc = pc, !.copy = c])
              \/ Goes(w, [m EXCEPT !.pc = pc, !.copy = c, !.overtaken = FALSE])
              \/ Goes(w, [m EXCEPT !.pc = pc, !.result = r, !.copy = c, !.overtaken = FALSE])
              \/ Goes(w, [m EXCEPT !.run = b, !.copy = c, !.overtaken = FALSE, !.pc = pc, !.result = r])
              \/ Goes(w, [m EXCEPT !.todo = t]) /\ c = m.copy /\ pc = m.pc
              \/ Goes(w, [m EXCEPT !.copy = c]) /\ pc = m.pc
              \/ Goes(w, [m EXCEPT !.heartbeat = FALSE, !.cancelled = o]) /\ c = m.copy /\ pc = m.pc,
           pc \in LettingGo => ~c.live \/ (worker[w].pc \in LettingGo /\ c = worker[w].copy)
    PROVE  \A v \in Workers : Lists(v)
<1>1. worker[w] \in WorkerRow
  BY DEF WorkersOK
<1> DEFINE m == worker[w]
           Row(n) == n.pc = pc /\ n.copy = c /\ n.expired = m.expired
<1>2. c = m.copy => Row([m EXCEPT !.pc = pc])
  BY <1>1 DEF WorkerRow
<1>3. c = m.copy => Row([m EXCEPT !.pc = pc, !.todo = t])
  BY <1>1 DEF WorkerRow
<1>4. c = m.copy => Row([m EXCEPT !.pc = pc, !.kept = k, !.todo = t])
  BY <1>1 DEF WorkerRow
<1>5. c = m.copy => Row([m EXCEPT !.pc = pc, !.overtaken = FALSE])
  BY <1>1 DEF WorkerRow
<1>6. Row([m EXCEPT !.pc = pc, !.copy = c])
  BY <1>1 DEF WorkerRow
<1>7. Row([m EXCEPT !.pc = pc, !.copy = c, !.overtaken = FALSE])
  BY <1>1 DEF WorkerRow
<1>8. Row([m EXCEPT !.pc = pc, !.result = r, !.copy = c, !.overtaken = FALSE])
  BY <1>1 DEF WorkerRow
<1>9. Row([m EXCEPT !.run = b, !.copy = c, !.overtaken = FALSE, !.pc = pc, !.result = r])
  BY <1>1 DEF WorkerRow
<1>10. c = m.copy /\ pc = m.pc => Row([m EXCEPT !.todo = t])
  BY <1>1 DEF WorkerRow
<1>11. pc = m.pc => Row([m EXCEPT !.copy = c])
  BY <1>1 DEF WorkerRow
<1>12. c = m.copy /\ pc = m.pc => Row([m EXCEPT !.heartbeat = FALSE, !.cancelled = o])
  BY <1>1 DEF WorkerRow
<1>13. PICK row : Goes(w, row) /\ Row(row)
  <2> HIDE DEF Row
  <2> QED BY <1>2, <1>3, <1>4, <1>5, <1>6, <1>7, <1>8, <1>9, <1>10, <1>11, <1>12
<1> QED BY <1>13, GoesLists

\* A row overtaken, or not any more, is the same row.
LEMMA OvertakenLists ==
    ASSUME WorkersOK(worker), NEW w \in Workers,
           \A v \in Workers :
              \/ worker'[v] = worker[v] \/ worker'[v] = Resting("idle")
              \/ \E b : worker'[v] = [worker[v] EXCEPT !.overtaken = b]
    PROVE  \A v \in Workers : Lists(v)
<1> SUFFICES ASSUME NEW v \in Workers PROVE Lists(v)
  OBVIOUS
<1>1. worker[v] \in WorkerRow
  BY DEF WorkersOK
<1>2. ASSUME NEW b
      PROVE  /\ [worker[v] EXCEPT !.overtaken = b].pc = worker[v].pc
             /\ [worker[v] EXCEPT !.overtaken = b].copy = worker[v].copy
             /\ [worker[v] EXCEPT !.overtaken = b].expired = worker[v].expired
  BY <1>1 DEF WorkerRow
<1>3. Resting("idle").pc = "idle" /\ Resting("idle").expired = {} /\ "idle" \notin LettingGo
  BY DEF Resting, LettingGo
<1>4. CASE worker'[v] = worker[v]
  BY <1>4 DEF Lists
<1>5. CASE worker'[v] = Resting("idle")
  BY <1>3, <1>5 DEF Lists
<1>6. ASSUME NEW b, worker'[v] = [worker[v] EXCEPT !.overtaken = b] PROVE Lists(v)
  <2>1. /\ worker'[v].pc = worker[v].pc /\ worker'[v].copy = worker[v].copy
        /\ worker'[v].expired = worker[v].expired
    BY <1>2, <1>6
  <2> QED BY <2>1 DEF Lists
<1> QED BY <1>4, <1>5, <1>6

LEMMA OvertakesLists ==
    ASSUME WorkersOK(worker), NEW w \in Workers, NEW S,
           Overtakes(S) \/ Overtaking(w, S) \/ UNCHANGED worker
    PROVE  \A v \in Workers : Lists(v)
<1>1. CASE Overtakes(S)
  BY <1>1, OvertakenLists DEF Overtakes
<1>2. CASE Overtaking(w, S)
  BY <1>2, OvertakenLists DEF Overtaking
<1>3. CASE UNCHANGED worker
  BY <1>3, OvertakenLists
<1> QED BY <1>1, <1>2, <1>3

-----------------------------------------------------------------------------
\* Every step of the loop, once more.
LEMMA KeptRenews ==
    ASSUME job' = job
    PROVE  NoneRenewed
BY DEF NoneRenewed

LEMMA NoneRenewedMoves ==
    ASSUME NoneRenewed, \A v \in Workers : Lists(v)
    PROVE  LeasesMove
BY DEF NoneRenewed, Renews, LeasesMove

LEMMA RestPcs ==
    /\ {"off", "startup", "idle", "claim", "rec_terminal", "rec_active", "rec_jobs", "rec_done",
        "repair", "stopping", "cancel_runs", "reload", "finish", "finish_owned", "turn"}
          \cap LettingGo = {}
    /\ Working \cap LettingGo = {}
    /\ {"preflight_save", "preflight_replace", "warning_save", "running_save", "final_save",
        "plain_save", "reconcile_save"} \subseteq SavePcs
BY DEF LettingGo, Working, SavePcs, Stamped

\* A granted or renewed lease is on no list.
LEMMA TakenOff ==
    ASSUME NEW x \in WorkerRow, NEW S
    PROVE  /\ [x EXCEPT !.expired = S].pc = x.pc /\ [x EXCEPT !.expired = S].copy = x.copy
           /\ [x EXCEPT !.expired = S].expired = S
BY DEF WorkerRow

LEMMA ClaimedTakenOff ==
    ASSUME NEW pc, NEW i, NEW c, NEW S,
           NEW x, x = [Resting(pc) EXCEPT !.j = i, !.copy = c, !.heartbeat = TRUE]
    PROVE  /\ [x EXCEPT !.expired = S].pc = x.pc /\ [x EXCEPT !.expired = S].copy = x.copy
           /\ [x EXCEPT !.expired = S].expired = S
BY DEF Resting

LEMMA ClaimRenews ==
    ASSUME HeldLoop, NEW w \in Workers, ClaimJob(w)
    PROVE  LeasesMove
<1>0. worker \in [Workers -> WorkerRow] /\ job \in [JobIds -> JobRow]
  BY DEF HeldLoop, LoopInv, TablesOK, TypeOK, WorkersOK
<1>1. PICK j \in JobIds :
         /\ Claim(j, w, Expired(w))
         /\ worker' = Renewed([worker EXCEPT ![w] =
               [Resting(IF job[j].intent THEN "reconcile" ELSE "preflight") EXCEPT
                   !.j = j, !.copy = job'[j], !.heartbeat = TRUE]], j)
  BY DEF ClaimJob
<1> DEFINE pc == IF job[j].intent THEN "reconcile" ELSE "preflight"
           mine == [Resting(pc) EXCEPT !.j = j, !.copy = job'[j], !.heartbeat = TRUE]
           W == [worker EXCEPT ![w] = mine]
<1>2. mine.expired = {} /\ mine.pc \notin LettingGo
  <2>1. mine.expired = {} /\ mine.pc = pc
    BY DEF Resting
  <2> QED BY <2>1 DEF LettingGo
<1>3. ASSUME NEW v \in Workers
      PROVE  Lists(v) /\ j \notin worker'[v].expired
  <2>1. W[v] = IF v = w THEN mine ELSE worker[v]
    BY <1>0
  <2>2. worker'[v] = [W[v] EXCEPT !.expired = @ \ {j}]
    BY <1>1 DEF Renewed
  <2>3. W[v] \in WorkerRow \/ W[v] = mine
    BY <1>0, <2>1
  <2> HIDE DEF W
  <2>4. worker'[v].pc = W[v].pc /\ worker'[v].copy = W[v].copy
        /\ worker'[v].expired = W[v].expired \ {j}
    <3>1. CASE W[v] \in WorkerRow
      BY <2>2, <3>1, TakenOff
    <3>2. CASE W[v] = mine
      BY <2>2, <3>2, ClaimedTakenOff
    <3> QED BY <2>3, <3>1, <3>2
  <2> HIDE DEF mine
  <2> QED BY <1>2, <2>1, <2>4 DEF Lists
<1>4. \A i \in JobIds \ {j} : job'[i] = job[i]
  BY <1>0, <1>1 DEF Claim
<1> QED BY <1>3, <1>4 DEF LeasesMove, Renews

LEMMA HeartbeatRenews ==
    ASSUME HeldLoop, NEW w \in Workers, Heartbeat(w)
    PROVE  LeasesMove
<1> DEFINE j == worker[w].j
<1>0. worker \in [Workers -> WorkerRow] /\ job \in [JobIds -> JobRow]
  BY DEF HeldLoop, LoopInv, TablesOK, TypeOK, WorkersOK
<1>1. PICK V \in SUBSET {v \in Workers : v = w /\ worker[v].pc \in Stamped} :
         worker' = Renewed([v \in Workers |->
                               IF v \in V THEN [worker[v] EXCEPT !.overtaken = TRUE]
                               ELSE worker[v]], j)
  BY DEF Heartbeat
<1> DEFINE W == [v \in Workers |->
                    IF v \in V THEN [worker[v] EXCEPT !.overtaken = TRUE] ELSE worker[v]]
<1>2. ASSUME NEW v \in Workers
      PROVE  Lists(v) /\ j \notin worker'[v].expired
  <2>1. /\ W[v] \in WorkerRow /\ W[v].pc = worker[v].pc /\ W[v].copy = worker[v].copy
        /\ W[v].expired = worker[v].expired
    <3>1. LET x == [worker[v] EXCEPT !.overtaken = TRUE]
          IN x \in WorkerRow /\ x.pc = worker[v].pc /\ x.copy = worker[v].copy
             /\ x.expired = worker[v].expired
      BY <1>0 DEF WorkerRow
    <3> QED BY <1>0, <3>1
  <2>2. worker'[v] = [W[v] EXCEPT !.expired = @ \ {j}]
    BY <1>1 DEF Renewed
  <2> HIDE DEF W
  <2>3. worker'[v].pc = W[v].pc /\ worker'[v].copy = W[v].copy
        /\ worker'[v].expired = W[v].expired \ {j}
    BY <2>1, <2>2, TakenOff
  <2> QED BY <2>1, <2>3 DEF Lists
<1>3. \A i \in JobIds \ {j} : job'[i] = job[i]
  BY <1>0 DEF Heartbeat, HeartbeatJob
<1> QED BY <1>2, <1>3 DEF LeasesMove, Renews

LEMMA PoolRenews ==
    ASSUME HeldLoop, NEW w \in Workers, Pool(w)
    PROVE  LeasesMove
<1> DEFINE m == worker[w]
<1>0. TypeOK /\ WorkersOK(worker) /\ m \in WorkerRow
  BY DEF HeldLoop, LoopInv, TablesOK, WorkersOK
<1>1. CASE Start(w)
  <2>1. NoneRenewed
    <3>1. PICK r : r \in RunIds
      BY BoundAssumption DEF RunIds
    <3> QED BY <1>0, <1>1, <3>1, TableRenews
  <2> QED BY <1>0, <1>1, <2>1, RestPcs, RestLists, NoneRenewedMoves DEF Start
<1>2. CASE FinishListed(w)
  <2>1. PICK r \in Listed(w) : FinishRun(r) /\ Goes(w, [m EXCEPT !.todo = @ \ {r}])
    BY <1>2 DEF FinishListed
  <2>2. r \in RunIds
    BY <1>0, <2>1 DEF Listed, WorkerRow
  <2>3. \A v \in Workers : Lists(v)
    BY <1>0, <2>1, RowLists
  <2> QED BY <1>0, <2>1, <2>2, <2>3, TableRenews, NoneRenewedMoves
<1>3. CASE PassFails(w) \/ Started(w) \/ NothingDue(w)
  BY <1>0, <1>3, RestPcs, RestLists, KeptRenews, NoneRenewedMoves
  DEF PassFails, Started, NothingDue, tables
<1>4. CASE Recover(w)
  <2> DEFINE expired == {j \in JobIds : ~job[j].live}
             t == ExpiredOpenRuns(expired, Terminal)
             row == [Resting("rec_terminal") EXCEPT !.expired = expired, !.todo = t]
  <2>1. Goes(w, row) /\ job' = job
    BY <1>4 DEF Recover, tables
  <2> HIDE DEF t
  <2>2. row.pc = "rec_terminal" /\ row.expired = expired
    BY DEF Resting
  <2> HIDE DEF row
  <2>3. ASSUME NEW v \in Workers PROVE Lists(v)
    <3>1. worker'[v] = IF v = w THEN row ELSE worker[v]
      BY <1>0, <2>1 DEF Goes, WorkersOK
    <3> QED BY <2>1, <2>2, <3>1, RestPcs DEF Lists
  <2> QED BY <2>1, <2>3, KeptRenews, NoneRenewedMoves
<1>5. CASE RecoverActiveRuns(w) \/ Repair(w) \/ Repaired(w)
  <2>1. \A v \in Workers : Lists(v)
    <3>1. CASE RecoverActiveRuns(w)
      BY <1>0, <3>1, RestPcs, RowLists DEF RecoverActiveRuns
    <3>2. CASE Repair(w)
      BY <1>0, <3>2, RestPcs, RowLists DEF Repair
    <3>3. CASE Repaired(w)
      BY <1>0, <3>3, RestPcs, RowLists DEF Repaired, To
    <3> QED BY <1>5, <3>1, <3>2, <3>3
  <2> QED BY <1>5, <2>1, KeptRenews, NoneRenewedMoves DEF RecoverActiveRuns, Repair, Repaired, tables
<1>6. CASE RecoverOwnership(w) \/ RecoverExpiredJobs(w)
  <2>1. \A v \in Workers : Lists(v)
    BY <1>0, <1>6, RestPcs, RowLists DEF RecoverOwnership, RecoverExpiredJobs, To
  <2>2. PICK r : r \in RunIds
    BY BoundAssumption DEF RunIds
  <2>3. NoneRenewed
    BY <1>0, <1>6, <2>2, TableRenews DEF RecoverOwnership, RecoverExpiredJobs
  <2> QED BY <2>1, <2>3, NoneRenewedMoves
<1> QED BY <1>1, <1>2, <1>3, <1>4, <1>5, <1>6, ClaimRenews DEF Pool

LEMMA PreflightRenews ==
    ASSUME HeldLoop, CopiesLapsed, NEW w \in Workers,
           \/ PreflightContinues(w) \/ PreflightRejects(w) \/ PreflightHeadChanged(w)
           \/ PreflightCiPending(w) \/ PreflightSaves(w) \/ Replace(w)
    PROVE  LeasesMove
<1> DEFINE m == worker[w]
<1>0. TypeOK /\ WorkersOK(worker) /\ m \in WorkerRow /\ m.copy \in JobRow
  BY DEF HeldLoop, LoopInv, TablesOK, WorkersOK, WorkerRow
<1>1. CASE PreflightContinues(w)
  <2>1. "begin" \notin LettingGo
    BY DEF LettingGo
  <2>2. \A v \in Workers : Lists(v)
    BY <1>0, <1>1, <2>1, RowLists DEF PreflightContinues, Save
  <2> QED BY <1>1, <2>2, KeptRenews, NoneRenewedMoves DEF PreflightContinues, tables
<1>2. CASE PreflightRejects(w) \/ PreflightHeadChanged(w)
  <2>1. PICK c, pc : Save(w, pc, c) /\ (\/ c = ScheduleRetry(m.copy)
                                        \/ \E s : c = Finished(m.copy, s))
    BY <1>2 DEF PreflightRejects, PreflightHeadChanged, Failures
  <2>2. ~c.live
    BY <1>0, <2>1, LiveFields
  <2>3. \A v \in Workers : Lists(v)
    BY <1>0, <2>1, <2>2, RowLists DEF Save
  <2> QED BY <1>2, <2>3, KeptRenews, NoneRenewedMoves DEF PreflightRejects, PreflightHeadChanged, tables
<1>3. CASE PreflightCiPending(w)
  <2>1. m.j \in JobIds /\ "preflight" \notin LettingGo
    BY <1>3 DEF HeldLoop, LoopInv, WorkersOK, WorkerOK, PreflightCiPending, Unclaimed, Recovering,
       LettingGo
  <2>2. CASE SkipForCiPending(m.j) /\ Rests(w, "idle")
    BY <1>0, <2>1, <2>2, RowRenews, RestPcs, RestLists, NoneRenewedMoves
  <2>3. CASE Goes(w, [m EXCEPT !.copy = job[m.j]]) /\ UNCHANGED tables /\ m.pc = "preflight"
    <3>1. \A v \in Workers : Lists(v)
      BY <1>0, <2>1, <2>3, RowLists
    <3> QED BY <2>3, <3>1, KeptRenews, NoneRenewedMoves DEF tables
  <2>4. CASE Rests(w, "off") /\ UNCHANGED tables
    BY <1>0, <2>4, RestPcs, RestLists, KeptRenews, NoneRenewedMoves DEF tables
  <2> QED BY <1>3, <2>2, <2>3, <2>4 DEF PreflightCiPending
<1>4. CASE PreflightSaves(w)
  <2>1. NoneRenewed
    BY <1>4, RestPcs, SaveRenews DEF PreflightSaves
  <2>2. m.pc \in LettingGo
    BY <1>4 DEF PreflightSaves, LettingGo
  <2>3. \A v \in Workers : Lists(v)
    <3>1. CASE To(w, "replace")
      BY <1>0, <2>2, <3>1, RowLists DEF To
    <3>2. CASE Rests(w, "idle")
      BY <1>0, <3>2, RestPcs, RestLists
    <3> QED BY <1>4, <3>1, <3>2 DEF PreflightSaves
  <2> QED BY <2>1, <2>3, NoneRenewedMoves
<1>5. CASE Replace(w)
  <2>1. CASE UNCHANGED tables /\ Rests(w, "idle")
    BY <1>0, <2>1, RestPcs, RestLists, KeptRenews, NoneRenewedMoves DEF tables
  <2>2. ASSUME NEW p, NEW h, Enqueue(p, h, None), Overtaking(w, Touched(p, h, None))
        PROVE  LeasesMove
    BY <1>0, <2>2, AdmissionRenews, OvertakesLists, NoneRenewedMoves
  <2> QED BY <1>5, <2>1, <2>2 DEF Replace
<1> QED BY <1>1, <1>2, <1>3, <1>4, <1>5

LEMMA AttemptRenews ==
    ASSUME HeldLoop, CopiesLapsed, NEW w \in Workers,
           \/ Begin(w) \/ SaveWarning(w) \/ Prepared(w) \/ SaveRunning(w) \/ SaveRunStatus(w)
           \/ StartTurn(w) \/ EndTurn(w) \/ FinishAttempt(w)
    PROVE  LeasesMove
<1> DEFINE m == worker[w]
<1>0. TypeOK /\ WorkersOK(worker) /\ m \in WorkerRow
  BY DEF HeldLoop, LoopInv, TablesOK, WorkersOK
<1>1. ASSUME NEW res, Reloads(w, res) \/ Finishes(w, res)
      PROVE  \A v \in Workers : Lists(v)
  BY <1>0, <1>1, RestPcs, RestLists, RowLists DEF Reloads, Finishes
<1>2. {"finish", "warning_save", "prepare", "running_save", "run_status", "turn_start", "turn"}
         \cap LettingGo = {}
  BY DEF LettingGo
<1>3. CASE Begin(w)
  <2>1. CASE \E res : Reloads(w, res) /\ UNCHANGED tables
    BY <1>1, <2>1, KeptRenews, NoneRenewedMoves DEF tables
  <2>2. CASE CanBegin(m.j, w)
    <3>1. m.j \in JobIds
      BY <1>3 DEF HeldLoop, LoopInv, WorkersOK, WorkerOK, Begin, Unclaimed, Recovering
    <3>2. BeginAttempt(m.j, m.overtaken)
      BY <1>3, <2>2 DEF Begin
    <3>3. PICK c, r, pc, res :
             /\ Goes(w, [m EXCEPT !.run = r, !.copy = c, !.overtaken = FALSE, !.pc = pc,
                                  !.result = res])
             /\ pc \in {"finish", "warning_save", "prepare"}
      <4> DEFINE p == IF m.cancelled THEN "finish"
                      ELSE IF job[m.j].reviewer = 0 THEN "warning_save" ELSE "prepare"
      <4>1. p \in {"finish", "warning_save", "prepare"}
        OBVIOUS
      <4>2. Goes(w, [m EXCEPT !.run = NextRun, !.copy = Begun(job[m.j], NextRun),
                              !.overtaken = FALSE, !.pc = p,
                              !.result = IF m.cancelled THEN "err" ELSE "ok"])
        BY <1>3, <2>2 DEF Begin
      <4> HIDE DEF p
      <4> QED BY <4>1, <4>2
    <3>4. \A v \in Workers : Lists(v)
      <4>1. pc \notin LettingGo
        BY <1>2, <3>3
      <4> QED BY <1>0, <3>3, <4>1, RowLists
    <3> QED BY <1>0, <3>1, <3>2, <3>4, RowRenews, NoneRenewedMoves
  <2> QED BY <1>3, <2>1, <2>2 DEF Begin
<1>4. CASE SaveWarning(w) \/ SaveRunning(w)
  <2>1. NoneRenewed
    BY <1>4, RestPcs, SaveRenews DEF SaveWarning, SaveRunning
  <2>2. \A v \in Workers : Lists(v)
    <3>1. ASSUME NEW pc \in {"prepare", "run_status"},
                 Goes(w, [m EXCEPT !.pc = pc, !.overtaken = FALSE])
          PROVE  \A v \in Workers : Lists(v)
      BY <1>0, <1>2, <3>1, RowLists
    <3> QED BY <1>1, <1>4, <3>1 DEF SaveWarning, SaveRunning
  <2> QED BY <2>1, <2>2, NoneRenewedMoves
<1>5. CASE Prepared(w)
  <2>1. PICK c : Save(w, "running_save", c)
    BY <1>5 DEF Prepared
  <2>2. \A v \in Workers : Lists(v)
    BY <1>0, <1>2, <2>1, RowLists DEF Save
  <2> QED BY <1>5, <2>2, KeptRenews, NoneRenewedMoves DEF Prepared, tables
<1>6. CASE SaveRunStatus(w)
  <2>1. \A v \in Workers : Lists(v)
    BY <1>0, <1>2, <1>6, RowLists DEF SaveRunStatus, To
  <2> QED BY <1>6, <2>1, KeptRenews, NoneRenewedMoves DEF SaveRunStatus, SaveRunRunning
<1>7. CASE StartTurn(w)
  <2>1. CASE Goes(w, [m EXCEPT !.pc = "turn", !.copy = NoCopy])
    <3>1. \A v \in Workers : Lists(v)
      BY <1>0, <1>2, <2>1, RowLists
    <3> QED BY <1>7, <3>1, KeptRenews, NoneRenewedMoves DEF StartTurn, tables
  <2>2. CASE Finishes(w, "err")
    BY <1>1, <1>7, <2>2, KeptRenews, NoneRenewedMoves DEF StartTurn, tables
  <2> QED BY <1>7, <2>1, <2>2 DEF StartTurn
<1>8. CASE EndTurn(w)
  BY <1>1, <1>8, KeptRenews, NoneRenewedMoves DEF EndTurn, tables
<1>9. CASE FinishAttempt(w)
  <2>1. m.run \in RunIds
    BY <1>9 DEF HeldLoop, LoopInv, WorkersOK, WorkerOK, FinishAttempt, HasRun, Attempt
  <2>2. CASE FinishRun(m.run)
    BY <1>0, <1>1, <1>9, <2>1, <2>2, TableRenews, NoneRenewedMoves DEF FinishAttempt
  <2>3. CASE UNCHANGED tables
    BY <1>1, <1>9, <2>3, KeptRenews, NoneRenewedMoves DEF FinishAttempt, tables
  <2> QED BY <1>9, <2>2, <2>3 DEF FinishAttempt
<1> QED BY <1>3, <1>4, <1>5, <1>6, <1>7, <1>8, <1>9

LEMMA AfterRenews ==
    ASSUME HeldLoop, CopiesLapsed, NEW w \in Workers,
           \/ Reload(w) \/ FinishOwned(w) \/ FinalSave(w) \/ PlainSave(w)
           \/ ReconcileFinds(w) \/ ReconcileMisses(w) \/ ReconcileSaves(w)
    PROVE  LeasesMove
<1> DEFINE m == worker[w]
           row == job[m.j]
<1>0. TypeOK /\ WorkersOK(worker) /\ m \in WorkerRow /\ m.copy \in JobRow
  BY DEF HeldLoop, LoopInv, TablesOK, WorkersOK, WorkerRow
<1>1. m.pc \in {"reload", "reconcile"} => m.j \in JobIds /\ row \in JobRow
  BY <1>0 DEF HeldLoop, LoopInv, WorkersOK, WorkerOK, Unclaimed, Recovering, TypeOK
<1>2. CASE Reload(w)
  <2>1. m.pc = "reload" /\ job' = job
    BY <1>2 DEF Reload, tables
  <2>2. \A v \in Workers : Lists(v)
    <3>1. CASE Rests(w, "idle")
      BY <1>0, <3>1, RestPcs, RestLists
    <3>2. CASE Save(w, "finish_owned", row)
      BY <1>0, <3>2, RestPcs, RowLists DEF Save
    <3>3. ASSUME NEW pc, NEW c, Save(w, pc, c),
                 \/ c = [row EXCEPT !.owner = None, !.live = FALSE]
                 \/ c = BeginReconciliation(row) \/ c = ScheduleRetry(row)
                 \/ \E s : c = Finished(row, s)
          PROVE  \A v \in Workers : Lists(v)
      <4>1. ~c.live
        BY <1>1, <2>1, <3>3, LiveOutcomes
      <4> QED BY <1>0, <3>3, <4>1, RowLists DEF Save
    <3>4. CASE \E c \in Outcomes(row, m.result) : Save(w, "final_save", c)
      <4>1. PICK c \in Outcomes(row, m.result) : Save(w, "final_save", c)
        BY <3>4
      <4>2. c = BeginReconciliation(row) \/ c = ScheduleRetry(row) \/ \E s : c = Finished(row, s)
        BY DEF Outcomes, Failures
      <4> QED BY <3>3, <4>1, <4>2
    <3>5. CASE \E c \in {BeginReconciliation(row), Finished(row, "failed")} : Save(w, "plain_save", c)
      BY <3>3, <3>5
    <3>6. CASE Save(w, "plain_save", [row EXCEPT !.owner = None, !.live = FALSE])
      BY <3>3, <3>6
    <3> QED BY <1>2, <3>1, <3>2, <3>4, <3>5, <3>6 DEF Reload
  <2> QED BY <2>1, <2>2, KeptRenews, NoneRenewedMoves
<1>3. CASE FinishOwned(w)
  <2>1. m.copy.run \in RunIds
    BY <1>3 DEF HeldLoop, LoopInv, WorkersOK, WorkerOK, FinishOwned
  <2>2. \A v \in Workers : Lists(v)
    BY <1>0, <1>3, RestPcs, RestLists DEF FinishOwned
  <2>3. NoneRenewed
    BY <1>0, <1>3, <2>1, TableRenews DEF FinishOwned
  <2> QED BY <2>2, <2>3, NoneRenewedMoves
<1>4. CASE FinalSave(w) \/ PlainSave(w) \/ ReconcileSaves(w)
  <2>1. NoneRenewed
    BY <1>4, RestPcs, SaveRenews DEF FinalSave, PlainSave, ReconcileSaves
  <2>2. \A v \in Workers : Lists(v)
    BY <1>0, <1>4, RestPcs, RestLists DEF FinalSave, PlainSave, ReconcileSaves
  <2> QED BY <2>1, <2>2, NoneRenewedMoves
<1>5. CASE ReconcileFinds(w)
  <2>1. m.j \in JobIds /\ RecordReceipt(m.j) /\ Overtaking(w, {m.j})
    BY <1>1, <1>5 DEF ReconcileFinds
  <2>2. \A v \in Workers : Lists(v)
    BY <1>0, <2>1, OvertakesLists
  <2> QED BY <1>0, <2>1, <2>2, RowRenews, NoneRenewedMoves
<1>6. CASE ReconcileMisses(w)
  <2>1. PICK c : /\ Save(w, "reconcile_save", c)
                 /\ c = BeginReconciliation(m.copy) \/ \E s : c = Finished(m.copy, s)
    BY <1>6 DEF ReconcileMisses
  <2>2. ~c.live
    BY <1>0, <2>1, LiveFields
  <2>3. \A v \in Workers : Lists(v)
    BY <1>0, <2>1, <2>2, RowLists DEF Save
  <2> QED BY <1>6, <2>3, KeptRenews, NoneRenewedMoves DEF ReconcileMisses, tables
<1> QED BY <1>2, <1>3, <1>4, <1>5, <1>6

LEMMA FailRenews ==
    ASSUME HeldLoop, NEW w \in Workers, Beat(w) \/ Fail(w)
    PROVE  LeasesMove
<1> DEFINE m == worker[w]
<1>0. TypeOK /\ WorkersOK(worker) /\ m \in WorkerRow
  BY DEF HeldLoop, LoopInv, TablesOK, WorkersOK
<1>1. CASE HeartbeatLost(w) \/ HeartbeatFails(w)
  <2>1. PICK o : Goes(w, [m EXCEPT !.heartbeat = FALSE, !.cancelled = o])
    BY <1>1 DEF HeartbeatLost, HeartbeatFails
  <2>2. \A v \in Workers : Lists(v)
    BY <1>0, <2>1, RowLists
  <2> QED BY <1>1, <2>2, KeptRenews, NoneRenewedMoves DEF HeartbeatLost, HeartbeatFails, tables
<1>2. CASE AttemptFails(w) \/ AttemptBreaks(w) \/ FinishFails(w)
  <2>1. ASSUME NEW res, Reloads(w, res) \/ Finishes(w, res)
        PROVE  \A v \in Workers : Lists(v)
    BY <1>0, <2>1, RestPcs, RestLists, RowLists DEF Reloads, Finishes
  <2> QED BY <1>2, <2>1, KeptRenews, NoneRenewedMoves
      DEF AttemptFails, AttemptBreaks, FinishFails, tables
<1>3. CASE \/ PassFails(w) \/ PreflightCancelled(w) \/ FinishOwnedFails(w) \/ SaveFails(w)
           \/ ReconcileCancelled(w) \/ Crash(w)
  BY <1>0, <1>3, RestPcs, RestLists, KeptRenews, NoneRenewedMoves
  DEF PassFails, PreflightCancelled, FinishOwnedFails, SaveFails, ReconcileCancelled, Crash, tables
<1> QED BY <1>1, <1>2, <1>3, HeartbeatRenews DEF Beat, Fail

LEMMA ReviewRenews ==
    ASSUME HeldLoop, NEW w \in Workers, Review(w)
    PROVE  LeasesMove
<1> DEFINE j == agent[w].j
<1>0. TypeOK /\ WorkersOK(worker) /\ (agent[w].step # "none" => j \in JobIds)
  BY DEF HeldLoop, LoopInv, TablesOK, AgentsOK, AgentOK
<1>1. CASE AgentStarts(w) \/ AgentChecks(w) \/ AgentEnds(w)
  BY <1>0, <1>1, OvertakesLists, KeptRenews, NoneRenewedMoves
  DEF AgentStarts, AgentChecks, AgentEnds, tables
<1>2. CASE AgentRecordsIntent(w)
  <2>1. CASE UNCHANGED <<tables, worker>>
    BY <1>0, <2>1, OvertakesLists, KeptRenews, NoneRenewedMoves DEF tables
  <2>2. CASE CanRecordIntent(j)
    <3>1. RecordIntent(j) /\ j \in JobIds
      BY <1>0, <1>2, <2>2 DEF AgentRecordsIntent
    <3>2. \A v \in Workers : Lists(v)
      <4>1. PICK V : worker' = [v \in Workers |->
                                   IF worker[v].j = j /\ worker[v].pc \in Stamped
                                   THEN [worker[v] EXCEPT !.overtaken = v \in V]
                                   ELSE worker[v]]
        BY <1>2, <2>2 DEF AgentRecordsIntent
      <4>2. \A v \in Workers : \/ worker'[v] = worker[v]
                               \/ \E b : worker'[v] = [worker[v] EXCEPT !.overtaken = b]
        BY <4>1
      <4> QED BY <1>0, <4>2, OvertakenLists
    <3> QED BY <1>0, <3>1, <3>2, RowRenews, NoneRenewedMoves
  <2> QED BY <1>2, <2>1, <2>2 DEF AgentRecordsIntent
<1>3. CASE AgentPosts(w) \/ AgentInDoubt(w)
  <2>1. j \in JobIds /\ (RecordReceipt(j) \/ MarkReconciling(j)) /\ Overtakes({j})
    BY <1>0, <1>3 DEF AgentPosts, AgentInDoubt
  <2>2. \A v \in Workers : Lists(v)
    BY <1>0, <2>1, OvertakesLists
  <2> QED BY <1>0, <2>1, <2>2, RowRenews, NoneRenewedMoves
<1>4. CASE AgentRefused(w)
  BY <1>0, <1>4, OvertakesLists, KeptRenews, NoneRenewedMoves DEF AgentRefused, tables
<1> QED BY <1>1, <1>2, <1>3, <1>4 DEF Review

LEMMA HaltRenews ==
    ASSUME HeldLoop, NEW w \in Workers, Halt(w)
    PROVE  LeasesMove
<1> DEFINE m == worker[w]
<1>0. TypeOK /\ WorkersOK(worker) /\ m \in WorkerRow
  BY DEF HeldLoop, LoopInv, TablesOK, WorkersOK
<1>1. CASE Stop(w)
  <2>1. Goes(w, [Resting("stopping") EXCEPT !.j = m.j, !.heartbeat = m.heartbeat])
    BY <1>1 DEF Stop
  <2>2. \A v \in Workers : Lists(v)
    BY <1>0, <2>1, RestPcs, RestLists
  <2> QED BY <1>1, <2>2, KeptRenews, NoneRenewedMoves DEF Stop, tables
<1>2. CASE CancelJobs(w)
  <2>1. \A v \in Workers : Lists(v)
    BY <1>0, <1>2, RestPcs, RowLists DEF CancelJobs
  <2>2. PICK r : r \in RunIds
    BY BoundAssumption DEF RunIds
  <2>3. NoneRenewed
    BY <1>0, <1>2, <2>2, TableRenews DEF CancelJobs
  <2> QED BY <2>1, <2>3, NoneRenewedMoves
<1>3. CASE CancelRun(w)
  <2>1. PICK r \in m.todo : /\ Goes(w, [m EXCEPT !.todo = @ \ {r}])
                            /\ FinishRun(r) \/ UNCHANGED tables
    BY <1>3 DEF CancelRun
  <2>2. \A v \in Workers : Lists(v)
    <3>1. m.pc \notin LettingGo
      BY <1>3, RestPcs DEF CancelRun
    <3> QED BY <1>0, <2>1, <3>1, RowLists
  <2>3. r \in RunIds
    BY <1>0, <2>1 DEF WorkerRow
  <2>4. NoneRenewed
    BY <1>0, <2>1, <2>3, TableRenews, KeptRenews DEF tables
  <2> QED BY <2>2, <2>4, NoneRenewedMoves
<1>4. CASE Stopped(w)
  <2>1. \A v \in Workers : Lists(v)
    BY <1>0, <1>4, RestPcs, RowLists DEF Stopped, To
  <2> QED BY <1>4, <2>1, KeptRenews, NoneRenewedMoves DEF Stopped, tables
<1> QED BY <1>1, <1>2, <1>3, <1>4 DEF Halt

LEMMA OthersRenew ==
    ASSUME HeldLoop, (\E p \in Prs : Produce(p)) \/ Time \/ Clean
    PROVE  LeasesMove
<1>0. TypeOK /\ WorkersOK(worker)
  BY DEF HeldLoop, LoopInv, TablesOK
<1> SUFFICES ASSUME Workers # {} PROVE LeasesMove
  BY DEF LeasesMove, Renews
<1>1. PICK w : w \in Workers
  OBVIOUS
<1>2. ASSUME UNCHANGED worker PROVE \A v \in Workers : Lists(v)
  BY <1>0, <1>1, <1>2, OvertakesLists
<1>3. ASSUME NEW p \in Prs, Produce(p) PROVE LeasesMove
  <2>1. CASE Push(p)
    BY <1>2, <2>1, KeptRenews, NoneRenewedMoves DEF Push, tables
  <2>2. CASE Signal(p)
    <3>1. PICK h, d : Enqueue(p, h, d) /\ Overtakes(Touched(p, h, d))
      BY <2>2 DEF Signal
    <3> QED BY <1>0, <1>1, <3>1, AdmissionRenews, OvertakesLists, NoneRenewedMoves
  <2>3. CASE Discover(p)
    <3>1. PICK h : \/ AdmitCandidate(p, h) /\ Overtakes(Touched(p, h, None))
                   \/ AdmitWatch(p, h) /\ UNCHANGED worker
      BY <2>3 DEF Discover
    <3> QED BY <1>0, <1>1, <3>1, AdmissionRenews, OvertakesLists, NoneRenewedMoves
  <2>4. CASE CheckWatch(p)
    <3>1. PICK h, d : \/ EnqueueFromWatch(p, watch[p], h, d) \/ ReplaceWatchHead(p, watch[p], h)
                      \/ DeleteWatch(p, watch[p])
      BY <2>4 DEF CheckWatch
    <3>2. UNCHANGED worker
      BY <2>4 DEF CheckWatch
    <3> QED BY <1>0, <1>2, <3>1, <3>2, AdmissionRenews, NoneRenewedMoves
  <2> QED BY <1>3, <2>1, <2>2, <2>3, <2>4 DEF Produce
<1>4. CASE Time
  <2>1. PICK j \in JobIds : LeaseLapses(j) \/ BecomesDue(j)
    BY <1>4 DEF Time
  <2> QED BY <1>0, <1>2, <1>4, <2>1, RowRenews, NoneRenewedMoves DEF Time
<1>5. CASE Clean
  <2>1. CASE \E t \in TaskIds : TakeTask(t) \/ FinishTask(t)
    BY <1>2, <2>1, KeptRenews, NoneRenewedMoves DEF TakeTask, FinishTask, ClaimTask, CompleteTask
  <2>2. CASE \E j \in JobIds : Retain(j)
    BY <1>0, <1>2, <2>2, RowRenews, NoneRenewedMoves DEF Retain
  <2> QED BY <1>5, <2>1, <2>2 DEF Clean
<1> QED BY <1>3, <1>4, <1>5

LEMMA LapsedStep == HeldLoop /\ Lapsed /\ [Next]_vars => Lapsed'
<1> SUFFICES ASSUME HeldLoop, Lapsed, [Next]_vars PROVE Lapsed'
  OBVIOUS
<1>1. LeasesMove
  <2>1. CASE UNCHANGED vars
    BY <2>1 DEF vars, tables, LeasesMove, Renews, Lists
  <2>2. ASSUME NEW w \in Workers,
               Pool(w) \/ Work(w) \/ Beat(w) \/ Fail(w) \/ Review(w) \/ Halt(w)
        PROVE  LeasesMove
    BY <2>2, PoolRenews, PreflightRenews, AttemptRenews, AfterRenews, FailRenews, ReviewRenews,
       HaltRenews DEF Work, Lapsed
  <2> QED BY <2>1, <2>2, OthersRenew DEF Next
<1>2. ASSUME NEW w \in Workers, NEW i \in worker'[w].expired, job'[i].live PROVE FALSE
  <2>1. CASE i \in worker[w].expired
    <3>1. i \in JobIds
      BY <2>1 DEF HeldLoop, LoopInv, WorkersOK, WorkerRow
    <3>2. ~job[i].live
      BY <2>1 DEF Lapsed, ListedLapsed
    <3> QED BY <1>1, <1>2, <3>1, <3>2 DEF LeasesMove, Renews
  <2>2. CASE job' = job /\ ~job[i].live
    BY <1>2, <2>2
  <2> QED BY <1>1, <1>2, <2>1, <2>2 DEF LeasesMove, Lists
<1>3. CopiesLapsed'
  BY <1>1 DEF LeasesMove, Lists, Lapsed, CopiesLapsed
<1> QED BY <1>2, <1>3 DEF Lapsed, ListedLapsed

LEMMA LapsedInit == Init => Lapsed
<1> SUFFICES ASSUME Init PROVE Lapsed
  OBVIOUS
<1>1. \A w \in Workers : worker[w].pc = "off" /\ worker[w].expired = {}
  BY DEF Init, Resting
<1> QED BY <1>1 DEF Lapsed, ListedLapsed, CopiesLapsed, LettingGo

\* A worker starts a job only when the lease of every job is over, for any
\* number of server instances, whatever is renewed, saved or submitted between
\* its reading of the clock and its claim.
THEOREM ClaimsWait == Spec => ClaimWaitsForLeases
<1> DEFINE Step == \A j \in JobIds, w \in Workers :
                      job[j].owner # w /\ job'[j].owner = w
                      => \A i \in JobIds : job[i].owner = None \/ ~job[i].live
<1>1. ASSUME HeldLoop, Lapsed, LoopMove, NEW j \in JobIds, NEW w \in Workers,
             job[j].owner # w, job'[j].owner = w
      PROVE  \A i \in JobIds : job[i].owner = None \/ ~job[i].live
  <2>1. RowMove(j) /\ w # None /\ w # Gone
    BY <1>1, OwnerNames DEF LoopMove, Moves
  <2>2. ASSUME NEW v \in Workers, Saves(j, v) PROVE FALSE
    <3>1. worker[v].copy.owner \in {v, None}
      <4>1. worker[v].pc \in Working \/ worker[v].pc \in LettingGo
        BY <2>2, SavingPcs DEF Saves
      <4>2. CopyOf(v)
        BY <1>1 DEF HeldLoop, CopiesMatch
      <4> QED BY <4>1, <4>2 DEF CopyOf
    <3> QED BY <1>1, <2>1, <2>2, <3>1 DEF Saves
  <2>3. ASSUME NEW v \in Workers, Counts(j, v) PROVE FALSE
    BY <1>1, <2>3 DEF Counts, Begins, CanBegin
  <2>4. PICK v \in Workers : Claims(j, v)
    BY <1>1, <2>1, <2>2, <2>3 DEF RowMove, Keeps, Drops, Creates, Requeues, Queued, Releases,
       Recovers, Frees, Prunes, Skips, Intends, Doubts, Succeeds
  <2>5. v = w
    BY <1>1, <2>4 DEF Claims
  <2>6. j \in ClaimDue(Expired(w))
    BY <2>4, <2>5 DEF Claims
  <2>7. ASSUME NEW i \in JobIds, job[i].owner # None PROVE ~job[i].live
    BY <1>1, <2>6, <2>7 DEF ClaimDue, Expired, Lapsed, ListedLapsed
  <2> QED BY <2>7
<1>2. HeldLoop /\ Lapsed /\ [Next]_vars => [Step]_vars
  BY <1>1, HeldLoopStep
<1>3. HeldLoop /\ Lapsed /\ [Next]_vars => (HeldLoop /\ Lapsed)'
  BY HeldLoopStep, LapsedStep
<1>4. Init => HeldLoop /\ Lapsed
  BY HeldLoopInit, LapsedInit
<1> QED BY <1>2, <1>3, <1>4, PTL DEF Spec, ClaimWaitsForLeases

-----------------------------------------------------------------------------
(***************************************************************************)
(* With one worker.                                                        *)
(***************************************************************************)
\* A stored run keeps its job; only its own worker opens it again.
LEMMA StoredRun ==
    ASSUME LoopMove, NEW r \in RunIds, run[r].job # 0
    PROVE  /\ FreeRuns # {} => r # NextRun
           /\ run'[r].job = run[r].job
           /\ run'[r].open => \/ run[r].open
                             \/ \E w \in Workers : worker[w].pc = "run_status" /\ worker[w].run = r
<1>1. FreeRuns # {} => r # NextRun
  BY FreshIdType DEF FreeRuns
<1>2. RunMove(r)
  BY DEF LoopMove, Moves
<1>3. ~RunBegun(r)
  BY <1>1 DEF RunBegun, Begins
<1> QED BY <1>1, <1>2, <1>3 DEF RunMove, RunKept

LEMMA NextRunFacts ==
    ASSUME FreeRuns # {}
    PROVE  NextRun \in RunIds /\ run[NextRun].job = 0 /\ NextRun # 0
BY FreshIdType, BoundAssumption DEF FreeRuns, RunIds

\* The latest run of job j in the table R.
Latest(R, j) == MaxId(RunsOf(R, j))

\* Runs are stored in the order of their ids.
UsedFirst == \A r, q \in RunIds : run[r].job = 0 /\ r <= q => run[q].job = 0

\* The active run of a job, and of its row in memory, is its latest.
LatestRows == \A j \in JobIds : job[j].run \in {0, Latest(run, j)}

LatestCopies ==
    \A w \in Workers :
        worker[w].j \in JobIds => worker[w].copy.run \in {0, Latest(run, worker[w].j)}

\* The run of an attempt is open until its Reviewer turn has started.
Opening == {"warning_save", "prepare", "running_save", "run_status"}

AttemptOpen == \A w \in Workers : worker[w].pc \in Opening => run[worker[w].run].open

LatestRuns == UsedFirst /\ LatestRows /\ LatestCopies /\ AttemptOpen

LEMMA LatestIsRun ==
    ASSUME NEW R, NEW j
    PROVE  /\ Latest(R, j) # 0 => Latest(R, j) \in RunIds /\ R[Latest(R, j)].job = j
           /\ \A r \in RunIds : R[r].job = j =>
                 Latest(R, j) \in RunIds /\ R[Latest(R, j)].job = j /\ r <= Latest(R, j)
<1>1. RunsOf(R, j) \subseteq 1..MaxRuns /\ MaxRuns \in Nat
  BY BoundAssumption DEF RunsOf, RunIds
<1>2. /\ MaxId(RunsOf(R, j)) # 0 => MaxId(RunsOf(R, j)) \in RunsOf(R, j)
      /\ RunsOf(R, j) # {} => /\ MaxId(RunsOf(R, j)) \in RunsOf(R, j)
                              /\ \A y \in RunsOf(R, j) : y <= MaxId(RunsOf(R, j))
  BY <1>1, MaxIdType
<1> QED BY <1>2 DEF Latest, RunsOf

LEMMA NextRunLeast ==
    ASSUME FreeRuns # {}
    PROVE  NextRun \in FreeRuns /\ \A q \in FreeRuns : NextRun <= q
<1>1. FreeRuns \subseteq Nat
  BY BoundAssumption DEF FreeRuns, RunIds
<1> QED BY <1>1, LeastExists DEF NextRun

LEMMA UsedFirstStep ==
    ASSUME LoopInv, UsedFirst, LoopMove
    PROVE  UsedFirst'
<1> SUFFICES ASSUME NEW r \in RunIds, NEW q \in RunIds, run'[r].job = 0, r <= q
             PROVE  run'[q].job = 0
  BY DEF UsedFirst
<1>1. run[r].job = 0
  BY StoredRun
<1>2. run[q].job = 0
  BY <1>1 DEF UsedFirst
<1>3. ASSUME NEW w \in Workers, Begins(worker[w].j, w), q = NextRun PROVE FALSE
  <2>1. r \in FreeRuns /\ q \in FreeRuns
    BY <1>1, <1>2 DEF FreeRuns
  <2>2. r = q
    BY <1>3, <2>1, NextRunLeast, BoundAssumption DEF RunIds
  <2>3. worker[w].j \in JobIds
    BY <1>3 DEF Begins, LoopInv, WorkersOK, WorkerOK, Unclaimed, Recovering
  <2>4. run'[q].job = worker[w].j
    BY <1>3 DEF Begins, LoopInv, TablesOK, TypeOK
  <2> QED BY <2>2, <2>3, <2>4, BoundAssumption DEF JobIds
<1>4. RunMove(q)
  BY DEF LoopMove, Moves
<1> QED BY <1>2, <1>3, <1>4 DEF RunMove, RunKept, RunBegun

\* The latest run of a job changes with the run a worker begins, and not else.
LEMMA LatestBegun ==
    ASSUME LoopInv, UsedFirst, LoopMove, NEW j \in JobIds, NEW w \in Workers, Begins(j, w)
    PROVE  Latest(run', j) = NextRun
<1>1. NextRun \in RunIds /\ run[NextRun].job = 0
  BY NextRunFacts DEF Begins
<1>2. run'[NextRun].job = j /\ \A r \in RunIds \ {NextRun} : run'[r] = run[r]
  BY <1>1 DEF Begins, LoopInv, TablesOK, TypeOK
<1>3. ASSUME NEW r \in RunIds, run'[r].job = j, r # NextRun PROVE r < NextRun
  <2>1. run[r].job # 0
    BY <1>2, <1>3, BoundAssumption DEF JobIds
  <2> QED BY <1>1, <1>3, <2>1, BoundAssumption DEF UsedFirst, RunIds
<1>4. Latest(run', j) \in RunIds /\ run'[Latest(run', j)].job = j /\ NextRun <= Latest(run', j)
  BY <1>1, <1>2, LatestIsRun
<1> QED BY <1>1, <1>3, <1>4, BoundAssumption DEF RunIds

LEMMA LatestKept ==
    ASSUME LoopInv, LoopMove, NEW j \in JobIds, \A w \in Workers : ~Begins(j, w)
    PROVE  Latest(run', j) = Latest(run, j)
<1>1. ASSUME NEW r \in RunIds PROVE (run'[r].job = j) <=> (run[r].job = j)
  <2>1. CASE run[r].job # 0
    BY <2>1, StoredRun
  <2>2. CASE run[r].job = 0
    <3>1. ASSUME NEW w \in Workers, Begins(worker[w].j, w), r = NextRun PROVE run'[r].job # j
      <4>1. worker[w].j # j
        BY <3>1
      <4>2. run'[r].job = worker[w].j
        BY <3>1 DEF Begins, LoopInv, TablesOK, TypeOK
      <4> QED BY <4>1, <4>2
    <3>2. RunMove(r) /\ j # 0
      BY BoundAssumption DEF LoopMove, Moves, JobIds
    <3> QED BY <2>2, <3>1, <3>2 DEF RunMove, RunKept, RunBegun
  <2> QED BY <2>1, <2>2
<1>2. RunsOf(run', j) = RunsOf(run, j)
  BY <1>1 DEF RunsOf
<1> QED BY <1>2 DEF Latest

LEMMA LatestRowsStep ==
    ASSUME LoopInv, LatestRuns, LoopMove, \A v, w \in Workers : v = w
    PROVE  LatestRows'
<1> SUFFICES ASSUME NEW j \in JobIds PROVE job'[j].run \in {0, Latest(run', j)}
  BY DEF LatestRows
<1>1. RowMove(j) /\ job[j].run \in {0, Latest(run, j)}
  BY DEF LoopMove, Moves, LatestRuns, LatestRows
<1>2. \/ job'[j].run \in {0, job[j].run}
      \/ \E w \in Workers : Counts(j, w)
      \/ \E w \in Workers : Saves(j, w)
  BY <1>1 DEF RowMove, Keeps, Drops, Creates, Requeues, Queued, Releases, Recovers, Frees, Prunes, Claims,
     Skips, Intends, Doubts, Succeeds, SameRow, SameHands
<1>3. ASSUME NEW w \in Workers, Begins(j, w) PROVE job'[j].run \in {0, Latest(run', j)}
  <2>1. Latest(run', j) = NextRun /\ job[j].run = 0 /\ worker[w].pc = "begin"
    BY <1>3, LatestBegun DEF LatestRuns, Begins, CanBegin
  <2>2. ASSUME NEW v \in Workers, Saves(j, v) PROVE FALSE
    <3>1. v = w
      OBVIOUS
    <3> QED BY <2>1, <2>2, <3>1 DEF Saves, SavePcs
  <2>3. ASSUME NEW v \in Workers, Counts(j, v) PROVE job'[j].run = NextRun
    BY <2>3 DEF Counts
  <2> QED BY <1>2, <2>1, <2>2, <2>3
<1>4. CASE \A w \in Workers : ~Begins(j, w)
  <2>1. Latest(run', j) = Latest(run, j)
    BY <1>4, LatestKept
  <2>2. ASSUME NEW w \in Workers, Saves(j, w) PROVE job'[j].run \in {0, Latest(run, j)}
    BY <2>2 DEF Saves, SameRow, LatestRuns, LatestCopies
  <2>3. \A w \in Workers : ~Counts(j, w)
    BY <1>4 DEF Counts
  <2> QED BY <1>1, <1>2, <2>1, <2>2, <2>3
<1> QED BY <1>3, <1>4

LEMMA LatestCopiesStep ==
    ASSUME LoopInv, LoopInv', LatestRuns, LatestRows', LoopMove, \A v, w \in Workers : v = w
    PROVE  LatestCopies'
<1> SUFFICES ASSUME NEW w \in Workers, worker'[w].j \in JobIds
             PROVE  worker'[w].copy.run \in {0, Latest(run', worker'[w].j)}
  BY DEF LatestCopies
<1> DEFINE m == worker[w] n == worker'[w]
<1>1. WorkerMove(w)
  BY DEF LoopMove
<1>2. ASSUME NEW i \in JobIds, NEW v \in Workers, Begins(i, v)
      PROVE  n.copy.run \in {0, Latest(run', n.j)}
  <2>1. v = w
    OBVIOUS
  <2>2. m.pc = "begin" /\ n.pc \in HasRun
    BY <1>2, <2>1 DEF Begins
  <2>3. Starts(w)
    BY <1>1, <2>2 DEF WorkerMove, Stays, Rested, Passes, Claimed, Preflights, Advances, Returns, Decides,
       Misses, HasRun, Attempt, Unclaimed, Recovering
  <2>4. n.j = m.j /\ n.copy.run = NextRun /\ Begins(m.j, w)
    BY <2>3 DEF Starts
  <2>5. Latest(run', n.j) = NextRun
    BY <2>4, LatestBegun DEF LatestRuns
  <2> QED BY <2>4, <2>5
<1>3. CASE \A i \in JobIds, v \in Workers : ~Begins(i, v)
  <2>1. Latest(run', n.j) = Latest(run, n.j)
    BY <1>3, LatestKept
  <2>2. job[n.j].run \in {0, Latest(run, n.j)} /\ job'[n.j].run \in {0, Latest(run', n.j)}
    BY DEF LatestRuns, LatestRows
  <2>3. n.j = m.j => m.copy.run \in {0, Latest(run, n.j)}
    BY DEF LatestRuns, LatestCopies
  <2>4. NoCopy.run = 0
    BY DEF NoCopy, NewJob
  <2>5. ~Starts(w)
    BY <1>3 DEF Starts
  <2>6. \/ n.copy = NoCopy
        \/ n.j = m.j /\ n.copy.run \in {0, m.copy.run, job[n.j].run}
        \/ n.copy = job'[n.j]
    BY <1>1, <2>4, <2>5 DEF WorkerMove, Stays, Rested, Passes, Claimed, Preflights, Advances, Returns,
       Decides, Misses, Settled, Doubted, LetsGo, SameRow
  <2> QED BY <2>1, <2>2, <2>3, <2>4, <2>6
<1> QED BY <1>2, <1>3

LEMMA AttemptOpenStep ==
    ASSUME LoopInv, LatestRuns, LoopMove, \A v, w \in Workers : v = w
    PROVE  AttemptOpen'
<1> SUFFICES ASSUME NEW w \in Workers, worker'[w].pc \in Opening PROVE run'[worker'[w].run].open
  BY DEF AttemptOpen
<1> DEFINE m == worker[w] n == worker'[w]
<1>1. WorkerMove(w) /\ WorkerOK(m)
  BY DEF LoopMove, LoopInv, WorkersOK
<1>2. Starts(w) \/ (m.pc \in Opening /\ n.run = m.run)
  BY <1>1 DEF WorkerMove, Stays, Rested, Passes, Claimed, Preflights, Advances, Returns, Decides, Misses,
     Opening, Unclaimed, Recovering
<1>3. CASE Starts(w)
  <2>1. n.run = NextRun /\ Begins(m.j, w)
    BY <1>3 DEF Starts
  <2> QED BY <2>1, NextRunFacts DEF Begins, LoopInv, TablesOK, TypeOK
<1>4. CASE m.pc \in Opening /\ n.run = m.run
  <2>1. m.run \in RunIds /\ run[m.run].open
    BY <1>1, <1>4 DEF WorkerOK, Opening, HasRun, Attempt, LatestRuns, AttemptOpen
  <2>2. \A v \in Workers : worker[v].pc \notin Archiving
    <3>1. m.pc \notin Archiving
      BY <1>4 DEF Opening, Archiving, Unclaimed, Recovering
    <3> QED BY <3>1
  <2>3. RunMove(m.run)
    BY <2>1 DEF LoopMove, Moves
  <2>4. CASE RunKept(m.run)
    BY <1>4, <2>1, <2>2, <2>4 DEF RunKept
  <2>5. CASE RunBegun(m.run)
    BY <1>4, <2>1, <2>5 DEF RunBegun, Begins, LoopInv, TablesOK, TypeOK
  <2> QED BY <2>3, <2>4, <2>5 DEF RunMove
<1> QED BY <1>2, <1>3, <1>4

\* What has been archived stays so, once the job begins nothing more.
LEMMA ArchivedKept ==
    ASSUME LoopInv, LatestRuns, LoopMove, NEW j \in JobIds, \A w \in Workers : ~Begins(j, w),
           Latest(run, j) # 0, ~run[Latest(run, j)].open
    PROVE  ~run'[Latest(run', j)].open
<1>1. Latest(run', j) = Latest(run, j)
  BY LatestKept
<1>2. Latest(run, j) \in RunIds /\ run[Latest(run, j)].job # 0
  BY LatestIsRun, BoundAssumption DEF JobIds
<1>3. ASSUME NEW w \in Workers, worker[w].pc = "run_status", worker[w].run = Latest(run, j) PROVE FALSE
  BY <1>3 DEF LatestRuns, AttemptOpen, Opening
<1> QED BY <1>1, <1>2, <1>3, StoredRun

LEMMA ArchivedStep ==
    ASSUME LoopInv, LatestRuns, ArchivedBeforeReceipt, LoopMove,
           NEW j \in JobIds, job'[j].receipt, job'[j].run = 0, Latest(run', j) # 0
    PROVE  ~run'[Latest(run', j)].open
<1>0. /\ RowMove(j) /\ LatestRun(j) = Latest(run, j) /\ job[j].run \in {0, Latest(run, j)}
      /\ job[j].receipt => job[j].status \in {"succeeded", "deleted"}
  <2>1. RowMove(j) /\ job[j].run \in {0, Latest(run, j)}
    BY DEF LoopMove, Moves, LatestRuns, LatestRows
  <2>2. LatestRun(j) = Latest(run, j)
    BY DEF LatestRun, Latest, RunsOf
  <2>3. job[j].receipt => job[j].status \in {"succeeded", "deleted"}
    BY DEF LoopInv, TablesOK, ReceiptRows, Done
  <2> QED BY <2>1, <2>2, <2>3
<1>1. CASE job[j].receipt
  <2>1. \A w \in Workers : ~Begins(j, w)
    BY <1>0, <1>1 DEF Begins, CanBegin
  <2>2. Latest(run', j) = Latest(run, j)
    BY <2>1, LatestKept
  <2>3. CASE job[j].run = 0
    <3>1. ~run[Latest(run, j)].open
      BY <1>0, <1>1, <2>2, <2>3 DEF ArchivedBeforeReceipt
    <3> QED BY <2>1, <2>2, <3>1, ArchivedKept
  <2>4. CASE job[j].run # 0
    <3>1. ~Creates(j) /\ ~Requeues(j) /\ ~Recovers(j)
          /\ \A w \in Workers : ~Claims(j, w) /\ ~Counts(j, w) /\ ~Saves(j, w) /\ ~Skips(j, w)
      BY <1>0, <1>1, <2>1 DEF Creates, Requeues, Recovers, Claims, Counts, Saves, Skips, ClaimDue, Active,
         Executing
    <3>2. Releases(j)
      BY <1>0, <2>4, <3>1 DEF RowMove, Keeps, Drops, Prunes, Intends, Doubts, Succeeds, SameRow, SameHands
    <3> QED BY <1>0, <2>2, <2>4, <3>2 DEF Releases, Frees
  <2> QED BY <2>3, <2>4
<1>2. CASE ~job[j].receipt
  <2>1. ASSUME NEW w \in Workers, Saves(j, w) PROVE FALSE
    <3>1. worker[w].copy.receipt /\ worker[w].pc # "finish_owned"
      BY <2>1 DEF Saves, SameRow, SameJob, SavePcs, Stamped
    <3> QED BY <3>1 DEF LoopInv, WorkersOK, WorkerOK
  <2>2. PICK w \in Workers : Succeeds(j, w)
    BY <1>0, <1>2, <2>1 DEF RowMove, Keeps, Drops, Creates, Requeues, Queued, Releases, Recovers, Frees,
       Prunes, Claims, Counts, Skips, Intends, Doubts, SameRow, SameJob
  <2>3. CanRecordReceipt(j) /\ job[j].run = 0
    BY <2>2 DEF Succeeds, SameHands
  <2>4. \A v \in Workers : ~Begins(j, v)
    BY <2>3 DEF CanRecordReceipt, Begins, CanBegin
  <2>5. Latest(run', j) = Latest(run, j)
    BY <2>4, LatestKept
  <2>6. ~run[Latest(run, j)].open
    BY <1>0, <2>3, <2>5 DEF CanRecordReceipt
  <2> QED BY <2>4, <2>5, <2>6, ArchivedKept
<1> QED BY <1>1, <1>2

LEMMA LatestInit == Init => LatestRuns /\ ArchivedBeforeReceipt
<1> SUFFICES ASSUME Init PROVE LatestRuns /\ ArchivedBeforeReceipt
  OBVIOUS
<1>1. \A j \in JobIds : job[j].run = 0 /\ ~job[j].receipt
  BY DEF Init, TablesInit, NewJob
<1>2. \A w \in Workers : worker[w].pc = "off" /\ worker[w].copy.run = 0
  BY DEF Init, Resting, NoCopy, NewJob
<1>3. \A r \in RunIds : run[r].job = 0
  BY DEF Init, TablesInit
<1> QED BY <1>1, <1>2, <1>3 DEF LatestRuns, UsedFirst, LatestRows, LatestCopies, AttemptOpen, Opening,
        ArchivedBeforeReceipt

\* With one server instance, a submitted job that let go of its active run has
\* the history of its latest run archived before its reviewer may be deleted.
\* A second instance could archive the run of a worker that then stores it as
\* open again.
THEOREM ArchivedFirst ==
    ASSUME \A v, w \in Workers : v = w
    PROVE  Spec => []ArchivedBeforeReceipt
<1> DEFINE Inv == LoopInv /\ LatestRuns /\ ArchivedBeforeReceipt
<1>1. Init => Inv
  BY LoopInvInit, LatestInit
<1>2. Inv /\ [Next]_vars => Inv'
  <2> SUFFICES ASSUME Inv, [Next]_vars PROVE Inv'
    OBVIOUS
  <2>1. LoopInv' /\ LoopMove
    BY LoopInvStep, LoopMoves
  <2>2. UsedFirst' /\ LatestRows' /\ AttemptOpen'
    BY <2>1, UsedFirstStep, LatestRowsStep, AttemptOpenStep DEF LatestRuns
  <2>3. LatestCopies'
    BY <2>1, <2>2, LatestCopiesStep
  <2>4. ArchivedBeforeReceipt'
    BY <2>1, ArchivedStep DEF ArchivedBeforeReceipt, LatestRun, Latest, RunsOf
  <2> QED BY <2>1, <2>2, <2>3, <2>4 DEF LatestRuns
<1> QED BY <1>1, <1>2, PTL DEF Spec

-----------------------------------------------------------------------------
(***************************************************************************)
(* Reviewers and runs.  A reviewer is named by the run that created it, so *)
(* that reviewers, runs and turns can be traced back to their job.         *)
(***************************************************************************)
\* The reviewer r, if any, was created by a run of job j in the table R.
Serves(R, r, j) == r # 0 => r \in RunIds /\ R[r].job = j

\* Where the row in memory has its reviewer.
Reviewing == {"running_save", "run_status", "turn_start"}

RunsServe ==
    \A r \in RunIds : run[r].reviewer # 0 =>
                         run[r].job \in JobIds /\ Serves(run, run[r].reviewer, run[r].job)

RowsServe == \A j \in JobIds : Serves(run, job[j].reviewer, j)

WorkersServe ==
    \A w \in Workers :
        /\ worker[w].j \in JobIds => Serves(run, worker[w].copy.reviewer, worker[w].j)
        /\ worker[w].pc \in HasRun => run[worker[w].run].job = worker[w].j
        /\ worker[w].pc \in Reviewing => worker[w].copy.reviewer # 0

TurnsServe ==
    \A w \in Workers : agent[w].step # "none" =>
        agent[w].reviewer # 0 /\ Serves(run, agent[w].reviewer, agent[w].j)

Lineage == RunsServe /\ RowsServe /\ WorkersServe /\ TurnsServe

\* What one step may do to the reviewer of the run r.
ReviewerMove(r) ==
    \/ run'[r].reviewer = run[r].reviewer
    \/ \E w \in Workers : /\ Begins(worker[w].j, w) /\ r = NextRun
                          /\ run'[r].reviewer = job[worker[w].j].reviewer
    \/ \E w \in Workers : /\ worker[w].pc = "run_status" /\ worker[w].run = r
                          /\ run'[r].reviewer = worker[w].copy.reviewer

\* What one step may do to the turn worker w started.
TurnHands(w) ==
    \/ agent'[w].step = "none"
    \/ /\ agent[w].step # "none"
       /\ agent'[w].j = agent[w].j /\ agent'[w].reviewer = agent[w].reviewer
    \/ /\ worker[w].pc = "turn_start" /\ worker'[w].pc \in {"turn", "finish"}
       /\ agent'[w].j = worker[w].j /\ agent'[w].reviewer = worker[w].copy.reviewer

\* The reviewer an attempt goes on with is the one of its row, a new one, or
\* one an earlier attempt of the job has left.
Chooses(w) ==
    worker[w].pc = "prepare" /\ worker'[w].pc = "running_save" =>
        /\ worker'[w].copy.reviewer # 0
        /\ \/ worker'[w].copy.reviewer \in {worker[w].copy.reviewer, worker[w].run}
           \/ \E r \in RunIds : /\ run[r].job = worker[w].j
                                /\ worker'[w].copy.reviewer = run[r].reviewer

\* A warning is saved by the first attempt only, whose job has no reviewer yet.
Adopts(w) ==
    worker[w].pc = "begin" /\ worker'[w].pc = "warning_save" => job[worker[w].j].reviewer = 0

LEMMA RunsKept ==
    ASSUME run' = run \/ (\E r \in RunIds : FinishRun(r)) \/ (\E e : RecoverJobs(e)), TypeOK
    PROVE  \A r \in RunIds : run'[r].reviewer = run[r].reviewer
<1>1. \A q \in RunIds : run[q] \in RunRow
  BY DEF TypeOK
<1>2. ASSUME NEW r \in RunIds, FinishRun(r)
      PROVE  \A q \in RunIds : run'[q].reviewer = run[q].reviewer
  BY <1>1, <1>2 DEF FinishRun, TypeOK, RunRow
<1>3. ASSUME NEW e, RecoverJobs(e)
      PROVE  \A q \in RunIds : run'[q].reviewer = run[q].reviewer
  <2>1. \A q \in RunIds : run'[q] \in {run[q], [run[q] EXCEPT !.open = FALSE]}
    BY <1>3 DEF RecoverJobs
  <2> QED BY <1>1, <2>1 DEF RunRow
<1> QED BY <1>2, <1>3

LEMMA RunsReviewed ==
    ASSUME LoopInv, LoopMove, [Next]_vars
    PROVE  \A r \in RunIds : ReviewerMove(r)
<1> DEFINE Kept == run' = run \/ (\E r \in RunIds : FinishRun(r)) \/ (\E e : RecoverJobs(e))
<1>0. TypeOK
  BY DEF LoopInv, TablesOK
<1>1. CASE Kept
  BY <1>0, <1>1, RunsKept DEF ReviewerMove
<1> HIDE DEF Kept
<1>2. ASSUME NEW w \in Workers, Begin(w) PROVE \A r \in RunIds : ReviewerMove(r)
  <2> DEFINE j == worker[w].j
  <2>1. CASE CanBegin(j, w)
    <3>1. /\ FreeRuns # {} /\ worker[w].pc = "begin"
          /\ run' = [run EXCEPT ![NextRun] =
                        [job |-> j, open |-> TRUE, reviewer |-> job[j].reviewer]]
      BY <1>2, <2>1 DEF Begin, BeginAttempt
    <3>2. NextRun \in RunIds /\ run[NextRun].job = 0 /\ j \in JobIds
      BY <3>1, NextRunFacts DEF LoopInv, WorkersOK, WorkerOK, Unclaimed, Recovering
    <3>3. RunMove(NextRun) /\ run'[NextRun].job = j /\ run'[NextRun].reviewer = job[j].reviewer
      BY <1>0, <3>1, <3>2 DEF LoopMove, Moves, TypeOK
    <3>4. RunBegun(NextRun)
      BY <3>2, <3>3, BoundAssumption DEF RunMove, RunKept, JobIds
    <3>5. PICK v \in Workers : Begins(worker[v].j, v)
      BY <3>4 DEF RunBegun
    <3>6. run'[NextRun].reviewer = job[worker[v].j].reviewer
      BY <1>0, <3>2, <3>5 DEF Begins, TypeOK
    <3>7. ReviewerMove(NextRun)
      BY <3>5, <3>6 DEF ReviewerMove
    <3>8. \A r \in RunIds \ {NextRun} : ReviewerMove(r)
      BY <1>0, <3>1 DEF ReviewerMove, TypeOK
    <3> QED BY <3>7, <3>8
  <2>2. CASE ~CanBegin(j, w)
    BY <1>1, <1>2, <2>2 DEF Begin, Kept, tables
  <2> QED BY <2>1, <2>2
<1>3. ASSUME NEW w \in Workers, SaveRunStatus(w) PROVE \A r \in RunIds : ReviewerMove(r)
  <2> DEFINE q == worker[w].run
  <2>1. /\ worker[w].pc = "run_status"
        /\ run' = [run EXCEPT ![q].open = TRUE, ![q].reviewer = worker[w].copy.reviewer]
    BY <1>3 DEF SaveRunStatus, SaveRunRunning
  <2>2. \A r \in RunIds : \/ run'[r] = run[r]
                          \/ r = q /\ run'[r].reviewer = worker[w].copy.reviewer
    BY <1>0, <2>1 DEF TypeOK, RunRow
  <2> QED BY <2>1, <2>2 DEF ReviewerMove
<1>4. ASSUME NEW p \in Prs, Produce(p) PROVE Kept
  BY <1>4 DEF Produce, Push, Signal, Discover, CheckWatch, Enqueue, AdmitCandidate, AdmitWatch,
     EnqueueFromWatch, EnqueueInTransaction, ReplaceWatchHead, DeleteWatch, tables, Kept
<1>5. ASSUME NEW w \in Workers, Pool(w) PROVE Kept
  <2>1. CASE FinishListed(w)
    <3>1. PICK r \in Listed(w) : FinishRun(r)
      BY <2>1 DEF FinishListed
    <3>2. r \in RunIds
      BY <3>1 DEF Listed, LoopInv, WorkersOK, WorkerRow
    <3> QED BY <3>1, <3>2 DEF Kept
  <2>2. CASE RecoverExpiredJobs(w)
    BY <2>2 DEF RecoverExpiredJobs, Kept
  <2>3. CASE Start(w) \/ Started(w) \/ Recover(w) \/ RecoverActiveRuns(w) \/ RecoverOwnership(w)
             \/ Repair(w) \/ Repaired(w) \/ ClaimJob(w) \/ NothingDue(w)
    BY <2>3 DEF Start, Started, Recover, RecoverActiveRuns, RecoverOwnership, Repair, Repaired,
       ClaimJob, NothingDue, ReleaseTerminalOwnership, Claim, tables, Kept
  <2> QED BY <1>5, <2>1, <2>2, <2>3 DEF Pool
<1>6. ASSUME NEW w \in Workers, Work(w), ~Begin(w), ~SaveRunStatus(w) PROVE Kept
  <2>1. CASE FinishAttempt(w) \/ FinishOwned(w)
    <3>1. run' = run \/ \E r : RunExists(r) /\ FinishRun(r) /\ r \in {worker[w].run, worker[w].copy.run}
      BY <2>1 DEF FinishAttempt, FinishOwned, CanFinishOwned, Finishable, CanFinishRun, tables
    <3>2. worker[w].pc \in {"finish", "finish_owned"}
      BY <2>1 DEF FinishAttempt, FinishOwned
    <3>3. CASE FinishAttempt(w)
      <4>1. worker[w].run \in RunIds
        BY <3>3 DEF FinishAttempt, LoopInv, WorkersOK, WorkerOK, HasRun, Attempt
      <4> QED BY <3>3, <4>1 DEF FinishAttempt, tables, Kept
    <3>4. CASE FinishOwned(w)
      <4>1. worker[w].copy.run \in RunIds
        BY <3>4 DEF FinishOwned, LoopInv, WorkersOK, WorkerOK
      <4> QED BY <3>4, <4>1 DEF FinishOwned, Kept
    <3> QED BY <2>1, <3>3, <3>4
  <2>2. CASE PreflightContinues(w) \/ PreflightRejects(w) \/ PreflightHeadChanged(w)
             \/ PreflightCiPending(w) \/ PreflightSaves(w) \/ Replace(w)
    BY <2>2 DEF PreflightContinues, PreflightRejects, PreflightHeadChanged, PreflightCiPending,
       PreflightSaves, Replace, SkipForCiPending, SaveClaimed, Enqueue, EnqueueInTransaction,
       tables, Kept
  <2>3. CASE SaveWarning(w) \/ Prepared(w) \/ SaveRunning(w) \/ StartTurn(w) \/ EndTurn(w)
    BY <2>3 DEF SaveWarning, Prepared, SaveRunning, StartTurn, EndTurn, SaveClaimed, tables, Kept
  <2>4. CASE Reload(w) \/ FinalSave(w) \/ PlainSave(w)
             \/ ReconcileFinds(w) \/ ReconcileMisses(w) \/ ReconcileSaves(w)
    BY <2>4 DEF Reload, FinalSave, PlainSave, ReconcileFinds, ReconcileMisses, ReconcileSaves,
       RecordReceipt, SaveClaimed, tables, Kept
  <2> QED BY <1>6, <2>1, <2>2, <2>3, <2>4 DEF Work
<1>7. ASSUME NEW w \in Workers, Beat(w) \/ Fail(w) \/ Review(w) PROVE Kept
  <2>1. CASE Beat(w)
    BY <2>1 DEF Beat, Heartbeat, HeartbeatLost, HeartbeatJob, tables, Kept
  <2>2. CASE Fail(w)
    BY <2>2 DEF Fail, PassFails, HeartbeatFails, PreflightCancelled, AttemptFails, AttemptBreaks,
       FinishFails, FinishOwnedFails, SaveFails, ReconcileCancelled, Crash, tables, Kept
  <2>3. CASE Review(w)
    BY <2>3 DEF Review, AgentStarts, AgentChecks, AgentRecordsIntent, AgentPosts, AgentInDoubt,
       AgentRefused, AgentEnds, RecordIntent, RecordReceipt, MarkReconciling, tables, Kept
  <2> QED BY <1>7, <2>1, <2>2, <2>3
<1>8. ASSUME NEW w \in Workers, Halt(w) PROVE Kept
  <2>1. CASE CancelRun(w)
    <3>1. PICK r \in worker[w].todo : FinishRun(r) \/ UNCHANGED tables
      BY <2>1 DEF CancelRun
    <3>2. r \in RunIds
      BY DEF LoopInv, WorkersOK, WorkerRow
    <3> QED BY <3>1, <3>2 DEF tables, Kept
  <2>2. CASE Stop(w) \/ CancelJobs(w) \/ Stopped(w)
    BY <2>2 DEF Stop, CancelJobs, Stopped, CancelActive, tables, Kept
  <2> QED BY <1>8, <2>1, <2>2 DEF Halt
<1>9. CASE Time \/ Clean \/ UNCHANGED vars
  <2>1. run' = run
    BY <1>9 DEF Time, Clean, LeaseLapses, BecomesDue, TakeTask, FinishTask, Retain, ClaimTask,
       CompleteTask, Prune, vars
  <2> QED BY <1>1, <2>1 DEF Kept
<1> QED BY <1>1, <1>2, <1>3, <1>4, <1>5, <1>6, <1>7, <1>8, <1>9 DEF Next

LEMMA TurnForms ==
    ASSUME AgentsOK, NEW w \in Workers,
           \/ agent' = agent \/ agent' = [agent EXCEPT ![w] = NoAgent]
           \/ \E j : ReviewerDeleted(w, j)
           \/ \E k : agent' = [agent EXCEPT ![w] = IF @.reviewer = k THEN @ ELSE NoAgent]
           \/ agent[w].step # "none" /\ \E s : AgentTo(w, s)
    PROVE  \A v \in Workers : TurnHands(v)
<1>1. NoAgent.step = "none" /\ \A v \in Workers : agent[v] \in AgentRow
  BY DEF NoAgent, AgentsOK
<1>2. CASE \A v \in Workers : agent'[v] \in {agent[v], NoAgent}
  BY <1>1, <1>2 DEF TurnHands
<1>3. ASSUME NEW s, AgentTo(w, s), agent[w].step # "none" PROVE \A v \in Workers : TurnHands(v)
  <2>1. /\ agent'[w] = [agent[w] EXCEPT !.step = s]
        /\ \A v \in Workers \ {w} : agent'[v] = agent[v]
    BY <1>3 DEF AgentTo, AgentsOK
  <2>2. agent'[w].j = agent[w].j /\ agent'[w].reviewer = agent[w].reviewer
    BY <1>1, <2>1 DEF AgentRow
  <2> QED BY <1>2, <1>3, <2>1, <2>2 DEF TurnHands
<1> QED BY <1>2, <1>3 DEF ReviewerDeleted, AgentsOK

LEMMA TurnsHand ==
    ASSUME LoopInv, [Next]_vars
    PROVE  \A v \in Workers : TurnHands(v)
<1> DEFINE Form(w) ==
           \/ agent' = agent \/ agent' = [agent EXCEPT ![w] = NoAgent]
           \/ \E j : ReviewerDeleted(w, j)
           \/ \E k : agent' = [agent EXCEPT ![w] = IF @.reviewer = k THEN @ ELSE NoAgent]
           \/ agent[w].step # "none" /\ \E s : AgentTo(w, s)
<1>0. AgentsOK
  BY DEF LoopInv
<1>1. ASSUME NEW w \in Workers, Form(w) PROVE \A v \in Workers : TurnHands(v)
  BY <1>0, <1>1, TurnForms
<1>2. CASE agent' = agent
  BY <1>2 DEF TurnHands
<1>3. ASSUME NEW p \in Prs, Produce(p) PROVE agent' = agent
  BY <1>3 DEF Produce, Push, Signal, Discover, CheckWatch
<1>4. ASSUME NEW w \in Workers, Pool(w) PROVE Form(w)
  BY <1>4 DEF Pool, Start, FinishListed, Started, Recover, RecoverActiveRuns, RecoverOwnership,
     RecoverExpiredJobs, Repair, Repaired, ClaimJob, NothingDue
<1>5. ASSUME NEW w \in Workers, Work(w), ~StartTurn(w) PROVE Form(w)
  <2>1. CASE PreflightContinues(w) \/ PreflightRejects(w) \/ PreflightHeadChanged(w)
             \/ PreflightCiPending(w) \/ PreflightSaves(w) \/ Replace(w)
             \/ Begin(w) \/ SaveWarning(w) \/ Prepared(w) \/ SaveRunning(w) \/ SaveRunStatus(w)
             \/ EndTurn(w) \/ FinishAttempt(w)
    BY <2>1 DEF PreflightContinues, PreflightRejects, PreflightHeadChanged, PreflightCiPending,
       PreflightSaves, Replace, Begin, SaveWarning, Prepared, SaveRunning, SaveRunStatus, EndTurn,
       FinishAttempt
  <2>2. CASE Reload(w) \/ FinishOwned(w) \/ FinalSave(w) \/ PlainSave(w)
             \/ ReconcileFinds(w) \/ ReconcileMisses(w) \/ ReconcileSaves(w)
    BY <2>2 DEF Reload, FinishOwned, FinalSave, PlainSave, ReconcileFinds, ReconcileMisses,
       ReconcileSaves
  <2> QED BY <1>5, <2>1, <2>2 DEF Work
<1>6. ASSUME NEW w \in Workers, StartTurn(w) PROVE \A v \in Workers : TurnHands(v)
  <2> DEFINE m == worker[w] n == worker'[w]
  <2>1. PICK r : agent' = [agent EXCEPT ![w] = [j |-> m.j, reviewer |-> m.copy.reviewer,
                                                run |-> r, step |-> "queued"]]
    BY <1>6 DEF StartTurn
  <2>2. agent'[w].j = m.j /\ agent'[w].reviewer = m.copy.reviewer
        /\ \A v \in Workers \ {w} : agent'[v] = agent[v]
    BY <1>0, <2>1 DEF AgentsOK
  <2>3. m.pc = "turn_start" /\ n.pc \in {"turn", "finish"}
    <3>1. worker \in [Workers -> WorkerRow] /\ m \in WorkerRow
      BY DEF LoopInv, WorkersOK
    <3>2. \/ Goes(w, [m EXCEPT !.pc = "turn", !.copy = NoCopy])
          \/ Goes(w, [m EXCEPT !.pc = "finish", !.result = "err", !.copy = NoCopy,
                               !.overtaken = FALSE])
      BY <1>6 DEF StartTurn, Finishes
    <3>3. CASE Goes(w, [m EXCEPT !.pc = "turn", !.copy = NoCopy])
      BY <1>6, <3>1, <3>3 DEF Goes, WorkerRow, StartTurn
    <3>4. CASE Goes(w, [m EXCEPT !.pc = "finish", !.result = "err", !.copy = NoCopy,
                               !.overtaken = FALSE])
      BY <1>6, <3>1, <3>4 DEF Goes, WorkerRow, StartTurn
    <3> QED BY <3>2, <3>3, <3>4
  <2> QED BY <2>2, <2>3 DEF TurnHands
<1>7. ASSUME NEW w \in Workers, Beat(w) \/ Fail(w) \/ Halt(w) PROVE Form(w)
  BY <1>7 DEF Beat, Heartbeat, HeartbeatLost, Fail, PassFails, HeartbeatFails, PreflightCancelled,
     AttemptFails, AttemptBreaks, FinishFails, FinishOwnedFails, SaveFails, ReconcileCancelled,
     Crash, Halt, Stop, CancelJobs, CancelRun, Stopped
<1>8. ASSUME NEW w \in Workers, Review(w) PROVE Form(w)
  BY <1>8 DEF Review, AgentStarts, AgentChecks, AgentRecordsIntent, AgentPosts, AgentInDoubt,
     AgentRefused, AgentEnds
<1>9. CASE Time \/ Clean
  <2>1. \A v \in Workers : agent'[v] \in {agent[v], NoAgent}
    BY <1>0, <1>9 DEF Time, Clean, TakeTask, FinishTask, Retain, AgentsOK
  <2>2. NoAgent.step = "none"
    BY DEF NoAgent
  <2> QED BY <2>1, <2>2 DEF TurnHands
<1> HIDE DEF Form
<1> QED BY <1>1, <1>2, <1>3, <1>4, <1>5, <1>6, <1>7, <1>8, <1>9 DEF Next, vars

\* A step of somebody else: no worker goes on.
Aside ==
    \/ \E p \in Prs : Produce(p)
    \/ \E w \in Workers : Beat(w) \/ HeartbeatFails(w) \/ Review(w)
    \/ Time \/ Clean \/ UNCHANGED vars

LEMMA AsideKeeps ==
    ASSUME LoopInv, Aside, NEW v \in Workers
    PROVE  worker'[v].pc = worker[v].pc /\ worker'[v].kept = worker[v].kept
<1> DEFINE Same == worker'[v].pc = worker[v].pc /\ worker'[v].kept = worker[v].kept
<1>0. worker \in [Workers -> WorkerRow] /\ worker[v] \in WorkerRow
  BY DEF LoopInv, WorkersOK
<1>1. CASE worker' = worker
  BY <1>1
<1>2. ASSUME NEW b, worker'[v] \in {worker[v], [worker[v] EXCEPT !.overtaken = b]} PROVE Same
  <2>1. CASE worker'[v] = worker[v]
    BY <2>1
  <2>2. CASE worker'[v] = [worker[v] EXCEPT !.overtaken = b]
    BY <1>0, <2>2 DEF WorkerRow
  <2> QED BY <1>2, <2>1, <2>2
<1>3. ASSUME NEW S, Overtakes(S) PROVE Same
  <2>1. worker'[v] \in {worker[v], [worker[v] EXCEPT !.overtaken = TRUE]}
    BY <1>3 DEF Overtakes
  <2> QED BY <1>2, <2>1
<1>4. ASSUME NEW p \in Prs, Produce(p) PROVE worker' = worker \/ \E S : Overtakes(S)
  BY <1>4 DEF Produce, Push, Signal, Discover, CheckWatch
<1>5. ASSUME NEW w \in Workers, Heartbeat(w) PROVE Same
  <2>1. PICK V : worker' = Renewed([u \in Workers |->
                                IF u \in V THEN [worker[u] EXCEPT !.overtaken = TRUE]
                                ELSE worker[u]], worker[w].j)
    BY <1>5 DEF Heartbeat
  <2>2. PICK x \in {worker[v], [worker[v] EXCEPT !.overtaken = TRUE]} :
             worker'[v] = [x EXCEPT !.expired = x.expired \ {worker[w].j}]
    BY <2>1 DEF Renewed
  <2>3. x \in WorkerRow /\ x.pc = worker[v].pc /\ x.kept = worker[v].kept
    <3>1. CASE x = worker[v]
      BY <1>0, <3>1
    <3>2. CASE x = [worker[v] EXCEPT !.overtaken = TRUE]
      <4>1. WorkerOK(x)
        BY <3>2, OvertakenOK DEF LoopInv, WorkersOK
      <4>2. x \in WorkerRow
        BY <4>1 DEF WorkerOK
      <4>3. x.pc = worker[v].pc /\ x.kept = worker[v].kept
        BY <1>0, <3>2 DEF WorkerRow
      <4> QED BY <4>2, <4>3
    <3> QED BY <2>2, <3>1, <3>2
  <2> QED BY <2>2, <2>3 DEF WorkerRow
<1>6. ASSUME NEW w \in Workers, HeartbeatLost(w) \/ HeartbeatFails(w) PROVE Same
  <2>1. PICK b : worker' = [worker EXCEPT ![w] =
                               [worker[w] EXCEPT !.heartbeat = FALSE, !.cancelled = b]]
    BY <1>6 DEF HeartbeatLost, HeartbeatFails, Goes
  <2> QED BY <1>0, <2>1 DEF WorkerRow
<1>7. ASSUME NEW w \in Workers, Review(w) PROVE Same
  <2>1. CASE AgentRecordsIntent(w)
    <3>1. CASE worker' = worker
      BY <3>1
    <3>2. CASE \E V : worker' = [u \in Workers |->
                          IF worker[u].j = agent[w].j /\ worker[u].pc \in Stamped
                          THEN [worker[u] EXCEPT !.overtaken = u \in V] ELSE worker[u]]
      <4>1. PICK b : worker'[v] \in {worker[v], [worker[v] EXCEPT !.overtaken = b]}
        BY <3>2
      <4> QED BY <1>2, <4>1
    <3> QED BY <2>1, <3>1, <3>2 DEF AgentRecordsIntent
  <2>2. CASE AgentStarts(w) \/ AgentChecks(w) \/ AgentPosts(w) \/ AgentInDoubt(w)
             \/ AgentRefused(w) \/ AgentEnds(w)
    BY <1>1, <1>3, <2>2 DEF AgentStarts, AgentChecks, AgentPosts, AgentInDoubt, AgentRefused,
       AgentEnds
  <2> QED BY <1>7, <2>1, <2>2 DEF Review
<1>8. CASE Time \/ Clean \/ UNCHANGED vars
  BY <1>1, <1>8 DEF Time, Clean, TakeTask, FinishTask, Retain, vars
<1> QED BY <1>1, <1>3, <1>4, <1>5, <1>6, <1>7, <1>8 DEF Aside, Beat

LEMMA ChosenReviewers ==
    ASSUME LoopInv, [Next]_vars, \A v, w \in Workers : v = w, NEW w \in Workers
    PROVE  Chooses(w) /\ Adopts(w)
<1> DEFINE m == worker[w] n == worker'[w]
<1> SUFFICES ASSUME \/ m.pc = "prepare" /\ n.pc = "running_save"
                    \/ m.pc = "begin" /\ n.pc = "warning_save"
             PROVE  Chooses(w) /\ Adopts(w)
  BY DEF Chooses, Adopts
<1>1. m \in WorkerRow /\ worker \in [Workers -> WorkerRow]
  BY DEF LoopInv, WorkersOK
<1>2. CASE Prepared(w)
  <2>1. PICK a \in (IF m.copy.reviewer # 0 THEN {m.copy.reviewer}
                    ELSE {m.run} \cup ({run[r].reviewer : r \in {q \in RunIds : run[q].job = m.j}} \ {0})) :
           Save(w, "running_save", StartRunning(m.copy, a))
    BY <1>2 DEF Prepared
  <2>2. n.copy = StartRunning(m.copy, a)
    BY <1>1, <2>1 DEF Save, Goes, WorkerRow
  <2>3. n.copy.reviewer = a
    BY <1>1, <2>2 DEF StartRunning, WorkerRow, JobRow
  <2>4. m.pc = "prepare"
    BY <1>2 DEF Prepared
  <2>5. m.run # 0
    BY <2>4, BoundAssumption DEF LoopInv, WorkersOK, WorkerOK, HasRun, Attempt, RunIds
  <2> QED BY <2>1, <2>3, <2>4, <2>5 DEF Chooses, Adopts
<1>3. CASE Begin(w)
  <2>1. m.pc = "begin" /\ n.pc = "warning_save"
    BY <1>3 DEF Begin
  <2>2. CASE CanBegin(m.j, w)
    <3> DEFINE pc == IF m.cancelled THEN "finish"
                     ELSE IF job[m.j].reviewer = 0 THEN "warning_save" ELSE "prepare"
               res == IF m.cancelled THEN "err" ELSE "ok"
               c == Begun(job[m.j], NextRun)
    <3>1. Goes(w, [m EXCEPT !.run = NextRun, !.copy = c, !.overtaken = FALSE,
                            !.pc = pc, !.result = res])
      BY <1>3, <2>2 DEF Begin
    <3>2. pc = "warning_save" => job[m.j].reviewer = 0
      OBVIOUS
    <3> HIDE DEF pc, res, c
    <3>3. n.pc = pc
      BY <1>1, <3>1 DEF Goes, WorkerRow
    <3> QED BY <2>1, <3>2, <3>3 DEF Chooses, Adopts
  <2>3. CASE ~CanBegin(m.j, w)
    BY <1>1, <1>3, <2>1, <2>3 DEF Begin, Reloads, Goes, Resting
  <2> QED BY <2>2, <2>3
<1>4. ~Aside
  BY AsideKeeps
<1>5. ~Pool(w)
  BY DEF Pool, Start, FinishListed, Started, Recover, RecoverActiveRuns, RecoverOwnership,
     RecoverExpiredJobs, Repair, Repaired, ClaimJob, NothingDue
<1>6. Work(w) => Prepared(w) \/ Begin(w)
  <2>1. ~(\/ PreflightContinues(w) \/ PreflightRejects(w) \/ PreflightHeadChanged(w)
          \/ PreflightCiPending(w) \/ PreflightSaves(w) \/ Replace(w))
    BY DEF PreflightContinues, PreflightRejects, PreflightHeadChanged, PreflightCiPending,
       PreflightSaves, Replace
  <2>2. ~(\/ SaveWarning(w) \/ SaveRunning(w) \/ SaveRunStatus(w)
          \/ StartTurn(w) \/ EndTurn(w) \/ FinishAttempt(w))
    BY DEF SaveWarning, SaveRunning, SaveRunStatus, StartTurn, EndTurn, FinishAttempt
  <2>3. ~(\/ Reload(w) \/ FinishOwned(w) \/ FinalSave(w) \/ PlainSave(w)
          \/ ReconcileFinds(w) \/ ReconcileMisses(w) \/ ReconcileSaves(w))
    BY DEF Reload, FinishOwned, FinalSave, PlainSave, ReconcileFinds, ReconcileMisses,
       ReconcileSaves
  <2> QED BY <2>1, <2>2, <2>3 DEF Work
<1>7. Fail(w) => HeartbeatFails(w)
  <2>1. ~(\/ PassFails(w) \/ PreflightCancelled(w) \/ FinishFails(w)
          \/ FinishOwnedFails(w) \/ SaveFails(w) \/ ReconcileCancelled(w))
    BY DEF PassFails, PreflightCancelled, FinishFails, FinishOwnedFails, SaveFails,
       ReconcileCancelled, Recovering, Preflight, Reconcile
  <2>2. ASSUME AttemptFails(w) PROVE FALSE
    <3>1. PICK r : Finishes(w, r)
      BY <2>2 DEF AttemptFails
    <3>2. n = [m EXCEPT !.pc = "finish", !.result = r, !.copy = NoCopy, !.overtaken = FALSE]
      BY <1>1, <3>1 DEF Finishes, Goes
    <3> QED BY <1>1, <3>2 DEF WorkerRow
  <2>3. ~Crash(w)
    BY <1>1 DEF Crash, Rests, Goes, Resting
  <2>4. ASSUME AttemptBreaks(w) PROVE FALSE
    <3>1. PICK r : n = [Resting("reload") EXCEPT !.j = m.j, !.result = r]
      BY <1>1, <2>4 DEF AttemptBreaks, Reloads, Goes
    <3> QED BY <3>1 DEF Resting
  <2> QED BY <2>1, <2>2, <2>3, <2>4 DEF Fail
<1>8. ~Halt(w)
  <2>1. ~Stop(w)
    BY <1>1 DEF Stop, Goes, Resting
  <2>2. ~CancelJobs(w) /\ ~CancelRun(w) /\ ~Stopped(w)
    BY DEF CancelJobs, CancelRun, Stopped
  <2> QED BY <2>1, <2>2 DEF Halt
<1> QED BY <1>2, <1>3, <1>4, <1>5, <1>6, <1>7, <1>8 DEF Next, Aside

\* A stored run keeps its job.
LEMMA ServesOn ==
    ASSUME LoopMove, NEW j \in JobIds, NEW r, Serves(run, r, j)
    PROVE  Serves(run', r, j)
BY StoredRun, BoundAssumption DEF Serves, JobIds

LEMMA RunsServeStep ==
    ASSUME LoopInv, LoopMove, Lineage, NEW r \in RunIds, ReviewerMove(r), run'[r].reviewer # 0
    PROVE  run'[r].job \in JobIds /\ Serves(run', run'[r].reviewer, run'[r].job)
<1>1. CASE run'[r].reviewer = run[r].reviewer
  <2>1. run[r].job \in JobIds /\ Serves(run, run[r].reviewer, run[r].job)
    BY <1>1 DEF Lineage, RunsServe
  <2>2. run'[r].job = run[r].job
    BY <2>1, StoredRun, BoundAssumption DEF JobIds
  <2> QED BY <1>1, <2>1, <2>2, ServesOn
<1>2. ASSUME NEW w \in Workers, Begins(worker[w].j, w), r = NextRun,
             run'[r].reviewer = job[worker[w].j].reviewer
      PROVE  run'[r].job \in JobIds /\ Serves(run', run'[r].reviewer, run'[r].job)
  <2>1. worker[w].j \in JobIds
    BY <1>2 DEF Begins, LoopInv, WorkersOK, WorkerOK, Unclaimed, Recovering
  <2>2. run'[r].job = worker[w].j
    BY <1>2 DEF Begins, LoopInv, TablesOK, TypeOK
  <2> QED BY <1>2, <2>1, <2>2, ServesOn DEF Lineage, RowsServe
<1>3. ASSUME NEW w \in Workers, worker[w].pc = "run_status", worker[w].run = r,
             run'[r].reviewer = worker[w].copy.reviewer
      PROVE  run'[r].job \in JobIds /\ Serves(run', run'[r].reviewer, run'[r].job)
  <2>1. worker[w].j \in JobIds /\ worker[w].pc \in HasRun
    BY <1>3 DEF LoopInv, WorkersOK, WorkerOK, Unclaimed, Recovering, HasRun, Attempt
  <2>2. run[r].job = worker[w].j /\ Serves(run, worker[w].copy.reviewer, worker[w].j)
    BY <1>3, <2>1 DEF Lineage, WorkersServe
  <2>3. run'[r].job = worker[w].j
    BY <2>1, <2>2, StoredRun, BoundAssumption DEF JobIds
  <2> QED BY <1>3, <2>1, <2>2, <2>3, ServesOn
<1> QED BY <1>1, <1>2, <1>3 DEF ReviewerMove

LEMMA RowsServeStep ==
    ASSUME LoopMove, Lineage, NEW j \in JobIds
    PROVE  Serves(run', job'[j].reviewer, j)
<1>1. RowMove(j)
  BY DEF LoopMove, Moves
<1>2. \/ job'[j].reviewer \in {0, job[j].reviewer}
      \/ \E w \in Workers : worker[w].j = j /\ job'[j].reviewer = worker[w].copy.reviewer
  BY <1>1 DEF RowMove, Keeps, Drops, Creates, Requeues, Queued, Releases, Recovers, Frees, Prunes,
     Claims, Counts, Saves, Skips, Intends, Doubts, Succeeds, SameRow, SameHands
<1>3. Serves(run, job'[j].reviewer, j)
  BY <1>2 DEF Lineage, RowsServe, WorkersServe, Serves
<1> QED BY <1>3, ServesOn

\* The row in memory has its reviewer from the tables, or from its attempt.
LEMMA CopiesServeStep ==
    ASSUME LoopInv, LoopMove, Lineage, NEW w \in Workers, Chooses(w), worker'[w].j \in JobIds
    PROVE  Serves(run', worker'[w].copy.reviewer, worker'[w].j)
<1> DEFINE m == worker[w] n == worker'[w]
<1>1. WorkerMove(w) /\ NoCopy.reviewer = 0
  BY DEF LoopMove, NoCopy, NewJob
<1>2. CASE n.copy.reviewer = 0
  BY <1>2 DEF Serves
<1>3. CASE n.j = m.j /\ n.copy.reviewer \in {m.copy.reviewer, job[n.j].reviewer}
  <2>1. Serves(run, n.copy.reviewer, n.j)
    BY <1>3 DEF Lineage, RowsServe, WorkersServe
  <2> QED BY <2>1, ServesOn
<1>4. CASE n.copy.reviewer = job[n.j].reviewer
  <2>1. Serves(run, n.copy.reviewer, n.j)
    BY <1>4 DEF Lineage, RowsServe
  <2> QED BY <2>1, ServesOn
<1>5. CASE n.j = m.j /\ m.pc = "prepare" /\ n.pc = "running_save"
  <2>1. m.run \in RunIds /\ run[m.run].job = m.j
    BY <1>5 DEF LoopInv, WorkersOK, WorkerOK, HasRun, Attempt, Lineage, WorkersServe
  <2>2. Serves(run, m.copy.reviewer, m.j) /\ Serves(run, m.run, m.j)
    BY <1>5, <2>1 DEF Lineage, WorkersServe, Serves
  <2>3. \A r \in RunIds : run[r].job = m.j => Serves(run, run[r].reviewer, m.j)
    BY DEF Lineage, RunsServe, Serves
  <2>4. Serves(run, n.copy.reviewer, n.j)
    BY <1>5, <2>2, <2>3 DEF Chooses
  <2> QED BY <2>4, ServesOn
<1>6. \/ n.copy = NoCopy
      \/ n.j = m.j /\ n.copy.reviewer \in {m.copy.reviewer, job[n.j].reviewer}
      \/ n.copy.reviewer = job[n.j].reviewer
      \/ n.j = m.j /\ m.pc = "prepare" /\ n.pc = "running_save"
  BY <1>1 DEF WorkerMove, Stays, Rested, Passes, Claimed, Claims, Preflights, Starts, Advances, Returns,
     Decides, Misses, Settled, Doubted, LetsGo, SameRow, SameHands
<1> QED BY <1>1, <1>2, <1>3, <1>4, <1>5, <1>6

LEMMA WorkersServeStep ==
    ASSUME LoopInv, LoopMove, Lineage, NEW w \in Workers, Chooses(w)
    PROVE  /\ worker'[w].pc \in HasRun => run'[worker'[w].run].job = worker'[w].j
           /\ worker'[w].pc \in Reviewing => worker'[w].copy.reviewer # 0
<1> DEFINE m == worker[w] n == worker'[w]
<1>1. WorkerMove(w) /\ WorkerOK(m)
  BY DEF LoopMove, LoopInv, WorkersOK
<1>2. ASSUME n.pc \in HasRun PROVE run'[n.run].job = n.j
  <2>1. n.pc \notin Unclaimed
        /\ n.pc \notin {"reconcile", "preflight", "begin", "preflight_save", "preflight_replace",
                        "replace", "reload", "finish_owned", "plain_save", "final_save",
                        "reconcile_save"}
    BY <1>2 DEF HasRun, Attempt, Unclaimed, Recovering
  <2>2. Starts(w) \/ (m.pc \in HasRun /\ n.run = m.run /\ n.j = m.j)
    BY <1>1, <1>2, <2>1 DEF WorkerMove, Stays, Rested, Passes, Claimed, Preflights, Advances,
       Returns, Decides, Misses, Unclaimed, Recovering
  <2>3. CASE Starts(w)
    <3>1. FreeRuns # {} /\ n.j = m.j /\ n.run = NextRun
          /\ run' = [run EXCEPT ![NextRun] =
                        [job |-> m.j, open |-> TRUE, reviewer |-> job[m.j].reviewer]]
      BY <2>3 DEF Starts, Begins
    <3> QED BY <3>1, NextRunFacts DEF LoopInv, TablesOK, TypeOK
  <2>4. CASE m.pc \in HasRun /\ n.run = m.run /\ n.j = m.j
    <3>1. m.run \in RunIds /\ m.j \in JobIds /\ run[m.run].job = m.j
      BY <1>1, <2>4, PcTypes DEF WorkerOK, Lineage, WorkersServe
    <3> QED BY <2>4, <3>1, StoredRun, BoundAssumption DEF JobIds
  <2> QED BY <2>2, <2>3, <2>4
<1>3. ASSUME n.pc \in Reviewing PROVE n.copy.reviewer # 0
  <2>1. \/ m.pc \in Reviewing /\ n.copy = m.copy
        \/ m.pc = "prepare" /\ n.pc = "running_save"
    BY <1>1, <1>3 DEF WorkerMove, Stays, Rested, Passes, Claimed, Preflights, Starts, Advances,
       Returns, Decides, Misses, Reviewing, Unclaimed, Recovering
  <2> QED BY <1>3, <2>1 DEF Chooses, Lineage, WorkersServe
<1> QED BY <1>2, <1>3

LEMMA TurnsServeStep ==
    ASSUME LoopInv, LoopMove, Lineage, NEW w \in Workers, TurnHands(w), agent'[w].step # "none"
    PROVE  agent'[w].reviewer # 0 /\ Serves(run', agent'[w].reviewer, agent'[w].j)
<1>1. CASE /\ agent[w].step # "none"
           /\ agent'[w].j = agent[w].j /\ agent'[w].reviewer = agent[w].reviewer
  <2>1. agent[w].j \in JobIds /\ agent[w].reviewer # 0 /\ Serves(run, agent[w].reviewer, agent[w].j)
    BY <1>1 DEF LoopInv, AgentsOK, AgentOK, Lineage, TurnsServe
  <2> QED BY <1>1, <2>1, ServesOn
<1>2. CASE /\ worker[w].pc = "turn_start"
           /\ agent'[w].j = worker[w].j /\ agent'[w].reviewer = worker[w].copy.reviewer
  <2>1. worker[w].j \in JobIds
    BY <1>2 DEF LoopInv, WorkersOK, WorkerOK, Unclaimed, Recovering
  <2>2. worker[w].copy.reviewer # 0 /\ Serves(run, worker[w].copy.reviewer, worker[w].j)
    BY <1>2, <2>1 DEF Lineage, WorkersServe, Reviewing
  <2> QED BY <1>2, <2>1, <2>2, ServesOn
<1> QED BY <1>1, <1>2 DEF TurnHands

LEMMA LineageInit == Init => Lineage
<1> SUFFICES ASSUME Init PROVE Lineage
  OBVIOUS
<1>1. \A j \in JobIds : job[j].reviewer = 0
  BY DEF Init, TablesInit, NewJob
<1>2. \A w \in Workers : worker[w].pc = "off" /\ worker[w].copy.reviewer = 0
  BY DEF Init, Resting, NoCopy, NewJob
<1>3. \A r \in RunIds : run[r].reviewer = 0
  BY DEF Init, TablesInit
<1>4. \A w \in Workers : agent[w].step = "none"
  BY DEF Init, NoAgent
<1> QED BY <1>1, <1>2, <1>3, <1>4 DEF Lineage, RunsServe, RowsServe, WorkersServe, TurnsServe, Serves,
        Reviewing, HasRun, Attempt

LEMMA LineageStep ==
    ASSUME LoopInv, LoopMove, [Next]_vars, Lineage, \A v, w \in Workers : v = w
    PROVE  Lineage'
<1>1. /\ \A r \in RunIds : ReviewerMove(r)
      /\ \A w \in Workers : TurnHands(w) /\ Chooses(w)
  BY RunsReviewed, TurnsHand, ChosenReviewers
<1>2. RunsServe'
  BY <1>1, RunsServeStep DEF RunsServe
<1>3. RowsServe'
  BY RowsServeStep DEF RowsServe
<1>4. WorkersServe'
  BY <1>1, CopiesServeStep, WorkersServeStep DEF WorkersServe
<1>5. TurnsServe'
  BY <1>1, TurnsServeStep DEF TurnsServe
<1> QED BY <1>2, <1>3, <1>4, <1>5 DEF Lineage

-----------------------------------------------------------------------------
(***************************************************************************)
(* No second attempt while a submission is in doubt.  A worker writes the  *)
(* status "preparing" over a stored row only when it saves the warning of  *)
(* a job without reviewer.  No turn of that job can then be left to record *)
(* an intent: before a claim the singleton repair ends every turn but that *)
(* of the reviewer it keeps, which is the reviewer of an open job.         *)
(***************************************************************************)
\* What one step may do to the reviewer that the repair of worker w keeps.
KeptMove(w) ==
    LET m == worker[w] n == worker'[w]
    IN n.pc \in {"repair", "claim"} =>
          \/ n.pc = m.pc /\ n.kept = m.kept
          \/ n.pc = "repair" /\ n.kept \in {0} \cup OwnedReviewers /\ job' = job
          \/ /\ m.pc = "repair" /\ n.kept = m.kept /\ job' = job
             /\ agent'[w].step # "none" => agent'[w].reviewer = m.kept

LEMMA PoolKeeps ==
    ASSUME LoopInv, NEW w \in Workers, Pool(w)
    PROVE  KeptMove(w)
<1> DEFINE m == worker[w] n == worker'[w]
<1> SUFFICES ASSUME n.pc \in {"repair", "claim"} PROVE KeptMove(w)
  BY DEF KeptMove
<1>0. /\ m \in WorkerRow /\ worker \in [Workers -> WorkerRow]
      /\ agent \in [Workers -> AgentRow]
  BY DEF LoopInv, WorkersOK, AgentsOK
<1>1. CASE FinishListed(w)
  <2>1. PICK r : n = [m EXCEPT !.todo = m.todo \ {r}]
    BY <1>0, <1>1 DEF FinishListed, Goes
  <2>2. n.pc = m.pc /\ n.kept = m.kept
    BY <1>0, <2>1 DEF WorkerRow
  <2> QED BY <2>2 DEF KeptMove
<1>2. CASE Repair(w)
  <2>1. PICK k \in {0} \cup OwnedReviewers :
           n = [m EXCEPT !.pc = "repair", !.kept = k,
                         !.todo = {r \in OpenRuns : k = 0 \/ run[r].reviewer # k}]
    BY <1>0, <1>2 DEF Repair, Goes
  <2>2. n.pc = "repair" /\ n.kept = k
    BY <1>0, <2>1 DEF WorkerRow
  <2> QED BY <1>2, <2>2 DEF KeptMove, Repair, tables
<1>3. CASE Repaired(w)
  <2>1. n = [m EXCEPT !.pc = "claim"]
    BY <1>0, <1>3 DEF Repaired, To, Goes
  <2>2. n.kept = m.kept
    BY <1>0, <2>1 DEF WorkerRow
  <2>3. agent'[w] = IF agent[w].reviewer = m.kept THEN agent[w] ELSE NoAgent
    BY <1>0, <1>3 DEF Repaired
  <2>4. agent'[w].step # "none" => agent'[w].reviewer = m.kept
    BY <2>3 DEF NoAgent
  <2> QED BY <1>3, <2>2, <2>4 DEF KeptMove, Repaired, tables
<1>4. ~ClaimJob(w)
  <2> SUFFICES ASSUME ClaimJob(w) PROVE FALSE
    OBVIOUS
  <2>1. PICK j \in JobIds, pc \in {"reconcile", "preflight"} :
           worker' = Renewed([worker EXCEPT ![w] =
                 [Resting(pc) EXCEPT !.j = j, !.copy = job'[j], !.heartbeat = TRUE]], j)
    BY DEF ClaimJob
  <2> DEFINE x == [Resting(pc) EXCEPT !.j = j, !.copy = job'[j], !.heartbeat = TRUE]
  <2>2. x.pc = pc
    BY DEF Resting
  <2>3. n = [x EXCEPT !.expired = x.expired \ {j}]
    BY <1>0, <2>1 DEF Renewed
  <2>4. n.pc = pc
    BY <2>3 DEF Resting
  <2> QED BY <2>4
<1>5. ~Start(w) /\ ~Started(w) /\ ~Recover(w) /\ ~NothingDue(w)
  <2>1. ASSUME Start(w) PROVE FALSE
    <3>1. PICK k : n = [Resting("startup") EXCEPT !.todo = OpenRuns, !.kept = k]
      BY <1>0, <2>1 DEF Start, Goes
    <3> QED BY <3>1 DEF Resting
  <2>2. ASSUME Recover(w) PROVE FALSE
    <3>1. PICK e, t : n = [Resting("rec_terminal") EXCEPT !.expired = e, !.todo = t]
      BY <1>0, <2>2 DEF Recover, Goes
    <3> QED BY <3>1 DEF Resting
  <2>3. ~Started(w) /\ ~NothingDue(w)
    BY <1>0 DEF Started, NothingDue, Rests, Goes, Resting
  <2> QED BY <2>1, <2>2, <2>3
<1>6. ~RecoverActiveRuns(w) /\ ~RecoverOwnership(w) /\ ~RecoverExpiredJobs(w)
  <2>1. ASSUME RecoverActiveRuns(w) PROVE FALSE
    <3>1. PICK t : n = [m EXCEPT !.pc = "rec_active", !.todo = t]
      BY <1>0, <2>1 DEF RecoverActiveRuns, Goes
    <3> QED BY <1>0, <3>1 DEF WorkerRow
  <2>2. ~RecoverOwnership(w) /\ ~RecoverExpiredJobs(w)
    BY <1>0 DEF RecoverOwnership, RecoverExpiredJobs, To, Goes, WorkerRow
  <2> QED BY <2>1, <2>2
<1> QED BY <1>1, <1>2, <1>3, <1>4, <1>5, <1>6 DEF Pool

LEMMA KeptMoves ==
    ASSUME LoopInv, LoopMove, [Next]_vars, \A v, w \in Workers : v = w, NEW w \in Workers
    PROVE  KeptMove(w)
<1> DEFINE m == worker[w] n == worker'[w]
<1> SUFFICES ASSUME n.pc \in {"repair", "claim"} PROVE KeptMove(w)
  BY DEF KeptMove
<1>0. m \in WorkerRow /\ worker \in [Workers -> WorkerRow]
  BY DEF LoopInv, WorkersOK
<1>1. m.pc \in Unclaimed
  <2>1. WorkerMove(w)
    BY DEF LoopMove
  <2> QED BY <2>1 DEF WorkerMove, Stays, Rested, Passes, Claimed, Preflights, Starts, Advances,
          Returns, Decides, Misses, Unclaimed, Recovering
<1>2. CASE Aside
  BY <1>2, AsideKeeps DEF KeptMove
<1>3. CASE Pool(w)
  BY <1>3, PoolKeeps
<1>4. ~Work(w)
  <2>1. ~(\/ PreflightContinues(w) \/ PreflightRejects(w) \/ PreflightHeadChanged(w)
          \/ PreflightCiPending(w) \/ PreflightSaves(w) \/ Replace(w))
    BY <1>1 DEF PreflightContinues, PreflightRejects, PreflightHeadChanged, PreflightCiPending,
       PreflightSaves, Replace, Unclaimed, Recovering
  <2>2. ~(\/ Begin(w) \/ SaveWarning(w) \/ Prepared(w) \/ SaveRunning(w) \/ SaveRunStatus(w)
          \/ StartTurn(w) \/ EndTurn(w) \/ FinishAttempt(w))
    BY <1>1 DEF Begin, SaveWarning, Prepared, SaveRunning, SaveRunStatus, StartTurn, EndTurn,
       FinishAttempt, Unclaimed, Recovering
  <2>3. ~(\/ Reload(w) \/ FinishOwned(w) \/ FinalSave(w) \/ PlainSave(w)
          \/ ReconcileFinds(w) \/ ReconcileMisses(w) \/ ReconcileSaves(w))
    BY <1>1 DEF Reload, FinishOwned, FinalSave, PlainSave, ReconcileFinds, ReconcileMisses,
       ReconcileSaves, Unclaimed, Recovering
  <2> QED BY <2>1, <2>2, <2>3 DEF Work
<1>5. Fail(w) => HeartbeatFails(w)
  <2>1. ~(\/ PreflightCancelled(w) \/ AttemptFails(w) \/ AttemptBreaks(w) \/ FinishFails(w)
          \/ FinishOwnedFails(w) \/ SaveFails(w) \/ ReconcileCancelled(w))
    BY <1>1 DEF PreflightCancelled, AttemptFails, AttemptBreaks, FinishFails, FinishOwnedFails,
       SaveFails, ReconcileCancelled, Preflight, Reconcile, Unclaimed, Recovering
  <2>2. ASSUME PassFails(w) \/ Crash(w) PROVE FALSE
    <3>1. Rests(w, "idle") \/ Rests(w, "off")
      BY <2>2 DEF PassFails, Crash
    <3> QED BY <1>0, <3>1 DEF Rests, Goes, Resting
  <2> QED BY <2>1, <2>2 DEF Fail
<1>6. ~Halt(w)
  <2>1. ~Stop(w)
    BY <1>0 DEF Stop, Goes, Resting
  <2>2. ASSUME CancelJobs(w) PROVE FALSE
    <3>1. PICK t : n = [m EXCEPT !.pc = "cancel_runs", !.todo = t]
      BY <1>0, <2>2 DEF CancelJobs, Goes
    <3> QED BY <1>0, <3>1 DEF WorkerRow
  <2>3. ASSUME CancelRun(w) PROVE FALSE
    <3>1. PICK t : n = [m EXCEPT !.todo = t]
      BY <1>0, <2>3 DEF CancelRun, Goes
    <3> QED BY <1>0, <2>3, <3>1 DEF WorkerRow, CancelRun
  <2>4. ~Stopped(w)
    BY <1>0 DEF Stopped, To, Goes, WorkerRow
  <2> QED BY <2>1, <2>2, <2>3, <2>4 DEF Halt
<1> QED BY <1>2, <1>3, <1>4, <1>5, <1>6 DEF Next, Aside

-----------------------------------------------------------------------------
\* A row that no producer writes anew.
Lasting(j) == job[j].status \notin {"absent", "failed"}

\* Where the job has been claimed and no Reviewer turn been started.
Young == {"preflight", "begin", "warning_save"}

\* The reviewer the repair keeps is the one of a job.
KeptOwned(w) ==
    worker[w].pc \in {"repair", "claim"} /\ worker[w].kept # 0 =>
        \E j \in JobIds : job[j].reviewer = worker[w].kept /\ Lasting(j)

\* The repair left no turn but that of the reviewer it keeps.
KeptTurn(w) ==
    worker[w].pc = "claim" /\ agent[w].step # "none" => agent[w].reviewer = worker[w].kept

\* A turn of the claimed job can only be left when the job has a reviewer.
YoungTurn(w) ==
    worker[w].pc \in Young =>
        /\ Lasting(worker[w].j)
        /\ agent[w].step # "none" /\ agent[w].j = worker[w].j => job[worker[w].j].reviewer # 0

\* The only save of the status "preparing" is that of the first warning, whose
\* job has no reviewer and no intent.
Warned(w) ==
    LET m == worker[w]
    IN /\ m.pc = "warning_save" =>
             /\ m.copy.status = "preparing" /\ m.copy.reviewer = 0 /\ ~m.copy.intent
             /\ job[m.j].reviewer = 0 /\ ~job[m.j].intent
       /\ m.pc \in SavePcs /\ m.copy.status = "preparing" => m.pc = "warning_save"

Unsubmitted == \A j \in JobIds : job[j].status = "preparing" => ~job[j].intent

FirstAttempts ==
    /\ Unsubmitted
    /\ \A w \in Workers : KeptOwned(w) /\ KeptTurn(w) /\ YoungTurn(w) /\ Warned(w)

LEMMA RowLasts ==
    ASSUME NEW j \in JobIds, RowMove(j), Lasting(j), \A w \in Workers : ~Saves(j, w)
    PROVE  job'[j].reviewer = job[j].reviewer /\ job'[j].status \notin {"absent", "failed"}
BY DEF RowMove, Keeps, Drops, Creates, Requeues, Releases, Recovers, Frees, Prunes, Claims,
   Counts, Skips, Intends, Doubts, Succeeds, SameRow, SameHands, Lasting

LEMMA KeptOwnedStep ==
    ASSUME LoopMove, \A v, w \in Workers : v = w, NEW w \in Workers, KeptMove(w), KeptOwned(w)
    PROVE  KeptOwned(w)'
<1> DEFINE m == worker[w] n == worker'[w]
<1> SUFFICES ASSUME n.pc \in {"repair", "claim"}, n.kept # 0
             PROVE  \E j \in JobIds : job'[j].reviewer = n.kept
                                      /\ job'[j].status \notin {"absent", "failed"}
  BY DEF KeptOwned, Lasting
<1>1. CASE m.pc \in {"repair", "claim"} /\ n.kept = m.kept
  <2>1. PICK j \in JobIds : job[j].reviewer = m.kept /\ Lasting(j)
    BY <1>1 DEF KeptOwned
  <2>2. \A v \in Workers : ~Saves(j, v)
    BY <1>1 DEF Saves, SavePcs, Stamped
  <2>3. RowMove(j)
    BY DEF LoopMove, Moves
  <2> QED BY <1>1, <2>1, <2>2, <2>3, RowLasts
<1>2. CASE n.kept \in OwnedReviewers /\ job' = job
  BY <1>2 DEF OwnedReviewers, Active, Executing
<1> QED BY <1>1, <1>2 DEF KeptMove

LEMMA KeptTurnStep ==
    ASSUME NEW w \in Workers, KeptMove(w), TurnHands(w), KeptTurn(w)
    PROVE  KeptTurn(w)'
BY DEF KeptTurn, KeptMove, TurnHands

\* A turn that is left when its job is claimed is of the reviewer of the job.
LEMMA ClaimedTurn ==
    ASSUME Lineage, NEW w \in Workers, KeptOwned(w), KeptTurn(w), TurnHands(w),
           NEW j \in JobIds, Claims(j, w), agent'[w].step # "none", agent'[w].j = j
    PROVE  job[j].reviewer # 0
<1>1. worker[w].pc = "claim"
  BY DEF Claims
<1>2. agent[w].step # "none" /\ agent[w].j = j
  BY <1>1 DEF TurnHands
<1>3. agent[w].reviewer = worker[w].kept /\ agent[w].reviewer # 0
      /\ Serves(run, agent[w].reviewer, j)
  BY <1>1, <1>2 DEF KeptTurn, Lineage, TurnsServe
<1>4. PICK i \in JobIds : job[i].reviewer = worker[w].kept
  BY <1>1, <1>3 DEF KeptOwned
<1>5. Serves(run, worker[w].kept, i)
  BY <1>4 DEF Lineage, RowsServe
<1> QED BY <1>3, <1>4, <1>5 DEF Serves

LEMMA YoungTurnStep ==
    ASSUME LoopInv, LoopMove, Lineage, FirstAttempts, \A v, w \in Workers : v = w,
           NEW w \in Workers, TurnHands(w)
    PROVE  YoungTurn(w)'
<1> DEFINE m == worker[w] n == worker'[w]
<1> SUFFICES ASSUME n.pc \in Young
             PROVE  /\ job'[n.j].status \notin {"absent", "failed"}
                    /\ agent'[w].step # "none" /\ agent'[w].j = n.j => job'[n.j].reviewer # 0
  BY DEF YoungTurn, Lasting
<1>1. YoungTurn(w) /\ Warned(w) /\ KeptOwned(w) /\ KeptTurn(w) /\ WorkerMove(w) /\ WorkerOK(m)
  BY DEF FirstAttempts, LoopMove, LoopInv, WorkersOK
<1>2. CASE Claimed(w)
  <2>1. PICK j \in JobIds : Claims(j, w) /\ n.j = j
    BY <1>2 DEF Claimed
  <2>2. job'[j].reviewer = job[j].reviewer /\ job'[j].status \in {"reconciling", "preparing"}
    BY <2>1 DEF Claims, SameHands
  <2> QED BY <1>1, <2>1, <2>2, ClaimedTurn
<1>3. CASE m.pc \in Young /\ n.j = m.j
  <2>1. m.j \in JobIds
    BY <1>1, <1>3 DEF WorkerOK, Young, Unclaimed, Recovering
  <2>2. job'[m.j].reviewer = job[m.j].reviewer /\ job'[m.j].status \notin {"absent", "failed"}
    <3>1. RowMove(m.j) /\ Lasting(m.j)
      BY <1>1, <1>3, <2>1 DEF LoopMove, Moves, YoungTurn
    <3>2. CASE \A v \in Workers : ~Saves(m.j, v)
      BY <2>1, <3>1, <3>2, RowLasts
    <3>3. ASSUME NEW v \in Workers, Saves(m.j, v)
          PROVE  job'[m.j].reviewer = job[m.j].reviewer /\ job'[m.j].status = "preparing"
      <4>1. v = w
        OBVIOUS
      <4>2. Saves(m.j, w) /\ m.pc = "warning_save"
        BY <1>3, <3>3, <4>1 DEF Saves, SavePcs, Stamped, Young
      <4> QED BY <1>1, <4>2 DEF Saves, SameRow, Warned
    <3> QED BY <3>2, <3>3
  <2>3. ASSUME agent'[w].step # "none", agent'[w].j = n.j PROVE job[m.j].reviewer # 0
    <3>1. agent[w].step # "none" /\ agent[w].j = m.j
      BY <1>3, <2>3 DEF TurnHands, Young
    <3> QED BY <1>1, <1>3, <3>1 DEF YoungTurn
  <2> QED BY <1>3, <2>2, <2>3
<1>4. CASE Stays(w) \/ Preflights(w) \/ Starts(w)
  BY <1>3, <1>4 DEF Stays, Preflights, Starts, Begins, Young
<1>5. ~(Rested(w) \/ Passes(w) \/ Advances(w) \/ Returns(w) \/ Decides(w) \/ Misses(w))
  BY DEF Rested, Passes, Advances, Returns, Decides, Misses, Young, Unclaimed, Recovering
<1> QED BY <1>1, <1>2, <1>4, <1>5 DEF WorkerMove

LEMMA WarnedStep ==
    ASSUME LoopInv, LoopMove, FirstAttempts, \A v, w \in Workers : v = w,
           NEW w \in Workers, Adopts(w)
    PROVE  Warned(w)'
<1> DEFINE m == worker[w] n == worker'[w]
<1>1. YoungTurn(w) /\ Warned(w) /\ WorkerMove(w) /\ WorkerOK(m)
  BY DEF FirstAttempts, LoopMove, LoopInv, WorkersOK
<1>2. ASSUME n.pc \in SavePcs, n.copy.status = "preparing" PROVE n.pc = "warning_save"
  BY <1>1, <1>2 DEF WorkerMove, Stays, Rested, Passes, Claimed, Preflights, Starts, Advances,
     Returns, Decides, Misses, Settled, Doubted, SameRow, Warned, SavePcs, Stamped, Unclaimed,
     Recovering, Terminal
<1>3. ASSUME n.pc = "warning_save"
      PROVE  /\ n.copy.status = "preparing" /\ n.copy.reviewer = 0 /\ ~n.copy.intent
             /\ job'[n.j].reviewer = 0 /\ ~job'[n.j].intent
  <2>1. Stays(w) \/ Starts(w)
    BY <1>1, <1>3 DEF WorkerMove, Rested, Passes, Claimed, Preflights, Advances, Returns, Decides,
       Misses, Unclaimed, Recovering
  <2>2. CASE Stays(w)
    <3>1. m.pc = "warning_save" /\ n.j = m.j /\ n.copy = m.copy
      BY <1>3, <2>2 DEF Stays
    <3>2. m.j \in JobIds /\ Lasting(m.j)
      BY <1>1, <3>1 DEF WorkerOK, Unclaimed, Recovering, YoungTurn, Young
    <3>3. /\ m.copy.status = "preparing" /\ m.copy.reviewer = 0 /\ ~m.copy.intent
          /\ job[m.j].reviewer = 0 /\ ~job[m.j].intent
      BY <1>1, <3>1 DEF Warned
    <3>4. ~(agent[w].step # "none" /\ agent[w].j = m.j)
      BY <1>1, <3>1, <3>3 DEF YoungTurn, Young
    <3>5. ASSUME NEW v \in Workers PROVE ~Intends(m.j, v) /\ ~Succeeds(m.j, v)
      <4>1. v = w
        OBVIOUS
      <4> QED BY <3>1, <3>4, <4>1 DEF Intends, Succeeds
    <3>6. RowMove(m.j)
      BY <3>2 DEF LoopMove, Moves
    <3>7. CASE \A v \in Workers : ~Saves(m.j, v)
      <4>1. job'[m.j].reviewer = 0
        BY <3>2, <3>3, <3>6, <3>7, RowLasts
      <4>2. job'[m.j].intent = job[m.j].intent \/ ~job'[m.j].intent
        BY <3>5, <3>6, <3>7 DEF RowMove, Keeps, Drops, Creates, Requeues, Queued, Releases, Recovers,
           Frees, Prunes, Claims, Counts, Skips, Doubts, SameRow, SameJob
      <4> QED BY <3>1, <3>3, <4>1, <4>2
    <3>8. ASSUME NEW v \in Workers, Saves(m.j, v) PROVE job'[m.j].reviewer = 0 /\ ~job'[m.j].intent
      <4>1. v = w
        OBVIOUS
      <4> QED BY <3>3, <3>8, <4>1 DEF Saves, SameRow, SameJob
    <3> QED BY <3>1, <3>3, <3>7, <3>8
  <2>3. CASE Starts(w)
    <3>1. m.pc = "begin" /\ n.j = m.j /\ CanBegin(m.j, w)
      BY <2>3 DEF Starts, Begins
    <3>2. m.j \in JobIds /\ job[m.j].reviewer = 0
      BY <1>1, <1>3, <3>1 DEF WorkerOK, Unclaimed, Recovering, Adopts
    <3>3. ~job[m.j].intent
      BY <3>1, <3>2 DEF CanBegin, FirstAttempts, Unsubmitted
    <3>4. /\ n.copy.status = "preparing" /\ n.copy.reviewer = job[m.j].reviewer
          /\ n.copy.intent = job[m.j].intent /\ (Counts(m.j, w) \/ job' = job)
      BY <2>3 DEF Starts
    <3>5. job'[m.j].reviewer = job[m.j].reviewer /\ job'[m.j].intent = job[m.j].intent
      BY <3>4 DEF Counts
    <3> QED BY <3>1, <3>2, <3>3, <3>4, <3>5
  <2> QED BY <2>1, <2>2, <2>3
<1> QED BY <1>2, <1>3 DEF Warned

\* Who writes the status "preparing" over a row: the claim of a job without
\* intent, the attempt that begins, or the save of the first warning.
LEMMA PreparingMove ==
    ASSUME LoopMove, FirstAttempts, NEW j \in JobIds, job'[j].status = "preparing"
    PROVE  \/ job[j].status = "preparing" /\ job'[j].intent = job[j].intent
           \/ ~job[j].intent /\ ~job'[j].intent
<1>1. RowMove(j)
  BY DEF LoopMove, Moves
<1>2. ASSUME NEW w \in Workers, Saves(j, w) PROVE ~job[j].intent /\ ~job'[j].intent
  <2>1. Warned(w)
    BY DEF FirstAttempts
  <2>2. worker[w].pc = "warning_save" /\ worker[w].j = j
    BY <1>2, <2>1 DEF Saves, SameRow, Warned
  <2> QED BY <1>2, <2>1, <2>2 DEF Saves, SameRow, SameJob, Warned
<1>3. ASSUME NEW w \in Workers, Claims(j, w) PROVE ~job[j].intent /\ ~job'[j].intent
  <2>1. ~job[j].intent /\ job'[j].intent = job[j].intent
    BY <1>3 DEF Claims, SameJob
  <2> QED BY <2>1
<1>4. ASSUME NEW w \in Workers, Counts(j, w)
      PROVE  job[j].status = "preparing" /\ job'[j].intent = job[j].intent
  BY <1>4 DEF Counts, Begins, CanBegin
<1>5. CASE Keeps(j)
  BY <1>5 DEF Keeps, SameRow, SameJob
<1>6. ~(\/ Drops(j) \/ Creates(j) \/ Requeues(j) \/ Releases(j) \/ Recovers(j) \/ Prunes(j)
        \/ \E w \in Workers : Skips(j, w) \/ Intends(j, w) \/ Doubts(j, w) \/ Succeeds(j, w))
  BY DEF Drops, Creates, Requeues, Queued, Releases, Recovers, Prunes, Skips, Intends, Doubts,
     Succeeds, Terminal
<1> QED BY <1>1, <1>2, <1>3, <1>4, <1>5, <1>6 DEF RowMove

LEMMA FirstAttemptsInit == Init => FirstAttempts
<1> SUFFICES ASSUME Init PROVE FirstAttempts
  OBVIOUS
<1>1. \A j \in JobIds : job[j].status = "absent"
  BY DEF Init, TablesInit, NewJob
<1>2. \A w \in Workers : worker[w].pc = "off"
  BY DEF Init, Resting
<1> QED BY <1>1, <1>2 DEF FirstAttempts, Unsubmitted, KeptOwned, KeptTurn, YoungTurn, Warned, Young,
        SavePcs, Stamped

LEMMA FirstAttemptsStep ==
    ASSUME LoopInv, LoopMove, [Next]_vars, Lineage, FirstAttempts, \A v, w \in Workers : v = w
    PROVE  FirstAttempts'
<1>1. \A j \in JobIds : job'[j].status = "preparing" => ~job'[j].intent
  BY PreparingMove DEF FirstAttempts, Unsubmitted
<1>2. ASSUME NEW w \in Workers
      PROVE  KeptOwned(w)' /\ KeptTurn(w)' /\ YoungTurn(w)' /\ Warned(w)'
  <2>1. KeptMove(w) /\ TurnHands(w) /\ Adopts(w)
    BY KeptMoves, TurnsHand, ChosenReviewers
  <2>2. KeptOwned(w) /\ KeptTurn(w)
    BY DEF FirstAttempts
  <2>3. KeptOwned(w)' /\ KeptTurn(w)'
    BY <2>1, <2>2, KeptOwnedStep, KeptTurnStep
  <2>4. YoungTurn(w)' /\ Warned(w)'
    BY <2>1, YoungTurnStep, WarnedStep
  <2> QED BY <2>3, <2>4
<1> QED BY <1>1, <1>2 DEF FirstAttempts, Unsubmitted

\* With one server instance, a submission in doubt never sends its job back to
\* a fresh attempt.
THEOREM NoAttemptTwice ==
    ASSUME \A v, w \in Workers : v = w
    PROVE  Spec => NoSecondAttempt
<1> DEFINE Inv == LoopInv /\ Lineage /\ FirstAttempts
           Step == \A j \in JobIds :
              job[j].intent /\ ~job[j].receipt /\ job'[j].status = "preparing"
              => job[j].status = "preparing"
<1>1. Init => Inv
  BY LoopInvInit, LineageInit, FirstAttemptsInit
<1>2. Inv /\ [Next]_vars => LoopInv' /\ LoopMove
  BY LoopInvStep, LoopMoves
<1>3. Inv /\ [Next]_vars => Inv'
  BY <1>2, LineageStep, FirstAttemptsStep
<1>4. Inv /\ [Next]_vars => [Step]_vars
  BY <1>2, PreparingMove
<1> QED BY <1>1, <1>3, <1>4, PTL DEF Spec, NoSecondAttempt
=============================================================================
