------------------------- MODULE ProjectLifeProofs --------------------------
(***************************************************************************)
(* For any number of callers, calls and faults of any kind: a deletion is  *)
(* never taken back, and a project the store calls ready is whole.         *)
(***************************************************************************)
EXTENDS ProjectLife, TLAPS

-----------------------------------------------------------------------------
\* The inductive invariant.

\* The row may be shown as ready, or in creation.
Live == row \in Projects /\ row.status # "Deleting"

Whole == maintainer = "prepared" /\ volumes = Volumes /\ cloned

Quiet == call = [u \in Users |-> NoCall] /\ note = None

\* The row, or a summary that may become the row, says ready.
SomebodyReady == \/ IsReady(row) \/ IsReady(memory) \/ IsReady(note)
                 \/ \E u \in Users : IsReady(call[u].copy)

\* Nobody acts on a project that is not listed yet or whose server is down.
BornOK == /\ creation \in {"unasked", "row"} => row = None
          /\ row = None => memory = None /\ Quiet /\ cloner = Idle
          /\ creation = "listing" => In(row, "Creating") /\ memory = None /\ Quiet /\ cloner = Idle
          /\ creation \in {"row", "listing"} => server = "up"
          /\ server # "up" => Quiet
          /\ server = "down" => memory = None /\ cloner = Idle

\* A copy about to be saved is a project; who deletes has marked the row.
CallsOK == \A u \in Users :
             /\ call[u].pc \in {"saving", "stopped"} => call[u].copy \in Projects
             /\ call[u].pc \in {"agents", "volumes", "row", "forgetting"} => ~Live /\ row # None

\* What the clone is about to write.
ClonerOK == /\ cloner.pc \notin {"reporting", "saving", "publishing"} => cloner.goal = "Cloning"
            /\ IsReady(cloner.copy) => cloner.goal = "Ready"
            /\ cloner.pc = "saving" => cloner.copy \in Projects

\* Nobody says ready while the clone is still being made; what the clone has
\* made stays, unless the project is deleted.
WholeOK == Live =>
             /\ SomebodyReady \/ cloner.goal = "Ready" => Whole
             /\ cloner.pc # "none" /\ cloner.goal # "Ready" => ~SomebodyReady
             /\ cloner.pc \in {"fetching", "agent", "workspace", "cloning", "preparing"}
                  => "cache" \in volumes
             /\ cloner.pc \in {"cloning", "preparing"} => "workspace" \in volumes
             /\ cloner.pc = "preparing" => cloned

LifeInv == LifeTypeOK /\ BornOK /\ CallsOK /\ ClonerOK /\ WholeOK

-----------------------------------------------------------------------------
\* Projects and the records that hold one.

LEMMA Autos ==
    ASSUME NEW p \in Projects, NEW b \in BOOLEAN
    PROVE  /\ [p EXCEPT !.auto = b] \in Projects
           /\ IsReady([p EXCEPT !.auto = b]) <=> IsReady(p)
  BY DEF Projects, IsReady, In

LEMMA Statuses ==
    ASSUME NEW p \in Projects
    PROVE  /\ [p EXCEPT !.status = "Deleting"] \in Projects
           /\ In([p EXCEPT !.status = "Deleting"], "Deleting")
           /\ ~IsReady([p EXCEPT !.status = "Deleting"])
           /\ [p EXCEPT !.status = "Failed", !.error = "cancelled"] \in Projects
           /\ ~IsReady([p EXCEPT !.status = "Failed", !.error = "cancelled"])
  BY DEF Projects, IsReady, In

LEMMA Outcomes ==
    ASSUME NEW p \in Projects, NEW g \in Goals, NEW q \in Outcome(p, g)
    PROVE  q \in Projects /\ (IsReady(q) => g = "Ready")
<1>1. CASE g = "Cloning"
  BY <1>1 DEF Outcome, Projects, IsReady, In
<1>2. CASE g = "Ready"
  BY <1>2 DEF Outcome, Projects, IsReady, In
<1>3. CASE g \in {"Failed", "Unprepared"}
  <2>1. g # "Cloning" /\ g # "Ready"
    BY <1>3
  <2>2. Outcome(p, g) = {[p EXCEPT !.status = "Failed", !.clone = "Failed", !.error = e] :
                           e \in {"recoverable", "other"}}
    BY <2>1 DEF Outcome
  <2>3. PICK e \in {"recoverable", "other"} :
          q = [p EXCEPT !.status = "Failed", !.clone = "Failed", !.error = e]
    BY <2>2
  <2> QED
    BY <2>3 DEF Projects, IsReady, In
<1> QED
  BY <1>1, <1>2, <1>3 DEF Goals

LEMMA NobodyIsAProject == None \notin Projects /\ Gone \notin Projects /\ None # Gone
  BY LifeAssumption

-----------------------------------------------------------------------------
LEMMA InitInv == Init => LifeInv
<1> SUFFICES ASSUME Init PROVE LifeInv
  OBVIOUS
<1>1. Idle \in Cloners
  BY DEF Idle, Cloners, Goals
<1>2. NoCall \in Calls
  BY DEF NoCall, Calls
<1>3. LifeTypeOK
  <2>1. call \in [Users -> Calls]
    BY <1>2 DEF Init
  <2>2. calls \in 0 .. MaxCalls /\ troubles \in 0 .. MaxTroubles
    BY LifeAssumption DEF Init
  <2>3. volumes \subseteq Volumes
    BY DEF Init
  <2> QED
    BY <1>1, <2>1, <2>2, <2>3 DEF Init, LifeTypeOK
<1>4. BornOK /\ CallsOK /\ ClonerOK /\ WholeOK
  BY NobodyIsAProject
  DEF Init, BornOK, CallsOK, ClonerOK, WholeOK, Live, Quiet, Idle, NoCall, IsReady, In
<1> QED
  BY <1>3, <1>4 DEF LifeInv

-----------------------------------------------------------------------------
\* What the operators the actions share do.

LEMMA Writes ==
    ASSUME NEW p \in Projects, Write(p)
    PROVE  /\ row' = row \/ (row \in Projects /\ row' = p)
           /\ row \in Projects \cup {None, Gone} => row' \in Projects \cup {None, Gone}
           /\ row = Gone => row' = Gone
           /\ row' = None <=> row = None
           /\ In(row, "Deleting") => In(row', "Deleting")
           /\ Live' => Live
  BY NobodyIsAProject DEF Write, Accepts, In, Live

LEMMA Returns ==
    ASSUME LifeTypeOK, NEW ok \in BOOLEAN, Return(ok)
    PROVE  /\ cloner' = Idle /\ cloner' \in Cloners
           /\ memory' = memory \/ memory' = None
           /\ memory' \in Projects \cup {None}
           /\ server' \in {"up", "starting", "down"}
           /\ server' = "down" => memory' = None \/ server = "down"
           /\ server' # "up" => server # "up"
           /\ server = "down" => UNCHANGED <<server, memory>>
           /\ memory' # memory => server # "up"
  BY DEF Return, LifeTypeOK, Idle, Cloners, Goals

LEMMA Troubles ==
    ASSUME LifeTypeOK, NEW fault, Trouble(fault)
    PROVE  troubles' \in 0 .. MaxTroubles
  BY LifeAssumption DEF LifeTypeOK, Trouble

LEMMA Admissions ==
    ASSUME LifeTypeOK, NEW kind, Admitted(kind)
    PROVE  calls' \in 0 .. MaxCalls /\ memory \in Projects /\ server = "up"
  BY LifeAssumption DEF LifeTypeOK, Admitted

LEMMA Reports ==
    ASSUME NEW g \in Goals
    PROVE  Report(g) \in Cloners /\ Idle \in Cloners
  BY DEF Report, Idle, Cloners, Goals

-----------------------------------------------------------------------------
\* Types.

LEMMA CreationTypes == LifeTypeOK /\ BornOK /\ (Creation \/ CreateFails) => LifeTypeOK'
<1> SUFFICES ASSUME LifeTypeOK, BornOK, Creation \/ CreateFails PROVE LifeTypeOK'
  OBVIOUS
<1>1. CASE CreateMaintainer
  BY <1>1 DEF CreateMaintainer, others, LifeTypeOK
<1>2. CASE InsertRow
  BY <1>2 DEF InsertRow, resources, others, LifeTypeOK, Projects
<1>3. CASE ListProject
  <2>1. Report("Cloning") \in Cloners
    BY Reports DEF Goals
  <2>2. row \in Projects
    BY <1>3 DEF ListProject, BornOK, In
  <2> QED
    BY <1>3, <2>1, <2>2 DEF ListProject, resources, others, LifeTypeOK
<1>4. CASE CreateFails
  BY <1>4, Troubles DEF CreateFails, resources, others, LifeTypeOK
<1> QED
  BY <1>1, <1>2, <1>3, <1>4 DEF Creation

LEMMA ClonerFields ==
    ASSUME NEW c \in Cloners, NEW q \in Projects,
           NEW pc \in {"none", "reporting", "saving", "publishing", "looking", "cache", "repository",
                       "fetching", "agent", "workspace", "cloning", "preparing"}
    PROVE  /\ [c EXCEPT !.pc = pc] \in Cloners
           /\ [c EXCEPT !.pc = pc, !.copy = q] \in Cloners
           /\ c.goal \in Goals /\ c.copy \in Projects \cup {None}
  BY DEF Cloners

LEMMA CloningTypes == LifeTypeOK /\ ClonerOK /\ Cloning => LifeTypeOK'
<1> SUFFICES ASSUME LifeTypeOK, ClonerOK, Cloning PROVE LifeTypeOK'
  OBVIOUS
<1> cloner \in Cloners
  BY DEF LifeTypeOK
<1>1. CASE CopySummary
  <2>1. CASE memory = None \/ In(memory, "Deleting")
    BY <1>1, <2>1, Returns DEF CopySummary, resources, others, LifeTypeOK
  <2>2. CASE ~(memory = None \/ In(memory, "Deleting"))
    <3>1. PICK p \in Outcome(memory, cloner.goal) :
            cloner' = [cloner EXCEPT !.pc = "saving", !.copy = p]
      BY <1>1, <2>2 DEF CopySummary
    <3>2. memory \in Projects /\ cloner.goal \in Goals
      BY <2>2, ClonerFields DEF LifeTypeOK, Cloners
    <3>3. p \in Projects
      BY <3>2, Outcomes
    <3>4. cloner' \in Cloners
      BY <3>1, <3>3, ClonerFields
    <3> QED
      BY <1>1, <2>2, <3>4 DEF CopySummary, resources, others, LifeTypeOK
  <2> QED
    BY <2>1, <2>2
<1>2. CASE SaveResult
  <2>1. cloner.copy \in Projects
    BY <1>2 DEF SaveResult, At, ClonerOK
  <2>2. row' \in Projects \cup {None, Gone}
    BY <1>2, <2>1, Writes DEF SaveResult, LifeTypeOK
  <2>3. cloner' \in Cloners /\ server' \in {"up", "starting", "down"} /\ memory' \in Projects \cup {None}
    BY <1>2, <2>1, Returns, ClonerFields DEF SaveResult, Goto, LifeTypeOK
  <2> QED
    BY <1>2, <2>2, <2>3 DEF SaveResult, resources, others, LifeTypeOK
<1>3. CASE PublishResult
  <2>1. cloner.copy \in Projects \cup {None}
    BY DEF Cloners
  <2>2. [cloner EXCEPT !.pc = "looking"] \in Cloners /\ Idle \in Cloners
    BY Reports DEF Cloners, Goals
  <2> QED
    BY <1>3, <2>1, <2>2 DEF PublishResult, Goto, resources, others, LifeTypeOK
<1>4. CASE Look \/ FindRepository \/ FindMaintainer
  <2>1. cloner' \in Cloners
    <3>1. Report("Failed") \in Cloners
      BY Reports DEF Goals
    <3>2. [cloner EXCEPT !.pc = "cache"] \in Cloners /\ [cloner EXCEPT !.pc = "fetching"] \in Cloners
          /\ [cloner EXCEPT !.pc = "workspace"] \in Cloners
      BY DEF Cloners
    <3> QED
      BY <1>4, <3>1, <3>2 DEF Look, FindRepository, FindMaintainer
  <2> QED
    BY <1>4, <2>1 DEF Look, FindRepository, FindMaintainer, resources, others, LifeTypeOK, Volumes
<1>5. CASE EnsureCache \/ Fetch \/ EnsureWorkspace \/ Clone
  <2>1. cloner' \in Cloners
    BY <1>5 DEF EnsureCache, Fetch, EnsureWorkspace, Clone, Goto, Cloners
  <2> QED
    BY <1>5, <2>1
    DEF EnsureCache, Fetch, EnsureWorkspace, Clone, Goto, resources, others, LifeTypeOK, Volumes
<1>6. CASE Prepare
  <2>1. Report("Ready") \in Cloners
    BY Reports DEF Goals
  <2>2. CASE maintainer = "none"
    BY <1>6, <2>2, Returns DEF Prepare, others, LifeTypeOK
  <2>3. CASE maintainer # "none"
    BY <1>6, <2>1, <2>3 DEF Prepare, others, LifeTypeOK
  <2> QED
    BY <2>2, <2>3
<1> QED
  BY <1>1, <1>2, <1>3, <1>4, <1>5, <1>6 DEF Cloning

LEMMA CloningFailsTypes == LifeTypeOK /\ CloningFails => LifeTypeOK'
<1> SUFFICES ASSUME LifeTypeOK, CloningFails PROVE LifeTypeOK'
  OBVIOUS
<1> Report("Failed") \in Cloners /\ Report("Unprepared") \in Cloners
  BY Reports DEF Goals
<1>1. CASE SaveFails
  BY <1>1, Returns, Troubles DEF SaveFails, resources, others, LifeTypeOK
<1>2. CASE CloneFails
  BY <1>2, Troubles DEF CloneFails, resources, others, LifeTypeOK
<1>3. CASE PrepareFails
  BY <1>3, Troubles DEF PrepareFails, resources, others, LifeTypeOK
<1> QED
  BY <1>1, <1>2, <1>3 DEF CloningFails

Pcs == {"none", "saving", "stopping", "stopped", "cancelling", "marking",
        "agents", "volumes", "row", "forgetting"}

LEMMA CallEnds ==
    ASSUME LifeTypeOK, NEW u \in Users, Ends(u)
    PROVE  /\ call' \in [Users -> Calls] /\ call'[u] = NoCall
           /\ \A v \in Users \ {u} : call'[v] = call[v]
<1> call \in [Users -> Calls] /\ NoCall \in Calls
  BY DEF LifeTypeOK, Calls, NoCall
<1> QED
  BY DEF Ends

LEMMA CallSteps ==
    ASSUME LifeTypeOK, NEW u \in Users, NEW pc \in Pcs, Step(u, pc)
    PROVE  /\ call' \in [Users -> Calls]
           /\ call'[u].pc = pc /\ call'[u].copy = call[u].copy
           /\ \A v \in Users \ {u} : call'[v] = call[v]
<1> call \in [Users -> Calls]
  BY DEF LifeTypeOK
<1>1. [call[u] EXCEPT !.pc = pc] \in Calls
  BY DEF Calls, Pcs
<1>2. call[u] \in Calls
  OBVIOUS
<1>3. call'[u] = [call[u] EXCEPT !.pc = pc]
  BY DEF Step
<1>4. call'[u].pc = pc /\ call'[u].copy = call[u].copy
  BY <1>2, <1>3 DEF Calls
<1> QED
  BY <1>1, <1>4 DEF Step

LEMMA CallCopies ==
    ASSUME LifeTypeOK, NEW u \in Users, NEW pc \in Pcs, NEW q \in Projects \cup {None}
    PROVE  /\ [call EXCEPT ![u].pc = pc, ![u].copy = q] \in [Users -> Calls]
           /\ [call EXCEPT ![u] = [NoCall EXCEPT !.pc = pc, !.copy = q]] \in [Users -> Calls]
<1> call \in [Users -> Calls]
  BY DEF LifeTypeOK
<1>1. [call[u] EXCEPT !.pc = pc, !.copy = q] \in Calls
  BY DEF Calls, Pcs
<1>2. [NoCall EXCEPT !.pc = pc, !.copy = q] \in Calls
  BY DEF Calls, Pcs, NoCall
<1> QED
  BY <1>1, <1>2

LEMMA CallBegins ==
    ASSUME LifeTypeOK, NEW u \in Users, NEW kind \in {"update", "cancel", "delete"}
    PROVE  [call EXCEPT ![u] = [NoCall EXCEPT !.pc = "stopping", !.kind = kind]] \in [Users -> Calls]
<1>1. [NoCall EXCEPT !.pc = "stopping", !.kind = kind] \in Calls
  BY LifeAssumption DEF Calls, NoCall
<1> QED
  BY <1>1 DEF LifeTypeOK

LEMMA UserTypes ==
    ASSUME LifeTypeOK, CallsOK, NEW u \in Users,
           \/ Update(u) \/ (\E kind \in Kinds : Ask(u, kind)) \/ Goes(u) \/ SaveCopyFails(u)
    PROVE  LifeTypeOK'
<1>0. /\ "none" \in Pcs /\ "saving" \in Pcs /\ "stopping" \in Pcs /\ "stopped" \in Pcs
      /\ "cancelling" \in Pcs /\ "marking" \in Pcs /\ "agents" \in Pcs /\ "volumes" \in Pcs
      /\ "row" \in Pcs /\ "forgetting" \in Pcs
  BY DEF Pcs
<1>1. CASE Update(u)
  <2>1. memory' \in Projects
    BY <1>1, Admissions, Autos DEF Update
  <2>2. call' \in [Users -> Calls]
    BY <1>0, <1>1, <2>1, CallCopies DEF Update
  <2> QED
    BY <1>1, <2>1, <2>2, Admissions DEF Update, resources, others, LifeTypeOK
<1>2. CASE \E kind \in Kinds : Ask(u, kind)
  <2>1. PICK kind \in {"cancel", "delete"} : Ask(u, kind)
    BY <1>2 DEF Ask
  <2>2. call' \in [Users -> Calls]
    BY <1>0, <2>1, CallBegins DEF Ask
  <2> QED
    BY <2>1, <2>2, Admissions DEF Ask, resources, others, LifeTypeOK
<1>3. CASE SaveCopy(u)
  <2>1. row' \in Projects \cup {None, Gone}
    BY <1>3, Writes DEF SaveCopy, CallsOK, LifeTypeOK
  <2>2. call' \in [Users -> Calls]
    BY <1>0, <1>3, CallEnds, CallSteps DEF SaveCopy
  <2> QED
    BY <1>3, <2>1, <2>2 DEF SaveCopy, resources, others, LifeTypeOK
<1>4. CASE SaveCopyFails(u)
  BY <1>4, CallEnds, Troubles DEF SaveCopyFails, resources, others, LifeTypeOK
<1>5. CASE StopLoop(u)
  <2>1. AfterStop(call[u].kind) \in Pcs
    BY DEF AfterStop, Pcs
  <2>2. memory' \in Projects \cup {None}
    BY <1>5, Autos DEF StopLoop, LifeTypeOK
  <2>3. [call EXCEPT ![u].pc = "stopped", ![u].copy = memory'] \in [Users -> Calls]
    BY <1>0, <2>2, CallCopies
  <2>4. call' \in [Users -> Calls]
    BY <1>5, <2>1, <2>3, CallSteps DEF StopLoop
  <2> QED
    BY <1>5, <2>2, <2>4 DEF StopLoop, resources, others, LifeTypeOK
<1>6. CASE SaveStopped(u)
  <2>1. AfterStop(call[u].kind) \in Pcs
    BY DEF AfterStop, Pcs
  <2>2. row' \in Projects \cup {None, Gone}
    BY <1>6, Writes DEF SaveStopped, CallsOK, LifeTypeOK
  <2>3. troubles' \in 0 .. MaxTroubles
    BY <1>6, Troubles DEF SaveStopped, LifeTypeOK
  <2>4. call' \in [Users -> Calls]
    BY <1>6, <2>1, CallSteps DEF SaveStopped
  <2> QED
    BY <1>6, <2>2, <2>3, <2>4 DEF SaveStopped, resources, others, LifeTypeOK
<1>7. CASE Cancel(u)
  <2>1. memory' \in Projects \cup {None}
    BY <1>7, Statuses DEF Cancel, LifeTypeOK
  <2>2. [call EXCEPT ![u].pc = "saving", ![u].copy = memory'] \in [Users -> Calls]
    BY <1>0, <2>1, CallCopies
  <2>3. call' \in [Users -> Calls]
    BY <1>7, <2>2, CallEnds DEF Cancel
  <2> QED
    BY <1>7, <2>1, <2>3 DEF Cancel, resources, others, LifeTypeOK
<1>8. CASE MarkDeleting(u)
  <2>1. memory' \in Projects \cup {None}
    BY <1>8, Statuses DEF MarkDeleting, LifeTypeOK
  <2>2. row' \in Projects \cup {None, Gone}
    BY <1>8, <2>1 DEF MarkDeleting, LifeTypeOK
  <2>3. troubles' \in 0 .. MaxTroubles
    BY <1>8, Troubles DEF MarkDeleting, LifeTypeOK
  <2>4. call' \in [Users -> Calls]
    BY <1>0, <1>8, CallEnds, CallSteps DEF MarkDeleting
  <2> QED
    BY <1>8, <2>1, <2>2, <2>3, <2>4 DEF MarkDeleting, resources, others, LifeTypeOK
<1>9. CASE DeleteAgents(u)
  <2>0. [call EXCEPT ![u].pc = "volumes", ![u].ok = FALSE] \in [Users -> Calls]
    BY DEF LifeTypeOK, Calls
  <2>1. call' \in [Users -> Calls]
    BY <1>0, <1>9, <2>0, CallSteps DEF DeleteAgents
  <2>2. troubles' \in 0 .. MaxTroubles
    BY <1>9, Troubles DEF DeleteAgents, Refused, LifeTypeOK
  <2> QED
    BY <1>9, <2>1, <2>2 DEF DeleteAgents, resources, others, LifeTypeOK
<1>10. CASE DeleteVolumes(u)
  <2>1. call' \in [Users -> Calls]
    BY <1>0, <1>10, CallEnds, CallSteps DEF DeleteVolumes
  <2>2. troubles' \in 0 .. MaxTroubles
    BY <1>10, Troubles DEF DeleteVolumes, Refused, LifeTypeOK
  <2>3. volumes' \subseteq Volumes
    BY <1>10 DEF DeleteVolumes, LifeTypeOK
  <2>4. cloned' \in BOOLEAN
    BY <1>10 DEF DeleteVolumes, LifeTypeOK
  <2> QED
    BY <1>10, <2>1, <2>2, <2>3, <2>4 DEF DeleteVolumes, others, LifeTypeOK
<1>11. CASE DeleteRow(u)
  BY <1>0, <1>11, CallEnds, CallSteps, Troubles DEF DeleteRow, resources, others, LifeTypeOK
<1>12. CASE Forget(u)
  BY <1>12, CallEnds DEF Forget, resources, others, LifeTypeOK
<1> QED
  BY <1>1, <1>2, <1>3, <1>4, <1>5, <1>6, <1>7, <1>8, <1>9, <1>10, <1>11, <1>12 DEF Goes

LEMMA NotesTypes == LifeTypeOK /\ (Review \/ SaveReview \/ Push \/ PushEnsure \/ PushEnds) => LifeTypeOK'
<1> SUFFICES ASSUME LifeTypeOK, Review \/ SaveReview \/ Push \/ PushEnsure \/ PushEnds
             PROVE  LifeTypeOK'
  OBVIOUS
<1>1. CASE Review
  BY <1>1, Admissions DEF Review, resources, LifeTypeOK
<1>2. CASE SaveReview
  <2>1. note \in Projects
    BY <1>2 DEF SaveReview, LifeTypeOK
  <2> QED
    BY <1>2, <2>1, Writes DEF SaveReview, resources, LifeTypeOK
<1>3. CASE Push
  BY <1>3, Admissions DEF Push, resources, LifeTypeOK
<1>4. CASE PushEnsure \/ PushEnds
  BY <1>4 DEF PushEnsure, PushEnds, resources, Volumes, LifeTypeOK
<1> QED
  BY <1>1, <1>2, <1>3, <1>4

LEMMA Loads ==
    ASSUME NEW p \in Projects
    PROVE  /\ Loaded(p) \in Projects
           /\ In(p, "Deleting") => Loaded(p) = p
           /\ Loaded(p).status = "Deleting" <=> p.status = "Deleting"
           /\ IsReady(Loaded(p)) => IsReady(p)
  BY DEF Loaded, Projects, IsReady, In

LEMMA ServerTypes == LifeTypeOK /\ (Crash \/ Start) => LifeTypeOK'
<1> SUFFICES ASSUME LifeTypeOK, Crash \/ Start PROVE LifeTypeOK'
  OBVIOUS
<1> Idle \in Cloners /\ Report("Cloning") \in Cloners
  BY Reports DEF Goals
<1>1. CASE Crash
  <2>1. call' \in [Users -> Calls]
    BY <1>1 DEF Crash, NoCall, Calls
  <2> QED
    BY <1>1, <2>1, Troubles DEF Crash, resources, LifeTypeOK
<1>2. CASE Start
  <2>1. row' \in Projects \cup {None, Gone} /\ memory' \in Projects \cup {None}
    BY <1>2, Loads DEF Start, LifeTypeOK
  <2> QED
    BY <1>2, <2>1 DEF Start, others, LifeTypeOK
<1> QED
  BY <1>1, <1>2

LEMMA TypesStep == LifeInv /\ [Next]_vars => LifeTypeOK'
<1> SUFFICES ASSUME LifeInv, [Next]_vars PROVE LifeTypeOK'
  OBVIOUS
<1> USE DEF LifeInv
<1>1. CASE Creation \/ CreateFails
  BY <1>1, CreationTypes
<1>2. CASE Cloning
  BY <1>2, CloningTypes
<1>3. CASE CloningFails
  BY <1>3, CloningFailsTypes
<1>4. CASE \E u \in Users : \/ Update(u) \/ (\E kind \in Kinds : Ask(u, kind))
                            \/ Goes(u) \/ SaveCopyFails(u)
  BY <1>4, UserTypes
<1>5. CASE Review \/ SaveReview \/ Push \/ PushEnsure \/ PushEnds
  BY <1>5, NotesTypes
<1>6. CASE Crash \/ Start
  BY <1>6, ServerTypes
<1>7. CASE UNCHANGED vars
  BY <1>7 DEF vars, resources, others, LifeTypeOK
<1> QED
  BY <1>1, <1>2, <1>3, <1>4, <1>5, <1>6, <1>7 DEF Next

-----------------------------------------------------------------------------
\* The steps of the calls.

\* Whoever acts on the project finds it created and the server up.
LEMMA Begun ==
    ASSUME LifeInv,
           \/ memory # None /\ server = "up"
           \/ \E u \in Users : call[u].pc # "none"
           \/ note # None
    PROVE  creation = "over" /\ row # None /\ server = "up"
<1>1. (\E u \in Users : call[u].pc # "none") \/ note # None => ~Quiet
  BY DEF Quiet, NoCall
<1> QED
  BY <1>1 DEF LifeInv, LifeTypeOK, BornOK

\* A step of one call keeps the invariant when it brings back neither the
\* row nor a summary that says ready.
LEMMA CallStep ==
    ASSUME LifeInv, NEW u \in Users,
           creation = "over", row # None, server = "up",
           UNCHANGED <<creation, server, cloner, note>>,
           row' # None, Live' => Live,
           \A v \in Users \ {u} : call'[v] = call[v],
           call'[u].pc \in {"saving", "stopped"} => call'[u].copy \in Projects,
           call'[u].pc \in {"agents", "volumes", "row", "forgetting"} => ~Live',
           IsReady(row') => SomebodyReady,
           IsReady(memory') => SomebodyReady,
           IsReady(call'[u].copy) => SomebodyReady,
           UNCHANGED <<maintainer, volumes, cloned>> \/ ~Live'
    PROVE  BornOK' /\ CallsOK' /\ ClonerOK' /\ WholeOK'
<1>1. BornOK'
  BY DEF BornOK
<1>2. CallsOK'
  BY DEF LifeInv, CallsOK
<1>3. ClonerOK'
  BY DEF LifeInv, ClonerOK, IsReady, In
<1>4. SomebodyReady' => SomebodyReady
  BY DEF SomebodyReady, IsReady, In
<1>5. WholeOK'
  BY <1>4 DEF LifeInv, WholeOK, Whole
<1> QED
  BY <1>1, <1>2, <1>3, <1>5

LEMMA UserSteps ==
    ASSUME LifeInv, NEW u \in Users,
           \/ Update(u) \/ (\E kind \in Kinds : Ask(u, kind)) \/ Goes(u) \/ SaveCopyFails(u)
    PROVE  BornOK' /\ CallsOK' /\ ClonerOK' /\ WholeOK'
<1> USE DEF LifeInv
<1>0. /\ ~IsReady(None) /\ ~IsReady(NoCall.copy) /\ NoCall.pc = "none"
      /\ row' = row => (Live' <=> Live) /\ (IsReady(row') <=> IsReady(row))
      /\ IsReady(row) \/ IsReady(memory) \/ IsReady(call[u].copy) => SomebodyReady
  BY NobodyIsAProject DEF IsReady, In, NoCall, SomebodyReady, Live
<1>1. CASE Update(u)
  <2>1. memory \in Projects /\ server = "up"
    BY <1>1, Admissions DEF Update
  <2>2. memory' \in Projects /\ (IsReady(memory') => IsReady(memory))
    BY <1>1, <2>1, Autos DEF Update
  <2>3. call'[u].pc = "saving" /\ call'[u].copy = memory'
    BY <1>1 DEF Update, LifeTypeOK, NoCall
  <2>4. \A v \in Users \ {u} : call'[v] = call[v]
    BY <1>1 DEF Update, LifeTypeOK
  <2>5. creation = "over" /\ row # None
    BY <2>1, Begun, NobodyIsAProject
  <2>6. UNCHANGED <<row, maintainer, volumes, cloned, creation, cloner, note, server>>
    BY <1>1 DEF Update, resources, others
  <2>7. IsReady(memory') <=> IsReady(call'[u].copy)
    BY <2>3
  <2> QED
    BY <1>0, <2>1, <2>2, <2>3, <2>4, <2>5, <2>6, <2>7, CallStep
<1>2. CASE \E kind \in Kinds : Ask(u, kind)
  <2>1. PICK kind \in {"cancel", "delete"} : Ask(u, kind)
    BY <1>2 DEF Ask
  <2>2. memory # None /\ server = "up"
    BY <2>1 DEF Ask, Admitted
  <2>3. call'[u].pc = "stopping" /\ call'[u].copy = None
    BY <2>1 DEF Ask, LifeTypeOK, NoCall
  <2>4. \A v \in Users \ {u} : call'[v] = call[v]
    BY <2>1 DEF Ask, LifeTypeOK
  <2>5. creation = "over" /\ row # None
    BY <2>2, Begun
  <2>6. UNCHANGED <<row, memory, maintainer, volumes, cloned, creation, cloner, note, server>>
    BY <2>1 DEF Ask, resources, others
  <2> QED
    BY <1>0, <2>2, <2>3, <2>4, <2>5, <2>6, CallStep

<1>3. CASE SaveCopy(u)
  <2>1. creation = "over" /\ row # None /\ server = "up"
    BY <1>3, Begun DEF SaveCopy
  <2>2. call[u].copy \in Projects /\ Write(call[u].copy)
    BY <1>3 DEF SaveCopy, CallsOK
  <2>3. row' # None /\ (Live' => Live) /\ (IsReady(row') => SomebodyReady)
    BY <1>0, <2>1, <2>2, Writes
  <2>4. UNCHANGED <<memory, maintainer, volumes, cloned, creation, cloner, note, server>>
    BY <1>3 DEF SaveCopy, resources, others
  <2>5. "stopping" \in Pcs
    BY DEF Pcs
  <2>6. /\ call'[u].pc \in {"none", "stopping"}
        /\ call'[u].copy = call[u].copy \/ call'[u].copy = NoCall.copy
        /\ \A v \in Users \ {u} : call'[v] = call[v]
    BY <1>0, <1>3, <2>5, CallSteps, CallEnds DEF SaveCopy
  <2>7. IsReady(call'[u].copy) => SomebodyReady
    BY <1>0, <2>6 DEF IsReady, In
  <2>8. IsReady(memory') => SomebodyReady
    BY <1>0, <2>4 DEF IsReady, In
  <2> QED
    BY <2>1, <2>3, <2>4, <2>6, <2>7, <2>8, CallStep
<1>4. CASE SaveCopyFails(u)
  <2>1. creation = "over" /\ row # None /\ server = "up"
    BY <1>4, Begun DEF SaveCopyFails
  <2>2. UNCHANGED <<row, memory, maintainer, volumes, cloned, creation, cloner, note, server>>
    BY <1>4 DEF SaveCopyFails, resources, others
  <2>3. call'[u] = NoCall /\ \A v \in Users \ {u} : call'[v] = call[v]
    BY <1>4, CallEnds DEF SaveCopyFails
  <2> QED
    BY <1>0, <2>1, <2>2, <2>3, CallStep
<1>5. CASE StopLoop(u)
  <2>1. creation = "over" /\ row # None /\ server = "up"
    BY <1>5, Begun DEF StopLoop
  <2>2. UNCHANGED <<row, maintainer, volumes, cloned, creation, cloner, note, server>>
    BY <1>5 DEF StopLoop, resources, others
  <2>3. AfterStop(call[u].kind) \in {"none", "cancelling", "marking"} \cap Pcs
    BY DEF AfterStop, Pcs
  <2>4. CASE memory = None
    <3>1. /\ call'[u].pc \in {"none", "cancelling", "marking"} /\ call'[u].copy = call[u].copy
          /\ \A v \in Users \ {u} : call'[v] = call[v]
      BY <1>5, <2>3, <2>4, CallSteps DEF StopLoop
    <3>2. memory' = memory
      BY <1>5, <2>4 DEF StopLoop
    <3>3. IsReady(call'[u].copy) => SomebodyReady
      BY <1>0, <3>1
    <3> QED
      BY <1>0, <2>1, <2>2, <2>4, <3>1, <3>2, <3>3, CallStep
  <2>5. CASE memory # None
    <3>1. memory' \in Projects /\ (IsReady(memory') => IsReady(memory))
      BY <1>5, <2>5, Autos DEF StopLoop, LifeTypeOK
    <3>2. call'[u].pc = "stopped" /\ call'[u].copy = memory'
      BY <1>5, <2>5 DEF StopLoop, LifeTypeOK, Calls
    <3>3. \A v \in Users \ {u} : call'[v] = call[v]
      BY <1>5, <2>5 DEF StopLoop, LifeTypeOK
    <3>4. IsReady(call'[u].copy) => SomebodyReady
      BY <1>0, <3>1, <3>2
    <3> QED
      BY <1>0, <2>1, <2>2, <3>1, <3>2, <3>3, <3>4, CallStep
  <2> QED
    BY <2>4, <2>5
<1>6. CASE SaveStopped(u)
  <2>1. creation = "over" /\ row # None /\ server = "up"
    BY <1>6, Begun DEF SaveStopped
  <2>2. call[u].copy \in Projects /\ (Write(call[u].copy) \/ row' = row)
    BY <1>6 DEF SaveStopped, CallsOK
  <2>3. row' # None /\ (Live' => Live) /\ (IsReady(row') => SomebodyReady)
    BY <1>0, <2>1, <2>2, Writes
  <2>4. UNCHANGED <<memory, maintainer, volumes, cloned, creation, cloner, note, server>>
    BY <1>6 DEF SaveStopped, resources, others
  <2>5. AfterStop(call[u].kind) \in {"none", "cancelling", "marking"} \cap Pcs
    BY DEF AfterStop, Pcs
  <2>6. /\ call'[u].pc \in {"none", "cancelling", "marking"} /\ call'[u].copy = call[u].copy
        /\ \A v \in Users \ {u} : call'[v] = call[v]
    BY <1>6, <2>5, CallSteps DEF SaveStopped
  <2>7. IsReady(call'[u].copy) => SomebodyReady
    BY <1>0, <2>6
  <2>8. IsReady(memory') => SomebodyReady
    BY <1>0, <2>4
  <2> QED
    BY <2>1, <2>3, <2>4, <2>6, <2>7, <2>8, CallStep
<1>7. CASE Cancel(u)
  <2>1. creation = "over" /\ row # None /\ server = "up"
    BY <1>7, Begun DEF Cancel
  <2>2. UNCHANGED <<row, maintainer, volumes, cloned, creation, cloner, note, server>>
    BY <1>7 DEF Cancel, resources, others
  <2>3. CASE memory = None
    <3>1. call'[u] = NoCall /\ (\A v \in Users \ {u} : call'[v] = call[v]) /\ memory' = memory
      BY <1>7, <2>3, CallEnds DEF Cancel
    <3> QED
      BY <1>0, <2>1, <2>2, <3>1, CallStep
  <2>4. CASE memory # None
    <3>1. memory' \in Projects /\ (IsReady(memory') => IsReady(memory))
      BY <1>7, <2>4, Statuses DEF Cancel, LifeTypeOK
    <3>2. call'[u].pc = "saving" /\ call'[u].copy = memory'
      BY <1>7, <2>4 DEF Cancel, LifeTypeOK, Calls
    <3>3. \A v \in Users \ {u} : call'[v] = call[v]
      BY <1>7, <2>4 DEF Cancel, LifeTypeOK
    <3>4. IsReady(call'[u].copy) => SomebodyReady
      BY <1>0, <3>1, <3>2
    <3> QED
      BY <1>0, <2>1, <2>2, <3>1, <3>2, <3>3, <3>4, CallStep
  <2> QED
    BY <2>3, <2>4
<1>8. CASE MarkDeleting(u)
  <2>1. creation = "over" /\ row # None /\ server = "up"
    BY <1>8, Begun DEF MarkDeleting
  <2>2. UNCHANGED <<maintainer, volumes, cloned, creation, cloner, note, server>>
    BY <1>8 DEF MarkDeleting, resources, others
  <2>3. /\ memory = None => memory' = None
        /\ memory # None => memory' \in Projects /\ In(memory', "Deleting") /\ ~IsReady(memory')
    BY <1>8, Statuses DEF MarkDeleting, LifeTypeOK
  <2>4. CASE row' = memory' /\ memory # None /\ Step(u, "agents")
    <3>1. "agents" \in Pcs
      BY DEF Pcs
    <3>2. /\ call'[u].pc = "agents" /\ call'[u].copy = call[u].copy
          /\ \A v \in Users \ {u} : call'[v] = call[v]
      BY <2>4, <3>1, CallSteps
    <3>3. row' # None /\ ~Live' /\ ~IsReady(row') /\ ~IsReady(memory')
      BY <2>3, <2>4, NobodyIsAProject DEF Live, In
    <3>4. IsReady(call'[u].copy) => SomebodyReady
      BY <1>0, <3>2
    <3> QED
      BY <2>1, <2>2, <3>2, <3>3, <3>4, CallStep
  <2>5. CASE row' = row /\ Ends(u)
    <3>1. call'[u] = NoCall /\ \A v \in Users \ {u} : call'[v] = call[v]
      BY <2>5, CallEnds
    <3>2. ~IsReady(memory')
      BY <1>0, <2>3
    <3> QED
      BY <1>0, <2>1, <2>2, <2>5, <3>1, <3>2, CallStep
  <2> QED
    BY <1>8, <2>4, <2>5 DEF MarkDeleting
<1>9. CASE DeleteAgents(u) \/ DeleteVolumes(u) \/ DeleteRow(u) \/ Forget(u)
  <2>1. creation = "over" /\ row # None /\ server = "up"
    BY <1>9, Begun DEF DeleteAgents, DeleteVolumes, DeleteRow, Forget
  <2>2. ~Live /\ (row' = row \/ row' = Gone)
    BY <1>9 DEF DeleteAgents, DeleteVolumes, DeleteRow, Forget, CallsOK
  <2>3. row' # None /\ ~Live' /\ (IsReady(row') => SomebodyReady)
    BY <1>0, <2>1, <2>2, NobodyIsAProject DEF Live, IsReady, In
  <2>4. UNCHANGED <<creation, cloner, note, server>> /\ (memory' = memory \/ memory' = None)
    BY <1>9 DEF DeleteAgents, DeleteVolumes, DeleteRow, Forget, resources, others
  <2>5. IsReady(memory') => SomebodyReady
    BY <1>0, <2>4
  <2>6. "volumes" \in Pcs /\ "row" \in Pcs /\ "forgetting" \in Pcs
    BY DEF Pcs
  <2>7. /\ call'[u].pc \notin {"saving", "stopped"}
        /\ call'[u].copy = call[u].copy \/ call'[u].copy = NoCall.copy
        /\ \A v \in Users \ {u} : call'[v] = call[v]
    <3>1. CASE Ends(u)
      BY <1>0, <3>1, CallEnds
    <3>2. CASE \E pc \in {"volumes", "row", "forgetting"} : Step(u, pc)
      BY <2>6, <3>2, CallSteps
    <3>3. CASE call' = [call EXCEPT ![u].pc = "volumes", ![u].ok = FALSE]
      BY <3>3 DEF LifeTypeOK, Calls
    <3> QED
      BY <1>9, <3>1, <3>2, <3>3 DEF DeleteAgents, DeleteVolumes, DeleteRow, Forget
  <2>8. IsReady(call'[u].copy) => SomebodyReady
    BY <1>0, <2>7
  <2> QED
    BY <2>1, <2>3, <2>4, <2>5, <2>7, <2>8, CallStep
<1> QED
  BY <1>1, <1>2, <1>3, <1>4, <1>5, <1>6, <1>7, <1>8, <1>9 DEF Goes

-----------------------------------------------------------------------------
\* The creation, the reviews and the pushes.

LEMMA CreationSteps ==
    ASSUME LifeInv, Creation \/ CreateFails
    PROVE  BornOK' /\ CallsOK' /\ ClonerOK' /\ WholeOK'
<1> USE DEF LifeInv
<1>0. ~IsReady(None) /\ Idle.pc = "none" /\ Idle.goal = "Cloning" /\ NoCall.pc = "none" /\ ~IsReady(NoCall.copy)
      /\ Idle.copy = None
  BY NobodyIsAProject DEF IsReady, In, Idle, NoCall
<1>1. CASE CreateMaintainer
  <2>1. row = None /\ creation' = "row"
        /\ server = "up" /\ UNCHANGED <<row, memory, volumes, cloned, cloner, call, note, server>>
    BY <1>1 DEF CreateMaintainer, BornOK, others
  <2>2. ~Live /\ ~Live'
    BY <2>1, NobodyIsAProject DEF Live
  <2> QED
    BY <2>1, <2>2 DEF BornOK, CallsOK, ClonerOK, WholeOK, Quiet, IsReady, In
<1>2. CASE InsertRow
  <2>1. row = None /\ memory = None /\ Quiet /\ cloner = Idle
    BY <1>2 DEF InsertRow, BornOK
  <2>2. creation' = "listing" /\ UNCHANGED <<memory, cloner, call, note, server>>
    BY <1>2 DEF InsertRow, resources, others
  <2>3. In(row', "Creating") /\ ~IsReady(row')
    BY <1>2 DEF InsertRow, In, IsReady, Projects
  <2>4. server = "up" /\ row' # None
    BY <1>2, <2>3, NobodyIsAProject DEF InsertRow, BornOK, In
  <2>5. BornOK'
    BY <2>1, <2>2, <2>3, <2>4 DEF BornOK, Quiet
  <2>6. CallsOK' /\ ClonerOK'
    BY <1>0, <2>1, <2>2 DEF CallsOK, ClonerOK, Quiet, IsReady, In
  <2>7. ~SomebodyReady'
    BY <1>0, <2>1, <2>2, <2>3 DEF SomebodyReady, Quiet, IsReady, In
  <2>8. WholeOK'
    BY <1>0, <2>1, <2>2, <2>7 DEF WholeOK
  <2> QED
    BY <2>5, <2>6, <2>8
<1>3. CASE ListProject
  <2>1. In(row, "Creating") /\ server = "up" /\ Quiet /\ cloner = Idle
    BY <1>3 DEF ListProject, BornOK
  <2>2. /\ creation' = "over" /\ memory' = row /\ cloner' = Report("Cloning")
        /\ UNCHANGED <<row, maintainer, volumes, cloned, call, note, server>>
    BY <1>3 DEF ListProject, resources, others
  <2>3. row # None /\ ~IsReady(row) /\ ~IsReady(memory')
    BY <2>1, <2>2, NobodyIsAProject DEF IsReady, In
  <2>4. cloner'.pc = "reporting" /\ cloner'.goal = "Cloning" /\ cloner'.copy = None
    BY <2>2 DEF Report
  <2>5. BornOK'
    BY <2>1, <2>2, <2>3 DEF BornOK
  <2>6. CallsOK' /\ ClonerOK'
    BY <1>0, <2>1, <2>2, <2>4 DEF CallsOK, ClonerOK, Quiet, IsReady, In
  <2>7. ~SomebodyReady'
    BY <1>0, <2>1, <2>2, <2>3 DEF SomebodyReady, Quiet, IsReady, In
  <2>8. WholeOK'
    BY <2>4, <2>7 DEF WholeOK
  <2> QED
    BY <2>5, <2>6, <2>8
<1>4. CASE CreateFails
  <2>1. creation' = "over" /\ UNCHANGED <<row, memory, maintainer, volumes, cloned, cloner, call, note, server>>
    BY <1>4 DEF CreateFails, resources, others
  <2> QED
    BY <2>1 DEF BornOK, CallsOK, ClonerOK, WholeOK, Quiet, Live, Whole, SomebodyReady, IsReady, In
<1> QED
  BY <1>1, <1>2, <1>3, <1>4 DEF Creation

LEMMA NotesSteps ==
    ASSUME LifeInv, Review \/ SaveReview \/ Push \/ PushEnsure \/ PushEnds
    PROVE  BornOK' /\ CallsOK' /\ ClonerOK' /\ WholeOK'
<1> USE DEF LifeInv
<1>0. UNCHANGED <<memory, maintainer, cloned, creation, cloner, call, server>>
  BY DEF Review, SaveReview, Push, PushEnsure, PushEnds, resources
<1>1. CASE UNCHANGED <<row, note, volumes>>
  BY <1>0, <1>1 DEF BornOK, CallsOK, ClonerOK, WholeOK, Quiet, Live, Whole, SomebodyReady, IsReady, In
<1>2. CASE PushEnsure
  <2>1. UNCHANGED <<row, note>> /\ volumes' = volumes \cup {"cache"}
    BY <1>2 DEF PushEnsure
  <2>2. BornOK' /\ CallsOK' /\ ClonerOK'
    BY <1>0, <2>1 DEF BornOK, CallsOK, ClonerOK, Quiet, Live, IsReady, In
  <2>3. Whole => Whole'
    BY <1>0, <2>1 DEF Whole, Volumes
  <2>4. (Live' <=> Live) /\ (SomebodyReady' <=> SomebodyReady)
    BY <1>0, <2>1 DEF Live, SomebodyReady, IsReady, In
  <2>5. WholeOK'
    BY <1>0, <2>1, <2>3, <2>4 DEF WholeOK
  <2> QED
    BY <2>2, <2>5
<1>3. CASE Review
  <2>1. note' = memory /\ memory # None /\ server = "up" /\ UNCHANGED <<row, volumes>>
    BY <1>3 DEF Review, Admitted, resources
  <2>2. creation = "over" /\ row # None
    BY <2>1, Begun
  <2>3. BornOK' /\ CallsOK' /\ ClonerOK'
    BY <1>0, <2>1, <2>2 DEF BornOK, CallsOK, ClonerOK, Live, IsReady, In
  <2>4. (Live' <=> Live) /\ (SomebodyReady' => SomebodyReady)
    BY <1>0, <2>1 DEF Live, SomebodyReady, IsReady, In
  <2>5. WholeOK'
    BY <1>0, <2>1, <2>4 DEF WholeOK, Whole
  <2> QED
    BY <2>3, <2>5
<1>4. CASE SaveReview
  <2>1. note # None /\ note' = None /\ Write(note) /\ UNCHANGED volumes
    BY <1>4 DEF SaveReview, resources
  <2>2. creation = "over" /\ row # None /\ server = "up"
    BY <2>1, Begun
  <2>3. note \in Projects
    BY <2>1 DEF LifeTypeOK
  <2>4. row' # None /\ (Live' => Live) /\ (row' = row \/ row' = note)
    BY <2>1, <2>2, <2>3, Writes
  <2>5. BornOK' /\ CallsOK' /\ ClonerOK'
    BY <1>0, <2>2, <2>4 DEF BornOK, CallsOK, ClonerOK, IsReady, In
  <2>6. SomebodyReady' => SomebodyReady
    BY <1>0, <2>1, <2>4, NobodyIsAProject DEF SomebodyReady, IsReady, In
  <2>7. WholeOK'
    BY <1>0, <2>1, <2>4, <2>6 DEF WholeOK, Whole
  <2> QED
    BY <2>5, <2>7
<1> QED
  BY <1>1, <1>2, <1>3, <1>4 DEF Push, PushEnds, resources

-----------------------------------------------------------------------------
\* The end and the start of the server.

LEMMA ServerSteps ==
    ASSUME LifeInv, Crash \/ Start
    PROVE  BornOK' /\ CallsOK' /\ ClonerOK' /\ WholeOK'
<1> USE DEF LifeInv
<1>0. ~IsReady(None) /\ Idle.pc = "none" /\ Idle.goal = "Cloning" /\ NoCall.pc = "none" /\ ~IsReady(NoCall.copy)
      /\ Idle.copy = None /\ ~In(None, "Deleting")
  BY NobodyIsAProject DEF IsReady, In, Idle, NoCall
<1>1. CASE Crash
  <2>1. /\ server' = "down" /\ memory' = None /\ cloner' = Idle /\ note' = None
        /\ call' = [u \in Users |-> NoCall] /\ creation' \in {"unasked", "over"}
        /\ creation' = "unasked" => creation = "unasked"
        /\ UNCHANGED <<row, maintainer, volumes, cloned>>
    BY <1>1 DEF Crash, resources
  <2>2. BornOK' /\ CallsOK' /\ ClonerOK'
    BY <1>0, <2>1 DEF BornOK, CallsOK, ClonerOK, Quiet, IsReady, In
  <2>3. (Live' <=> Live) /\ (SomebodyReady' => SomebodyReady)
    BY <1>0, <2>1 DEF Live, SomebodyReady, IsReady, In
  <2>4. WholeOK'
    BY <1>0, <2>1, <2>3 DEF WholeOK, Whole
  <2> QED
    BY <2>2, <2>4
<1>2. CASE Start
  <2>1. server = "down" /\ Quiet /\ creation # "listing" /\ cloner = Idle
    BY <1>2 DEF Start, BornOK
  <2>2. UNCHANGED <<maintainer, cloned, creation, call, note>>
    BY <1>2 DEF Start, others
  <2>3. CallsOK'
    BY <1>0, <2>1, <2>2 DEF CallsOK, Quiet
  <2>4. CASE row \notin Projects
    <3>1. row' = row /\ memory' = None /\ cloner' = Idle /\ server' = "up"
      BY <1>2, <2>4 DEF Start
    <3>2. BornOK' /\ ClonerOK'
      BY <1>0, <2>1, <2>2, <3>1 DEF BornOK, ClonerOK, Quiet, IsReady, In
    <3>3. ~Live'
      BY <2>4, <3>1 DEF Live
    <3> QED
      BY <2>3, <3>2, <3>3 DEF WholeOK
  <2>5. CASE row \in Projects
    <3>1. row' = Loaded(row) /\ memory' = Loaded(row)
      BY <1>2, <2>5, NobodyIsAProject, Loads DEF Start
    <3>2. Loaded(row) \in Projects /\ Loaded(row) # None
          /\ (IsReady(Loaded(row)) => IsReady(row)) /\ (Live' => Live)
      BY <2>5, <3>1, Loads, NobodyIsAProject DEF Live
    <3>3. \/ cloner' = Idle /\ server' = "up"
          \/ cloner' = Report("Cloning") /\ server' = "starting" /\ NeedsResume(Loaded(row))
      BY <1>2, <2>5, <3>2 DEF Start
    <3>4. NeedsResume(Loaded(row)) => ~IsReady(Loaded(row))
      BY DEF NeedsResume, IsReady, In
    <3>5. /\ cloner'.goal = "Cloning" /\ cloner'.copy = None
          /\ cloner'.pc \in {"none", "reporting"}
          /\ cloner'.pc # "none" => ~IsReady(Loaded(row))
      BY <1>0, <3>3, <3>4 DEF Report
    <3>6. creation = "over"
      BY <2>1, <2>5, NobodyIsAProject DEF BornOK, LifeTypeOK
    <3>7. BornOK' /\ ClonerOK'
      BY <1>0, <2>1, <2>2, <3>1, <3>2, <3>3, <3>5, <3>6 DEF BornOK, ClonerOK, Quiet, IsReady, In
    <3>8. SomebodyReady' <=> IsReady(Loaded(row))
      BY <1>0, <2>1, <2>2, <3>1 DEF SomebodyReady, Quiet, IsReady, In
    <3>9. SomebodyReady' => SomebodyReady
      BY <3>2, <3>8 DEF SomebodyReady
    <3>10. Whole => Whole'
      <4>1. SUFFICES ASSUME Whole PROVE Whole'
        OBVIOUS
      <4>2. Orphans = {}
        BY <2>5, <4>1 DEF Whole, Orphans
      <4>3. volumes' = volumes
        BY <1>2, <4>2 DEF Start
      <4> QED
        BY <2>2, <4>1, <4>3 DEF Whole
    <3>11. WholeOK'
      BY <3>2, <3>5, <3>8, <3>9, <3>10 DEF WholeOK
    <3> QED
      BY <2>3, <3>7, <3>11
  <2> QED
    BY <2>4, <2>5
<1> QED
  BY <1>1, <1>2

-----------------------------------------------------------------------------
\* The steps of the clone.

LEMMA ClonerBegun ==
    ASSUME LifeInv, cloner.pc # "none"
    PROVE  creation = "over" /\ row # None /\ server # "down"
<1> cloner # Idle
  BY DEF Idle
<1> QED
  BY DEF LifeInv, LifeTypeOK, BornOK

\* What a step of the clone owes to the calls and to the server.
LEMMA ClonerStep ==
    ASSUME LifeInv, cloner.pc # "none", UNCHANGED <<creation, call, note>>,
           row' # None, Live' => Live,
           server' # "up" => server # "up",
           server' = "down" => memory' = None /\ cloner' = Idle
    PROVE  BornOK' /\ CallsOK'
<1>1. creation = "over" /\ row # None /\ server # "down"
  BY ClonerBegun
<1>2. BornOK'
  BY <1>1 DEF LifeInv, BornOK, Quiet
<1>3. CallsOK'
  BY DEF LifeInv, CallsOK
<1> QED
  BY <1>2, <1>3

\* What it owes to the readiness, unless it makes something or is about to say
\* that everything is made.
LEMMA ReportStep ==
    ASSUME LifeInv, Live' => Live,
           UNCHANGED <<maintainer, volumes, cloned>>,
           SomebodyReady' => SomebodyReady \/ cloner.goal = "Ready",
           cloner'.goal = "Ready" => cloner.goal = "Ready",
           cloner'.pc # "none" /\ cloner'.goal # "Ready" =>
             cloner.pc # "none" /\ cloner.goal # "Ready",
           cloner'.pc \in {"none", "reporting", "saving", "publishing", "looking"}
    PROVE  WholeOK'
  BY DEF LifeInv, WholeOK, Whole

LEMMA ReportingSteps ==
    ASSUME LifeInv, CopySummary \/ SaveResult \/ SaveFails \/ PublishResult
    PROVE  BornOK' /\ CallsOK' /\ ClonerOK' /\ WholeOK'
<1> USE DEF LifeInv
<1>0. /\ Idle.pc = "none" /\ Idle.goal = "Cloning" /\ Idle.copy = None /\ ~IsReady(None)
      /\ UNCHANGED <<maintainer, volumes, cloned, creation, call, note>>
      /\ cloner \in Cloners /\ cloner.pc # "none"
      /\ cloner.pc \in {"reporting", "saving", "publishing"}
  BY NobodyIsAProject
  DEF CopySummary, SaveResult, SaveFails, PublishResult, resources, others, LifeTypeOK, IsReady, In,
      Idle, At
<1>1. creation = "over" /\ row # None /\ server # "down"
  BY <1>0, ClonerBegun
<1>2. ASSUME Return(FALSE), row' = row
      PROVE  BornOK' /\ CallsOK' /\ ClonerOK' /\ WholeOK'
  <2>1. cloner' = Idle /\ (memory' = memory \/ memory' = None)
        /\ (server' = "down" => memory' = None) /\ (server' # "up" => server # "up")
    BY <1>1, <1>2, Returns
  <2>2. Live' <=> Live
    BY <1>2 DEF Live
  <2>3. SomebodyReady' => SomebodyReady
    BY <1>0, <1>2, <2>1 DEF SomebodyReady, IsReady, In
  <2>4. BornOK' /\ CallsOK'
    BY <1>0, <1>1, <1>2, <2>1, <2>2, ClonerStep
  <2>5. ClonerOK'
    BY <1>0, <2>1 DEF ClonerOK, IsReady, In
  <2>6. cloner'.pc = "none" /\ cloner'.goal = "Cloning"
    BY <1>0, <2>1
  <2>7. WholeOK'
    BY <1>0, <2>2, <2>3, <2>6, ReportStep
  <2> QED
    BY <2>4, <2>5, <2>7
<1>3. CASE CopySummary /\ ~(memory = None \/ In(memory, "Deleting"))
  <2>1. PICK p \in Outcome(memory, cloner.goal) :
          cloner' = [cloner EXCEPT !.pc = "saving", !.copy = p]
    BY <1>3 DEF CopySummary
  <2>2. memory \in Projects /\ cloner.goal \in Goals
    BY <1>0, <1>3 DEF LifeTypeOK, Cloners
  <2>3. p \in Projects /\ (IsReady(p) => cloner.goal = "Ready")
    BY <2>2, Outcomes
  <2>4. cloner'.pc = "saving" /\ cloner'.copy = p /\ cloner'.goal = cloner.goal
    BY <1>0, <2>1 DEF Cloners
  <2>5. UNCHANGED <<row, memory, server>>
    BY <1>3 DEF CopySummary
  <2>6. (Live' <=> Live) /\ (SomebodyReady' <=> SomebodyReady)
    BY <1>0, <2>5 DEF Live, SomebodyReady, IsReady, In
  <2>7. BornOK' /\ CallsOK'
    BY <1>0, <1>1, <2>5, <2>6, ClonerStep
  <2>8. ClonerOK'
    BY <2>3, <2>4 DEF ClonerOK, IsReady, In
  <2>9. WholeOK'
    BY <1>0, <2>4, <2>6, ReportStep
  <2> QED
    BY <2>7, <2>8, <2>9
<1>4. CASE SaveResult /\ Accepts(cloner.copy)
  <2>1. cloner.copy \in Projects /\ Write(cloner.copy) /\ row' = cloner.copy
    BY <1>4 DEF SaveResult, At, ClonerOK, Write
  <2>2. cloner'.pc = "publishing" /\ cloner'.copy = cloner.copy /\ cloner'.goal = cloner.goal
    BY <1>0, <1>4 DEF SaveResult, Goto, Cloners
  <2>3. UNCHANGED <<memory, server>>
    BY <1>4 DEF SaveResult, Goto
  <2>4. row' # None /\ (Live' => Live)
    BY <1>1, <2>1, Writes
  <2>5. SomebodyReady' => SomebodyReady \/ cloner.goal = "Ready"
    BY <1>0, <2>1, <2>3 DEF SomebodyReady, ClonerOK, IsReady, In
  <2>6. BornOK' /\ CallsOK'
    BY <1>0, <1>1, <2>3, <2>4, ClonerStep
  <2>7. ClonerOK'
    BY <1>0, <2>2 DEF ClonerOK, IsReady, In
  <2>8. WholeOK'
    BY <1>0, <2>2, <2>4, <2>5, ReportStep
  <2> QED
    BY <2>6, <2>7, <2>8
<1>5. CASE PublishResult
  <2>1. row' = row /\ (memory' = None \/ memory' = cloner.copy)
    BY <1>5 DEF PublishResult
  <2>2. /\ cloner'.pc \in {"none", "looking"} /\ cloner'.goal = "Cloning"
        /\ cloner'.copy = None \/ cloner'.copy = cloner.copy
        /\ cloner'.pc = "looking" => cloner.goal = "Cloning"
    BY <1>0, <1>5 DEF PublishResult, Goto, Cloners
  <2>3. (server' # "up" => server # "up") /\ (server' = "down" => memory' = None /\ cloner' = Idle)
    BY <1>1, <1>5 DEF PublishResult, Goto
  <2>4. Live' <=> Live
    BY <2>1 DEF Live
  <2>5. SomebodyReady' => SomebodyReady \/ cloner.goal = "Ready"
    BY <1>0, <2>1 DEF SomebodyReady, ClonerOK, IsReady, In
  <2>6. BornOK' /\ CallsOK'
    BY <1>0, <1>1, <2>1, <2>3, <2>4, ClonerStep
  <2>7. ClonerOK'
    <3>1. CASE cloner'.pc = "looking"
      BY <1>0, <2>2, <3>1 DEF ClonerOK, IsReady, In
    <3>2. CASE cloner'.pc = "none"
      <4>1. cloner' = Idle
        BY <1>0, <1>5, <3>2 DEF PublishResult, Goto, Cloners
      <4> QED
        BY <1>0, <4>1 DEF ClonerOK, IsReady, In
    <3> QED
      BY <2>2, <3>1, <3>2
  <2>8. WholeOK'
    BY <1>0, <2>2, <2>4, <2>5, ReportStep
  <2> QED
    BY <2>6, <2>7, <2>8
<1>6. CASE SaveResult /\ ~Accepts(cloner.copy)
  BY <1>2, <1>6 DEF SaveResult, Write
<1>7. CASE SaveFails
  BY <1>2, <1>7 DEF SaveFails
<1>8. CASE CopySummary /\ (memory = None \/ In(memory, "Deleting"))
  BY <1>2, <1>8 DEF CopySummary
<1> QED
  BY <1>3, <1>4, <1>5, <1>6, <1>7, <1>8

LEMMA MakingSteps ==
    ASSUME LifeInv,
           \/ Look \/ EnsureCache \/ FindRepository \/ Fetch \/ FindMaintainer
           \/ EnsureWorkspace \/ Clone \/ Prepare \/ CloneFails \/ PrepareFails
    PROVE  BornOK' /\ CallsOK' /\ ClonerOK' /\ WholeOK'
<1> USE DEF LifeInv
<1>0. /\ UNCHANGED <<row, creation, call, note>>
      /\ cloner \in Cloners
      /\ cloner.pc \in {"looking", "cache", "repository", "fetching", "agent", "workspace",
                        "cloning", "preparing"}
  BY DEF Look, EnsureCache, FindRepository, Fetch, FindMaintainer, EnsureWorkspace, Clone, Prepare,
         CloneFails, PrepareFails, resources, others, LifeTypeOK, At
<1>1. cloner.goal = "Cloning" /\ ~IsReady(cloner.copy) /\ cloner.pc # "none"
  BY <1>0 DEF ClonerOK
<1>2. creation = "over" /\ row # None /\ server # "down"
  BY <1>1, ClonerBegun
<1>3. \/ memory' = memory /\ server' = server
      \/ Return(FALSE)
  BY DEF Look, EnsureCache, FindRepository, Fetch, FindMaintainer, EnsureWorkspace, Clone, Prepare,
         CloneFails, PrepareFails, Goto
<1>4. /\ memory' = memory \/ memory' = None
      /\ server' # "up" => server # "up"
      /\ server' = "down" => memory' = None /\ cloner' = Idle
  BY <1>2, <1>3, Returns
<1>5. Live' <=> Live
  BY <1>0 DEF Live
<1>6. BornOK' /\ CallsOK'
  BY <1>0, <1>1, <1>2, <1>4, <1>5, ClonerStep
<1>7. Live => ~SomebodyReady /\ ~SomebodyReady'
  <2>1. Live => ~SomebodyReady
    BY <1>1 DEF WholeOK
  <2>2. SomebodyReady' => SomebodyReady
    BY <1>0, <1>4, NobodyIsAProject DEF SomebodyReady, IsReady, In
  <2> QED
    BY <2>1, <2>2
<1>8. Report("Failed").pc = "reporting" /\ Report("Failed").goal = "Failed" /\ Report("Failed").copy = None
  BY DEF Report
<1>9. ASSUME cloner' = Report("Failed") \/ cloner' = Report("Unprepared") \/ cloner' = Idle
      PROVE  ClonerOK' /\ WholeOK'
  <2>1. /\ cloner'.pc \in {"none", "reporting"} /\ cloner'.goal # "Ready" /\ cloner'.copy = None
        /\ cloner'.pc = "none" => cloner'.goal = "Cloning"
    BY <1>9 DEF Report, Idle
  <2>2. ClonerOK'
    BY <2>1, NobodyIsAProject DEF ClonerOK, IsReady, In
  <2>3. WholeOK'
    BY <1>5, <1>7, <2>1 DEF WholeOK
  <2> QED
    BY <2>2, <2>3
<1>10. ASSUME cloner'.goal = cloner.goal, cloner'.copy = cloner.copy,
              cloner'.pc \in {"cache", "repository", "fetching", "agent", "workspace", "cloning", "preparing"},
              cloner'.pc \in {"fetching", "agent", "workspace", "cloning", "preparing"} /\ Live
                => "cache" \in volumes',
              cloner'.pc \in {"cloning", "preparing"} /\ Live => "workspace" \in volumes',
              cloner'.pc = "preparing" => cloned'
       PROVE  ClonerOK' /\ WholeOK'
  <2>1. ClonerOK'
    BY <1>1, <1>10 DEF ClonerOK, IsReady, In
  <2>2. WholeOK'
    BY <1>1, <1>5, <1>7, <1>10 DEF WholeOK
  <2> QED
    BY <2>1, <2>2
<1>11. CASE Look \/ EnsureCache
  <2>1. CASE cloner' = Report("Failed")
    BY <1>6, <1>9, <2>1
  <2>2. CASE cloner' # Report("Failed")
    <3>1. /\ cloner'.pc \in {"cache", "repository"}
          /\ cloner'.goal = cloner.goal /\ cloner'.copy = cloner.copy
      BY <1>0, <1>11, <2>2 DEF Look, EnsureCache, Goto, Cloners
    <3> QED
      BY <1>6, <1>10, <3>1
  <2> QED
    BY <2>1, <2>2
<1>12. CASE FindRepository
  <2>1. CASE memory = None
    BY <1>6, <1>9, <1>12, <2>1 DEF FindRepository
  <2>2. CASE memory # None
    <3>1. cloner'.pc = "fetching" /\ cloner'.goal = cloner.goal /\ cloner'.copy = cloner.copy
      BY <1>0, <1>12, <2>2 DEF FindRepository, Cloners
    <3>2. "cache" \in volumes'
      BY <1>12, <2>2 DEF FindRepository
    <3> QED
      BY <1>6, <1>10, <3>1, <3>2
  <2> QED
    BY <2>1, <2>2
<1>13. CASE Fetch \/ FindMaintainer
  <2>1. CASE cloner' = Report("Failed")
    BY <1>6, <1>9, <2>1
  <2>2. CASE cloner' # Report("Failed")
    <3>1. /\ cloner'.pc \in {"agent", "workspace"}
          /\ cloner'.goal = cloner.goal /\ cloner'.copy = cloner.copy
      BY <1>0, <1>13, <2>2 DEF Fetch, FindMaintainer, Goto, Cloners
    <3>2. Live => "cache" \in volumes'
      BY <1>13 DEF Fetch, FindMaintainer, At, WholeOK, resources
    <3> QED
      BY <1>6, <1>10, <3>1, <3>2
  <2> QED
    BY <2>1, <2>2
<1>14. CASE EnsureWorkspace \/ Clone
  <2>1. /\ cloner'.pc \in {"cloning", "preparing"}
        /\ cloner'.pc = "preparing" => Clone
        /\ cloner'.goal = cloner.goal /\ cloner'.copy = cloner.copy
    BY <1>0, <1>14 DEF EnsureWorkspace, Clone, Goto, Cloners
  <2>2. Live => "cache" \in volumes' /\ "workspace" \in volumes'
    BY <1>14 DEF EnsureWorkspace, Clone, At, WholeOK
  <2>3. cloner'.pc = "preparing" => cloned'
    BY <2>1 DEF Clone
  <2> QED
    BY <1>6, <1>10, <2>1, <2>2, <2>3
<1>15. CASE Prepare /\ maintainer # "none"
  <2>1. cloner' = Report("Ready") /\ maintainer' = "prepared" /\ UNCHANGED <<volumes, cloned>>
    BY <1>15 DEF Prepare
  <2>2. cloner'.pc = "reporting" /\ cloner'.goal = "Ready" /\ cloner'.copy = None
    BY <2>1 DEF Report
  <2>3. ClonerOK'
    BY <2>2, NobodyIsAProject DEF ClonerOK, IsReady, In
  <2>4. Live => Whole'
    <3>1. Live => "cache" \in volumes /\ "workspace" \in volumes /\ cloned
      BY <1>15 DEF Prepare, At, WholeOK
    <3>2. volumes \subseteq Volumes
      BY DEF LifeTypeOK
    <3>3. Live => volumes = Volumes
      BY <3>1, <3>2 DEF Volumes
    <3> QED
      BY <2>1, <3>1, <3>3 DEF Whole
  <2>5. WholeOK'
    BY <1>5, <2>2, <2>4 DEF WholeOK
  <2> QED
    BY <1>6, <2>3, <2>5
<1>16. CASE Prepare /\ maintainer = "none"
  <2>1. cloner' = Idle
    BY <1>16, Returns DEF Prepare
  <2> QED
    BY <1>6, <1>9, <2>1
<1>17. CASE CloneFails \/ PrepareFails
  BY <1>6, <1>9, <1>17 DEF CloneFails, PrepareFails
<1> QED
  BY <1>6, <1>11, <1>12, <1>13, <1>14, <1>15, <1>16, <1>17

-----------------------------------------------------------------------------
THEOREM LifeInvariant == Spec => []LifeInv
<1>1. LifeInv /\ [Next]_vars => LifeInv'
  <2> SUFFICES ASSUME LifeInv, [Next]_vars PROVE LifeInv'
    OBVIOUS
  <2>1. LifeTypeOK'
    BY TypesStep
  <2>2. CASE Creation \/ CreateFails
    BY <2>1, <2>2, CreationSteps DEF LifeInv
  <2>3. CASE Cloning \/ CloningFails
    BY <2>1, <2>3, ReportingSteps, MakingSteps DEF LifeInv, Cloning, CloningFails
  <2>4. CASE \E u \in Users : \/ Update(u) \/ (\E kind \in Kinds : Ask(u, kind))
                              \/ Goes(u) \/ SaveCopyFails(u)
    BY <2>1, <2>4, UserSteps DEF LifeInv
  <2>5. CASE Review \/ SaveReview \/ Push \/ PushEnsure \/ PushEnds
    BY <2>1, <2>5, NotesSteps DEF LifeInv
  <2>6. CASE Crash \/ Start
    BY <2>1, <2>6, ServerSteps DEF LifeInv
  <2>7. CASE UNCHANGED vars
    BY <2>1, <2>7
    DEF LifeInv, vars, resources, others, BornOK, CallsOK, ClonerOK, WholeOK, Quiet, Live, Whole,
        SomebodyReady, IsReady, In
  <2> QED
    BY <2>2, <2>3, <2>4, <2>5, <2>6, <2>7 DEF Next
<1> QED
  BY <1>1, InitInv, PTL DEF Spec

\* Every variable keeps its type, for any number of callers and calls.
THEOREM LifeTypes == Spec => []LifeTypeOK
<1>1. LifeInv => LifeTypeOK
  BY DEF LifeInv
<1> QED
  BY <1>1, LifeInvariant, PTL

\* A project the store calls ready has a prepared maintainer, both volumes and
\* a whole clone: the clone has said so only at its end, and nobody who deletes
\* begins before the row is marked (delete_project, set_project_clone_result).
THEOREM ReadyWhole == Spec => []ReadyIsWhole
<1>1. LifeInv => ReadyIsWhole
  BY DEF LifeInv, WholeOK, SomebodyReady, Live, Whole, ReadyIsWhole, IsReady, In
<1> QED
  BY <1>1, LifeInvariant, PTL

\* No save, result or start takes a deletion back (save_project_row).
THEOREM DeletionStays == Spec => DeletionFinal
<1> DEFINE Stays == /\ row = Gone => row' = Gone
                    /\ In(row, "Deleting") => row' = Gone \/ In(row', "Deleting")
<1>1. LifeInv /\ [Next]_vars => [Stays]_row
  <2> SUFFICES ASSUME LifeInv, [Next]_vars, row' # row PROVE Stays
    OBVIOUS
  <2> USE DEF LifeInv
  <2>1. ASSUME NEW p \in Projects, Write(p) PROVE Stays
    BY <2>1, Writes
  <2>2. CASE InsertRow
    <3>1. row = None
      BY <2>2 DEF InsertRow, BornOK
    <3> QED
      BY <3>1, NobodyIsAProject DEF In
  <2>3. CASE SaveResult
    BY <2>1, <2>3 DEF SaveResult, At, ClonerOK
  <2>4. CASE \E u \in Users : SaveCopy(u) \/ SaveStopped(u)
    BY <2>1, <2>4 DEF SaveCopy, SaveStopped, CallsOK
  <2>5. CASE \E u \in Users : MarkDeleting(u)
    <3>1. PICK u \in Users : MarkDeleting(u)
      BY <2>5
    <3>2. memory # None /\ row' = memory' /\ row \in Projects
      BY <3>1 DEF MarkDeleting, Accepts
    <3>3. In(memory', "Deleting")
      BY <3>1, <3>2, Statuses DEF MarkDeleting, LifeTypeOK
    <3> QED
      BY <3>2, <3>3, NobodyIsAProject
  <2>6. CASE \E u \in Users : DeleteRow(u)
    BY <2>6 DEF DeleteRow
  <2>7. CASE SaveReview
    BY <2>1, <2>7 DEF SaveReview, LifeTypeOK
  <2>8. CASE Start
    BY <2>8, Loads, NobodyIsAProject DEF Start, In
  <2> QED
    BY <2>2, <2>3, <2>4, <2>5, <2>6, <2>7, <2>8
    DEF Next, vars, Creation, Cloning, CloningFails, Goes, CreateMaintainer, ListProject, CreateFails,
        CopySummary, PublishResult, Look, EnsureCache, FindRepository, Fetch, FindMaintainer,
        EnsureWorkspace, Clone, Prepare, SaveFails, CloneFails, PrepareFails, Update, Ask,
        SaveCopyFails, StopLoop, Cancel, DeleteAgents, DeleteVolumes, Forget, Review, Push,
        PushEnsure, PushEnds, Crash
<1> QED
  BY <1>1, LifeInvariant, PTL DEF Spec, DeletionFinal
=============================================================================
