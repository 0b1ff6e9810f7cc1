----------------------------- MODULE ProjectLife ----------------------------
(***************************************************************************)
(* The life of one project: its row, the summary in memory that is copied  *)
(* and saved back as a whole, the maintainer and the two volumes its       *)
(* repository lives in, the clone that makes them, the calls that update,  *)
(* cancel and delete it while the clone goes on, and the end and the start *)
(* of the server.                                                          *)
(***************************************************************************)
EXTENDS Naturals

CONSTANTS Users, None, Gone,
          Kinds,       \* calls and callbacks there are, of AllKinds
          Faults,      \* what may go wrong, of "docker", "save" and "server"
          MaxCalls,    \* bound: calls and callbacks begun
          MaxTroubles  \* bound: faults

AllKinds == {"update", "cancel", "delete", "push", "note"}

\* What of a ProjectSummary decides something here.
Projects == [status : {"Creating", "Ready", "Failed", "Deleting"},
             clone  : {"Pending", "Cloning", "Ready", "Failed"},
             auto   : BOOLEAN,
             error  : {"none", "cancelled", "missing", "recoverable", "other"}]

ASSUME LifeAssumption == /\ Kinds \subseteq AllKinds /\ Faults \subseteq {"docker", "save", "server"}
                         /\ MaxCalls \in Nat /\ MaxTroubles \in Nat
                         /\ None # Gone /\ {None, Gone} \cap Projects = {}

VARIABLES row,         \* projects: None, the project, and Gone when it was deleted
          memory,      \* ProjectRecord.summary, None when it is not listed
          maintainer,  \* the maintainer agent: "none", "recorded" or "prepared"
          volumes,     \* of "cache" and "workspace"
          cloned,      \* /workspace/repo is a whole clone
          creation,    \* the step of create_project
          cloner,      \* start_project_workspace
          call,        \* the call of each user
          note,        \* the summary a review is about to save
          sync,        \* the synchronisation a push began
          server,      \* "up", "starting" or "down"
          calls, troubles

resources == <<maintainer, volumes, cloned>>
others == <<note, sync>>
vars == <<row, memory, resources, creation, cloner, call, others, server, calls, troubles>>

Volumes == {"cache", "workspace"}
Goals == {"Cloning", "Ready", "Failed", "Unprepared"}

Idle == [pc |-> "none", goal |-> "Cloning", copy |-> None]
Report(goal) == [pc |-> "reporting", goal |-> goal, copy |-> None]
NoCall == [pc |-> "none", kind |-> "update", copy |-> None, ok |-> TRUE]

Init == /\ row = None /\ memory = None
        /\ maintainer = "none" /\ volumes = {} /\ cloned = FALSE
        /\ creation = "unasked" /\ cloner = Idle
        /\ call = [u \in Users |-> NoCall]
        /\ note = None /\ sync = "none"
        /\ server = "up" /\ calls = 0 /\ troubles = 0

In(p, status) == p \in Projects /\ p.status = status
IsReady(p) == In(p, "Ready") /\ p.clone = "Ready"

Trouble(fault) == /\ fault \in Faults /\ troubles < MaxTroubles
                  /\ troubles' = troubles + 1

\* Mutant of Accepts: the status of the row is not looked at.
AcceptsAny(p) == row \in Projects

\* save_project_row updates a row that exists and never takes back its deletion.
Accepts(p) == /\ row \in Projects
              /\ In(row, "Deleting") => In(p, "Deleting")

Write(p) == row' = IF Accepts(p) THEN p ELSE row

-----------------------------------------------------------------------------
\* create_project

CreateMaintainer ==
    /\ server = "up" /\ creation = "unasked"
    /\ creation' = "row"
    /\ maintainer' = "recorded"
    /\ UNCHANGED <<row, memory, volumes, cloned, cloner, call, others, server, calls, troubles>>

InsertRow ==
    /\ creation = "row"
    /\ creation' = "listing"
    /\ \E auto \in BOOLEAN : row' = [status |-> "Creating", clone |-> "Pending",
                                     auto |-> auto, error |-> "none"]
    /\ UNCHANGED <<memory, resources, cloner, call, others, server, calls, troubles>>

\* The initial references are saved; the project is listed and its clone begins.
ListProject ==
    /\ creation = "listing"
    /\ creation' = "over"
    /\ memory' = row
    /\ cloner' = Report("Cloning")
    /\ UNCHANGED <<row, resources, call, others, server, calls, troubles>>

\* insert_project_row or save_initial_references fails; nothing is taken back.
CreateFails ==
    /\ creation \in {"row", "listing"}
    /\ Trouble("save")
    /\ creation' = "over"
    /\ UNCHANGED <<row, memory, resources, cloner, call, others, server, calls>>

-----------------------------------------------------------------------------
\* start_project_workspace and set_project_clone_result

At(pc) == cloner.pc = pc
Goto(pc) == cloner' = [cloner EXCEPT !.pc = pc] /\ UNCHANGED server

\* The result of the clone: the startup that waits for it goes on, or fails.
Return(ok) == /\ cloner' = Idle
              /\ IF server # "starting" THEN UNCHANGED <<server, memory>>
                 ELSE IF ok THEN server' = "up" /\ UNCHANGED memory
                      ELSE server' = "down" /\ memory' = None

Outcome(p, goal) ==
    CASE goal = "Cloning" -> {[p EXCEPT !.status = "Creating", !.clone = "Cloning", !.error = "none"]}
      [] goal = "Ready"   -> {[p EXCEPT !.status = "Ready", !.clone = "Ready", !.error = "none"]}
      [] OTHER -> {[p EXCEPT !.status = "Failed", !.clone = "Failed", !.error = e] :
                     e \in {"recoverable", "other"}}

\* The summary is looked at and copied ...
CopySummary ==
    /\ At("reporting")
    /\ IF memory = None \/ In(memory, "Deleting") THEN Return(FALSE)
       ELSE \E p \in Outcome(memory, cloner.goal) :
              /\ cloner' = [cloner EXCEPT !.pc = "saving", !.copy = p]
              /\ UNCHANGED <<memory, server>>
    /\ UNCHANGED <<row, resources, creation, call, others, calls, troubles>>

\* ... the copy is saved ...
SaveResult ==
    /\ At("saving")
    /\ Write(cloner.copy)
    /\ IF Accepts(cloner.copy) THEN Goto("publishing") /\ UNCHANGED memory ELSE Return(FALSE)
    /\ UNCHANGED <<resources, creation, call, others, calls, troubles>>

SaveFails ==
    /\ At("saving")
    /\ Trouble("save")
    /\ Return(FALSE)
    /\ UNCHANGED <<row, resources, creation, call, others, calls>>

\* ... and replaces the summary.
PublishResult ==
    /\ At("publishing")
    /\ LET shown == IF memory = None THEN None ELSE cloner.copy IN
       IF cloner.goal = "Cloning" THEN Goto("looking") /\ memory' = shown
       ELSE /\ cloner' = Idle
            /\ IF server = "starting" /\ cloner.goal = "Unprepared"
               THEN server' = "down" /\ memory' = None
               ELSE server' = "up" /\ memory' = shown
    /\ UNCHANGED <<row, resources, creation, call, others, calls, troubles>>

\* clone_project_repository: the project and its token ...
Look ==
    /\ At("looking")
    /\ IF memory = None THEN cloner' = Report("Failed") ELSE cloner' = [cloner EXCEPT !.pc = "cache"]
    /\ UNCHANGED <<row, memory, resources, creation, call, others, server, calls, troubles>>

EnsureCache ==
    /\ At("cache")
    /\ Goto("repository")
    /\ volumes' = volumes \cup {"cache"}
    /\ UNCHANGED <<row, memory, maintainer, cloned, creation, call, others, calls, troubles>>

\* ... looked up once more, a fetch into the volume, made again if need be ...
FindRepository ==
    /\ At("repository")
    /\ IF memory = None THEN cloner' = Report("Failed") /\ UNCHANGED volumes
       ELSE /\ cloner' = [cloner EXCEPT !.pc = "fetching"]
            /\ volumes' = volumes \cup {"cache"}
    /\ UNCHANGED <<row, memory, maintainer, cloned, creation, call, others, server, calls, troubles>>

Fetch ==
    /\ At("fetching")
    /\ Goto("agent")
    /\ UNCHANGED <<row, memory, resources, creation, call, others, calls, troubles>>

FindMaintainer ==
    /\ At("agent")
    /\ cloner' = IF maintainer = "none" THEN Report("Failed") ELSE [cloner EXCEPT !.pc = "workspace"]
    /\ UNCHANGED <<row, memory, resources, creation, call, others, server, calls, troubles>>

\* ... the workspace of the maintainer, whose repository is removed first ...
EnsureWorkspace ==
    /\ At("workspace")
    /\ Goto("cloning")
    /\ volumes' = volumes \cup {"workspace"}
    /\ cloned' = FALSE
    /\ UNCHANGED <<row, memory, maintainer, creation, call, others, calls, troubles>>

\* ... and the clone.
Clone ==
    /\ At("cloning")
    /\ Goto("preparing")
    /\ cloned' = TRUE
    /\ UNCHANGED <<row, memory, maintainer, volumes, creation, call, others, calls, troubles>>

CloneFails ==
    /\ cloner.pc \in {"looking", "cache", "repository", "fetching", "agent", "workspace", "cloning"}
    /\ Trouble("docker")
    /\ cloner' = Report("Failed")
    /\ UNCHANGED <<row, memory, resources, creation, call, others, server, calls>>

\* Mutant of Prepare: the maintainer is left for later.
PrepareLater ==
    /\ At("preparing")
    /\ cloner' = Report("Ready")
    /\ UNCHANGED <<row, memory, resources, server, creation, call, others, calls, troubles>>

\* The container and the thread of the maintainer.
Prepare ==
    /\ At("preparing")
    /\ IF maintainer = "none" THEN Return(FALSE) /\ UNCHANGED maintainer
       ELSE /\ cloner' = Report("Ready")
            /\ maintainer' = "prepared"
            /\ UNCHANGED <<memory, server>>
    /\ UNCHANGED <<row, volumes, cloned, creation, call, others, calls, troubles>>

\* The container fails, or the registration, which rolls the maintainer back.
PrepareFails ==
    /\ At("preparing") /\ maintainer # "none"
    /\ Trouble("docker")
    /\ cloner' = Report("Unprepared")
    /\ \/ UNCHANGED resources
       \/ maintainer' = "none" /\ volumes' = volumes \ {"workspace"} /\ cloned' = FALSE
    /\ UNCHANGED <<row, memory, creation, call, others, server, calls>>

-----------------------------------------------------------------------------
\* update_project, cancel_project and delete_project

Admitted(kind) == /\ kind \in Kinds /\ server = "up"
                  /\ memory # None
                  /\ \/ /\ calls < MaxCalls
                        /\ calls' = calls + 1
                     \/ /\ kind = "delete" /\ In(row, "Deleting")
                        /\ UNCHANGED calls

Step(u, pc) == call' = [call EXCEPT ![u].pc = pc]
Ends(u) == call' = [call EXCEPT ![u] = NoCall]

\* The summary is written first and its copy is saved afterwards.
Update(u) ==
    /\ call[u].pc = "none" /\ Admitted("update")
    /\ \E auto \in BOOLEAN : memory' = [memory EXCEPT !.auto = auto]
    /\ call' = [call EXCEPT ![u] = [NoCall EXCEPT !.pc = "saving", !.copy = memory']]
    /\ UNCHANGED <<row, resources, creation, cloner, others, server, troubles>>

Ask(u, kind) ==
    /\ kind \in {"cancel", "delete"}
    /\ call[u].pc = "none" /\ Admitted(kind)
    /\ call' = [call EXCEPT ![u] = [NoCall EXCEPT !.pc = "stopping", !.kind = kind]]
    /\ UNCHANGED <<row, memory, resources, creation, cloner, others, server, troubles>>

\* save_project of an update or of a cancellation
SaveCopy(u) ==
    LET stops == Accepts(call[u].copy) /\ call[u].kind = "update" /\ ~call[u].copy.auto IN
    /\ call[u].pc = "saving"
    /\ Write(call[u].copy)
    /\ IF stops THEN Step(u, "stopping") ELSE Ends(u)
    /\ UNCHANGED <<memory, resources, creation, cloner, others, server, calls, troubles>>

SaveCopyFails(u) ==
    /\ call[u].pc = "saving"
    /\ Trouble("save")
    /\ Ends(u)
    /\ UNCHANGED <<row, memory, resources, creation, cloner, others, server, calls>>

AfterStop(kind) == CASE kind = "update" -> "none" [] kind = "cancel" -> "cancelling" [] OTHER -> "marking"

\* stop_project_review_loop disables the reviews in the summary ...
StopLoop(u) ==
    /\ call[u].pc = "stopping"
    /\ IF memory = None THEN Step(u, AfterStop(call[u].kind)) /\ UNCHANGED memory
       ELSE /\ memory' = [memory EXCEPT !.auto = FALSE]
            /\ call' = [call EXCEPT ![u].pc = "stopped", ![u].copy = memory']
    /\ UNCHANGED <<row, resources, creation, cloner, others, server, calls, troubles>>

\* ... and saves its copy; an error is logged.
SaveStopped(u) ==
    /\ call[u].pc = "stopped"
    /\ \/ Write(call[u].copy) /\ UNCHANGED troubles
       \/ Trouble("save") /\ UNCHANGED row
    /\ Step(u, AfterStop(call[u].kind))
    /\ UNCHANGED <<memory, resources, creation, cloner, others, server, calls>>

\* A project still in creation has failed.
Cancel(u) ==
    /\ call[u].pc = "cancelling"
    /\ IF memory = None THEN Ends(u) /\ UNCHANGED memory
       ELSE /\ memory' = IF memory.status # "Creating" THEN memory
                         ELSE [memory EXCEPT !.status = "Failed", !.error = "cancelled"]
            /\ call' = [call EXCEPT ![u].pc = "saving", ![u].copy = memory']
    /\ UNCHANGED <<row, resources, creation, cloner, others, server, calls, troubles>>

\* The summary and the row, under the lock of the summary.
MarkDeleting(u) ==
    /\ call[u].pc = "marking"
    /\ memory' = IF memory = None THEN None ELSE [memory EXCEPT !.status = "Deleting"]
    /\ \/ /\ memory # None /\ Accepts(memory')
          /\ row' = memory' /\ Step(u, "agents") /\ UNCHANGED troubles
       \/ /\ (memory = None \/ row \notin Projects)
          /\ Ends(u) /\ UNCHANGED <<row, troubles>>
       \/ memory # None /\ Trouble("save") /\ Ends(u) /\ UNCHANGED row
    /\ UNCHANGED <<resources, creation, cloner, others, server, calls>>

\* Volumes a sidecar or the container of the maintainer is attached to.
Attached == {v \in volumes : \/ v = "cache" /\ (cloner.pc \in {"fetching", "cloning"} \/ sync = "running")
                             \/ v = "workspace" /\ (At("cloning") \/ maintainer = "prepared")}

Refused(attached) == (attached /\ UNCHANGED troubles) \/ Trouble("docker")

\* Mutant of DeleteAgents: an agent that is gone already is a failure.
DeleteAgentsOnce(u) ==
    /\ call[u].pc = "agents"
    /\ \/ /\ ~At("cloning") /\ maintainer # "none"
          /\ maintainer' = "none" /\ volumes' = volumes \ {"workspace"} /\ cloned' = FALSE
          /\ Step(u, "volumes") /\ UNCHANGED troubles
       \/ /\ Refused(At("cloning") \/ maintainer = "none")
          /\ call' = [call EXCEPT ![u].pc = "volumes", ![u].ok = FALSE]
          /\ UNCHANGED resources
    /\ UNCHANGED <<row, memory, creation, cloner, others, server, calls>>

\* The maintainer with its container and its workspace; a failure is kept for later.
DeleteAgents(u) ==
    /\ call[u].pc = "agents"
    /\ \/ /\ ~At("cloning")
          /\ maintainer' = "none" /\ volumes' = volumes \ {"workspace"} /\ cloned' = FALSE
          /\ Step(u, "volumes") /\ UNCHANGED troubles
       \/ /\ Refused(At("cloning"))
          /\ call' = [call EXCEPT ![u].pc = "volumes", ![u].ok = FALSE]
          /\ UNCHANGED resources
    /\ UNCHANGED <<row, memory, creation, cloner, others, server, calls>>

\* delete_project_volumes, one by one until one of them cannot be removed: the
\* record of the project is deleted only when nothing failed.
DeleteVolumes(u) ==
    /\ call[u].pc = "volumes"
    /\ \/ /\ Attached = {} /\ volumes' = {} /\ UNCHANGED troubles
          /\ IF call[u].ok THEN Step(u, "row") ELSE Ends(u)
       \/ /\ volumes # {} /\ Refused(Attached # {})
          /\ volumes' \in {v \in SUBSET volumes : Attached \subseteq v /\ v # {}}
          /\ Ends(u)
    /\ cloned' = (cloned /\ "workspace" \in volumes')
    /\ UNCHANGED <<row, memory, maintainer, creation, cloner, others, server, calls>>

DeleteRow(u) ==
    /\ call[u].pc = "row"
    /\ \/ row' = Gone /\ Step(u, "forgetting") /\ UNCHANGED troubles
       \/ Trouble("save") /\ Ends(u) /\ UNCHANGED row
    /\ UNCHANGED <<memory, resources, creation, cloner, others, server, calls>>

Forget(u) ==
    /\ call[u].pc = "forgetting"
    /\ memory' = None
    /\ Ends(u)
    /\ UNCHANGED <<row, resources, creation, cloner, others, server, calls, troubles>>

-----------------------------------------------------------------------------
\* Reviews and pushes

\* set_project_review_state of the review worker: the summary is copied ...
Review ==
    /\ note = None /\ Admitted("note")
    /\ IsReady(memory)
    /\ note' = memory
    /\ UNCHANGED <<row, memory, resources, creation, cloner, call, sync, server, troubles>>

\* ... and saved, even when the worker was stopped meanwhile.
SaveReview ==
    /\ note # None
    /\ Write(note)
    /\ note' = None
    /\ UNCHANGED <<memory, resources, creation, cloner, call, sync, server, calls, troubles>>

\* handle_project_push_event looks the project and its token up ...
Push ==
    /\ sync = "none" /\ Admitted("push")
    /\ IsReady(memory)
    /\ sync' = "looked"
    /\ UNCHANGED <<row, memory, resources, creation, cloner, call, note, server, troubles>>

\* ... makes the cache volume and fetches into it.
PushEnsure ==
    /\ sync = "looked"
    /\ sync' = "running"
    /\ volumes' = volumes \cup {"cache"}
    /\ UNCHANGED <<row, memory, maintainer, cloned, creation, cloner, call, note, server, calls, troubles>>

PushEnds ==
    /\ sync # "none"
    /\ sync' = "none"
    /\ UNCHANGED <<row, memory, resources, creation, cloner, call, note, server, calls, troubles>>

-----------------------------------------------------------------------------
\* The end and the start of the server

Crash ==
    /\ server # "down"
    /\ Trouble("server")
    /\ server' = "down"
    /\ memory' = None /\ cloner' = Idle /\ note' = None /\ sync' = "none"
    /\ call' = [u \in Users |-> NoCall]
    /\ creation' = IF creation = "unasked" THEN "unasked" ELSE "over"
    /\ UNCHANGED <<row, resources, calls>>

\* Mutant of NeedsResume: an interrupted creation is left alone.
NeedsResumeFailed(p) == p.status = "Failed" /\ p.clone = "Failed" /\ p.error = "recoverable"

\* project_workspace_needs_startup_resume
NeedsResume(p) == \/ p.status = "Creating" /\ p.clone \in {"Pending", "Cloning", "Ready"}
                  \/ p.status = "Failed" /\ p.clone = "Failed" /\ p.error = "recoverable"

\* from_snapshot: a project whose maintainer is missing has failed.
Loaded(p) == IF maintainer = "none" /\ p.status # "Deleting"
             THEN [p EXCEPT !.status = "Failed", !.clone = "Failed", !.error = "missing"]
             ELSE p

\* reconcile_project_volumes removes what belongs to no record.
Orphans == (IF row \in Projects THEN {} ELSE {"cache"})
           \cup (IF maintainer = "none" THEN {"workspace"} ELSE {})

\* The start reads the records, removes the orphans and resumes the clone.
Start ==
    LET p == IF row \in Projects THEN Loaded(row) ELSE None
        resumes == p # None /\ NeedsResume(p) IN
    /\ server = "down"
    /\ row' = IF p = None THEN row ELSE p
    /\ memory' = p
    /\ volumes' = volumes \ Orphans
    /\ server' = IF resumes THEN "starting" ELSE "up"
    /\ cloner' = IF resumes THEN Report("Cloning") ELSE Idle
    /\ UNCHANGED <<maintainer, cloned, creation, call, others, calls, troubles>>

-----------------------------------------------------------------------------
Creation == CreateMaintainer \/ InsertRow \/ ListProject
Cloning == \/ CopySummary \/ SaveResult \/ PublishResult \/ Look \/ EnsureCache \/ FindRepository
           \/ Fetch \/ FindMaintainer \/ EnsureWorkspace \/ Clone \/ Prepare
CloningFails == SaveFails \/ CloneFails \/ PrepareFails
Goes(u) == \/ SaveCopy(u) \/ StopLoop(u) \/ SaveStopped(u) \/ Cancel(u) \/ MarkDeleting(u)
           \/ DeleteAgents(u) \/ DeleteVolumes(u) \/ DeleteRow(u) \/ Forget(u)

Next == \/ Creation \/ CreateFails \/ Cloning \/ CloningFails
        \/ \E u \in Users : \/ Update(u) \/ (\E kind \in Kinds : Ask(u, kind))
                           \/ Goes(u) \/ SaveCopyFails(u)
        \/ Review \/ SaveReview \/ Push \/ PushEnsure \/ PushEnds
        \/ Crash \/ Start

Spec == Init /\ [][Next]_vars

\* What was begun goes on, a server that ended is started again, and a user
\* whose deletion failed asks for it again.
FairSpec == /\ Spec
            /\ WF_vars(Cloning) /\ WF_vars(SaveReview) /\ WF_vars(PushEnds) /\ WF_vars(Start)
            /\ \A u \in Users : WF_vars(Goes(u))
            /\ \A u \in Users : WF_vars(Ask(u, "delete") /\ In(row, "Deleting"))

-----------------------------------------------------------------------------
Cloners == [pc : {"none", "reporting", "saving", "publishing", "looking", "cache", "repository",
                  "fetching", "agent", "workspace", "cloning", "preparing"},
            goal : Goals, copy : Projects \cup {None}]
Calls == [pc : {"none", "saving", "stopping", "stopped", "cancelling", "marking",
                "agents", "volumes", "row", "forgetting"},
          kind : {"update", "cancel", "delete"},
          copy : Projects \cup {None}, ok : BOOLEAN]

LifeTypeOK ==
    /\ row \in Projects \cup {None, Gone}
    /\ memory \in Projects \cup {None}
    /\ maintainer \in {"none", "recorded", "prepared"}
    /\ volumes \subseteq Volumes /\ cloned \in BOOLEAN
    /\ creation \in {"unasked", "row", "listing", "over"}
    /\ cloner \in Cloners /\ call \in [Users -> Calls]
    /\ note \in Projects \cup {None} /\ sync \in {"none", "looked", "running"}
    /\ server \in {"up", "starting", "down"}
    /\ calls \in 0 .. MaxCalls /\ troubles \in 0 .. MaxTroubles

\* A deletion is never taken back: no save of an older summary, no late result
\* and no start of the server leaves the row in another status, and a row that
\* was deleted does not come back.
DeletionFinal ==
    [][/\ row = Gone => row' = Gone
       /\ In(row, "Deleting") => row' = Gone \/ In(row', "Deleting")]_row

\* A project the store calls ready has a prepared maintainer, both volumes and
\* a whole clone, whatever calls, failures and restarts came between.
ReadyIsWhole ==
    IsReady(row) => maintainer = "prepared" /\ volumes = Volumes /\ cloned

\* A deletion that is begun and asked for again when it fails ends with the row
\* deleted.
DeletionFinishes ==
    In(row, "Deleting") ~> row = Gone

\* A project that was ready stays so until it is deleted: an update copies the
\* summary before it saves it (update_project), and a result of the clone that
\* is published between the two is written back from the older copy.
ReadyLasts ==
    [][IsReady(row) => row' = Gone \/ IsReady(row') \/ In(row', "Deleting")]_row

\* A creation that is under way, or that the end of the server interrupted,
\* comes to a result that is shown once nothing fails any more.
UnderWay == In(row, "Creating") /\ (server = "down" \/ cloner.pc # "none")

CloneSettles ==
    UnderWay /\ troubles = MaxTroubles ~> server = "up" /\ ~In(memory, "Creating")

\* The status of a deletion is shown as long as the project is (the doc of
\* set_project_clone_result: a late result does not rewrite it).
DeletionShown ==
    In(row, "Deleting") => memory = None \/ In(memory, "Deleting")

\* A cancelled project stays failed (a comment of cancel_project calls it final).
CancelLasts ==
    [][In(row, "Failed") /\ row.error = "cancelled" =>
         row' = Gone \/ In(row', "Failed") \/ In(row', "Deleting")]_row

\* A project whose record is deleted has left neither agent nor volume (the
\* comment of delete_project).
DeletedIsGone ==
    row = Gone => maintainer = "none" /\ volumes = {}
=============================================================================
