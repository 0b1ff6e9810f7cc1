------------------------ MODULE ReferenceApplication ------------------------
(***************************************************************************)
(* How a saved reference configuration of a project reaches the container  *)
(* of one of its agents: the configuration and the durable operations of   *)
(* mai-store, the operation that replaces the container (snapshot of the   *)
(* old one, candidate, verification, publication, cleanup), the gate that  *)
(* keeps turns out meanwhile, the environment published on first use, and  *)
(* what Docker keeps through a crash of the server.                        *)
(*                                                                         *)
(* A generation names one container: 0 is the one made on first use, o > 0 *)
(* the candidate of operation o.                                           *)
(***************************************************************************)
EXTENDS Naturals, Sequences, FiniteSets

CONSTANTS MaxRevision,    \* bound: configurations saved
          MaxOperations,  \* bound: operations recorded
          MaxRequests,    \* bound: operations there may be after one is asked for
          MaxWork,        \* bound: changes turns make in their container
          MaxTroubles,    \* bound: failing steps and ends of the server
          None,
          Events          \* requests there are besides: "stop", "metadata"

Revisions == 0 .. MaxRevision
Operations == 1 .. MaxOperations
Generations == 0 .. MaxOperations

ASSUME ReferenceAssumption == /\ MaxRevision \in Nat /\ MaxOperations \in Nat /\ MaxRequests \in Nat
                              /\ MaxRequests <= MaxOperations
                              /\ MaxWork \in Nat /\ MaxTroubles \in Nat
                              /\ None \notin Nat

VARIABLES revision,    \* project_reference_configs
          mounts,      \* the fingerprint of each revision: the first one that had it
          ops,         \* reference_apply_operations in the order of their creation
          binding,     \* agent_reference_bindings: generation and revision, or None
          row,         \* agents.container_id
          shown,       \* container_id of the agent's summary in memory
          docker,      \* the containers: state, writable layer, mounts
          image,       \* snapshot images by operation: the layer kept, or None
          pending,     \* AgentAdmission.pending: the revision the gate waits for
          lease,       \* the generation with an active environment lease
          tools,       \* the generation the resident thread's tools were assembled for
          turn,        \* the generation of the admitted turn
          cancelling,  \* a request to stop and apply is still to cancel the turn
          holder,      \* who holds the lifecycle lock of the agent
          request,     \* the request that holds the lock of the project, or None
          queued,      \* the claimed operation that waits for it, as it was read, or None
          finished,    \* claimed operations whose worker is still to compensate
          server,      \* "starting", "recovering" or "up"
          work,        \* changes made by turns in all
          troubles     \* steps that failed and ends of the server in all

tables == <<revision, mounts, ops, binding, row>>
memory == <<shown, pending, lease, tools, turn, cancelling>>
counts == <<work, troubles>>
vars == <<revision, mounts, ops, binding, row, shown, docker, image, pending, lease, tools, turn,
          cancelling, holder, request, queued, finished, server, work, troubles>>

Terminal == {"succeeded", "failed", "superseded"}
Phases == {"waiting_idle", "draining", "snapshotting", "creating", "verifying",
           "rebinding", "publishing", "cleanup_pending"} \cup Terminal
Policies == {"when_idle", "stop_and_apply"}

Bindings == [generation : Generations, revision : Revisions]
Containers == [state : {"absent", "stopped", "running"}, layer : 0 .. MaxWork, mounts : Revisions]
Receipt == [target : Revisions, policy : Policies, phase : Phases,
            old : Generations \cup {None}, candidate : Generations \cup {None},
            facts : BOOLEAN]
Claims == [id : Operations, receipt : Receipt]

\* pc: what comes next; physical: what the inventory said of the agent.
Requests == [pc : {"commit", "block", "look"}, physical : BOOLEAN, policy : Policies]

ASSUME NoneAssumption == None \notin Bindings \cup Receipt \cup Claims \cup Requests

(* task: None, 0 for the assembly of an environment, or the operation that  *)
(* runs; receipt: its copy; read: the revision it read; resident: what the  *)
(* shortcut for equal mounts found of the lease.                            *)
Fallible == {"read", "same", "same_publish", "waiting", "draining", "quiescing", "snapshotting",
             "creating", "created", "rebinding", "publishing",
             "activating", "cleaning", "retiring", "succeeding", "superseding", "superseded"}
Steps == Fallible \cup {"idle", "opening", "yielding", "failing", "failed",
                       "assembling", "blocking", "saving", "adopting", "recording"}
Holders == [task : Generations \cup {None}, pc : Steps, receipt : Receipt \cup {None},
            read : Revisions, resident : BOOLEAN]
Free == [task |-> None, pc |-> "idle", receipt |-> None, read |-> 0, resident |-> FALSE]

(* An agent without a container yet, or one from before there were bindings, *)
(* whose container mounts no references, as the empty configuration asks.    *)
Init == /\ revision = 0
        /\ mounts = [r \in Revisions |-> 0]
        /\ ops = <<>>
        /\ binding = None
        /\ row \in {None, 0}
        /\ shown = row
        /\ docker = [g \in Generations |->
                       [state |-> IF g = 0 /\ row = 0 THEN "running" ELSE "absent",
                        layer |-> 0, mounts |-> 0]]
        /\ image = [o \in Operations |-> None]
        /\ pending = None
        /\ lease = None
        /\ tools = None
        /\ turn = None
        /\ cancelling = FALSE
        /\ holder = Free
        /\ request = None
        /\ queued = None
        /\ finished = {}
        /\ server = "up"
        /\ work = 0
        /\ troubles = 0

-----------------------------------------------------------------------------
\* The store

Unfinished(o) == ops[o].phase \notin Terminal
Active == \E o \in DOMAIN ops : Unfinished(o)
LatestPhase == IF ops = <<>> THEN "none" ELSE ops[Len(ops)].phase
Physical == row # None \/ binding # None

NewReceipt(r, policy) == [target |-> r, policy |-> policy, phase |-> "waiting_idle",
                          old |-> row, candidate |-> None, facts |-> FALSE]

\* The operations after the intent to apply revision r; "unapplied" leaves out
\* an agent that has it, unless its latest operation failed.
Enqueued(r, policy, scope) ==
    LET applied == binding # None /\ binding.revision >= r /\ LatestPhase # "failed"
        rows == IF Active THEN ops ELSE Append(ops, NewReceipt(r, policy))
    IN IF ~Physical \/ (scope = "unapplied" /\ applied) THEN ops
       ELSE [o \in DOMAIN rows |->
               IF policy = "stop_and_apply" /\ rows[o].phase \notin Terminal
               THEN [rows[o] EXCEPT !.policy = policy] ELSE rows[o]]

\* Mutant of Published: any publication opens the gate.
PublishedAnything(r) == None

\* The gate: block keeps the largest target, published releases what it reaches.
Blocked(r) == IF pending = None \/ pending < r THEN r ELSE pending
Published(r) == IF pending # None /\ pending <= r THEN None ELSE pending

Exists(g) == docker[g].state # "absent"
Stopped(gs) == [g \in Generations |->
                  IF g \in gs /\ Exists(g) THEN [docker[g] EXCEPT !.state = "stopped"]
                  ELSE docker[g]]
Removed(gs) == [g \in Generations |->
                  IF g \in gs THEN [docker[g] EXCEPT !.state = "absent"] ELSE docker[g]]

-----------------------------------------------------------------------------
\* Requests of the administrator

\* A request to replace the configuration, under the lock of the project: what
\* it knows of the agent it reads before the transaction. From here on the gate
\* is closed, for as long as the request takes.
TakeInventory ==
    /\ server = "up"
    /\ request = None
    /\ revision < MaxRevision
    /\ request' = [pc |-> "commit", physical |-> Physical, policy |-> "when_idle"]
    /\ UNCHANGED <<tables, memory, docker, image, holder, queued, finished, server, counts>>

\* The new bindings mount what an earlier revision did, or something new.
Replace(fingerprint) ==
    /\ request # None /\ request.pc = "commit"
    /\ LET next == revision + 1
       IN /\ next \in Revisions
          /\ fingerprint \in {next} \cup {mounts[r] : r \in 0 .. revision}
          /\ fingerprint = mounts[revision] => "metadata" \in Events
          /\ revision' = next
          /\ mounts' = [mounts EXCEPT ![next] = fingerprint]
          /\ ops' = Enqueued(next, "when_idle", "unapplied")
          /\ Len(ops') < MaxOperations
    /\ request' = [request EXCEPT !.pc = "block"]
    /\ UNCHANGED <<binding, row, memory, docker, image, holder, queued, finished, server, counts>>

\* The transaction refuses, or nothing is changed.
KeepConfiguration ==
    /\ request # None /\ request.pc = "commit"
    /\ request' = None
    /\ UNCHANGED <<tables, memory, docker, image, holder, queued, finished, server, counts>>

\* Mutant of BlockReplaced: the gate is left to the operation.
BlockNothing ==
    /\ request # None /\ request.pc = "block"
    /\ request' = None
    /\ UNCHANGED <<tables, memory, docker, image, holder, queued, finished, server, counts>>

\* The gate is handed to the operation, if the inventory had an environment.
BlockReplaced ==
    /\ request # None /\ request.pc = "block"
    /\ pending' = IF request.physical THEN Blocked(revision) ELSE pending
    /\ request' = None
    /\ UNCHANGED <<tables, shown, lease, tools, turn, cancelling, docker, image, holder, queued,
                   finished, server, counts>>

RequestApply(policy) ==
    /\ server = "up"
    /\ request = None
    /\ policy = "stop_and_apply" => "stop" \in Events
    /\ ops' = Enqueued(revision, policy, "all")
    /\ Len(ops') <= MaxRequests
    /\ request' = [pc |-> "look", physical |-> Physical, policy |-> policy]
    /\ UNCHANGED <<revision, mounts, binding, row, memory, docker, image, holder, queued, finished,
                   server, counts>>

\* The gate is closed for whatever operation is now unfinished; if they cannot be
\* read, the request ends there.
BlockUnfinished ==
    /\ request # None /\ request.pc = "look"
    /\ request' = None
    /\ \/ /\ pending' = IF Active THEN Blocked(revision) ELSE pending
          /\ cancelling' = (cancelling \/ (request.policy = "stop_and_apply" /\ Physical))
          /\ UNCHANGED troubles
       \/ /\ troubles < MaxTroubles
          /\ troubles' = troubles + 1
          /\ UNCHANGED <<pending, cancelling>>
    /\ UNCHANGED <<tables, shown, lease, tools, turn, docker, image, holder, queued, finished,
                   server, work>>

CancelReferenceTurn ==
    /\ cancelling
    /\ cancelling' = FALSE
    /\ turn' = None
    /\ UNCHANGED <<tables, shown, docker, image, pending, lease, tools, holder, request,
                   queued, finished, server, counts>>

-----------------------------------------------------------------------------
\* Operations: who runs them

\* A worker claims the operation its receipt is of, until it has compensated.
Launch ==
    /\ server = "up"
    /\ queued = None
    /\ \E o \in DOMAIN ops :
         /\ Unfinished(o)
         /\ o \notin finished /\ o # holder.task
         /\ queued' = [id |-> o, receipt |-> ops[o]]
    /\ UNCHANGED <<tables, shown, docker, image, pending, lease, tools, turn, cancelling, holder,
                   request, finished, server, counts>>

Begin ==
    /\ holder = Free
    /\ queued # None
    /\ holder' = [Free EXCEPT !.task = queued.id, !.pc = "read", !.receipt = queued.receipt]
    /\ queued' = None
    /\ pending' = Blocked(queued.receipt.target)
    /\ UNCHANGED <<tables, shown, docker, image, lease, tools, turn, cancelling, request,
                   finished, server, counts>>

\* Mutant of Compensate: a superseded operation is not followed by the next.
CompensateFailed ==
    \E o \in finished :
        /\ finished' = finished \ {o}
        /\ ops' = IF \E p \in DOMAIN ops : ops[p].phase = "failed" /\ ops[p].target < revision
                  THEN Enqueued(revision, "when_idle", "unapplied") ELSE ops
        /\ Len(ops') <= MaxOperations
        /\ server' = "up"
        /\ UNCHANGED <<revision, mounts, binding, row, shown, docker, image, pending, lease, tools,
                       turn, cancelling, holder, request, queued, counts>>

\* An old intention becomes one for the latest revision when a worker is done.
Compensate ==
    \E o \in finished :
        /\ finished' = finished \ {o}
        /\ ops' = IF \E p \in DOMAIN ops : ~Unfinished(p) /\ ops[p].target < revision
                  THEN Enqueued(revision, "when_idle", "unapplied") ELSE ops
        /\ Len(ops') <= MaxOperations
        /\ server' = "up"
        /\ UNCHANGED <<revision, mounts, binding, row, shown, docker, image, pending, lease, tools,
                       turn, cancelling, holder, request, queued, counts>>

-----------------------------------------------------------------------------
\* Operations: apply_inner, one step for every phase and every effect

Task == holder.task
Own == holder.receipt
Running(pc) == holder.pc = pc /\ server # "starting"
Goto(pc) == holder' = [holder EXCEPT !.pc = pc]
\* phase: the whole receipt, with the policy this copy has, replaces the row.
SaveAs(receipt, pc) == /\ ops' = [ops EXCEPT ![Task] = receipt]
                       /\ holder' = [holder EXCEPT !.receipt = receipt, !.pc = pc]
Save(phase, pc) == SaveAs([Own EXCEPT !.phase = phase], pc)
Done == holder' = Free /\ finished' = finished \cup {Task}

others == <<request, queued, finished, server, counts>>

ReadConfiguration ==
    /\ Running("read")
    /\ LET stale == Own.target # revision
           waiting == Own.phase = "waiting_idle"
       IN \/ stale /\ waiting /\ Save("superseded", "yielding")
          \/ stale /\ ~waiting /\ Goto("superseding") /\ UNCHANGED ops
          \/ /\ ~stale
             /\ Goto(IF ~waiting THEN "draining"
                     ELSE IF binding = None \/ mounts[binding.revision] # mounts[revision]
                     THEN "waiting"
                     ELSE IF ~Exists(binding.generation) THEN "failing"
                     ELSE IF docker[binding.generation].mounts = mounts[revision] THEN "same"
                     ELSE "waiting")
             /\ UNCHANGED ops
    /\ UNCHANGED <<revision, mounts, binding, row, docker, image, memory, others>>

\* The mounts are the same: the environment stays, and its lease is found or
\* the container is started again and leased.
KeepEnvironment ==
    /\ Running("same")
    /\ holder' = [holder EXCEPT !.pc = "same_publish", !.resident = lease = binding.generation]
    /\ IF lease = binding.generation
       THEN UNCHANGED <<docker, lease, shown, turn>>
       ELSE /\ turn = None \/ Own.policy = "stop_and_apply"
            /\ turn' = None
            /\ docker' = [docker EXCEPT ![binding.generation].state = "running"]
            /\ lease' = binding.generation
            /\ shown' = binding.generation
    /\ UNCHANGED <<tables, image, pending, tools, cancelling, others>>

\* The transaction checks the revision, the operation itself does not.
PublishSame ==
    /\ Running("same_publish")
    /\ IF revision # Own.target
       THEN Goto("failing") /\ UNCHANGED <<binding, row, lease, tools>>
       ELSE /\ binding' = [binding EXCEPT !.revision = Own.target]
            /\ row' = binding.generation
            /\ lease' = binding.generation
            /\ tools' = IF holder.resident \/ tools = None THEN tools ELSE binding.generation
            /\ Goto("retiring")
    /\ UNCHANGED <<revision, mounts, ops, docker, image, shown, pending, turn, cancelling, others>>

WaitIdle ==
    /\ Running("waiting")
    /\ LET receipt == [Own EXCEPT !.policy = ops[Task].policy]
       IN \/ /\ receipt.policy = "stop_and_apply" \/ turn = None
             /\ holder' = [holder EXCEPT !.receipt = receipt, !.pc = "draining"]
             /\ UNCHANGED ops
          \/ /\ receipt.policy # "stop_and_apply" /\ turn # None
             /\ revision # Own.target
             /\ SaveAs([receipt EXCEPT !.phase = "superseded"], "yielding")
    /\ UNCHANGED <<revision, mounts, binding, row, docker, image, memory, others>>

Drain ==
    /\ Running("draining")
    /\ Save("draining", "quiescing")
    /\ UNCHANGED <<revision, mounts, binding, row, docker, image, memory, others>>

Quiesce ==
    /\ Running("quiescing")
    /\ turn = None \/ Own.policy = "stop_and_apply"
    /\ turn' = None
    /\ lease' = None
    /\ IF Own.old = None \/ (~Own.facts /\ ~Exists(Own.old))
       THEN Goto("failing") /\ UNCHANGED ops
       ELSE SaveAs([Own EXCEPT !.facts = TRUE, !.phase = "snapshotting"], "snapshotting")
    /\ UNCHANGED <<revision, mounts, binding, row, docker, image, shown, pending, tools, cancelling,
                   others>>

\* The snapshot of this operation is found by its name, or taken of the old one.
Snapshot ==
    /\ Running("snapshotting")
    /\ \/ image[Task] # None /\ Goto("creating") /\ UNCHANGED <<docker, image>>
       \/ /\ image[Task] = None /\ Exists(Own.old)
          /\ docker' = Stopped({Own.old})
          /\ image' = [image EXCEPT ![Task] = docker[Own.old].layer]
          /\ Goto("creating")
       \/ /\ image[Task] = None /\ ~Exists(Own.old)
          /\ Goto("failing") /\ UNCHANGED <<docker, image>>
    /\ UNCHANGED <<tables, memory, others>>

\* A candidate of this generation that a crash left is used again.
CreateCandidate ==
    /\ Running("creating")
    /\ Save("creating", "created")
    /\ docker' = IF Exists(Task) THEN docker
                 ELSE [docker EXCEPT ![Task] = [state |-> "running", layer |-> image[Task],
                                                mounts |-> mounts[Own.target]]]
    /\ UNCHANGED <<revision, mounts, binding, row, image, memory, others>>

SaveCandidate ==
    /\ Running("created")
    /\ SaveAs([Own EXCEPT !.candidate = Task, !.phase = "verifying"], "rebinding")
    /\ UNCHANGED <<revision, mounts, binding, row, docker, image, memory, others>>

\* Verified and started, the candidate gets the lease and the MCP services.
Rebind ==
    /\ Running("rebinding")
    /\ docker' = [docker EXCEPT ![Task].state = "running"]
    /\ lease' = Task
    /\ shown' = Task
    /\ Save("publishing", "publishing")
    /\ UNCHANGED <<revision, mounts, binding, row, image, pending, tools, turn, cancelling, others>>

\* Under the lock of the project.
Publish ==
    /\ Running("publishing")
    /\ request = None
    /\ IF revision # Own.target
       THEN Goto("superseding") /\ UNCHANGED <<binding, row>>
       ELSE /\ binding' = [generation |-> Task, revision |-> Own.target]
            /\ row' = Task
            /\ Goto("activating")
    /\ UNCHANGED <<revision, mounts, ops, docker, image, memory, others>>

Activate ==
    /\ Running("activating")
    /\ shown' = Task
    /\ tools' = IF tools = None THEN None ELSE Task
    /\ Save("cleanup_pending", "cleaning")
    /\ UNCHANGED <<revision, mounts, binding, row, docker, image, pending, lease, turn, cancelling,
                   others>>

RemoveOld ==
    /\ Running("cleaning")
    /\ docker' = Removed({Own.old} \ {Task})
    /\ Goto("retiring")
    /\ UNCHANGED <<tables, image, memory, others>>

\* retire_previous_operations: the containers of the earlier ones that failed
\* or were superseded go, but for the one that is current.
Leftovers(o) == {g \in {ops[o].old, ops[o].candidate} \ {None, binding.generation} : Exists(g)}
Retirable(o) == o < Task /\ ops[o].phase \in {"failed", "superseded"}
                /\ (ops[o].phase = "failed" \/ Leftovers(o) # {})
Retire ==
    /\ Running("retiring")
    /\ \/ \E o \in DOMAIN ops :
            /\ Retirable(o)
            /\ \A p \in DOMAIN ops : Retirable(p) => o <= p
            /\ docker' = Removed(Leftovers(o))
            /\ ops' = [ops EXCEPT ![o].phase = "superseded"]
            /\ UNCHANGED holder
       \/ /\ \A o \in DOMAIN ops : ~Retirable(o)
          /\ Goto("succeeding")
          /\ UNCHANGED <<docker, ops>>
    /\ UNCHANGED <<revision, mounts, binding, row, image, memory, others>>

Succeed ==
    /\ Running("succeeding")
    /\ Save("succeeded", "opening")
    /\ UNCHANGED <<revision, mounts, binding, row, docker, image, memory, others>>

\* reclaim_snapshot_resources removes the images that no binding, no container
\* and no unsettled operation needs.
Reclaimed == [o \in Operations |->
                IF \/ binding # None /\ binding.generation = o
                   \/ o \in DOMAIN ops /\ ops[o].phase \notin {"succeeded", "superseded"}
                   \/ Exists(o)
                THEN image[o] ELSE None]

\* The end of an operation that applied its target, and of one that gave way.
Open ==
    /\ Running("opening")
    /\ pending' = Published(Own.target)
    /\ image' = Reclaimed
    /\ Done
    /\ UNCHANGED <<tables, docker, shown, lease, tools, turn, cancelling, request, queued,
                   server, counts>>

Yield ==
    /\ Running("yielding")
    /\ image' = Reclaimed
    /\ Done
    /\ UNCHANGED <<tables, docker, memory, request, queued, server, counts>>

\* Mutant of Supersede: a candidate already published is removed too.
SupersedeAnyway ==
    /\ Running("superseding")
    /\ turn' = None
    /\ lease' = None
    /\ docker' = IF Own.candidate = None THEN docker
                 ELSE Removed({Own.candidate})
    /\ Goto("superseded")
    /\ UNCHANGED <<tables, image, shown, pending, tools, cancelling, others>>

\* supersede: what this receipt knows to have created goes, unless published.
Supersede ==
    /\ Running("superseding")
    /\ turn' = None
    /\ lease' = None
    /\ docker' = IF Own.candidate = None THEN docker
                 ELSE IF binding # None /\ binding.generation = Own.candidate
                 THEN Stopped({Own.candidate}) ELSE Removed({Own.candidate})
    /\ Goto("superseded")
    /\ UNCHANGED <<tables, image, shown, pending, tools, cancelling, others>>

SaveSuperseded ==
    /\ Running("superseded")
    /\ Save("superseded", "yielding")
    /\ UNCHANGED <<revision, mounts, binding, row, docker, image, memory, others>>

\* Some call of the step fails or takes too long.
Fault ==
    /\ Task # None /\ \E pc \in Fallible : Running(pc)
    /\ troubles < MaxTroubles
    /\ troubles' = troubles + 1
    /\ Goto("failing")
    /\ UNCHANGED <<tables, docker, image, memory, request, queued, finished, server, work>>

\* The error path of run_operation; the turn may outlast the minute it waits.
Fail ==
    /\ Running("failing")
    /\ turn' \in {None, turn}
    /\ lease' = None
    /\ docker' = Stopped({Own.candidate, Own.old} \ {None})
    /\ Goto("failed")
    /\ UNCHANGED <<tables, image, shown, pending, tools, cancelling, others>>

SaveFailed ==
    /\ Running("failed")
    /\ Done
    /\ \/ ops' = [ops EXCEPT ![Task] = [Own EXCEPT !.phase = "failed"]] /\ UNCHANGED troubles
       \/ troubles < MaxTroubles /\ troubles' = troubles + 1 /\ UNCHANGED ops
    /\ UNCHANGED <<revision, mounts, binding, row, docker, image, memory, request, queued, server,
                   work>>

-----------------------------------------------------------------------------
\* The environment on first use, and after a restart

\* COALESCE of save_agent_row: what any save of the summary leaves in the row.
RowWith(summary) == IF binding # None THEN binding.generation ELSE summary

\* start_reference_environment holds the lock of the agent for all its steps.
Assemble ==
    /\ server = "up"
    /\ holder = Free
    /\ request = None
    /\ lease = None /\ pending = None
    /\ holder' = [Free EXCEPT !.task = 0, !.pc = "assembling", !.read = revision]
    /\ UNCHANGED <<tables, docker, image, memory, others>>

\* The container the rows name, or the one an assembly left that no row names.
Preferred == IF binding # None THEN binding.generation
             ELSE IF shown # None THEN shown
             ELSE IF Exists(0) THEN 0 ELSE None

\* No binding names a candidate: it does not pass for a first environment.
Matches(g) == /\ docker[g].mounts = mounts[holder.read]
              /\ binding # None \/ g = 0

Discover ==
    /\ Running("assembling")
    /\ binding = None /\ shown = None /\ Exists(0)
    /\ shown' = 0
    /\ row' = 0
    /\ UNCHANGED <<revision, mounts, ops, binding, docker, image, pending, lease, tools, turn,
                   cancelling, holder, others>>

\* Other mounts than the configuration asks for: an operation is to make a new
\* container; it is recorded only for the revision this assembly has read.
FindContainer ==
    /\ Running("assembling")
    /\ binding # None \/ shown # None
    /\ \/ /\ Exists(Preferred) /\ Matches(Preferred)
          /\ Goto("adopting")
          /\ docker' = [docker EXCEPT ![Preferred].state = "running"]
          /\ UNCHANGED <<ops, row>>
       \/ /\ Exists(Preferred) /\ ~Matches(Preferred) /\ holder.read = revision
          /\ Goto("blocking")
          /\ ops' = Enqueued(revision, "when_idle", "all")
          /\ Len(ops') <= MaxOperations
          /\ UNCHANGED <<docker, row>>
       \/ /\ ~Exists(Preferred) \/ (~Matches(Preferred) /\ holder.read # revision)
          /\ holder' = Free
          /\ row' = RowWith(shown)
          /\ UNCHANGED <<docker, ops>>
    /\ UNCHANGED <<revision, mounts, binding, image, memory, others>>

\* Only then the gate is closed; the refused start saves the summary.
BlockFound ==
    /\ Running("blocking")
    /\ pending' = Blocked(holder.read)
    /\ holder' = Free
    /\ row' = RowWith(shown)
    /\ UNCHANGED <<revision, mounts, ops, binding, docker, image, shown, lease, tools, turn,
                   cancelling, others>>

CreateContainer ==
    /\ Running("assembling")
    /\ Preferred = None
    /\ docker' = [docker EXCEPT ![0] = [state |-> "running", layer |-> 0,
                                       mounts |-> mounts[holder.read]]]
    /\ Goto("saving")
    /\ UNCHANGED <<tables, image, memory, others>>

SaveContainer ==
    /\ Running("saving")
    /\ row' = 0
    /\ shown' = 0
    /\ Goto("adopting")
    /\ UNCHANGED <<revision, mounts, ops, binding, docker, image, pending, lease, tools, turn,
                   cancelling, others>>

\* Under the lock of the project, if the revision is still the one read. Then the
\* MCP services may fail, and the gate closes for good.
Adopt ==
    /\ Running("adopting")
    /\ request = None
    /\ holder.read = revision
    /\ holder' = Free
    /\ binding' = [generation |-> Preferred, revision |-> revision]
    /\ row' = Preferred
    /\ \/ /\ lease' = Preferred
          /\ shown' = Preferred
          /\ pending' = Published(revision)
          /\ UNCHANGED <<docker, troubles>>
       \/ /\ troubles < MaxTroubles
          /\ troubles' = troubles + 1
          /\ shown' = None
          /\ pending' = 0
          /\ docker' = Stopped({Preferred})
          /\ UNCHANGED lease
    /\ UNCHANGED <<revision, mounts, ops, image, tools, turn, cancelling, request, queued, finished,
                   server, work>>

\* The revision has moved on, or the publication fails before or after it is in
\* the store: the gate closes and the container stops.
AdoptFails ==
    /\ Running("adopting")
    /\ request = None
    /\ \/ holder.read # revision /\ UNCHANGED <<binding, troubles>>
       \/ /\ holder.read = revision
          /\ troubles < MaxTroubles
          /\ troubles' = troubles + 1
          /\ binding' \in {binding, [generation |-> Preferred, revision |-> revision]}
    /\ row' = IF binding' = binding THEN row ELSE Preferred
    /\ lease' = None
    /\ docker' = Stopped({Preferred})
    /\ pending' = Blocked(holder.read)
    /\ Goto("recording")
    /\ UNCHANGED <<revision, mounts, ops, image, shown, tools, turn, cancelling, request, queued,
                   finished, server, work>>

\* Then an operation is to bring the container to the latest revision.
RecordIntent ==
    /\ Running("recording")
    /\ ops' = Enqueued(revision, "when_idle", "all")
    /\ Len(ops') <= MaxOperations
    /\ holder' = Free
    /\ row' = RowWith(shown)
    /\ UNCHANGED <<revision, mounts, binding, docker, image, memory, others>>

\* Some call of the assembly fails; a container just made is stopped, and the row
\* has it or not.
AssemblyFault ==
    /\ \E pc \in {"assembling", "saving", "adopting", "recording"} : Running(pc)
    /\ troubles < MaxTroubles
    /\ troubles' = troubles + 1
    /\ holder' = Free
    /\ docker' = IF Running("saving") THEN Stopped({0}) ELSE docker
    /\ \/ row' = RowWith(shown) /\ UNCHANGED shown
       \/ Running("saving") /\ row' = 0 /\ shown' = 0
    /\ UNCHANGED <<revision, mounts, ops, binding, image, pending, lease, tools, turn, cancelling,
                   request, queued, finished, server, work>>

\* Refused while the gate is closed, and the refusal saves the summary.
Refuse ==
    /\ server = "up"
    /\ holder = Free
    /\ lease = None /\ pending # None
    /\ row' = RowWith(shown)
    /\ row' # row
    /\ UNCHANGED <<revision, mounts, ops, binding, docker, image, memory, holder, others>>

-----------------------------------------------------------------------------
\* Turns

LoadThread ==
    /\ server = "up"
    /\ holder = Free
    /\ tools = None /\ lease # None
    /\ tools' = lease
    /\ UNCHANGED <<tables, shown, docker, image, pending, lease, turn, cancelling, holder, others>>

TurnBegins ==
    /\ server = "up"
    /\ pending = None /\ request = None
    /\ tools # None /\ turn = None
    /\ turn' = tools
    /\ UNCHANGED <<tables, shown, docker, image, pending, lease, tools, cancelling, holder, others>>

\* A tool call changes files of the container, with the lease of the turn.
Work ==
    /\ turn # None /\ lease = turn
    /\ work < MaxWork
    /\ work' = work + 1
    /\ docker' = [docker EXCEPT ![turn].layer = work']
    /\ UNCHANGED <<tables, image, memory, holder, request, queued, finished, server, troubles>>

TurnEnds ==
    /\ turn # None
    /\ turn' = None
    /\ UNCHANGED <<tables, shown, docker, image, pending, lease, tools, cancelling, holder, others>>

-----------------------------------------------------------------------------
\* The server ends and starts again

\* Mutant of Restart: a failed operation does not close the gate again.
RestartFailedOpen ==
    /\ troubles < MaxTroubles
    /\ troubles' = troubles + 1
    /\ server' = "starting"
    /\ docker' \in {docker} \cup
                   (IF holder.receipt = None THEN {}
                    ELSE {Stopped({Own.candidate, Own.old} \ {None})})
    /\ pending' = IF LatestPhase \in {"none"} \cup Terminal THEN None
                  ELSE ops[Len(ops)].target
    /\ shown' = row
    /\ lease' = None /\ tools' = None /\ turn' = None /\ cancelling' = FALSE
    /\ holder' = Free /\ request' = None /\ queued' = None /\ finished' = {}
    /\ UNCHANGED <<tables, image, work>>

\* restore_admission: the latest operation closes the gate unless it is over
\* and did not fail. A shutdown stops what the running operation knows of.
Restart ==
    /\ troubles < MaxTroubles
    /\ troubles' = troubles + 1
    /\ server' = "starting"
    /\ docker' \in {docker} \cup
                   (IF holder.receipt = None THEN {}
                    ELSE {Stopped({Own.candidate, Own.old} \ {None})})
    /\ pending' = IF LatestPhase \in {"none", "succeeded", "superseded"} THEN None
                  ELSE ops[Len(ops)].target
    /\ shown' = row
    /\ lease' = None /\ tools' = None /\ turn' = None /\ cancelling' = FALSE
    /\ holder' = Free /\ request' = None /\ queued' = None /\ finished' = {}
    /\ UNCHANGED <<tables, image, work>>

\* The latest operation goes on before anything else does.
Recover ==
    /\ server = "starting"
    /\ IF LatestPhase \in {"none"} \cup Terminal
       THEN /\ server' = "up"
            /\ docker' = IF LatestPhase = "failed"
                         THEN Stopped({ops[Len(ops)].old, ops[Len(ops)].candidate} \ {None})
                         ELSE docker
            /\ UNCHANGED queued
       ELSE /\ server' = "recovering"
            /\ queued' = [id |-> Len(ops), receipt |-> ops[Len(ops)]]
            /\ UNCHANGED docker
    /\ UNCHANGED <<tables, image, memory, holder, request, finished, counts>>

-----------------------------------------------------------------------------
OperationStep ==
    \/ ReadConfiguration \/ KeepEnvironment \/ PublishSame \/ WaitIdle \/ Drain \/ Quiesce
    \/ Snapshot \/ CreateCandidate \/ SaveCandidate \/ Rebind
    \/ Publish \/ Activate \/ RemoveOld \/ Retire \/ Succeed \/ Open \/ Yield
    \/ Supersede \/ SaveSuperseded \/ Fail \/ SaveFailed

RequestStep == \/ \E fingerprint \in Revisions : Replace(fingerprint)
               \/ KeepConfiguration \/ BlockReplaced \/ BlockUnfinished

AssemblyStep == \/ Assemble \/ Discover \/ FindContainer \/ BlockFound \/ CreateContainer
                \/ SaveContainer \/ Adopt \/ AdoptFails \/ RecordIntent

Next ==
    \/ TakeInventory \/ \E policy \in Policies : RequestApply(policy)
    \/ RequestStep
    \/ CancelReferenceTurn
    \/ Launch \/ Begin \/ Compensate
    \/ OperationStep \/ Fault
    \/ AssemblyStep \/ AssemblyFault \/ Refuse
    \/ LoadThread \/ TurnBegins \/ Work \/ TurnEnds
    \/ Restart \/ Recover

Spec == Init /\ [][Next]_vars

\* The services run: turns end, requests and workers go on, an agent in use has
\* its environment assembled. The holder of the lock of the agent waits for the
\* lock of the project, which is handed out in turn.
FairSpec == /\ Spec
            /\ SF_vars(OperationStep \/ AssemblyStep)
            /\ WF_vars(Launch \/ Begin \/ Compensate \/ Recover)
            /\ WF_vars(RequestStep) /\ WF_vars(TurnEnds)

-----------------------------------------------------------------------------
\* Properties

\* The variables have their types; also, an operation never creates a candidate
\* without the image of a snapshot.
TypeOK ==
    /\ revision \in Revisions
    /\ mounts \in [Revisions -> Revisions]
    /\ ops \in Seq(Receipt) /\ Len(ops) <= MaxOperations
    /\ binding \in Bindings \cup {None}
    /\ row \in Generations \cup {None} /\ shown \in Generations \cup {None}
    /\ lease \in Generations \cup {None} /\ tools \in Generations \cup {None}
    /\ turn \in Generations \cup {None}
    /\ docker \in [Generations -> Containers]
    /\ image \in [Operations -> 0 .. MaxWork \cup {None}]
    /\ pending \in Revisions \cup {None}
    /\ cancelling \in BOOLEAN
    /\ holder \in Holders
    /\ request \in Requests \cup {None}
    /\ queued \in Claims \cup {None}
    /\ finished \subseteq Operations
    /\ server \in {"starting", "recovering", "up"}
    /\ work \in 0 .. MaxWork /\ troubles \in 0 .. MaxTroubles

\* Whatever fails, is superseded or is cut off by a crash, the container of the
\* binding exists with every change turns have made; before there is a binding
\* the container the agent came with is never removed.
EnvironmentKept ==
    IF binding # None
    THEN Exists(binding.generation) /\ docker[binding.generation].layer = work
    ELSE row # None => Exists(0)

\* A turn is let in only into the leased container, running, with the mounts of
\* the configuration as it is at that moment.
TurnsSeeTheConfiguration ==
    [][turn = None /\ turn' # None =>
         /\ turn' = lease /\ docker[turn'].state = "running"
         /\ docker[turn'].mounts = mounts[revision]]_vars

\* No turn is let in while the latest operation has failed, also after a restart,
\* or while one is still to bring the environment to a revision it does not have:
\* though the gate closes only after the operation is recorded, and stays open
\* for an environment that was not in the inventory of the request.
GateIsHeld ==
    [][turn = None /\ turn' # None =>
         /\ LatestPhase # "failed"
         /\ \A o \in DOMAIN ops :
              Unfinished(o) => binding # None /\ binding.revision >= ops[o].target]_vars

\* Every configuration saved reaches the agent, or its operation failed and
\* waits for the administrator.
AppliedOrFailed ==
    \A r \in Revisions \ {0} :
        binding # None /\ revision = r ~> \/ binding # None /\ binding.revision >= r
                        \/ LatestPhase = "failed"

\* Documented: what a superseded operation began is undone: no container of
\* its making is left, unless the binding names it.
SupersededIsConverged ==
    \A o \in DOMAIN ops :
        ops[o].phase = "superseded" =>
            \/ docker[o].state # "running"
            \/ binding # None /\ binding.generation = o

\* Documented: the container of the agent's row is written with the binding
\* only, so before there is one no candidate can be in the row.
RowIsProjection == row = IF binding # None THEN binding.generation ELSE IF row = None THEN None ELSE 0

=============================================================================
