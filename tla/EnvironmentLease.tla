---------------------------- MODULE EnvironmentLease ----------------------------
(***************************************************************************)
(* The lease registry of crates/mai-references for one agent (agents share *)
(* nothing but the maps): generations of its container are published,      *)
(* revoked and removed by concurrent tasks of the runtime, while tools     *)
(* holding a lease register commands and sidecars as tracked tasks.        *)
(***************************************************************************)
EXTENDS Naturals

CONSTANTS
    Generations, Containers,
    Changers,   \* tasks that publish, revoke or remove
    Holders,    \* turns and tools that hold a lease
    Tasks,      \* tracked tasks
    MaxLives,   \* bound: lifecycle objects that are in memory at a time
    None

ASSUME NoneAssumption == None \notin Changers \cup Containers \cup Generations
ASSUME LivesAssumption == MaxLives \in Nat

Lives == 1..MaxLives

VARIABLES
    leases,   \* the registered lease
    life,     \* GenerationLifecycle objects; leases of one generation share one
    change,   \* what each changer does
    held,     \* the lease each holder has
    task      \* the tracked tasks

vars == <<leases, life, change, held, task>>

Lease == [life : Lives, generation : Generations, container : Containers]
NoLease == [life |-> 0, generation |-> None, container |-> None]

LifeRow == [revoked : BOOLEAN, failed : BOOLEAN]

\* What is asked of the registry.
Requests ==
    [op : {"publish"}, generation : Generations, container : Containers]
    \cup [op : {"revoke"}, generation : Generations, container : {None}]
    \cup {[op |-> "remove", generation |-> None, container |-> None]}

\* A changer waits for the lock, or holds it while it drains.
NoRequest == [op |-> "none", generation |-> None, container |-> None]
ChangeRow == [pc : {"idle", "waiting", "draining"}, request : Requests \cup {NoRequest}]
Idle == [pc |-> "idle", request |-> NoRequest]

TaskRow == [lease : Lease \cup {NoLease}, step : {"none", "registered", "running", "stopping"}]
NoTask == [lease |-> NoLease, step |-> "none"]

TypeOK ==
    /\ leases \in Lease \cup {NoLease}
    /\ life \in [Lives -> LifeRow]
    /\ change \in [Changers -> ChangeRow]
    /\ held \in [Holders -> Lease \cup {NoLease}]
    /\ task \in [Tasks -> TaskRow]

Init ==
    /\ leases = NoLease
    /\ life = [l \in Lives |-> [revoked |-> TRUE, failed |-> FALSE]]
    /\ change = [c \in Changers |-> Idle]
    /\ held = [h \in Holders |-> NoLease]
    /\ task = [t \in Tasks |-> NoTask]

Registered == leases # NoLease
Current == life[leases.life]
Live(t) == task[t].step # "none"

\* A lifecycle nobody refers to any more is dropped; its name may be used again.
Dropped(l) ==
    /\ leases.life # l
    /\ \A h \in Holders : held[h].life # l
    /\ \A t \in Tasks : task[t].lease.life # l

-----------------------------------------------------------------------------
(***************************************************************************)
(* publish, revoke and remove, serialised by the change lock.              *)
(***************************************************************************)
Request(c) ==
    /\ change[c].pc = "idle"
    /\ \E r \in Requests : change' = [change EXCEPT ![c] = [pc |-> "waiting", request |-> r]]
    /\ UNCHANGED <<leases, life, held, task>>

\* The lock is free, and c gets it and reads the registry, which nobody else
\* changes meanwhile; c keeps the lock only to drain.
Locks(c) == change[c].pc = "waiting" /\ \A d \in Changers : change[d].pc # "draining"

Returns(c) == change' = [change EXCEPT ![c] = Idle]

\* Registers the lease c brings, with a lifecycle of its own.
Insert(c) ==
    \E l \in Lives :
        /\ Dropped(l)
        /\ life' = [life EXCEPT ![l] = [revoked |-> FALSE, failed |-> FALSE]]
        /\ leases' = [life |-> l, generation |-> change[c].request.generation,
                      container |-> change[c].request.container]

PublishFirst(c) ==
    /\ Locks(c) /\ change[c].request.op = "publish"
    /\ ~Registered
    /\ Insert(c)
    /\ Returns(c)
    /\ UNCHANGED <<held, task>>

SameGeneration(c) == Registered /\ leases.generation = change[c].request.generation

\* Mutant of Adopted: the physical identity is not compared.
AdoptedAnywhere(c) ==
    IF Current.revoked THEN leases
    ELSE [leases EXCEPT !.container = change[c].request.container]

\* The same generation with new metadata takes over the lifecycle, but neither
\* a revoked one nor in another container: then the call fails.
Adopted(c) ==
    IF Current.revoked \/ change[c].request.container # leases.container THEN leases
    ELSE [leases EXCEPT !.container = change[c].request.container]

PublishSame(c) ==
    /\ Locks(c) /\ change[c].request.op = "publish"
    /\ SameGeneration(c)
    /\ leases' = Adopted(c)
    /\ Returns(c)
    /\ UNCHANGED <<life, held, task>>

NothingToRevoke(c) ==
    /\ Locks(c)
    /\ \/ change[c].request.op = "remove" /\ ~Registered
       \/ change[c].request.op = "revoke" /\ ~SameGeneration(c)
    /\ Returns(c)
    /\ UNCHANGED <<leases, life, held, task>>

\* revoke: fence, cancellation and closing of the tracker, without an await.
Revoke(c) ==
    /\ Locks(c)
    /\ Registered
    /\ \/ change[c].request.op = "remove"
       \/ change[c].request.op = "publish" /\ ~SameGeneration(c)
       \/ change[c].request.op = "revoke" /\ SameGeneration(c)
    /\ life' = [life EXCEPT ![leases.life].revoked = TRUE]
    /\ change' = [change EXCEPT ![c].pc = "draining"]
    /\ UNCHANGED <<leases, held, task>>

\* Mutant of Quiet: a task that has not started its process is not waited for.
QuietButRegistered(l) == \A t \in Tasks : task[t].lease.life = l => task[t].step = "registered"

Quiet(l) == \A t \in Tasks : task[t].lease.life # l

\* Mutant of Settled: the recorded failure is not looked at.
SettledAnyhow(c) == change[c].pc = "draining"

\* drain returned without a cleanup failure.
Settled(c) == change[c].pc = "draining" /\ ~Current.failed

Replace(c) ==
    /\ Settled(c) /\ Quiet(leases.life)
    /\ IF change[c].request.op = "publish" THEN Insert(c)
       ELSE leases' = NoLease /\ UNCHANGED life
    /\ Returns(c)
    /\ UNCHANGED <<held, task>>

DrainFails(c) ==
    /\ change[c].pc = "draining"
    /\ Quiet(leases.life)
    /\ Current.failed
    /\ Returns(c)
    /\ UNCHANGED <<leases, life, held, task>>

\* The future is dropped at an await (a timeout, a shutdown, a closed caller):
\* the lock is released, whatever was revoked stays revoked.
Abandon(c) ==
    /\ change[c].pc # "idle"
    /\ Returns(c)
    /\ UNCHANGED <<leases, life, held, task>>

-----------------------------------------------------------------------------
(***************************************************************************)
(* Holders and their tracked tasks.                                        *)
(***************************************************************************)

\* acquire: the lease is read and then tested; one that passes the test is
\* still the registered one, as a lease is revoked before it is replaced.
Acquire(h) ==
    /\ Registered /\ ~Current.revoked
    /\ held' = [held EXCEPT ![h] = leases]
    /\ UNCHANGED <<leases, life, change, task>>

Release(h) ==
    /\ held[h] # NoLease
    /\ held' = [held EXCEPT ![h] = NoLease]
    /\ UNCHANGED <<leases, life, change, task>>

\* Mutant of MaySpawn: registration without the fence.
MaySpawnUnfenced(h) == held[h] # NoLease

MaySpawn(h) == held[h] # NoLease /\ ~life[held[h].life].revoked

\* spawn_tracked, by a lease that may have been acquired long ago.
SpawnTracked(h, t) ==
    /\ MaySpawn(h)
    /\ ~Live(t)
    /\ task' = [task EXCEPT ![t] = [lease |-> held[h], step |-> "registered"]]
    /\ UNCHANGED <<leases, life, change, held>>

TaskTo(t, step) == task' = [task EXCEPT ![t].step = step]

\* The process is started: of a git sidecar also when the lease was revoked
\* since the registration.
StartProcess(t) ==
    /\ task[t].step = "registered"
    /\ TaskTo(t, "running")
    /\ UNCHANGED <<leases, life, change, held>>

\* A command looks again and does not start, or its start fails.
StartFails(t) ==
    /\ task[t].step = "registered"
    /\ task' = [task EXCEPT ![t] = NoTask]
    /\ UNCHANGED <<leases, life, change, held>>

MayRecordFailure(t) ==
    \/ UNCHANGED life
    \/ life' = [life EXCEPT ![task[t].lease.life].failed = TRUE]

\* Mutant of StopProcess: the task does not watch the cancellation of the lease.
StopWhenAsked(t) ==
    /\ task[t].step = "running" /\ ~life[task[t].lease.life].revoked
    /\ TaskTo(t, "stopping")
    /\ UNCHANGED <<leases, life, change, held>>

\* The lease is revoked or the caller gave up: the process is told to stop,
\* which may fail to be confirmed.
StopProcess(t) ==
    /\ task[t].step = "running"
    /\ TaskTo(t, "stopping")
    /\ MayRecordFailure(t)
    /\ UNCHANGED <<leases, change, held>>

\* The process exits by itself or after it was told to, perhaps only when it
\* is killed.
ExitProcess(t) ==
    /\ task[t].step \in {"running", "stopping"}
    /\ task' = [task EXCEPT ![t] = NoTask]
    /\ MayRecordFailure(t)
    /\ UNCHANGED <<leases, change, held>>

-----------------------------------------------------------------------------

Decide(c) ==
    PublishFirst(c) \/ PublishSame(c) \/ NothingToRevoke(c) \/ Revoke(c)

Settle(c) == Replace(c) \/ DrainFails(c)

Change(c) == Request(c) \/ Decide(c) \/ Settle(c) \/ Abandon(c)

Hold(h) == Acquire(h) \/ Release(h) \/ (\E t \in Tasks : SpawnTracked(h, t))

Work(t) == StartProcess(t) \/ StartFails(t) \/ StopProcess(t) \/ ExitProcess(t)

Next ==
    \/ \E c \in Changers : Change(c)
    \/ \E h \in Holders : Hold(h)
    \/ \E t \in Tasks : Work(t)

Spec == Init /\ [][Next]_vars

(***************************************************************************)
(* Fairness.  tokio's mutex hands the lock over in the order of arrival,   *)
(* which strong fairness of Decide stands for; tasks are scheduled; a        *)
(* process that is told to stop ends (it is killed after a grace period),  *)
(* and a task of a revoked lease tells it so.  A process of a lease that   *)
(* is not revoked may run for ever.                                        *)
(***************************************************************************)
StopRevoked(t) == StopProcess(t) /\ life[task[t].lease.life].revoked

Fairness ==
    /\ \A c \in Changers : SF_vars(Decide(c)) /\ WF_vars(Settle(c))
    /\ \A t \in Tasks :
          /\ WF_vars(StartProcess(t) \/ StartFails(t))
          /\ WF_vars(StopRevoked(t))
          /\ WF_vars(ExitProcess(t) /\ task[t].step = "stopping")

FairSpec == Spec /\ Fairness

-----------------------------------------------------------------------------
(***************************************************************************)
(* Properties.                                                             *)
(***************************************************************************)

\* Every process that runs, or is about to, runs in the registered container
\* and generation: none is left of an environment that was replaced or
\* removed, whoever still holds its lease and whoever gave up the wait.
NoStragglers == \A t \in Tasks : Live(t) => task[t].lease = leases

\* At most one generation is valid: whoever holds a lease that is not revoked
\* holds the registered one.
OneGeneration ==
    \A h \in Holders : held[h] # NoLease /\ ~life[held[h].life].revoked => held[h] = leases

\* An environment whose cleanup is not confirmed is never replaced or taken
\* away, by any later publish, revoke or remove.
FailClosed ==
    [][Registered /\ Current.failed => leases'.life = leases.life /\ Current.failed']_vars

\* A publish, revoke or remove ends: it never waits for work that started
\* after it began to wait.
ChangeEnds == \A c \in Changers : change[c].pc # "idle" ~> change[c].pc = "idle"

-----------------------------------------------------------------------------

\* The contract, seen through the registry.
Contract == INSTANCE LeaseContract WITH
    Environments <- Lives, Processes <- Tasks, NoEnvironment <- 0,
    current <- leases.life,
    accepting <- Registered /\ ~Current.revoked,
    busy <- {t \in Tasks : Live(t)},
    broken <- Registered /\ Current.failed

ContractSpec == Contract!Spec
================================================================================
