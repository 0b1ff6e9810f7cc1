------------------------- MODULE EnvironmentLeaseProofs -------------------------
(***************************************************************************)
(* The lease registry keeps its promises for any number of generations,    *)
(* changers, holders and tasks, and implements LeaseContract.              *)
(***************************************************************************)
EXTENDS EnvironmentLease, TLAPS

\* A changer that drains has revoked the registered lease, and is alone.
DrainsRevoked ==
    /\ \A c \in Changers : change[c].pc = "draining" => Registered /\ Current.revoked
    /\ \A c, d \in Changers :
          change[c].pc = "draining" /\ change[d].pc = "draining" => c = d

\* Only the registered lifecycle is not revoked, and whoever refers to it
\* holds the very lease that is registered.
OnlyOneValid ==
    /\ \A l \in Lives : ~life[l].revoked => l = leases.life
    /\ \A h \in Holders : held[h].life = leases.life /\ held[h] # NoLease => held[h] = leases

\* A live task has a lease; a task that is not live refers to none.
TasksOK == \A t \in Tasks : IF Live(t) THEN task[t].lease # NoLease ELSE task[t] = NoTask

LeaseInv == TypeOK /\ DrainsRevoked /\ OnlyOneValid /\ TasksOK /\ NoStragglers

\* What every step does: it keeps the invariant and a recorded failure, and it
\* is a step of the contract or none.
KeepsFailure ==
    Registered /\ Current.failed => leases'.life = leases.life /\ Current.failed'

Seen == <<leases.life, Registered /\ ~Current.revoked, {t \in Tasks : Live(t)},
          Registered /\ Current.failed>>

LeaseStep == LeaseInv' /\ KeepsFailure /\ (Contract!Next \/ UNCHANGED Seen)

\* A lease is NoLease or names a lifecycle.
LEMMA LeaseCases ==
    ASSUME NEW x \in Lease \cup {NoLease}
    PROVE  /\ x # NoLease => x \in Lease /\ x.life \in Lives /\ x.life # 0
           /\ x.life = 0 => x = NoLease
  BY LivesAssumption DEF Lease, NoLease, Lives

\* Two leases of the registered lifecycle are one lease.
LEMMA ValidIsCurrent ==
    ASSUME LeaseInv, NEW h \in Holders, held[h] # NoLease, ~life[held[h].life].revoked
    PROVE  held[h] = leases
  BY LeaseCases DEF LeaseInv, TypeOK, OnlyOneValid

\* Nobody runs anything in an environment that is quiet, or where there is none.
LEMMA QuietIsIdle ==
    ASSUME LeaseInv, Quiet(leases.life) \/ ~Registered
    PROVE  \A t \in Tasks : ~Live(t)
  BY DEF LeaseInv, Quiet, NoStragglers, TasksOK, Registered

LEMMA LeaseInvInit == Init => LeaseInv
<1> SUFFICES ASSUME Init PROVE LeaseInv
  OBVIOUS
<1>1. TypeOK
  BY DEF Init, TypeOK, LifeRow, ChangeRow, Idle, TaskRow, NoTask
<1> QED
  BY <1>1 DEF Init, LeaseInv, DrainsRevoked, OnlyOneValid, TasksOK, NoStragglers, Live, NoTask, Idle

\* Registering a lease with a lifecycle of its own, once nothing is left to run.
LEMMA InsertStep ==
    ASSUME LeaseInv, NEW c \in Changers, change[c].request.op = "publish",
           \A t \in Tasks : ~Live(t),
           \A l \in Lives : life[l].revoked,
           \A d \in Changers \ {c} : change[d].pc # "draining",
           Insert(c), Returns(c), UNCHANGED <<held, task>>
    PROVE  LeaseInv' /\ Registered' /\ ~(Current.revoked)' /\ ~(Current.failed)'
<1> PICK l \in Lives :
        /\ Dropped(l)
        /\ life' = [life EXCEPT ![l] = [revoked |-> FALSE, failed |-> FALSE]]
        /\ leases' = [life |-> l, generation |-> change[c].request.generation,
                      container |-> change[c].request.container]
  BY DEF Insert
<1>1. change[c].request \in Requests /\ change[c].request.generation \in Generations
      /\ change[c].request.container \in Containers
  BY DEF LeaseInv, TypeOK, ChangeRow, Requests, NoRequest
<1>2. leases' \in Lease /\ leases'.life = l /\ life' \in [Lives -> LifeRow] /\ leases' # NoLease
  BY <1>1, LivesAssumption DEF Lease, NoLease, LeaseInv, TypeOK, LifeRow, Lives
<1>3. change' \in [Changers -> ChangeRow]
  BY DEF LeaseInv, TypeOK, Returns, ChangeRow, Idle
<1>4. TypeOK'
  BY <1>2, <1>3 DEF LeaseInv, TypeOK
<1>5. DrainsRevoked'
  <2>1. \A d \in Changers : change'[d].pc # "draining"
    BY DEF Returns, Idle, LeaseInv, TypeOK
  <2> QED
    BY <2>1 DEF DrainsRevoked
<1>6. OnlyOneValid'
  BY <1>2 DEF LeaseInv, TypeOK, OnlyOneValid, Dropped
<1>7. TasksOK' /\ NoStragglers'
  BY DEF LeaseInv, TasksOK, NoStragglers, Live
<1>8. Registered' /\ ~(Current.revoked)' /\ ~(Current.failed)'
  BY <1>2 DEF Registered, Current, LeaseInv, TypeOK
<1> QED
  BY <1>4, <1>5, <1>6, <1>7, <1>8 DEF LeaseInv

\* A step that touches neither the registry nor the tasks.
LEMMA Unseen ==
    ASSUME LeaseInv, UNCHANGED <<leases, life, task>>, DrainsRevoked',
           change' \in [Changers -> ChangeRow],
           held' \in [Holders -> Lease \cup {NoLease}],
           \A h \in Holders : held'[h] \in {held[h], NoLease, leases}
    PROVE  LeaseStep
<1>1. OnlyOneValid'
  BY DEF LeaseInv, OnlyOneValid
<1>2. TypeOK' /\ TasksOK' /\ NoStragglers'
  BY DEF LeaseInv, TypeOK, TasksOK, NoStragglers, Live
<1>3. KeepsFailure /\ UNCHANGED Seen
  BY DEF KeepsFailure, Seen, Registered, Current, Live
<1> QED
  BY <1>1, <1>2, <1>3 DEF LeaseStep, LeaseInv

LEMMA ReturnsOK ==
    ASSUME LeaseInv, NEW c \in Changers, Returns(c), UNCHANGED <<leases, life>>
    PROVE  DrainsRevoked' /\ change' \in [Changers -> ChangeRow]
<1>1. change' \in [Changers -> ChangeRow]
  BY DEF LeaseInv, TypeOK, Returns, ChangeRow, Idle
<1>2. \A d \in Changers : change'[d].pc = "draining" => change[d].pc = "draining"
  BY DEF LeaseInv, TypeOK, Returns, Idle
<1> QED
  BY <1>1, <1>2 DEF LeaseInv, DrainsRevoked, Registered, Current

\* The registration of a new environment installs it.
LEMMA InsertInstalls ==
    ASSUME LeaseInv, NEW c \in Changers, change[c].request.op = "publish",
           \A t \in Tasks : ~Live(t),
           \A l \in Lives : life[l].revoked,
           \A d \in Changers \ {c} : change[d].pc # "draining",
           ~(Registered /\ Current.failed), ~(Registered /\ ~Current.revoked),
           Insert(c), Returns(c), UNCHANGED <<held, task>>
    PROVE  LeaseStep
<1>1. LeaseInv' /\ Registered' /\ ~(Current.revoked)' /\ ~(Current.failed)'
  BY InsertStep
<1>2. leases'.life \in Lives
  BY DEF Insert
<1>3. {t \in Tasks : Live(t)} = {} /\ {t \in Tasks : Live(t)}' = {}
  BY DEF Live
<1>4. Contract!Install(leases'.life)
  BY <1>1, <1>3 DEF Contract!Install
<1>5. Contract!Next
  BY <1>2, <1>4 DEF Contract!Next
<1> QED
  BY <1>1, <1>5 DEF LeaseStep, KeepsFailure

LEMMA ChangeStep ==
    ASSUME LeaseInv, NEW c \in Changers, Change(c)
    PROVE  LeaseStep
<1> USE DEF LeaseInv
<1>1. CASE Request(c)
  <2>1. change' \in [Changers -> ChangeRow]
    BY <1>1 DEF Request, TypeOK, ChangeRow
  <2>2. \A d \in Changers : change'[d].pc = "draining" => change[d].pc = "draining"
    BY <1>1 DEF Request, TypeOK
  <2>3. DrainsRevoked'
    BY <1>1, <2>2 DEF Request, DrainsRevoked, Registered, Current
  <2> QED
    BY <1>1, <2>1, <2>3, Unseen DEF Request, TypeOK
<1>2. CASE NothingToRevoke(c) \/ DrainFails(c) \/ Abandon(c)
  BY <1>2, ReturnsOK, Unseen DEF NothingToRevoke, DrainFails, Abandon, TypeOK
<1>3. CASE PublishFirst(c)
  <2>1. \A l \in Lives : life[l].revoked
    BY <1>3 DEF PublishFirst, Registered, OnlyOneValid, NoLease, Lives
  <2>2. \A t \in Tasks : ~Live(t)
    BY <1>3, QuietIsIdle DEF PublishFirst
  <2> QED
    BY <1>3, <2>1, <2>2, InsertInstalls DEF PublishFirst, Locks
<1>4. CASE Replace(c)
  <2>1. Registered /\ Current.revoked /\ ~Current.failed
    BY <1>4 DEF Replace, Settled, DrainsRevoked
  <2>2. \A l \in Lives : life[l].revoked
    BY <2>1 DEF Current, OnlyOneValid
  <2>3. \A t \in Tasks : ~Live(t)
    BY <1>4, QuietIsIdle DEF Replace
  <2>4. \A d \in Changers \ {c} : change[d].pc # "draining"
    BY <1>4 DEF Replace, Settled, DrainsRevoked
  <2>5. CASE change[c].request.op = "publish"
    BY <1>4, <2>1, <2>2, <2>3, <2>4, <2>5, InsertInstalls DEF Replace
  <2>6. CASE change[c].request.op # "publish"
    <3>1. leases' = NoLease /\ Returns(c) /\ UNCHANGED <<life, held, task>>
      BY <1>4, <2>6 DEF Replace
    <3>2. change' \in [Changers -> ChangeRow]
      BY <3>1 DEF TypeOK, Returns, ChangeRow, Idle
    <3>3. DrainsRevoked'
      BY <2>4, <3>1 DEF DrainsRevoked, Returns, Idle, TypeOK
    <3>4. OnlyOneValid'
      BY <2>2, <3>1, LeaseCases DEF OnlyOneValid, TypeOK, NoLease
    <3>5. TypeOK' /\ TasksOK' /\ NoStragglers'
      BY <2>3, <3>1, <3>2 DEF TypeOK, TasksOK, NoStragglers, Live
    <3>6. KeepsFailure
      BY <2>1 DEF KeepsFailure
    <3>7. {t \in Tasks : Live(t)} = {} /\ {t \in Tasks : Live(t)}' = {}
      BY <2>3, <3>1 DEF Live
    <3>8. ~Registered' /\ leases'.life = 0
      BY <3>1 DEF Registered, NoLease
    <3>9. Contract!Clear
      BY <2>1, <3>7, <3>8 DEF Contract!Clear
    <3> QED
      BY <3>3, <3>4, <3>5, <3>6, <3>9 DEF LeaseStep, Contract!Next
  <2> QED
    BY <2>5, <2>6
<1>5. CASE PublishSame(c)
  <2>1. leases' = leases
    <3>1. leases \in Lease
      BY <1>5 DEF PublishSame, SameGeneration, Registered, TypeOK
    <3> QED
      BY <1>5, <3>1 DEF PublishSame, Adopted, Lease
  <2> QED
    BY <1>5, <2>1, ReturnsOK, Unseen DEF PublishSame, TypeOK
<1>6. CASE Revoke(c)
  <2>1. leases \in Lease /\ leases.life \in Lives
    BY <1>6, LeaseCases DEF Revoke, Registered, TypeOK
  <2>2. life' = [life EXCEPT ![leases.life].revoked = TRUE]
        /\ change' = [change EXCEPT ![c].pc = "draining"]
        /\ UNCHANGED <<leases, held, task>>
    BY <1>6 DEF Revoke
  <2>3. life' \in [Lives -> LifeRow] /\ Current'.revoked
        /\ (Current.failed)' = Current.failed
    BY <2>1, <2>2 DEF TypeOK, LifeRow, Current
  <2>4. change' \in [Changers -> ChangeRow]
    BY <2>2 DEF TypeOK, ChangeRow
  <2>5. DrainsRevoked'
    <3>1. \A d \in Changers : change'[d].pc = "draining" => d = c
      BY <1>6, <2>2 DEF Revoke, Locks, TypeOK
    <3> QED
      BY <1>6, <2>2, <2>3, <3>1 DEF DrainsRevoked, Revoke, Registered
  <2>6. OnlyOneValid'
    BY <2>1, <2>2 DEF OnlyOneValid, TypeOK, LifeRow
  <2>7. TypeOK' /\ TasksOK' /\ NoStragglers'
    BY <2>2, <2>3, <2>4 DEF TypeOK, TasksOK, NoStragglers, Live
  <2>8. KeepsFailure /\ Registered /\ Registered'
    BY <1>6, <2>2, <2>3 DEF Revoke, KeepsFailure, Registered
  <2>9. Contract!StopAccepting \/ UNCHANGED Seen
    BY <2>2, <2>3, <2>8 DEF Contract!StopAccepting, Seen, Live
  <2> QED
    BY <2>5, <2>6, <2>7, <2>8, <2>9 DEF LeaseStep, Contract!Next
<1> QED
  BY <1>1, <1>2, <1>3, <1>4, <1>5, <1>6 DEF Change, Decide, Settle

LEMMA HoldStep ==
    ASSUME LeaseInv, NEW h \in Holders, Hold(h)
    PROVE  LeaseStep
<1> USE DEF LeaseInv
<1>1. CASE Acquire(h) \/ Release(h)
  <2>1. held' \in [Holders -> Lease \cup {NoLease}]
        /\ \A i \in Holders : held'[i] \in {held[i], NoLease, leases}
    BY <1>1 DEF Acquire, Release, TypeOK
  <2>2. DrainsRevoked'
    BY <1>1 DEF Acquire, Release, DrainsRevoked, Registered, Current
  <2> QED
    BY <1>1, <2>1, <2>2, Unseen DEF Acquire, Release, TypeOK
<1>2. ASSUME NEW t \in Tasks, SpawnTracked(h, t) PROVE LeaseStep
  <2>1. held[h] = leases /\ Registered /\ ~Current.revoked /\ ~Live(t)
    BY <1>2, ValidIsCurrent DEF SpawnTracked, MaySpawn, Registered, Current
  <2>2. task' = [task EXCEPT ![t] = [lease |-> leases, step |-> "registered"]]
        /\ UNCHANGED <<leases, life, change, held>>
    BY <1>2, <2>1 DEF SpawnTracked
  <2>3. TypeOK' /\ TasksOK' /\ NoStragglers'
    BY <2>1, <2>2 DEF TypeOK, TaskRow, TasksOK, NoStragglers, Live, Registered
  <2>4. DrainsRevoked' /\ OnlyOneValid' /\ KeepsFailure
    BY <2>2 DEF DrainsRevoked, OnlyOneValid, KeepsFailure, Registered, Current
  <2>5. {u \in Tasks : Live(u)}' = {u \in Tasks : Live(u)} \cup {t}
    BY <2>2 DEF Live, TypeOK
  <2>6. Contract!Enter(t)
    BY <2>1, <2>2, <2>5 DEF Contract!Enter, Registered, Current
  <2> QED
    BY <2>3, <2>4, <2>6 DEF LeaseStep, Contract!Next
<1> QED
  BY <1>1, <1>2 DEF Hold

\* What a tracked task may do to the failure flag of the registered lifecycle.
LEMMA FailureOK ==
    ASSUME LeaseInv, NEW t \in Tasks, Live(t), MayRecordFailure(t), UNCHANGED <<leases, change, held>>
    PROVE  /\ life' \in [Lives -> LifeRow] /\ DrainsRevoked' /\ OnlyOneValid'
           /\ Registered /\ (Current.revoked)' = Current.revoked
           /\ (Current.failed)' \in {Current.failed, TRUE}
<1> USE DEF LeaseInv
<1>1. Registered /\ leases.life \in Lives /\ task[t].lease.life = leases.life
  BY LeaseCases DEF NoStragglers, TasksOK, TypeOK, Registered
<1>2. \/ life' = life
      \/ life' = [life EXCEPT ![leases.life].failed = TRUE]
  BY <1>1 DEF MayRecordFailure
<1>3. life' \in [Lives -> LifeRow]
  BY <1>1, <1>2 DEF TypeOK, LifeRow
<1>7. \A l \in Lives : life'[l].revoked = life[l].revoked
  <2>1. ASSUME NEW l \in Lives, life' = [life EXCEPT ![leases.life].failed = TRUE]
        PROVE  life'[l].revoked = life[l].revoked
    <3>1. life[l] \in LifeRow
      BY DEF TypeOK
    <3>2. CASE l = leases.life
      <4>1. life'[l] = [life[l] EXCEPT !.failed = TRUE]
        BY <2>1, <3>2 DEF TypeOK
      <4> QED
        BY <3>1, <4>1 DEF LifeRow
    <3>3. CASE l # leases.life
      BY <2>1, <3>3 DEF TypeOK
    <3> QED
      BY <3>2, <3>3
  <2> QED
    BY <1>2, <2>1
<1>4. (Current.failed)' \in {Current.failed, TRUE}
  BY <1>1, <1>2 DEF TypeOK, LifeRow, Current
<1>5. OnlyOneValid'
  BY <1>7 DEF OnlyOneValid
<1>6. DrainsRevoked'
  BY <1>1, <1>7 DEF DrainsRevoked, Registered, Current
<1> QED
  BY <1>1, <1>3, <1>4, <1>5, <1>6, <1>7 DEF Current

LEMMA WorkStep ==
    ASSUME LeaseInv, NEW t \in Tasks, Work(t)
    PROVE  LeaseStep
<1> USE DEF LeaseInv
<1>1. /\ Live(t) /\ MayRecordFailure(t) /\ UNCHANGED <<leases, change, held>>
      /\ \/ \E step \in {"running", "stopping"} : TaskTo(t, step)
         \/ task' = [task EXCEPT ![t] = NoTask]
  BY DEF Work, StartProcess, StartFails, StopProcess, ExitProcess, Live, MayRecordFailure
<1>2. /\ life' \in [Lives -> LifeRow] /\ DrainsRevoked' /\ OnlyOneValid'
      /\ Registered /\ (Current.revoked)' = Current.revoked
      /\ (Current.failed)' \in {Current.failed, TRUE}
  BY <1>1, FailureOK
<1>3. Registered' = Registered
  BY <1>1 DEF Registered
<1>4. TypeOK'
  BY <1>1, <1>2 DEF TypeOK, TaskTo, TaskRow, NoTask
<1>5. \A u \in Tasks \ {t} : task'[u] = task[u]
  BY <1>1 DEF TaskTo, TypeOK
<1>6. TasksOK' /\ NoStragglers'
  <2>1. \/ task'[t] = NoTask
        \/ task'[t].lease = task[t].lease /\ task'[t].step # "none"
    BY <1>1 DEF TaskTo, TypeOK, TaskRow
  <2> QED
    BY <1>1, <1>5, <2>1 DEF TasksOK, NoStragglers, Live, NoTask
<1>7. KeepsFailure
  BY <1>1, <1>2, <1>3 DEF KeepsFailure
<1>8. Contract!Leave(t)
  <2>1. t \in {u \in Tasks : Live(u)}
    BY <1>1
  <2>2. {u \in Tasks : Live(u)}' \in {{u \in Tasks : Live(u)}, {u \in Tasks : Live(u)} \ {t}}
    <3>1. CASE task' = [task EXCEPT ![t] = NoTask]
      BY <1>5, <3>1 DEF Live, NoTask, TypeOK
    <3>2. CASE \E step \in {"running", "stopping"} : TaskTo(t, step)
      BY <1>1, <1>5, <3>2 DEF Live, TaskTo, TypeOK, TaskRow
    <3> QED
      BY <1>1, <3>1, <3>2
  <2>3. leases'.life = leases.life
    BY <1>1
  <2> QED
    BY <1>2, <1>3, <2>1, <2>2, <2>3 DEF Contract!Leave
<1> QED
  BY <1>2, <1>4, <1>6, <1>7, <1>8 DEF LeaseStep, Contract!Next

LEMMA LeaseInvStep == LeaseInv /\ [Next]_vars => LeaseStep
<1> SUFFICES ASSUME LeaseInv, [Next]_vars PROVE LeaseStep
  OBVIOUS
<1>1. CASE UNCHANGED vars
  <2>1. DrainsRevoked'
    BY <1>1 DEF vars, LeaseInv, DrainsRevoked, Registered, Current
  <2> QED
    BY <1>1, <2>1, Unseen DEF vars, LeaseInv, TypeOK
<1>2. CASE Next
  BY <1>2, ChangeStep, HoldStep, WorkStep DEF Next
<1> QED
  BY <1>1, <1>2

\* No process of a replaced or removed environment is left, and every process
\* runs in the registered container, whoever still holds an old lease.
THEOREM LeaseNoStragglers == Spec => []NoStragglers
<1>1. LeaseInv => NoStragglers
  BY DEF LeaseInv
<1>2. LeaseInv /\ [Next]_vars => LeaseInv'
  BY LeaseInvStep DEF LeaseStep
<1> QED
  BY <1>1, <1>2, LeaseInvInit, PTL DEF Spec

\* At most one generation of the agent's environment is valid.
THEOREM LeaseOneGeneration == Spec => []OneGeneration
<1>1. LeaseInv => OneGeneration
  BY ValidIsCurrent DEF OneGeneration
<1>2. LeaseInv /\ [Next]_vars => LeaseInv'
  BY LeaseInvStep DEF LeaseStep
<1> QED
  BY <1>1, <1>2, LeaseInvInit, PTL DEF Spec

\* An environment with an unconfirmed cleanup stays registered for good.
THEOREM LeaseFailClosed == Spec => FailClosed
<1>1. LeaseInv /\ [Next]_vars => LeaseInv' /\ KeepsFailure
  BY LeaseInvStep DEF LeaseStep
<1>2. LeaseInv /\ [Next]_vars => [KeepsFailure]_vars
  BY <1>1
<1> QED
  BY <1>1, <1>2, LeaseInvInit, PTL DEF Spec, FailClosed, KeepsFailure

\* The registry implements the contract.
THEOREM LeaseImplementsContract == Spec => ContractSpec
<1>1. Init => Contract!Init
  BY DEF Init, Contract!Init, Registered, NoLease, Live, NoTask
<1>2. LeaseInv /\ [Next]_vars => LeaseInv'
  BY LeaseInvStep DEF LeaseStep
<1>3. LeaseInv /\ [Next]_vars => [Contract!Next]_Seen
  BY LeaseInvStep DEF LeaseStep
<1> QED
  BY <1>1, <1>2, <1>3, LeaseInvInit, PTL DEF Spec, ContractSpec, Contract!Spec, Seen
================================================================================
