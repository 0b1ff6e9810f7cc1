----------------------------- MODULE AgentTree ------------------------------
(***************************************************************************)
(* The tree of product agents: a child created by a call in its parent's   *)
(* turn, the rollback of a creation that fails or is dropped, the deletion *)
(* of a subtree (the marks that retire it, then every node child-first     *)
(* under its own lifecycle lock), the application that holds such a lock   *)
(* while it waits for a turn, and what the end of the server leaves.       *)
(*                                                                         *)
(* A deleter is a user's request or the rollback of the agent it names.    *)
(***************************************************************************)
EXTENDS Naturals, FiniteSets

CONSTANTS Agents, Users,
          Parent,       \* the parent an agent is created under, None for a root
          None,
          Existing,     \* the agents there are at first
          SampleLimit,  \* DELETE_FENCE_SAMPLE_LIMIT
          MaxApplies,   \* bound: applications begun
          MaxTroubles,  \* bound: failing steps and ends of the server
          Events        \* what may happen besides: "early", "reclaim", "outlast"

ASSUME TreeAssumption == /\ Parent \in [Agents -> Agents \cup {None}] /\ None \notin Agents
                         /\ Existing \subseteq Agents
                         /\ \A S \in (SUBSET Agents) \ {{}} : \E a \in S : Parent[a] \notin S
                         /\ \A a \in Existing : Parent[a] \in Existing \cup {None}
                         /\ Users \cap Agents = {} /\ SampleLimit \in Nat
                         /\ MaxApplies \in Nat /\ MaxTroubles \in Nat

Deleters == Users \cup Agents
Children(a) == {c \in Agents : Parent[c] = a}

VARIABLES rows,        \* agents in the store
          tombs,       \* retired_agent_sessions
          listed,      \* state.agents
          pending,     \* registration_pending
          bound,       \* the summary or the binding names a container
          containers,  \* Docker's containers, by the agent of their label
          volumes,     \* workspace volumes
          leased,      \* active environment leases
          threads,     \* threads resident in the kernel
          turn,        \* agents in a turn
          blocked,     \* AgentAdmission.pending: an application is not published
          applying,    \* an application holds the lifecycle lock
          called,      \* children already asked for in this life of the server
          creation,    \* the step of each creation
          awaited,     \* creations the turn of the parent waits for
          deletion,    \* the deletion each deleter runs
          stranded,    \* creations left halfway: server ended, rollback failed twice, or
                       \* dropped before the lease that rolls back existed
          applies, troubles

store == <<rows, tombs, bound>>
docker == <<containers, volumes>>
runtime == <<leased, threads, turn>>
gates == <<blocked, applying, applies>>
calls == <<called, creation, awaited, deletion, stranded>>
vars == <<store, docker, runtime, gates, calls, listed, pending, troubles>>

Unarmed == {"none", "parent", "inserting", "listing"}
Product == {"volume", "environment", "publishing", "lineage"}
Canonical == {"registering", "checking", "committing"}
CreationSteps == Unarmed \cup Product \cup Canonical \cup {"rollback"}
Held == {"closing", "leasing", "resources", "records", "forgetting"}
DeletionSteps == Held \cup {"none", "sampling", "marking", "locking"}

NoDeletion == [pc |-> "none", root |-> None, retired |-> {}, rounds |-> 0,
               todo |-> {}, node |-> None, canonical |-> TRUE, last |-> FALSE]

\* The first agents have an environment and a thread.
Init == /\ rows = Existing /\ listed = Existing /\ bound = Existing
        /\ containers = Existing /\ volumes = Existing
        /\ leased = Existing /\ threads = Existing
        /\ tombs = {} /\ pending = {} /\ turn = {} /\ blocked = {} /\ applying = {}
        /\ called = {} /\ awaited = {} /\ stranded = {}
        /\ creation = [a \in Agents |-> "none"]
        /\ deletion = [d \in Deleters |-> NoDeletion]
        /\ applies = 0 /\ troubles = 0

-----------------------------------------------------------------------------
\* Locks, marks and the tree

Locked(a) == \/ a \in applying
             \/ creation[a] = "publishing"
             \/ \E d \in Deleters : deletion[d].node = a /\ deletion[d].pc \in Held

Retired(a) == \E d \in Deleters : a \in deletion[d].retired

GateClosed(a) == a \in blocked \/ \E d \in Deleters : deletion[d].node = a

\* The agent and its ancestors, and the agents of a subtree as the records in
\* memory link them.
Line == [a \in Agents |->
           {b \in Agents : \A S \in SUBSET Agents :
              a \in S /\ (\A c \in S : Parent[c] # None => Parent[c] \in S) => b \in S}]
Subtree(a) == {b \in listed : a \in Line[b] /\ \A c \in Line[b] : a \in Line[c] => c \in listed}

Leaf(todo, n) == n \in todo /\ Children(n) \cap todo = {}

\* Mutant of Possible: the record in hand is used without looking it up again.
PossibleUnlisted(a) == /\ ~Retired(a) /\ a \notin blocked
                       /\ a \in bound => a \in containers

\* An environment can be made, or the one there is taken up.
Possible(a) == /\ a \in listed /\ ~Retired(a) /\ a \notin blocked
               /\ a \in bound => a \in containers

Environment(S) == /\ volumes' = volumes \cup S
                  /\ containers' = containers \cup S
                  /\ bound' = bound \cup S
                  /\ leased' = leased \cup S

-----------------------------------------------------------------------------
\* Rollbacks

Reclaim(a, canonical, last) ==
    IF canonical THEN [NoDeletion EXCEPT !.pc = "sampling", !.root = a, !.last = last]
    ELSE [NoDeletion EXCEPT !.pc = "locking", !.root = a, !.node = a,
                            !.canonical = FALSE, !.last = last]

Goto(a, pc) == /\ creation' = [creation EXCEPT ![a] = pc]
               /\ UNCHANGED <<called, awaited, deletion, stranded>>

Over(a) == /\ creation' = [creation EXCEPT ![a] = "none"]
           /\ awaited' = awaited \ {a}
           /\ UNCHANGED <<called, deletion, stranded>>

RollBack(a) == /\ creation' = [creation EXCEPT ![a] = "rollback"]
               /\ deletion' = [deletion EXCEPT ![a] = Reclaim(a, creation[a] \in Canonical, FALSE)]
               /\ UNCHANGED <<called, awaited, stranded>>

\* The futures of the creations S are dropped: an armed lease rolls back in the
\* background; the row of one that is not listed yet stays.
AfterDrop(S) == [a \in Agents |-> IF a \notin S THEN creation[a]
                                  ELSE IF creation[a] \in Unarmed THEN "none" ELSE "rollback"]
Background(S) == [d \in Deleters |->
    IF d \notin S \/ creation[d] \in Unarmed THEN deletion[d]
    ELSE Reclaim(d, IF creation[d] = "rollback" THEN deletion[d].canonical
                    ELSE creation[d] \in Canonical, TRUE)]
Abandoned(S) == {a \in S : creation[a] = "listing"}

-----------------------------------------------------------------------------
\* spawn_child_agent

Spawn(a) ==
    LET p == Parent[a] IN
    /\ creation[a] = "none" /\ deletion[a].pc = "none"
    /\ a \notin called \cup listed
    /\ p \in turn /\ p \in listed /\ ~Retired(p)
    /\ creation' = [creation EXCEPT ![a] = "parent"]
    /\ called' = called \cup {a}
    /\ awaited' = awaited \cup {a}
    /\ UNCHANGED <<store, docker, runtime, gates, listed, pending, deletion, stranded, troubles>>

\* Mutant of ParentContainer: the lock of the parent is taken for an active lease too.
ParentContainerLocked(a) ==
    LET p == Parent[a] IN
    /\ creation[a] = "parent"
    /\ ~Locked(p)
    /\ \/ p \in leased /\ Goto(a, "inserting") /\ UNCHANGED <<docker, bound, leased>>
       \/ p \notin leased /\ Possible(p) /\ Goto(a, "inserting") /\ Environment({p})
       \/ p \notin leased /\ ~Possible(p) /\ Over(a) /\ UNCHANGED <<docker, bound, leased>>
    /\ UNCHANGED <<rows, tombs, threads, turn, gates, listed, pending, troubles>>

\* container_id of the parent: its lease, or its environment made again.
ParentContainer(a) ==
    LET p == Parent[a] IN
    /\ creation[a] = "parent"
    /\ \/ p \in leased /\ Goto(a, "inserting") /\ UNCHANGED <<docker, bound, leased>>
       \/ /\ p \notin leased /\ ~Locked(p)
          /\ \/ Possible(p) /\ Goto(a, "inserting") /\ Environment({p})
             \/ ~Possible(p) /\ Over(a) /\ UNCHANGED <<docker, bound, leased>>
    /\ UNCHANGED <<rows, tombs, threads, turn, gates, listed, pending, troubles>>

\* insert_agent_row
Insert(a) ==
    /\ creation[a] = "inserting"
    /\ IF a \in rows \cup tombs THEN Over(a) /\ UNCHANGED rows
       ELSE Goto(a, "listing") /\ rows' = rows \cup {a}
    /\ UNCHANGED <<tombs, bound, docker, runtime, gates, listed, pending, troubles>>

\* The record in memory, and the lease that rolls the creation back.
List(a) ==
    /\ creation[a] = "listing"
    /\ Goto(a, "volume")
    /\ listed' = listed \cup {a}
    /\ pending' = pending \cup {a}
    /\ UNCHANGED <<store, docker, runtime, gates, troubles>>

\* agent_container_source_for_project: outside the lock.
Volume(a) ==
    /\ creation[a] = "volume"
    /\ Goto(a, "environment")
    /\ volumes' = volumes \cup {a}
    /\ UNCHANGED <<store, containers, runtime, gates, listed, pending, troubles>>

\* start_reference_environment takes the lock and creates the container ...
Create(a) ==
    /\ creation[a] = "environment" /\ ~Locked(a)
    /\ IF Possible(a) THEN Goto(a, "publishing") /\ containers' = containers \cup {a}
       ELSE RollBack(a) /\ UNCHANGED containers
    /\ UNCHANGED <<store, volumes, runtime, gates, listed, pending, troubles>>

\* ... and publishes it before the lock is free again.
Publish(a) ==
    /\ creation[a] = "publishing"
    /\ Goto(a, "lineage")
    /\ bound' = bound \cup {a}
    /\ leased' = leased \cup {a}
    /\ UNCHANGED <<rows, tombs, docker, threads, turn, gates, listed, pending, troubles>>

\* ensure_thread: the missing threads of the line, each with an environment,
\* none of an agent whose registration is pending.
Missing(a) == Line[a] \ threads
Loadable(a) == /\ Line[a] \subseteq listed
               /\ Missing(a) \cap pending = {}
               /\ \A b \in Missing(a) : b \in leased \/ Possible(b)
Load(a) == /\ threads' = threads \cup Line[a]
           /\ Environment(Missing(a) \ leased)

\* ensure_parent_thread
Lineage(a) ==
    LET p == Parent[a] IN
    /\ creation[a] = "lineage"
    /\ \A b \in Missing(p) : ~Locked(b)
    /\ IF a \in listed /\ Loadable(p) THEN Goto(a, "registering") /\ Load(p)
       ELSE RollBack(a) /\ UNCHANGED <<threads, docker, bound, leased>>
    /\ UNCHANGED <<rows, tombs, turn, gates, listed, pending, troubles>>

\* assemble_child_thread: a new thread only.
Register(a) ==
    /\ creation[a] = "registering" /\ ~Locked(a)
    /\ IF a \in listed /\ a \notin threads /\ (a \in leased \/ Possible(a))
       THEN /\ Goto(a, "checking")
            /\ threads' = threads \cup {a}
            /\ Environment({a} \ leased)
       ELSE RollBack(a) /\ UNCHANGED <<threads, docker, bound, leased>>
    /\ UNCHANGED <<rows, tombs, turn, gates, listed, pending, troubles>>

\* Mutant of Check: only the record of the parent is looked up.
CheckListed(a) ==
    /\ creation[a] = "checking"
    /\ IF Parent[a] \notin listed THEN RollBack(a) ELSE Goto(a, "committing")
    /\ UNCHANGED <<store, docker, runtime, gates, listed, pending, troubles>>

\* finish_agent_registration, before the commit ...
Check(a) ==
    /\ creation[a] = "checking"
    /\ IF Retired(Parent[a]) \/ Parent[a] \notin listed THEN RollBack(a)
       ELSE Goto(a, "committing")
    /\ UNCHANGED <<store, docker, runtime, gates, listed, pending, troubles>>

\* ... and the commit; the initial message then begins a turn.
Commit(a) ==
    /\ creation[a] = "committing"
    /\ Over(a)
    /\ pending' = pending \ {a}
    /\ UNCHANGED <<store, docker, runtime, gates, listed, troubles>>

CreationFails(a) ==
    /\ creation[a] \in Product \cup {"registering"}
    /\ troubles < MaxTroubles
    /\ RollBack(a)
    /\ troubles' = troubles + 1
    /\ UNCHANGED <<store, docker, runtime, gates, listed, pending>>

-----------------------------------------------------------------------------
\* delete_agent and rollback_unregistered_agent

Ask(u, a) ==
    /\ u \in Users /\ a \in listed
    /\ deletion[u].pc = "none"
    /\ deletion' = [deletion EXCEPT ![u] = Reclaim(a, TRUE, FALSE)]
    /\ UNCHANGED <<store, docker, runtime, gates, listed, pending,
                   called, creation, awaited, stranded, troubles>>

At(d, pc) == deletion[d].pc = pc
Becomes(d, record) == /\ deletion' = [deletion EXCEPT ![d] = record]
                      /\ UNCHANGED <<called, creation, awaited, stranded>>
Then(d, pc) == Becomes(d, [deletion[d] EXCEPT !.pc = pc])

\* The locks and the marks of the deletion are dropped. A rollback that failed
\* is tried once more by the drop of its lease.
Ends(d, ok) ==
    LET again == d \in Agents /\ ~ok /\ ~deletion[d].last IN
    /\ deletion' = [deletion EXCEPT ![d] =
                      IF again THEN Reclaim(d, deletion[d].canonical, TRUE) ELSE NoDeletion]
    /\ creation' = IF d \in Agents /\ ~again THEN [creation EXCEPT ![d] = "none"] ELSE creation
    /\ awaited' = awaited \ {d}
    /\ stranded' = IF d \in Agents /\ ~ok /\ ~again THEN stranded \cup {d} ELSE stranded
    /\ UNCHANGED called

\* Mutant of Sample: the agents of the second sample are taken without a mark.
SampleTwice(d) ==
    LET targets == Subtree(deletion[d].root) IN
    /\ At(d, "sampling")
    /\ IF deletion[d].root \notin listed THEN Ends(d, TRUE)
       ELSE IF targets \subseteq deletion[d].retired \/ deletion[d].rounds > 0
       THEN \E n \in targets :
              /\ Leaf(targets, n)
              /\ Becomes(d, [deletion[d] EXCEPT !.pc = "locking", !.node = n, !.todo = targets])
       ELSE Becomes(d, [deletion[d] EXCEPT !.pc = "marking", !.todo = targets])
    /\ UNCHANGED <<store, docker, runtime, gates, listed, pending, troubles>>

\* descendant_delete_order of a new sample: known already, or to be marked.
Sample(d) ==
    LET targets == Subtree(deletion[d].root) IN
    /\ At(d, "sampling")
    /\ IF deletion[d].root \notin listed THEN Ends(d, TRUE)
       ELSE IF targets \subseteq deletion[d].retired
       THEN \E n \in targets :
              /\ Leaf(targets, n)
              /\ Becomes(d, [deletion[d] EXCEPT !.pc = "locking", !.node = n, !.todo = targets])
       ELSE Becomes(d, [deletion[d] EXCEPT !.pc = "marking", !.todo = targets])
    /\ UNCHANGED <<store, docker, runtime, gates, listed, pending, troubles>>

\* AgentRetirement of every target; after SampleLimit rounds the deletion fails.
Mark(d) ==
    /\ At(d, "marking")
    /\ IF deletion[d].rounds = SampleLimit THEN Ends(d, FALSE)
       ELSE Becomes(d, [deletion[d] EXCEPT !.pc = "sampling", !.rounds = @ + 1,
                                           !.retired = @ \cup deletion[d].todo])
    /\ UNCHANGED <<store, docker, runtime, gates, listed, pending, troubles>>

Lock(d) ==
    /\ At(d, "locking") /\ ~Locked(deletion[d].node)
    /\ Then(d, IF deletion[d].canonical THEN "closing" ELSE "leasing")
    /\ UNCHANGED <<store, docker, runtime, gates, listed, pending, troubles>>

\* close_canonical_agent: the thread ends its turn; the calls in it are
\* dropped or go on by themselves.
CloseThread(d) ==
    LET n == deletion[d].node IN
    /\ At(d, "closing")
    /\ threads' = threads \ {n}
    /\ turn' = turn \ {n}
    /\ \E S \in SUBSET (awaited \cap Children(n)) :
         /\ creation' = AfterDrop(S)
         /\ deletion' = [Background(S) EXCEPT ![d].pc = "leasing"]
         /\ stranded' = stranded \cup Abandoned(S)
    /\ awaited' = awaited \ Children(n)
    /\ UNCHANGED <<store, docker, leased, gates, listed, pending, called, troubles>>

RevokeLease(d) ==
    /\ At(d, "leasing")
    /\ leased' = leased \ {deletion[d].node}
    /\ Then(d, "resources")
    /\ UNCHANGED <<store, docker, threads, turn, gates, listed, pending, troubles>>

\* delete_agent_runtime_resources; a rollback takes AgentNotFound for done.
DeleteResources(d) ==
    LET n == deletion[d].node IN
    /\ At(d, "resources")
    /\ IF n \in listed
       THEN Then(d, "records") /\ containers' = containers \ {n} /\ volumes' = volumes \ {n}
       ELSE Ends(d, TRUE) /\ UNCHANGED docker
    /\ UNCHANGED <<store, runtime, gates, listed, pending, troubles>>

\* delete_agent_from_store
DeleteRow(d) ==
    LET n == deletion[d].node IN
    /\ At(d, "records")
    /\ rows' = rows \ {n}
    /\ tombs' = tombs \cup {n}
    /\ Then(d, "forgetting")
    /\ UNCHANGED <<bound, docker, runtime, gates, listed, pending, troubles>>

\* remove_agent_from_memory; the lock is free, and the next node follows.
Forget(d) ==
    LET n == deletion[d].node
        todo == deletion[d].todo \ {n}
    IN /\ At(d, "forgetting")
       /\ listed' = listed \ {n}
       /\ pending' = pending \ {n}
       /\ bound' = bound \ {n}
       /\ IF todo = {} THEN Ends(d, TRUE)
          ELSE \E next \in todo :
                 /\ Leaf(todo, next)
                 /\ Becomes(d, [deletion[d] EXCEPT !.pc = "locking", !.node = next, !.todo = todo])
       /\ UNCHANGED <<rows, tombs, docker, runtime, gates, troubles>>

\* A step fails, the second one with or without its containers; the row may be
\* deleted when the snapshots cannot be reclaimed.
DeletionFails(d) ==
    /\ deletion[d].pc \in {"leasing", "resources", "records"}
                          \cup (IF "reclaim" \in Events THEN {"forgetting"} ELSE {})
    /\ troubles < MaxTroubles
    /\ Ends(d, FALSE)
    /\ \/ UNCHANGED containers
       \/ At(d, "resources") /\ containers' = containers \ {deletion[d].node}
    /\ troubles' = troubles + 1
    /\ UNCHANGED <<store, volumes, runtime, gates, listed, pending>>

-----------------------------------------------------------------------------
\* Turns, applications and the server

\* A message is accepted by a resident thread and begins a turn; "early": also
\* while the agent is still being created.
TurnBegins(a) ==
    /\ a \in threads \ turn /\ ~GateClosed(a)
    /\ a \in pending => "early" \in Events
    /\ turn' = turn \cup {a}
    /\ UNCHANGED <<store, docker, leased, threads, gates, calls, listed, pending, troubles>>

TurnEnds(a) ==
    /\ a \in turn /\ awaited \cap Children(a) = {}
    /\ turn' = turn \ {a}
    /\ UNCHANGED <<store, docker, leased, threads, gates, calls, listed, pending, troubles>>

\* cancel_agent
Interrupt(a) ==
    /\ a \in turn /\ a \in listed
    /\ turn' = turn \ {a}
    /\ \E S \in SUBSET (awaited \cap Children(a)) :
         /\ creation' = AfterDrop(S)
         /\ deletion' = Background(S)
         /\ stranded' = stranded \cup Abandoned(S)
    /\ awaited' = awaited \ Children(a)
    /\ UNCHANGED <<store, docker, leased, threads, gates, listed, pending, called, troubles>>

\* ensure_thread of a request
LoadThread(a) ==
    /\ a \notin threads /\ Loadable(a)
    /\ \A b \in Missing(a) : ~Locked(b)
    /\ Load(a)
    /\ UNCHANGED <<rows, tombs, turn, gates, calls, listed, pending, troubles>>

\* An application takes the lock of the agent; its gate is closed until it is
\* published, after the turn.
ApplyBegins(a) ==
    /\ a \in listed \cap bound /\ ~Locked(a)
    /\ applies < MaxApplies
    /\ applying' = applying \cup {a}
    /\ blocked' = blocked \cup {a}
    /\ applies' = applies + 1
    /\ UNCHANGED <<store, docker, runtime, calls, listed, pending, troubles>>

ApplyEnds(a) ==
    /\ a \in applying \ turn
    /\ applying' = applying \ {a}
    /\ blocked' = blocked \ {a}
    /\ Environment({a})
    /\ UNCHANGED <<rows, tombs, threads, turn, applies, calls, listed, pending, troubles>>

\* The lease is gone, the gate stays closed; "outlast": a turn went on.
ApplyFails(a) ==
    /\ a \in applying
    /\ a \in turn => "outlast" \in Events
    /\ troubles < MaxTroubles
    /\ applying' = applying \ {a}
    /\ leased' = leased \ {a}
    /\ troubles' = troubles + 1
    /\ UNCHANGED <<store, docker, threads, turn, blocked, applies, calls, listed, pending>>

\* The server ends and starts again: the agents of the store, and what Docker
\* keeps for them.
Restart ==
    /\ troubles < MaxTroubles
    /\ listed' = rows
    /\ pending' = {} /\ leased' = {} /\ threads' = {} /\ turn' = {} /\ applying' = {}
    /\ bound' = bound \cap rows
    /\ blocked' = blocked \cap rows
    /\ containers' = containers \cap rows
    /\ volumes' = volumes \cap rows
    /\ called' = {} /\ awaited' = {}
    /\ creation' = [a \in Agents |-> "none"]
    /\ deletion' = [d \in Deleters |-> NoDeletion]
    /\ stranded' = stranded \cup {a \in Agents : creation[a] \notin {"none", "parent", "inserting"}}
    /\ troubles' = troubles + 1
    /\ UNCHANGED <<rows, tombs, applies>>

-----------------------------------------------------------------------------
\* The specification

CreationStep(a) == \/ ParentContainer(a) \/ Insert(a) \/ List(a) \/ Volume(a)
                   \/ Create(a) \/ Publish(a) \/ Lineage(a) \/ Register(a)
                   \/ Check(a) \/ Commit(a)

DeletionStep(d) == \/ Sample(d) \/ Mark(d) \/ Lock(d) \/ CloseThread(d) \/ RevokeLease(d)
                   \/ DeleteResources(d) \/ DeleteRow(d) \/ Forget(d)

Next == \/ \E a \in Agents : \/ Parent[a] # None /\ Spawn(a)
                             \/ CreationStep(a) \/ CreationFails(a)
                             \/ TurnBegins(a) \/ TurnEnds(a) \/ Interrupt(a) \/ LoadThread(a)
                             \/ ApplyBegins(a) \/ ApplyEnds(a) \/ ApplyFails(a)
        \/ \E u \in Users, a \in Agents : Ask(u, a)
        \/ \E d \in Deleters : deletion[d].pc # "none" /\ (DeletionStep(d) \/ DeletionFails(d))
        \/ Restart

Spec == Init /\ [][Next]_vars

\* Some creation or deletion that can go on does, each turn ends when it has
\* nothing to wait for, and so does the application that waits for it.
FairSpec == /\ Spec
            /\ WF_vars(\/ \E a \in Agents : CreationStep(a)
                       \/ \E d \in Deleters : DeletionStep(d))
            /\ \A a \in Agents : WF_vars(TurnEnds(a) \/ ApplyEnds(a))

-----------------------------------------------------------------------------
\* Properties

\* What each variable may hold; an agent whose registration is pending is one
\* in memory, and a deletion handles no agent it has not marked.
TreeTypeOK ==
    /\ rows \subseteq Agents /\ tombs \subseteq Agents /\ listed \subseteq Agents
    /\ pending \subseteq listed
    /\ bound \subseteq Agents /\ containers \subseteq Agents /\ volumes \subseteq Agents
    /\ leased \subseteq Agents /\ threads \subseteq Agents /\ turn \subseteq Agents
    /\ blocked \subseteq Agents /\ applying \subseteq Agents
    /\ called \subseteq Agents /\ awaited \subseteq Agents /\ stranded \subseteq Agents
    /\ creation \in [Agents -> CreationSteps]
    /\ deletion \in [Deleters -> [pc : DeletionSteps, root : Agents \cup {None},
                                  retired : SUBSET Agents, rounds : 0 .. SampleLimit,
                                  todo : SUBSET Agents, node : Agents \cup {None},
                                  canonical : BOOLEAN, last : BOOLEAN]]
    /\ \A d \in Deleters : deletion[d].canonical /\ deletion[d].node # None
                          => deletion[d].node \in deletion[d].todo
                             /\ deletion[d].todo \subseteq deletion[d].retired
    /\ applies \in 0 .. MaxApplies /\ troubles \in 0 .. MaxTroubles

\* The steps of a creation that can still be taken back.
Undecided == {"listing", "registering", "checking", "rollback"} \cup Product

\* No child outlives its parent unseen: an agent whose parent has no row is
\* one whose creation is not decided yet or is being rolled back, or one left
\* halfway. The check before the commit and the marks of the deletion keep it
\* so together.
NoOrphan == \A a \in rows : \/ Parent[a] \in rows \cup {None}
                            \/ creation[a] \in Undecided
                            \/ a \in stranded

\* A deletion leaves nothing running: a container, a lease, a thread or a turn
\* belongs to an agent that has a record, so another deletion can find it.
NothingLeft == containers \cup leased \cup threads \cup turn \subseteq rows \cup listed

\* Not so: a volume, like the rest, belongs to an agent that has a record. It
\* is synced outside the lock and may come after the deletion of its agent.
VolumesFound == volumes \subseteq rows \cup listed

\* No two of a spawn, an application and a deletion wait for each other: again
\* and again no creation and no deletion is under way.
CallsSettle == []<>(/\ \A a \in Agents : creation[a] = "none"
                    /\ \A d \in Deleters : deletion[d].pc = "none")
=============================================================================
