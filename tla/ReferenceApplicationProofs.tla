---------------------- MODULE ReferenceApplicationProofs ----------------------
(***************************************************************************)
(* Theorems about the applications of shared references, for any number of *)
(* configurations, operations, changes by turns and troubles: the types,   *)
(* that the environment in use is kept, that a turn is let in only into    *)
(* the configuration as it is, and that the gate is held.                  *)
(*                                                                         *)
(* One invariant for each, and each rests on those before it: Shape says   *)
(* what the holder of the lifecycle lock has at its step, GateInv how the  *)
(* operations, the claims, the requests and the gate agree, EnvInv what    *)
(* becomes of the containers, snapshots and leases, TurnInv what is        *)
(* mounted where. What a step does to the recorded operations is read off  *)
(* the actions once (Touched, Grown, Proceeds, Follows) and used by the    *)
(* later invariants.                                                       *)
(***************************************************************************)
EXTENDS ReferenceApplication, TLAPS

-----------------------------------------------------------------------------
(***************************************************************************)
(* The types.                                                              *)
(***************************************************************************)
\* How the bounded sets lie in each other; None is in none of them.
LEMMA Ranges ==
    /\ 0 \in Revisions /\ 0 \in Generations /\ Operations \subseteq Generations
    /\ Revisions \subseteq Nat /\ Generations \subseteq Nat
    /\ None \notin Revisions /\ None \notin Generations /\ None \notin Operations
    /\ 0 \notin Operations /\ 0 \in 0 .. MaxWork /\ None \notin 0 .. MaxWork
BY ReferenceAssumption DEF Revisions, Generations, Operations

\* Two receipts of an operation that differ in their policy at most.
SameReceipt(r, s) == /\ r.target = s.target /\ r.old = s.old
                     /\ r.candidate = s.candidate /\ r.phase = s.phase

\* What an intent appends is a receipt.
LEMMA NewReceiptType ==
    ASSUME TypeOK, NEW r \in Revisions, NEW policy \in Policies
    PROVE  NewReceipt(r, policy) \in Receipt
BY Ranges DEF TypeOK, NewReceipt, Receipt, Phases, Policies

\* An intent keeps the operations but for their policy, or appends one, when none
\* is unfinished and the agent has an environment.
LEMMA EnqueuedIs ==
    ASSUME TypeOK, NEW r \in Revisions, NEW policy \in Policies, NEW scope,
           NEW e, e = Enqueued(r, policy, scope)
    PROVE  /\ e \in Seq(Receipt)
           /\ Len(e) = Len(ops) \/ Len(e) = Len(ops) + 1
           /\ \A o \in 1 .. Len(ops) : SameReceipt(e[o], ops[o])
           /\ Len(e) = Len(ops) + 1 =>
                /\ ~Active /\ Physical
                /\ SameReceipt(e[Len(ops) + 1], NewReceipt(r, policy))
           /\ Physical /\ scope = "all" /\ ~Active => Len(e) = Len(ops) + 1
<1> DEFINE applied == binding # None /\ binding.revision >= r /\ LatestPhase # "failed"
           new == NewReceipt(r, policy)
           rows == IF Active THEN ops ELSE Append(ops, new)
           f == [o \in DOMAIN rows |->
                   IF policy = "stop_and_apply" /\ rows[o].phase \notin Terminal
                   THEN [rows[o] EXCEPT !.policy = policy] ELSE rows[o]]
<1>1. e = IF ~Physical \/ (scope = "unapplied" /\ applied) THEN ops ELSE f
  BY DEF Enqueued
<1>2. ops \in Seq(Receipt) /\ new \in Receipt
  BY NewReceiptType DEF TypeOK
<1> HIDE DEF applied, new
<1>3. /\ rows \in Seq(Receipt)
      /\ Len(rows) = IF Active THEN Len(ops) ELSE Len(ops) + 1
      /\ \A o \in 1 .. Len(ops) : rows[o] = ops[o]
      /\ ~Active => rows[Len(ops) + 1] = new
  BY <1>2
<1> HIDE DEF rows
<1>4. /\ DOMAIN f = 1 .. Len(rows)
      /\ \A o \in 1 .. Len(rows) : f[o] \in Receipt /\ SameReceipt(f[o], rows[o])
  <2>1. DOMAIN rows = 1 .. Len(rows)
    BY <1>3
  <2>2. ASSUME NEW o \in 1 .. Len(rows) PROVE f[o] \in Receipt /\ SameReceipt(f[o], rows[o])
    <3>1. rows[o] \in Receipt
      BY <1>3, <2>1
    <3>2. f[o] = IF policy = "stop_and_apply" /\ rows[o].phase \notin Terminal
                 THEN [rows[o] EXCEPT !.policy = policy] ELSE rows[o]
      BY <2>1
    <3> HIDE DEF f
    <3> QED BY <3>1, <3>2 DEF Receipt, SameReceipt
  <2> QED BY <2>1, <2>2
<1>5. f \in Seq(Receipt) /\ Len(f) = Len(rows)
  <2>1. Len(rows) \in Nat
    BY <1>3
  <2>2. f \in [1 .. Len(rows) -> Receipt]
    BY <1>4
  <2> HIDE DEF f
  <2> QED BY <2>1, <2>2
<1> HIDE DEF f
<1>6. CASE ~Physical \/ (scope = "unapplied" /\ applied)
  BY <1>1, <1>2, <1>6 DEF SameReceipt
<1>7. CASE ~(~Physical \/ (scope = "unapplied" /\ applied))
  <2>1. e = f
    BY <1>1, <1>7
  <2>2. Len(ops) \in Nat
    BY <1>2
  <2>3. \A o \in 1 .. Len(ops) : SameReceipt(e[o], ops[o])
    BY <2>1, <2>2, <1>3, <1>4
  <2>4. ~Active => SameReceipt(e[Len(ops) + 1], new)
    BY <2>1, <2>2, <1>3, <1>4
  <2> QED BY <1>3, <1>5, <1>7, <2>1, <2>2, <2>3, <2>4 DEF new
<1> QED BY <1>6, <1>7

\* The gate waits for a revision or for nothing.
LEMMA GateType ==
    ASSUME TypeOK, NEW r \in Revisions
    PROVE  Blocked(r) \in Revisions /\ Published(r) \in Revisions \cup {None}
BY DEF TypeOK, Blocked, Published

\* Stopping and removing containers keeps layers and mounts, and all others.
LEMMA DockerType ==
    ASSUME TypeOK, NEW gs
    PROVE  /\ Stopped(gs) \in [Generations -> Containers]
           /\ Removed(gs) \in [Generations -> Containers]
           /\ \A g \in Generations :
                /\ Stopped(gs)[g].layer = docker[g].layer
                   /\ Stopped(gs)[g].mounts = docker[g].mounts
                /\ Stopped(gs)[g].state = "absent" <=> docker[g].state = "absent"
                /\ g \notin gs => Stopped(gs)[g] = docker[g] /\ Removed(gs)[g] = docker[g]
                /\ g \in gs => Removed(gs)[g].state = "absent"
                /\ Removed(gs)[g].layer = docker[g].layer
                   /\ Removed(gs)[g].mounts = docker[g].mounts
<1>1. \A g \in Generations : docker[g] \in Containers
  BY DEF TypeOK
<1>2. ASSUME NEW g \in Generations, NEW s \in {"absent", "stopped", "running"}
      PROVE  LET c == [docker[g] EXCEPT !.state = s]
             IN c \in Containers /\ c.state = s /\ c.layer = docker[g].layer
                /\ c.mounts = docker[g].mounts
  BY <1>1 DEF Containers
<1>3. \A g \in Generations : Stopped(gs)[g] = IF g \in gs /\ Exists(g)
                              THEN [docker[g] EXCEPT !.state = "stopped"] ELSE docker[g]
  BY DEF Stopped
<1>4. \A g \in Generations : Removed(gs)[g] = IF g \in gs
                              THEN [docker[g] EXCEPT !.state = "absent"] ELSE docker[g]
  BY DEF Removed
<1>5. Stopped(gs) \in [Generations -> Containers] /\ Removed(gs) \in [Generations -> Containers]
  BY <1>1, <1>2 DEF Stopped, Removed
<1>6. ASSUME NEW g \in Generations
      PROVE  /\ Stopped(gs)[g].layer = docker[g].layer /\ Stopped(gs)[g].mounts = docker[g].mounts
             /\ Stopped(gs)[g].state = "absent" <=> docker[g].state = "absent"
             /\ g \notin gs => Stopped(gs)[g] = docker[g] /\ Removed(gs)[g] = docker[g]
             /\ g \in gs => Removed(gs)[g].state = "absent"
             /\ Removed(gs)[g].layer = docker[g].layer /\ Removed(gs)[g].mounts = docker[g].mounts
  <2>1. Stopped(gs)[g] \in {docker[g], [docker[g] EXCEPT !.state = "stopped"]}
        /\ (Stopped(gs)[g] # docker[g] => docker[g].state # "absent")
    BY <1>3 DEF Exists
  <2>2. /\ Stopped(gs)[g].layer = docker[g].layer /\ Stopped(gs)[g].mounts = docker[g].mounts
        /\ Stopped(gs)[g].state = "absent" <=> docker[g].state = "absent"
    BY <1>2, <2>1
  <2>3. g \notin gs => Stopped(gs)[g] = docker[g] /\ Removed(gs)[g] = docker[g]
    BY <1>3, <1>4
  <2>4. /\ g \in gs => Removed(gs)[g].state = "absent"
        /\ Removed(gs)[g].layer = docker[g].layer /\ Removed(gs)[g].mounts = docker[g].mounts
    BY <1>2, <1>4
  <2> QED BY <2>2, <2>3, <2>4
<1> QED BY <1>5, <1>6

\* The steps of an operation and of an assembly.
OperationSteps == Fallible \cup {"opening", "yielding", "failing", "failed"}
AssemblySteps == {"assembling", "blocking", "saving", "adopting", "recording"}

\* The lock is free, or an assembly or an operation that is recorded holds it,
\* and it has what its step uses.
Shape ==
    /\ \/ holder = Free
       \/ holder.task = 0 /\ holder.pc \in AssemblySteps /\ holder.receipt = None
       \/ holder.task \in DOMAIN ops /\ holder.pc \in OperationSteps /\ holder.receipt # None
    /\ queued # None => queued.id \in DOMAIN ops
    /\ holder.pc = "snapshotting" => Own.old # None
    /\ holder.pc = "creating" => image[Task] # None
    /\ holder.pc \in {"same", "same_publish", "activating", "cleaning", "retiring", "succeeding",
                      "opening"} => binding # None
    /\ holder.pc = "adopting" => Preferred # None

\* The recorded operations are receipts, numbered from 1.
LEMMA Tables ==
    ASSUME TypeOK
    PROVE  /\ Len(ops) \in Nat /\ DOMAIN ops = 1 .. Len(ops) /\ DOMAIN ops \subseteq Operations
           /\ \A o \in DOMAIN ops : ops[o] \in Receipt
BY ReferenceAssumption DEF TypeOK, Operations

\* A saved receipt replaces the row of the operation that runs.
LEMMA SaveAsType ==
    ASSUME TypeOK, Shape, NEW receipt \in Receipt, NEW pc \in Steps, SaveAs(receipt, pc),
           holder.task \in DOMAIN ops
    PROVE  /\ ops' \in Seq(Receipt) /\ Len(ops') = Len(ops) /\ DOMAIN ops' = DOMAIN ops
           /\ ops'[Task] = receipt /\ \A o \in DOMAIN ops : o # Task => ops'[o] = ops[o]
           /\ holder' \in Holders
           /\ holder'.task = holder.task /\ holder'.pc = pc /\ holder'.receipt = receipt
<1>1. ops \in Seq(Receipt) /\ Task \in 1 .. Len(ops)
  BY Tables DEF TypeOK, Task
<1>2. ops' = [ops EXCEPT ![Task] = receipt]
  BY DEF SaveAs
<1>3. ops' \in Seq(Receipt) /\ Len(ops') = Len(ops) /\ DOMAIN ops' = DOMAIN ops
  BY <1>1, <1>2
<1>4. ops'[Task] = receipt /\ \A o \in DOMAIN ops : o # Task => ops'[o] = ops[o]
  BY <1>1, <1>2
<1>5. holder' = [holder EXCEPT !.receipt = receipt, !.pc = pc] /\ holder \in Holders
  BY DEF SaveAs, TypeOK
<1> QED BY <1>3, <1>4, <1>5 DEF Holders

\* The initial states have the types.
LEMMA TypesInit == Init => TypeOK /\ Shape
<1> SUFFICES ASSUME Init PROVE TypeOK /\ Shape
  OBVIOUS
<1>1. TypeOK
  BY Ranges, ReferenceAssumption DEF Init, TypeOK, Free, Steps, Fallible, Containers, Holders
<1>2. Shape
  BY DEF Init, Shape, Free
<1> QED BY <1>1, <1>2

\* A request remembers whether the agent has an environment.
LEMMA RequestIs ==
    ASSUME NEW pc \in {"commit", "look"}, NEW policy \in Policies
    PROVE  [pc |-> pc, physical |-> Physical, policy |-> policy] \in Requests
<1>1. Physical \in BOOLEAN
  BY DEF Physical
<1> QED BY <1>1 DEF Requests

\* Requests, claims, the worker that begins, and what follows an operation.
LEMMA RequestsType ==
    ASSUME TypeOK, Shape,
           \/ TakeInventory \/ \E policy \in Policies : RequestApply(policy)
           \/ RequestStep
           \/ CancelReferenceTurn
           \/ Launch \/ Begin \/ Compensate
    PROVE  TypeOK' /\ Shape'
<1> USE Ranges, GateType, Tables
<1>0. CASE TakeInventory
  <2>1. request' \in Requests
    BY <1>0, RequestIs DEF TakeInventory, Policies
  <2>2. TypeOK'
    BY <1>0, <2>1 DEF TakeInventory, TypeOK, tables, memory, counts
  <2>3. Shape'
    BY <1>0 DEF TakeInventory, Shape, Preferred, Exists, Own, Task, tables, memory
  <2> QED BY <2>2, <2>3
<1>1. ASSUME NEW fingerprint \in Revisions, Replace(fingerprint) PROVE TypeOK' /\ Shape'
  <2>1. revision + 1 \in Revisions
    BY <1>1, ReferenceAssumption DEF Replace, TypeOK, Revisions
  <2>2. ops' = Enqueued(revision + 1, "when_idle", "unapplied")
    BY <1>1 DEF Replace
  <2>3. ops' \in Seq(Receipt) /\ Len(ops') \in {Len(ops), Len(ops) + 1}
    BY <2>1, <2>2, EnqueuedIs DEF Policies
  <2>35. Len(ops') <= MaxOperations /\ revision' \in Revisions
         /\ mounts' \in [Revisions -> Revisions]
    BY <1>1, <2>1, <2>3, ReferenceAssumption DEF Replace, TypeOK
  <2>36. request' \in Requests
    BY <1>1 DEF Replace, TypeOK, Requests
  <2>4. TypeOK'
    BY <1>1, <2>1, <2>3, ReferenceAssumption, <2>35, <2>36 DEF Replace, TypeOK, counts, memory
  <2>5. DOMAIN ops \subseteq DOMAIN ops'
    BY <2>3
  <2>6. Shape'
    BY <1>1, <2>5 DEF Replace, Shape, Preferred, Exists, Own, Task, memory
  <2> QED BY <2>4, <2>6
<1>15. CASE KeepConfiguration
  <2>1. TypeOK'
    BY <1>15 DEF KeepConfiguration, TypeOK, tables, memory, counts
  <2>2. Shape'
    BY <1>15 DEF KeepConfiguration, Shape, Preferred, Exists, Own, Task, tables, memory
  <2> QED BY <2>1, <2>2
<1>16. CASE BlockReplaced
  <2>1. pending' \in Revisions \cup {None}
    BY <1>16, GateType DEF BlockReplaced, TypeOK
  <2>2. TypeOK'
    BY <1>16, <2>1 DEF BlockReplaced, TypeOK, tables, counts
  <2>3. Shape'
    BY <1>16 DEF BlockReplaced, Shape, Preferred, Exists, Own, Task, tables
  <2> QED BY <2>2, <2>3
<1>2. ASSUME NEW policy \in Policies, RequestApply(policy) PROVE TypeOK' /\ Shape'
  <2>2. ops' = Enqueued(revision, policy, "all")
    BY <1>2 DEF RequestApply
  <2>3. ops' \in Seq(Receipt) /\ Len(ops') \in {Len(ops), Len(ops) + 1}
    BY <2>2, EnqueuedIs DEF TypeOK
  <2>34. Len(ops') <= MaxOperations
    BY <1>2, <2>3, ReferenceAssumption DEF RequestApply
  <2>35. request' \in Requests
    BY <1>2, RequestIs DEF RequestApply
  <2>4. TypeOK'
    BY <1>2, <2>3, <2>34, <2>35 DEF RequestApply, TypeOK, counts, memory
  <2>5. DOMAIN ops \subseteq DOMAIN ops'
    BY <2>3
  <2>6. Shape'
    BY <1>2, <2>5 DEF RequestApply, Shape, Preferred, Exists, Own, Task, memory
  <2> QED BY <2>4, <2>6
<1>25. CASE BlockUnfinished
  <2>1. pending' \in Revisions \cup {None} /\ cancelling' \in BOOLEAN
    <3>1. revision \in Revisions /\ pending \in Revisions \cup {None} /\ cancelling \in BOOLEAN
      BY DEF TypeOK
    <3>2. pending' \in {pending, Blocked(revision)}
      BY <1>25 DEF BlockUnfinished
    <3>3. cancelling' \in BOOLEAN
      BY <1>25, <3>1 DEF BlockUnfinished
    <3> QED BY <3>1, <3>2, <3>3, GateType
  <2>2. troubles' \in 0 .. MaxTroubles
    <3>1. troubles' = troubles \/ (troubles < MaxTroubles /\ troubles' = troubles + 1)
      BY <1>25 DEF BlockUnfinished
    <3> QED BY <3>1, ReferenceAssumption DEF TypeOK
  <2>3. TypeOK'
    BY <1>25, <2>1, <2>2 DEF BlockUnfinished, TypeOK, tables
  <2>4. Shape'
    BY <1>25 DEF BlockUnfinished, Shape, Preferred, Exists, Own, Task, tables
  <2> QED BY <2>3, <2>4
<1>3. CASE CancelReferenceTurn
  <2>1. TypeOK'
    BY <1>3 DEF CancelReferenceTurn, TypeOK, tables, counts
  <2>2. Shape'
    BY <1>3 DEF CancelReferenceTurn, Shape, Preferred, Exists, Own, Task, tables
  <2> QED BY <2>1, <2>2
<1>4. CASE Launch
  <2>1. PICK o \in DOMAIN ops : queued' = [id |-> o, receipt |-> ops[o]]
    BY <1>4 DEF Launch
  <2>2. TypeOK'
    BY <1>4, <2>1 DEF Launch, TypeOK, tables, counts, Claims
  <2>3. Shape'
    BY <1>4, <2>1 DEF Launch, Shape, Preferred, Exists, Own, Task, tables
  <2> QED BY <2>2, <2>3
<1>5. CASE Begin
  <2>1. queued \in Claims
    BY <1>5 DEF Begin, TypeOK
  <2>2. Blocked(queued.receipt.target) \in Revisions
    BY <2>1 DEF Claims, Receipt
  <2>3. holder' \in Holders
    BY <1>5, <2>1 DEF Begin, Free, Steps, Fallible, Holders, Claims
  <2>4. TypeOK'
    BY <1>5, <2>2, <2>3 DEF Begin, TypeOK, tables, counts
  <2>5. Shape'
    <3>1. /\ holder'.task = queued.id /\ holder'.pc = "read" /\ holder'.receipt = queued.receipt
          /\ queued' = None /\ ops' = ops /\ queued.id \in DOMAIN ops
      BY <1>5, <2>1 DEF Begin, Free, Shape, tables
    <3>2. queued.receipt # None
      BY <2>1, NoneAssumption DEF Claims
    <3> QED BY <3>1, <3>2 DEF Shape, OperationSteps, Fallible
  <2> QED BY <2>4, <2>5
<1>6. CASE Compensate
  <2>1. PICK o \in finished : finished' = finished \ {o} /\ Len(ops') <= MaxOperations
    BY <1>6 DEF Compensate
  <2>2. ops' = ops \/ ops' = Enqueued(revision, "when_idle", "unapplied")
    BY <1>6 DEF Compensate
  <2>3. ops' \in Seq(Receipt) /\ Len(ops') \in {Len(ops), Len(ops) + 1}
    BY <2>2, EnqueuedIs DEF TypeOK, Policies
  <2>4. TypeOK'
    BY <1>6, <2>1, <2>3 DEF Compensate, TypeOK, counts
  <2>5. DOMAIN ops \subseteq DOMAIN ops'
    BY <2>3
  <2>6. Shape'
    BY <1>6, <2>5 DEF Compensate, Shape, Preferred, Exists, Own, Task
  <2> QED BY <2>4, <2>6
<1> QED BY <1>0, <1>1, <1>15, <1>16, <1>2, <1>25, <1>3, <1>4, <1>5, <1>6 DEF RequestStep

\* A holder that goes on keeps its task and receipt.
LEMMA GotoType ==
    ASSUME TypeOK, NEW pc \in Steps, Goto(pc)
    PROVE  /\ holder' \in Holders /\ holder'.task = holder.task /\ holder'.pc = pc
           /\ holder'.receipt = holder.receipt /\ holder'.read = holder.read
           /\ holder'.resident = holder.resident
BY DEF TypeOK, Goto, Holders

\* A saved phase is a receipt of the same operation.
LEMMA SaveType ==
    ASSUME TypeOK, Shape, NEW phase \in Phases, NEW pc \in Steps, Save(phase, pc),
           holder.task \in DOMAIN ops, holder.receipt \in Receipt
    PROVE  /\ ops' \in Seq(Receipt) /\ Len(ops') = Len(ops) /\ DOMAIN ops' = DOMAIN ops
           /\ ops'[Task] \in Receipt
           /\ ops'[Task] = [Own EXCEPT !.phase = phase]
           /\ \A o \in DOMAIN ops : o # Task => ops'[o] = ops[o]
           /\ holder' \in Holders
           /\ holder'.task = holder.task /\ holder'.pc = pc /\ holder'.receipt = ops'[Task]
<1>1. [Own EXCEPT !.phase = phase] \in Receipt
  BY DEF Receipt, Own
<1> QED BY <1>1, SaveAsType DEF Save

\* Who holds the lock in a step of an operation.
LEMMA Holder ==
    ASSUME TypeOK, Shape, NEW pc \in OperationSteps, Running(pc)
    PROVE  /\ holder.task \in DOMAIN ops /\ holder.task \in Operations
           /\ holder.receipt \in Receipt /\ holder.receipt # None
           /\ holder.task # 0 /\ holder.task # None
           /\ holder.pc = pc /\ server # "starting" /\ holder.pc \in Steps
<1>1. "idle" \notin OperationSteps /\ OperationSteps \cap AssemblySteps = {}
  BY DEF OperationSteps, AssemblySteps, Fallible
<1>2. holder.pc = pc /\ pc \in Steps
  BY DEF Running, OperationSteps, Steps
<1>3. holder.pc # Free.pc
  BY <1>1, <1>2 DEF Free
<1>4. holder.task \in DOMAIN ops /\ holder.receipt # None
  BY <1>1, <1>2, <1>3 DEF Shape
<1>5. holder.receipt \in Receipt
  BY <1>4 DEF TypeOK, Holders
<1> QED BY <1>2, <1>4, <1>5, Tables, Ranges DEF Running

\* Every step named by an action is one.
LEMMA StepNames ==
    /\ Fallible \subseteq OperationSteps /\ OperationSteps \subseteq Steps
       /\ AssemblySteps \subseteq Steps
    /\ \A pc \in {"opening", "yielding", "failing", "failed"} : pc \in OperationSteps
    /\ \A pc \in {"read", "same", "same_publish", "waiting", "draining", "quiescing",
                  "snapshotting", "creating", "created", "rebinding", "publishing",
                  "activating", "cleaning", "retiring", "succeeding", "superseding",
                  "superseded"} : pc \in OperationSteps
    /\ \A phase \in {"waiting_idle", "draining", "snapshotting", "creating", "verifying",
                     "rebinding", "publishing", "cleanup_pending", "succeeded", "failed",
                     "superseded"} : phase \in Phases
BY DEF Fallible, OperationSteps, AssemblySteps, Steps, Phases, Terminal

\* From reading the configuration to the snapshot.
LEMMA OperationType1 ==
    ASSUME TypeOK, Shape,
           \/ ReadConfiguration \/ KeepEnvironment \/ PublishSame \/ WaitIdle \/ Drain \/ Quiesce
           \/ Snapshot
    PROVE  TypeOK' /\ Shape'
<1> USE Ranges, Tables, StepNames
<1>1. CASE ReadConfiguration
  <2>1. holder.task \in DOMAIN ops /\ holder.receipt \in Receipt /\ holder.receipt # None
    BY <1>1, Holder DEF ReadConfiguration
  <2>2. \/ Save("superseded", "yielding")
        \/ Goto("superseding") /\ ops' = ops
        \/ \E pc \in {"draining", "waiting", "failing", "same"} :
              Goto(pc) /\ ops' = ops /\ (pc = "same" => binding # None)
    BY <1>1 DEF ReadConfiguration
  <2>3. /\ ops' \in Seq(Receipt) /\ Len(ops') = Len(ops) /\ DOMAIN ops' = DOMAIN ops
        /\ holder' \in Holders /\ holder'.task = holder.task /\ holder'.receipt \in Receipt
        /\ holder'.pc \in {"yielding", "superseding", "draining", "waiting", "failing", "same"}
        /\ holder'.pc = "same" => binding # None
    <3>1. CASE Save("superseded", "yielding")
      <4>1. "superseded" \in Phases /\ "yielding" \in Steps
        BY DEF Phases, Terminal, Steps
      <4>2. /\ ops' \in Seq(Receipt) /\ Len(ops') = Len(ops) /\ DOMAIN ops' = DOMAIN ops
            /\ ops'[Task] \in Receipt /\ holder' \in Holders /\ holder'.task = holder.task
            /\ holder'.pc = "yielding" /\ holder'.receipt = ops'[Task]
        BY <2>1, <3>1, <4>1, SaveType
      <4> QED BY <4>2
    <3>2. CASE Goto("superseding") /\ ops' = ops
      <4>1. "superseding" \in Steps
        BY DEF Steps, Fallible
      <4> QED BY <2>1, <3>2, <4>1, GotoType DEF TypeOK
    <3>3. ASSUME NEW pc \in {"draining", "waiting", "failing", "same"},
                 Goto(pc) /\ ops' = ops /\ (pc = "same" => binding # None)
          PROVE  /\ ops' \in Seq(Receipt) /\ Len(ops') = Len(ops) /\ DOMAIN ops' = DOMAIN ops
                 /\ holder' \in Holders /\ holder'.task = holder.task /\ holder'.receipt \in Receipt
                 /\ holder'.pc \in {"draining", "waiting", "failing", "same"}
                 /\ holder'.pc = "same" => binding # None
      BY <2>1, <3>3, GotoType DEF TypeOK
    <3> QED BY <2>2, <3>1, <3>2, <3>3
  <2>4. TypeOK'
    BY SMTT(30), <1>1, <2>3 DEF ReadConfiguration, TypeOK, memory, others, counts
  <2>5. Shape'
    BY <1>1, <2>1, <2>3, NoneAssumption DEF ReadConfiguration, Shape, memory, others
  <2> QED BY <2>4, <2>5
<1>2. CASE KeepEnvironment
  <2>1. /\ holder.task \in DOMAIN ops /\ holder.receipt # None /\ holder.pc = "same"
        /\ binding # None
    BY <1>2, Holder DEF KeepEnvironment, Shape
  <2>2. binding.generation \in Generations
    BY <2>1 DEF TypeOK, Bindings
  <2>3. holder' \in Holders /\ holder'.task = holder.task /\ holder'.receipt = holder.receipt
        /\ holder'.pc = "same_publish"
    BY <1>2 DEF KeepEnvironment, TypeOK, Holders
  <2>4. docker' \in [Generations -> Containers]
    <3>1. docker[binding.generation] \in Containers
      BY <2>2 DEF TypeOK
    <3>2. [docker[binding.generation] EXCEPT !.state = "running"] \in Containers
      BY <3>1 DEF Containers
    <3>3. \/ docker' = docker
          \/ docker' = [docker EXCEPT ![binding.generation] =
                          [docker[binding.generation] EXCEPT !.state = "running"]]
      BY <1>2 DEF KeepEnvironment
    <3> DEFINE g == binding.generation
               c == [docker[g] EXCEPT !.state = "running"]
    <3>4. g \in Generations /\ c \in Containers
          /\ (docker' = docker \/ docker' = [docker EXCEPT ![g] = c])
      BY <2>2, <3>2, <3>3
    <3> HIDE DEF g, c
    <3> QED BY <3>4 DEF TypeOK
  <2>5. TypeOK'
    BY <1>2, <2>2, <2>3, <2>4 DEF KeepEnvironment, TypeOK, tables, others, counts
  <2>6. Shape'
    BY <1>2, <2>1, <2>3 DEF KeepEnvironment, Shape, tables, others
  <2> QED BY <2>5, <2>6
<1>3. CASE PublishSame
  <2>1. /\ holder.task \in DOMAIN ops /\ holder.receipt \in Receipt /\ holder.receipt # None
        /\ holder.pc = "same_publish" /\ binding # None
    BY <1>3, Holder DEF PublishSame, Shape
  <2>2. binding \in Bindings /\ binding.generation \in Generations /\ Own.target \in Revisions
    BY <2>1 DEF TypeOK, Bindings, Receipt, Own
  <2>3. /\ holder' \in Holders /\ holder'.task = holder.task /\ holder'.receipt = holder.receipt
        /\ holder'.pc \in {"failing", "retiring"}
    BY <1>3, GotoType DEF PublishSame
  <2>4. binding' \in Bindings
    BY <1>3, <2>2 DEF PublishSame, Bindings
  <2>5. TypeOK'
    BY <1>3, <2>2, <2>3, <2>4 DEF PublishSame, TypeOK, others, counts
  <2>6. Shape'
    BY <1>3, <2>1, <2>3, <2>4, NoneAssumption DEF PublishSame, Shape, others
  <2> QED BY <2>5, <2>6
<1>4. CASE WaitIdle
  <2>1. holder.task \in DOMAIN ops /\ holder.receipt \in Receipt /\ holder.receipt # None
    BY <1>4, Holder DEF WaitIdle
  <2> DEFINE receipt == [Own EXCEPT !.policy = ops[Task].policy]
  <2>2. receipt \in Receipt /\ [receipt EXCEPT !.phase = "superseded"] \in Receipt
    <3>1. ops[Task] \in Receipt /\ Own \in Receipt
      BY <2>1 DEF Task, Own
    <3> QED BY <3>1 DEF Receipt
  <2>3. \/ holder' = [holder EXCEPT !.receipt = receipt, !.pc = "draining"] /\ ops' = ops
        \/ SaveAs([receipt EXCEPT !.phase = "superseded"], "yielding")
    BY <1>4 DEF WaitIdle
  <2> HIDE DEF receipt
  <2>4. /\ ops' \in Seq(Receipt) /\ Len(ops') = Len(ops) /\ DOMAIN ops' = DOMAIN ops
        /\ holder' \in Holders /\ holder'.task = holder.task /\ holder'.receipt \in Receipt
        /\ holder'.pc \in {"draining", "yielding"}
    <3>1. CASE holder' = [holder EXCEPT !.receipt = receipt, !.pc = "draining"] /\ ops' = ops
      BY <2>2, <3>1 DEF TypeOK, Holders
    <3>2. CASE SaveAs([receipt EXCEPT !.phase = "superseded"], "yielding")
      BY <2>1, <2>2, <3>2, SaveAsType
    <3> QED BY <2>3, <3>1, <3>2
  <2>5. TypeOK'
    BY <1>4, <2>4 DEF WaitIdle, TypeOK, memory, others, counts
  <2>6. Shape'
    BY <1>4, <2>1, <2>4, NoneAssumption DEF WaitIdle, Shape, memory, others
  <2> QED BY <2>5, <2>6
<1>5. CASE Drain
  <2>1. holder.task \in DOMAIN ops /\ holder.receipt \in Receipt
    BY <1>5, Holder DEF Drain
  <2>2. /\ ops' \in Seq(Receipt) /\ Len(ops') = Len(ops) /\ DOMAIN ops' = DOMAIN ops
        /\ holder' \in Holders /\ holder'.task = holder.task /\ holder'.receipt \in Receipt
        /\ holder'.pc = "quiescing"
    BY <1>5, <2>1, SaveType DEF Drain
  <2>5. TypeOK'
    BY <1>5, <2>2 DEF Drain, TypeOK, memory, others, counts
  <2>6. Shape'
    BY <1>5, <2>1, <2>2, NoneAssumption DEF Drain, Shape, memory, others
  <2> QED BY <2>5, <2>6
<1>6. CASE Quiesce
  <2>1. holder.task \in DOMAIN ops /\ holder.receipt \in Receipt /\ Own = holder.receipt
    BY <1>6, Holder DEF Quiesce, Own
  <2> DEFINE receipt == [Own EXCEPT !.facts = TRUE, !.phase = "snapshotting"]
  <2>2. receipt \in Receipt /\ receipt.old = Own.old
    BY <2>1 DEF Receipt
  <2>3. \/ Goto("failing") /\ ops' = ops
        \/ SaveAs(receipt, "snapshotting") /\ Own.old # None
    BY <1>6 DEF Quiesce
  <2> HIDE DEF receipt
  <2>4. /\ ops' \in Seq(Receipt) /\ Len(ops') = Len(ops) /\ DOMAIN ops' = DOMAIN ops
        /\ holder' \in Holders /\ holder'.task = holder.task /\ holder'.receipt \in Receipt
        /\ \/ holder'.pc = "failing"
           \/ holder'.pc = "snapshotting" /\ holder'.receipt.old # None
    <3>1. CASE Goto("failing") /\ ops' = ops
      BY <2>1, <3>1, GotoType DEF TypeOK
    <3>2. CASE SaveAs(receipt, "snapshotting") /\ Own.old # None
      BY <2>1, <2>2, <3>2, SaveAsType
    <3> QED BY <2>3, <3>1, <3>2
  <2>5. TypeOK'
    BY <1>6, <2>4 DEF Quiesce, TypeOK, others, counts
  <2>6. Shape'
    BY <1>6, <2>1, <2>4, NoneAssumption DEF Quiesce, Shape, Own, others
  <2> QED BY <2>5, <2>6
<1>7. CASE Snapshot
  <2>1. /\ holder.task \in DOMAIN ops /\ holder.receipt \in Receipt /\ Own = holder.receipt
        /\ holder.receipt # None /\ holder.task \in Operations
    BY <1>7, Holder DEF Snapshot, Own
  <2>2. Own.old \in Generations
    BY <1>7, <2>1 DEF Snapshot, Running, Shape, Receipt
  <2>3. docker[Own.old].layer \in 0 .. MaxWork
    BY <2>2 DEF TypeOK, Containers
  <2>4. /\ holder' \in Holders /\ holder'.task = holder.task /\ holder'.receipt = holder.receipt
        /\ holder'.pc \in {"creating", "failing"}
    BY <1>7, GotoType DEF Snapshot
  <2>5. docker' \in [Generations -> Containers]
    BY <1>7, DockerType DEF Snapshot, TypeOK
  <2>6. image' \in [Operations -> 0 .. MaxWork \cup {None}]
    BY <1>7, <2>1, <2>3 DEF Snapshot, TypeOK, Task
  <2>7. holder'.pc = "creating" => image'[holder.task] # None
    <3>1. CASE image[Task] # None /\ Goto("creating") /\ UNCHANGED <<docker, image>>
      BY <3>1 DEF Task
    <3>2. CASE image' = [image EXCEPT ![Task] = docker[Own.old].layer]
      BY <2>1, <2>3, <3>2 DEF TypeOK, Task
    <3>3. CASE Goto("failing")
      BY <3>3, GotoType
    <3> QED BY <1>7, <3>1, <3>2, <3>3 DEF Snapshot
  <2>8. TypeOK'
    BY <1>7, <2>4, <2>5, <2>6 DEF Snapshot, TypeOK, memory, tables, others, counts
  <2>9. Shape'
    BY <1>7, <2>1, <2>4, <2>7 DEF Snapshot, Shape, memory, tables, others, Task
  <2> QED BY <2>8, <2>9
<1> QED BY <1>1, <1>2, <1>3, <1>4, <1>5, <1>6, <1>7

\* From the candidate to the removal of what it replaced.
LEMMA OperationType2 ==
    ASSUME TypeOK, Shape,
           CreateCandidate \/ SaveCandidate \/ Rebind \/ Publish \/ Activate \/ RemoveOld
    PROVE  TypeOK' /\ Shape'
<1> USE Ranges, Tables, StepNames
<1>1. CASE CreateCandidate
  <2>1. /\ holder.task \in DOMAIN ops /\ holder.receipt \in Receipt /\ Own = holder.receipt
        /\ holder.task \in Operations /\ Task = holder.task
    BY <1>1, Holder DEF CreateCandidate, Own, Task
  <2>2. /\ ops' \in Seq(Receipt) /\ Len(ops') = Len(ops) /\ DOMAIN ops' = DOMAIN ops
        /\ holder' \in Holders /\ holder'.task = holder.task /\ holder'.receipt \in Receipt
        /\ holder'.pc = "created"
    BY <1>1, <2>1, SaveType DEF CreateCandidate
  <2>3. image[Task] \in 0 .. MaxWork /\ mounts[Own.target] \in Revisions
    BY <1>1, <2>1 DEF CreateCandidate, Running, Shape, TypeOK, Receipt
  <2>4. docker' \in [Generations -> Containers]
    <3>1. [state |-> "running", layer |-> image[Task], mounts |-> mounts[Own.target]] \in Containers
      BY <2>3 DEF Containers
    <3> QED BY <1>1, <2>1, <3>1 DEF CreateCandidate, TypeOK
  <2>5. TypeOK'
    BY <1>1, <2>2, <2>4 DEF CreateCandidate, TypeOK, memory, others, counts
  <2>6. Shape'
    BY <1>1, <2>1, <2>2, NoneAssumption DEF CreateCandidate, Shape, memory, others
  <2> QED BY <2>5, <2>6
<1>2. CASE SaveCandidate
  <2>1. /\ holder.task \in DOMAIN ops /\ holder.receipt \in Receipt /\ Own = holder.receipt
        /\ holder.task \in Operations /\ Task = holder.task
    BY <1>2, Holder DEF SaveCandidate, Own, Task
  <2> DEFINE receipt == [Own EXCEPT !.candidate = Task, !.phase = "verifying"]
  <2>2. receipt \in Receipt
    BY <2>1 DEF Receipt
  <2>3. SaveAs(receipt, "rebinding")
    BY <1>2 DEF SaveCandidate
  <2> HIDE DEF receipt
  <2>4. /\ ops' \in Seq(Receipt) /\ Len(ops') = Len(ops) /\ DOMAIN ops' = DOMAIN ops
        /\ holder' \in Holders /\ holder'.task = holder.task /\ holder'.receipt \in Receipt
        /\ holder'.pc = "rebinding"
    BY <2>1, <2>2, <2>3, SaveAsType
  <2>5. TypeOK'
    BY <1>2, <2>4 DEF SaveCandidate, TypeOK, memory, others, counts
  <2>6. Shape'
    BY <1>2, <2>1, <2>4, NoneAssumption DEF SaveCandidate, Shape, memory, others
  <2> QED BY <2>5, <2>6
<1>3. CASE Rebind
  <2>1. /\ holder.task \in DOMAIN ops /\ holder.receipt \in Receipt /\ Own = holder.receipt
        /\ holder.task \in Operations /\ Task = holder.task /\ Task \in Generations
    BY <1>3, Holder DEF Rebind, Own, Task
  <2>2. /\ ops' \in Seq(Receipt) /\ Len(ops') = Len(ops) /\ DOMAIN ops' = DOMAIN ops
        /\ holder' \in Holders /\ holder'.task = holder.task /\ holder'.receipt \in Receipt
        /\ holder'.pc = "publishing"
    BY <1>3, <2>1, SaveType DEF Rebind
  <2>3. docker' \in [Generations -> Containers]
    <3>1. docker[Task] \in Containers
      BY <2>1 DEF TypeOK
    <3>2. [docker[Task] EXCEPT !.state = "running"] \in Containers
      BY <3>1 DEF Containers
    <3>3. docker' = [docker EXCEPT ![Task] = [docker[Task] EXCEPT !.state = "running"]]
      BY <1>3 DEF Rebind
    <3> QED BY <2>1, <3>2, <3>3 DEF TypeOK
  <2>5. TypeOK'
    BY <1>3, <2>1, <2>2, <2>3 DEF Rebind, TypeOK, others, counts
  <2>6. Shape'
    BY <1>3, <2>1, <2>2, NoneAssumption DEF Rebind, Shape, others
  <2> QED BY <2>5, <2>6
<1>4. CASE Publish
  <2>1. /\ holder.task \in DOMAIN ops /\ holder.receipt \in Receipt /\ Own = holder.receipt
        /\ holder.task \in Operations /\ Task = holder.task /\ Task \in Generations
        /\ holder.receipt # None
    BY <1>4, Holder DEF Publish, Own, Task
  <2>2. Own.target \in Revisions
    BY <2>1 DEF Receipt
  <2>3. /\ holder' \in Holders /\ holder'.task = holder.task /\ holder'.receipt = holder.receipt
        /\ holder'.pc \in {"superseding", "activating"}
    <3>1. "superseding" \in Steps /\ "activating" \in Steps
      BY DEF Steps, Fallible
    <3> QED BY <1>4, <3>1, GotoType DEF Publish
  <2>4. \/ binding' = binding /\ holder'.pc = "superseding"
        \/ binding' \in Bindings /\ row' \in Generations
    <3>1. CASE revision # Own.target
      BY <1>4, <3>1, GotoType DEF Publish, Steps, Fallible
    <3>2. CASE revision = Own.target
      BY <1>4, <2>1, <2>2, <3>2 DEF Publish, Bindings
    <3> QED BY <3>1, <3>2
  <2>5. TypeOK'
    <3>1. binding' \in Bindings \cup {None} /\ row' \in Generations \cup {None}
      BY <1>4, <2>1, <2>4 DEF Publish, TypeOK
    <3> QED BY <1>4, <2>3, <3>1 DEF Publish, TypeOK, memory, others, counts
  <2>6. Shape'
    BY <1>4, <2>1, <2>3, <2>4, NoneAssumption DEF Publish, Shape, memory, others
  <2> QED BY <2>5, <2>6
<1>5. CASE Activate
  <2>1. /\ holder.task \in DOMAIN ops /\ holder.receipt \in Receipt /\ Own = holder.receipt
        /\ holder.task \in Operations /\ Task = holder.task /\ Task \in Generations
        /\ holder.pc = "activating"
    BY <1>5, Holder DEF Activate, Own, Task
  <2>2. /\ ops' \in Seq(Receipt) /\ Len(ops') = Len(ops) /\ DOMAIN ops' = DOMAIN ops
        /\ holder' \in Holders /\ holder'.task = holder.task /\ holder'.receipt \in Receipt
        /\ holder'.pc = "cleaning"
    BY <1>5, <2>1, SaveType DEF Activate
  <2>5. TypeOK'
    BY <1>5, <2>1, <2>2 DEF Activate, TypeOK, others, counts
  <2>6. Shape'
    BY <1>5, <2>1, <2>2, NoneAssumption DEF Activate, Shape, others
  <2> QED BY <2>5, <2>6
<1>6. CASE RemoveOld
  <2>1. holder.task \in DOMAIN ops /\ holder.receipt # None /\ holder.pc = "cleaning"
    BY <1>6, Holder DEF RemoveOld
  <2>2. /\ holder' \in Holders /\ holder'.task = holder.task /\ holder'.receipt = holder.receipt
        /\ holder'.pc = "retiring"
    <3>1. "retiring" \in Steps
      BY DEF Steps, Fallible
    <3> QED BY <1>6, <3>1, GotoType DEF RemoveOld
  <2>3. docker' \in [Generations -> Containers]
    BY <1>6, DockerType DEF RemoveOld
  <2>5. TypeOK'
    <3>1. /\ revision' = revision /\ mounts' = mounts /\ ops' = ops /\ binding' = binding
          /\ row' = row /\ shown' = shown /\ image' = image /\ pending' = pending
          /\ tools' = tools /\ cancelling' = cancelling /\ queued' = queued
          /\ finished' = finished /\ server' = server /\ work' = work /\ troubles' = troubles
          /\ lease' \in {None, lease} /\ turn' \in {None, turn} /\ request' = request
      BY <1>6 DEF RemoveOld, memory, tables, others, counts
    <3> QED BY SMTT(30), <2>2, <2>3, <3>1 DEF TypeOK
  <2>6. Shape'
    BY <1>6, <2>1, <2>2 DEF RemoveOld, Shape, memory, tables, others
  <2> QED BY <2>5, <2>6
<1> QED BY <1>1, <1>2, <1>3, <1>4, <1>5, <1>6

\* The retirement of earlier operations, and how an operation ends or fails.
LEMMA OperationType3 ==
    ASSUME TypeOK, Shape,
           \/ Retire \/ Succeed \/ Open \/ Yield
           \/ Supersede \/ SaveSuperseded \/ Fail \/ SaveFailed \/ Fault
    PROVE  TypeOK' /\ Shape'
<1> USE Ranges, Tables, StepNames
<1>1. CASE Retire
  <2>1. holder.task \in DOMAIN ops /\ holder.receipt # None /\ holder.pc = "retiring"
        /\ binding # None
    BY <1>1, Holder DEF Retire, Shape
  <2>2. \/ \E o \in DOMAIN ops : /\ docker' = Removed(Leftovers(o))
                                 /\ ops' = [ops EXCEPT ![o].phase = "superseded"]
                                 /\ holder' = holder
        \/ Goto("succeeding") /\ docker' = docker /\ ops' = ops
    BY <1>1 DEF Retire
  <2>3. ASSUME NEW o \in DOMAIN ops
        PROVE  [ops EXCEPT ![o].phase = "superseded"] \in Seq(Receipt)
               /\ Len([ops EXCEPT ![o].phase = "superseded"]) = Len(ops)
    <3> DEFINE receipt == [ops[o] EXCEPT !.phase = "superseded"]
    <3>1. receipt \in Receipt
      BY DEF Receipt
    <3> HIDE DEF receipt
    <3>2. ops \in Seq(Receipt)
      BY DEF TypeOK
    <3>3. [ops EXCEPT ![o] = receipt] \in Seq(Receipt)
          /\ Len([ops EXCEPT ![o] = receipt]) = Len(ops)
      BY <3>1, <3>2
    <3> QED BY <3>3 DEF receipt
  <2>4. /\ ops' \in Seq(Receipt) /\ Len(ops') = Len(ops) /\ DOMAIN ops' = DOMAIN ops
        /\ docker' \in [Generations -> Containers]
        /\ holder' \in Holders /\ holder'.task = holder.task /\ holder'.receipt = holder.receipt
        /\ holder'.pc \in {"retiring", "succeeding"}
    <3>1. "succeeding" \in Steps
      BY DEF Steps, Fallible
    <3>2. CASE Goto("succeeding") /\ docker' = docker /\ ops' = ops
      BY <3>1, <3>2, GotoType DEF TypeOK
    <3>3. ASSUME NEW o \in DOMAIN ops, docker' = Removed(Leftovers(o)), holder' = holder,
                 ops' = [ops EXCEPT ![o].phase = "superseded"]
          PROVE  /\ ops' \in Seq(Receipt) /\ Len(ops') = Len(ops) /\ DOMAIN ops' = DOMAIN ops
                 /\ docker' \in [Generations -> Containers]
      <4>1. ops' \in Seq(Receipt) /\ Len(ops') = Len(ops)
        BY <2>3, <3>3
      <4>2. docker' \in [Generations -> Containers]
        BY <3>3, DockerType
      <4> QED BY <4>1, <4>2
    <3> QED BY <2>1, <2>2, <3>2, <3>3 DEF TypeOK
  <2>5. TypeOK'
    BY <1>1, <2>4 DEF Retire, TypeOK, memory, others, counts
  <2>6. Shape'
    BY <1>1, <2>1, <2>4 DEF Retire, Shape, memory, others
  <2> QED BY <2>5, <2>6
<1>2. CASE Succeed
  <2>1. holder.task \in DOMAIN ops /\ holder.receipt \in Receipt /\ holder.pc = "succeeding"
        /\ binding # None
    BY <1>2, Holder DEF Succeed, Shape
  <2>2. /\ ops' \in Seq(Receipt) /\ Len(ops') = Len(ops) /\ DOMAIN ops' = DOMAIN ops
        /\ holder' \in Holders /\ holder'.task = holder.task /\ holder'.receipt \in Receipt
        /\ holder'.pc = "opening"
    BY <1>2, <2>1, SaveType DEF Succeed
  <2>5. TypeOK'
    BY <1>2, <2>2 DEF Succeed, TypeOK, memory, others, counts
  <2>6. Shape'
    BY <1>2, <2>1, <2>2, NoneAssumption DEF Succeed, Shape, memory, others
  <2> QED BY <2>5, <2>6
<1>3. Free \in Holders /\ (Done => finished' \subseteq Operations \/ holder.task \notin Operations)
  BY DEF Free, Holders, Steps, Done, Task, TypeOK
<1>4. Reclaimed \in [Operations -> 0 .. MaxWork \cup {None}]
  BY DEF Reclaimed, TypeOK
<1>5. CASE Open
  <2>1. holder.task \in Operations /\ holder.receipt \in Receipt
    BY <1>5, Holder DEF Open
  <2>2. Published(Own.target) \in Revisions \cup {None}
    BY <2>1, GateType DEF Receipt, Own
  <2>3. holder' = Free /\ finished' \subseteq Operations
    BY <1>3, <1>5, <2>1 DEF Open, Done
  <2>5. TypeOK'
    BY SMTT(30), <1>3, <1>4, <1>5, <2>2, <2>3 DEF Open, TypeOK, tables, counts
  <2>6. Shape'
    BY <1>5, <2>3 DEF Open, Shape, tables, Free
  <2> QED BY <2>5, <2>6
<1>6. CASE Yield
  <2>1. holder.task \in Operations
    BY <1>6, Holder DEF Yield
  <2>3. holder' = Free /\ finished' \subseteq Operations
    BY <1>3, <1>6, <2>1 DEF Yield, Done
  <2>5. TypeOK'
    BY SMTT(30), <1>3, <1>4, <1>6, <2>3 DEF Yield, TypeOK, tables, counts, memory
  <2>6. Shape'
    BY <1>6, <2>3 DEF Yield, Shape, tables, Free
  <2> QED BY <2>5, <2>6
<1>7. CASE Supersede
  <2>1. holder.task \in DOMAIN ops /\ holder.receipt # None
    BY <1>7, Holder DEF Supersede
  <2>2. /\ holder' \in Holders /\ holder'.task = holder.task /\ holder'.receipt = holder.receipt
        /\ holder'.pc = "superseded"
    <3>1. "superseded" \in Steps
      BY DEF Steps, Fallible
    <3> QED BY <1>7, <3>1, GotoType DEF Supersede
  <2>3. docker' \in [Generations -> Containers]
    BY <1>7, DockerType DEF Supersede, TypeOK
  <2>5. TypeOK'
    BY <1>7, <2>2, <2>3 DEF Supersede, TypeOK, tables, others, counts
  <2>6. Shape'
    BY <1>7, <2>1, <2>2 DEF Supersede, Shape, tables, others
  <2> QED BY <2>5, <2>6
<1>8. CASE SaveSuperseded
  <2>1. holder.task \in DOMAIN ops /\ holder.receipt \in Receipt
    BY <1>8, Holder DEF SaveSuperseded
  <2>2. /\ ops' \in Seq(Receipt) /\ Len(ops') = Len(ops) /\ DOMAIN ops' = DOMAIN ops
        /\ holder' \in Holders /\ holder'.task = holder.task /\ holder'.receipt \in Receipt
        /\ holder'.pc = "yielding"
    BY <1>8, <2>1, SaveType DEF SaveSuperseded
  <2>5. TypeOK'
    BY <1>8, <2>2 DEF SaveSuperseded, TypeOK, memory, others, counts
  <2>6. Shape'
    BY <1>8, <2>1, <2>2, NoneAssumption DEF SaveSuperseded, Shape, memory, others
  <2> QED BY <2>5, <2>6
<1>9. CASE Fail
  <2>1. holder.task \in DOMAIN ops /\ holder.receipt # None
    BY <1>9, Holder DEF Fail
  <2>2. /\ holder' \in Holders /\ holder'.task = holder.task /\ holder'.receipt = holder.receipt
        /\ holder'.pc = "failed"
    BY <1>9, GotoType DEF Fail, Steps
  <2>3. docker' \in [Generations -> Containers]
    BY <1>9, DockerType DEF Fail
  <2>5. TypeOK'
    <3>1. /\ revision' = revision /\ mounts' = mounts /\ ops' = ops /\ binding' = binding
          /\ row' = row /\ shown' = shown /\ image' = image /\ pending' = pending
          /\ tools' = tools /\ cancelling' = cancelling /\ queued' = queued
          /\ finished' = finished /\ server' = server /\ work' = work /\ troubles' = troubles
          /\ lease' \in {None, lease} /\ turn' \in {None, turn} /\ request' = request
      BY <1>9 DEF Fail, memory, tables, others, counts
    <3> QED BY SMTT(30), <2>2, <2>3, <3>1 DEF TypeOK
  <2>6. Shape'
    BY <1>9, <2>1, <2>2 DEF Fail, Shape, tables, others
  <2> QED BY <2>5, <2>6
<1>10. CASE SaveFailed
  <2>1. /\ holder.task \in DOMAIN ops /\ holder.receipt \in Receipt /\ holder.task \in Operations
        /\ Own = holder.receipt /\ Task = holder.task
    BY <1>10, Holder DEF SaveFailed, Own, Task
  <2> DEFINE receipt == [Own EXCEPT !.phase = "failed"]
  <2>2. receipt \in Receipt
    BY <2>1 DEF Receipt
  <2>3. ops' = [ops EXCEPT ![Task] = receipt] \/ ops' = ops
    BY <1>10 DEF SaveFailed
  <2> HIDE DEF receipt
  <2>4. ops' \in Seq(Receipt) /\ Len(ops') = Len(ops) /\ DOMAIN ops' = DOMAIN ops
    <3>1. ops \in Seq(Receipt)
      BY DEF TypeOK
    <3>2. /\ [ops EXCEPT ![Task] = receipt] \in Seq(Receipt)
          /\ Len([ops EXCEPT ![Task] = receipt]) = Len(ops)
          /\ DOMAIN [ops EXCEPT ![Task] = receipt] = DOMAIN ops
      BY <2>1, <2>2, <3>1
    <3> QED BY <2>3, <3>1, <3>2
  <2>5. holder' = Free /\ finished' \subseteq Operations
    BY <1>3, <1>10, <2>1 DEF SaveFailed, Done
  <2>6. troubles' \in 0 .. MaxTroubles
    <3>1. troubles' = troubles \/ (troubles < MaxTroubles /\ troubles' = troubles + 1)
      BY <1>10 DEF SaveFailed
    <3> QED BY SMTT(30), <3>1, ReferenceAssumption DEF TypeOK
  <2>7. TypeOK'
    BY SMTT(30), <1>3, <1>10, <2>4, <2>5, <2>6 DEF SaveFailed, TypeOK, memory
  <2>8. Shape'
    BY <1>10, <2>4, <2>5 DEF SaveFailed, Shape, Free
  <2> QED BY <2>7, <2>8
<1>11. CASE Fault
  <2>1. PICK pc \in Fallible : Running(pc)
    BY <1>11 DEF Fault
  <2>2. holder.task \in DOMAIN ops /\ holder.receipt # None
    BY <2>1, Holder
  <2>3. /\ holder' \in Holders /\ holder'.task = holder.task /\ holder'.receipt = holder.receipt
        /\ holder'.pc = "failing"
    BY <1>11, GotoType DEF Fault, Steps
  <2>4. troubles' \in 0 .. MaxTroubles
    BY <1>11, ReferenceAssumption DEF Fault, TypeOK
  <2>5. TypeOK'
    BY SMTT(30), <1>11, <2>3, <2>4 DEF Fault, TypeOK, tables, memory
  <2>6. Shape'
    BY <1>11, <2>2, <2>3 DEF Fault, Shape, tables, memory
  <2> QED BY <2>5, <2>6
<1> QED BY <1>1, <1>2, <1>5, <1>6, <1>7, <1>8, <1>9, <1>10, <1>11

\* Who is at a step of an assembly.
LEMMA AssemblyHolder ==
    ASSUME TypeOK, Shape, NEW pc \in AssemblySteps, Running(pc)
    PROVE  holder.task = 0 /\ holder.receipt = None /\ holder.pc = pc /\ server # "starting"
BY DEF Running, Shape, AssemblySteps, OperationSteps, Fallible, Free

\* An assembly up to the container it adopts, and the refusal.
LEMMA EnvironmentType1 ==
    ASSUME TypeOK, Shape,
           \/ Assemble \/ Discover \/ FindContainer \/ BlockFound \/ CreateContainer
           \/ SaveContainer \/ Refuse
    PROVE  TypeOK' /\ Shape'
<1> USE Ranges, Tables
<1>1. \A pc \in {"assembling", "blocking", "saving", "adopting"} :
         pc \in AssemblySteps /\ pc \in Steps
  BY DEF AssemblySteps, Steps
<1>2. Free \in Holders
  BY DEF Free, Holders, Steps
<1>3. RowWith(shown) \in Generations \cup {None} /\ Preferred \in Generations \cup {None}
  BY DEF RowWith, Preferred, TypeOK, Bindings
<1>4. CASE Assemble
  <2>1. /\ holder' \in Holders /\ holder'.task = 0 /\ holder'.pc = "assembling"
        /\ holder'.receipt = None
    BY <1>1, <1>4 DEF Assemble, Free, Holders, TypeOK
  <2>2. TypeOK'
    BY <1>4, <2>1 DEF Assemble, TypeOK, tables, memory, others, counts
  <2>3. Shape'
    BY <1>1, <1>4, <2>1 DEF Assemble, Shape, tables, memory, others
  <2> QED BY <2>2, <2>3
<1>5. CASE Discover
  <2>1. holder.pc = "assembling"
    BY <1>5 DEF Discover, Running
  <2>2. TypeOK'
    BY <1>5 DEF Discover, TypeOK, others, counts
  <2>3. Shape'
    BY <1>5, <2>1 DEF Discover, Shape, others
  <2> QED BY <2>2, <2>3
<1>6. CASE FindContainer
  <2>1. holder.task = 0 /\ holder.receipt = None /\ holder.pc = "assembling"
    BY <1>1, <1>6, AssemblyHolder DEF FindContainer
  <2>2. /\ revision' = revision /\ mounts' = mounts /\ binding' = binding /\ shown' = shown
        /\ image' = image /\ lease' = lease /\ tools' = tools /\ turn' = turn
        /\ pending' = pending /\ request' = request
        /\ cancelling' = cancelling /\ queued' = queued
        /\ finished' = finished /\ server' = server /\ work' = work /\ troubles' = troubles
    BY <1>6 DEF FindContainer, others, counts, memory
  <2>3. CASE Exists(Preferred) /\ Matches(Preferred)
    <3>1. /\ Goto("adopting") /\ docker' = [docker EXCEPT ![Preferred].state = "running"]
          /\ ops' = ops /\ row' = row
      BY <1>6, <2>3 DEF FindContainer
    <3>2. Preferred # None /\ Preferred' = Preferred
      <4>1. binding # None => binding.generation \in Generations
        BY DEF TypeOK, Bindings
      <4>2. binding # None \/ shown # None
        BY <1>6 DEF FindContainer
      <4> QED BY <2>2, <4>1, <4>2 DEF Preferred
    <3>3. /\ holder' \in Holders /\ holder'.task = 0 /\ holder'.receipt = None
          /\ holder'.pc = "adopting"
      BY <1>1, <2>1, <3>1, GotoType
    <3>4. docker' \in [Generations -> Containers]
      <4> DEFINE g == Preferred
                 c == [docker[g] EXCEPT !.state = "running"]
      <4>1. g \in Generations
        BY <1>3, <3>2
      <4>2. docker[g] \in Containers
        BY <4>1 DEF TypeOK
      <4>3. c \in Containers
        BY <4>2 DEF Containers
      <4>4. docker' = [docker EXCEPT ![g] = c]
        BY <3>1
      <4> HIDE DEF g, c
      <4> QED BY <4>1, <4>3, <4>4 DEF TypeOK
    <3>5. TypeOK'
      BY <2>2, <3>1, <3>3, <3>4 DEF TypeOK
    <3>6. Shape'
      BY <1>1, <2>2, <3>1, <3>2, <3>3 DEF Shape
    <3> QED BY <3>5, <3>6
  <2>4. CASE ~(Exists(Preferred) /\ Matches(Preferred))
    <3>1. /\ docker' = docker
          /\ \/ /\ ops' = Enqueued(revision, "when_idle", "all") /\ Len(ops') <= MaxOperations
                /\ row' = row /\ Goto("blocking")
             \/ ops' = ops /\ row' = RowWith(shown) /\ holder' = Free
      BY <1>6, <2>4 DEF FindContainer
    <3>2. revision \in Revisions
      BY DEF TypeOK
    <3>3. ops' \in Seq(Receipt) /\ Len(ops') \in {Len(ops), Len(ops) + 1}
          /\ Len(ops') <= MaxOperations
      BY <3>1, <3>2, EnqueuedIs DEF TypeOK, Policies
    <3>4. /\ holder' \in Holders
          /\ \/ holder' = Free
             \/ holder'.task = 0 /\ holder'.receipt = None /\ holder'.pc = "blocking"
      BY <1>1, <1>2, <2>1, <3>1, GotoType
    <3>45. row' \in Generations \cup {None}
      BY <1>3, <3>1 DEF TypeOK
    <3>5. TypeOK'
      BY <2>2, <3>1, <3>3, <3>4, <3>45 DEF TypeOK
    <3>6. DOMAIN ops \subseteq DOMAIN ops'
      BY <3>3
    <3>7. Shape'
      BY <1>1, <2>2, <3>1, <3>4, <3>6 DEF Shape, Free
    <3> QED BY <3>5, <3>7
  <2> QED BY <2>3, <2>4
<1>65. CASE BlockFound
  <2>1. pending' \in Revisions
    BY <1>65, GateType DEF BlockFound, TypeOK, Holders
  <2>2. TypeOK'
    BY <1>2, <1>3, <1>65, <2>1 DEF BlockFound, TypeOK, others, counts
  <2>3. Shape'
    BY <1>65 DEF BlockFound, Shape, Free, others
  <2> QED BY <2>2, <2>3
<1>7. CASE CreateContainer
  <2>1. holder.task = 0 /\ holder.receipt = None /\ holder.pc = "assembling"
    BY <1>1, <1>7, AssemblyHolder DEF CreateContainer
  <2>2. /\ holder' \in Holders /\ holder'.task = 0 /\ holder'.receipt = None
        /\ holder'.pc = "saving"
    BY <1>1, <1>7, <2>1, GotoType DEF CreateContainer
  <2>3. docker' \in [Generations -> Containers]
    <3>1. mounts[holder.read] \in Revisions
      BY DEF TypeOK, Holders
    <3>2. [state |-> "running", layer |-> 0, mounts |-> mounts[holder.read]] \in Containers
      BY <3>1 DEF Containers
    <3> QED BY <1>7, <3>2 DEF CreateContainer, TypeOK
  <2>4. TypeOK'
    BY SMTT(30), <1>7, <2>2, <2>3 DEF CreateContainer, TypeOK, tables, memory, others, counts
  <2>5. Shape'
    BY <1>1, <1>7, <2>2 DEF CreateContainer, Shape, tables, memory, others
  <2> QED BY <2>4, <2>5
<1>8. CASE SaveContainer
  <2>1. holder.task = 0 /\ holder.receipt = None
    BY <1>1, <1>8, AssemblyHolder DEF SaveContainer
  <2>2. /\ holder' \in Holders /\ holder'.task = 0 /\ holder'.receipt = None
        /\ holder'.pc = "adopting"
    BY <1>1, <1>8, <2>1, GotoType DEF SaveContainer
  <2>3. Preferred' # None
    <3>1. binding' # None => binding'.generation \in Generations
      BY <1>8 DEF SaveContainer, TypeOK, Bindings
    <3> QED BY <1>8, <3>1 DEF SaveContainer, Preferred
  <2>4. TypeOK'
    BY <1>8, <2>2 DEF SaveContainer, TypeOK, others, counts
  <2>5. Shape'
    BY <1>1, <1>8, <2>2, <2>3 DEF SaveContainer, Shape, others
  <2> QED BY <2>4, <2>5
<1>9. CASE Refuse
  <2>1. TypeOK'
    BY <1>3, <1>9 DEF Refuse, TypeOK, memory, others, counts
  <2>2. Shape'
    BY <1>9 DEF Refuse, Shape, memory, others, Free
  <2> QED BY <2>1, <2>2
<1> QED BY <1>4, <1>5, <1>6, <1>65, <1>7, <1>8, <1>9

\* The end of an assembly, turns, and the end of the server.
LEMMA EnvironmentType2 ==
    ASSUME TypeOK, Shape,
           \/ Adopt \/ AdoptFails \/ RecordIntent \/ AssemblyFault
           \/ LoadThread \/ TurnBegins \/ Work \/ TurnEnds \/ Restart \/ Recover
    PROVE  TypeOK' /\ Shape'
<1> USE Ranges, Tables
<1>2. Free \in Holders
  BY DEF Free, Holders, Steps
<1>25. /\ revision \in Revisions /\ holder.read \in Revisions
       /\ RowWith(shown) \in Generations \cup {None}
       /\ holder.pc = "adopting" => Preferred \in Generations
  BY DEF RowWith, TypeOK, Holders, Bindings, Shape, Preferred
<1>26. ASSUME troubles' = troubles \/ (troubles < MaxTroubles /\ troubles' = troubles + 1)
       PROVE  troubles' \in 0 .. MaxTroubles
  BY <1>26, ReferenceAssumption DEF TypeOK
<1>3. CASE Adopt
  <2>2. holder.pc = "adopting" /\ Preferred \in Generations
    BY <1>3, <1>25 DEF Adopt, Running
  <2>3. /\ holder' = Free
        /\ revision' = revision /\ mounts' = mounts /\ image' = image /\ tools' = tools
        /\ turn' = turn /\ cancelling' = cancelling /\ queued' = queued /\ request' = request
        /\ finished' = finished /\ server' = server /\ work' = work /\ ops' = ops
        /\ binding' = [generation |-> Preferred, revision |-> revision] /\ row' = Preferred
        /\ \/ /\ lease' = Preferred /\ shown' = Preferred /\ pending' = Published(revision)
              /\ docker' = docker /\ troubles' = troubles
           \/ /\ troubles < MaxTroubles /\ troubles' = troubles + 1
              /\ shown' = None /\ pending' = 0 /\ docker' = Stopped({Preferred}) /\ lease' = lease
    BY <1>3 DEF Adopt
  <2>4. binding' \in Bindings
    BY <2>2, <1>25, <2>3 DEF Bindings
  <2>5. docker' \in [Generations -> Containers] /\ pending' \in Revisions \cup {None}
        /\ lease' \in Generations \cup {None} /\ shown' \in Generations \cup {None}
    <3>1. docker' \in [Generations -> Containers]
      BY <2>3, DockerType DEF TypeOK
    <3>2. pending' \in Revisions \cup {None}
      BY <1>25, <2>3, GateType
    <3>3. lease' \in Generations \cup {None} /\ shown' \in Generations \cup {None}
      BY <2>2, <2>3 DEF TypeOK
    <3> QED BY <3>1, <3>2, <3>3
  <2>6. TypeOK'
    BY <1>2, <1>26, <2>2, <2>3, <2>4, <2>5 DEF TypeOK
  <2>7. Shape'
    BY <2>3 DEF Shape, Free
  <2> QED BY <2>6, <2>7
<1>31. CASE AdoptFails
  <2>1. holder.pc = "adopting" /\ holder.task = 0 /\ holder.receipt = None
    BY <1>31, AssemblyHolder DEF AdoptFails, AssemblySteps
  <2>2. Preferred \in Generations
    BY <1>25, <2>1
  <2>3. /\ holder' \in Holders /\ holder'.task = 0 /\ holder'.pc = "recording"
        /\ holder'.receipt = None
    BY <1>31, <2>1, GotoType DEF AdoptFails, Steps
  <2>4. binding' \in Bindings \cup {None} /\ row' \in Generations \cup {None}
    <3>1. binding' = binding \/ binding' = [generation |-> Preferred, revision |-> revision]
      BY <1>31 DEF AdoptFails
    <3>2. [generation |-> Preferred, revision |-> revision] \in Bindings
      BY <1>25, <2>2 DEF Bindings
    <3>3. row' \in {row, Preferred}
      BY <1>31 DEF AdoptFails
    <3> QED BY <2>2, <3>1, <3>2, <3>3 DEF TypeOK
  <2>5. docker' \in [Generations -> Containers] /\ pending' \in Revisions
    BY <1>25, <1>31, DockerType, GateType DEF AdoptFails
  <2>6. troubles' \in 0 .. MaxTroubles
    BY <1>26, <1>31 DEF AdoptFails
  <2>7. TypeOK'
    BY <1>31, <2>3, <2>4, <2>5, <2>6 DEF AdoptFails, TypeOK
  <2>8. Shape'
    BY <1>31, <2>3 DEF AdoptFails, Shape, AssemblySteps
  <2> QED BY <2>7, <2>8
<1>32. CASE RecordIntent
  <2>1. ops' \in Seq(Receipt) /\ Len(ops') \in {Len(ops), Len(ops) + 1}
    BY <1>25, <1>32, EnqueuedIs DEF RecordIntent, Policies
  <2>2. TypeOK'
    BY <1>2, <1>25, <1>32, <2>1 DEF RecordIntent, TypeOK, memory, others, counts
  <2>3. DOMAIN ops \subseteq DOMAIN ops'
    BY <2>1
  <2>4. Shape'
    BY <1>32, <2>3 DEF RecordIntent, Shape, Free, memory, others
  <2> QED BY <2>2, <2>4
<1>33. CASE AssemblyFault
  <2>1. docker' \in [Generations -> Containers]
    BY <1>33, DockerType DEF AssemblyFault, TypeOK
  <2>2. row' \in Generations \cup {None} /\ shown' \in Generations \cup {None}
    BY <1>25, <1>33 DEF AssemblyFault, TypeOK
  <2>3. troubles' \in 0 .. MaxTroubles
    BY <1>26, <1>33 DEF AssemblyFault
  <2>4. TypeOK'
    BY <1>2, <1>33, <2>1, <2>2, <2>3 DEF AssemblyFault, TypeOK
  <2>5. Shape'
    BY <1>33 DEF AssemblyFault, Shape, Free
  <2> QED BY <2>4, <2>5
<1>4. CASE LoadThread
  <2>1. TypeOK'
    BY <1>4 DEF LoadThread, TypeOK, tables, others, counts
  <2>2. Shape'
    BY <1>4 DEF LoadThread, Shape, tables, others, Free
  <2> QED BY <2>1, <2>2
<1>5. CASE TurnBegins
  <2>1. TypeOK'
    BY <1>5 DEF TurnBegins, TypeOK, tables, others, counts
  <2>2. Shape'
    BY <1>5 DEF TurnBegins, Shape, tables, others, Preferred, Own, Task, Exists
  <2> QED BY <2>1, <2>2
<1>6. CASE Work
  <2>1. turn \in Generations /\ work' \in 0 .. MaxWork
    <3>1. turn # None /\ work < MaxWork /\ work' = work + 1
      BY <1>6 DEF Work
    <3>2. turn \in Generations \cup {None} /\ work \in 0 .. MaxWork /\ MaxWork \in Nat
      BY ReferenceAssumption DEF TypeOK
    <3> QED BY <3>1, <3>2
  <2>2. docker' \in [Generations -> Containers]
    <3> DEFINE c == [docker[turn] EXCEPT !.layer = work']
    <3>1. docker[turn] \in Containers
      BY <2>1 DEF TypeOK
    <3>2. c \in Containers
      BY <2>1, <3>1 DEF Containers
    <3>3. docker' = [docker EXCEPT ![turn] = c]
      BY <1>6 DEF Work
    <3> HIDE DEF c
    <3> QED BY <2>1, <3>2, <3>3 DEF TypeOK
  <2>3. TypeOK'
    BY <1>6, <2>1, <2>2 DEF Work, TypeOK, tables, memory
  <2>4. Preferred # None => Preferred' # None
    <3>1. binding # None => binding.generation # None
      BY DEF TypeOK, Bindings
    <3>2. Exists(0)' = Exists(0)
      <4>1. docker[0] \in Containers
        BY DEF TypeOK
      <4> QED BY <1>6, <2>1, <4>1 DEF Work, Exists, TypeOK, Containers
    <3> QED BY <1>6, <3>2 DEF Work, Preferred, tables, memory
  <2>5. Shape'
    BY <1>6, <2>4 DEF Work, Shape, tables, memory, Own, Task
  <2> QED BY <2>3, <2>5
<1>7. CASE TurnEnds
  <2>1. TypeOK'
    BY SMTT(30), <1>7 DEF TurnEnds, TypeOK, tables, others, counts
  <2>2. Shape'
    BY <1>7 DEF TurnEnds, Shape, tables, others, Preferred, Own, Task, Exists
  <2> QED BY <2>1, <2>2
<1>8. CASE Restart
  <2>1. docker' \in [Generations -> Containers]
    BY <1>8, DockerType DEF Restart, TypeOK
  <2>2. pending' \in Revisions \cup {None}
    <3>1. ops # <<>> => Len(ops) \in DOMAIN ops
      BY DEF TypeOK
    <3>2. ops # <<>> => ops[Len(ops)].target \in Revisions
      BY <3>1 DEF Receipt
    <3> QED BY <1>8, <3>2 DEF Restart, LatestPhase
  <2>3. troubles' \in 0 .. MaxTroubles
    BY <1>8, ReferenceAssumption DEF Restart, TypeOK
  <2>4. TypeOK'
    BY <1>2, <1>8, <2>1, <2>2, <2>3 DEF Restart, TypeOK, tables
  <2>5. Shape'
    BY <1>8 DEF Restart, Shape, Free, tables
  <2> QED BY <2>4, <2>5
<1>9. CASE Recover
  <2>1. docker' \in [Generations -> Containers]
    BY <1>9, DockerType DEF Recover, TypeOK
  <2>2. queued' = queued \/ (queued' \in Claims /\ queued'.id \in DOMAIN ops)
    <3>1. ops # <<>> => Len(ops) \in DOMAIN ops
      BY DEF TypeOK
    <3>2. ops # <<>> => [id |-> Len(ops), receipt |-> ops[Len(ops)]] \in Claims
      BY <3>1 DEF Claims
    <3> QED BY <1>9, <3>1, <3>2 DEF Recover, LatestPhase
  <2>3. TypeOK'
    BY <1>9, <2>1, <2>2 DEF Recover, TypeOK, tables, memory, counts
  <2>4. Preferred # None => Preferred' # None
    <3>1. Exists(0)' = Exists(0)
      BY <1>9, DockerType DEF Recover, Exists
    <3> QED BY <1>9, <3>1 DEF Recover, Preferred, tables, memory
  <2>5. Shape'
    BY <1>9, <2>2, <2>4 DEF Recover, Shape, tables, memory, Own, Task
  <2> QED BY <2>3, <2>5
<1> QED BY <1>3, <1>31, <1>32, <1>33, <1>4, <1>5, <1>6, <1>7, <1>8, <1>9

\* Types and shape are kept by every step.
LEMMA TypesStep == TypeOK /\ Shape /\ [Next]_vars => TypeOK' /\ Shape'
<1> SUFFICES ASSUME TypeOK, Shape, [Next]_vars PROVE TypeOK' /\ Shape'
  OBVIOUS
<1>1. CASE Next
  BY <1>1, RequestsType, OperationType1, OperationType2, OperationType3, EnvironmentType1,
     EnvironmentType2 DEF Next, OperationStep, AssemblyStep
<1>2. CASE UNCHANGED vars
  <2>1. TypeOK'
    BY <1>2 DEF vars, TypeOK, tables, counts
  <2>2. Shape'
    BY <1>2 DEF vars, Shape, Preferred, Own, Task, Exists
  <2> QED BY <2>1, <2>2
<1> QED BY <1>1, <1>2

\* The tables, the gate, the holder of the lock, Docker and the turns keep their
\* types, for any number of configurations, operations and troubles.
THEOREM ReferenceTypes == Spec => []TypeOK
BY TypesInit, TypesStep, PTL DEF Spec

-----------------------------------------------------------------------------
(***************************************************************************)
(* The gate.                                                               *)
(***************************************************************************)
\* Only the latest operation is unfinished.
OnlyLatest == \A o \in DOMAIN ops : Unfinished(o) => o = Len(ops)

\* No operation aims past the configuration.
Targets == /\ \A o \in DOMAIN ops : ops[o].target <= revision
           /\ binding # None => binding.revision <= revision

\* Operations are recorded for an agent with an environment; a container in
\* memory only is one of an operation that has closed the gate.
Rows == /\ ops # <<>> => Physical
        /\ binding = None /\ shown # row => shown # None /\ row # None /\ pending # None

\* A claim is of an unfinished operation that nobody else runs.
Claimed == queued # None => /\ queued.id \in DOMAIN ops /\ Unfinished(queued.id)
                            /\ queued.id # holder.task
                            /\ SameReceipt(queued.receipt, ops[queued.id])

\* The operation that runs is the one of its receipt, and has closed the gate.
Over == {"opening", "yielding"}
HeldGate == holder.task \in DOMAIN ops =>
               /\ SameReceipt(Own, ops[Task])
               /\ pending # None
               /\ Unfinished(Task) <=> holder.pc \notin Over

\* While the lock is held the latest operation has not failed.
NoneFailed == holder.task # None => LatestPhase # "failed"

\* Nothing runs before the operations are recovered.
Idle == server = "starting" => holder = Free /\ queued = None /\ finished = {}
                               /\ lease = None /\ tools = None /\ turn = None

\* A configuration is saved, and the gate of an agent that had an environment is
\* still to be closed.
Window == request # None /\ request.pc = "block" /\ request.physical

\* An operation that has published opens the gate only to what it applied.
Applying == {"activating", "cleaning", "retiring", "succeeding", "opening"}
Applied == holder.pc \in Applying =>
               /\ binding.revision >= Own.target
               /\ binding.revision < revision => Window \/ (pending # None /\ pending >= revision)

\* An environment that a request has not listed is not published before it ends.
Unlisted == request # None /\ request.pc # "look" /\ ~request.physical => binding = None

\* The gate stays closed after a failure.
FailedHeld == LatestPhase = "failed" => pending # None

\* What is invariant of operations, claims and gate.
GateInv == /\ OnlyLatest /\ Targets /\ Rows /\ Claimed /\ HeldGate /\ NoneFailed /\ Idle /\ Applied
           /\ Unlisted /\ FailedHeld

-----------------------------------------------------------------------------
\* What becomes of the recorded operations: an intent leaves them or appends one
\* for revision r, a step saves the one that runs, or an earlier one retires.
Touched == /\ Len(ops') = Len(ops)
           /\ \A o \in DOMAIN ops : SameReceipt(ops'[o], ops[o])

Grown(r) ==
    /\ Len(ops') = Len(ops) + 1 /\ Physical
    /\ \A o \in DOMAIN ops : SameReceipt(ops'[o], ops[o]) /\ ~Unfinished(o)
    /\ LET new == ops'[Len(ops) + 1]
       IN new.target = r /\ new.old = row /\ new.candidate = None /\ new.phase = "waiting_idle"

Saves ==
    /\ Len(ops') = Len(ops)
    /\ \A o \in DOMAIN ops \ {Task} : ops'[o] = ops[o]
    /\ ops'[Task].target = ops[Task].target /\ ops'[Task].old = ops[Task].old
    /\ ops'[Task].candidate \in {ops[Task].candidate, Task}

Retires ==
    /\ Len(ops') = Len(ops)
    /\ \E o \in DOMAIN ops :
          /\ o < Task /\ ~Unfinished(o)
          /\ \A p \in DOMAIN ops \ {o} : ops'[p] = ops[p]
          /\ ops'[o].target = ops[o].target /\ ops'[o].old = ops[o].old
          /\ ops'[o].candidate = ops[o].candidate /\ ops'[o].phase = "superseded"

\* An intent leaves the operations or appends one.
LEMMA Enqueues ==
    ASSUME TypeOK, NEW r \in Revisions, NEW policy \in Policies, NEW scope,
           ops' = Enqueued(r, policy, scope)
    PROVE  Touched \/ Grown(r)
<1>1. /\ Len(ops') = Len(ops) \/ Len(ops') = Len(ops) + 1
      /\ \A o \in 1 .. Len(ops) : SameReceipt(ops'[o], ops[o])
      /\ Len(ops') = Len(ops) + 1 =>
           /\ ~Active /\ Physical
           /\ SameReceipt(ops'[Len(ops) + 1], NewReceipt(r, policy))
  BY EnqueuedIs
<1>2. Len(ops) \in Nat /\ DOMAIN ops = 1 .. Len(ops)
  BY Tables
<1>3. CASE Len(ops') = Len(ops)
  BY <1>1, <1>2, <1>3 DEF Touched
<1>4. CASE Len(ops') = Len(ops) + 1
  BY <1>1, <1>2, <1>4 DEF Grown, Active, SameReceipt, NewReceipt
<1> QED BY <1>1, <1>3, <1>4

\* A sequence of operations has a latest one unless it is empty.
LEMMA Sequence ==
    ASSUME NEW s \in Seq(Receipt)
    PROVE  /\ Len(s) \in Nat /\ DOMAIN s = 1 .. Len(s) /\ (s = <<>> <=> Len(s) = 0)
           /\ s # <<>> => Len(s) \in DOMAIN s
OBVIOUS

\* Blocking never lowers the gate, publishing opens it to what it reached.
LEMMA Gates ==
    ASSUME TypeOK, NEW r \in Revisions
    PROVE  /\ Blocked(r) \in Nat /\ Blocked(r) # None /\ Blocked(r) >= r
           /\ pending # None => Blocked(r) >= pending
           /\ Published(r) \in {None, pending}
           /\ pending # None /\ pending > r => Published(r) = pending
<1>1. None \notin Nat /\ r \in Nat /\ (pending = None \/ pending \in Nat)
  BY ReferenceAssumption DEF Revisions, TypeOK
<1>2. Blocked(r) = (IF pending = None \/ pending < r THEN r ELSE pending)
  BY DEF Blocked
<1>3. Published(r) = (IF pending # None /\ pending <= r THEN None ELSE pending)
  BY DEF Published
<1>4. /\ Blocked(r) \in Nat /\ Blocked(r) >= r
      /\ pending # None => Blocked(r) >= pending
  BY <1>1, <1>2
<1>5. /\ Published(r) \in {None, pending}
      /\ pending # None /\ pending > r => Published(r) = pending
  BY <1>1, <1>3
<1> QED BY <1>1, <1>4, <1>5

\* An intent leaves what the operations are, or appends a waiting one.
LEMMA IntentGate ==
    ASSUME TypeOK, Shape, GateInv, NEW r \in Revisions, Touched \/ Grown(r), TypeOK'
    PROVE  /\ OnlyLatest'
           /\ DOMAIN ops \subseteq DOMAIN ops'
           /\ \A o \in DOMAIN ops : SameReceipt(ops'[o], ops[o])
              /\ (Unfinished(o)' <=> Unfinished(o))
           /\ \A o \in DOMAIN ops' : o \in DOMAIN ops \/ (ops'[o].target = r /\ Physical)
           /\ queued # None => queued.id \in DOMAIN ops' /\ ops'[queued.id].phase \notin Terminal
                               /\ SameReceipt(queued.receipt, ops'[queued.id])
           /\ LatestPhase' # "failed" \/ LatestPhase = "failed"
           /\ ops' # <<>> => Physical
<1>1. /\ Len(ops) \in Nat /\ DOMAIN ops = 1 .. Len(ops)
      /\ Len(ops') \in Nat /\ DOMAIN ops' = 1 .. Len(ops')
      /\ ops = <<>> <=> Len(ops) = 0
      /\ ops' = <<>> <=> Len(ops') = 0
  BY Sequence DEF TypeOK
<1>2. Physical \/ ops = <<>>
  BY DEF GateInv, Rows
<1>3. CASE Touched
  BY <1>1, <1>2, <1>3 DEF Touched, GateInv, OnlyLatest, Claimed, Unfinished, LatestPhase,
     SameReceipt
<1>4. CASE Grown(r)
  BY <1>1, <1>2, <1>4 DEF Grown, GateInv, OnlyLatest, Claimed, Unfinished, LatestPhase,
     SameReceipt, Terminal
<1> QED BY <1>3, <1>4

\* An operation goes on: what its steps do to it and to the gate.
Proceeds ==
    /\ Task \in DOMAIN ops /\ holder'.task = Task /\ holder.pc \notin Over
    /\ holder'.pc \in OperationSteps
    /\ SameReceipt(holder'.receipt, ops'[Task]) /\ holder'.receipt.target = Own.target
    /\ \/ ops' = ops /\ holder'.pc \notin Over
       \/ /\ Saves /\ ops'[Task].phase # "failed"
          /\ ops'[Task].phase \in Terminal <=> holder'.pc \in Over
       \/ Retires /\ holder'.pc \notin Over
    /\ revision' = revision /\ pending' = pending /\ queued' = queued /\ request' = request
    /\ server' = server /\ server # "starting"
    /\ \/ binding' = binding
       \/ binding' # None /\ binding'.revision = Own.target /\ Own.target = revision
    /\ holder'.pc \in Applying => \/ holder.pc \in Applying /\ binding' = binding
                                  \/ binding' # None /\ binding'.revision = revision
                                     /\ Own.target = revision
    /\ binding' = None => row' = row /\ (shown' = shown \/ shown' # None)
    /\ binding' = None <=> binding = None /\ binding' = binding
    /\ binding = None /\ request # None => binding' = None

\* Whatever proceeds so keeps the invariant.
LEMMA ProceedsGate ==
    ASSUME TypeOK, Shape, GateInv, Proceeds, TypeOK'
    PROVE  GateInv'
<1>1. /\ Len(ops) \in Nat /\ DOMAIN ops = 1 .. Len(ops)
      /\ Len(ops') \in Nat /\ DOMAIN ops' = 1 .. Len(ops')
      /\ ops = <<>> <=> Len(ops) = 0
      /\ ops' = <<>> <=> Len(ops') = 0
  BY Sequence DEF TypeOK
<1>2. /\ Task \in DOMAIN ops /\ Unfinished(Task) /\ Task = Len(ops) /\ pending # None
      /\ SameReceipt(Own, ops[Task]) /\ Physical /\ Task # None /\ Task \in Nat
  BY <1>1, Ranges, ReferenceAssumption
     DEF Proceeds, GateInv, HeldGate, OnlyLatest, Rows, Task
<1>3. /\ Len(ops') = Len(ops) /\ Task \in DOMAIN ops'
      /\ \A o \in DOMAIN ops \ {Task} : ops'[o].target = ops[o].target /\ ~Unfinished(o)'
      /\ ops'[Task].target = ops[Task].target
      /\ ops'[Task].phase # "failed"
      /\ ops'[Task].phase \in Terminal <=> holder'.pc \in Over
  <2>1. \A o \in DOMAIN ops \ {Task} : ~Unfinished(o)
    BY <1>1, <1>2 DEF GateInv, OnlyLatest
  <2>2. CASE ops' = ops /\ holder'.pc \notin Over
    BY <1>1, <1>2, <2>1, <2>2 DEF Unfinished, Terminal
  <2>3. CASE Saves /\ ops'[Task].phase # "failed"
             /\ (ops'[Task].phase \in Terminal <=> holder'.pc \in Over)
    BY <1>1, <1>2, <2>1, <2>3 DEF Saves, Unfinished
  <2>4. CASE Retires /\ holder'.pc \notin Over
    <3>1. PICK o \in DOMAIN ops :
              /\ o < Task /\ ~Unfinished(o)
              /\ \A p \in DOMAIN ops \ {o} : ops'[p] = ops[p]
              /\ ops'[o].target = ops[o].target /\ ops'[o].phase = "superseded"
      BY <2>4 DEF Retires
    <3>2. o # Task /\ ops'[Task] = ops[Task] /\ Len(ops') = Len(ops)
      BY <1>1, <1>2, <2>4, <3>1 DEF Retires
    <3> QED BY <1>1, <1>2, <2>1, <2>4, <3>1, <3>2 DEF Unfinished, Terminal
  <2> QED BY <2>2, <2>3, <2>4 DEF Proceeds
<1>4. OnlyLatest' /\ Targets'
  <2>1. revision \in Nat /\ revision' = revision
        /\ \/ binding' = binding
           \/ binding' # None /\ binding'.revision = revision
    BY DEF Proceeds, TypeOK, Revisions
  <2>2. Targets'
    <3>1. Targets
      BY DEF GateInv
    <3>2. DOMAIN ops' = DOMAIN ops
      BY <1>1, <1>3
    <3>3. \A o \in DOMAIN ops' : ops'[o].target <= revision'
      BY <1>2, <1>3, <2>1, <3>1, <3>2 DEF Targets
    <3>4. binding' # None => binding'.revision <= revision'
      BY <2>1, <3>1 DEF Targets
    <3> QED BY <3>3, <3>4 DEF Targets
  <2>3. OnlyLatest'
    BY <1>1, <1>2, <1>3 DEF GateInv, OnlyLatest
  <2> QED BY <2>2, <2>3
<1>5. Rows' /\ Idle' /\ FailedHeld'
  BY <1>1, <1>2, <1>3 DEF GateInv, Rows, Idle, FailedHeld, Proceeds, Physical
<1>6. Claimed'
  <2>1. queued = None
    BY <1>1, <1>2 DEF GateInv, Claimed, OnlyLatest, Task
  <2> QED BY <2>1 DEF Proceeds, Claimed
<1>7. HeldGate' /\ NoneFailed'
  BY <1>1, <1>2, <1>3 DEF HeldGate, NoneFailed, Proceeds, Own, Task, Unfinished, LatestPhase
<1>8. Applied'
  BY <1>1, <1>2 DEF GateInv, Applied, Proceeds, Own, Task, Applying, TypeOK, Bindings, Revisions,
     Window
<1>9. Unlisted'
  BY DEF GateInv, Unlisted, Proceeds
<1> QED BY <1>4, <1>5, <1>6, <1>7, <1>8, <1>9 DEF GateInv

\* A saved receipt of the operation that runs is one of Saves.
LEMMA SaveMoves ==
    ASSUME TypeOK, Shape, HeldGate, NEW receipt \in Receipt, NEW pc \in Steps, SaveAs(receipt, pc),
           holder.task \in DOMAIN ops, receipt.target = Own.target, receipt.old = Own.old,
           receipt.candidate \in {Own.candidate, Task}
    PROVE  /\ Saves /\ ops'[Task] = receipt
           /\ holder'.receipt = receipt /\ holder'.task = Task /\ holder'.pc = pc
BY SaveAsType DEF Saves, HeldGate, SameReceipt, Task

\* So is a saved phase.
LEMMA PhaseMoves ==
    ASSUME TypeOK, Shape, HeldGate, NEW phase \in Phases, NEW pc \in Steps, Save(phase, pc),
           holder.task \in DOMAIN ops, holder.receipt \in Receipt
    PROVE  /\ Saves /\ ops'[Task].phase = phase
           /\ holder'.receipt = ops'[Task] /\ holder'.task = Task /\ holder'.pc = pc
           /\ holder'.receipt.target = Own.target /\ holder'.receipt.old = Own.old
           /\ holder'.receipt.candidate = Own.candidate
<1> DEFINE receipt == [Own EXCEPT !.phase = phase]
<1>1. /\ receipt \in Receipt /\ receipt.target = Own.target /\ receipt.old = Own.old
      /\ receipt.candidate = Own.candidate /\ receipt.phase = phase
  BY DEF Receipt, Own
<1>2. SaveAs(receipt, pc)
  BY DEF Save
<1> HIDE DEF receipt
<1> QED BY <1>1, <1>2, SaveMoves

\* An earlier operation that is over is retired.
LEMMA RetireMoves ==
    ASSUME TypeOK, Shape, NEW o \in DOMAIN ops, Retirable(o),
           ops' = [ops EXCEPT ![o].phase = "superseded"]
    PROVE  Retires
<1> DEFINE receipt == [ops[o] EXCEPT !.phase = "superseded"]
<1>1. /\ receipt.target = ops[o].target /\ receipt.old = ops[o].old
      /\ receipt.candidate = ops[o].candidate /\ receipt.phase = "superseded"
  BY Tables DEF Receipt
<1>2. ops \in Seq(Receipt) /\ ops' = [ops EXCEPT ![o] = receipt] /\ receipt \in Receipt
  BY Tables, StepNames DEF TypeOK, Receipt
<1> HIDE DEF receipt
<1>3. Len(ops') = Len(ops) /\ ops'[o] = receipt /\ \A p \in DOMAIN ops \ {o} : ops'[p] = ops[p]
  BY <1>2
<1>4. o < Task /\ ~Unfinished(o)
  BY DEF Retirable, Unfinished, Terminal
<1> QED BY <1>1, <1>3, <1>4 DEF Retires

\* Which of the steps named are those of an operation that is over.
LEMMA OverNames ==
    /\ \A pc \in OperationSteps \ {"opening", "yielding"} : pc \notin Over
    /\ "opening" \in Over /\ "yielding" \in Over
    /\ Applying \subseteq OperationSteps
    /\ \A pc \in {"read", "same", "same_publish", "waiting", "draining", "quiescing",
                  "snapshotting", "creating", "created", "rebinding", "publishing", "yielding",
                  "superseding", "superseded", "failing", "failed"} : pc \notin Applying
    /\ \A pc \in {"activating", "cleaning", "retiring", "succeeding", "opening"} : pc \in Applying
    /\ {"succeeded", "failed", "superseded"} = Terminal
BY DEF Over, OperationSteps, Fallible, Applying, Terminal

\* Every step of an operation but its ends proceeds so.
LEMMA OperationProceeds ==
    ASSUME TypeOK, Shape, GateInv, TypeOK',
           \/ ReadConfiguration \/ KeepEnvironment \/ PublishSame \/ WaitIdle \/ Drain \/ Quiesce
           \/ Snapshot \/ CreateCandidate \/ SaveCandidate \/ Rebind
           \/ Publish \/ Activate \/ RemoveOld \/ Retire \/ Succeed
           \/ Supersede \/ SaveSuperseded \/ Fail \/ Fault
    PROVE  Proceeds
<1> USE StepNames, OverNames
<1>a. HeldGate
  BY DEF GateInv
<1>b. ASSUME NEW pc \in OperationSteps, Running(pc)
      PROVE  /\ holder.task \in DOMAIN ops /\ Task \in DOMAIN ops /\ Task \in Operations
             /\ Task \in Generations /\ Task = holder.task
             /\ Own \in Receipt /\ holder.receipt \in Receipt /\ Own = holder.receipt
             /\ SameReceipt(Own, ops[Task]) /\ server # "starting" /\ holder.pc = pc
  BY <1>a, <1>b, Holder, Ranges DEF HeldGate, Task, Own
<1>c. \A pc \in OperationSteps : Goto(pc) =>
          /\ holder'.task = Task /\ holder'.pc = pc /\ holder'.receipt = holder.receipt
  BY GotoType DEF Task
<1>d. binding # None => binding \in Bindings
  BY DEF TypeOK
<1>1. CASE ReadConfiguration
  <2>1. /\ holder.task \in DOMAIN ops /\ Task \in DOMAIN ops /\ Task \in Operations
        /\ Task \in Generations /\ Task = holder.task
        /\ Own \in Receipt /\ holder.receipt \in Receipt /\ Own = holder.receipt
        /\ SameReceipt(Own, ops[Task]) /\ server # "starting" /\ holder.pc = "read"
    BY <1>1, <1>b DEF ReadConfiguration
  <2>2. /\ revision' = revision /\ queued' = queued /\ request' = request /\ server' = server
        /\ pending' = pending
        /\ binding' = binding /\ row' = row
        /\ shown' = shown
    BY <1>1 DEF ReadConfiguration, memory, others
  <2>3. \/ Save("superseded", "yielding")
        \/ \E pc \in {"superseding", "draining", "waiting", "failing", "same"} : Goto(pc)
           /\ ops' = ops
    BY <1>1 DEF ReadConfiguration
  <2>4. CASE Save("superseded", "yielding")
    BY <1>a, <2>1, <2>2, <2>4, PhaseMoves DEF Proceeds, SameReceipt
  <2>5. ASSUME NEW pc \in {"superseding", "draining", "waiting", "failing", "same"},
               Goto(pc), ops' = ops
        PROVE  Proceeds
    BY <1>c, <2>1, <2>2, <2>5 DEF Proceeds, SameReceipt
  <2> QED BY <2>3, <2>4, <2>5
<1>2. CASE KeepEnvironment
  <2>1. /\ holder.task \in DOMAIN ops /\ Task \in DOMAIN ops /\ Task \in Operations
        /\ Task \in Generations /\ Task = holder.task
        /\ Own \in Receipt /\ holder.receipt \in Receipt /\ Own = holder.receipt
        /\ SameReceipt(Own, ops[Task]) /\ server # "starting" /\ holder.pc = "same"
    BY <1>2, <1>b DEF KeepEnvironment
  <2>2. /\ revision' = revision /\ queued' = queued /\ request' = request /\ server' = server
        /\ pending' = pending
        /\ binding' = binding /\ row' = row
    BY <1>2 DEF KeepEnvironment, tables, others
  <2>3. /\ ops' = ops /\ holder'.task = Task /\ holder'.pc = "same_publish"
        /\ holder'.receipt = holder.receipt /\ binding # None
    <3>1. holder' = [holder EXCEPT !.pc = "same_publish", !.resident = lease = binding.generation]
      BY <1>2 DEF KeepEnvironment
    <3> QED BY <1>2, <2>1, <3>1 DEF KeepEnvironment, TypeOK, Holders, Task, Shape, tables
  <2>4. shown' = shown \/ shown' # None
    BY <1>2, <1>d, <2>3, Ranges DEF KeepEnvironment, Bindings
  <2> QED BY <2>1, <2>2, <2>3, <2>4 DEF Proceeds, SameReceipt
<1>3. CASE PublishSame
  <2>1. /\ holder.task \in DOMAIN ops /\ Task \in DOMAIN ops /\ Task \in Operations
        /\ Task \in Generations /\ Task = holder.task
        /\ Own \in Receipt /\ holder.receipt \in Receipt /\ Own = holder.receipt
        /\ SameReceipt(Own, ops[Task]) /\ server # "starting" /\ holder.pc = "same_publish"
    BY <1>3, <1>b DEF PublishSame
  <2>2. /\ revision' = revision /\ queued' = queued /\ request' = request /\ server' = server
        /\ pending' = pending
        /\ shown' = shown
    BY <1>3 DEF PublishSame, others
  <2>3. binding # None /\ ops' = ops
    BY <1>3, <2>1 DEF PublishSame, Shape
  <2>4. CASE revision # Own.target
    BY <1>3, <1>c, <2>1, <2>2, <2>3, <2>4 DEF PublishSame, Proceeds, SameReceipt
  <2>5. CASE revision = Own.target
    <3>1. /\ binding' \in Bindings /\ binding'.revision = Own.target /\ Goto("retiring")
      BY <1>3, <1>d, <2>1, <2>3, <2>5 DEF PublishSame, Bindings, Receipt
    <3>2. binding' # None
      BY <3>1, NoneAssumption
    <3> QED BY <1>c, <2>1, <2>2, <2>3, <2>5, <3>1, <3>2 DEF Proceeds, SameReceipt
  <2> QED BY <2>4, <2>5
<1>4. CASE WaitIdle
  <2>1. /\ holder.task \in DOMAIN ops /\ Task \in DOMAIN ops /\ Task \in Operations
        /\ Task \in Generations /\ Task = holder.task
        /\ Own \in Receipt /\ holder.receipt \in Receipt /\ Own = holder.receipt
        /\ SameReceipt(Own, ops[Task]) /\ server # "starting" /\ holder.pc = "waiting"
    BY <1>4, <1>b DEF WaitIdle
  <2>2. /\ revision' = revision /\ queued' = queued /\ request' = request /\ server' = server
        /\ pending' = pending
        /\ binding' = binding /\ row' = row
        /\ shown' = shown
    BY <1>4 DEF WaitIdle, memory, others
  <2> DEFINE receipt == [Own EXCEPT !.policy = ops[Task].policy]
             given == [receipt EXCEPT !.phase = "superseded"]
  <2>3. ops[Task] \in Receipt
    BY <2>1, Tables
  <2>4. /\ receipt \in Receipt /\ receipt.target = Own.target /\ receipt.old = Own.old
        /\ receipt.candidate = Own.candidate /\ receipt.phase = Own.phase
    BY <2>1, <2>3 DEF Receipt
  <2>5. /\ given \in Receipt /\ given.target = Own.target /\ given.old = Own.old
        /\ given.candidate = Own.candidate /\ given.phase = "superseded"
    <3> HIDE DEF receipt
    <3> QED BY <2>4 DEF Receipt
  <2>6. \/ holder' = [holder EXCEPT !.receipt = receipt, !.pc = "draining"] /\ ops' = ops
        \/ SaveAs(given, "yielding")
    BY <1>4 DEF WaitIdle
  <2> HIDE DEF receipt, given
  <2>7. CASE SaveAs(given, "yielding")
    BY <1>a, <2>1, <2>2, <2>5, <2>7, SaveMoves DEF Proceeds, SameReceipt
  <2>8. CASE holder' = [holder EXCEPT !.receipt = receipt, !.pc = "draining"] /\ ops' = ops
    <3>1. holder'.task = Task /\ holder'.pc = "draining" /\ holder'.receipt = receipt
      BY <2>8 DEF TypeOK, Holders, Task
    <3> QED BY <2>1, <2>2, <2>4, <2>8, <3>1 DEF Proceeds, SameReceipt
  <2> QED BY <2>6, <2>7, <2>8
<1>5. CASE Drain
  <2>1. /\ holder.task \in DOMAIN ops /\ Task \in DOMAIN ops /\ Task \in Operations
        /\ Task \in Generations /\ Task = holder.task
        /\ Own \in Receipt /\ holder.receipt \in Receipt /\ Own = holder.receipt
        /\ SameReceipt(Own, ops[Task]) /\ server # "starting" /\ holder.pc = "draining"
    BY <1>5, <1>b DEF Drain
  <2>2. /\ revision' = revision /\ queued' = queued /\ request' = request /\ server' = server
        /\ pending' = pending
        /\ binding' = binding /\ row' = row
        /\ shown' = shown
    BY <1>5 DEF Drain, memory, others
  <2>3. Save("draining", "quiescing")
    BY <1>5 DEF Drain
  <2> QED BY <1>a, <2>1, <2>2, <2>3, PhaseMoves DEF Proceeds, SameReceipt
<1>6. CASE Quiesce
  <2>1. /\ holder.task \in DOMAIN ops /\ Task \in DOMAIN ops /\ Task \in Operations
        /\ Task \in Generations /\ Task = holder.task
        /\ Own \in Receipt /\ holder.receipt \in Receipt /\ Own = holder.receipt
        /\ SameReceipt(Own, ops[Task]) /\ server # "starting" /\ holder.pc = "quiescing"
    BY <1>6, <1>b DEF Quiesce
  <2>2. /\ revision' = revision /\ queued' = queued /\ request' = request /\ server' = server
        /\ pending' = pending
        /\ binding' = binding /\ row' = row
        /\ shown' = shown
    BY <1>6 DEF Quiesce, others
  <2> DEFINE receipt == [Own EXCEPT !.facts = TRUE, !.phase = "snapshotting"]
  <2>3. /\ receipt \in Receipt /\ receipt.target = Own.target /\ receipt.old = Own.old
        /\ receipt.candidate = Own.candidate /\ receipt.phase = "snapshotting"
    BY <2>1 DEF Receipt
  <2>4. \/ Goto("failing") /\ ops' = ops
        \/ SaveAs(receipt, "snapshotting")
    BY <1>6 DEF Quiesce
  <2> HIDE DEF receipt
  <2>5. CASE Goto("failing") /\ ops' = ops
    BY <1>c, <2>1, <2>2, <2>5 DEF Proceeds, SameReceipt
  <2>6. CASE SaveAs(receipt, "snapshotting")
    BY <1>a, <2>1, <2>2, <2>3, <2>6, SaveMoves DEF Proceeds, SameReceipt
  <2> QED BY <2>4, <2>5, <2>6
<1>7. CASE Snapshot
  <2>1. /\ holder.task \in DOMAIN ops /\ Task \in DOMAIN ops /\ Task \in Operations
        /\ Task \in Generations /\ Task = holder.task
        /\ Own \in Receipt /\ holder.receipt \in Receipt /\ Own = holder.receipt
        /\ SameReceipt(Own, ops[Task]) /\ server # "starting" /\ holder.pc = "snapshotting"
    BY <1>7, <1>b DEF Snapshot
  <2>2. /\ revision' = revision /\ queued' = queued /\ request' = request /\ server' = server
        /\ pending' = pending
        /\ binding' = binding /\ row' = row
        /\ shown' = shown
    BY <1>7 DEF Snapshot, tables, memory, others
  <2>3. ops' = ops /\ (Goto("creating") \/ Goto("failing"))
    BY <1>7 DEF Snapshot, tables
  <2> QED BY <1>c, <2>1, <2>2, <2>3 DEF Proceeds, SameReceipt
<1>8. CASE CreateCandidate
  <2>1. /\ holder.task \in DOMAIN ops /\ Task \in DOMAIN ops /\ Task \in Operations
        /\ Task \in Generations /\ Task = holder.task
        /\ Own \in Receipt /\ holder.receipt \in Receipt /\ Own = holder.receipt
        /\ SameReceipt(Own, ops[Task]) /\ server # "starting" /\ holder.pc = "creating"
    BY <1>8, <1>b DEF CreateCandidate
  <2>2. /\ revision' = revision /\ queued' = queued /\ request' = request /\ server' = server
        /\ pending' = pending
        /\ binding' = binding /\ row' = row
        /\ shown' = shown
    BY <1>8 DEF CreateCandidate, memory, others
  <2>3. Save("creating", "created")
    BY <1>8 DEF CreateCandidate
  <2> QED BY <1>a, <2>1, <2>2, <2>3, PhaseMoves DEF Proceeds, SameReceipt
<1>9. CASE SaveCandidate
  <2>1. /\ holder.task \in DOMAIN ops /\ Task \in DOMAIN ops /\ Task \in Operations
        /\ Task \in Generations /\ Task = holder.task
        /\ Own \in Receipt /\ holder.receipt \in Receipt /\ Own = holder.receipt
        /\ SameReceipt(Own, ops[Task]) /\ server # "starting" /\ holder.pc = "created"
    BY <1>9, <1>b DEF SaveCandidate
  <2>2. /\ revision' = revision /\ queued' = queued /\ request' = request /\ server' = server
        /\ pending' = pending
        /\ binding' = binding /\ row' = row
        /\ shown' = shown
    BY <1>9 DEF SaveCandidate, memory, others
  <2> DEFINE receipt == [Own EXCEPT !.candidate = Task, !.phase = "verifying"]
  <2>3. /\ receipt \in Receipt /\ receipt.target = Own.target /\ receipt.old = Own.old
        /\ receipt.candidate = Task /\ receipt.phase = "verifying"
    BY <2>1 DEF Receipt
  <2>4. SaveAs(receipt, "rebinding")
    BY <1>9 DEF SaveCandidate
  <2> HIDE DEF receipt
  <2> QED BY <1>a, <2>1, <2>2, <2>3, <2>4, SaveMoves DEF Proceeds, SameReceipt
<1>10. CASE Rebind
  <2>1. /\ holder.task \in DOMAIN ops /\ Task \in DOMAIN ops /\ Task \in Operations
        /\ Task \in Generations /\ Task = holder.task
        /\ Own \in Receipt /\ holder.receipt \in Receipt /\ Own = holder.receipt
        /\ SameReceipt(Own, ops[Task]) /\ server # "starting" /\ holder.pc = "rebinding"
    BY <1>10, <1>b DEF Rebind
  <2>2. /\ revision' = revision /\ queued' = queued /\ request' = request /\ server' = server
        /\ pending' = pending
        /\ binding' = binding /\ row' = row
    BY <1>10 DEF Rebind, others
  <2>3. Save("publishing", "publishing") /\ shown' # None
    BY <1>10, <2>1, Ranges DEF Rebind
  <2> QED BY <1>a, <2>1, <2>2, <2>3, PhaseMoves DEF Proceeds, SameReceipt
<1>11. CASE Publish
  <2>1. /\ holder.task \in DOMAIN ops /\ Task \in DOMAIN ops /\ Task \in Operations
        /\ Task \in Generations /\ Task = holder.task
        /\ Own \in Receipt /\ holder.receipt \in Receipt /\ Own = holder.receipt
        /\ SameReceipt(Own, ops[Task]) /\ server # "starting" /\ holder.pc = "publishing"
    BY <1>11, <1>b DEF Publish
  <2>2. /\ revision' = revision /\ queued' = queued /\ request' = request /\ server' = server
        /\ pending' = pending
        /\ shown' = shown
    BY <1>11 DEF Publish, memory, others
  <2>3. ops' = ops /\ shown' = shown
    BY <1>11 DEF Publish, memory
  <2>4. CASE revision # Own.target
    BY <1>11, <1>c, <2>1, <2>2, <2>3, <2>4 DEF Publish, Proceeds, SameReceipt
  <2>5. CASE revision = Own.target
    <3>1. /\ binding' \in Bindings /\ binding'.revision = Own.target /\ Goto("activating")
          /\ request = None
      BY <1>11, <2>1, <2>5 DEF Publish, Bindings, Receipt
    <3>2. binding' # None
      BY <3>1, NoneAssumption
    <3> QED BY <1>c, <2>1, <2>2, <2>3, <2>5, <3>1, <3>2 DEF Proceeds, SameReceipt
  <2> QED BY <2>4, <2>5
<1>12. CASE Activate
  <2>1. /\ holder.task \in DOMAIN ops /\ Task \in DOMAIN ops /\ Task \in Operations
        /\ Task \in Generations /\ Task = holder.task
        /\ Own \in Receipt /\ holder.receipt \in Receipt /\ Own = holder.receipt
        /\ SameReceipt(Own, ops[Task]) /\ server # "starting" /\ holder.pc = "activating"
    BY <1>12, <1>b DEF Activate
  <2>2. /\ revision' = revision /\ queued' = queued /\ request' = request /\ server' = server
        /\ pending' = pending
        /\ binding' = binding /\ row' = row
        /\ binding # None
    BY <1>12, <2>1 DEF Activate, Shape, others
  <2>3. Save("cleanup_pending", "cleaning")
    BY <1>12 DEF Activate
  <2> QED BY <1>a, <2>1, <2>2, <2>3, PhaseMoves DEF Proceeds, SameReceipt
<1>13. CASE RemoveOld
  <2>1. /\ holder.task \in DOMAIN ops /\ Task \in DOMAIN ops /\ Task \in Operations
        /\ Task \in Generations /\ Task = holder.task
        /\ Own \in Receipt /\ holder.receipt \in Receipt /\ Own = holder.receipt
        /\ SameReceipt(Own, ops[Task]) /\ server # "starting" /\ holder.pc = "cleaning"
    BY <1>13, <1>b DEF RemoveOld
  <2>2. /\ revision' = revision /\ queued' = queued /\ request' = request /\ server' = server
        /\ pending' = pending
        /\ binding' = binding /\ row' = row
        /\ shown' = shown
    BY <1>13 DEF RemoveOld, tables, memory, others
  <2>3. ops' = ops /\ (Goto("retiring"))
    BY <1>13 DEF RemoveOld, tables
  <2> QED BY <1>c, <2>1, <2>2, <2>3 DEF Proceeds, SameReceipt
<1>14. CASE Retire
  <2>1. /\ holder.task \in DOMAIN ops /\ Task \in DOMAIN ops /\ Task \in Operations
        /\ Task \in Generations /\ Task = holder.task
        /\ Own \in Receipt /\ holder.receipt \in Receipt /\ Own = holder.receipt
        /\ SameReceipt(Own, ops[Task]) /\ server # "starting" /\ holder.pc = "retiring"
    BY <1>14, <1>b DEF Retire
  <2>2. /\ revision' = revision /\ queued' = queued /\ request' = request /\ server' = server
        /\ pending' = pending
        /\ binding' = binding /\ row' = row
        /\ shown' = shown
    BY <1>14 DEF Retire, memory, others
  <2>3. \/ Goto("succeeding") /\ ops' = ops
        \/ \E o \in DOMAIN ops : Retirable(o) /\ ops' = [ops EXCEPT ![o].phase = "superseded"]
                               /\ holder' = holder
    BY <1>14 DEF Retire
  <2>4. CASE Goto("succeeding") /\ ops' = ops
    BY <1>c, <2>1, <2>2, <2>4 DEF Proceeds, SameReceipt
  <2>5. ASSUME NEW o \in DOMAIN ops, Retirable(o), ops' = [ops EXCEPT ![o].phase = "superseded"],
               holder' = holder
        PROVE  Proceeds
    <3>1. Retires
      BY <2>5, RetireMoves
    <3>2. ops'[Task] = ops[Task]
      <4>1. ops \in Seq(Receipt) /\ Task \in Nat
        BY <2>1, Ranges DEF TypeOK
      <4>2. o # Task
        BY <2>5, <4>1, Tables DEF Retirable
      <4> QED BY <2>1, <2>5, <4>1, <4>2
    <3> QED BY <2>1, <2>2, <2>5, <3>1, <3>2 DEF Proceeds, SameReceipt, Task
  <2> QED BY <2>3, <2>4, <2>5
<1>15. CASE Succeed
  <2>1. /\ holder.task \in DOMAIN ops /\ Task \in DOMAIN ops /\ Task \in Operations
        /\ Task \in Generations /\ Task = holder.task
        /\ Own \in Receipt /\ holder.receipt \in Receipt /\ Own = holder.receipt
        /\ SameReceipt(Own, ops[Task]) /\ server # "starting" /\ holder.pc = "succeeding"
    BY <1>15, <1>b DEF Succeed
  <2>2. /\ revision' = revision /\ queued' = queued /\ request' = request /\ server' = server
        /\ pending' = pending
        /\ binding' = binding /\ row' = row
        /\ shown' = shown
    BY <1>15 DEF Succeed, memory, others
  <2>3. Save("succeeded", "opening")
    BY <1>15 DEF Succeed
  <2> QED BY <1>a, <2>1, <2>2, <2>3, PhaseMoves DEF Proceeds, SameReceipt
<1>16. CASE Supersede
  <2>1. /\ holder.task \in DOMAIN ops /\ Task \in DOMAIN ops /\ Task \in Operations
        /\ Task \in Generations /\ Task = holder.task
        /\ Own \in Receipt /\ holder.receipt \in Receipt /\ Own = holder.receipt
        /\ SameReceipt(Own, ops[Task]) /\ server # "starting" /\ holder.pc = "superseding"
    BY <1>16, <1>b DEF Supersede
  <2>2. /\ revision' = revision /\ queued' = queued /\ request' = request /\ server' = server
        /\ pending' = pending
        /\ binding' = binding /\ row' = row
        /\ shown' = shown
    BY <1>16 DEF Supersede, tables, others
  <2>3. ops' = ops /\ (Goto("superseded"))
    BY <1>16 DEF Supersede, tables
  <2> QED BY <1>c, <2>1, <2>2, <2>3 DEF Proceeds, SameReceipt
<1>17. CASE SaveSuperseded
  <2>1. /\ holder.task \in DOMAIN ops /\ Task \in DOMAIN ops /\ Task \in Operations
        /\ Task \in Generations /\ Task = holder.task
        /\ Own \in Receipt /\ holder.receipt \in Receipt /\ Own = holder.receipt
        /\ SameReceipt(Own, ops[Task]) /\ server # "starting" /\ holder.pc = "superseded"
    BY <1>17, <1>b DEF SaveSuperseded
  <2>2. /\ revision' = revision /\ queued' = queued /\ request' = request /\ server' = server
        /\ pending' = pending
        /\ binding' = binding /\ row' = row
        /\ shown' = shown
    BY <1>17 DEF SaveSuperseded, memory, others
  <2>3. Save("superseded", "yielding")
    BY <1>17 DEF SaveSuperseded
  <2> QED BY <1>a, <2>1, <2>2, <2>3, PhaseMoves DEF Proceeds, SameReceipt
<1>18. CASE Fail
  <2>1. /\ holder.task \in DOMAIN ops /\ Task \in DOMAIN ops /\ Task \in Operations
        /\ Task \in Generations /\ Task = holder.task
        /\ Own \in Receipt /\ holder.receipt \in Receipt /\ Own = holder.receipt
        /\ SameReceipt(Own, ops[Task]) /\ server # "starting" /\ holder.pc = "failing"
    BY <1>18, <1>b DEF Fail
  <2>2. /\ revision' = revision /\ queued' = queued /\ request' = request /\ server' = server
        /\ pending' = pending
        /\ binding' = binding /\ row' = row
        /\ shown' = shown
    BY <1>18 DEF Fail, tables, others
  <2>3. ops' = ops /\ (Goto("failed"))
    BY <1>18 DEF Fail, tables
  <2> QED BY <1>c, <2>1, <2>2, <2>3 DEF Proceeds, SameReceipt
<1>19. CASE Fault
  <2>0. PICK pc \in Fallible : Running(pc)
    BY <1>19 DEF Fault
  <2>1. /\ holder.task \in DOMAIN ops /\ Task \in DOMAIN ops /\ Task \in Operations
        /\ Task \in Generations /\ Task = holder.task
        /\ Own \in Receipt /\ holder.receipt \in Receipt /\ Own = holder.receipt
        /\ SameReceipt(Own, ops[Task]) /\ server # "starting" /\ holder.pc \notin Over
    <3>1. pc \notin Over
      BY DEF Over, Fallible
    <3> QED BY <1>b, <2>0, <3>1
  <2>2. /\ revision' = revision /\ queued' = queued /\ request' = request /\ server' = server
        /\ pending' = pending
        /\ binding' = binding /\ row' = row
        /\ shown' = shown
    BY <1>19 DEF Fault, tables, memory
  <2>3. ops' = ops /\ Goto("failing")
    BY <1>19 DEF Fault, tables
  <2> QED BY <1>c, <2>1, <2>2, <2>3 DEF Proceeds, SameReceipt
<1> QED BY <1>1, <1>2, <1>3, <1>4, <1>5, <1>6, <1>7, <1>8, <1>9, <1>10, <1>11, <1>12, <1>13,
          <1>14, <1>15, <1>16, <1>17, <1>18, <1>19

\* The end of an operation.
LEMMA EndsGate ==
    ASSUME TypeOK, Shape, GateInv, TypeOK', Open \/ Yield \/ SaveFailed
    PROVE  GateInv'
<1> USE StepNames, OverNames
<1>1. /\ Len(ops) \in Nat /\ DOMAIN ops = 1 .. Len(ops)
      /\ Len(ops') \in Nat /\ DOMAIN ops' = 1 .. Len(ops')
      /\ ops = <<>> <=> Len(ops) = 0
      /\ ops' = <<>> <=> Len(ops') = 0
  BY Sequence DEF TypeOK
<1>2. \E pc \in {"opening", "yielding", "failed"} : Running(pc)
  BY DEF Open, Yield, SaveFailed
<1>3. /\ holder.task \in DOMAIN ops /\ Task \in DOMAIN ops /\ Task = holder.task
      /\ Own \in Receipt /\ SameReceipt(Own, ops[Task]) /\ server # "starting"
      /\ pending # None /\ Physical
      /\ Unfinished(Task) <=> holder.pc \notin Over
  BY <1>1, <1>2, Holder DEF GateInv, HeldGate, Rows, Task, Own
<1>4. /\ holder' = Free /\ finished' = finished \cup {Task} /\ holder'.task = None
         /\ holder'.pc = "idle"
      /\ revision' = revision /\ binding' = binding /\ row' = row /\ shown' = shown
      /\ queued' = queued /\ server' = server /\ request' = request
  BY DEF Open, Yield, SaveFailed, Done, tables, memory, Free
<1>5. None \notin Nat /\ Task \in Nat /\ 0 \notin DOMAIN ops /\ None \notin DOMAIN ops
      /\ None \notin DOMAIN ops'
  BY <1>1, <1>3, ReferenceAssumption
<1>6. CASE Open
  <2>1. holder.pc = "opening" /\ ops' = ops /\ pending' = Published(Own.target)
    BY <1>6 DEF Open, Running, tables
  <2>2. Own.target \in Revisions
    BY <1>3 DEF Receipt
  <2>3. OnlyLatest' /\ Targets' /\ Rows' /\ Claimed' /\ HeldGate' /\ NoneFailed' /\ Idle'
        /\ Applied'
    <3>1. binding # None
      BY <2>1 DEF Shape
    <3> QED BY <1>3, <1>4, <1>5, <2>1, <3>1
            DEF GateInv, OnlyLatest, Targets, Rows, Claimed, HeldGate, NoneFailed, Idle, Applied,
                Applying, Unfinished, Physical
  <2>4. Unlisted' /\ FailedHeld'
    BY <1>3, <1>4, <1>5, <2>1 DEF GateInv, NoneFailed, Unlisted, FailedHeld, LatestPhase
  <2> QED BY <2>3, <2>4 DEF GateInv
<1>7. CASE Yield
  <2>1. ops' = ops /\ pending' = pending
    BY <1>7 DEF Yield, tables, memory
  <2>4. OnlyLatest' /\ Targets' /\ Rows' /\ Claimed' /\ HeldGate' /\ NoneFailed' /\ Idle'
        /\ Applied'
    BY <1>3, <1>4, <1>5, <2>1
       DEF GateInv, OnlyLatest, Targets, Rows, Claimed, HeldGate, NoneFailed, Idle, Applied,
           Applying, Unfinished, Physical
  <2>5. Unlisted' /\ FailedHeld'
    BY <1>3, <1>4, <2>1 DEF GateInv, Unlisted, FailedHeld
  <2> QED BY <2>4, <2>5 DEF GateInv
<1>8. CASE SaveFailed
  <2>1. pending' = pending /\ holder.pc = "failed"
    BY <1>8 DEF SaveFailed, memory, Running
  <2>2. Unfinished(Task) /\ Task = Len(ops)
    BY <1>3, <2>1 DEF GateInv, OnlyLatest, Over
  <2>3. queued = None
    BY <1>1, <1>3, <2>2 DEF GateInv, Claimed, OnlyLatest
  <2> DEFINE receipt == [Own EXCEPT !.phase = "failed"]
  <2>4. /\ receipt \in Receipt /\ receipt.target = ops[Task].target /\ receipt.phase = "failed"
    BY <1>3 DEF Receipt, SameReceipt
  <2>5. ops' = ops \/ ops' = [ops EXCEPT ![Task] = receipt]
    BY <1>8 DEF SaveFailed
  <2> HIDE DEF receipt
  <2>6. /\ Len(ops') = Len(ops)
        /\ \A o \in DOMAIN ops : ops'[o].target = ops[o].target /\ (Unfinished(o)' => Unfinished(o))
    <3>1. CASE ops' = ops
      BY <3>1 DEF Unfinished
    <3>2. CASE ops' = [ops EXCEPT ![Task] = receipt]
      <4>1. ops \in Seq(Receipt)
        BY DEF TypeOK
      <4>2. Len(ops') = Len(ops)
            /\ \A o \in DOMAIN ops : ops'[o] = IF o = Task THEN receipt ELSE ops[o]
        BY <1>3, <2>4, <3>2, <4>1
      <4> QED BY <2>2, <2>4, <4>2 DEF Unfinished
    <3> QED BY <2>5, <3>1, <3>2
  <2>7. OnlyLatest' /\ Targets'
    BY <1>1, <1>4, <2>6 DEF GateInv, OnlyLatest, Targets
  <2>8. Rows' /\ Claimed' /\ HeldGate' /\ NoneFailed' /\ Idle' /\ Applied' /\ Unlisted'
        /\ FailedHeld'
    BY <1>1, <1>3, <1>4, <1>5, <2>1, <2>3, <2>6
       DEF GateInv, Rows, Claimed, HeldGate, NoneFailed, Idle, Applied, Applying, Unlisted,
           FailedHeld, Physical
  <2> QED BY <2>7, <2>8 DEF GateInv
<1> QED BY <1>6, <1>7, <1>8

\* Requests that record an operation, and what follows one.
LEMMA RequestsGate ==
    ASSUME TypeOK, Shape, GateInv, TypeOK',
           \/ \E fingerprint \in Revisions : Replace(fingerprint)
           \/ \E policy \in Policies : RequestApply(policy)
           \/ Compensate
    PROVE  GateInv'
<1>1. /\ Len(ops) \in Nat /\ DOMAIN ops = 1 .. Len(ops)
      /\ Len(ops') \in Nat /\ DOMAIN ops' = 1 .. Len(ops')
      /\ ops = <<>> <=> Len(ops) = 0
      /\ ops' = <<>> <=> Len(ops') = 0
  BY Sequence DEF TypeOK
<1>2. /\ binding' = binding /\ row' = row /\ shown' = shown /\ holder' = holder
      /\ queued' = queued /\ lease' = lease /\ tools' = tools /\ turn' = turn
      /\ pending' = pending
      /\ finished' \subseteq finished
      /\ server' = server \/ server' = "up"
  BY DEF Replace, RequestApply, Compensate, memory
<1>3. PICK r \in Revisions :
         /\ Touched \/ Grown(r)
         /\ revision' = r /\ r >= revision
         /\ \/ r = revision /\ request' = request
            \/ r = revision /\ request = None /\ request'.pc = "look"
            \/ /\ request # None /\ request.pc = "commit"
               /\ request' # None /\ request'.pc = "block" /\ request'.physical = request.physical
  <2>1. ASSUME NEW fingerprint \in Revisions, Replace(fingerprint)
        PROVE  /\ revision + 1 \in Revisions
               /\ Touched \/ Grown(revision + 1)
               /\ revision' = revision + 1
               /\ request # None /\ request.pc = "commit"
               /\ request' # None /\ request'.pc = "block" /\ request'.physical = request.physical
    <3>1. revision + 1 \in Revisions
      BY <2>1 DEF Replace
    <3>2. ops' = Enqueued(revision + 1, "when_idle", "unapplied")
      BY <2>1 DEF Replace
    <3>3. Touched \/ Grown(revision + 1)
      BY <3>1, <3>2, Enqueues DEF Policies
    <3>4. request \in Requests /\ request # None
      BY <2>1 DEF Replace, TypeOK
    <3>5. request' = [request EXCEPT !.pc = "block"]
      BY <2>1 DEF Replace
    <3>6. request' \in Requests /\ request'.pc = "block" /\ request'.physical = request.physical
      BY <3>4, <3>5 DEF Requests
    <3>7. request' # None
      BY <3>6, NoneAssumption
    <3> QED BY <2>1, <3>1, <3>3, <3>4, <3>6, <3>7 DEF Replace
  <2>2. ASSUME NEW policy \in Policies, RequestApply(policy)
        PROVE  /\ Touched \/ Grown(revision)
               /\ revision' = revision
               /\ request = None /\ request'.pc = "look"
    <3>1. ops' = Enqueued(revision, policy, "all") /\ revision \in Revisions
      BY <2>2 DEF RequestApply, TypeOK
    <3>2. Touched \/ Grown(revision)
      BY <3>1, Enqueues
    <3> QED BY <2>2, <3>2 DEF RequestApply
  <2>3. CASE Compensate
    <3>1. ops' = ops \/ ops' = Enqueued(revision, "when_idle", "unapplied")
      BY <2>3 DEF Compensate
    <3>2. revision \in Revisions
      BY DEF TypeOK
    <3>3. Touched \/ Grown(revision)
      BY <3>1, <3>2, Enqueues DEF Policies, Touched, SameReceipt
    <3> QED BY <2>3, <3>2, <3>3 DEF Compensate, Revisions
  <2>4. revision \in Revisions /\ revision \in Nat
    BY DEF TypeOK, Revisions
  <2> QED BY <2>1, <2>2, <2>3, <2>4
<1>4. /\ OnlyLatest'
      /\ DOMAIN ops \subseteq DOMAIN ops'
      /\ \A o \in DOMAIN ops : SameReceipt(ops'[o], ops[o]) /\ (Unfinished(o)' <=> Unfinished(o))
      /\ \A o \in DOMAIN ops' : o \in DOMAIN ops \/ (ops'[o].target = r /\ Physical)
      /\ queued # None => queued.id \in DOMAIN ops' /\ ops'[queued.id].phase \notin Terminal
                          /\ SameReceipt(queued.receipt, ops'[queued.id])
      /\ LatestPhase' # "failed" \/ LatestPhase = "failed"
      /\ ops' # <<>> => Physical
  BY <1>3, IntentGate
<1>5. /\ r \in Nat /\ revision \in Nat /\ \A o \in DOMAIN ops : ops[o].target \in Nat
      /\ binding # None => binding.revision \in Nat
  <2>1. r \in Nat /\ revision \in Nat /\ (binding # None => binding.revision \in Nat)
    BY <1>3 DEF TypeOK, Revisions, Bindings
  <2>2. \A o \in DOMAIN ops : ops[o].target \in Nat
    BY Tables DEF Receipt, Revisions
  <2> QED BY <2>1, <2>2
<1>6. Targets'
  BY <1>1, <1>2, <1>3, <1>4, <1>5 DEF GateInv, Targets, SameReceipt
<1>8. Rows' /\ Claimed' /\ NoneFailed' /\ Idle' /\ FailedHeld'
  BY <1>2, <1>4 DEF GateInv, Rows, Claimed, NoneFailed, Idle, FailedHeld, Unfinished, Physical
<1>9. HeldGate'
  <2>1. HeldGate
    BY DEF GateInv
  <2>2. holder.task \in DOMAIN ops' => holder.task \in DOMAIN ops
    BY <1>1, <1>4, Ranges, ReferenceAssumption DEF Shape, Free
  <2> QED BY <1>2, <1>4, <2>1, <2>2 DEF HeldGate, Own, Task, SameReceipt
<1>10. Applied'
  <2>1. ASSUME holder.pc \in Applying
        PROVE  /\ binding # None /\ binding.revision >= Own.target
               /\ binding.revision < revision => Window \/ (pending # None /\ pending >= revision)
    BY <2>1 DEF GateInv, Applied, Shape, Applying
  <2>2. binding # None /\ request # None /\ request.pc = "commit" => request.physical
    BY DEF GateInv, Unlisted
  <2> QED BY <1>2, <1>3, <1>5, <2>1, <2>2 DEF Applied, Window, Own
<1>11. Unlisted'
  BY <1>2, <1>3 DEF GateInv, Unlisted
<1> QED BY <1>4, <1>6, <1>8, <1>9, <1>10, <1>11 DEF GateInv

\* How a request starts and ends.
LEMMA HandoverGate ==
    ASSUME TypeOK, Shape, GateInv, TypeOK',
           TakeInventory \/ KeepConfiguration \/ BlockReplaced \/ BlockUnfinished
    PROVE  GateInv'
<1>1. /\ ops' = ops /\ revision' = revision /\ binding' = binding /\ row' = row /\ shown' = shown
      /\ holder' = holder /\ queued' = queued /\ finished' = finished /\ server' = server
      /\ lease' = lease /\ tools' = tools /\ turn' = turn
  BY DEF TakeInventory, KeepConfiguration, BlockReplaced, BlockUnfinished, tables, memory
<1>2. /\ revision \in Nat /\ (pending # None => pending \in Nat)
      /\ Blocked(revision) # None /\ Blocked(revision) \in Nat /\ Blocked(revision) >= revision
      /\ pending # None => Blocked(revision) >= pending
  <2>1. revision \in Revisions /\ revision \in Nat /\ (pending # None => pending \in Nat)
    BY DEF TypeOK, Revisions
  <2> QED BY <2>1, Gates
<1>3. pending' = pending \/ pending' = Blocked(revision)
  BY DEF TakeInventory, KeepConfiguration, BlockReplaced, BlockUnfinished, memory
<1>4. Window => pending' = Blocked(revision)
  BY DEF Window, TakeInventory, KeepConfiguration, BlockReplaced, BlockUnfinished
<1>5. Applied'
  <2>1. ASSUME holder.pc \in Applying
        PROVE  binding # None /\ binding.revision \in Nat
    BY <2>1 DEF Shape, Applying, TypeOK, Bindings, Revisions
  <2>2. ~Window'
    <3>1. CASE TakeInventory
      BY <3>1 DEF TakeInventory, Window
    <3>2. CASE KeepConfiguration \/ BlockReplaced \/ BlockUnfinished
      BY <3>2 DEF KeepConfiguration, BlockReplaced, BlockUnfinished, Window
    <3> QED BY <3>1, <3>2
  <2>3. Applied
    BY DEF GateInv
  <2>4. ASSUME holder'.pc \in Applying
        PROVE  /\ binding'.revision >= Own'.target
               /\ binding'.revision < revision' => pending' # None /\ pending' >= revision'
    <3>1. /\ binding.revision >= Own.target
          /\ binding.revision < revision => Window \/ (pending # None /\ pending >= revision)
      BY <1>1, <2>3, <2>4 DEF Applied
    <3>2. binding.revision < revision => pending' # None /\ pending' >= revision
      BY <1>1, <1>2, <1>3, <1>4, <2>1, <2>4, <3>1
    <3> QED BY <1>1, <3>1, <3>2 DEF Own
  <2> QED BY <2>2, <2>4 DEF Applied
<1>6. Unlisted'
  <2>1. CASE TakeInventory
    BY <2>1 DEF TakeInventory, Unlisted, Physical, tables
  <2>2. CASE KeepConfiguration \/ BlockReplaced \/ BlockUnfinished
    BY <2>2 DEF KeepConfiguration, BlockReplaced, BlockUnfinished, Unlisted
  <2> QED BY <2>1, <2>2
<1>7. OnlyLatest' /\ Targets' /\ Rows' /\ Claimed' /\ HeldGate' /\ NoneFailed' /\ Idle' /\ FailedHeld'
  BY <1>1, <1>2, <1>3 DEF GateInv, OnlyLatest, Targets, Rows, Claimed, HeldGate, NoneFailed, Idle,
     FailedHeld, Unfinished, Physical, LatestPhase, Own, Task
<1> QED BY <1>5, <1>6, <1>7 DEF GateInv

\* An operation is claimed, and its worker gets the lock.
LEMMA ClaimsGate ==
    ASSUME TypeOK, Shape, GateInv, TypeOK', Launch \/ Begin
    PROVE  GateInv'
<1> USE Tables, Ranges
<1>1. CASE Launch
  <2>1. PICK o \in DOMAIN ops : /\ Unfinished(o) /\ o # holder.task
                                /\ queued' = [id |-> o, receipt |-> ops[o]]
    BY <1>1 DEF Launch
  <2>2. /\ ops' = ops /\ revision' = revision /\ binding' = binding /\ row' = row /\ shown' = shown
        /\ pending' = pending /\ holder' = holder /\ finished' = finished /\ server' = server
        /\ server = "up" /\ request' = request
    BY <1>1 DEF Launch, tables
  <2>3. Claimed'
    BY <2>1, <2>2 DEF Claimed, Unfinished, SameReceipt
  <2>4. OnlyLatest' /\ Targets' /\ Rows' /\ HeldGate' /\ NoneFailed' /\ Idle' /\ Applied'
        /\ Unlisted'
        /\ FailedHeld'
    BY <2>2 DEF GateInv, OnlyLatest, Targets, Rows, HeldGate, NoneFailed, Idle, Applied, Unlisted,
           FailedHeld, Unfinished, Physical, Window, LatestPhase, Own, Task
  <2> QED BY <2>3, <2>4 DEF GateInv
<1>2. CASE Begin
  <2>1. /\ queued \in Claims /\ queued.receipt \in Receipt /\ queued.receipt.target \in Revisions
        /\ queued # None /\ holder = Free /\ server # "starting"
    BY <1>2 DEF Begin, TypeOK, Claims, Receipt, GateInv, Idle
  <2>2. /\ holder'.task = queued.id /\ holder'.pc = "read" /\ holder'.receipt = queued.receipt
        /\ queued' = None /\ pending' = Blocked(queued.receipt.target)
        /\ ops' = ops /\ revision' = revision /\ binding' = binding /\ row' = row /\ shown' = shown
        /\ finished' = finished /\ server' = server /\ request' = request
    BY <1>2 DEF Begin, Free, tables
  <2>3. /\ queued.id \in DOMAIN ops /\ Unfinished(queued.id) /\ queued.id = Len(ops)
        /\ SameReceipt(queued.receipt, ops[queued.id])
    BY <2>1 DEF GateInv, Claimed, OnlyLatest
  <2>4. pending' # None
    BY <2>1, <2>2, Gates
  <2>5. HeldGate' /\ NoneFailed' /\ Applied'
    BY <2>2, <2>3, <2>4 DEF HeldGate, NoneFailed, Applied, Own, Task, Over, Applying, Unfinished,
           LatestPhase, Terminal
  <2>6. OnlyLatest' /\ Targets' /\ Rows' /\ Claimed' /\ Idle' /\ Unlisted' /\ FailedHeld'
    BY <2>1, <2>2, <2>4 DEF GateInv, OnlyLatest, Targets, Rows, Claimed, Idle, Unlisted, FailedHeld,
           Unfinished, Physical
  <2> QED BY <2>5, <2>6 DEF GateInv
<1> QED BY <1>1, <1>2

\* The assembly of an environment, and its refusal.
LEMMA AssemblyGate ==
    ASSUME TypeOK, Shape, GateInv, TypeOK',
           AssemblyStep \/ AssemblyFault \/ Refuse
    PROVE  GateInv'
<1>1. /\ Len(ops) \in Nat /\ DOMAIN ops = 1 .. Len(ops)
      /\ Len(ops') \in Nat /\ DOMAIN ops' = 1 .. Len(ops')
      /\ ops = <<>> <=> Len(ops) = 0
      /\ ops' = <<>> <=> Len(ops') = 0
  BY Sequence DEF TypeOK
<1>2. 0 \notin DOMAIN ops /\ 0 \notin DOMAIN ops' /\ None \notin DOMAIN ops
      /\ None \notin DOMAIN ops'
      /\ 0 # None /\ Free.task = None /\ Free.pc = "idle"
  BY <1>1, ReferenceAssumption DEF Free
<1>3. \A pc \in AssemblySteps \cup {"idle"} : pc \notin Applying /\ pc # "starting"
  BY DEF Applying, AssemblySteps
<1>4. revision \in Revisions /\ revision \in Nat /\ holder.read \in Revisions
  BY DEF TypeOK, Revisions, Holders
<1>5. RowWith(shown) = (IF binding # None THEN binding.generation ELSE shown)
  BY DEF RowWith
<1>6. ops # <<>> /\ binding = None => shown # None /\ row # None
  BY DEF GateInv, Rows, Physical
<1>65. /\ revision' = revision /\ queued' = queued /\ finished' = finished /\ server' = server
       /\ request' = request
  BY DEF AssemblyStep, Assemble, Discover, FindContainer, BlockFound, CreateContainer,
         SaveContainer, Adopt, AdoptFails, RecordIntent, AssemblyFault, Refuse, tables, memory,
         others
<1>66. Unlisted'
  <2>1. binding' = binding \/ request = None
    BY DEF AssemblyStep, Assemble, Discover, FindContainer, BlockFound, CreateContainer,
           SaveContainer, Adopt, AdoptFails, RecordIntent, AssemblyFault, Refuse, tables, memory
  <2> QED BY <1>65, <2>1 DEF GateInv, Unlisted
<1>7. CASE Assemble
  <2>1. /\ holder'.task = 0 /\ holder'.pc = "assembling" /\ holder = Free /\ pending = None
        /\ server = "up"
        /\ ops' = ops /\ binding' = binding /\ row' = row /\ shown' = shown
        /\ pending' = pending
    BY <1>7 DEF Assemble, Free, tables, memory
  <2>2. LatestPhase # "failed" /\ "assembling" \notin Applying
    BY <1>3, <2>1 DEF GateInv, FailedHeld, AssemblySteps
  <2> QED BY <1>1, <1>2, <1>65, <1>66, <2>1, <2>2
          DEF GateInv, OnlyLatest, Targets, Rows, Claimed, HeldGate, NoneFailed, Idle, Applied,
              FailedHeld, Unfinished, Physical, LatestPhase
<1>8. ASSUME NEW pc \in AssemblySteps, Running(pc)
      PROVE  holder.task = 0 /\ holder.pc = pc /\ server # "starting" /\ LatestPhase # "failed"
  BY <1>2, <1>8, AssemblyHolder DEF GateInv, NoneFailed
<1>9. CASE Discover \/ CreateContainer \/ SaveContainer
  <2>1. /\ holder.task = 0 /\ server # "starting" /\ LatestPhase # "failed"
        /\ ops' = ops /\ binding' = binding /\ pending' = pending
    BY <1>8, <1>9 DEF Discover, CreateContainer, SaveContainer, tables, memory, AssemblySteps
  <2>2. holder'.task = 0 /\ holder'.pc \in AssemblySteps
    BY <1>8, <1>9, <2>1, GotoType
       DEF Discover, CreateContainer, SaveContainer, others, Steps, AssemblySteps
  <2>3. \/ row' = row /\ shown' = shown
        \/ row' = 0 /\ shown' = 0
    BY <1>9 DEF Discover, CreateContainer, SaveContainer, tables, memory
  <2> QED BY <1>1, <1>2, <1>3, <1>6, <1>65, <1>66, <2>1, <2>2, <2>3
          DEF GateInv, OnlyLatest, Targets, Rows, Claimed, HeldGate, NoneFailed, Idle, Applied,
              FailedHeld, Unfinished, Physical, LatestPhase
<1>10. CASE Refuse
  <2>1. /\ holder = Free /\ server = "up" /\ row' = RowWith(shown)
        /\ ops' = ops /\ binding' = binding /\ shown' = shown
        /\ pending' = pending /\ holder' = holder
    BY <1>10 DEF Refuse, memory, others
  <2> QED BY <1>1, <1>2, <1>3, <1>5, <1>6, <1>65, <1>66, <2>1
          DEF GateInv, OnlyLatest, Targets, Rows, Claimed, HeldGate, NoneFailed, Idle, Applied,
              FailedHeld, Unfinished, Physical, LatestPhase
<1>11. CASE FindContainer
  <2>1. /\ holder.task = 0 /\ server # "starting" /\ LatestPhase # "failed"
        /\ binding' = binding /\ shown' = shown /\ pending' = pending
    BY <1>8, <1>11 DEF FindContainer, memory, AssemblySteps
  <2>2. CASE ops' = ops /\ row' = row /\ Goto("adopting")
    <3>1. holder'.task = 0 /\ holder'.pc = "adopting" /\ "adopting" \notin Applying
      BY <1>3, <2>1, <2>2, GotoType DEF Steps, AssemblySteps
    <3> QED BY <1>1, <1>2, <1>6, <1>65, <1>66, <2>1, <2>2, <3>1
            DEF GateInv, OnlyLatest, Targets, Rows, Claimed, HeldGate, NoneFailed, Idle, Applied,
                FailedHeld, Unfinished, Physical, LatestPhase
  <2>3. CASE ops' = ops /\ row' = RowWith(shown) /\ holder' = Free
    BY <1>1, <1>2, <1>3, <1>5, <1>6, <1>65, <1>66, <2>1, <2>3
       DEF GateInv, OnlyLatest, Targets, Rows, Claimed, HeldGate, NoneFailed, Idle, Applied,
           FailedHeld, Unfinished, Physical, LatestPhase
  <2>4. CASE /\ ops' = Enqueued(revision, "when_idle", "all") /\ row' = row
             /\ Goto("blocking")
    <3>1. Touched \/ Grown(revision)
      BY <1>4, <2>4, Enqueues DEF Policies
    <3>2. holder'.task = 0 /\ holder'.pc = "blocking" /\ "blocking" \notin Applying
      BY <1>3, <2>1, <2>4, GotoType DEF Steps, AssemblySteps
    <3> QED BY <1>1, <1>2, <1>4, <1>65, <1>66, <2>1, <2>4, <3>1, <3>2, IntentGate
            DEF GateInv, Targets, Rows, Claimed, HeldGate, NoneFailed, Idle, Applied,
                FailedHeld, Unfinished, Physical, SameReceipt
  <2> QED BY <1>11, <2>2, <2>3, <2>4 DEF FindContainer
<1>12. CASE BlockFound
  <2>1. /\ holder' = Free /\ pending' = Blocked(holder.read) /\ row' = RowWith(shown)
        /\ ops' = ops /\ binding' = binding /\ shown' = shown /\ server # "starting"
    BY <1>8, <1>12 DEF BlockFound, AssemblySteps
  <2>2. pending' # None
    BY <1>4, <2>1, Gates
  <2> QED BY <1>1, <1>2, <1>3, <1>5, <1>6, <1>65, <1>66, <2>1, <2>2
          DEF GateInv, OnlyLatest, Targets, Rows, Claimed, HeldGate, NoneFailed, Idle, Applied,
              FailedHeld, Unfinished, Physical, LatestPhase
<1>13. ASSUME Running("adopting") PROVE Preferred \in Generations
  BY <1>8, <1>13, Ranges DEF Shape, Preferred, TypeOK, Bindings, AssemblySteps
<1>14. [generation |-> Preferred, revision |-> revision].revision = revision
  OBVIOUS
<1>15. ASSUME binding' = [generation |-> Preferred, revision |-> revision], Running("adopting")
       PROVE  binding' # None /\ binding'.revision = revision
  <2>1. binding' \in Bindings
    BY <1>4, <1>13, <1>15 DEF Bindings
  <2> QED BY <1>14, <1>15, <2>1, NoneAssumption
<1>16. CASE Adopt
  <2>1. /\ holder.task = 0 /\ server # "starting" /\ LatestPhase # "failed" /\ holder' = Free
        /\ ops' = ops /\ Running("adopting")
        /\ binding' = [generation |-> Preferred, revision |-> revision]
    BY <1>8, <1>16 DEF Adopt, AssemblySteps
  <2>2. binding' # None /\ binding'.revision = revision
    BY <1>15, <2>1
  <2> QED BY <1>1, <1>2, <1>3, <1>4, <1>65, <1>66, <2>1, <2>2
          DEF GateInv, OnlyLatest, Targets, Rows, Claimed, HeldGate, NoneFailed, Idle, Applied,
              FailedHeld, Unfinished, Physical, LatestPhase
<1>17. CASE AdoptFails
  <2>1. /\ holder.task = 0 /\ server # "starting" /\ LatestPhase # "failed"
        /\ ops' = ops /\ Running("adopting") /\ pending' = Blocked(holder.read)
        /\ shown' = shown /\ Goto("recording")
        /\ \/ binding' = binding /\ row' = row
           \/ binding' = [generation |-> Preferred, revision |-> revision]
    BY <1>8, <1>17 DEF AdoptFails, AssemblySteps
  <2>2. \/ binding' = binding /\ row' = row
        \/ binding' # None /\ binding'.revision = revision
    BY <1>15, <2>1
  <2>3. holder'.task = 0 /\ holder'.pc = "recording" /\ "recording" \notin Applying
    BY <1>3, <2>1, GotoType DEF Steps, AssemblySteps
  <2>4. pending' # None
    BY <1>4, <2>1, Gates
  <2> QED BY <1>1, <1>2, <1>4, <1>65, <1>66, <2>1, <2>2, <2>3, <2>4
          DEF GateInv, OnlyLatest, Targets, Rows, Claimed, HeldGate, NoneFailed, Idle, Applied,
              FailedHeld, Unfinished, Physical, LatestPhase
<1>18. CASE RecordIntent
  <2>1. /\ holder' = Free /\ ops' = Enqueued(revision, "when_idle", "all") /\ row' = RowWith(shown)
        /\ binding' = binding /\ shown' = shown /\ pending' = pending /\ server # "starting"
    BY <1>8, <1>18 DEF RecordIntent, memory, AssemblySteps
  <2>2. Touched \/ Grown(revision)
    BY <1>4, <2>1, Enqueues DEF Policies
  <2>3. row' # None \/ binding' # None \/ ops' = <<>>
    BY <1>1, <1>4, <1>5, <1>6, <2>1, <2>2, IntentGate DEF GateInv, Rows, Physical, Grown, Touched
  <2> QED BY <1>1, <1>2, <1>3, <1>4, <1>5, <1>65, <1>66, <2>1, <2>2, <2>3, IntentGate
          DEF GateInv, Targets, Rows, Claimed, HeldGate, NoneFailed, Idle, Applied,
              FailedHeld, Unfinished, Physical, SameReceipt
<1>19. CASE AssemblyFault
  <2>1. /\ holder' = Free /\ ops' = ops /\ binding' = binding /\ pending' = pending
        /\ server # "starting" /\ LatestPhase # "failed"
        /\ \/ row' = RowWith(shown) /\ shown' = shown
           \/ row' = 0 /\ shown' = 0
    BY <1>8, <1>19 DEF AssemblyFault, AssemblySteps
  <2> QED BY <1>1, <1>2, <1>3, <1>5, <1>6, <1>65, <1>66, <2>1
          DEF GateInv, OnlyLatest, Targets, Rows, Claimed, HeldGate, NoneFailed, Idle, Applied,
              FailedHeld, Unfinished, Physical, LatestPhase
<1> QED BY <1>7, <1>9, <1>10, <1>11, <1>12, <1>16, <1>17, <1>18, <1>19 DEF AssemblyStep

\* The end of the server and its recovery, and what turns do.
LEMMA ServerGate ==
    ASSUME TypeOK, Shape, GateInv, TypeOK',
           \/ Restart \/ Recover
           \/ CancelReferenceTurn \/ LoadThread \/ TurnBegins \/ Work \/ TurnEnds
    PROVE  GateInv'
<1>1. /\ Len(ops) \in Nat /\ DOMAIN ops = 1 .. Len(ops)
      /\ ops = <<>> <=> Len(ops) = 0
  BY Sequence DEF TypeOK
<1>2. /\ None \notin DOMAIN ops /\ Free.task = None /\ Free.pc = "idle" /\ "idle" \notin Applying
      /\ None \notin Nat
  BY <1>1, ReferenceAssumption DEF Free, Applying
<1>3. /\ ops' = ops /\ revision' = revision /\ binding' = binding /\ row' = row
  BY DEF Restart, Recover, CancelReferenceTurn, LoadThread, TurnBegins, Work, TurnEnds, tables
<1>4. CASE Restart
  <2>1. /\ holder' = Free /\ queued' = None /\ finished' = {} /\ lease' = None /\ tools' = None
        /\ turn' = None /\ shown' = row /\ request' = None
        /\ pending' = IF LatestPhase \in {"none", "succeeded", "superseded"} THEN None
                      ELSE ops[Len(ops)].target
    BY <1>4 DEF Restart
  <2>2. ops # <<>> => Len(ops) \in DOMAIN ops /\ ops[Len(ops)].target # None
                  /\ ops[Len(ops)].phase # "none"
    BY <1>1, Tables, ReferenceAssumption DEF Receipt, Revisions, Phases, Terminal
  <2>3. FailedHeld'
    BY <1>3, <2>1, <2>2 DEF FailedHeld, LatestPhase
  <2> QED BY <1>1, <1>2, <1>3, <2>1, <2>3
          DEF GateInv, OnlyLatest, Targets, Rows, Claimed, HeldGate, NoneFailed, Idle, Applied,
              Unlisted, Unfinished, Physical, Window
<1>5. CASE Recover
  <2>1. /\ shown' = shown /\ pending' = pending /\ holder' = holder /\ finished' = finished
        /\ request' = request
        /\ server' # "starting" /\ holder = Free
        /\ \/ queued' = queued
           \/ /\ LatestPhase \notin {"none"} \cup Terminal
              /\ queued' = [id |-> Len(ops), receipt |-> ops[Len(ops)]]
    BY <1>5 DEF Recover, memory, GateInv, Idle
  <2>2. Claimed'
    BY <1>1, <1>2, <1>3, <2>1 DEF GateInv, Claimed, LatestPhase, Unfinished, SameReceipt
  <2> QED BY <1>1, <1>2, <1>3, <2>1, <2>2
          DEF GateInv, OnlyLatest, Targets, Rows, HeldGate, NoneFailed, Idle, Applied,
              Unlisted, FailedHeld, Unfinished, Physical, Window, LatestPhase
<1>6. CASE CancelReferenceTurn \/ LoadThread \/ TurnBegins \/ Work \/ TurnEnds
  <2>1. /\ shown' = shown /\ pending' = pending /\ holder' = holder /\ finished' = finished
        /\ request' = request
        /\ queued' = queued /\ server' = server
        /\ server = "up" \/ (lease' = lease /\ tools' = tools /\ turn' \in {None, turn})
    BY <1>6 DEF CancelReferenceTurn, LoadThread, TurnBegins, Work, TurnEnds, memory, others
  <2> QED BY <1>3, <2>1
          DEF GateInv, OnlyLatest, Targets, Rows, Claimed, HeldGate, NoneFailed, Idle, Applied,
              Unlisted, FailedHeld, Unfinished, Physical, Window, LatestPhase, Own, Task
<1> QED BY <1>4, <1>5, <1>6

\* It holds initially: no operation is recorded.
LEMMA GateInit == Init => GateInv
<1> SUFFICES ASSUME Init PROVE GateInv
  OBVIOUS
<1>1. ops = <<>> /\ DOMAIN ops = {} /\ Free.pc = "idle" /\ Free.task = None
  BY DEF Init, Free
<1> QED BY <1>1 DEF Init, GateInv, OnlyLatest, Targets, Rows, Claimed, HeldGate, NoneFailed, Idle,
        Applied, Unlisted, FailedHeld, LatestPhase, Applying

\* It is kept by every step.
LEMMA GateStep == TypeOK /\ Shape /\ GateInv /\ [Next]_vars => GateInv'
<1> SUFFICES ASSUME TypeOK, Shape, GateInv, [Next]_vars PROVE GateInv'
  OBVIOUS
<1>1. TypeOK'
  BY TypesStep
<1>2. CASE Next
  BY <1>1, <1>2, OperationProceeds, ProceedsGate, EndsGate, RequestsGate, ClaimsGate, AssemblyGate,
     HandoverGate, ServerGate DEF Next, RequestStep, OperationStep, AssemblyStep
<1>3. CASE UNCHANGED vars
  BY <1>3 DEF vars, tables, counts, GateInv, OnlyLatest, Targets, Rows, Claimed, HeldGate,
     NoneFailed,
     Idle, Applied, Unlisted, FailedHeld, Unfinished, Physical, Window, LatestPhase, Own, Task
<1> QED BY <1>2, <1>3

-----------------------------------------------------------------------------
(***************************************************************************)
(* The environment.                                                        *)
(***************************************************************************)
\* Before the first binding no turn has changed anything anywhere.
FirstWork == binding = None => work = 0 /\ \A g \in Generations : docker[g].layer = 0

\* An operation knows of no candidate but its own, and replaces the container
\* of the binding.
Candidates ==
    \A o \in DOMAIN ops :
        /\ ops[o].candidate \in {None, o}
        /\ Unfinished(o) => IF binding = None THEN row = 0 => ops[o].old = 0
                            ELSE binding.generation \in {o, ops[o].old}

\* The row is a projection of the binding, once there is one.
Projected == IF binding = None THEN shown = 0 => row = 0 ELSE row = binding.generation

\* A candidate has the snapshot of its operation.
Snapshots == \A o \in Operations : /\ Exists(o) => image[o] # None
                                   /\ image[o] # None => o \in DOMAIN ops

\* From the snapshot on nothing changes in the old container.
Frozen ==
    \A o \in DOMAIN ops :
        Unfinished(o) /\ image[o] # None =>
            /\ pending # None /\ turn = None /\ holder.task \in {None, o}
            /\ image[o] = work /\ (Exists(o) => docker[o].layer = work)

\* What the steps of an operation, and of an assembly, rely on.
AtSteps ==
    /\ holder.pc = "snapshotting" => turn = None
    /\ holder.pc \in {"creating", "created", "rebinding", "publishing"} => image[Task] # None
    /\ holder.pc \in {"created", "rebinding", "publishing"} => Exists(Task)
    /\ holder.pc = "publishing" => lease = Task
    /\ holder.pc \in {"activating", "cleaning"} => binding # None /\ binding.generation = Task
    /\ holder.pc = "saving" => Exists(0) /\ binding = None /\ shown = None
    /\ holder.pc = "adopting" => binding # None \/ (Exists(0) /\ shown = 0 /\ row = 0)

\* The lease is of the container of the binding, or of the candidate that is
\* about to be published or given up.
Leased == lease # None =>
             \/ binding # None /\ lease = binding.generation
             \/ /\ holder.pc \in {"publishing", "superseding", "failing"}
                /\ lease = Task /\ image[Task] # None

\* What is invariant of containers, snapshots and leases.
EnvInv == /\ FirstWork /\ Candidates /\ Projected /\ Snapshots /\ Frozen /\ AtSteps /\ Leased
          /\ EnvironmentKept

-----------------------------------------------------------------------------
\* The operations go on: none begins again, and a new one replaces the container
\* of the row.
Follows ==
    /\ DOMAIN ops \subseteq DOMAIN ops'
    /\ \A o \in DOMAIN ops : /\ ops'[o].target = ops[o].target /\ ops'[o].old = ops[o].old
                             /\ ops'[o].candidate \in {ops[o].candidate, o}
                             /\ Unfinished(o)' => Unfinished(o)
    /\ \A o \in DOMAIN ops' \ DOMAIN ops : ops'[o].old = row /\ ops'[o].candidate = None

\* No container is made or written, and the one in use is not removed.
Spares ==
    /\ work' = work
    /\ \A g \in Generations : /\ docker'[g].layer = docker[g].layer
                              /\ docker'[g].state # "absent" => docker[g].state # "absent"
    /\ \A o \in Operations : \/ image'[o] = image[o]
                             \/ image'[o] = None /\ docker[o].state = "absent"
    /\ IF binding = None
       THEN binding' = None /\ (docker[0].state # "absent" => docker'[0].state # "absent")
       ELSE /\ binding' # None /\ binding'.generation = binding.generation
            /\ docker'[binding.generation].state # "absent"

\* The summary is saved, or a candidate gets into it.
RowMoves == IF binding' # None THEN row' = binding'.generation
            ELSE row' \in {row, shown} /\ shown' \in {shown, row'} \cup Operations

\* The recorded operations after a step.
LEMMA LaterTables ==
    ASSUME TypeOK'
    PROVE  /\ Len(ops') \in Nat /\ DOMAIN ops' = 1 .. Len(ops') /\ DOMAIN ops' \subseteq Operations
           /\ \A o \in DOMAIN ops' : ops'[o] \in Receipt
BY Sequence, ReferenceAssumption DEF TypeOK, Operations

\* The tables of a step that publishes no other container.
SameBinding == IF binding = None THEN binding' = None
               ELSE binding' # None /\ binding'.generation = binding.generation

\* Rows and receipts of a step that publishes no other container.
LEMMA TablesEnv ==
    ASSUME TypeOK, TypeOK', EnvInv, Follows, SameBinding, RowMoves
    PROVE  Candidates' /\ Projected'
<1> USE Ranges
<1>2. binding # None => binding.generation \in Generations /\ row = binding.generation
  BY DEF EnvInv, Projected, TypeOK, Bindings
<1>4. Projected'
  BY DEF EnvInv, Projected, RowMoves, SameBinding
<1>5. binding = None /\ row' = 0 => row = 0
  BY DEF EnvInv, Projected, RowMoves, SameBinding
<1>6. Candidates'
  <2>1. ASSUME NEW o \in DOMAIN ops'
        PROVE  /\ ops'[o].candidate \in {None, o}
               /\ Unfinished(o)' => IF binding' = None THEN row' = 0 => ops'[o].old = 0
                                    ELSE binding'.generation \in {o, ops'[o].old}
    <3>1. CASE o \in DOMAIN ops
      BY <1>5, <3>1 DEF EnvInv, Candidates, Follows, SameBinding
    <3>2. CASE o \notin DOMAIN ops
      BY <1>2, <1>5, <2>1, <3>2 DEF Follows, SameBinding
    <3> QED BY <3>1, <3>2
  <2> QED BY <2>1 DEF Candidates
<1> QED BY <1>4, <1>6

\* What the parts that hold between the steps need.
LEMMA SparedEnv ==
    ASSUME TypeOK, TypeOK', EnvInv, Rows, Follows, Spares, RowMoves
    PROVE  FirstWork' /\ Candidates' /\ Projected' /\ Snapshots' /\ EnvironmentKept'
<1> USE Ranges
<1>1. DOMAIN ops \subseteq Operations /\ DOMAIN ops' \subseteq Operations
  BY Tables, LaterTables
<1>2. binding # None => binding.generation \in Generations /\ row = binding.generation
  BY DEF EnvInv, Projected, TypeOK, Bindings
<1>3. FirstWork'
  BY DEF EnvInv, FirstWork, Spares
<1>4. Candidates' /\ Projected'
  BY TablesEnv DEF Spares, SameBinding
<1>7. Snapshots'
  <2>1. ASSUME NEW o \in Operations
        PROVE  /\ docker'[o].state # "absent" => image'[o] # None
               /\ image'[o] # None => o \in DOMAIN ops'
    BY <2>1 DEF EnvInv, Snapshots, Spares, Follows, Exists
  <2> QED BY <2>1 DEF Snapshots, Exists
<1>8. EnvironmentKept'
  <2>1. CASE binding = None
    <3>1. binding' = None /\ (docker[0].state # "absent" => docker'[0].state # "absent")
          /\ row' \in {row, shown}
      BY <2>1 DEF Spares, RowMoves
    <3>2. row' # None => row # None
      BY <2>1, <3>1 DEF Rows
    <3>3. row # None => docker[0].state # "absent"
      BY <2>1 DEF EnvInv, EnvironmentKept, Exists
    <3> QED BY <3>1, <3>2, <3>3 DEF EnvironmentKept, Exists
  <2>2. CASE binding # None
    BY <1>2, <2>2 DEF EnvInv, EnvironmentKept, Spares, Exists
  <2> QED BY <2>1, <2>2
<1> QED BY <1>3, <1>4, <1>7, <1>8

\* What is frozen stays so while the gate stays closed and no turn goes on.
LEMMA FrozenStays ==
    ASSUME TypeOK, TypeOK', EnvInv, Follows, Spares,
           \A o \in DOMAIN ops : Unfinished(o) /\ image[o] # None =>
               pending' # None /\ turn' = None /\ holder'.task \in {None, o}
    PROVE  Frozen'
<1>1. DOMAIN ops \subseteq Operations /\ DOMAIN ops' \subseteq Operations
      /\ Operations \subseteq Generations
  BY Tables, LaterTables, Ranges
<1>2. ASSUME NEW o \in DOMAIN ops', Unfinished(o)', image'[o] # None
      PROVE  /\ pending' # None /\ turn' = None /\ holder'.task \in {None, o}
             /\ image'[o] = work' /\ (docker'[o].state # "absent" => docker'[o].layer = work')
  <2>1. image'[o] = image[o] /\ image[o] # None /\ o \in Operations
    BY <1>1, <1>2 DEF Spares
  <2>2. o \in DOMAIN ops /\ Unfinished(o)
    BY <1>2, <2>1 DEF EnvInv, Snapshots, Follows
  <2>3. image[o] = work /\ (docker[o].state # "absent" => docker[o].layer = work)
    BY <2>1, <2>2 DEF EnvInv, Frozen, Exists
  <2> QED BY <1>1, <2>1, <2>2, <2>3 DEF Spares
<1> QED BY <1>2 DEF Frozen, Exists

\* An operation that goes on is one of those steps, and so is an intent.
LEMMA ProceedsFollows ==
    ASSUME TypeOK, TypeOK', GateInv, Proceeds
    PROVE  Follows
<1>1. Unfinished(Task) /\ Task \in DOMAIN ops
  BY DEF GateInv, HeldGate, Proceeds, Task
<1>2. DOMAIN ops = 1 .. Len(ops) /\ DOMAIN ops' = 1 .. Len(ops')
  BY Sequence DEF TypeOK
<1>3. CASE ops' = ops
  BY <1>3 DEF Follows, Unfinished
<1>4. CASE Saves
  BY <1>1, <1>2, <1>4 DEF Saves, Follows, Unfinished
<1>5. CASE Retires
  <2>1. PICK o \in DOMAIN ops :
            /\ o < Task /\ ~Unfinished(o)
            /\ \A p \in DOMAIN ops \ {o} : ops'[p] = ops[p]
            /\ ops'[o].target = ops[o].target /\ ops'[o].old = ops[o].old
            /\ ops'[o].candidate = ops[o].candidate /\ ops'[o].phase = "superseded"
    BY <1>5 DEF Retires
  <2>2. Len(ops') = Len(ops)
    BY <1>5 DEF Retires
  <2> QED BY <1>2, <2>1, <2>2 DEF Follows, Unfinished, Terminal
<1> QED BY <1>3, <1>4, <1>5 DEF Proceeds

LEMMA IntentFollows ==
    ASSUME TypeOK, TypeOK', NEW r, Touched \/ Grown(r)
    PROVE  Follows
<1>1. DOMAIN ops = 1 .. Len(ops) /\ DOMAIN ops' = 1 .. Len(ops') /\ Len(ops) \in Nat
  BY Sequence DEF TypeOK
<1>2. CASE Touched
  BY <1>1, <1>2 DEF Touched, Follows, Unfinished, SameReceipt
<1>3. CASE Grown(r)
  BY <1>1, <1>3 DEF Grown, Follows, Unfinished, SameReceipt
<1> QED BY <1>2, <1>3

\* Containers that are stopped or started are the same ones.
Standing == \A g \in Generations : /\ docker'[g].layer = docker[g].layer
                                   /\ docker'[g].state = "absent" <=> docker[g].state = "absent"

LEMMA StoppedStands ==
    ASSUME TypeOK, NEW gs, docker' \in {docker, Stopped(gs)}
    PROVE  Standing
BY DockerType DEF Standing

LEMMA StartedStands ==
    ASSUME TypeOK, NEW g \in Generations, docker[g].state # "absent",
           docker' = [docker EXCEPT ![g].state = "running"]
    PROVE  Standing
<1> DEFINE c == [docker[g] EXCEPT !.state = "running"]
<1>1. docker[g] \in Containers /\ docker \in [Generations -> Containers]
  BY DEF TypeOK
<1>2. c.layer = docker[g].layer /\ c.state = "running"
  BY <1>1 DEF Containers
<1>3. docker' = [docker EXCEPT ![g] = c]
  OBVIOUS
<1> HIDE DEF c
<1> QED BY <1>1, <1>2, <1>3 DEF Standing

\* No container is lost by that, nor by removing others than the one in use.
LEMMA StandingSpares ==
    ASSUME TypeOK, EnvInv, Standing, work' = work, image' = image, SameBinding
    PROVE  Spares
<1>1. binding # None => binding.generation \in Generations
      /\ docker[binding.generation].state # "absent"
  BY DEF EnvInv, EnvironmentKept, TypeOK, Bindings, Exists
<1> QED BY <1>1, Ranges DEF Standing, Spares, SameBinding

LEMMA RemovedSpares ==
    ASSUME TypeOK, EnvInv, NEW gs, docker' = Removed(gs), work' = work, image' = image,
           binding' = binding,
           IF binding = None THEN 0 \notin gs ELSE binding.generation \notin gs
    PROVE  Spares
<1>1. binding # None => binding.generation \in Generations
      /\ docker[binding.generation].state # "absent"
  BY DEF EnvInv, EnvironmentKept, TypeOK, Bindings, Exists
<1> QED BY <1>1, DockerType, Ranges DEF Spares

\* Where a step goes.
LEMMA GoesTo ==
    ASSUME TypeOK, NEW pc, NEW receipt, Goto(pc) \/ SaveAs(receipt, pc)
    PROVE  holder'.pc = pc
BY DEF TypeOK, Holders, Goto, SaveAs

LEMMA SavesTo ==
    ASSUME TypeOK, NEW phase, NEW pc, Save(phase, pc)
    PROVE  holder'.pc = pc
BY GoesTo DEF Save

\* The operation at a step.
LEMMA AtOperation ==
    ASSUME TypeOK, Shape, GateInv, NEW pc \in OperationSteps, Running(pc)
    PROVE  /\ Task \in DOMAIN ops /\ Task \in Operations /\ Task \in Generations
           /\ Task # 0 /\ Task # None /\ Task = holder.task
           /\ Own \in Receipt /\ SameReceipt(Own, ops[Task])
           /\ holder.pc = pc /\ pending # None /\ server # "starting"
           /\ Unfinished(Task) <=> pc \notin Over
<1>1. HeldGate
  BY DEF GateInv
<1> QED BY <1>1, Holder, Ranges DEF HeldGate, Task, Own

\* A step of an operation that leaves the containers keeps the environment.
LEMMA OperationKept ==
    ASSUME TypeOK, TypeOK', GateInv, EnvInv, Proceeds, Spares, RowMoves,
           turn' \in {None, turn}, AtSteps', Leased'
    PROVE  EnvInv'
<1>1. Follows
  BY ProceedsFollows
<1>2. FirstWork' /\ Candidates' /\ Projected' /\ Snapshots' /\ EnvironmentKept'
  BY <1>1, SparedEnv DEF GateInv
<1>3. Frozen'
  BY <1>1, FrozenStays DEF EnvInv, Frozen, Proceeds, Task
<1> QED BY <1>2, <1>3 DEF EnvInv

\* A step that touches neither container nor binding.
LEMMA QuietOperation ==
    ASSUME TypeOK, TypeOK', GateInv, EnvInv, Proceeds,
           docker' = docker, image' = image, work' = work, binding' = binding, row' = row,
           shown' = shown, lease' = lease, turn' \in {None, turn}, AtSteps',
           holder.pc \in {"publishing", "superseding", "failing"} =>
               holder'.pc \in {"superseding", "failing"}
    PROVE  EnvInv'
<1>1. Spares
  BY StoppedStands, StandingSpares DEF SameBinding
<1>2. RowMoves
  BY DEF EnvInv, Projected, RowMoves
<1>3. Leased'
  BY DEF EnvInv, Leased, Proceeds, Task
<1> QED BY <1>1, <1>2, <1>3, OperationKept

\* Where the steps go that touch neither container nor binding.
LEMMA QuietSteps ==
    ASSUME TypeOK,
           \/ ReadConfiguration \/ WaitIdle \/ Drain \/ SaveCandidate \/ Succeed \/ SaveSuperseded
           \/ Fault
    PROVE  /\ \/ holder'.pc \in {"yielding", "superseding", "draining", "waiting", "failing",
                 "same",
                                 "quiescing", "opening"}
              \/ holder.pc = "created" /\ holder'.pc = "rebinding"
           /\ holder.pc \in {"publishing", "superseding", "failing", "activating",
              "same_publish"} =>
                holder'.pc \in {"superseding", "failing"}
           /\ holder'.pc = "opening" => holder.pc = "succeeding"
           /\ holder'.pc = "same" => ReadConfiguration
<1>1. CASE ReadConfiguration
  <2>1. holder.pc = "read"
    BY <1>1 DEF ReadConfiguration, Running
  <2>2. \/ Save("superseded", "yielding")
        \/ \E pc \in {"superseding", "draining", "waiting", "failing", "same"} : Goto(pc)
    BY <1>1 DEF ReadConfiguration
  <2>3. holder'.pc \in {"yielding", "superseding", "draining", "waiting", "failing", "same"}
    BY <2>2, SavesTo, GoesTo
  <2> QED BY <1>1, <2>1, <2>3
<1>2. CASE WaitIdle
  <2>1. holder.pc = "waiting"
    BY <1>2 DEF WaitIdle, Running
  <2>2. \/ \E receipt : holder' = [holder EXCEPT !.receipt = receipt, !.pc = "draining"]
        \/ \E receipt : SaveAs(receipt, "yielding")
    BY <1>2 DEF WaitIdle
  <2>3. holder'.pc \in {"draining", "yielding"}
    BY <2>2, GoesTo DEF TypeOK, Holders
  <2> QED BY <2>1, <2>3
<1>3. CASE Drain
  <2>1. holder.pc = "draining" /\ Save("draining", "quiescing")
    BY <1>3 DEF Drain, Running
  <2> QED BY <2>1, SavesTo
<1>4. CASE SaveCandidate
  <2>1. holder.pc = "created"
        /\ SaveAs([Own EXCEPT !.candidate = Task, !.phase = "verifying"], "rebinding")
    BY <1>4 DEF SaveCandidate, Running
  <2> QED BY <2>1, GoesTo
<1>5. CASE Succeed
  <2>1. holder.pc = "succeeding" /\ Save("succeeded", "opening")
    BY <1>5 DEF Succeed, Running
  <2> QED BY <2>1, SavesTo
<1>6. CASE SaveSuperseded
  <2>1. holder.pc = "superseded" /\ Save("superseded", "yielding")
    BY <1>6 DEF SaveSuperseded, Running
  <2> QED BY <2>1, SavesTo
<1>7. CASE Fault
  BY <1>7, GoesTo DEF Fault
<1> QED BY <1>1, <1>2, <1>3, <1>4, <1>5, <1>6, <1>7

\* The steps that only look, wait or save.
LEMMA OperationEnv1 ==
    ASSUME TypeOK, Shape, GateInv, EnvInv, TypeOK', Proceeds,
           \/ ReadConfiguration \/ WaitIdle \/ Drain \/ SaveCandidate \/ Succeed \/ SaveSuperseded
           \/ Fault
    PROVE  EnvInv'
<1> USE StepNames
<1>1. /\ docker' = docker /\ image' = image /\ work' = work /\ binding' = binding /\ row' = row
      /\ shown' = shown /\ lease' = lease /\ turn' = turn
  BY DEF ReadConfiguration, WaitIdle, Drain, SaveCandidate, Succeed, SaveSuperseded, Fault,
         tables, memory, others, counts
<1>2. /\ \/ holder'.pc \in {"yielding", "superseding", "draining", "waiting", "failing", "same",
                            "quiescing", "opening"}
         \/ holder.pc = "created" /\ holder'.pc = "rebinding"
      /\ holder.pc \in {"publishing", "superseding", "failing"} =>
           holder'.pc \in {"superseding", "failing"}
  BY QuietSteps
<1>3. AtSteps'
  BY <1>1, <1>2 DEF EnvInv, AtSteps, Proceeds, Task, Exists
<1> QED BY <1>1, <1>2, <1>3, QuietOperation

\* The steps that lease, revoke, start, stop or remove what they may.
LEMMA OperationEnv2 ==
    ASSUME TypeOK, Shape, GateInv, EnvInv, TypeOK', Proceeds,
           \/ KeepEnvironment \/ PublishSame \/ Quiesce \/ Rebind \/ Activate
           \/ Supersede \/ Fail
    PROVE  EnvInv'
<1> USE StepNames, Ranges
<1>0. binding # None => /\ binding \in Bindings /\ binding.generation \in Generations
                        /\ binding.generation # None
                        /\ row = binding.generation /\ docker[binding.generation].state # "absent"
  BY DEF EnvInv, EnvironmentKept, Projected, TypeOK, Bindings, Exists
<1>1. CASE KeepEnvironment
  <2>1. /\ holder.pc = "same" /\ binding # None
    BY <1>1 DEF KeepEnvironment, Running, Shape
  <2>2. /\ image' = image /\ work' = work /\ binding' = binding /\ row' = row
        /\ turn' \in {None, turn} /\ lease' = binding.generation
    BY <1>1 DEF KeepEnvironment, tables, others, counts
  <2>3. holder'.pc = "same_publish"
    <3>1. holder' = [holder EXCEPT !.pc = "same_publish", !.resident = lease = binding.generation]
      BY <1>1 DEF KeepEnvironment
    <3> QED BY <3>1 DEF TypeOK, Holders
  <2>4. Standing
    BY <1>0, <1>1, <2>1, StoppedStands, StartedStands DEF KeepEnvironment
  <2>5. Spares
    BY <2>1, <2>2, <2>4, StandingSpares DEF SameBinding
  <2>6. RowMoves
    BY <1>0, <2>1, <2>2 DEF RowMoves
  <2>7. AtSteps' /\ Leased'
    BY <2>1, <2>2, <2>3 DEF AtSteps, Leased
  <2> QED BY <2>2, <2>5, <2>6, <2>7, OperationKept
<1>2. CASE PublishSame
  <2>1. /\ holder.pc = "same_publish" /\ binding # None
    BY <1>2 DEF PublishSame, Running, Shape
  <2>2. /\ docker' = docker /\ image' = image /\ work' = work /\ turn' = turn /\ shown' = shown
    BY <1>2 DEF PublishSame, others, counts
  <2>3. /\ binding' # None /\ binding'.generation = binding.generation
        /\ row' = binding.generation /\ lease' \in {lease, binding.generation}
    <3>1. \/ binding' = binding /\ row' = row /\ lease' = lease
          \/ /\ binding' = [binding EXCEPT !.revision = Own.target]
             /\ row' = binding.generation /\ lease' = binding.generation
      BY <1>2 DEF PublishSame
    <3>2. Own.target \in Revisions
      BY <1>2, AtOperation DEF PublishSame, Receipt
    <3>3. LET b == [binding EXCEPT !.revision = Own.target]
          IN b # None /\ b.generation = binding.generation
      BY <1>0, <2>1, <3>2, NoneAssumption DEF Bindings
    <3> QED BY <1>0, <2>1, <3>1, <3>3
  <2>4. holder'.pc \in {"failing", "retiring"}
    BY <1>2, GoesTo DEF PublishSame
  <2>5. Spares
    BY <2>1, <2>2, <2>3, StoppedStands, StandingSpares DEF SameBinding
  <2>6. RowMoves
    BY <2>3 DEF RowMoves
  <2>7. AtSteps'
    BY <2>4 DEF AtSteps
  <2>8. Leased'
    BY <2>1, <2>3 DEF EnvInv, Leased
  <2> QED BY <2>2, <2>5, <2>6, <2>7, <2>8, OperationKept
<1>3. CASE Quiesce
  <2>1. /\ docker' = docker /\ image' = image /\ work' = work /\ binding' = binding /\ row' = row
        /\ shown' = shown /\ lease' = None /\ turn' = None
    BY <1>3 DEF Quiesce, others, counts
  <2>2. holder'.pc \in {"failing", "snapshotting"}
    BY <1>3, GoesTo DEF Quiesce
  <2>3. Spares
    BY <2>1, StoppedStands, StandingSpares DEF SameBinding
  <2>4. RowMoves
    BY <1>0, <2>1 DEF RowMoves
  <2>5. AtSteps' /\ Leased'
    BY <2>1, <2>2 DEF AtSteps, Leased
  <2> QED BY <2>1, <2>3, <2>4, <2>5, OperationKept
<1>4. CASE Rebind
  <2>1. Task \in Operations /\ Task \in Generations /\ Task # None /\ holder.pc = "rebinding"
    BY <1>4, AtOperation DEF Rebind
  <2>2. docker[Task].state # "absent" /\ image[Task] # None
    BY <2>1 DEF EnvInv, AtSteps, Exists
  <2>3. /\ image' = image /\ work' = work /\ binding' = binding /\ row' = row
        /\ turn' = turn /\ lease' = Task /\ shown' = Task
        /\ docker' = [docker EXCEPT ![Task].state = "running"]
    BY <1>4 DEF Rebind, others, counts
  <2>4. holder'.pc = "publishing" /\ Task' = Task
    BY <1>4, SavesTo DEF Rebind, Proceeds, Task
  <2>5. Standing
    BY <2>1, <2>2, <2>3, StartedStands
  <2>6. Spares
    BY <2>3, <2>5, StandingSpares DEF SameBinding
  <2>7. RowMoves
    BY <1>0, <2>1, <2>3 DEF RowMoves
  <2>8. docker'[Task].state # "absent"
    BY <2>1, <2>2, <2>5 DEF Standing
  <2>9. AtSteps' /\ Leased'
    BY <2>2, <2>3, <2>4, <2>8 DEF AtSteps, Leased, Exists
  <2> QED BY <2>3, <2>6, <2>7, <2>9, OperationKept
<1>5. CASE Activate
  <2>1. Task \in Operations /\ holder.pc = "activating"
    BY <1>5, AtOperation DEF Activate
  <2>2. /\ docker' = docker /\ image' = image /\ work' = work /\ binding' = binding /\ row' = row
        /\ turn' = turn /\ lease' = lease /\ shown' = Task
    BY <1>5 DEF Activate, others, counts
  <2>3. holder'.pc = "cleaning" /\ Task' = Task
    BY <1>5, SavesTo DEF Activate, Proceeds, Task
  <2>4. binding # None /\ binding.generation = Task
    BY <2>1 DEF EnvInv, AtSteps
  <2>5. Spares
    BY <2>2, StoppedStands, StandingSpares DEF SameBinding
  <2>6. RowMoves
    BY <1>0, <2>2, <2>4 DEF RowMoves
  <2>7. AtSteps' /\ Leased'
    BY <2>1, <2>2, <2>3, <2>4 DEF EnvInv, AtSteps, Leased
  <2> QED BY <2>2, <2>5, <2>6, <2>7, OperationKept
<1>6. CASE Supersede
  <2>1. /\ Task \in DOMAIN ops /\ Task # 0 /\ SameReceipt(Own, ops[Task])
    BY <1>6, AtOperation DEF Supersede
  <2>2. /\ image' = image /\ work' = work /\ binding' = binding /\ row' = row /\ shown' = shown
        /\ lease' = None /\ turn' = None
    BY <1>6 DEF Supersede, tables, others, counts
  <2>3. holder'.pc = "superseded"
    BY <1>6, GoesTo DEF Supersede
  <2>4. Own.candidate \in {None, Task}
    BY <2>1 DEF EnvInv, Candidates, SameReceipt
  <2>5. Spares
    <3>1. CASE Own.candidate = None \/ (binding # None /\ binding.generation = Own.candidate)
      <4>1. docker' \in {docker, Stopped({Own.candidate})}
        BY <1>6, <3>1 DEF Supersede
      <4> QED BY <2>2, <4>1, StoppedStands, StandingSpares DEF SameBinding
    <3>2. CASE ~(Own.candidate = None \/ (binding # None /\ binding.generation = Own.candidate))
      <4>1. docker' = Removed({Own.candidate})
        BY <1>6, <3>2 DEF Supersede
      <4>2. IF binding = None THEN 0 \notin {Own.candidate}
            ELSE binding.generation \notin {Own.candidate}
        BY <2>1, <2>4, <3>2
      <4> QED BY <2>2, <4>1, <4>2, RemovedSpares
    <3> QED BY <3>1, <3>2
  <2>6. RowMoves
    BY <1>0, <2>2 DEF RowMoves
  <2>7. AtSteps' /\ Leased'
    BY <2>2, <2>3 DEF AtSteps, Leased
  <2> QED BY <2>2, <2>5, <2>6, <2>7, OperationKept
<1>7. CASE Fail
  <2>1. /\ image' = image /\ work' = work /\ binding' = binding /\ row' = row /\ shown' = shown
        /\ lease' = None /\ turn' \in {None, turn}
        /\ docker' = Stopped({Own.candidate, Own.old} \ {None})
    BY <1>7 DEF Fail, tables, others, counts
  <2>2. holder'.pc = "failed"
    BY <1>7, GoesTo DEF Fail
  <2>3. Spares
    BY <2>1, StoppedStands, StandingSpares DEF SameBinding
  <2>4. RowMoves
    BY <1>0, <2>1 DEF RowMoves
  <2>5. AtSteps' /\ Leased'
    BY <2>1, <2>2 DEF AtSteps, Leased
  <2> QED BY <2>1, <2>3, <2>4, <2>5, OperationKept
<1> QED BY <1>1, <1>2, <1>3, <1>4, <1>5, <1>6, <1>7

\* The steps that take the snapshot, make the candidate, publish it and remove
\* what it replaced.
LEMMA OperationEnv3 ==
    ASSUME TypeOK, Shape, GateInv, EnvInv, TypeOK', Proceeds,
           Snapshot \/ CreateCandidate \/ Publish \/ RemoveOld \/ Retire
    PROVE  EnvInv'
<1> USE StepNames, Ranges
<1>0. binding # None => /\ binding \in Bindings /\ binding.generation \in Generations
                        /\ row = binding.generation /\ docker[binding.generation].state # "absent"
                        /\ docker[binding.generation].layer = work
  BY DEF EnvInv, EnvironmentKept, Projected, TypeOK, Bindings, Exists
<1>a. \A o \in DOMAIN ops : Unfinished(o) => o = Len(ops)
  BY DEF GateInv, OnlyLatest
<1>b. Follows /\ DOMAIN ops \subseteq Operations
  BY ProceedsFollows, Tables
<1>c. holder'.task = Task /\ pending' = pending /\ Task' = Task
  BY DEF Proceeds, Task
<1>1. CASE Snapshot
  <2>1. /\ Task \in DOMAIN ops /\ Task \in Operations /\ Task # 0 /\ Unfinished(Task)
           /\ pending # None
        /\ SameReceipt(Own, ops[Task]) /\ Own \in Receipt /\ holder.pc = "snapshotting"
    BY <1>1, AtOperation DEF Snapshot, Over
  <2>2. /\ work' = work /\ binding' = binding /\ row' = row /\ shown' = shown
        /\ turn' = turn /\ lease' = lease /\ turn = None /\ ops' = ops
    BY <1>1, <2>1 DEF Snapshot, tables, memory, others, counts, EnvInv, AtSteps
  <2>3. CASE docker' = docker /\ image' = image
    <3>1. holder'.pc = "failing" \/ (holder'.pc = "creating" /\ image[Task] # None)
      <4>1. CASE image[Task] # None
        BY <1>1, <4>1, GoesTo DEF Snapshot
      <4>2. CASE image[Task] = None
        <5>1. Task \in DOMAIN image
          BY <2>1 DEF TypeOK
        <5>2. ASSUME image' = [image EXCEPT ![Task] = docker[Own.old].layer], Exists(Own.old)
              PROVE  FALSE
          <6>1. Own.old \in Generations
            BY <2>1 DEF Shape, Receipt
          <6>2. docker[Own.old].layer # None
            <7>1. docker[Own.old] \in Containers
              BY <6>1 DEF TypeOK
            <7>2. docker[Own.old].layer \in 0 .. MaxWork
              BY <7>1 DEF Containers
            <7> QED BY <7>2
          <6> QED BY <2>3, <4>2, <5>1, <5>2, <6>2
        <5> QED BY <1>1, <4>2, <5>2, GoesTo DEF Snapshot
      <4> QED BY <4>1, <4>2
    <3>2. AtSteps'
      BY <1>c, <2>3, <3>1 DEF AtSteps
    <3> QED BY <2>1, <2>2, <2>3, <3>2, QuietOperation
  <2>4. CASE ~(docker' = docker /\ image' = image)
    <3>1. /\ image[Task] = None /\ Exists(Own.old) /\ docker' = Stopped({Own.old})
          /\ image' = [image EXCEPT ![Task] = docker[Own.old].layer]
          /\ Goto("creating")
      BY <1>1, <2>4 DEF Snapshot
    <3>2. Own.old \in Generations /\ Own.old = ops[Task].old
      BY <2>1 DEF Shape, Receipt, SameReceipt
    <3>3. docker[Task].state = "absent"
      BY <2>1, <3>1 DEF EnvInv, Snapshots, Exists
    <3>4. docker[Own.old].layer = work
      <4>1. CASE binding = None
        BY <3>2, <4>1 DEF EnvInv, FirstWork
      <4>2. CASE binding # None
        <5>1. binding.generation \in {Task, Own.old}
          BY <2>1, <3>2, <4>2 DEF EnvInv, Candidates
        <5> QED BY <1>0, <3>3, <4>2, <5>1
      <4> QED BY <4>1, <4>2
    <3>5. Standing
      BY <3>1, StoppedStands
    <3>6. /\ \A o \in Operations : image'[o] = IF o = Task THEN work ELSE image[o]
          /\ work # None
      BY <3>1, <3>4 DEF TypeOK
    <3>7. holder'.pc = "creating"
      BY <3>1, GoesTo
    <3>8. Candidates' /\ Projected'
      BY <1>0, <1>b, <2>2, TablesEnv DEF SameBinding, RowMoves
    <3>9. FirstWork' /\ EnvironmentKept'
      BY <1>0, <2>2, <3>5 DEF EnvInv, FirstWork, EnvironmentKept, Standing, Exists
    <3>10. Snapshots'
      BY <1>b, <2>1, <2>2, <3>5, <3>6 DEF EnvInv, Snapshots, Standing, Exists
    <3>11. Frozen'
      <4>1. ASSUME NEW o \in DOMAIN ops, Unfinished(o) PROVE o = Task
        BY <1>a, <2>1, <4>1
      <4>2. docker'[Task].state = "absent"
        BY <2>1, <3>3, <3>5 DEF Standing
      <4> QED BY <1>c, <2>1, <2>2, <3>6, <4>1, <4>2 DEF Frozen, Unfinished, Exists
    <3>12. AtSteps'
      BY <1>c, <2>1, <3>6, <3>7 DEF AtSteps
    <3>13. Leased'
      BY <2>1, <2>2 DEF EnvInv, Leased
    <3> QED BY <3>8, <3>9, <3>10, <3>11, <3>12, <3>13 DEF EnvInv
  <2> QED BY <2>3, <2>4
<1>2. CASE CreateCandidate
  <2>1. /\ Task \in DOMAIN ops /\ Task \in Operations /\ Task # 0 /\ Unfinished(Task)
        /\ Own \in Receipt /\ holder.pc = "creating"
    BY <1>2, AtOperation DEF CreateCandidate, Over
  <2>2. image[Task] # None /\ image[Task] = work
    BY <2>1 DEF EnvInv, AtSteps, Frozen
  <2>3. /\ work' = work /\ image' = image /\ binding' = binding /\ row' = row /\ shown' = shown
        /\ turn' = turn /\ lease' = lease
    BY <1>2 DEF CreateCandidate, memory, others, counts
  <2>4. holder'.pc = "created"
    BY <1>2, SavesTo DEF CreateCandidate
  <2>5. RowMoves /\ SameBinding
    BY <1>0, <2>3 DEF RowMoves, SameBinding
  <2>6. Leased'
    BY <2>1, <2>3 DEF EnvInv, Leased
  <2>7. CASE Exists(Task)
    <3>1. docker' = docker
      BY <1>2, <2>7 DEF CreateCandidate
    <3>2. AtSteps'
      BY <1>c, <2>2, <2>3, <2>4, <2>7, <3>1 DEF AtSteps, Exists
    <3> QED BY <2>1, <2>3, <3>1, <3>2, QuietOperation
  <2>8. CASE ~Exists(Task)
    <3> DEFINE c == [state |-> "running", layer |-> image[Task], mounts |-> mounts[Own.target]]
    <3>1. docker' = [docker EXCEPT ![Task] = c]
      BY <1>2, <2>8 DEF CreateCandidate
    <3>2. c.state # "absent" /\ c.layer = work
      BY <2>2
    <3> HIDE DEF c
    <3>3. \A g \in Generations : docker'[g] = IF g = Task THEN c ELSE docker[g]
      BY <3>1 DEF TypeOK
    <3>4. docker[Task].state = "absent"
      BY <2>8 DEF Exists
    <3>5. Candidates' /\ Projected'
      BY <1>b, <2>5, TablesEnv
    <3>6. FirstWork'
      BY <2>3, <3>2, <3>3 DEF EnvInv, FirstWork
    <3>7. EnvironmentKept'
      BY <1>0, <2>1, <2>3, <3>3, <3>4 DEF EnvInv, EnvironmentKept, Exists
    <3>8. Snapshots'
      BY <1>b, <2>2, <2>3, <3>3 DEF EnvInv, Snapshots, Follows, Exists
    <3>9. Frozen'
      <4>1. ASSUME NEW o \in DOMAIN ops', Unfinished(o)', image'[o] # None
            PROVE  /\ pending' # None /\ turn' = None /\ holder'.task \in {None, o}
                   /\ image'[o] = work' /\ (docker'[o].state # "absent" => docker'[o].layer = work')
        <5>1. o \in Operations
          BY <4>1, LaterTables
        <5>2. o \in DOMAIN ops /\ Unfinished(o) /\ o = Task
          BY <1>a, <1>b, <2>1, <2>3, <4>1, <5>1 DEF EnvInv, Snapshots, Follows
        <5> QED BY <1>c, <2>1, <2>2, <2>3, <3>2, <3>3, <5>2 DEF EnvInv, Frozen
      <4> QED BY <4>1 DEF Frozen, Exists
    <3>10. AtSteps'
      BY <1>c, <2>1, <2>2, <2>3, <2>4, <3>2, <3>3 DEF AtSteps, Exists
    <3> QED BY <2>6, <3>5, <3>6, <3>7, <3>8, <3>9, <3>10 DEF EnvInv
  <2> QED BY <2>7, <2>8
<1>3. CASE Publish
  <2>1. /\ Task \in DOMAIN ops /\ Task \in Operations /\ Task \in Generations /\ Task # None
        /\ Unfinished(Task) /\ Own \in Receipt /\ holder.pc = "publishing"
    BY <1>3, AtOperation DEF Publish, Over
  <2>2. /\ ops' = ops /\ docker' = docker /\ image' = image /\ work' = work /\ shown' = shown
        /\ lease' = lease /\ turn' = turn
    BY <1>3 DEF Publish, memory, others, counts
  <2>3. /\ lease = Task /\ image[Task] # None /\ docker[Task].state # "absent"
        /\ docker[Task].layer = work
    BY <2>1 DEF EnvInv, AtSteps, Frozen, Exists
  <2>4. CASE binding' = binding /\ row' = row /\ Goto("superseding")
    <3>1. holder'.pc = "superseding"
      BY <2>4, GoesTo
    <3>2. AtSteps'
      BY <3>1 DEF AtSteps
    <3> QED BY <2>1, <2>2, <2>4, <3>1, <3>2, QuietOperation
  <2>5. CASE /\ binding' = [generation |-> Task, revision |-> Own.target]
             /\ row' = Task /\ Goto("activating")
    <3>1. binding' # None /\ binding'.generation = Task
      BY <2>1, <2>5, NoneAssumption DEF Bindings, Receipt
    <3>2. holder'.pc = "activating"
      BY <2>5, GoesTo
    <3>3. FirstWork' /\ Projected' /\ Snapshots' /\ EnvironmentKept'
      BY <2>2, <2>3, <2>5, <3>1
         DEF EnvInv, FirstWork, Projected, Snapshots, EnvironmentKept, Exists
    <3>4. Candidates'
      <4>1. ASSUME NEW o \in DOMAIN ops, Unfinished(o) PROVE o = Task
        BY <1>a, <2>1, <4>1
      <4> QED BY <2>2, <3>1, <4>1 DEF EnvInv, Candidates, Unfinished
    <3>5. Frozen'
      BY <1>c, <2>2 DEF EnvInv, Frozen, Unfinished, Exists, Task
    <3>6. AtSteps' /\ Leased'
      BY <1>c, <2>2, <2>3, <3>1, <3>2 DEF AtSteps, Leased
    <3> QED BY <3>3, <3>4, <3>5, <3>6 DEF EnvInv
  <2> QED BY <1>3, <2>4, <2>5 DEF Publish
<1>4. CASE RemoveOld
  <2>1. holder.pc = "cleaning"
    BY <1>4 DEF RemoveOld, Running
  <2>2. /\ image' = image /\ work' = work /\ binding' = binding /\ row' = row /\ shown' = shown
        /\ lease' = lease /\ turn' = turn /\ docker' = Removed({Own.old} \ {Task})
    BY <1>4 DEF RemoveOld, tables, memory, others, counts
  <2>3. holder'.pc = "retiring"
    BY <1>4, GoesTo DEF RemoveOld
  <2>4. binding # None /\ binding.generation = Task
    BY <2>1 DEF EnvInv, AtSteps
  <2>5. Spares
    BY <2>2, <2>4, RemovedSpares
  <2>6. RowMoves
    BY <1>0, <2>2 DEF RowMoves
  <2>7. AtSteps' /\ Leased'
    BY <2>1, <2>2, <2>3 DEF EnvInv, AtSteps, Leased
  <2> QED BY <2>2, <2>5, <2>6, <2>7, OperationKept
<1>5. CASE Retire
  <2>1. holder.pc = "retiring" /\ binding # None
    BY <1>5 DEF Retire, Running, Shape
  <2>2. /\ image' = image /\ work' = work /\ binding' = binding /\ row' = row /\ shown' = shown
        /\ lease' = lease /\ turn' = turn
    BY <1>5 DEF Retire, memory, others, counts
  <2>3. holder'.pc \in {"retiring", "succeeding"}
    BY <1>5, <2>1, GoesTo DEF Retire
  <2>4. Spares
    <3>1. CASE docker' = docker
      BY <2>2, <3>1, StoppedStands, StandingSpares DEF SameBinding
    <3>2. CASE \E o \in DOMAIN ops : docker' = Removed(Leftovers(o))
      <4>1. \A o \in DOMAIN ops : binding.generation \notin Leftovers(o)
        BY DEF Leftovers
      <4> QED BY <2>1, <2>2, <3>2, <4>1, RemovedSpares
    <3> QED BY <1>5, <3>1, <3>2 DEF Retire
  <2>5. RowMoves
    BY <1>0, <2>2 DEF RowMoves
  <2>6. AtSteps' /\ Leased'
    BY <2>1, <2>2, <2>3 DEF EnvInv, AtSteps, Leased
  <2> QED BY <2>2, <2>4, <2>5, <2>6, OperationKept
<1> QED BY <1>1, <1>2, <1>3, <1>4, <1>5

\* The end of an operation.
LEMMA EndsEnv ==
    ASSUME TypeOK, Shape, GateInv, EnvInv, TypeOK', Open \/ Yield \/ SaveFailed
    PROVE  EnvInv'
<1> USE StepNames, Ranges
<1>1. \E pc \in {"opening", "yielding", "failed"} : Running(pc)
  BY DEF Open, Yield, SaveFailed
<1>2. /\ Task \in DOMAIN ops /\ Task \in Operations /\ Own \in Receipt /\ Task = holder.task
      /\ SameReceipt(Own, ops[Task]) /\ pending # None
      /\ holder.pc \in {"opening", "yielding", "failed"}
      /\ Unfinished(Task) <=> holder.pc \notin Over
  BY <1>1, AtOperation
<1>3. /\ holder' = Free /\ holder'.task = None /\ holder'.pc = "idle"
      /\ docker' = docker /\ binding' = binding /\ row' = row /\ shown' = shown
      /\ lease' = lease /\ turn' = turn /\ work' = work
  BY DEF Open, Yield, SaveFailed, Done, tables, memory, counts, Free
<1>4. binding # None => row = binding.generation /\ docker[binding.generation].state # "absent"
                        /\ binding.generation \in Generations
  BY DEF EnvInv, EnvironmentKept, Projected, TypeOK, Bindings, Exists
<1>5. Spares
  <2>1. \A o \in Operations : image'[o] = image[o] \/ (image'[o] = None
        /\ docker[o].state = "absent")
    BY DEF Open, Yield, SaveFailed, memory, Reclaimed, Exists
  <2> QED BY <1>3, <1>4, <2>1 DEF Spares
<1>6. RowMoves
  BY <1>3, <1>4 DEF RowMoves
<1>7. Follows
  <2>1. CASE ops' = ops
    BY <2>1 DEF Follows, Unfinished
  <2>2. CASE SaveFailed /\ ops' # ops
    <3> DEFINE receipt == [Own EXCEPT !.phase = "failed"]
    <3>1. /\ receipt \in Receipt /\ receipt.old = ops[Task].old /\ receipt.phase = "failed"
          /\ receipt.candidate = ops[Task].candidate /\ receipt.target = ops[Task].target
      BY <1>2 DEF Receipt, SameReceipt
    <3>2. ops' = [ops EXCEPT ![Task] = receipt] /\ ops \in Seq(Receipt)
      BY <2>2 DEF SaveFailed, TypeOK
    <3> HIDE DEF receipt
    <3>3. /\ DOMAIN ops' = DOMAIN ops
          /\ \A o \in DOMAIN ops : ops'[o] = IF o = Task THEN receipt ELSE ops[o]
      BY <1>2, <3>1, <3>2
    <3> QED BY <3>1, <3>3 DEF Follows, Unfinished, Terminal
  <2> QED BY <2>1, <2>2 DEF Open, Yield, SaveFailed, tables
<1>8. FirstWork' /\ Candidates' /\ Projected' /\ Snapshots' /\ EnvironmentKept'
  BY <1>5, <1>6, <1>7, SparedEnv DEF GateInv
<1>9. Frozen'
  <2>1. ASSUME NEW o \in DOMAIN ops, Unfinished(o), image[o] # None
        PROVE  pending' # None /\ turn' = None
    <3>1. holder.task \in {None, o} /\ turn = None
      BY <2>1 DEF EnvInv, Frozen
    <3>2. o = Task
      BY <1>2, <3>1
    <3>3. holder.pc = "failed"
      BY <1>2, <2>1, <3>2 DEF Over
    <3>4. pending' = pending
      BY <3>3 DEF Open, Yield, SaveFailed, Running, memory
    <3> QED BY <1>2, <1>3, <3>1, <3>4
  <2> QED BY <1>3, <1>5, <1>7, <2>1, FrozenStays
<1>10. AtSteps' /\ Leased'
  BY <1>2, <1>3 DEF EnvInv, AtSteps, Leased
<1> QED BY <1>8, <1>9, <1>10 DEF EnvInv

\* Steps of others while somebody holds the lock or nobody does: the holder
\* keeps it and finds what it relied on.
LEMMA HolderKept ==
    ASSUME TypeOK, TypeOK', Shape, GateInv, EnvInv, Follows, holder' = holder,
           docker' = docker, image' = image, work' = work, binding' = binding, row' = row,
           shown' = shown, lease' = lease, pending # None => pending' # None,
           turn' \in {None, turn} \/ pending = None
    PROVE  EnvInv'
<1>1. Spares
  BY StoppedStands, StandingSpares DEF SameBinding
<1>2. RowMoves
  BY DEF EnvInv, Projected, RowMoves
<1>3. FirstWork' /\ Candidates' /\ Projected' /\ Snapshots' /\ EnvironmentKept'
  BY <1>1, <1>2, SparedEnv DEF GateInv
<1>4. Frozen'
  BY <1>1, FrozenStays DEF EnvInv, Frozen
<1>5. AtSteps'
  <2>1. holder.pc = "snapshotting" => turn' = None
    <3>1. ASSUME holder.pc = "snapshotting" PROVE pending # None
      <4>1. holder.task \in DOMAIN ops
        BY <3>1 DEF Shape, Free, AssemblySteps
      <4> QED BY <4>1 DEF GateInv, HeldGate
    <3> QED BY <3>1 DEF EnvInv, AtSteps
  <2> QED BY <2>1 DEF EnvInv, AtSteps, Task, Exists
<1>6. Leased'
  BY DEF EnvInv, Leased, Task
<1> QED BY <1>3, <1>4, <1>5, <1>6 DEF EnvInv

\* What requests, and what follows an operation, do to the recorded operations.
LEMMA RequestsEnqueue ==
    ASSUME TypeOK,
           \/ RequestStep \/ TakeInventory
           \/ \E policy \in Policies : RequestApply(policy)
           \/ Compensate \/ Launch
           \/ CancelReferenceTurn \/ LoadThread \/ TurnBegins \/ TurnEnds
    PROVE  \/ ops' = ops
           \/ \E r \in Revisions, policy \in Policies, scope \in {"all", "unapplied"} :
                 ops' = Enqueued(r, policy, scope)
<1>1. ASSUME NEW fingerprint \in Revisions, Replace(fingerprint)
      PROVE  revision + 1 \in Revisions /\ ops' = Enqueued(revision + 1, "when_idle", "unapplied")
  BY <1>1 DEF Replace
<1>2. ASSUME NEW policy \in Policies, RequestApply(policy)
      PROVE  ops' = Enqueued(revision, policy, "all")
  BY <1>2 DEF RequestApply
<1>3. ASSUME Compensate PROVE ops' = ops \/ ops' = Enqueued(revision, "when_idle", "unapplied")
  BY <1>3 DEF Compensate
<1>4. ASSUME \/ Launch \/ CancelReferenceTurn \/ LoadThread \/ TurnBegins \/ TurnEnds
             \/ TakeInventory \/ KeepConfiguration \/ BlockReplaced \/ BlockUnfinished
      PROVE  ops' = ops
  BY <1>4 DEF Launch, CancelReferenceTurn, LoadThread, TurnBegins, TurnEnds, TakeInventory,
     KeepConfiguration, BlockReplaced, BlockUnfinished, tables
<1>5. revision \in Revisions /\ "when_idle" \in Policies
  BY DEF TypeOK, Policies
<1> QED BY <1>1, <1>2, <1>3, <1>4, <1>5 DEF RequestStep

\* Requests, claims and turns.
LEMMA RequestsEnv ==
    ASSUME TypeOK, Shape, GateInv, EnvInv, TypeOK',
           \/ RequestStep \/ TakeInventory
           \/ \E policy \in Policies : RequestApply(policy)
           \/ Compensate \/ Launch
           \/ CancelReferenceTurn \/ LoadThread \/ TurnBegins \/ TurnEnds
    PROVE  EnvInv'
<1>1. /\ holder' = holder /\ docker' = docker /\ image' = image /\ work' = work
      /\ binding' = binding /\ row' = row /\ shown' = shown /\ lease' = lease
      /\ turn' \in {None, turn} \/ pending = None
  <2>1. CASE \E fingerprint \in Revisions : Replace(fingerprint)
    BY <2>1 DEF Replace, memory, counts
  <2>2. CASE \E policy \in Policies : RequestApply(policy)
    BY <2>2 DEF RequestApply, memory, counts
  <2>3. CASE Compensate \/ Launch
    BY <2>3 DEF Compensate, Launch, tables, counts
  <2>4. CASE CancelReferenceTurn \/ LoadThread \/ TurnBegins \/ TurnEnds
    BY <2>4 DEF CancelReferenceTurn, LoadThread, TurnBegins, TurnEnds, tables, others, counts
  <2>5. CASE TakeInventory \/ KeepConfiguration \/ BlockReplaced \/ BlockUnfinished
    BY <2>5 DEF TakeInventory, KeepConfiguration, BlockReplaced, BlockUnfinished, tables, memory,
       counts
  <2> QED BY <2>1, <2>2, <2>3, <2>4, <2>5 DEF RequestStep
<1>2. pending # None => pending' # None
  <2>1. ASSUME BlockReplaced \/ BlockUnfinished
        PROVE  pending # None => pending' # None
    BY <2>1, Gates DEF BlockReplaced, BlockUnfinished, TypeOK
  <2>2. ASSUME \/ \E fingerprint \in Revisions : Replace(fingerprint)
               \/ \E policy \in Policies : RequestApply(policy)
               \/ TakeInventory \/ KeepConfiguration
        PROVE  pending' = pending
    BY <2>2 DEF Replace, RequestApply, TakeInventory, KeepConfiguration, memory
  <2>3. ASSUME Compensate \/ Launch \/ CancelReferenceTurn \/ LoadThread \/ TurnBegins \/ TurnEnds
        PROVE  pending' = pending
    BY <2>3 DEF Compensate, Launch, CancelReferenceTurn, LoadThread, TurnBegins, TurnEnds
  <2> QED BY <2>1, <2>2, <2>3 DEF RequestStep
<1>3. Follows
  <2>1. \/ ops' = ops
        \/ \E r \in Revisions, policy \in Policies, scope \in {"all", "unapplied"} :
              ops' = Enqueued(r, policy, scope)
    BY RequestsEnqueue
  <2>2. CASE ops' = ops
    BY <2>2 DEF Follows, Unfinished
  <2>3. ASSUME NEW r \in Revisions, NEW policy \in Policies, NEW scope,
               ops' = Enqueued(r, policy, scope)
        PROVE  Follows
    BY <2>3, Enqueues, IntentFollows
  <2> QED BY <2>1, <2>2, <2>3
<1> QED BY <1>1, <1>2, <1>3, HolderKept

\* A worker takes the lock for the operation it claimed.
LEMMA BeginEnv ==
    ASSUME TypeOK, Shape, GateInv, EnvInv, TypeOK', Begin
    PROVE  EnvInv'
<1> USE Ranges
<1>1. /\ holder = Free /\ queued # None
      /\ ops' = ops /\ docker' = docker /\ image' = image /\ work' = work /\ binding' = binding
      /\ row' = row /\ shown' = shown /\ lease' = lease /\ turn' = turn
      /\ pending' = Blocked(queued.receipt.target)
      /\ holder' = [Free EXCEPT !.task = queued.id, !.pc = "read", !.receipt = queued.receipt]
  BY DEF Begin, tables, counts
<1>2. holder'.task = queued.id /\ holder'.pc = "read" /\ holder.pc = "idle"
  BY <1>1 DEF Free
<1>3. queued.id \in DOMAIN ops /\ Unfinished(queued.id)
  BY <1>1 DEF GateInv, Claimed
<1>4. Spares
  BY <1>1, StoppedStands, StandingSpares DEF SameBinding
<1>5. RowMoves
  BY <1>1 DEF EnvInv, Projected, RowMoves
<1>6. Follows
  BY <1>1 DEF Follows, Unfinished
<1>7. FirstWork' /\ Candidates' /\ Projected' /\ Snapshots' /\ EnvironmentKept'
  BY <1>4, <1>5, <1>6, SparedEnv DEF GateInv
<1>8. Frozen'
  <2>1. pending' # None
    <3>1. queued.receipt.target \in Revisions
      BY <1>1 DEF TypeOK, Claims, Receipt
    <3> QED BY <1>1, <3>1, Gates
  <2>2. ASSUME NEW o \in DOMAIN ops, Unfinished(o), image[o] # None
        PROVE  turn' = None /\ holder'.task \in {None, o}
    <3>1. o = queued.id
      BY <1>3, <2>2 DEF GateInv, OnlyLatest
    <3> QED BY <1>1, <1>2, <2>2, <3>1 DEF EnvInv, Frozen
  <2> QED BY <1>4, <1>6, <2>1, <2>2, FrozenStays
<1>9. AtSteps' /\ Leased'
  BY <1>1, <1>2 DEF EnvInv, AtSteps, Leased
<1> QED BY <1>7, <1>8, <1>9 DEF EnvInv

\* The environment made on first use, or found again.
LEMMA AssemblyEnv ==
    ASSUME TypeOK, Shape, GateInv, EnvInv, TypeOK',
           AssemblyStep \/ AssemblyFault \/ Refuse
    PROVE  EnvInv'
<1> USE Ranges
<1>0. binding # None => /\ binding.generation \in Generations /\ row = binding.generation
                        /\ docker[binding.generation].state # "absent"
                        /\ docker[binding.generation].layer = work
  BY DEF EnvInv, EnvironmentKept, Projected, TypeOK, Bindings, Exists
<1>a. RowWith(shown) = (IF binding # None THEN binding.generation ELSE shown)
  BY DEF RowWith
<1>b. ASSUME NEW pc \in AssemblySteps, Running(pc)
      PROVE  holder.task = 0 /\ holder.pc = pc /\ Task = 0
  BY <1>b, AssemblyHolder DEF Task
<1>c. \A pc \in {"assembling", "blocking", "saving", "adopting", "recording"} :
          pc \in AssemblySteps
  BY DEF AssemblySteps
<1>d. Free.task = None /\ Free.pc = "idle"
  BY DEF Free
<1>e. ASSUME NEW o \in DOMAIN ops, Unfinished(o), image[o] # None
      PROVE  pending # None /\ turn = None /\ holder.task \in {None, o} /\ o # 0
  BY <1>e, Tables DEF EnvInv, Frozen
<1>f. 0 # None
  BY ReferenceAssumption
<1>1. CASE Assemble
  <2>1. /\ pending = None /\ holder = Free
        /\ ops' = ops /\ docker' = docker /\ image' = image /\ work' = work /\ binding' = binding
        /\ row' = row /\ shown' = shown /\ lease' = lease /\ turn' = turn
        /\ holder'.task = 0 /\ holder'.pc = "assembling"
    BY <1>1 DEF Assemble, tables, memory, others, counts, Free
  <2>2. Spares
    BY <2>1, StoppedStands, StandingSpares DEF SameBinding
  <2>3. RowMoves
    BY <1>0, <2>1 DEF RowMoves
  <2>4. Follows
    BY <2>1 DEF Follows, Unfinished
  <2>5. Frozen'
    BY <1>e, <2>1, <2>2, <2>4, FrozenStays
  <2>6. AtSteps' /\ Leased'
    BY <1>d, <2>1 DEF EnvInv, AtSteps, Leased
  <2> QED BY <2>2, <2>3, <2>4, <2>5, <2>6, SparedEnv DEF GateInv, EnvInv
<1>2. CASE Refuse
  <2>1. /\ ops' = ops /\ docker' = docker /\ image' = image /\ work' = work /\ binding' = binding
        /\ row' = RowWith(shown) /\ shown' = shown /\ lease' = lease /\ turn' = turn
        /\ pending' = pending /\ holder' = holder /\ holder = Free
    BY <1>2 DEF Refuse, memory, others, counts
  <2>2. Spares
    BY <2>1, StoppedStands, StandingSpares DEF SameBinding
  <2>3. RowMoves
    BY <1>0, <1>a, <2>1 DEF RowMoves
  <2>4. Follows
    BY <2>1 DEF Follows, Unfinished
  <2>5. Frozen'
    BY <1>e, <2>1, <2>2, <2>4, FrozenStays
  <2>6. AtSteps' /\ Leased'
    BY <1>d, <2>1 DEF EnvInv, AtSteps, Leased
  <2> QED BY <2>2, <2>3, <2>4, <2>5, <2>6, SparedEnv DEF GateInv, EnvInv
<1>3. ASSUME Discover \/ SaveContainer
      PROVE  EnvInv'
  <2>1. /\ holder.task = 0 /\ Task = 0 /\ binding = None /\ shown = None
        /\ docker[0].state # "absent" /\ holder.pc \in {"assembling", "saving"}
    BY <1>3, <1>b, <1>c DEF Discover, SaveContainer, EnvInv, AtSteps, Running, Exists
  <2>2. /\ ops' = ops /\ docker' = docker /\ image' = image /\ work' = work /\ binding' = binding
        /\ row' = 0 /\ shown' = 0 /\ lease' = lease /\ turn' = turn /\ pending' = pending
    BY <1>3 DEF Discover, SaveContainer, others, counts
  <2>3. holder'.task = 0 /\ holder'.pc \in {"assembling", "adopting"}
    <3>1. \/ holder' = holder /\ holder.pc = "assembling"
          \/ Goto("adopting")
      BY <1>3 DEF Discover, SaveContainer, others, Running
    <3> QED BY <2>1, <3>1, GotoType DEF Steps
  <2>4. row = None /\ ops = <<>>
    BY <2>1 DEF GateInv, Rows, Physical
  <2>5. Candidates'
    BY <2>2, <2>4 DEF Candidates
  <2>6. FirstWork' /\ Projected' /\ Snapshots' /\ Frozen' /\ EnvironmentKept'
    BY <2>1, <2>2, <2>4
       DEF EnvInv, FirstWork, Projected, Snapshots, Frozen, EnvironmentKept, Exists
  <2>7. AtSteps'
    BY <2>1, <2>2, <2>3 DEF AtSteps, Exists
  <2>8. Leased'
    BY <2>1, <2>2 DEF EnvInv, Leased
  <2> QED BY <2>5, <2>6, <2>7, <2>8 DEF EnvInv
<1>4. CASE CreateContainer
  <2>1. /\ holder.task = 0 /\ Task = 0 /\ binding = None /\ shown = None /\ holder.pc = "assembling"
        /\ docker[0].state = "absent" /\ Preferred = None
    BY <1>4, <1>b, <1>c, <1>0, <1>f DEF CreateContainer, Preferred, Exists
  <2> DEFINE c == [state |-> "running", layer |-> 0, mounts |-> mounts[holder.read]]
  <2>2. /\ ops' = ops /\ image' = image /\ work' = work /\ binding' = binding
        /\ row' = row /\ shown' = shown /\ lease' = lease /\ turn' = turn /\ pending' = pending
        /\ docker' = [docker EXCEPT ![0] = c]
    BY <1>4 DEF CreateContainer, tables, memory, others, counts
  <2>3. holder'.task = 0 /\ holder'.pc = "saving"
    BY <1>4, <2>1, GotoType DEF CreateContainer, Steps
  <2>4. c.state # "absent" /\ c.layer = 0
    OBVIOUS
  <2> HIDE DEF c
  <2>5. \A g \in Generations : docker'[g] = IF g = 0 THEN c ELSE docker[g]
    BY <2>2 DEF TypeOK
  <2>6. FirstWork' /\ Candidates' /\ Projected'
    BY <2>2, <2>4, <2>5 DEF EnvInv, FirstWork, Candidates, Projected, Unfinished
  <2>7. Snapshots'
    BY <2>2, <2>5 DEF EnvInv, Snapshots, Exists
  <2>8. Frozen'
    BY <1>e, <1>f, <2>1, <2>2 DEF Frozen, Unfinished
  <2>9. EnvironmentKept'
    BY <2>1, <2>2, <2>4, <2>5 DEF EnvInv, EnvironmentKept, Exists
  <2>10. AtSteps'
    BY <2>1, <2>2, <2>3, <2>4, <2>5 DEF AtSteps, Exists
  <2>11. Leased'
    BY <2>1, <2>2 DEF EnvInv, Leased
  <2> QED BY <2>6, <2>7, <2>8, <2>9, <2>10, <2>11 DEF EnvInv
<1>5. CASE FindContainer
  <2>1. /\ holder.task = 0 /\ Task = 0 /\ holder.pc = "assembling"
        /\ binding # None \/ shown # None
    BY <1>5, <1>b, <1>c DEF FindContainer
  <2>2. /\ image' = image /\ work' = work /\ binding' = binding /\ row' \in {row, RowWith(shown)}
        /\ shown' = shown /\ lease' = lease /\ turn' = turn /\ pending' = pending
    BY <1>5 DEF FindContainer, memory, others, counts
  <2>3. RowMoves /\ SameBinding
    BY <1>0, <1>a, <2>2 DEF RowMoves, SameBinding
  <2>4. Leased'
    BY <2>1, <2>2 DEF EnvInv, Leased
  <2>5. Preferred = (IF binding # None THEN binding.generation ELSE shown)
        /\ Preferred \in Generations
    BY <1>0, <2>1 DEF Preferred, TypeOK
  <2>6. CASE /\ Exists(Preferred) /\ Matches(Preferred) /\ Goto("adopting") /\ ops' = ops
             /\ row' = row
             /\ docker' = [docker EXCEPT ![Preferred].state = "running"]
    <3>1. Standing
      BY <2>5, <2>6, StartedStands DEF Exists
    <3>2. Spares
      BY <2>2, <2>3, <3>1, StandingSpares
    <3>3. Follows
      BY <2>6 DEF Follows, Unfinished
    <3>4. holder'.task = 0 /\ holder'.pc = "adopting"
      BY <2>1, <2>6, GotoType DEF Steps
    <3>5. Frozen'
      BY <1>e, <1>f, <2>1, <3>2, <3>3, FrozenStays
    <3>6. binding = None => shown = 0 /\ docker[0].state # "absent"
      BY <2>5, <2>6 DEF Matches, Exists
    <3>7. binding = None => row = 0
      BY <3>6 DEF EnvInv, Projected
    <3>8. AtSteps'
      BY <2>2, <2>6, <3>1, <3>4, <3>6, <3>7, <1>f DEF AtSteps, Standing, Exists
    <3> QED BY <2>3, <2>4, <3>2, <3>3, <3>5, <3>8, SparedEnv DEF GateInv, EnvInv
  <2>7. CASE docker' = docker /\ (holder' = Free \/ Goto("blocking"))
             /\ ops' \in {ops, Enqueued(revision, "when_idle", "all")}
    <3>1. Spares
      BY <2>2, <2>3, <2>7, StoppedStands, StandingSpares
    <3>2. Follows
      <4>1. revision \in Revisions /\ "when_idle" \in Policies
        BY DEF TypeOK, Policies
      <4>2. CASE ops' = ops
        BY <4>2 DEF Follows, Unfinished
      <4>3. CASE ops' = Enqueued(revision, "when_idle", "all")
        BY <4>1, <4>3, Enqueues, IntentFollows
      <4> QED BY <2>7, <4>2, <4>3
    <3>3. Frozen'
      BY <1>e, <1>f, <2>1, <3>1, <3>2, FrozenStays
    <3>4. holder'.pc \in {"idle", "blocking"}
      BY <1>d, <2>7, GoesTo
    <3>5. AtSteps'
      BY <3>4 DEF AtSteps
    <3> QED BY <2>3, <2>4, <3>1, <3>2, <3>3, <3>5, SparedEnv DEF GateInv, EnvInv
  <2> QED BY <1>5, <2>6, <2>7 DEF FindContainer
<1>6. ASSUME BlockFound \/ RecordIntent
      PROVE  EnvInv'
  <2>1. holder.task = 0 /\ holder.pc \in {"blocking", "recording"}
    BY <1>6, <1>b, <1>c DEF BlockFound, RecordIntent
  <2>2. /\ docker' = docker /\ image' = image /\ work' = work /\ binding' = binding
        /\ row' = RowWith(shown) /\ shown' = shown /\ lease' = lease /\ turn' = turn
        /\ holder' = Free
        /\ ops' \in {ops, Enqueued(revision, "when_idle", "all")}
    BY <1>6 DEF BlockFound, RecordIntent, memory, others, counts
  <2>3. RowMoves /\ SameBinding
    BY <1>0, <1>a, <2>2 DEF RowMoves, SameBinding
  <2>4. Spares
    BY <2>2, <2>3, StoppedStands, StandingSpares
  <2>5. Follows
    <3>1. revision \in Revisions /\ "when_idle" \in Policies
      BY DEF TypeOK, Policies
    <3>2. CASE ops' = ops
      BY <3>2 DEF Follows, Unfinished
    <3>3. CASE ops' = Enqueued(revision, "when_idle", "all")
      BY <3>1, <3>3, Enqueues, IntentFollows
    <3> QED BY <2>2, <3>2, <3>3
  <2>6. Frozen'
    BY <1>e, <1>f, <2>1, <2>4, <2>5, FrozenStays
  <2>7. AtSteps' /\ Leased'
    BY <1>d, <2>1, <2>2 DEF EnvInv, AtSteps, Leased
  <2> QED BY <2>3, <2>4, <2>5, <2>6, <2>7, SparedEnv DEF GateInv, EnvInv
<1>7. ASSUME Adopt \/ AdoptFails
      PROVE  EnvInv'
  <2>1. /\ holder.task = 0 /\ Task = 0 /\ holder.pc = "adopting"
        /\ binding # None \/ (docker[0].state # "absent" /\ shown = 0 /\ row = 0)
    BY <1>7, <1>b, <1>c DEF Adopt, AdoptFails, EnvInv, AtSteps, Exists
  <2>2. Preferred = (IF binding # None THEN binding.generation ELSE 0) /\ Preferred \in Generations
        /\ docker[Preferred].state # "absent" /\ docker[Preferred].layer = work
    BY <1>0, <1>f, <2>1 DEF Preferred, EnvInv, FirstWork
  <2>3. /\ image' = image /\ work' = work /\ turn' = turn /\ ops' = ops
        /\ lease' \in {None, lease, Preferred}
        /\ lease' = Preferred => binding' = [generation |-> Preferred, revision |-> revision]
                                  \/ lease' = lease
        /\ docker' \in {docker, Stopped({Preferred})}
    BY <1>7, <2>2 DEF Adopt, AdoptFails
  <2>4. holder'.pc \in {"idle", "recording"}
    BY <1>7, <1>d, GoesTo DEF Adopt, AdoptFails
  <2>5. Standing
    BY <2>3, StoppedStands
  <2>6. lease # None => binding # None /\ lease = binding.generation
    BY <2>1 DEF EnvInv, Leased
  <2>7. AtSteps'
    BY <2>4 DEF AtSteps
  <2>8. CASE binding' = [generation |-> Preferred, revision |-> revision]
    <3>1. row' = Preferred
      <4>1. binding' = binding => binding # None
        BY <2>2, <2>8, NoneAssumption DEF Bindings, TypeOK
      <4>2. binding' = binding => row = Preferred
        BY <1>0, <2>2, <4>1
      <4> QED BY <1>7, <4>2 DEF Adopt, AdoptFails
    <3>2. binding' # None /\ binding'.generation = Preferred
      <4>1. revision \in Revisions
        BY DEF TypeOK
      <4> QED BY <2>2, <2>8, <4>1, NoneAssumption DEF Bindings
    <3>3. FirstWork' /\ Projected' /\ EnvironmentKept'
      BY <2>2, <2>3, <2>5, <3>1, <3>2 DEF FirstWork, Projected, EnvironmentKept, Standing, Exists
    <3>4. Candidates'
      BY <2>1, <2>2, <2>3, <3>1, <3>2 DEF EnvInv, Candidates, Unfinished
    <3>5. Snapshots'
      BY <2>3, <2>5 DEF EnvInv, Snapshots, Standing, Exists
    <3>6. Frozen'
      BY <1>e, <1>f, <2>1, <2>3 DEF Frozen, Unfinished
    <3>7. Leased'
      BY <2>2, <2>3, <2>6, <3>2 DEF Leased
    <3> QED BY <2>7, <3>3, <3>4, <3>5, <3>6, <3>7 DEF EnvInv
  <2>9. CASE AdoptFails /\ binding' = binding
    <3>1. row' = row /\ shown' = shown /\ lease' = None
      BY <2>9 DEF AdoptFails
    <3>2. RowMoves /\ SameBinding
      BY <1>0, <2>9, <3>1 DEF RowMoves, SameBinding
    <3>3. Spares
      BY <2>3, <2>5, <3>2, StandingSpares
    <3>4. Follows
      BY <2>3 DEF Follows, Unfinished
    <3>5. Frozen'
      BY <1>e, <1>f, <2>1, <3>3, <3>4, FrozenStays
    <3>6. Leased'
      BY <3>1 DEF Leased
    <3> QED BY <2>7, <3>2, <3>3, <3>4, <3>5, <3>6, SparedEnv DEF GateInv, EnvInv
  <2> QED BY <1>7, <2>8, <2>9 DEF Adopt, AdoptFails
<1>8. CASE AssemblyFault
  <2>1. /\ holder.task = 0 /\ Task = 0
        /\ holder.pc \in {"assembling", "saving", "adopting", "recording"}
    BY <1>8, <1>b, <1>c DEF AssemblyFault, Running
  <2>2. /\ ops' = ops /\ image' = image /\ work' = work /\ binding' = binding /\ lease' = lease
        /\ turn' = turn /\ pending' = pending /\ holder' = Free
        /\ docker' \in {docker, Stopped({0})}
        /\ \/ row' = RowWith(shown) /\ shown' = shown
           \/ holder.pc = "saving" /\ row' = 0 /\ shown' = 0
    BY <1>8 DEF AssemblyFault, Running
  <2>3. Standing
    BY <2>2, StoppedStands
  <2>4. AtSteps' /\ Leased'
    BY <1>d, <2>1, <2>2 DEF EnvInv, AtSteps, Leased
  <2>5. CASE row' = RowWith(shown) /\ shown' = shown
    <3>1. RowMoves /\ SameBinding
      BY <1>0, <1>a, <2>2, <2>5 DEF RowMoves, SameBinding
    <3>2. Spares
      BY <2>2, <2>3, <3>1, StandingSpares
    <3>3. Follows
      BY <2>2 DEF Follows, Unfinished
    <3>4. Frozen'
      BY <1>e, <1>f, <2>1, <3>2, <3>3, FrozenStays
    <3> QED BY <2>4, <3>1, <3>2, <3>3, <3>4, SparedEnv DEF GateInv, EnvInv
  <2>6. CASE holder.pc = "saving" /\ row' = 0 /\ shown' = 0
    <3>1. binding = None /\ shown = None /\ docker[0].state # "absent"
      BY <2>6 DEF EnvInv, AtSteps, Exists
    <3>2. row = None /\ ops = <<>>
      BY <3>1 DEF GateInv, Rows, Physical
    <3>3. Candidates'
      BY <2>2, <3>2 DEF Candidates
    <3>4. FirstWork' /\ Snapshots'
      BY <2>2, <2>3, <3>1 DEF EnvInv, FirstWork, Snapshots, Standing, Exists
    <3>5. Projected' /\ EnvironmentKept'
      BY <2>2, <2>3, <2>6, <3>1 DEF Projected, EnvironmentKept, Standing, Exists
    <3>6. Frozen'
      BY <2>2, <3>2 DEF Frozen
    <3> QED BY <2>4, <3>3, <3>4, <3>5, <3>6 DEF EnvInv
  <2> QED BY <2>2, <2>5, <2>6
<1> QED BY <1>1, <1>2, <1>3, <1>4, <1>5, <1>6, <1>7, <1>8 DEF AssemblyStep

\* The end of the server, its recovery, and what a turn changes.
LEMMA ServerEnv ==
    ASSUME TypeOK, Shape, GateInv, EnvInv, TypeOK', GateInv', Restart \/ Recover \/ Work
    PROVE  EnvInv'
<1> USE Ranges
<1>0. binding # None => /\ binding.generation \in Generations /\ row = binding.generation
                        /\ docker[binding.generation].state # "absent"
                        /\ docker[binding.generation].layer = work
  BY DEF EnvInv, EnvironmentKept, Projected, TypeOK, Bindings, Exists
<1>1. CASE Restart \/ Recover
  <2>1. /\ ops' = ops /\ image' = image /\ work' = work /\ binding' = binding /\ row' = row
        /\ shown' \in {shown, row} /\ lease' \in {None, lease} /\ turn' \in {None, turn}
        /\ \E gs : docker' \in {docker, Stopped(gs)}
    BY <1>1 DEF Restart, Recover, tables, memory, counts
  <2>2. holder' = Free /\ holder'.task = None /\ holder'.pc = "idle"
    BY <1>1 DEF Restart, Recover, GateInv, Idle, Free
  <2>3. Spares
    BY <2>1, StoppedStands, StandingSpares DEF SameBinding
  <2>4. RowMoves
    BY <1>0, <2>1 DEF RowMoves
  <2>5. Follows
    BY <2>1 DEF Follows, Unfinished
  <2>6. Frozen'
    <3>1. ASSUME NEW o \in DOMAIN ops, Unfinished(o), image[o] # None
          PROVE  pending' # None /\ turn' = None /\ holder'.task \in {None, o}
      <4>1. pending # None /\ turn = None
        BY <3>1 DEF EnvInv, Frozen
      <4>2. CASE Recover
        BY <2>1, <2>2, <4>1, <4>2 DEF Recover, memory
      <4>3. CASE Restart
        <5>1. o = Len(ops) /\ ops # <<>> /\ ops[o] \in Receipt
          BY <3>1, Tables, Sequence DEF GateInv, OnlyLatest, TypeOK
        <5>2. LatestPhase \notin {"none", "succeeded", "superseded"}
          BY <3>1, <5>1 DEF LatestPhase, Unfinished, Terminal, Receipt, Phases
        <5>3. pending' = ops[Len(ops)].target
          BY <4>3, <5>2 DEF Restart
        <5>4. pending' # None
          BY <5>1, <5>3 DEF Receipt
        <5> QED BY <2>1, <2>2, <4>1, <5>4
      <4> QED BY <1>1, <4>2, <4>3
    <3> QED BY <2>3, <2>5, <3>1, FrozenStays
  <2>7. AtSteps'
    BY <2>2 DEF AtSteps
  <2>8. Leased'
    <3>1. lease' # None => binding # None /\ lease = binding.generation
      BY <1>1, <2>1 DEF Restart, Recover, memory, GateInv, Idle
    <3> QED BY <2>1, <3>1 DEF Leased
  <2> QED BY <2>3, <2>4, <2>5, <2>6, <2>7, <2>8, SparedEnv DEF GateInv, EnvInv
<1>2. CASE Work
  <2>1. /\ turn # None /\ lease = turn /\ work' = work + 1
        /\ ops' = ops /\ image' = image /\ binding' = binding /\ row' = row
        /\ shown' = shown /\ lease' = lease /\ turn' = turn /\ holder' = holder
        /\ docker' = [docker EXCEPT ![turn].layer = work']
    BY <1>2 DEF Work, tables, memory
  <2>2. ASSUME NEW o \in DOMAIN ops, Unfinished(o), image[o] # None PROVE FALSE
    BY <2>1, <2>2 DEF EnvInv, Frozen
  <2>3. binding # None /\ turn = binding.generation
    <3>1. ASSUME holder.pc \in {"publishing", "superseding", "failing"}, image[Task] # None
          PROVE  FALSE
      <4>1. Task \in DOMAIN ops /\ Unfinished(Task)
        <5>1. holder.task \in DOMAIN ops
          BY <3>1 DEF Shape, Free, AssemblySteps
        <5> QED BY <3>1, <5>1 DEF GateInv, HeldGate, Task, Over
      <4> QED BY <2>2, <3>1, <4>1
    <3> QED BY <2>1, <3>1 DEF EnvInv, Leased
  <2> DEFINE c == [docker[turn] EXCEPT !.layer = work']
  <2>4. docker' = [docker EXCEPT ![turn] = c]
    BY <2>1
  <2>5. c.layer = work' /\ c.state = docker[turn].state
    <3>1. docker[turn] \in Containers
      BY <1>0, <2>3 DEF TypeOK
    <3> QED BY <3>1 DEF Containers
  <2> HIDE DEF c
  <2>6. /\ \A g \in Generations : docker'[g].state = docker[g].state
        /\ docker'[turn].layer = work'
    BY <1>0, <2>3, <2>4, <2>5 DEF TypeOK
  <2>7. FirstWork' /\ Candidates' /\ Projected' /\ Snapshots'
    BY <2>1, <2>3, <2>6
       DEF EnvInv, FirstWork, Candidates, Projected, Snapshots, Exists, Unfinished
  <2>8. Frozen'
    BY <2>1, <2>2 DEF Frozen, Unfinished
  <2>9. EnvironmentKept'
    BY <1>0, <2>1, <2>3, <2>6 DEF EnvironmentKept, Exists
  <2>10. Task' = Task /\ (Exists(0)' <=> Exists(0)) /\ (Task \in Generations
         => (Exists(Task)' <=> Exists(Task)))
    BY <2>1, <2>6 DEF Exists, Task
  <2>11. AtSteps'
    <3>1. holder.pc \in {"created", "rebinding", "publishing"} => Task \in Generations
      <4>1. ASSUME holder.pc \in {"created", "rebinding", "publishing"} PROVE Task \in Generations
        <5>1. holder.task \in DOMAIN ops
          BY <4>1 DEF Shape, Free, AssemblySteps
        <5> QED BY <5>1, Tables DEF Task
      <4> QED BY <4>1
    <3> QED BY <2>1, <2>10, <3>1 DEF EnvInv, AtSteps
  <2>12. Leased'
    BY <2>1, <2>3 DEF Leased
  <2> QED BY <2>7, <2>8, <2>9, <2>11, <2>12 DEF EnvInv
<1> QED BY <1>1, <1>2

\* It holds initially, with or without a container, and is kept by every step.
LEMMA EnvInit == Init => EnvInv
<1> SUFFICES ASSUME Init PROVE EnvInv
  OBVIOUS
<1>1. ops = <<>> /\ DOMAIN ops = {} /\ Free.pc = "idle" /\ Free.task = None
  BY DEF Init, Free
<1>2. \A g \in Generations : /\ docker[g].layer = 0
                             /\ docker[g].state = IF g = 0 /\ row = 0 THEN "running" ELSE "absent"
  BY DEF Init
<1> QED BY <1>1, <1>2, Ranges DEF Init, EnvInv, FirstWork, Candidates, Projected, Snapshots, Frozen,
        AtSteps, Leased, EnvironmentKept, Exists

LEMMA EnvStep == TypeOK /\ Shape /\ GateInv /\ EnvInv /\ [Next]_vars => EnvInv'
<1> SUFFICES ASSUME TypeOK, Shape, GateInv, EnvInv, [Next]_vars PROVE EnvInv'
  OBVIOUS
<1>1. TypeOK' /\ GateInv'
  BY TypesStep, GateStep
<1>2. CASE Next
  BY <1>1, <1>2, OperationProceeds, OperationEnv1, OperationEnv2, OperationEnv3, EndsEnv,
     RequestsEnv,
     BeginEnv, AssemblyEnv, ServerEnv DEF Next, OperationStep, AssemblyStep
<1>3. CASE UNCHANGED vars
  BY <1>3 DEF vars, tables, counts, EnvInv, FirstWork, Candidates, Projected, Snapshots, Frozen,
     AtSteps, Leased, EnvironmentKept, Unfinished, Exists, Task
<1> QED BY <1>2, <1>3

\* Whatever fails, is superseded or is cut off by an end of the server, the
\* container of the binding exists with every change turns have made.
THEOREM EnvironmentIsKept == Spec => []EnvironmentKept
<1>1. Init => TypeOK /\ Shape /\ GateInv /\ EnvInv
  BY TypesInit, GateInit, EnvInit
<1>2. TypeOK /\ Shape /\ GateInv /\ EnvInv /\ [Next]_vars => (TypeOK /\ Shape /\ GateInv /\ EnvInv)'
  BY TypesStep, GateStep, EnvStep
<1>3. EnvInv => EnvironmentKept
  BY DEF EnvInv
<1> QED BY <1>1, <1>2, <1>3, PTL DEF Spec

-----------------------------------------------------------------------------
(***************************************************************************)
(* The turns.                                                              *)
(***************************************************************************)
\* A candidate mounts what its operation is to apply, the container of the
\* binding what its revision says.
CandidateMounts == \A o \in DOMAIN ops : Exists(o) => docker[o].mounts = mounts[ops[o].target]
BindingMounts == binding # None => docker[binding.generation].mounts = mounts[binding.revision]

\* What an operation, and an assembly, has found in the container it keeps.
AtMounts ==
    /\ holder.pc \in {"same", "same_publish"}
       => docker[binding.generation].mounts = mounts[Own.target]
    /\ holder.pc \in AssemblySteps => holder.read <= revision
    /\ holder.pc = "saving" => docker[0].state = "running" /\ docker[0].mounts = mounts[holder.read]
    /\ holder.pc = "adopting" => /\ docker[Preferred].state = "running"
                                 /\ docker[Preferred].mounts = mounts[holder.read]

\* Who has a lease, and who has none.
AtLease ==
    /\ holder.pc \in Applying \cup {"same_publish"} => lease = binding.generation
    /\ holder.pc = "snapshotting" => lease = None
    /\ holder.task = 0 => lease = None /\ tools = None

\* A leased container runs.
LeaseRuns == lease # None => docker[lease].state = "running"

\* While the gate is open the leased container has the latest configuration, but
\* for one just saved whose request is still to close the gate.
Current == pending = None /\ lease # None =>
               binding # None /\ (binding.revision = revision \/ Window)

\* The tools are those of the leased container, but while an operation that has
\* not assembled them again keeps the gate closed.
Resident == tools # None => tools = lease \/ pending # None
Assembled == tools # None /\ lease # None /\ tools # lease =>
                \/ holder.pc \in {"publishing", "activating", "superseding", "failing"}
                \/ holder.pc = "same_publish" /\ ~holder.resident

\* What is invariant of mounts, leases and tools.
TurnInv == /\ CandidateMounts /\ BindingMounts /\ AtMounts /\ AtLease /\ LeaseRuns /\ Current
           /\ Resident /\ Assembled

-----------------------------------------------------------------------------
\* Every container there is after a step was there before, with its mounts.
SameContainers == \A g \in Generations : docker'[g].state # "absent" =>
                      docker[g].state # "absent" /\ docker'[g].mounts = docker[g].mounts

\* What is mounted stays so while the binding does.
LEMMA MountsKept ==
    ASSUME TypeOK, TypeOK', GateInv, EnvInv, EnvInv', TurnInv, Follows, SameContainers,
           binding' = binding, \A r \in Revisions : r <= revision => mounts'[r] = mounts[r]
    PROVE  CandidateMounts' /\ BindingMounts'
<1> USE Ranges
<1>1. ASSUME NEW o \in DOMAIN ops', docker'[o].state # "absent"
      PROVE  docker'[o].mounts = mounts'[ops'[o].target]
  <2>1. o \in Operations /\ o \in Generations
    BY LaterTables
  <2>2. docker[o].state # "absent" /\ docker'[o].mounts = docker[o].mounts
    BY <1>1, <2>1 DEF SameContainers
  <2>3. o \in DOMAIN ops
    BY <2>1, <2>2 DEF EnvInv, Snapshots, Exists
  <2>4. ops'[o].target = ops[o].target /\ ops[o].target <= revision /\ ops[o].target \in Revisions
    BY <2>3, Tables DEF Follows, GateInv, Targets, Receipt
  <2> QED BY <2>2, <2>3, <2>4 DEF TurnInv, CandidateMounts, Exists
<1>2. CandidateMounts'
  BY <1>1 DEF CandidateMounts, Exists
<1>3. BindingMounts'
  <2>1. CASE binding # None
    <3>1. binding.generation \in Generations /\ binding.revision \in Revisions
          /\ binding.revision <= revision
      BY <2>1 DEF TypeOK, Bindings, GateInv, Targets
    <3>2. docker'[binding.generation].state # "absent"
      BY <2>1 DEF EnvInv, EnvironmentKept, Exists
    <3> QED BY <2>1, <3>1, <3>2 DEF SameContainers, TurnInv, BindingMounts
  <2> QED BY <2>1 DEF BindingMounts
<1> QED BY <1>2, <1>3

\* Stopping, removing and starting make no container.
LEMMA StoppedSame ==
    ASSUME TypeOK, NEW gs, docker' \in {docker, Stopped(gs), Removed(gs)}
    PROVE  SameContainers
BY DockerType DEF SameContainers

LEMMA StartedSame ==
    ASSUME TypeOK, NEW g \in Generations, docker[g].state # "absent",
           docker' = [docker EXCEPT ![g].state = "running"]
    PROVE  /\ SameContainers /\ docker'[g].state = "running" /\ docker'[g].mounts = docker[g].mounts
           /\ \A h \in Generations \ {g} : docker'[h] = docker[h]
<1> DEFINE c == [docker[g] EXCEPT !.state = "running"]
<1>1. docker[g] \in Containers /\ docker \in [Generations -> Containers]
  BY DEF TypeOK
<1>2. c.mounts = docker[g].mounts /\ c.state = "running"
  BY <1>1 DEF Containers
<1>3. docker' = [docker EXCEPT ![g] = c]
  OBVIOUS
<1> HIDE DEF c
<1> QED BY <1>1, <1>2, <1>3 DEF SameContainers

\* What a step of an operation is to show; the gate is closed.
LEMMA OperationTurn ==
    ASSUME TypeOK, GateInv, TurnInv, Proceeds, CandidateMounts', BindingMounts', LeaseRuns',
           Assembled',
           holder'.pc \in {"same", "same_publish"} =>
               docker'[binding'.generation].mounts = mounts'[Own.target],
           holder'.pc \in Applying \cup {"same_publish"} => lease' = binding'.generation,
           holder'.pc = "snapshotting" => lease' = None
    PROVE  TurnInv'
<1>1. pending' # None /\ holder'.task \in DOMAIN ops /\ holder'.task # 0
      /\ holder'.pc \in OperationSteps /\ holder'.receipt.target = Own.target
  <2>1. pending # None
    BY DEF GateInv, HeldGate, Proceeds, Task
  <2> QED BY <2>1, Tables, Ranges DEF Proceeds
<1>2. holder'.pc \notin AssemblySteps /\ holder'.pc # "saving" /\ holder'.pc # "adopting"
  BY <1>1 DEF OperationSteps, AssemblySteps, Fallible
<1>3. AtMounts'
  BY <1>1, <1>2 DEF AtMounts, Own
<1>4. AtLease'
  BY <1>1 DEF AtLease
<1>5. Current' /\ Resident'
  BY <1>1 DEF Current, Resident
<1> QED BY <1>3, <1>4, <1>5 DEF TurnInv

\* A step that touches neither containers, binding, lease nor tools.
LEMMA QuietTurn ==
    ASSUME TypeOK, TypeOK', GateInv, EnvInv, EnvInv', TurnInv, Proceeds,
           docker' = docker, mounts' = mounts, binding' = binding, lease' = lease, tools' = tools,
           holder'.pc \notin {"same_publish", "snapshotting"},
           holder'.pc = "same" => docker[binding.generation].mounts = mounts[Own.target],
           holder'.pc \in Applying => holder.pc \in Applying,
           holder.pc \in {"publishing", "superseding", "failing", "activating", "same_publish"} =>
               holder'.pc \in {"superseding", "failing", "activating"}
    PROVE  TurnInv'
<1>1. SameContainers
  BY DEF SameContainers
<1>2. CandidateMounts' /\ BindingMounts'
  BY <1>1, ProceedsFollows, MountsKept
<1>3. LeaseRuns' /\ Assembled'
  BY DEF TurnInv, LeaseRuns, Assembled
<1>4. holder'.pc \in Applying \cup {"same_publish"} => lease' = binding'.generation
  BY DEF TurnInv, AtLease
<1> QED BY <1>2, <1>3, <1>4, OperationTurn

\* The steps that only look, wait or save.
LEMMA OperationTurn1 ==
    ASSUME TypeOK, Shape, GateInv, EnvInv, TurnInv, TypeOK', EnvInv', Proceeds,
           \/ ReadConfiguration \/ WaitIdle \/ Drain \/ SaveCandidate \/ Succeed \/ SaveSuperseded
           \/ Fault
    PROVE  TurnInv'
<1> USE StepNames, OverNames
<1>1. /\ docker' = docker /\ mounts' = mounts /\ binding' = binding
      /\ lease' = lease /\ tools' = tools
  BY DEF ReadConfiguration, WaitIdle, Drain, SaveCandidate, Succeed, SaveSuperseded, Fault,
         tables, memory
<1>2. ASSUME holder'.pc = "same" PROVE docker[binding.generation].mounts = mounts[Own.target]
  <2>1. ReadConfiguration /\ holder.pc = "read"
    BY <1>2, QuietSteps DEF ReadConfiguration, Running
  <2>2. ~Save("superseded", "yielding")
    BY <1>2, SavesTo
  <2>3. ~Goto("superseding")
    BY <1>2, GoesTo
  <2>4. ~Goto("failing") /\ ~Goto("waiting") /\ ~Goto("draining")
    BY <1>2, GoesTo
  <2> QED BY <2>1, <2>2, <2>3, <2>4 DEF ReadConfiguration
<1>3. /\ holder'.pc \notin {"same_publish", "snapshotting"}
      /\ holder'.pc \in Applying => holder.pc \in Applying
      /\ holder.pc \in {"publishing", "superseding", "failing", "activating", "same_publish"} =>
           holder'.pc \in {"superseding", "failing", "activating"}
  BY QuietSteps DEF Applying
<1> QED BY <1>1, <1>2, <1>3, QuietTurn

\* The steps that lease, revoke, start, stop or remove.
LEMMA OperationTurn2 ==
    ASSUME TypeOK, Shape, GateInv, EnvInv, TurnInv, TypeOK', EnvInv', Proceeds,
           \/ KeepEnvironment \/ PublishSame \/ Quiesce \/ Rebind \/ Activate
           \/ Supersede \/ Fail \/ RemoveOld \/ Retire
    PROVE  TurnInv'
<1> USE StepNames, OverNames, Ranges
<1>0. binding # None => /\ binding \in Bindings /\ binding.generation \in Generations
                        /\ binding.generation # None /\ docker[binding.generation].state # "absent"
  BY DEF EnvInv, EnvironmentKept, TypeOK, Bindings, Exists
<1>a. Follows /\ revision' = revision
  BY ProceedsFollows DEF Proceeds
<1>1. CASE KeepEnvironment
  <2>1. /\ holder.pc = "same" /\ binding # None
    BY <1>1 DEF KeepEnvironment, Running, Shape
  <2>2. /\ mounts' = mounts /\ binding' = binding /\ tools' = tools /\ lease' = binding.generation
    BY <1>1 DEF KeepEnvironment, tables
  <2>3. holder'.pc = "same_publish" /\ holder'.resident = (lease = binding.generation)
    <3>1. holder' = [holder EXCEPT !.pc = "same_publish", !.resident = lease = binding.generation]
      BY <1>1 DEF KeepEnvironment
    <3> QED BY <3>1 DEF TypeOK, Holders
  <2>4. SameContainers /\ docker'[binding.generation].state = "running"
        /\ docker'[binding.generation].mounts = docker[binding.generation].mounts
    <3>1. CASE lease = binding.generation
      <4>1. docker' = docker
        BY <1>1, <3>1 DEF KeepEnvironment
      <4> QED BY <1>0, <2>1, <3>1, <4>1, StoppedSame DEF TurnInv, LeaseRuns
    <3>2. CASE lease # binding.generation
      <4>1. docker' = [docker EXCEPT ![binding.generation].state = "running"]
        BY <1>1, <3>2 DEF KeepEnvironment
      <4> QED BY <1>0, <2>1, <4>1, StartedSame
    <3> QED BY <3>1, <3>2
  <2>5. CandidateMounts' /\ BindingMounts'
    BY <1>a, <2>2, <2>4, MountsKept
  <2>6. LeaseRuns'
    BY <2>2, <2>4 DEF LeaseRuns
  <2>7. Assembled'
    BY <1>0, <2>1, <2>2, <2>3 DEF TurnInv, Assembled
  <2>8. docker'[binding'.generation].mounts = mounts'[Own.target]
    BY <2>1, <2>2, <2>4 DEF TurnInv, AtMounts
  <2> QED BY <2>2, <2>3, <2>5, <2>6, <2>7, <2>8, OperationTurn
<1>2. CASE PublishSame
  <2>1. /\ holder.pc = "same_publish" /\ binding # None /\ lease = binding.generation
        /\ docker[binding.generation].mounts = mounts[Own.target]
    BY <1>2 DEF PublishSame, Running, Shape, TurnInv, AtLease, AtMounts
  <2>2. docker' = docker /\ mounts' = mounts
    BY <1>2 DEF PublishSame
  <2>3. CASE binding' = binding /\ lease' = lease /\ tools' = tools /\ Goto("failing")
    BY <2>1, <2>2, <2>3, GoesTo, QuietTurn
  <2>4. CASE /\ binding' = [binding EXCEPT !.revision = Own.target]
             /\ lease' = binding.generation
             /\ tools' = IF holder.resident \/ tools = None THEN tools ELSE binding.generation
             /\ Goto("retiring")
    <3>1. Own.target \in Revisions
      BY <1>2, AtOperation DEF PublishSame, Receipt
    <3>2. LET b == [binding EXCEPT !.revision = Own.target]
          IN b # None /\ b.generation = binding.generation /\ b.revision = Own.target
      BY <1>0, <2>1, <3>1, NoneAssumption DEF Bindings
    <3>3. binding' # None /\ binding'.generation = binding.generation
          /\ binding'.revision = Own.target
      BY <2>4, <3>2
    <3>4. BindingMounts'
      BY <2>1, <2>2, <3>3 DEF BindingMounts
    <3>5. CandidateMounts'
      <4>1. ops' = ops
        BY <1>2 DEF PublishSame
      <4> QED BY <2>2, <4>1 DEF TurnInv, CandidateMounts, Exists
    <3>6. LeaseRuns'
      BY <2>1, <2>2, <2>4 DEF TurnInv, LeaseRuns
    <3>7. Assembled'
      BY <2>1, <2>4 DEF TurnInv, Assembled
    <3>8. holder'.pc = "retiring"
      BY <2>4, GoesTo
    <3> QED BY <2>4, <3>3, <3>4, <3>5, <3>6, <3>7, <3>8, OperationTurn
  <2> QED BY <1>2, <2>3, <2>4 DEF PublishSame
<1>3. CASE Quiesce \/ Supersede \/ Fail
  <2>1. mounts' = mounts /\ binding' = binding /\ lease' = None
    BY <1>3 DEF Quiesce, Supersede, Fail, tables
  <2>2. SameContainers
    BY <1>3, StoppedSame DEF Quiesce, Supersede, Fail
  <2>3. holder'.pc \in {"failing", "snapshotting", "superseded", "failed"}
    BY <1>3, GoesTo DEF Quiesce, Supersede, Fail
  <2>4. CandidateMounts' /\ BindingMounts'
    BY <1>a, <2>1, <2>2, MountsKept
  <2>5. LeaseRuns' /\ Assembled'
    BY <2>1 DEF LeaseRuns, Assembled
  <2> QED BY <2>1, <2>3, <2>4, <2>5, OperationTurn DEF Applying
<1>4. CASE Rebind
  <2>1. Task \in Generations /\ holder.pc = "rebinding"
    BY <1>4, AtOperation DEF Rebind
  <2>2. docker[Task].state # "absent"
    BY <2>1 DEF EnvInv, AtSteps, Exists
  <2>3. /\ mounts' = mounts /\ binding' = binding /\ lease' = Task
        /\ docker' = [docker EXCEPT ![Task].state = "running"]
    BY <1>4 DEF Rebind
  <2>4. holder'.pc = "publishing"
    BY <1>4, SavesTo DEF Rebind
  <2>5. SameContainers /\ docker'[Task].state = "running"
    BY <2>1, <2>2, <2>3, StartedSame
  <2>6. CandidateMounts' /\ BindingMounts'
    BY <1>a, <2>3, <2>5, MountsKept
  <2>7. LeaseRuns' /\ Assembled'
    BY <2>3, <2>4, <2>5 DEF LeaseRuns, Assembled
  <2> QED BY <2>4, <2>6, <2>7, OperationTurn DEF Applying
<1>5. CASE Activate
  <2>1. /\ holder.pc = "activating" /\ holder.pc \in Applying
    BY <1>5 DEF Activate, Running
  <2>2. /\ docker' = docker /\ mounts' = mounts /\ binding' = binding /\ lease' = lease
        /\ tools' \in {None, Task}
    BY <1>5 DEF Activate
  <2>3. holder'.pc = "cleaning"
    BY <1>5, SavesTo DEF Activate
  <2>4. lease = binding.generation /\ binding.generation = Task
    BY <2>1 DEF TurnInv, AtLease, EnvInv, AtSteps
  <2>5. CandidateMounts' /\ BindingMounts'
    BY <1>a, <2>2, StoppedSame, MountsKept
  <2>6. LeaseRuns' /\ Assembled'
    BY <2>2, <2>4 DEF TurnInv, LeaseRuns, Assembled
  <2> QED BY <2>2, <2>3, <2>4, <2>5, <2>6, OperationTurn
<1>6. CASE RemoveOld \/ Retire
  <2>1. /\ holder.pc \in {"cleaning", "retiring"} /\ holder.pc \in Applying /\ binding # None
        /\ lease = binding.generation
    <3>1. holder.pc \in {"cleaning", "retiring"}
      BY <1>6 DEF RemoveOld, Retire, Running
    <3> QED BY <3>1 DEF TurnInv, AtLease, Shape
  <2>2. mounts' = mounts /\ binding' = binding /\ lease' = lease /\ tools' = tools
    BY <1>6 DEF RemoveOld, Retire, tables, memory
  <2>3. holder'.pc \in {"retiring", "succeeding"}
    <3>1. CASE RemoveOld
      BY <3>1, GoesTo DEF RemoveOld
    <3>2. CASE Retire
      BY <3>2, GoesTo DEF Retire, Running
    <3> QED BY <1>6, <3>1, <3>2
  <2>4. PICK gs : docker' \in {docker, Removed(gs)} /\ binding.generation \notin gs
    <3>1. CASE RemoveOld
      <4>1. binding.generation = Task
        BY <3>1 DEF RemoveOld, Running, EnvInv, AtSteps
      <4> QED BY <3>1, <4>1 DEF RemoveOld
    <3>2. CASE Retire
      <4>1. CASE docker' = docker
        <5>1. binding.generation \notin {}
          OBVIOUS
        <5> QED BY <4>1, <5>1
      <4>2. ASSUME NEW o \in DOMAIN ops, docker' = Removed(Leftovers(o))
            PROVE  \E gs : docker' \in {docker, Removed(gs)} /\ binding.generation \notin gs
        <5>1. binding.generation \notin Leftovers(o)
          BY DEF Leftovers
        <5> QED BY <4>2, <5>1
      <4> QED BY <3>2, <4>1, <4>2 DEF Retire
    <3> QED BY <1>6, <3>1, <3>2
  <2>5. SameContainers /\ docker'[binding.generation] = docker[binding.generation]
    BY <1>0, <2>1, <2>4, StoppedSame, DockerType
  <2>6. CandidateMounts' /\ BindingMounts'
    BY <1>a, <2>2, <2>5, MountsKept
  <2>7. LeaseRuns' /\ Assembled'
    BY <2>1, <2>2, <2>5 DEF TurnInv, LeaseRuns, Assembled
  <2> QED BY <2>1, <2>2, <2>3, <2>6, <2>7, OperationTurn
<1> QED BY <1>1, <1>2, <1>3, <1>4, <1>5, <1>6

\* The steps that take the snapshot, make the candidate and publish it.
LEMMA OperationTurn3 ==
    ASSUME TypeOK, Shape, GateInv, EnvInv, TurnInv, TypeOK', EnvInv', Proceeds,
           Snapshot \/ CreateCandidate \/ Publish
    PROVE  TurnInv'
<1> USE StepNames, OverNames, Ranges
<1>a. Follows /\ DOMAIN ops \subseteq Operations
  BY ProceedsFollows, Tables
<1>1. CASE Snapshot
  <2>1. holder.pc = "snapshotting" /\ lease = None
    BY <1>1 DEF Snapshot, Running, TurnInv, AtLease
  <2>2. mounts' = mounts /\ binding' = binding /\ lease' = lease
    BY <1>1 DEF Snapshot, tables, memory
  <2>3. SameContainers
    BY <1>1, StoppedSame DEF Snapshot
  <2>4. holder'.pc \in {"creating", "failing"}
    BY <1>1, GoesTo DEF Snapshot
  <2>5. CandidateMounts' /\ BindingMounts'
    BY <1>a, <2>2, <2>3, MountsKept
  <2>6. LeaseRuns' /\ Assembled'
    BY <2>1, <2>2 DEF LeaseRuns, Assembled
  <2> QED BY <2>4, <2>5, <2>6, OperationTurn DEF Applying
<1>2. CASE CreateCandidate
  <2>1. /\ Task \in DOMAIN ops /\ Task \in Operations /\ Task \in Generations
        /\ Own \in Receipt /\ SameReceipt(Own, ops[Task]) /\ holder.pc = "creating"
    BY <1>2, AtOperation DEF CreateCandidate
  <2>2. mounts' = mounts /\ binding' = binding /\ lease' = lease /\ tools' = tools
    BY <1>2 DEF CreateCandidate, memory
  <2>3. holder'.pc = "created"
    BY <1>2, SavesTo DEF CreateCandidate
  <2>4. CASE Exists(Task)
    <3>1. docker' = docker
      BY <1>2, <2>4 DEF CreateCandidate
    <3> QED BY <2>1, <2>2, <2>3, <3>1, QuietTurn DEF Applying
  <2>5. CASE ~Exists(Task)
    <3> DEFINE c == [state |-> "running", layer |-> image[Task], mounts |-> mounts[Own.target]]
    <3>1. docker' = [docker EXCEPT ![Task] = c]
      BY <1>2, <2>5 DEF CreateCandidate
    <3>2. c.state = "running" /\ c.mounts = mounts[Own.target]
      OBVIOUS
    <3> HIDE DEF c
    <3>3. \A g \in Generations : docker'[g] = IF g = Task THEN c ELSE docker[g]
      BY <3>1 DEF TypeOK
    <3>4. docker[Task].state = "absent"
      BY <2>5 DEF Exists
    <3>5. ASSUME NEW o \in DOMAIN ops', docker'[o].state # "absent"
          PROVE  docker'[o].mounts = mounts'[ops'[o].target]
      <4>1. o \in Operations /\ o \in Generations
        BY LaterTables
      <4>2. CASE o = Task
        <5>1. ops'[o].target = Own.target
          BY <1>a, <2>1, <4>2 DEF Follows, SameReceipt
        <5> QED BY <2>2, <3>2, <3>3, <4>1, <4>2, <5>1
      <4>3. CASE o # Task
        <5>1. docker'[o] = docker[o]
          BY <3>3, <4>1, <4>3
        <5>2. o \in DOMAIN ops
          BY <3>5, <4>1, <5>1 DEF EnvInv, Snapshots, Exists
        <5>3. ops'[o].target = ops[o].target
          BY <1>a, <5>2 DEF Follows
        <5> QED BY <2>2, <3>5, <5>1, <5>2, <5>3 DEF TurnInv, CandidateMounts, Exists
      <4> QED BY <4>2, <4>3
    <3>6. CandidateMounts'
      BY <3>5 DEF CandidateMounts, Exists
    <3>7. BindingMounts'
      <4>1. binding # None => /\ binding.generation \in Generations
                              /\ docker[binding.generation].state # "absent"
        BY DEF EnvInv, EnvironmentKept, TypeOK, Bindings, Exists
      <4> QED BY <2>2, <3>3, <3>4, <4>1 DEF TurnInv, BindingMounts
    <3>8. LeaseRuns'
      <4>1. lease # None => lease \in Generations
        BY DEF TypeOK
      <4>2. lease # None => docker[lease].state = "running"
        BY DEF TurnInv, LeaseRuns
      <4>3. lease # Task \/ lease = None
        BY <3>4, <4>2
      <4> QED BY <2>2, <3>3, <4>1, <4>2, <4>3 DEF LeaseRuns
    <3>9. Assembled'
      BY <2>1, <2>2 DEF TurnInv, Assembled
    <3> QED BY <2>3, <3>6, <3>7, <3>8, <3>9, OperationTurn DEF Applying
  <2> QED BY <2>4, <2>5
<1>3. CASE Publish
  <2>1. /\ Task \in DOMAIN ops /\ Task \in Operations /\ Task \in Generations /\ Task # None
        /\ Own \in Receipt /\ SameReceipt(Own, ops[Task]) /\ holder.pc = "publishing"
    BY <1>3, AtOperation DEF Publish
  <2>2. docker' = docker /\ mounts' = mounts /\ lease' = lease /\ tools' = tools /\ ops' = ops
    BY <1>3 DEF Publish, memory
  <2>3. lease = Task /\ docker[Task].state # "absent"
    BY <2>1 DEF EnvInv, AtSteps, Exists
  <2>4. CASE binding' = binding /\ Goto("superseding")
    <3>1. holder'.pc = "superseding"
      BY <2>4, GoesTo
    <3> QED BY <2>1, <2>2, <2>4, <3>1, QuietTurn DEF Applying
  <2>5. CASE binding' = [generation |-> Task, revision |-> Own.target] /\ Goto("activating")
    <3>1. holder'.pc = "activating"
      BY <2>5, GoesTo
    <3>2. binding' # None /\ binding'.generation = Task /\ binding'.revision = Own.target
      BY <2>1, <2>5, NoneAssumption DEF Bindings, Receipt
    <3>3. CandidateMounts'
      BY <2>2 DEF TurnInv, CandidateMounts, Exists
    <3>4. BindingMounts'
      <4>1. docker[Task].mounts = mounts[Own.target]
        BY <2>1, <2>3 DEF TurnInv, CandidateMounts, Exists, SameReceipt
      <4> QED BY <2>2, <3>2, <4>1 DEF BindingMounts
    <3>5. LeaseRuns' /\ Assembled'
      BY <2>2, <3>1 DEF TurnInv, LeaseRuns, Assembled
    <3> QED BY <2>2, <2>3, <3>1, <3>2, <3>3, <3>4, <3>5, OperationTurn
  <2> QED BY <1>3, <2>4, <2>5 DEF Publish
<1> QED BY <1>1, <1>2, <1>3

\* The end of an operation: the gate opens to the latest configuration only.
LEMMA EndsTurn ==
    ASSUME TypeOK, Shape, GateInv, EnvInv, TurnInv, TypeOK', GateInv', EnvInv',
           Open \/ Yield \/ SaveFailed
    PROVE  TurnInv'
<1> USE StepNames, Ranges
<1>1. \E pc \in {"opening", "yielding", "failed"} : Running(pc)
  BY DEF Open, Yield, SaveFailed
<1>2. /\ Task \in DOMAIN ops /\ pending # None /\ holder.pc \in {"opening", "yielding", "failed"}
      /\ Own \in Receipt /\ SameReceipt(Own, ops[Task])
  BY <1>1, AtOperation
<1>3. /\ holder'.task = None /\ holder'.pc = "idle" /\ 0 # None
      /\ docker' = docker /\ binding' = binding /\ lease' = lease /\ tools' = tools
      /\ mounts' = mounts /\ revision' = revision /\ request' = request
  BY DEF Open, Yield, SaveFailed, Done, tables, memory, Free
<1>4. CandidateMounts'
  <2>1. CASE ops' = ops
    BY <1>3, <2>1 DEF TurnInv, CandidateMounts, Exists
  <2>2. CASE ops' # ops
    <3> DEFINE receipt == [Own EXCEPT !.phase = "failed"]
    <3>1. receipt \in Receipt /\ receipt.target = ops[Task].target
      BY <1>2 DEF Receipt, SameReceipt
    <3>2. ops' = [ops EXCEPT ![Task] = receipt] /\ ops \in Seq(Receipt)
      BY <2>2 DEF Open, Yield, SaveFailed, TypeOK, tables
    <3> HIDE DEF receipt
    <3>3. DOMAIN ops' = DOMAIN ops /\ \A o \in DOMAIN ops : ops'[o].target = ops[o].target
      BY <1>2, <3>1, <3>2
    <3> QED BY <1>3, <3>3 DEF TurnInv, CandidateMounts, Exists
  <2> QED BY <2>1, <2>2
<1>5. BindingMounts' /\ LeaseRuns'
  BY <1>3 DEF TurnInv, BindingMounts, LeaseRuns
<1>6. AtMounts' /\ AtLease'
  BY <1>3 DEF AtMounts, AtLease, AssemblySteps, Applying
<1>7. tools # None /\ lease # None => tools = lease
  BY <1>2 DEF TurnInv, Assembled
<1>8. Assembled'
  BY <1>3, <1>7 DEF Assembled
<1>9. Current' /\ Resident'
  <2>1. CASE ~Open
    <3>1. pending' = pending
      BY <2>1 DEF Open, Yield, SaveFailed, memory
    <3> QED BY <1>2, <3>1 DEF Current, Resident
  <2>2. CASE Open
    <3>1. holder.pc = "opening" /\ pending' = Published(Own.target)
      BY <2>2 DEF Open, Running
    <3>2. binding # None /\ lease = binding.generation /\ lease # None
      <4>1. binding # None /\ lease = binding.generation
        BY <3>1 DEF Shape, TurnInv, AtLease, Applying
      <4> QED BY <4>1 DEF TypeOK, Bindings
    <3>3. pending' = None => binding.revision = revision \/ Window
      <4>1. /\ binding.revision >= Own.target /\ binding.revision <= revision
            /\ binding.revision < revision => Window \/ pending >= revision
        BY <3>1, <3>2 DEF GateInv, Applied, Applying, Targets
      <4>2. /\ binding.revision \in Nat /\ revision \in Nat /\ pending \in Nat
            /\ Own.target \in Nat /\ Own.target \in Revisions
        BY <1>2, <3>2 DEF TypeOK, Bindings, Receipt
      <4>3. pending > Own.target => pending' = pending
        BY <1>2, <3>1, <4>2, Gates
      <4>4. binding.revision < revision => Window \/ pending > Own.target
        BY <4>1, <4>2
      <4> QED BY <1>2, <4>1, <4>2, <4>3, <4>4
    <3>4. Window' <=> Window
      BY <1>3 DEF Window
    <3> QED BY <1>3, <1>7, <3>2, <3>3, <3>4 DEF Current, Resident
  <2> QED BY <2>1, <2>2
<1> QED BY <1>4, <1>5, <1>6, <1>8, <1>9 DEF TurnInv

\* Requests, claims and turns: the holder of the lock keeps it.
LEMMA RequestsTurn ==
    ASSUME TypeOK, Shape, GateInv, EnvInv, TurnInv, TypeOK', EnvInv',
           \/ RequestStep \/ TakeInventory
           \/ \E policy \in Policies : RequestApply(policy)
           \/ Compensate \/ Launch
           \/ CancelReferenceTurn \/ LoadThread \/ TurnBegins \/ TurnEnds
    PROVE  TurnInv'
<1> USE Ranges
<1>1. /\ holder' = holder /\ docker' = docker /\ binding' = binding /\ lease' = lease
      /\ shown' = shown /\ row' = row
      /\ tools' = tools \/ (tools' = lease /\ holder = Free)
  <2>1. CASE \E fingerprint \in Revisions : Replace(fingerprint)
    BY <2>1 DEF Replace, memory
  <2>2. CASE \E policy \in Policies : RequestApply(policy)
    BY <2>2 DEF RequestApply, memory
  <2>3. CASE Compensate \/ Launch
    BY <2>3 DEF Compensate, Launch, tables
  <2>4. CASE CancelReferenceTurn \/ LoadThread \/ TurnBegins \/ TurnEnds
    BY <2>4 DEF CancelReferenceTurn, LoadThread, TurnBegins, TurnEnds, tables
  <2>5. CASE TakeInventory \/ KeepConfiguration \/ BlockReplaced \/ BlockUnfinished
    BY <2>5 DEF TakeInventory, KeepConfiguration, BlockReplaced, BlockUnfinished, tables, memory
  <2> QED BY <2>1, <2>2, <2>3, <2>4, <2>5 DEF RequestStep
<1>2. /\ revision \in Nat /\ revision' \in Nat /\ revision <= revision'
      /\ \A r \in Revisions : r <= revision => mounts'[r] = mounts[r]
      /\ pending # None => pending' # None
      /\ \/ pending' # None
         \/ revision' = revision /\ (Window => Window')
         \/ binding = None \/ Window'
  <2>1. ASSUME NEW fingerprint \in Revisions, Replace(fingerprint)
        PROVE  /\ revision' = revision + 1
                  /\ mounts' = [mounts EXCEPT ![revision + 1] = fingerprint]
               /\ pending' = pending /\ (binding = None \/ Window')
    <3>1. /\ request # None /\ request.pc = "commit" /\ pending' = pending
          /\ revision' = revision + 1 /\ mounts' = [mounts EXCEPT ![revision + 1] = fingerprint]
          /\ request' = [request EXCEPT !.pc = "block"]
      BY <2>1 DEF Replace, memory
    <3>2. binding = None \/ request.physical
      BY <3>1 DEF GateInv, Unlisted
    <3>3. request' # None /\ request'.pc = "block" /\ request'.physical = request.physical
      <4>1. request \in Requests
        BY <3>1 DEF TypeOK
      <4>2. /\ request' \in Requests /\ request'.pc = "block"
            /\ request'.physical = request.physical
        BY <3>1, <4>1 DEF Requests
      <4> QED BY <4>2, NoneAssumption
    <3> QED BY <3>1, <3>2, <3>3 DEF Window
  <2>2. ASSUME BlockReplaced \/ BlockUnfinished
        PROVE  /\ revision' = revision /\ mounts' = mounts
               /\ pending # None => pending' # None
               /\ pending' # None \/ ~Window
    BY <2>2, Gates DEF BlockReplaced, BlockUnfinished, TypeOK, tables, Window
  <2>3. ASSUME \/ \E policy \in Policies : RequestApply(policy)
               \/ TakeInventory \/ KeepConfiguration
        PROVE  revision' = revision /\ mounts' = mounts /\ pending' = pending /\ ~Window
    BY <2>3 DEF RequestApply, TakeInventory, KeepConfiguration, tables, memory, Window
  <2>4. ASSUME Compensate \/ Launch \/ CancelReferenceTurn \/ LoadThread \/ TurnBegins \/ TurnEnds
        PROVE  /\ revision' = revision /\ mounts' = mounts /\ pending' = pending
               /\ request' = request
    BY <2>4 DEF Compensate, Launch, CancelReferenceTurn, LoadThread, TurnBegins, TurnEnds, tables,
       others
  <2>5. request' = request => (Window => Window')
    BY DEF Window
  <2>6. revision \in Nat /\ mounts \in [Revisions -> Revisions]
    BY DEF TypeOK
  <2> QED BY <2>1, <2>2, <2>3, <2>4, <2>5, <2>6 DEF RequestStep
<1>3. Follows
  <2>1. \/ ops' = ops
        \/ \E r \in Revisions, policy \in Policies, scope \in {"all", "unapplied"} :
              ops' = Enqueued(r, policy, scope)
    BY RequestsEnqueue
  <2>2. CASE ops' = ops
    BY <2>2 DEF Follows, Unfinished
  <2>3. ASSUME NEW r \in Revisions, NEW policy \in Policies, NEW scope,
               ops' = Enqueued(r, policy, scope)
        PROVE  Follows
    BY <2>3, Enqueues, IntentFollows
  <2> QED BY <2>1, <2>2, <2>3
<1>4. CandidateMounts' /\ BindingMounts'
  BY <1>1, <1>2, <1>3, StoppedSame, MountsKept
<1>5. AtMounts'
  <2>1. ASSUME holder.pc \in {"same", "same_publish"}
        PROVE  docker[binding.generation].mounts = mounts'[Own.target]
    <3>1. holder.task \in DOMAIN ops /\ holder.receipt # None
      BY <2>1 DEF Shape, Free, AssemblySteps
    <3>2. SameReceipt(Own, ops[holder.task])
      BY <3>1 DEF GateInv, HeldGate, Task
    <3>3. Own.target \in Revisions /\ Own.target <= revision
      BY <3>1, <3>2, Tables DEF GateInv, Targets, SameReceipt, Receipt
    <3> QED BY <1>2, <2>1, <3>3 DEF TurnInv, AtMounts
  <2>2. ASSUME holder.pc \in AssemblySteps
        PROVE  holder.read <= revision' /\ mounts'[holder.read] = mounts[holder.read]
    <3>1. holder.read \in Revisions /\ holder.read \in Nat /\ holder.read <= revision
      BY <2>2 DEF TypeOK, Holders, TurnInv, AtMounts
    <3> QED BY <1>2, <3>1
  <2>3. "saving" \in AssemblySteps /\ "adopting" \in AssemblySteps
    BY DEF AssemblySteps
  <2>4. Preferred' = Preferred /\ Own' = Own
    BY <1>1 DEF Preferred, Own, Exists
  <2> QED BY <1>1, <2>1, <2>2, <2>3, <2>4 DEF TurnInv, AtMounts
<1>6. AtLease'
  BY <1>1 DEF TurnInv, AtLease, Free
<1>7. LeaseRuns' /\ Resident' /\ Assembled'
  BY <1>1, <1>2 DEF TurnInv, LeaseRuns, Resident, Assembled
<1>8. Current'
  <2>1. ASSUME pending' = None, lease # None
        PROVE  binding # None /\ (binding.revision = revision \/ Window)
    BY <1>2, <2>1 DEF TurnInv, Current
  <2> QED BY <1>1, <1>2, <2>1 DEF Current
<1> QED BY <1>4, <1>5, <1>6, <1>7, <1>8 DEF TurnInv

\* A worker takes the lock for the operation it claimed, and closes the gate.
LEMMA BeginTurn ==
    ASSUME TypeOK, Shape, GateInv, EnvInv, TurnInv, TypeOK', EnvInv', Begin
    PROVE  TurnInv'
<1> USE Ranges
<1>1. /\ holder = Free /\ queued # None /\ mounts' = mounts /\ revision' = revision
      /\ ops' = ops /\ docker' = docker /\ binding' = binding /\ lease' = lease /\ tools' = tools
      /\ pending' = Blocked(queued.receipt.target)
      /\ holder' = [Free EXCEPT !.task = queued.id, !.pc = "read", !.receipt = queued.receipt]
  BY DEF Begin, tables
<1>2. holder'.task = queued.id /\ holder'.pc = "read" /\ holder.pc = "idle"
  BY <1>1 DEF Free
<1>3. queued.id # 0 /\ queued.receipt.target \in Revisions
  BY <1>1 DEF TypeOK, Claims, Receipt
<1>4. pending' # None
  BY <1>1, <1>3, Gates
<1>5. CandidateMounts' /\ BindingMounts' /\ LeaseRuns' /\ Assembled'
  BY <1>1, <1>2 DEF TurnInv, CandidateMounts, BindingMounts, LeaseRuns, Assembled, Exists
<1>6. AtMounts' /\ AtLease'
  BY <1>2, <1>3 DEF AtMounts, AtLease, AssemblySteps, Applying
<1>7. Current' /\ Resident'
  BY <1>4 DEF Current, Resident
<1> QED BY <1>5, <1>6, <1>7 DEF TurnInv

\* The assembly of an environment, and the refusal while the gate is closed.
LEMMA AssemblyTurn ==
    ASSUME TypeOK, Shape, GateInv, EnvInv, TurnInv, TypeOK', EnvInv',
           AssemblyStep \/ AssemblyFault \/ Refuse
    PROVE  TurnInv'
<1> USE Ranges
<1>0. /\ 0 # None /\ Free.pc = "idle" /\ Free.task = None
      /\ revision \in Revisions /\ revision \in Nat /\ "when_idle" \in Policies
      /\ binding # None => binding.generation \in Generations /\ binding.generation # None
  BY ReferenceAssumption DEF Free, TypeOK, Bindings, Policies
<1>1. ASSUME NEW pc \in AssemblySteps, Running(pc)
      PROVE  /\ holder.task = 0 /\ holder.pc = pc /\ lease = None /\ tools = None
             /\ holder.read <= revision /\ holder.read \in Revisions
  BY <1>1, AssemblyHolder DEF TurnInv, AtLease, AtMounts, TypeOK, Holders
<1>2. \A pc \in {"assembling", "blocking", "saving", "adopting", "recording"} :
          pc \in AssemblySteps /\ pc \notin Applying \cup {"same", "same_publish", "snapshotting"}
  BY DEF AssemblySteps, Applying
<1>3. ASSUME ops' = ops PROVE Follows
  BY <1>3 DEF Follows, Unfinished
<1>4. ASSUME ops' = Enqueued(revision, "when_idle", "all") PROVE Follows
  BY <1>0, <1>4, Enqueues, IntentFollows
<1>5. CASE Assemble
  <2>1. /\ pending = None /\ lease = None /\ revision' = revision /\ mounts' = mounts /\ ops' = ops
        /\ docker' = docker /\ binding' = binding /\ lease' = lease /\ tools' = tools
        /\ holder'.task = 0 /\ holder'.pc = "assembling" /\ holder'.read = revision
    BY <1>5 DEF Assemble, tables, memory, Free
  <2>2. tools = None
    BY <2>1 DEF TurnInv, Resident
  <2>3. CandidateMounts' /\ BindingMounts'
    BY <1>3, <2>1, StoppedSame, MountsKept
  <2>4. AtMounts' /\ AtLease'
    BY <1>0, <1>2, <2>1, <2>2 DEF AtMounts, AtLease
  <2> QED BY <2>1, <2>2, <2>3, <2>4 DEF TurnInv, LeaseRuns, Current, Resident, Assembled
<1>6. CASE Refuse
  <2>1. /\ revision' = revision /\ mounts' = mounts /\ ops' = ops /\ pending' = pending
        /\ docker' = docker /\ binding' = binding /\ lease' = lease /\ tools' = tools
        /\ holder' = holder /\ holder.pc = "idle" /\ holder.task = None
    BY <1>0, <1>6 DEF Refuse, memory
  <2>4. Window' <=> Window
    BY <1>6 DEF Refuse, others, Window
  <2>2. CandidateMounts' /\ BindingMounts'
    BY <1>3, <2>1, StoppedSame, MountsKept
  <2>3. AtMounts' /\ AtLease'
    BY <1>0, <2>1 DEF AtMounts, AtLease, AssemblySteps, Applying
  <2> QED BY <2>1, <2>2, <2>3, <2>4 DEF TurnInv, LeaseRuns, Current, Resident, Assembled
<1>7. CASE Discover
  <2>1. /\ holder.task = 0 /\ holder.pc = "assembling" /\ lease = None /\ tools = None
        /\ holder.read <= revision
    BY <1>1, <1>2, <1>7 DEF Discover
  <2>2. /\ revision' = revision /\ mounts' = mounts /\ ops' = ops
        /\ docker' = docker /\ binding' = binding /\ lease' = lease /\ tools' = tools
        /\ holder' = holder
    BY <1>7 DEF Discover
  <2>3. CandidateMounts' /\ BindingMounts'
    BY <1>3, <2>2, StoppedSame, MountsKept
  <2>4. AtMounts' /\ AtLease'
    BY <1>2, <2>1, <2>2 DEF AtMounts, AtLease
  <2> QED BY <2>1, <2>2, <2>3, <2>4 DEF TurnInv, LeaseRuns, Current, Resident, Assembled
<1>8. CASE SaveContainer
  <2>1. /\ holder.task = 0 /\ holder.pc = "saving" /\ lease = None /\ tools = None
        /\ holder.read <= revision
    BY <1>1, <1>2, <1>8 DEF SaveContainer
  <2>2. /\ revision' = revision /\ mounts' = mounts /\ ops' = ops /\ shown' = 0
        /\ docker' = docker /\ binding' = binding /\ lease' = lease /\ tools' = tools
        /\ Goto("adopting")
    BY <1>8 DEF SaveContainer
  <2>3. holder'.task = 0 /\ holder'.pc = "adopting" /\ holder'.read = holder.read
    BY <2>1, <2>2 DEF Goto, TypeOK, Holders
  <2>4. binding = None /\ docker[0].state = "running" /\ docker[0].mounts = mounts[holder.read]
    BY <2>1 DEF EnvInv, AtSteps, TurnInv, AtMounts
  <2>5. Preferred' = 0
    BY <1>0, <2>2, <2>4 DEF Preferred
  <2>6. CandidateMounts' /\ BindingMounts'
    BY <1>3, <2>2, StoppedSame, MountsKept
  <2>7. AtMounts' /\ AtLease'
    BY <1>2, <2>1, <2>2, <2>3, <2>4, <2>5 DEF AtMounts, AtLease
  <2> QED BY <2>1, <2>2, <2>6, <2>7 DEF TurnInv, LeaseRuns, Current, Resident, Assembled
<1>9. CASE CreateContainer
  <2>1. /\ holder.task = 0 /\ holder.pc = "assembling" /\ lease = None /\ tools = None
        /\ holder.read <= revision /\ binding = None
    BY <1>0, <1>1, <1>2, <1>9 DEF CreateContainer, Preferred
  <2> DEFINE c == [state |-> "running", layer |-> 0, mounts |-> mounts[holder.read]]
  <2>2. /\ revision' = revision /\ mounts' = mounts /\ ops' = ops
        /\ docker' = [docker EXCEPT ![0] = c]
        /\ binding' = binding /\ lease' = lease /\ tools' = tools /\ Goto("saving")
    BY <1>9 DEF CreateContainer, tables, memory
  <2>3. c.state = "running" /\ c.mounts = mounts[holder.read]
    OBVIOUS
  <2> HIDE DEF c
  <2>4. \A g \in Generations : docker'[g] = IF g = 0 THEN c ELSE docker[g]
    BY <2>2 DEF TypeOK
  <2>5. holder'.task = 0 /\ holder'.pc = "saving" /\ holder'.read = holder.read
    BY <2>1, <2>2 DEF Goto, TypeOK, Holders
  <2>6. CandidateMounts'
    <3>1. \A o \in DOMAIN ops : docker'[o] = docker[o]
      BY <2>4, Tables
    <3> QED BY <2>2, <3>1 DEF TurnInv, CandidateMounts, Exists
  <2>7. BindingMounts'
    BY <2>1, <2>2 DEF BindingMounts
  <2>8. AtMounts' /\ AtLease'
    BY <1>2, <2>1, <2>2, <2>3, <2>4, <2>5 DEF AtMounts, AtLease
  <2> QED BY <2>1, <2>2, <2>6, <2>7, <2>8 DEF TurnInv, LeaseRuns, Current, Resident, Assembled
<1>10. CASE FindContainer
  <2>1. /\ holder.task = 0 /\ holder.pc = "assembling" /\ lease = None /\ tools = None
        /\ holder.read <= revision
    BY <1>1, <1>2, <1>10 DEF FindContainer
  <2>2. /\ revision' = revision /\ mounts' = mounts /\ binding' = binding /\ shown' = shown
        /\ lease' = lease /\ tools' = tools
        /\ (binding # None \/ shown # None)
    BY <1>10 DEF FindContainer, memory
  <2>3. Preferred' = Preferred /\ Preferred \in Generations
    BY <1>0, <2>2 DEF Preferred, TypeOK
  <2>4. CASE /\ Exists(Preferred) /\ Matches(Preferred) /\ Goto("adopting") /\ ops' = ops
             /\ docker' = [docker EXCEPT ![Preferred].state = "running"]
    <3>1. docker[Preferred].state # "absent" /\ docker[Preferred].mounts = mounts[holder.read]
      BY <2>4 DEF Exists, Matches
    <3>2. /\ SameContainers /\ docker'[Preferred].state = "running"
          /\ docker'[Preferred].mounts = docker[Preferred].mounts
      BY <2>3, <2>4, <3>1, StartedSame
    <3>3. CandidateMounts' /\ BindingMounts'
      BY <1>3, <2>2, <2>4, <3>2, MountsKept
    <3>4. holder'.task = 0 /\ holder'.pc = "adopting" /\ holder'.read = holder.read
      BY <2>1, <2>4 DEF Goto, TypeOK, Holders
    <3>5. AtMounts' /\ AtLease'
      BY <1>2, <2>1, <2>2, <2>3, <3>1, <3>2, <3>4 DEF AtMounts, AtLease
    <3> QED BY <2>1, <2>2, <3>3, <3>5 DEF TurnInv, LeaseRuns, Current, Resident, Assembled
  <2>5. CASE /\ docker' = docker /\ (holder' = Free \/ Goto("blocking"))
             /\ ops' \in {ops, Enqueued(revision, "when_idle", "all")}
    <3>1. CandidateMounts' /\ BindingMounts'
      BY <1>3, <1>4, <2>2, <2>5, StoppedSame, MountsKept
    <3>2. \/ holder'.pc = "idle" /\ holder'.task = None
          \/ holder'.pc = "blocking" /\ holder'.task = 0 /\ holder'.read = holder.read
      BY <1>0, <2>1, <2>5 DEF Goto, TypeOK, Holders
    <3>3. AtMounts' /\ AtLease'
      BY <1>0, <1>2, <2>1, <2>2, <3>2 DEF AtMounts, AtLease, AssemblySteps, Applying
    <3> QED BY <2>1, <2>2, <3>1, <3>3 DEF TurnInv, LeaseRuns, Current, Resident, Assembled
  <2> QED BY <1>10, <2>4, <2>5 DEF FindContainer
<1>11. ASSUME Adopt \/ AdoptFails
       PROVE  TurnInv'
  <2>1. /\ holder.task = 0 /\ holder.pc = "adopting" /\ lease = None /\ tools = None
        /\ holder.read <= revision
        /\ docker[Preferred].state = "running" /\ docker[Preferred].mounts = mounts[holder.read]
    BY <1>1, <1>2, <1>11 DEF Adopt, AdoptFails, TurnInv, AtMounts
  <2>2. Preferred \in Generations /\ Preferred # None
    BY <1>0, <2>1 DEF Preferred, TypeOK, EnvInv, AtSteps
  <2>3. revision' = revision /\ mounts' = mounts /\ tools' = tools /\ ops' = ops
    BY <1>11 DEF Adopt, AdoptFails
  <2>4. \/ holder'.pc = "idle" /\ holder'.task = None
        \/ /\ holder'.pc = "recording" /\ holder'.task = 0 /\ holder'.read = holder.read
           /\ lease' = None
    BY <1>0, <1>11, <2>1 DEF Adopt, AdoptFails, Goto, TypeOK, Holders
  <2>5. AtMounts' /\ AtLease'
    BY <1>0, <1>2, <2>1, <2>3, <2>4 DEF AtMounts, AtLease, AssemblySteps, Applying
  <2>6. SameContainers
    BY <1>11, StoppedSame DEF Adopt, AdoptFails
  <2>7. docker'[Preferred].mounts = docker[Preferred].mounts
    BY <1>11, <2>2, DockerType DEF Adopt, AdoptFails
  <2>8. Resident' /\ Assembled'
    BY <2>1, <2>3 DEF Resident, Assembled
  <2>9. CASE binding' = [generation |-> Preferred, revision |-> revision] /\ holder.read = revision
    <3>1. binding' # None /\ binding'.generation = Preferred /\ binding'.revision = revision
      BY <1>0, <2>2, <2>9, NoneAssumption DEF Bindings
    <3>2. BindingMounts'
      BY <2>1, <2>3, <2>7, <2>9, <3>1 DEF BindingMounts
    <3>3. CandidateMounts'
      <4>1. \A o \in DOMAIN ops : o \in Generations
        BY Tables
      <4> QED BY <2>3, <2>6, <4>1 DEF SameContainers, TurnInv, CandidateMounts, Exists
    <3>4. lease' = None \/ (lease' = Preferred /\ docker' = docker)
      BY <1>11, <2>1 DEF Adopt, AdoptFails
    <3>5. LeaseRuns' /\ Current'
      BY <2>1, <2>3, <3>1, <3>4 DEF LeaseRuns, Current
    <3> QED BY <2>5, <2>8, <3>2, <3>3, <3>5 DEF TurnInv
  <2>10. CASE binding' = binding /\ lease' = None
    <3>1. CandidateMounts' /\ BindingMounts'
      BY <1>3, <2>3, <2>6, <2>10, MountsKept
    <3> QED BY <2>5, <2>8, <2>10, <3>1 DEF TurnInv, LeaseRuns, Current
  <2> QED BY <1>11, <2>9, <2>10 DEF Adopt, AdoptFails
<1>12. ASSUME BlockFound \/ RecordIntent \/ AssemblyFault
       PROVE  TurnInv'
  <2>1. lease = None /\ tools = None
    BY <1>1, <1>2, <1>12 DEF BlockFound, RecordIntent, AssemblyFault, Running
  <2>2. /\ revision' = revision /\ mounts' = mounts /\ binding' = binding
        /\ lease' = lease /\ tools' = tools /\ holder' = Free
        /\ ops' \in {ops, Enqueued(revision, "when_idle", "all")}
        /\ docker' \in {docker, Stopped({0})}
    BY <1>12 DEF BlockFound, RecordIntent, AssemblyFault, memory
  <2>3. CandidateMounts' /\ BindingMounts'
    BY <1>3, <1>4, <2>2, StoppedSame, MountsKept
  <2>4. AtMounts' /\ AtLease'
    BY <1>0, <2>2 DEF AtMounts, AtLease, AssemblySteps, Applying
  <2> QED BY <2>1, <2>2, <2>3, <2>4 DEF TurnInv, LeaseRuns, Current, Resident, Assembled
<1> QED BY <1>5, <1>6, <1>7, <1>8, <1>9, <1>10, <1>11, <1>12 DEF AssemblyStep

\* The end of the server, its recovery, and what a turn changes.
LEMMA ServerTurn ==
    ASSUME TypeOK, Shape, GateInv, EnvInv, TurnInv, TypeOK', EnvInv', Restart \/ Recover \/ Work
    PROVE  TurnInv'
<1> USE Ranges
<1>1. CASE Restart \/ Recover
  <2>1. /\ revision' = revision /\ mounts' = mounts /\ ops' = ops /\ binding' = binding
        /\ \E gs : docker' \in {docker, Stopped(gs)}
    BY <1>1 DEF Restart, Recover, tables, memory
  <2>2. /\ holder'.task = None /\ holder'.pc = "idle" /\ lease' = None /\ tools' = None /\ 0 # None
    BY <1>1, ReferenceAssumption DEF Restart, Recover, GateInv, Idle, Free, memory
  <2>3. Follows
    BY <2>1 DEF Follows, Unfinished
  <2>4. CandidateMounts' /\ BindingMounts'
    BY <2>1, <2>3, StoppedSame, MountsKept
  <2>5. AtMounts' /\ AtLease'
    BY <2>2 DEF AtMounts, AtLease, AssemblySteps, Applying
  <2> QED BY <2>2, <2>4, <2>5 DEF TurnInv, LeaseRuns, Current, Resident, Assembled
<1>2. CASE Work
  <2>1. /\ turn # None /\ revision' = revision /\ mounts' = mounts /\ ops' = ops
        /\ binding' = binding /\ shown' = shown /\ lease' = lease /\ tools' = tools
        /\ pending' = pending /\ holder' = holder /\ request' = request
        /\ docker' = [docker EXCEPT ![turn].layer = work']
    BY <1>2 DEF Work, tables, memory
  <2> DEFINE c == [docker[turn] EXCEPT !.layer = work']
  <2>2. docker' = [docker EXCEPT ![turn] = c]
    BY <2>1
  <2>3. turn \in Generations /\ docker[turn] \in Containers
    BY <2>1 DEF TypeOK
  <2>4. c.state = docker[turn].state /\ c.mounts = docker[turn].mounts
    BY <2>3 DEF Containers
  <2> HIDE DEF c
  <2>5. \A g \in Generations : /\ docker'[g].state = docker[g].state
                               /\ docker'[g].mounts = docker[g].mounts
    BY <2>2, <2>3, <2>4 DEF TypeOK
  <2>6. SameContainers
    BY <2>5 DEF SameContainers
  <2>7. CandidateMounts' /\ BindingMounts'
    <3>1. Follows
      BY <2>1 DEF Follows, Unfinished
    <3> QED BY <2>1, <2>6, <3>1, MountsKept
  <2>8. AtMounts'
    <3>1. Preferred' = Preferred /\ Own' = Own
      BY <2>1, <2>5 DEF Preferred, Own, Exists
    <3>2. holder.pc \in {"same", "same_publish"} => binding.generation \in Generations
      BY DEF Shape, TypeOK, Bindings
    <3>3. holder.pc = "adopting" => Preferred \in Generations
      BY DEF Shape, Preferred, TypeOK, Bindings
    <3> QED BY <2>1, <2>5, <3>1, <3>2, <3>3 DEF TurnInv, AtMounts
  <2>9. LeaseRuns'
    BY <2>1, <2>5 DEF TurnInv, LeaseRuns, TypeOK
  <2> QED BY <2>1, <2>7, <2>8, <2>9 DEF TurnInv, AtLease, Current, Window, Resident, Assembled
<1> QED BY <1>1, <1>2

\* It holds initially, and is kept by every step.
LEMMA TurnInit == Init => TurnInv
<1> SUFFICES ASSUME Init PROVE TurnInv
  OBVIOUS
<1>1. ops = <<>> /\ DOMAIN ops = {} /\ Free.pc = "idle" /\ Free.task = None /\ None # 0
  BY ReferenceAssumption DEF Init, Free
<1> QED BY <1>1 DEF Init, TurnInv, CandidateMounts, BindingMounts, AtMounts, AtLease, LeaseRuns,
        Current, Resident, Assembled, AssemblySteps, Applying

LEMMA TurnStep == TypeOK /\ Shape /\ GateInv /\ EnvInv /\ TurnInv /\ [Next]_vars => TurnInv'
<1> SUFFICES ASSUME TypeOK, Shape, GateInv, EnvInv, TurnInv, [Next]_vars PROVE TurnInv'
  OBVIOUS
<1>1. TypeOK' /\ GateInv' /\ EnvInv'
  BY TypesStep, GateStep, EnvStep
<1>2. CASE Next
  BY <1>1, <1>2, OperationProceeds, OperationTurn1, OperationTurn2, OperationTurn3, EndsTurn,
     RequestsTurn, BeginTurn, AssemblyTurn, ServerTurn DEF Next, OperationStep, AssemblyStep
<1>3. CASE UNCHANGED vars
  BY <1>3 DEF vars, tables, counts, TurnInv, CandidateMounts, BindingMounts, AtMounts, AtLease,
     LeaseRuns, Current, Window, Resident, Assembled, Exists, Own, Preferred
<1> QED BY <1>2, <1>3

\* Only TurnBegins lets a turn in.
LEMMA OnlyBegins ==
    ASSUME Next, turn = None, turn' # None
    PROVE  TurnBegins
<1>1. CASE (\E policy \in Policies : RequestApply(policy)) \/ TakeInventory \/ RequestStep
  BY <1>1 DEF RequestApply, TakeInventory, RequestStep, Replace, KeepConfiguration, BlockReplaced,
     BlockUnfinished, memory
<1>2. CASE CancelReferenceTurn \/ Launch \/ Begin \/ Compensate
  BY <1>2 DEF CancelReferenceTurn, Launch, Begin, Compensate
<1>3. CASE \/ ReadConfiguration \/ KeepEnvironment \/ PublishSame \/ WaitIdle \/ Drain \/ Quiesce
           \/ Snapshot \/ CreateCandidate \/ SaveCandidate \/ Rebind
  BY <1>3 DEF ReadConfiguration, KeepEnvironment, PublishSame, WaitIdle, Drain, Quiesce, Snapshot,
     CreateCandidate, SaveCandidate, Rebind, memory
<1>4. CASE \/ Publish \/ Activate \/ RemoveOld \/ Retire \/ Succeed \/ Open \/ Yield
           \/ Supersede \/ SaveSuperseded \/ Fail \/ SaveFailed \/ Fault
  BY <1>4 DEF Publish, Activate, RemoveOld, Retire, Succeed, Open, Yield, Supersede, SaveSuperseded,
     Fail, SaveFailed, Fault, memory
<1>5. CASE AssemblyStep \/ AssemblyFault \/ Refuse
  BY <1>5 DEF AssemblyStep, Assemble, Discover, FindContainer, BlockFound, CreateContainer,
     SaveContainer, Adopt, AdoptFails, RecordIntent, AssemblyFault, Refuse, memory
<1>6. CASE LoadThread \/ Work \/ TurnEnds \/ Restart \/ Recover
  BY <1>6 DEF LoadThread, Work, TurnEnds, Restart, Recover, memory
<1> QED BY <1>1, <1>2, <1>3, <1>4, <1>5, <1>6 DEF Next, OperationStep

\* While the gate is open the tools are those of the leased container, which runs
\* with the mounts of the configuration.
LEMMA TurnSees ==
    ASSUME TypeOK, Shape, GateInv, EnvInv, TurnInv, TurnBegins
    PROVE  /\ turn' = lease /\ docker[turn'].state = "running"
           /\ docker[turn'].mounts = mounts[revision]
<1>1. pending = None /\ request = None /\ tools # None /\ turn' = tools
  BY DEF TurnBegins
<1>2. tools = lease /\ lease # None
  BY <1>1 DEF TurnInv, Resident
<1>3. docker[lease].state = "running" /\ binding # None /\ binding.revision = revision
  BY <1>1, <1>2 DEF TurnInv, LeaseRuns, Current, Window
<1>4. holder.pc \notin {"publishing", "superseding", "failing"}
  BY <1>1 DEF Shape, GateInv, HeldGate, Free, AssemblySteps
<1>5. lease = binding.generation
  BY <1>2, <1>4 DEF EnvInv, Leased
<1>6. docker[lease].mounts = mounts[revision]
  BY <1>3, <1>5 DEF TurnInv, BindingMounts
<1> QED BY <1>1, <1>2, <1>3, <1>6

\* A turn is let in only into the leased container, running, with the mounts of
\* the configuration as it is at that moment.
THEOREM TurnsSee == Spec => TurnsSeeTheConfiguration
<1> DEFINE Inv == TypeOK /\ Shape /\ GateInv /\ EnvInv /\ TurnInv
           Sees == turn = None /\ turn' # None =>
                       /\ turn' = lease /\ docker[turn'].state = "running"
                       /\ docker[turn'].mounts = mounts[revision]
<1>1. Init => Inv
  BY TypesInit, GateInit, EnvInit, TurnInit
<1>2. Inv /\ [Next]_vars => Inv'
  BY TypesStep, GateStep, EnvStep, TurnStep
<1>3. Inv /\ [Next]_vars => [Sees]_vars
  BY OnlyBegins, TurnSees
<1>4. TurnsSeeTheConfiguration <=> [][Sees]_vars
  BY PTL DEF TurnsSeeTheConfiguration
<1> HIDE DEF Inv, Sees
<1> QED BY <1>1, <1>2, <1>3, <1>4, PTL DEF Spec

\* Nor has the latest operation failed then, nor is one unfinished whose target
\* the environment does not have.
LEMMA TurnHeld ==
    ASSUME TypeOK, Shape, GateInv, EnvInv, TurnInv, TurnBegins
    PROVE  /\ LatestPhase # "failed"
           /\ \A o \in DOMAIN ops :
                Unfinished(o) => binding # None /\ binding.revision >= ops[o].target
<1>1. pending = None /\ request = None /\ tools # None
  BY DEF TurnBegins
<1>2. LatestPhase # "failed"
  BY <1>1 DEF GateInv, FailedHeld
<1>3. tools = lease /\ lease # None
  BY <1>1 DEF TurnInv, Resident
<1>4. binding # None /\ binding.revision = revision
  BY <1>1, <1>3 DEF TurnInv, Current, Window
<1>5. ASSUME NEW o \in DOMAIN ops PROVE binding.revision >= ops[o].target
  <2>1. ops[o].target <= revision
    BY DEF GateInv, Targets
  <2>2. ops[o].target \in Nat /\ revision \in Nat
    BY Tables, Ranges DEF TypeOK, Receipt
  <2> QED BY <1>4, <2>1, <2>2
<1> QED BY <1>2, <1>4, <1>5

\* No turn is let in while the latest operation has failed, also after a restart,
\* or while one is still to bring the environment to a revision it does not have.
THEOREM GateHeld == Spec => GateIsHeld
<1> DEFINE Inv == TypeOK /\ Shape /\ GateInv /\ EnvInv /\ TurnInv
           Held == turn = None /\ turn' # None =>
                       /\ LatestPhase # "failed"
                       /\ \A o \in DOMAIN ops :
                            Unfinished(o) => binding # None /\ binding.revision >= ops[o].target
<1>1. Init => Inv
  BY TypesInit, GateInit, EnvInit, TurnInit
<1>2. Inv /\ [Next]_vars => Inv'
  BY TypesStep, GateStep, EnvStep, TurnStep
<1>3. Inv /\ [Next]_vars => [Held]_vars
  BY OnlyBegins, TurnHeld
<1>4. GateIsHeld <=> [][Held]_vars
  BY PTL DEF GateIsHeld
<1> HIDE DEF Inv, Held
<1> QED BY <1>1, <1>2, <1>3, <1>4, PTL DEF Spec
=============================================================================
