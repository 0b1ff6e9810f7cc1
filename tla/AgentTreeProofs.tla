--------------------------- MODULE AgentTreeProofs ---------------------------
(***************************************************************************)
(* Theorems about the tree of agents, for every finite or infinite set of  *)
(* agents and users and every tree of parents without a cycle.             *)
(*                                                                         *)
(* For every choice of Events: the types, with the marks a deletion sets   *)
(* before it handles an agent, and that nothing is left running for an     *)
(* agent without a record. While no message is accepted early and the      *)
(* snapshots can be reclaimed: that no child outlives its parent unseen.   *)
(*                                                                         *)
(* Shape, LeftInv and OrphanInv are inductive together: OrphanInv rests on *)
(* LeftInv, and LeftInv on Shape.                                          *)
(***************************************************************************)
EXTENDS AgentTree, TLAPS

-----------------------------------------------------------------------------
(***************************************************************************)
(* The lines of the tree.                                                  *)
(***************************************************************************)
\* An agent's line is the agent and the line of its parent.
LEMMA LineIs ==
    ASSUME NEW a \in Agents
    PROVE  /\ Line[a] \subseteq Agents /\ a \in Line[a]
           /\ Parent[a] \in Agents \cup {None}
           /\ Parent[a] = None => Line[a] = {a}
           /\ Parent[a] # None => Line[a] = {a} \cup Line[Parent[a]]
<1> DEFINE Closed(S) == \A c \in S : Parent[c] # None => Parent[c] \in S
<1>1. Parent[a] \in Agents \cup {None} /\ None \notin Agents
  BY TreeAssumption
<1>2. ASSUME NEW x \in Agents, NEW b
      PROVE  b \in Line[x] <=>
               b \in Agents /\ \A S \in SUBSET Agents : x \in S /\ Closed(S) => b \in S
  BY DEF Line
<1>3. ASSUME NEW x \in Agents PROVE Line[x] \subseteq Agents /\ x \in Line[x] /\ Closed(Line[x])
  <2>1. Line[x] \subseteq Agents /\ x \in Line[x]
    BY <1>2
  <2>2. ASSUME NEW c \in Line[x], Parent[c] # None PROVE Parent[c] \in Line[x]
    <3>1. c \in Agents /\ Parent[c] \in Agents
      BY <2>1, <2>2, TreeAssumption
    <3>2. ASSUME NEW S \in SUBSET Agents, x \in S, Closed(S) PROVE Parent[c] \in S
      <4>1. c \in S
        BY <1>2, <3>2
      <4> QED BY <4>1, <3>2, <2>2
    <3> HIDE DEF Closed
    <3> QED BY <1>2, <3>1, <3>2
  <2> QED BY <2>1, <2>2
<1>4. CASE Parent[a] = None
  <2>1. {a} \in SUBSET Agents /\ Closed({a})
    BY <1>4
  <2> HIDE DEF Closed
  <2>2. Line[a] \subseteq {a}
    BY <2>1, <1>2
  <2> QED BY <1>3, <1>4, <2>2
<1>5. CASE Parent[a] # None
  <2> DEFINE p == Parent[a]
             L == {a} \cup Line[p]
  <2>1. p \in Agents
    BY <1>1, <1>5
  <2>2. L \in SUBSET Agents /\ a \in L /\ Closed(L)
    BY <2>1, <1>3, <1>5
  <2>3. p \in Line[a]
    BY <1>3, <1>5
  <2> HIDE DEF L
  <2>4. Line[a] \subseteq L
    <3> HIDE DEF Closed
    <3> QED BY <2>2, <1>2
  <2>5. ASSUME NEW b \in Line[p] PROVE b \in Line[a]
    <3>1. Line[a] \in SUBSET Agents /\ p \in Line[a] /\ Closed(Line[a])
      BY <1>3, <2>3
    <3> HIDE DEF Closed, p
    <3> QED BY <3>1, <2>1, <1>2
  <2> QED BY <1>1, <1>3, <1>5, <2>4, <2>5 DEF L
<1> QED BY <1>4, <1>5

\* On the way up to an ancestor there is a child of it.
LEMMA LineThrough ==
    ASSUME NEW b \in Agents, NEW a \in Line[b], a # b
    PROVE  \E x \in Line[b] : Parent[x] = a /\ a \in Line[x]
<1> SUFFICES ASSUME \A x \in Line[b] : ~(Parent[x] = a /\ a \in Line[x])
             PROVE  FALSE
  OBVIOUS
<1> DEFINE S == Line[b] \ {a}
<1>1. Line[b] \subseteq Agents /\ b \in Line[b]
  BY LineIs
<1>2. ASSUME NEW c \in Line[b], Parent[c] # None
      PROVE  Parent[c] \in Line[b] /\ Parent[c] \in Line[c]
  <2>1. \A T \in SUBSET Agents :
          b \in T /\ (\A d \in T : Parent[d] # None => Parent[d] \in T) => c \in T
    BY <1>1 DEF Line
  <2>2. c \in Agents /\ Parent[c] \in Agents
    BY <1>1, <1>2, TreeAssumption
  <2>3. Parent[c] \in Line[c]
    BY <1>2, <2>2, LineIs
  <2>4. \A T \in SUBSET Agents :
          b \in T /\ (\A d \in T : Parent[d] # None => Parent[d] \in T) => Parent[c] \in T
    BY <2>1, <1>2
  <2> QED BY <2>2, <2>3, <2>4 DEF Line
<1>3. \A c \in S : Parent[c] # None => Parent[c] \in S
  BY <1>2
<1>4. S \in SUBSET Agents /\ b \in S
  BY <1>1
<1>5. a \in S
  <2> HIDE DEF S
  <2> QED BY <1>3, <1>4 DEF Line
<1> QED BY <1>5

\* No agent is on the line of its parent.
LEMMA LineEnds ==
    ASSUME NEW a \in Agents, Parent[a] # None
    PROVE  a \notin Line[Parent[a]]
<1> SUFFICES ASSUME a \in Line[Parent[a]] PROVE FALSE
  OBVIOUS
<1> DEFINE S == {x \in Agents : a \in Line[x]}
<1>1. S \in SUBSET Agents /\ a \in S
  BY LineIs
<1>2. ASSUME NEW x \in S PROVE Parent[x] \in S
  <2>1. CASE x = a
    BY <2>1, LineIs
  <2>2. CASE x # a
    <3>1. a \in Line[x] /\ Parent[x] \in Agents \cup {None}
      BY LineIs
    <3>2. Parent[x] # None /\ a \in Line[Parent[x]]
      BY <3>1, <2>2, LineIs
    <3> QED BY <3>1, <3>2
  <2> QED BY <2>1, <2>2
<1> HIDE DEF S
<1> QED BY <1>1, <1>2, TreeAssumption

-----------------------------------------------------------------------------
(***************************************************************************)
(* The types, and what the record of a deletion holds at each step.        *)
(***************************************************************************)
\* What a deletion's record may be.
DeletionRecords == [pc : DeletionSteps, root : Agents \cup {None},
                    retired : SUBSET Agents, rounds : 0 .. SampleLimit,
                    todo : SUBSET Agents, node : Agents \cup {None},
                    canonical : BOOLEAN, last : BOOLEAN]

\* A node is chosen when the locks begin; a rollback of what is not canonical yet
\* handles the one agent it is of; a canonical deletion handles marked agents of
\* one subtree.
Sound(d, r) ==
    /\ r \in DeletionRecords
    /\ r.pc \in {"none", "sampling", "marking"} => r.canonical /\ r.node = None
    /\ r.pc \in Held \cup {"locking"} => r.node \in Agents
    /\ r.pc # "none" => r.root \in Agents /\ (d \in Agents => r.root = d)
    /\ ~r.canonical => d \in Agents /\ r.node = d /\ r.pc # "closing" /\ r.todo = {}
    /\ r.canonical /\ r.node # None => r.node \in r.todo /\ r.todo \subseteq r.retired
    /\ \A b \in r.todo : r.root \in Line[b]

\* The creations, the deletions and what the turns know of them.
CallsOK ==
    /\ creation \in [Agents -> CreationSteps]
    /\ deletion \in [Deleters -> DeletionRecords]
    /\ called \subseteq Agents /\ awaited \subseteq Agents /\ stranded \subseteq Agents
    /\ \A d \in Deleters : Sound(d, deletion[d])
    /\ \A a \in Agents : creation[a] = "rollback" <=> deletion[a].pc # "none"
    /\ \A a \in Agents : creation[a] # "none" => Parent[a] \in Agents

\* The agents.
AgentsOK ==
    /\ rows \subseteq Agents /\ tombs \subseteq Agents /\ listed \subseteq Agents
    /\ pending \subseteq listed
    /\ bound \subseteq Agents /\ containers \subseteq Agents /\ volumes \subseteq Agents
    /\ leased \subseteq Agents /\ threads \subseteq Agents /\ turn \subseteq Agents
    /\ blocked \subseteq Agents /\ applying \subseteq Agents
    /\ applies \in 0 .. MaxApplies /\ troubles \in 0 .. MaxTroubles

\* The types of everything, and the records of the deletions.
Shape == AgentsOK /\ CallsOK

\* Shape has all the types.
LEMMA ShapeTypes == Shape => TreeTypeOK
BY DEF Shape, AgentsOK, CallsOK, Sound, TreeTypeOK, DeletionRecords

\* An agent deletes as the rollback of its own creation, and is no user.
LEMMA DeletersAre ==
    /\ Agents \subseteq Deleters /\ Users \subseteq Deleters /\ None \notin Agents
    /\ \A u \in Users : u \notin Agents
BY TreeAssumption DEF Deleters

\* The record of no deletion.
LEMMA NoneIsSound ==
    ASSUME NEW d PROVE Sound(d, NoDeletion) /\ NoDeletion.pc = "none"
BY TreeAssumption DEF Sound, NoDeletion, DeletionRecords, DeletionSteps, Held

\* What a deletion begins with.
LEMMA ReclaimIs ==
    ASSUME NEW a \in Agents, NEW c \in BOOLEAN, NEW l \in BOOLEAN,
           NEW r, r = Reclaim(a, c, l)
    PROVE  /\ r \in DeletionRecords
           /\ r.root = a /\ r.canonical = c /\ r.last = l
           /\ r.todo = {} /\ r.retired = {} /\ r.rounds = 0
           /\ r.pc = IF c THEN "sampling" ELSE "locking"
           /\ r.node = IF c THEN None ELSE a
<1>1. r = [pc |-> IF c THEN "sampling" ELSE "locking", root |-> a, retired |-> {},
           rounds |-> 0, todo |-> {}, node |-> IF c THEN None ELSE a,
           canonical |-> c, last |-> l]
  BY DEF Reclaim, NoDeletion
<1>2. /\ (IF c THEN "sampling" ELSE "locking") \in DeletionSteps
      /\ 0 \in 0 .. SampleLimit /\ (IF c THEN None ELSE a) \in Agents \cup {None}
  BY TreeAssumption DEF DeletionSteps
<1> QED BY <1>1, <1>2 DEF DeletionRecords

\* A deletion that has just begun, with a sample or as the rollback of a product.
Begun(r, a) == /\ r.pc = "sampling" /\ r.node = None /\ r.canonical
               /\ r.root = a /\ r.todo = {} /\ r.retired = {}
BegunProduct(r, a) == /\ r.pc = "locking" /\ r.node = a /\ ~r.canonical
                      /\ r.root = a /\ r.todo = {} /\ r.retired = {}

\* Each way a deletion begins.
LEMMA ReclaimBegins ==
    ASSUME NEW a \in Agents
    PROVE  /\ Begun(Reclaim(a, TRUE, TRUE), a) /\ Begun(Reclaim(a, TRUE, FALSE), a)
           /\ BegunProduct(Reclaim(a, FALSE, TRUE), a)
           /\ BegunProduct(Reclaim(a, FALSE, FALSE), a)
BY DEF Reclaim, NoDeletion, Begun, BegunProduct

\* It is sound for the agent itself, and the request of a user is.
LEMMA ReclaimIsSound ==
    ASSUME NEW a \in Agents, NEW c \in BOOLEAN, NEW l \in BOOLEAN, NEW d,
           d = a \/ (d \notin Agents /\ c)
    PROVE  Sound(d, Reclaim(a, c, l)) /\ Reclaim(a, c, l).pc # "none"
<1> DEFINE r == Reclaim(a, c, l)
<1>1. /\ r \in DeletionRecords
      /\ r.root = a /\ r.canonical = c /\ r.last = l
      /\ r.todo = {} /\ r.retired = {} /\ r.rounds = 0
      /\ r.pc = IF c THEN "sampling" ELSE "locking"
      /\ r.node = IF c THEN None ELSE a
  BY ReclaimIs
<1> HIDE DEF r
<1>2. r.pc # "none" /\ Sound(d, r)
  BY <1>1, TreeAssumption DEF Sound, Held
<1> QED BY <1>2 DEF r

\* A deletion that goes to another step keeps the rest of its record.
LEMMA PcIs ==
    ASSUME NEW r \in DeletionRecords, NEW p \in DeletionSteps,
           NEW s, s = [r EXCEPT !.pc = p]
    PROVE  /\ s \in DeletionRecords /\ s.pc = p
           /\ s.root = r.root /\ s.retired = r.retired /\ s.rounds = r.rounds
           /\ s.todo = r.todo /\ s.node = r.node
           /\ s.canonical = r.canonical /\ s.last = r.last
BY DEF DeletionRecords

\* What a creation does when it goes on.
LEMMA GotoIs ==
    ASSUME CallsOK, NEW a \in Agents, NEW pc \in CreationSteps \ {"rollback"},
           creation[a] \notin {"none", "rollback"}, Goto(a, pc)
    PROVE  /\ CallsOK'
           /\ creation'[a] = pc /\ \A b \in Agents \ {a} : creation'[b] = creation[b]
           /\ UNCHANGED <<called, awaited, deletion, stranded>>
<1>1. /\ creation' \in [Agents -> CreationSteps]
      /\ creation'[a] = pc /\ \A b \in Agents \ {a} : creation'[b] = creation[b]
  BY DEF CallsOK, Goto
<1>2. UNCHANGED <<called, awaited, deletion, stranded>>
  BY DEF Goto
<1> QED BY <1>1, <1>2 DEF CallsOK

\* ... when it is over ...
LEMMA OverIs ==
    ASSUME CallsOK, NEW a \in Agents, creation[a] # "rollback", Over(a)
    PROVE  /\ CallsOK'
           /\ creation'[a] = "none" /\ \A b \in Agents \ {a} : creation'[b] = creation[b]
           /\ awaited' = awaited \ {a} /\ UNCHANGED <<called, deletion, stranded>>
<1>1. /\ creation' \in [Agents -> CreationSteps]
      /\ creation'[a] = "none" /\ \A b \in Agents \ {a} : creation'[b] = creation[b]
  BY DEF CallsOK, Over, CreationSteps, Unarmed
<1>2. awaited' = awaited \ {a} /\ UNCHANGED <<called, deletion, stranded>>
  BY DEF Over
<1> QED BY <1>1, <1>2 DEF CallsOK

\* ... and when it is rolled back.
LEMMA RollBackIs ==
    ASSUME CallsOK, NEW a \in Agents, creation[a] \in Product \cup Canonical, RollBack(a)
    PROVE  /\ CallsOK'
           /\ creation'[a] = "rollback" /\ \A b \in Agents \ {a} : creation'[b] = creation[b]
           /\ deletion[a].pc = "none"
           /\ deletion'[a] = Reclaim(a, creation[a] \in Canonical, FALSE)
           /\ \A d \in Deleters \ {a} : deletion'[d] = deletion[d]
           /\ UNCHANGED <<called, awaited, stranded>>
<1> DEFINE r == Reclaim(a, creation[a] \in Canonical, FALSE)
<1>0. (creation[a] \in Canonical) \in BOOLEAN
  OBVIOUS
<1>1. Sound(a, r) /\ r.pc # "none"
  BY <1>0, ReclaimIsSound, Zenon
<1>2. r \in DeletionRecords
  BY <1>1 DEF Sound
<1>3. deletion' = [deletion EXCEPT ![a] = r] /\ UNCHANGED <<called, awaited, stranded>>
  BY DEF RollBack
<1> HIDE DEF r
<1>4. /\ creation' \in [Agents -> CreationSteps]
      /\ creation'[a] = "rollback" /\ \A b \in Agents \ {a} : creation'[b] = creation[b]
  BY DEF CallsOK, RollBack, CreationSteps
<1>5. deletion[a].pc = "none"
  BY DEF CallsOK, Product, Canonical
<1>6. /\ deletion' \in [Deleters -> DeletionRecords]
      /\ deletion'[a] = r
      /\ \A d \in Deleters \ {a} : deletion'[d] = deletion[d]
  BY <1>2, <1>3, DeletersAre DEF CallsOK
<1>7. CallsOK'
  <2>1. Parent[a] \in Agents
    BY DEF CallsOK, Product, Canonical
  <2> QED BY <1>1, <1>3, <1>4, <1>6, <2>1, DeletersAre DEF CallsOK
<1> QED BY <1>3, <1>4, <1>5, <1>6, <1>7 DEF r

\* A deletion goes on, or the one of a user begins.
LEMMA BecomesIs ==
    ASSUME CallsOK, NEW d \in Deleters, d \in Agents => deletion[d].pc # "none",
           NEW r, Sound(d, r), r.pc # "none", Becomes(d, r)
    PROVE  /\ CallsOK'
           /\ deletion'[d] = r
           /\ \A e \in Deleters \ {d} : deletion'[e] = deletion[e]
           /\ UNCHANGED <<called, creation, awaited, stranded>>
<1>1. UNCHANGED <<called, creation, awaited, stranded>>
  BY DEF Becomes
<1>2. r \in DeletionRecords
  BY DEF Sound
<1>3. /\ deletion' \in [Deleters -> DeletionRecords]
      /\ deletion'[d] = r
      /\ \A e \in Deleters \ {d} : deletion'[e] = deletion[e]
  BY <1>2 DEF CallsOK, Becomes
<1> QED BY <1>1, <1>3, DeletersAre DEF CallsOK

\* A deletion ends: a rollback that failed is tried once more, and an agent is
\* left halfway when that fails.
LEMMA EndsIs ==
    ASSUME CallsOK, NEW d \in Deleters, deletion[d].pc # "none", NEW ok \in BOOLEAN, Ends(d, ok)
    PROVE  /\ CallsOK'
           /\ \A e \in Deleters \ {d} : deletion'[e] = deletion[e]
           /\ \A b \in Agents \ {d} : creation'[b] = creation[b]
           /\ stranded \subseteq stranded'
           /\ \/ /\ deletion'[d] = NoDeletion
                 /\ d \in Agents => creation'[d] = "none" /\ (ok \/ d \in stranded')
              \/ /\ d \in Agents /\ ~ok /\ creation' = creation
                 /\ deletion'[d] = Reclaim(d, deletion[d].canonical, TRUE)
<1> DEFINE again == d \in Agents /\ ~ok /\ ~deletion[d].last
           r == IF again THEN Reclaim(d, deletion[d].canonical, TRUE) ELSE NoDeletion
<1>1. deletion[d] \in DeletionRecords
  BY DEF CallsOK
<1>2. deletion[d].canonical \in BOOLEAN
  BY <1>1 DEF DeletionRecords
<1>3. Sound(d, r) /\ (r.pc = "none" <=> ~again)
  BY <1>2, ReclaimIsSound, NoneIsSound
<1>4. r \in DeletionRecords
  BY <1>3 DEF Sound
<1>5. /\ deletion' = [deletion EXCEPT ![d] = r]
      /\ creation' = IF d \in Agents /\ ~again THEN [creation EXCEPT ![d] = "none"] ELSE creation
      /\ stranded' = IF d \in Agents /\ ~ok /\ ~again THEN stranded \cup {d} ELSE stranded
      /\ awaited' = awaited \ {d} /\ called' = called
  BY DEF Ends
<1>6. r = NoDeletion \/ (again /\ r = Reclaim(d, deletion[d].canonical, TRUE))
  OBVIOUS
<1> HIDE DEF r
<1>7. /\ deletion' \in [Deleters -> DeletionRecords]
      /\ deletion'[d] = r /\ \A e \in Deleters \ {d} : deletion'[e] = deletion[e]
  BY <1>4, <1>5 DEF CallsOK
<1>8. creation \in [Agents -> CreationSteps] /\ "none" \in CreationSteps
  BY DEF CallsOK, CreationSteps, Unarmed
<1>9. /\ creation' \in [Agents -> CreationSteps]
      /\ \A b \in Agents \ {d} : creation'[b] = creation[b]
      /\ d \in Agents => creation'[d] = IF again THEN creation[d] ELSE "none"
      /\ again => creation' = creation
  BY <1>5, <1>8
<1>10. called' \subseteq Agents /\ awaited' \subseteq Agents /\ stranded' \subseteq Agents
  BY <1>5 DEF CallsOK
<1>11. d \in Agents => creation[d] = "rollback"
  BY DEF CallsOK
<1>12. \A e \in Deleters : Sound(e, deletion'[e])
  BY <1>3, <1>7 DEF CallsOK
<1>13. \A a \in Agents : creation'[a] = "rollback" <=> deletion'[a].pc # "none"
  BY <1>3, <1>7, <1>9, <1>11, DeletersAre DEF CallsOK
<1>14. CallsOK'
  BY <1>7, <1>9, <1>10, <1>12, <1>13 DEF CallsOK
<1>15. stranded \subseteq stranded' /\ (d \in Agents /\ ~again => ok \/ d \in stranded')
  BY <1>5
<1>16. CASE again
  BY <1>3, <1>6, <1>7, <1>9, <1>14, <1>15, <1>16, NoneIsSound
<1>17. CASE ~again
  BY <1>6, <1>7, <1>9, <1>14, <1>15, <1>17
<1> QED BY <1>16, <1>17

\* What AfterDrop(S) and Background(S) are of the creations and the deletions.
Dropping(S, A, B) ==
    /\ A \in [Agents -> CreationSteps]
    /\ B \in [Deleters -> DeletionRecords]
    /\ Abandoned(S) \subseteq Agents
    /\ \A d \in Deleters : Sound(d, B[d])
    /\ \A a \in Agents : A[a] = "rollback" <=> B[a].pc # "none"
    /\ \A a \in Agents \ S : A[a] = creation[a]
    /\ \A d \in Deleters \ S : B[d] = deletion[d]
    /\ \A a \in S : creation[a] \in Unarmed =>
         /\ A[a] = "none" /\ B[a] = deletion[a]
         /\ deletion[a].pc = "none" /\ (creation[a] = "listing" => a \in Abandoned(S))
    /\ \A a \in S : creation[a] \notin Unarmed =>
         /\ A[a] = "rollback"
         /\ \/ B[a] = Reclaim(a, TRUE, TRUE)
            \/ /\ B[a] = Reclaim(a, FALSE, TRUE)
               /\ ~deletion[a].canonical \/ creation[a] \in Product

\* The futures of some creations are dropped: those under way are rolled back in
\* the background, the others are none.
LEMMA DropIs ==
    ASSUME CallsOK, NEW S \in SUBSET Agents,
           NEW A, A = AfterDrop(S), NEW B, B = Background(S)
    PROVE  Dropping(S, A, B)
<1> DEFINE kind(d) == IF creation[d] = "rollback" THEN deletion[d].canonical
                      ELSE creation[d] \in Canonical
<1>1. \A d \in Deleters : B[d] = IF d \notin S \/ creation[d] \in Unarmed THEN deletion[d]
                                ELSE Reclaim(d, kind(d), TRUE)
  BY DEF Background
<1>2. \A a \in Agents : A[a] = IF a \notin S THEN creation[a]
                              ELSE IF creation[a] \in Unarmed THEN "none" ELSE "rollback"
  BY DEF AfterDrop
<1>3. \A d \in Deleters : deletion[d] \in DeletionRecords /\ Sound(d, deletion[d])
  BY DEF CallsOK
<1>4. \A a \in Agents : kind(a) \in BOOLEAN
  <2>1. ASSUME NEW a \in Agents PROVE deletion[a].canonical \in BOOLEAN
    <3>1. deletion[a] \in DeletionRecords
      BY <1>3, DeletersAre
    <3> QED BY <3>1 DEF DeletionRecords
  <2>2. \A a \in Agents : (creation[a] \in Canonical) \in BOOLEAN
    OBVIOUS
  <2> QED BY <2>1, <2>2
<1>5. \A a \in Agents : creation[a] \in CreationSteps
                       /\ (creation[a] = "rollback" <=> deletion[a].pc # "none")
  BY DEF CallsOK
<1>6. \A a \in Agents : /\ Sound(a, Reclaim(a, kind(a), TRUE))
                       /\ Reclaim(a, kind(a), TRUE).pc # "none"
                       /\ Reclaim(a, kind(a), TRUE) \in DeletionRecords
  <2>1. \A a \in Agents : /\ Sound(a, Reclaim(a, kind(a), TRUE))
                         /\ Reclaim(a, kind(a), TRUE).pc # "none"
    BY <1>4, ReclaimIsSound
  <2> QED BY <2>1 DEF Sound
<1>7. \A a \in Agents : creation[a] \notin Unarmed /\ ~kind(a) =>
                         ~deletion[a].canonical \/ creation[a] \in Product
  BY <1>5 DEF CreationSteps
<1>8. A \in [Agents -> CreationSteps]
  BY <1>5 DEF AfterDrop, CreationSteps, Unarmed
<1>9. Abandoned(S) \subseteq Agents /\ \A a \in S : creation[a] = "listing" => a \in Abandoned(S)
  BY DEF Abandoned
<1>10. \A a \in Agents : creation[a] \in Unarmed => deletion[a].pc = "none"
  BY <1>5 DEF Unarmed
<1> DEFINE new(a) == Reclaim(a, kind(a), TRUE)
<1>11. \A d \in Deleters : B[d] = IF d \notin S \/ creation[d] \in Unarmed THEN deletion[d]
                                 ELSE new(d)
  BY <1>1
<1>12. \A a \in Agents : Sound(a, new(a)) /\ new(a).pc # "none" /\ new(a) \in DeletionRecords
  BY <1>6
<1>13. \A a \in Agents : creation[a] \notin Unarmed =>
          \/ new(a) = Reclaim(a, TRUE, TRUE)
          \/ /\ new(a) = Reclaim(a, FALSE, TRUE)
             /\ ~deletion[a].canonical \/ creation[a] \in Product
  BY <1>4, <1>7
<1> HIDE DEF new, kind
<1>14. B \in [Deleters -> DeletionRecords]
  <2>1. B = [d \in Deleters |-> B[d]]
    BY DEF Background
  <2> QED BY <1>3, <1>11, <1>12, <2>1
<1>15. \A d \in Deleters : Sound(d, B[d])
  BY <1>3, <1>11, <1>12
<1>16. \A a \in Agents : A[a] = "rollback" <=> B[a].pc # "none"
  BY <1>2, <1>5, <1>10, <1>11, <1>12, DeletersAre
<1>17. \A a \in S : creation[a] \in Unarmed =>
          /\ A[a] = "none" /\ B[a] = deletion[a]
          /\ deletion[a].pc = "none" /\ (creation[a] = "listing" => a \in Abandoned(S))
  BY <1>2, <1>9, <1>10, <1>11, DeletersAre
<1>18. \A a \in S : creation[a] \notin Unarmed => A[a] = "rollback" /\ B[a] = new(a)
  BY <1>2, <1>11, DeletersAre
<1>19. \A a \in S : creation[a] \notin Unarmed =>
          /\ A[a] = "rollback"
          /\ \/ B[a] = Reclaim(a, TRUE, TRUE)
             \/ /\ B[a] = Reclaim(a, FALSE, TRUE)
                /\ ~deletion[a].canonical \/ creation[a] \in Product
  BY <1>13, <1>18
<1>20. /\ \A a \in Agents \ S : A[a] = creation[a]
       /\ \A d \in Deleters \ S : B[d] = deletion[d]
  BY <1>2, <1>11
<1> QED BY <1>8, <1>9, <1>14, <1>15, <1>16, <1>17, <1>19, <1>20 DEF Dropping

\* Between the locks and the end of a node a deletion only changes its step.
LEMMA HeldIsSound ==
    ASSUME NEW d, NEW r, Sound(d, r), r.pc \in Held \cup {"locking"},
           NEW p \in Held, p = "closing" => r.canonical,
           NEW s, s = [r EXCEPT !.pc = p]
    PROVE  Sound(d, s)
<1>1. r \in DeletionRecords /\ p \in DeletionSteps
  BY DEF Sound, DeletionSteps
<1>2. /\ s \in DeletionRecords /\ s.pc = p
      /\ s.root = r.root /\ s.retired = r.retired /\ s.rounds = r.rounds
      /\ s.todo = r.todo /\ s.node = r.node
      /\ s.canonical = r.canonical /\ s.last = r.last
  BY <1>1, PcIs
<1>3. s.pc \notin {"none", "sampling", "marking"}
  BY <1>2 DEF Held
<1> QED BY <1>2, <1>3 DEF Sound, Held

\* A node of a sample that was marked.
LEMMA NodeIsSound ==
    ASSUME NEW d, NEW r, Sound(d, r), r.pc # "none", r.canonical,
           NEW s \in DeletionRecords, s.pc = "locking", s.node \in s.todo,
           s.todo \subseteq r.retired, \A b \in s.todo : r.root \in Line[b],
           s.root = r.root, s.retired = r.retired, s.canonical = r.canonical
    PROVE  Sound(d, s)
BY DEF Sound, DeletionRecords

\* Marks to be set, and set.
LEMMA MarkIsSound ==
    ASSUME NEW d, NEW r, Sound(d, r), r.pc # "none", r.canonical, r.node = None,
           NEW s \in DeletionRecords, s.pc \in {"marking", "sampling"}, s.node = r.node,
           \A b \in s.todo : r.root \in Line[b], s.root = r.root, s.canonical = r.canonical
    PROVE  Sound(d, s)
BY DEF Sound, Held

\* The agents of a subtree are listed and below its root.
LEMMA SubtreeIs ==
    ASSUME AgentsOK, NEW a \in Agents
    PROVE  Subtree(a) \in SUBSET Agents /\ \A b \in Subtree(a) : b \in listed /\ a \in Line[b]
BY DEF AgentsOK, Subtree

\* What a new sample does to the deletion.
LEMMA SampleIs ==
    ASSUME Shape, NEW d \in Deleters, Sample(d)
    PROVE  /\ CallsOK' /\ deletion[d].pc = "sampling" /\ deletion[d].root \in Agents
           /\ \/ deletion[d].root \notin listed /\ Ends(d, TRUE)
              \/ /\ deletion'[d].pc \in {"marking", "locking"}
                 /\ deletion'[d].canonical /\ deletion'[d].retired = deletion[d].retired
                 /\ \A e \in Deleters \ {d} : deletion'[e] = deletion[e]
                 /\ UNCHANGED <<called, creation, awaited, stranded>>
                 /\ deletion'[d].todo = Subtree(deletion[d].root)
                 /\ deletion'[d].pc = "marking" => deletion'[d].node = None
                 /\ deletion'[d].pc = "locking" =>
                      /\ Subtree(deletion[d].root) \subseteq deletion[d].retired
                      /\ Leaf(deletion'[d].todo, deletion'[d].node)
<1> DEFINE r == deletion[d]
           targets == Subtree(r.root)
<1>1. CallsOK /\ AgentsOK /\ Sound(d, r) /\ r.pc = "sampling"
  BY DEF Shape, CallsOK, Sample, At
<1>2. r.root \in Agents /\ r.canonical /\ r.node = None /\ r \in DeletionRecords
  BY <1>1 DEF Sound
<1>3. targets \in SUBSET Agents /\ \A b \in targets : r.root \in Line[b]
  BY <1>1, <1>2, SubtreeIs
<1>4. CASE r.root \notin listed
  <2>1. Ends(d, TRUE)
    BY <1>4 DEF Sample
  <2>2. CallsOK'
    BY <1>1, <2>1, EndsIs
  <2> QED BY <1>1, <1>2, <1>4, <2>1, <2>2
<1>5. CASE r.root \in listed /\ targets \subseteq r.retired
  <2>1. PICK n \in targets : /\ Leaf(targets, n)
                             /\ Becomes(d, [r EXCEPT !.pc = "locking", !.node = n,
                                                      !.todo = targets])
    BY <1>5 DEF Sample
  <2> DEFINE s == [r EXCEPT !.pc = "locking", !.node = n, !.todo = targets]
  <2> HIDE DEF targets, r
  <2>3. Becomes(d, s)
    BY <2>1
  <2>2. /\ s \in DeletionRecords
        /\ s.pc = "locking" /\ s.node = n /\ s.todo = targets
        /\ s.root = r.root /\ s.retired = r.retired /\ s.canonical = r.canonical
    BY <1>2, <1>3 DEF DeletionRecords, DeletionSteps
  <2> HIDE DEF s
  <2>5. Sound(d, s)
    <3>1. r.pc # "none"
      BY <1>1
    <3> QED BY <1>1, <1>2, <1>3, <1>5, <2>2, <3>1, NodeIsSound
  <2>4. /\ CallsOK' /\ deletion'[d] = s
        /\ \A e \in Deleters \ {d} : deletion'[e] = deletion[e]
        /\ UNCHANGED <<called, creation, awaited, stranded>>
    BY <1>1, <2>2, <2>3, <2>5, BecomesIs DEF r
  <2> QED BY <1>1, <1>2, <1>5, <2>1, <2>2, <2>4 DEF r, targets
<1>6. CASE r.root \in listed /\ ~(targets \subseteq r.retired)
  <2> DEFINE s == [r EXCEPT !.pc = "marking", !.todo = targets]
  <2>1. Becomes(d, s)
    BY <1>6 DEF Sample
  <2> HIDE DEF targets, r
  <2>3. /\ s \in DeletionRecords
        /\ s.pc = "marking" /\ s.todo = targets /\ s.retired = r.retired
        /\ s.node = r.node /\ s.canonical = r.canonical /\ s.root = r.root
    BY <1>2, <1>3 DEF DeletionRecords, DeletionSteps
  <2>5. r.pc # "none"
    BY <1>1
  <2> HIDE DEF s
  <2>2. Sound(d, s) /\ s.node = None /\ s.canonical
    BY <1>1, <1>2, <1>3, <2>3, <2>5, MarkIsSound
  <2>4. /\ CallsOK' /\ deletion'[d] = s
        /\ \A e \in Deleters \ {d} : deletion'[e] = deletion[e]
        /\ UNCHANGED <<called, creation, awaited, stranded>>
    BY <1>1, <2>1, <2>2, <2>3, BecomesIs DEF r
  <2> QED BY <1>1, <1>2, <2>2, <2>3, <2>4 DEF r, targets
<1> QED BY <1>4, <1>5, <1>6

\* The marks only grow, and no node is chosen.
LEMMA MarkIs ==
    ASSUME Shape, NEW d \in Deleters, Mark(d)
    PROVE  /\ CallsOK' /\ deletion[d].pc = "marking" /\ deletion[d].canonical
           /\ \/ Ends(d, FALSE)
              \/ /\ deletion'[d].pc = "sampling" /\ deletion'[d].canonical
                 /\ deletion'[d].node = None /\ deletion'[d].todo = deletion[d].todo
                 /\ deletion[d].retired \subseteq deletion'[d].retired
                 /\ \A e \in Deleters \ {d} : deletion'[e] = deletion[e]
                 /\ UNCHANGED <<called, creation, awaited, stranded>>
<1> DEFINE r == deletion[d]
           s == [r EXCEPT !.pc = "sampling", !.rounds = @ + 1, !.retired = @ \cup r.todo]
<1>1. CallsOK /\ Sound(d, r) /\ r.pc = "marking"
  BY DEF Shape, CallsOK, Mark, At
<1>2. r.canonical /\ r.node = None /\ r \in DeletionRecords
  BY <1>1 DEF Sound
<1>3. CASE r.rounds = SampleLimit
  <2>1. Ends(d, FALSE)
    BY <1>3 DEF Mark
  <2>2. CallsOK'
    BY <1>1, <2>1, EndsIs
  <2> QED BY <1>1, <1>2, <2>1, <2>2
<1>4. CASE r.rounds # SampleLimit
  <2>1. Becomes(d, s)
    BY <1>4 DEF Mark
  <2> HIDE DEF r
  <2>2. r.todo \in SUBSET Agents /\ \A b \in r.todo : r.root \in Line[b]
    BY <1>1, <1>2 DEF Sound, DeletionRecords
  <2>6. r.rounds + 1 \in 0 .. SampleLimit /\ r.retired \cup r.todo \in SUBSET Agents
    BY <1>2, <1>4, TreeAssumption DEF DeletionRecords
  <2>4. /\ s \in DeletionRecords
        /\ s.pc = "sampling" /\ s.todo = r.todo /\ r.retired \subseteq s.retired
        /\ s.node = r.node /\ s.canonical = r.canonical /\ s.root = r.root
    BY <1>2, <2>6 DEF DeletionRecords, DeletionSteps
  <2>7. r.pc # "none"
    BY <1>1
  <2> HIDE DEF s
  <2>3. Sound(d, s) /\ s.node = None /\ s.canonical /\ r.retired \subseteq s.retired
    BY <1>1, <1>2, <2>2, <2>4, <2>7, MarkIsSound
  <2>5. /\ CallsOK' /\ deletion'[d] = s
        /\ \A e \in Deleters \ {d} : deletion'[e] = deletion[e]
        /\ UNCHANGED <<called, creation, awaited, stranded>>
    BY <1>1, <2>1, <2>3, <2>4, BecomesIs DEF r
  <2> QED BY <1>1, <1>2, <2>3, <2>4, <2>5 DEF r
<1> QED BY <1>3, <1>4

\* The lock and the steps under it: only the step changes.
LEMMA ThenIs ==
    ASSUME CallsOK, NEW d \in Deleters, deletion[d].pc \in Held \cup {"locking"},
           NEW p \in Held, p = "closing" => deletion[d].canonical, Then(d, p)
    PROVE  /\ CallsOK' /\ deletion'[d].pc = p /\ deletion'[d].node = deletion[d].node
           /\ deletion'[d].todo = deletion[d].todo
           /\ deletion'[d].retired = deletion[d].retired
           /\ deletion'[d].canonical = deletion[d].canonical
           /\ \A e \in Deleters \ {d} : deletion'[e] = deletion[e]
           /\ UNCHANGED <<called, creation, awaited, stranded>>
<1> DEFINE r == deletion[d]
           s == [r EXCEPT !.pc = p]
<1>1. Sound(d, r) /\ r \in DeletionRecords /\ p \in DeletionSteps /\ p # "none" /\ r.pc # "none"
  BY DEF CallsOK, DeletionSteps, Held
<1>2. Becomes(d, s)
  BY DEF Then
<1> HIDE DEF r
<1>3. /\ s \in DeletionRecords /\ s.pc = p
      /\ s.root = r.root /\ s.retired = r.retired /\ s.rounds = r.rounds
      /\ s.todo = r.todo /\ s.node = r.node
      /\ s.canonical = r.canonical /\ s.last = r.last
  BY <1>1, PcIs
<1>4. Sound(d, s)
  BY <1>1, HeldIsSound DEF r
<1> HIDE DEF s
<1>5. /\ CallsOK' /\ deletion'[d] = s
      /\ \A e \in Deleters \ {d} : deletion'[e] = deletion[e]
      /\ UNCHANGED <<called, creation, awaited, stranded>>
  BY <1>1, <1>2, <1>3, <1>4, BecomesIs DEF r
<1> QED BY <1>3, <1>5 DEF r

\* The node is done, and another of the sample follows, if there is one.
LEMMA ForgetIs ==
    ASSUME Shape, NEW d \in Deleters, Forget(d)
    PROVE  /\ CallsOK' /\ deletion[d].pc = "forgetting" /\ deletion[d].node \in Agents
           /\ \/ deletion[d].todo \subseteq {deletion[d].node} /\ Ends(d, TRUE)
              \/ /\ deletion'[d].pc = "locking" /\ deletion'[d].canonical
                 /\ deletion[d].canonical
                 /\ deletion'[d].todo = deletion[d].todo \ {deletion[d].node}
                 /\ deletion'[d].retired = deletion[d].retired
                 /\ Leaf(deletion'[d].todo, deletion'[d].node)
                 /\ \A e \in Deleters \ {d} : deletion'[e] = deletion[e]
                 /\ UNCHANGED <<called, creation, awaited, stranded>>
<1> DEFINE r == deletion[d]
           todo == r.todo \ {r.node}
<1>1. CallsOK /\ Sound(d, r) /\ r.pc = "forgetting"
  BY DEF Shape, CallsOK, Forget, At
<1>2. r.node \in Agents /\ r \in DeletionRecords
  BY <1>1 DEF Sound, Held
<1>3. CASE todo = {}
  <2>1. Ends(d, TRUE)
    BY <1>3 DEF Forget
  <2>2. CallsOK'
    BY <1>1, <2>1, EndsIs
  <2> QED BY <1>1, <1>2, <1>3, <2>1, <2>2
<1>4. CASE todo # {}
  <2>1. PICK n \in todo : /\ Leaf(todo, n)
                          /\ Becomes(d, [r EXCEPT !.pc = "locking", !.node = n, !.todo = todo])
    BY <1>4 DEF Forget
  <2> DEFINE s == [r EXCEPT !.pc = "locking", !.node = n, !.todo = todo]
  <2>2. r.canonical
    <3>1. CASE ~r.canonical
      <4>1. d \in Agents /\ r.node = d /\ r.todo = {}
        BY <1>1, <3>1 DEF Sound
      <4> QED BY <1>4, <4>1
    <3> QED BY <3>1
  <2>3. /\ todo \in SUBSET Agents /\ todo \subseteq r.retired /\ None \notin Agents
        /\ \A b \in todo : r.root \in Line[b]
    BY <1>1, <1>2, <2>2, TreeAssumption DEF Sound, DeletionRecords
  <2> HIDE DEF todo, r
  <2>5. Becomes(d, s)
    BY <2>1
  <2>7. /\ s \in DeletionRecords
        /\ s.pc = "locking" /\ s.node = n /\ s.todo = todo
        /\ s.root = r.root /\ s.retired = r.retired /\ s.canonical = r.canonical
    BY <1>2, <2>3 DEF DeletionRecords, DeletionSteps
  <2> HIDE DEF s
  <2>4. Sound(d, s)
    <3>1. r.pc # "none"
      BY <1>1
    <3> QED BY <1>1, <2>2, <2>3, <2>7, <3>1, NodeIsSound
  <2>6. /\ CallsOK' /\ deletion'[d] = s
        /\ \A e \in Deleters \ {d} : deletion'[e] = deletion[e]
        /\ UNCHANGED <<called, creation, awaited, stranded>>
    BY <1>1, <2>4, <2>5, <2>7, BecomesIs DEF r
  <2> QED BY <1>1, <1>2, <2>1, <2>2, <2>6, <2>7 DEF r, todo
<1> QED BY <1>3, <1>4

\* The futures of the creations S are dropped in a step; the deleters of D do
\* something else.
Fell(S, D) ==
    /\ \A b \in Agents \ S : creation'[b] = creation[b]
    /\ \A d \in Deleters \ (S \cup D) : deletion'[d] = deletion[d]
    /\ \A b \in S : creation[b] \in Unarmed =>
         /\ creation'[b] = "none" /\ deletion'[b] = deletion[b]
         /\ deletion[b].pc = "none" /\ (creation[b] = "listing" => b \in stranded')
    /\ \A b \in S : creation[b] \notin Unarmed =>
         /\ creation'[b] = "rollback"
         /\ \/ deletion'[b] = Reclaim(b, TRUE, TRUE)
            \/ /\ deletion'[b] = Reclaim(b, FALSE, TRUE)
               /\ ~deletion[b].canonical \/ creation[b] \in Product
    /\ stranded \subseteq stranded'

\* A turn is cancelled, and some of the calls in it are dropped.
LEMMA InterruptIs ==
    ASSUME Shape, NEW a \in Agents, Interrupt(a)
    PROVE  CallsOK' /\ \E S \in SUBSET (awaited \cap Children(a)) : Fell(S, {})
<1>1. CallsOK
  BY DEF Shape
<1>2. PICK S \in SUBSET (awaited \cap Children(a)) :
         /\ creation' = AfterDrop(S) /\ deletion' = Background(S)
         /\ stranded' = stranded \cup Abandoned(S)
  BY DEF Interrupt
<1>3. awaited' = awaited \ Children(a) /\ called' = called
  BY DEF Interrupt
<1>4. S \in SUBSET Agents
  BY <1>1 DEF CallsOK
<1>5. Dropping(S, creation', deletion')
  BY <1>1, <1>2, <1>4, DropIs
<1>6. CallsOK'
  <2>1. \A b \in Agents : creation'[b] # "none" => creation[b] # "none"
    BY <1>5 DEF Dropping, Unarmed
  <2> QED BY <1>1, <1>2, <1>3, <1>5, <2>1 DEF CallsOK, Dropping
<1>7. Fell(S, {})
  BY <1>2, <1>5 DEF Fell, Dropping
<1> QED BY <1>6, <1>7

\* The thread of a node is closed, and some of the calls in its turn are dropped;
\* the deletion itself is none of them.
LEMMA CloseIs ==
    ASSUME Shape, NEW d \in Deleters, CloseThread(d)
    PROVE  /\ CallsOK' /\ deletion[d].pc = "closing" /\ deletion[d].canonical
           /\ deletion[d].node \in Agents
           /\ deletion'[d].pc = "leasing" /\ deletion'[d].node = deletion[d].node
           /\ deletion'[d].todo = deletion[d].todo
           /\ deletion'[d].retired = deletion[d].retired
           /\ deletion'[d].canonical
           /\ \E S \in SUBSET (awaited \cap Children(deletion[d].node)) :
                Fell(S, {d}) /\ d \notin S
<1> DEFINE n == deletion[d].node
<1>1. CallsOK /\ Sound(d, deletion[d]) /\ deletion[d].pc = "closing"
  BY DEF Shape, CallsOK, CloseThread, At
<1>2. /\ deletion[d].canonical /\ n \in Agents /\ n \in deletion[d].todo
      /\ deletion[d].root \in Agents /\ (d \in Agents => deletion[d].root = d)
      /\ deletion[d].root \in Line[n]
  BY <1>1, TreeAssumption DEF Sound, Held
<1>3. PICK S \in SUBSET (awaited \cap Children(n)) :
         /\ creation' = AfterDrop(S)
         /\ deletion' = [Background(S) EXCEPT ![d].pc = "leasing"]
         /\ stranded' = stranded \cup Abandoned(S)
  BY DEF CloseThread
<1>4. awaited' = awaited \ Children(n) /\ called' = called
  BY DEF CloseThread
<1>5. S \in SUBSET Agents
  BY <1>1 DEF CallsOK
<1>6. d \notin S
  <2> SUFFICES ASSUME d \in S PROVE FALSE
    OBVIOUS
  <2>1. d \in Agents /\ Parent[d] = n
    BY <1>5 DEF Children
  <2>2. Parent[d] # None
    BY <1>2, <2>1, TreeAssumption
  <2> QED BY <1>2, <2>1, <2>2, LineEnds
<1> DEFINE B == Background(S)
           s == [deletion[d] EXCEPT !.pc = "leasing"]
<1>7. Dropping(S, creation', B)
  BY <1>1, <1>3, <1>5, DropIs
<1>8. B[d] = deletion[d] /\ deletion' = [B EXCEPT ![d] = s]
  BY <1>3, <1>6, <1>7 DEF Dropping
<1>9. /\ s \in DeletionRecords /\ s.pc = "leasing"
      /\ s.root = deletion[d].root /\ s.retired = deletion[d].retired
      /\ s.rounds = deletion[d].rounds /\ s.todo = deletion[d].todo
      /\ s.node = deletion[d].node
      /\ s.canonical = deletion[d].canonical /\ s.last = deletion[d].last
  <2>1. deletion[d] \in DeletionRecords
    BY <1>1 DEF CallsOK
  <2> QED BY <2>1 DEF DeletionRecords, DeletionSteps, Held
<1>10. Sound(d, s)
  <2>1. "leasing" \in Held /\ "leasing" # "closing" /\ deletion[d].pc \in Held \cup {"locking"}
    BY <1>1 DEF Held
  <2> QED BY <1>1, <2>1, HeldIsSound
<1> HIDE DEF s, B
<1>11. /\ deletion' \in [Deleters -> DeletionRecords]
       /\ deletion'[d] = s /\ \A e \in Deleters \ {d} : deletion'[e] = B[e]
  BY <1>7, <1>8, <1>9 DEF Dropping
<1>12. \A e \in Deleters : Sound(e, deletion'[e])
  BY <1>7, <1>10, <1>11 DEF Dropping
<1>13. \A b \in Agents : creation'[b] = "rollback" <=> deletion'[b].pc # "none"
  BY <1>1, <1>7, <1>8, <1>9, <1>11, DeletersAre DEF Dropping
<1>14. CallsOK'
  <2>1. \A b \in Agents : creation'[b] # "none" => creation[b] # "none"
    BY <1>7 DEF Dropping, Unarmed
  <2>2. \A b \in Agents : creation'[b] # "none" => Parent[b] \in Agents
    BY <1>1, <2>1 DEF CallsOK
  <2>3. /\ creation' \in [Agents -> CreationSteps]
        /\ called' \subseteq Agents /\ awaited' \subseteq Agents /\ stranded' \subseteq Agents
    BY <1>1, <1>3, <1>4, <1>7 DEF CallsOK, Dropping
  <2> QED BY <1>11, <1>12, <1>13, <2>2, <2>3 DEF CallsOK
<1>15. Fell(S, {d})
  <2>1. \A e \in Deleters \ {d} : deletion'[e] = B[e]
    BY <1>11
  <2>2. stranded' = stranded \cup Abandoned(S) /\ \A b \in S : b \in Deleters \ {d}
    BY <1>3, <1>5, <1>6, DeletersAre
  <2> QED BY <1>7, <2>1, <2>2 DEF Fell, Dropping
<1> QED BY <1>1, <1>2, <1>3, <1>6, <1>9, <1>11, <1>14, <1>15

\* At first nobody creates or deletes.
LEMMA InitShape == Init => Shape
<1> SUFFICES ASSUME Init PROVE Shape
  OBVIOUS
<1>1. AgentsOK
  BY TreeAssumption DEF Init, AgentsOK
<1>2. /\ creation \in [Agents -> CreationSteps] /\ \A a \in Agents : creation[a] = "none"
      /\ called = {} /\ awaited = {} /\ stranded = {}
  BY DEF Init, CreationSteps, Unarmed
<1>3. NoDeletion \in DeletionRecords
  BY NoneIsSound DEF Sound
<1>4. /\ deletion \in [Deleters -> DeletionRecords]
      /\ \A d \in Deleters : deletion[d] = NoDeletion
  BY <1>3 DEF Init
<1>5. CallsOK
  BY <1>2, <1>4, NoneIsSound, DeletersAre DEF CallsOK
<1> QED BY <1>1, <1>5 DEF Shape

\* A call of the parent's turn begins a creation.
LEMMA SpawnIs ==
    ASSUME CallsOK, NEW a \in Agents, Parent[a] # None, Spawn(a)
    PROVE  /\ CallsOK' /\ creation[a] = "none" /\ creation'[a] = "parent"
           /\ \A b \in Agents \ {a} : creation'[b] = creation[b]
           /\ UNCHANGED <<deletion, stranded>>
<1>1. /\ creation' \in [Agents -> CreationSteps]
      /\ creation[a] = "none" /\ creation'[a] = "parent"
      /\ \A b \in Agents \ {a} : creation'[b] = creation[b]
      /\ called' = called \cup {a} /\ awaited' = awaited \cup {a}
      /\ UNCHANGED <<deletion, stranded>>
  BY DEF CallsOK, Spawn, CreationSteps, Unarmed
<1>2. Parent[a] \in Agents
  BY LineIs
<1> QED BY <1>1, <1>2 DEF CallsOK

\* The end of the server ends everything, and leaves the creations halfway.
LEMMA RestartIs ==
    ASSUME CallsOK, Restart
    PROVE  /\ CallsOK'
           /\ \A a \in Agents : creation'[a] = "none"
           /\ \A d \in Deleters : deletion'[d] = NoDeletion
           /\ stranded \subseteq stranded'
           /\ \A a \in Agents : creation[a] \notin {"none", "parent", "inserting"} =>
                a \in stranded'
<1>1. /\ creation' = [a \in Agents |-> "none"] /\ deletion' = [d \in Deleters |-> NoDeletion]
      /\ called' = {} /\ awaited' = {}
      /\ stranded' = stranded \cup
                     {a \in Agents : creation[a] \notin {"none", "parent", "inserting"}}
  BY DEF Restart
<1>2. NoDeletion \in DeletionRecords /\ "none" \in CreationSteps
  BY NoneIsSound DEF Sound, CreationSteps, Unarmed
<1>3. CallsOK'
  BY <1>1, <1>2, NoneIsSound, DeletersAre DEF CallsOK
<1> QED BY <1>1, <1>3

\* What is left is the calls as they were.
LEMMA CallsStay == CallsOK /\ UNCHANGED calls => CallsOK'
BY DEF CallsOK, calls

\* The steps of a creation under the types.
LEMMA CreationCalls ==
    ASSUME CallsOK, NEW a \in Agents, CreationStep(a) \/ CreationFails(a)
    PROVE  CallsOK'
<1>1. ASSUME NEW pc \in CreationSteps \ {"rollback"}, creation[a] \notin {"none", "rollback"},
             Goto(a, pc)
      PROVE  CallsOK'
  BY <1>1, GotoIs
<1>2. ASSUME creation[a] # "rollback", Over(a) PROVE CallsOK'
  BY <1>2, OverIs
<1>3. ASSUME creation[a] \in Product \cup Canonical, RollBack(a) PROVE CallsOK'
  BY <1>3, RollBackIs
<1>4. /\ {"inserting", "listing", "volume", "environment", "publishing", "lineage"}
           \cup Canonical \subseteq CreationSteps
      /\ "rollback" \notin Unarmed \cup Product \cup Canonical
  BY DEF CreationSteps, Unarmed, Product, Canonical
<1> USE DEF Product, Canonical
<1>5. CASE ParentContainer(a)
  BY <1>1, <1>2, <1>4, <1>5 DEF ParentContainer
<1>6. CASE Insert(a)
  BY <1>1, <1>2, <1>4, <1>6 DEF Insert
<1>7. CASE List(a)
  BY <1>1, <1>4, <1>7 DEF List
<1>8. CASE Volume(a)
  BY <1>1, <1>4, <1>8 DEF Volume
<1>9. CASE Create(a)
  BY <1>1, <1>3, <1>4, <1>9 DEF Create
<1>10. CASE Publish(a)
  BY <1>1, <1>4, <1>10 DEF Publish
<1>11. CASE Lineage(a)
  BY <1>1, <1>3, <1>4, <1>11 DEF Lineage
<1>12. CASE Register(a)
  BY <1>1, <1>3, <1>4, <1>12 DEF Register
<1>13. CASE Check(a)
  BY <1>1, <1>3, <1>4, <1>13 DEF Check
<1>14. CASE Commit(a)
  BY <1>2, <1>4, <1>14 DEF Commit
<1>15. CASE CreationFails(a)
  BY <1>3, <1>15 DEF CreationFails
<1> QED BY <1>5, <1>6, <1>7, <1>8, <1>9, <1>10, <1>11, <1>12, <1>13, <1>14, <1>15
        DEF CreationStep

\* The steps of a deletion under the types: each goes on as told or ends.
LEMMA DeletionCalls ==
    ASSUME Shape, NEW d \in Deleters, deletion[d].pc # "none", DeletionStep(d) \/ DeletionFails(d)
    PROVE  CallsOK'
<1>1. CallsOK /\ \A e \in Deleters : Sound(e, deletion[e])
  BY DEF Shape, CallsOK
<1>2. ASSUME deletion[d].pc \in Held \cup {"locking"}, NEW p \in Held,
             p = "closing" => deletion[d].canonical, Then(d, p)
      PROVE  CallsOK'
  BY <1>1, <1>2, ThenIs
<1>3. ASSUME NEW ok \in BOOLEAN, Ends(d, ok) PROVE CallsOK'
  BY <1>1, <1>3, EndsIs
<1>4. CASE Sample(d)
  BY <1>4, SampleIs
<1>5. CASE Mark(d)
  BY <1>5, MarkIs
<1>6. CASE Lock(d)
  <2>1. CASE deletion[d].canonical
    BY <1>2, <1>6, <2>1 DEF Lock, At, Held
  <2>2. CASE ~deletion[d].canonical
    BY <1>2, <1>6, <2>2 DEF Lock, At, Held
  <2> QED BY <2>1, <2>2
<1>7. CASE CloseThread(d)
  BY <1>7, CloseIs
<1>8. CASE RevokeLease(d)
  BY <1>2, <1>8 DEF RevokeLease, At, Held
<1>9. CASE DeleteResources(d)
  BY <1>2, <1>3, <1>9 DEF DeleteResources, At, Held
<1>10. CASE DeleteRow(d)
  BY <1>2, <1>10 DEF DeleteRow, At, Held
<1>11. CASE Forget(d)
  BY <1>11, ForgetIs
<1>12. CASE DeletionFails(d)
  BY <1>3, <1>12 DEF DeletionFails
<1> QED BY <1>4, <1>5, <1>6, <1>7, <1>8, <1>9, <1>10, <1>11, <1>12 DEF DeletionStep

\* A user asks for the deletion of an agent.
LEMMA AskIs ==
    ASSUME Shape, NEW u \in Users, NEW a \in Agents, Ask(u, a)
    PROVE  /\ CallsOK' /\ a \in listed /\ deletion[u].pc = "none"
           /\ deletion'[u] = Reclaim(a, TRUE, FALSE)
           /\ \A d \in Deleters \ {u} : deletion'[d] = deletion[d]
           /\ UNCHANGED <<called, creation, awaited, stranded>>
<1> DEFINE r == Reclaim(a, TRUE, FALSE)
<1>1. u \in Deleters /\ u \notin Agents /\ TRUE \in BOOLEAN /\ FALSE \in BOOLEAN
  BY DeletersAre
<1>2. Sound(u, r) /\ r.pc # "none"
  BY <1>1, ReclaimIsSound
<1>3. Becomes(u, r) /\ a \in listed /\ deletion[u].pc = "none"
  BY DEF Ask, Becomes
<1> HIDE DEF r
<1>4. /\ CallsOK' /\ deletion'[u] = r
      /\ \A d \in Deleters \ {u} : deletion'[d] = deletion[d]
      /\ UNCHANGED <<called, creation, awaited, stranded>>
  BY <1>1, <1>2, <1>3, BecomesIs DEF Shape
<1> QED BY <1>3, <1>4 DEF r

\* The agents under every step.
LEMMA AgentsStep ==
    ASSUME Shape, Next
    PROVE  AgentsOK'
<1>1. AgentsOK /\ MaxApplies \in Nat /\ MaxTroubles \in Nat
  BY TreeAssumption DEF Shape
<1>2. \A d \in Deleters : deletion[d].node \in Agents \cup {None}
  BY DEF Shape, CallsOK, DeletionRecords
<1>3. \A a \in Agents : Line[a] \subseteq Agents /\ Missing(a) \subseteq Agents
  BY LineIs DEF Missing
<1>4. \A a \in Agents : creation[a] # "none" => Parent[a] \in Agents
  BY DEF Shape, CallsOK
<1> USE DEF AgentsOK, store, docker, runtime, gates, calls, Environment, Load
<1>5. ASSUME NEW a \in Agents, CreationStep(a) \/ CreationFails(a) PROVE AgentsOK'
  <2>1. CASE ParentContainer(a)
    BY <1>1, <1>4, <2>1 DEF ParentContainer
  <2>2. CASE Insert(a)
    BY <1>1, <2>2 DEF Insert
  <2>3. CASE List(a)
    BY <1>1, <2>3 DEF List
  <2>4. CASE Volume(a)
    BY <1>1, <2>4 DEF Volume
  <2>5. CASE Create(a)
    BY <1>1, <2>5 DEF Create
  <2>6. CASE Publish(a)
    BY <1>1, <2>6 DEF Publish
  <2>7. CASE Lineage(a)
    BY <1>1, <1>3, <1>4, <2>7 DEF Lineage
  <2>8. CASE Register(a)
    BY <1>1, <2>8 DEF Register
  <2>9. CASE Check(a)
    BY <1>1, <2>9 DEF Check
  <2>10. CASE Commit(a)
    BY <1>1, <2>10 DEF Commit
  <2>11. CASE CreationFails(a)
    BY <1>1, <2>11 DEF CreationFails
  <2> QED BY <1>5, <2>1, <2>2, <2>3, <2>4, <2>5, <2>6, <2>7, <2>8, <2>9, <2>10, <2>11
          DEF CreationStep
<1>6. ASSUME NEW a \in Agents,
             \/ Spawn(a) \/ TurnBegins(a) \/ TurnEnds(a) \/ Interrupt(a)
             \/ LoadThread(a) \/ ApplyBegins(a) \/ ApplyEnds(a) \/ ApplyFails(a)
      PROVE  AgentsOK'
  <2>1. CASE Spawn(a)
    BY <1>1, <2>1 DEF Spawn
  <2>2. CASE TurnBegins(a)
    BY <1>1, <2>2 DEF TurnBegins
  <2>3. CASE TurnEnds(a)
    BY <1>1, <2>3 DEF TurnEnds
  <2>4. CASE Interrupt(a)
    BY <1>1, <2>4 DEF Interrupt
  <2>5. CASE LoadThread(a)
    BY <1>1, <1>3, <2>5 DEF LoadThread
  <2>6. CASE ApplyBegins(a)
    BY <1>1, <2>6 DEF ApplyBegins
  <2>7. CASE ApplyEnds(a)
    BY <1>1, <2>7 DEF ApplyEnds
  <2>8. CASE ApplyFails(a)
    BY <1>1, <2>8 DEF ApplyFails
  <2> QED BY <1>6, <2>1, <2>2, <2>3, <2>4, <2>5, <2>6, <2>7, <2>8
<1>7. ASSUME NEW d \in Deleters, DeletionStep(d) \/ DeletionFails(d) PROVE AgentsOK'
  <2>1. CASE Sample(d)
    BY <1>1, <2>1 DEF Sample
  <2>2. CASE Mark(d)
    BY <1>1, <2>2 DEF Mark
  <2>3. CASE Lock(d)
    BY <1>1, <2>3 DEF Lock
  <2>4. CASE CloseThread(d)
    BY <1>1, <2>4 DEF CloseThread
  <2>5. CASE RevokeLease(d)
    BY <1>1, <2>5 DEF RevokeLease
  <2>6. CASE DeleteResources(d)
    BY <1>1, <2>6 DEF DeleteResources
  <2>7. CASE DeleteRow(d)
    <3>1. deletion[d].node \in Agents
      BY <2>7 DEF DeleteRow, At, Shape, CallsOK, Sound, Held
    <3> QED BY <1>1, <2>7, <3>1 DEF DeleteRow
  <2>8. CASE Forget(d)
    BY <1>1, <2>8 DEF Forget
  <2>9. CASE DeletionFails(d)
    BY <1>1, <2>9 DEF DeletionFails
  <2> QED BY <1>7, <2>1, <2>2, <2>3, <2>4, <2>5, <2>6, <2>7, <2>8, <2>9 DEF DeletionStep
<1>8. ASSUME NEW u \in Users, NEW a \in Agents, Ask(u, a) PROVE AgentsOK'
  BY <1>1, <1>8 DEF Ask
<1>9. CASE Restart
  BY <1>1, <1>9 DEF Restart
<1> QED BY <1>5, <1>6, <1>7, <1>8, <1>9 DEF Next

\* The types under every step.
LEMMA ShapeStep == Shape /\ [Next]_vars => Shape'
<1> SUFFICES ASSUME Shape, [Next]_vars PROVE Shape'
  OBVIOUS
<1>1. CallsOK
  BY DEF Shape
<1>2. ASSUME Next PROVE CallsOK'
  <2>1. ASSUME NEW a \in Agents, CreationStep(a) \/ CreationFails(a) PROVE CallsOK'
    BY <1>1, <2>1, CreationCalls
  <2>2. ASSUME NEW a \in Agents, Parent[a] # None /\ Spawn(a) PROVE CallsOK'
    BY <1>1, <2>2, SpawnIs
  <2>3. ASSUME NEW a \in Agents, Interrupt(a) PROVE CallsOK'
    BY <2>3, InterruptIs
  <2>4. ASSUME NEW a \in Agents, \/ TurnBegins(a) \/ TurnEnds(a) \/ LoadThread(a)
                                 \/ ApplyBegins(a) \/ ApplyEnds(a) \/ ApplyFails(a)
        PROVE  CallsOK'
    <3>1. UNCHANGED calls
      BY <2>4 DEF TurnBegins, TurnEnds, LoadThread, ApplyBegins, ApplyEnds, ApplyFails
    <3> QED BY <1>1, <3>1, CallsStay
  <2>5. ASSUME NEW u \in Users, NEW a \in Agents, Ask(u, a) PROVE CallsOK'
    BY <2>5, AskIs
  <2>6. ASSUME NEW d \in Deleters, deletion[d].pc # "none", DeletionStep(d) \/ DeletionFails(d)
        PROVE  CallsOK'
    BY <2>6, DeletionCalls
  <2>7. CASE Restart
    BY <1>1, <2>7, RestartIs
  <2> QED BY <1>2, <2>1, <2>2, <2>3, <2>4, <2>5, <2>6, <2>7 DEF Next
<1>3. CASE Next
  BY <1>2, <1>3, AgentsStep DEF Shape
<1>4. CASE UNCHANGED vars
  <2>1. /\ UNCHANGED <<rows, tombs, bound, containers, volumes, leased, threads, turn>>
        /\ UNCHANGED <<blocked, applying, applies, listed, pending, troubles>>
        /\ UNCHANGED calls
    BY <1>4 DEF vars, store, docker, runtime, gates
  <2>2. AgentsOK'
    BY <2>1 DEF AgentsOK, Shape
  <2> QED BY <1>1, <2>1, <2>2, CallsStay DEF Shape
<1> QED BY <1>3, <1>4

\* Every variable has its type, and a deletion handles no agent it has not marked.
THEOREM TreeTypes == Spec => []TreeTypeOK
<1>1. Shape => TreeTypeOK
  BY ShapeTypes
<1> QED BY <1>1, InitShape, ShapeStep, PTL DEF Spec

-----------------------------------------------------------------------------
(***************************************************************************)
(* Nothing is left: whoever strips a node of its thread, its lease and its *)
(* containers holds its lock, and whoever gives an agent one of them holds *)
(* the lock or finds it free.                                              *)
(***************************************************************************)
\* The deletion d holds the lock of n.
Holds(d, n) == deletion[d].pc \in Held /\ deletion[d].node = n

\* The lifecycle lock has one holder.
Alone == \A n \in Agents :
    /\ \A d, e \in Deleters : Holds(d, n) /\ Holds(e, n) => d = e
    /\ n \in applying \/ creation[n] = "publishing" => \A d \in Deleters : ~Holds(d, n)
    /\ creation[n] = "publishing" => n \notin applying

\* Who holds it for an application or a creation is listed, and who is to be
\* listed has a row or a tomb.
Busy == \A a \in Agents :
    /\ a \in applying \/ creation[a] = "publishing" => a \in listed
    /\ creation[a] = "listing" => a \in rows \cup tombs

\* A row or a tomb, never both; the listed have one of them, and turns a thread.
Records == /\ rows \cap tombs = {} /\ listed \subseteq rows \cup tombs
           /\ turn \subseteq threads

\* Before a creation registers a thread there is none, and what is rolled back
\* from there has none: nobody loads the thread of an agent that is pending.
BeforeThread(a) == \/ creation[a] \in {"listing", "registering"} \cup Product
                   \/ ~deletion[a].canonical
Fresh == \A a \in Agents : BeforeThread(a) =>
             a \notin threads /\ (a \in pending \/ a \notin listed)

\* What the node has lost at each step of its deletion.
StrippedOf(d) ==
    /\ deletion[d].pc \in Held \ {"closing"} => deletion[d].node \notin threads
    /\ deletion[d].pc \in {"resources", "records", "forgetting"} => deletion[d].node \notin leased
    /\ deletion[d].pc \in {"records", "forgetting"} => deletion[d].node \in listed \ containers
    /\ deletion[d].pc = "forgetting" => deletion[d].node \notin rows
Stripped == \A d \in Deleters : StrippedOf(d)

\* The inductive invariant of NothingLeft.
LeftInv == NothingLeft /\ Alone /\ Busy /\ Records /\ Fresh /\ Stripped

\* No deletion goes on under a lock: it ends, begins again, or stays.
Rests(d) == deletion'[d].pc \in Held => /\ deletion'[d].pc = deletion[d].pc
                                        /\ deletion'[d].node = deletion[d].node

\* A step of a creation leaves the deletions alone but for its own rollback.
LEMMA CreationMoves ==
    ASSUME Shape, NEW a \in Agents, CreationStep(a) \/ CreationFails(a)
    PROVE  /\ creation[a] \in CreationSteps \ {"none", "rollback"}
           /\ \A b \in Agents \ {a} : creation'[b] = creation[b]
           /\ stranded' = stranded
           /\ \A d \in Deleters \ {a} : deletion'[d] = deletion[d]
           /\ deletion[a].pc = "none" /\ deletion[a].canonical
           /\ \/ /\ deletion' = deletion /\ creation'[a] # "rollback"
                 /\ creation'[a] \in {"registering"} \cup Product =>
                      creation[a] \in {"listing"} \cup Product
                 /\ creation'[a] = "listing" => creation[a] = "inserting"
                 /\ creation'[a] = "publishing" => creation[a] = "environment"
                 /\ creation[a] = "listing" => creation'[a] = "volume"
              \/ /\ creation[a] \in Product \cup Canonical /\ creation'[a] = "rollback"
                 /\ deletion'[a] = Reclaim(a, creation[a] \in Canonical, FALSE)
<1> DEFINE r == Reclaim(a, creation[a] \in Canonical, FALSE)
<1>1. CallsOK
  BY DEF Shape
<1>2. ASSUME NEW pc \in CreationSteps \ {"rollback"}, creation[a] \notin {"none", "rollback"},
             Goto(a, pc)
      PROVE  /\ creation'[a] = pc /\ \A b \in Agents \ {a} : creation'[b] = creation[b]
             /\ deletion' = deletion /\ stranded' = stranded
  BY <1>1, <1>2, GotoIs
<1>3. ASSUME creation[a] # "rollback", Over(a)
      PROVE  /\ creation'[a] = "none" /\ \A b \in Agents \ {a} : creation'[b] = creation[b]
             /\ deletion' = deletion /\ stranded' = stranded
  BY <1>1, <1>3, OverIs
<1>4. ASSUME creation[a] \in Product \cup Canonical, RollBack(a)
      PROVE  /\ creation'[a] = "rollback" /\ \A b \in Agents \ {a} : creation'[b] = creation[b]
             /\ deletion'[a] = r
             /\ \A d \in Deleters \ {a} : deletion'[d] = deletion[d]
             /\ stranded' = stranded
  BY <1>1, <1>4, RollBackIs
<1>5. /\ {"inserting", "listing", "volume", "environment", "publishing", "lineage"}
           \cup Canonical \subseteq CreationSteps
      /\ "rollback" \notin Unarmed \cup Product \cup Canonical
  BY DEF CreationSteps, Unarmed, Product, Canonical
<1>6. creation[a] \in CreationSteps
  BY <1>1 DEF CallsOK
<1>7. creation[a] # "rollback" => deletion[a].pc = "none" /\ deletion[a].canonical
  BY <1>1, DeletersAre DEF CallsOK, Sound
<1> DEFINE Moved == /\ creation[a] \in CreationSteps \ {"none", "rollback"}
                    /\ \A b \in Agents \ {a} : creation'[b] = creation[b]
                    /\ stranded' = stranded
                    /\ \A d \in Deleters \ {a} : deletion'[d] = deletion[d]
                    /\ deletion[a].pc = "none" /\ deletion[a].canonical
                    /\ \/ /\ deletion' = deletion /\ creation'[a] # "rollback"
                          /\ creation'[a] \in {"registering"} \cup Product =>
                               creation[a] \in {"listing"} \cup Product
                          /\ creation'[a] = "listing" => creation[a] = "inserting"
                          /\ creation'[a] = "publishing" => creation[a] = "environment"
                          /\ creation[a] = "listing" => creation'[a] = "volume"
                       \/ /\ creation[a] \in Product \cup Canonical
                          /\ creation'[a] = "rollback" /\ deletion'[a] = r
<1> HIDE DEF r
<1> SUFFICES Moved
  BY DEF r
<1> USE DEF Product, Canonical
<1>8. CASE ParentContainer(a)
  BY <1>2, <1>3, <1>5, <1>6, <1>7, <1>8 DEF ParentContainer
<1>9. CASE Insert(a)
  BY <1>2, <1>3, <1>5, <1>6, <1>7, <1>9 DEF Insert
<1>10. CASE List(a)
  BY <1>2, <1>5, <1>6, <1>7, <1>10 DEF List
<1>11. CASE Volume(a)
  BY <1>2, <1>5, <1>6, <1>7, <1>11 DEF Volume
<1>12. CASE Create(a)
  BY <1>2, <1>4, <1>5, <1>6, <1>7, <1>12 DEF Create
<1>13. CASE Publish(a)
  BY <1>2, <1>5, <1>6, <1>7, <1>13 DEF Publish
<1>14. CASE Lineage(a)
  BY <1>2, <1>4, <1>5, <1>6, <1>7, <1>14 DEF Lineage
<1>15. CASE Register(a)
  BY <1>2, <1>4, <1>5, <1>6, <1>7, <1>15 DEF Register
<1>16. CASE Check(a)
  BY <1>2, <1>4, <1>5, <1>6, <1>7, <1>16 DEF Check
<1>17. CASE Commit(a)
  BY <1>3, <1>5, <1>6, <1>7, <1>17 DEF Commit
<1>18. CASE CreationFails(a)
  BY <1>4, <1>5, <1>6, <1>7, <1>18 DEF CreationFails
<1> QED BY <1>8, <1>9, <1>10, <1>11, <1>12, <1>13, <1>14, <1>15, <1>16, <1>17, <1>18
        DEF CreationStep

\* Its own rollback does not hold a lock yet; one that is not canonical comes of
\* a creation without a thread.
LEMMA CreationRests ==
    ASSUME Shape, NEW a \in Agents, CreationStep(a) \/ CreationFails(a)
    PROVE  /\ \A d \in Deleters : Rests(d)
           /\ \A b \in Agents : ~deletion'[b].canonical =>
                ~deletion[b].canonical \/ (b = a /\ creation[a] \in Product)
           /\ creation'[a] = "rollback" =>
                Begun(deletion'[a], a) \/ BegunProduct(deletion'[a], a)
<1>1. CASE deletion' = deletion /\ creation'[a] # "rollback"
  BY <1>1 DEF Rests
<1>2. CASE creation[a] \in Product \cup Canonical
           /\ deletion'[a] = Reclaim(a, creation[a] \in Canonical, FALSE)
  <2>1. \A d \in Deleters \ {a} : deletion'[d] = deletion[d]
    BY CreationMoves
  <2>2. creation[a] \in Canonical => Begun(deletion'[a], a)
    <3>1. creation[a] \in Canonical =>
            Reclaim(a, creation[a] \in Canonical, FALSE) = Reclaim(a, TRUE, FALSE)
      BY DEF Reclaim
    <3> QED BY <1>2, <3>1, ReclaimBegins
  <2>4. creation[a] \notin Canonical => BegunProduct(deletion'[a], a)
    <3>1. creation[a] \notin Canonical =>
            Reclaim(a, creation[a] \in Canonical, FALSE) = Reclaim(a, FALSE, FALSE)
      BY DEF Reclaim
    <3> QED BY <1>2, <3>1, ReclaimBegins
  <2>3. /\ deletion'[a].pc \in {"sampling", "locking"}
        /\ ~deletion'[a].canonical => creation[a] \in Product
    BY <1>2, <2>2, <2>4 DEF Begun, BegunProduct
  <2> QED BY <2>1, <2>2, <2>3, <2>4, DeletersAre DEF Rests, Held
<1> QED BY <1>1, <1>2, CreationMoves

\* A deletion that ends holds no lock; it is canonical if it was.
LEMMA EndsRests ==
    ASSUME CallsOK, NEW d \in Deleters, deletion[d].pc # "none", NEW ok \in BOOLEAN, Ends(d, ok)
    PROVE  /\ \A e \in Deleters : Rests(e)
           /\ \A b \in Agents : ~deletion'[b].canonical => ~deletion[b].canonical
           /\ \A b \in Agents : creation'[b] = creation[b] \/ (b = d /\ creation'[b] = "none")
           /\ \/ deletion'[d] = NoDeletion
              \/ d \in Agents /\ (Begun(deletion'[d], d) \/ BegunProduct(deletion'[d], d))
<1>1. /\ \A e \in Deleters \ {d} : deletion'[e] = deletion[e]
      /\ \A b \in Agents \ {d} : creation'[b] = creation[b]
      /\ \/ deletion'[d] = NoDeletion /\ (d \in Agents => creation'[d] = "none")
         \/ /\ d \in Agents /\ creation' = creation
            /\ deletion'[d] = Reclaim(d, deletion[d].canonical, TRUE)
  BY EndsIs
<1>2. CASE deletion'[d] = NoDeletion /\ (d \in Agents => creation'[d] = "none")
  <2>1. NoDeletion.pc = "none" /\ NoDeletion.canonical
    BY DEF NoDeletion
  <2> QED BY <1>1, <1>2, <2>1, DeletersAre DEF Rests, Held
<1>3. CASE /\ d \in Agents /\ creation' = creation
           /\ deletion'[d] = Reclaim(d, deletion[d].canonical, TRUE)
  <2>1. deletion[d].canonical => Begun(deletion'[d], d)
    <3>1. deletion[d].canonical =>
            Reclaim(d, deletion[d].canonical, TRUE) = Reclaim(d, TRUE, TRUE)
      BY DEF Reclaim
    <3> QED BY <1>3, <3>1, ReclaimBegins
  <2>2. ~deletion[d].canonical => BegunProduct(deletion'[d], d)
    <3>1. ~deletion[d].canonical =>
            Reclaim(d, deletion[d].canonical, TRUE) = Reclaim(d, FALSE, TRUE)
      BY DEF Reclaim
    <3> QED BY <1>3, <3>1, ReclaimBegins
  <2>3. /\ deletion'[d].pc \notin Held
        /\ ~deletion'[d].canonical => ~deletion[d].canonical
    BY <2>1, <2>2 DEF Begun, BegunProduct, Held
  <2> QED BY <1>1, <1>3, <2>1, <2>2, <2>3, DeletersAre DEF Rests
<1> QED BY <1>1, <1>2, <1>3

\* The same for the creations that are dropped.
LEMMA FellRests ==
    ASSUME NEW S \in SUBSET Agents, NEW D, Fell(S, D)
    PROVE  /\ \A e \in Deleters \ D : Rests(e)
           /\ \A b \in S : creation[b] \notin Unarmed =>
                /\ creation'[b] = "rollback"
                /\ Begun(deletion'[b], b) \/ BegunProduct(deletion'[b], b)
           /\ \A b \in Agents \ D : ~deletion'[b].canonical =>
                ~deletion[b].canonical \/ creation[b] \in Product
           /\ \A b \in Agents : creation'[b] \in {creation[b], "none", "rollback"}
<1>1. \A b \in S : creation[b] \notin Unarmed =>
        /\ creation'[b] = "rollback"
        /\ \/ Begun(deletion'[b], b)
           \/ /\ BegunProduct(deletion'[b], b)
              /\ ~deletion[b].canonical \/ creation[b] \in Product
  BY ReclaimBegins DEF Fell
<1>2. \A b \in S : creation[b] \in Unarmed =>
        creation'[b] = "none" /\ deletion'[b] = deletion[b]
  BY DEF Fell
<1>3. /\ \A b \in Agents \ S : creation'[b] = creation[b]
      /\ \A d \in Deleters \ (S \cup D) : deletion'[d] = deletion[d]
  BY DEF Fell
<1>4. \A b \in Agents : creation'[b] \in {creation[b], "none", "rollback"}
  BY <1>1, <1>2, <1>3
<1>5. \A b \in Agents \ D : ~deletion'[b].canonical =>
        ~deletion[b].canonical \/ creation[b] \in Product
  BY <1>1, <1>2, <1>3, DeletersAre DEF Begun, BegunProduct
<1>6. \A e \in Deleters \ D : Rests(e)
  BY <1>1, <1>2, <1>3 DEF Begun, BegunProduct, Rests, Held
<1> QED BY <1>1, <1>4, <1>5, <1>6

\* The lock keeps its holder when no deletion takes it.
LEMMA AloneKept ==
    ASSUME Alone, Busy,
           \A d \in Deleters, n \in Agents : Holds(d, n)' => Holds(d, n),
           applying' \subseteq applying,
           \A a \in Agents : /\ creation'[a] = "publishing" => creation[a] = "publishing"
                             /\ creation'[a] = "listing" => creation[a] = "listing",
           listed \subseteq listed', rows \cup tombs \subseteq rows' \cup tombs'
    PROVE  Alone' /\ Busy'
<1>1. Alone'
  BY DEF Alone
<1>2. Busy'
  BY DEF Busy
<1> QED BY <1>1, <1>2

\* A deletion that rests holds what it held.
LEMMA RestsHolds ==
    ASSUME NEW d \in Deleters, Rests(d), NEW n, Holds(d, n)'
    PROVE  Holds(d, n)
BY DEF Rests, Holds

\* What a step that takes nothing away gives to agents is given to listed agents
\* whose lock no deletion holds.
Gives(X) ==
    /\ containers' \subseteq containers \cup X /\ leased' \subseteq leased \cup X
    /\ threads' \subseteq threads \cup X /\ turn' \subseteq threads'
    /\ \A x \in X : x \in listed /\ \A d \in Deleters : ~Holds(d, x)
    /\ listed \subseteq listed' /\ listed' \subseteq rows' \cup tombs'
    /\ rows \subseteq rows' /\ tombs' = tombs
    /\ (rows' \ rows) \cap (listed \cup tombs) = {}

\* Such a step keeps what belongs to an agent with a record, and what other
\* deletions have stripped.
LEMMA GivesKeeps ==
    ASSUME Shape, NothingLeft, Records, NEW X, Gives(X)
    PROVE  /\ NothingLeft' /\ Records'
           /\ \A d \in Deleters : Rests(d) /\ StrippedOf(d) => StrippedOf(d)'
<1>1. NothingLeft'
  BY DEF NothingLeft, Gives, Records
<1>2. Records'
  BY DEF Records, Gives
<1>3. ASSUME NEW d \in Deleters, Rests(d), StrippedOf(d) PROVE StrippedOf(d)'
  <2> SUFFICES ASSUME deletion'[d].pc \in Held PROVE StrippedOf(d)'
    BY DEF StrippedOf, Held
  <2>1. deletion'[d].pc = deletion[d].pc /\ deletion'[d].node = deletion[d].node
    BY <1>3 DEF Rests
  <2>2. \A x \in X : x # deletion[d].node
    BY <2>1 DEF Gives, Holds
  <2> QED BY <1>3, <2>1, <2>2 DEF StrippedOf, Gives
<1> QED BY <1>1, <1>2, <1>3

\* The threads a request loads are of listed agents that are not pending.
LEMMA FreshKept ==
    ASSUME Fresh, NEW X, threads' \subseteq threads \cup X,
           \A x \in X : x \in listed /\ x \notin pending,
           \A a \in Agents : BeforeThread(a)' => BeforeThread(a),
           \A a \in Agents : a \in pending \/ a \notin listed => a \in pending' \/ a \notin listed'
    PROVE  Fresh'
BY DEF Fresh

\* The same when no thread is loaded.
LEMMA FreshStays ==
    ASSUME Fresh, threads' \subseteq threads,
           \A a \in Agents : BeforeThread(a)' => BeforeThread(a),
           \A a \in Agents : a \in pending \/ a \notin listed => a \in pending' \/ a \notin listed'
    PROVE  Fresh'
BY DEF Fresh

\* Only the row of an agent makes it one whose thread is to come.
LEMMA BeforeKept ==
    ASSUME Shape, NEW a \in Agents, CreationStep(a) \/ CreationFails(a), creation[a] # "inserting"
    PROVE  \A b \in Agents : BeforeThread(b)' => BeforeThread(b)
<1>1. \A b \in Agents \ {a} : creation'[b] = creation[b]
  BY CreationMoves
<1>2. creation'[a] \in {"listing", "registering"} \cup Product =>
        creation[a] \in {"listing"} \cup Product
  BY CreationMoves DEF Product
<1>3. \A b \in Agents : ~deletion'[b].canonical =>
        ~deletion[b].canonical \/ (b = a /\ creation[a] \in Product)
  BY CreationRests
<1> QED BY <1>1, <1>2, <1>3 DEF BeforeThread

\* The invariant is kept when the deletions rest, no lock is taken, no thread is
\* to come that was not, and what is given is given as told.
LEMMA LeftRests ==
    ASSUME Shape, LeftInv, \A d \in Deleters : Rests(d), applying' \subseteq applying,
           \A b \in Agents : BeforeThread(b)' => BeforeThread(b),
           \A b \in Agents : /\ creation'[b] = "publishing" => creation[b] = "publishing"
                             /\ creation'[b] = "listing" => creation[b] = "listing",
           NEW X, Gives(X), \A x \in X : x \in threads' \ threads => x \notin pending,
           \A b \in Agents : b \in pending \/ b \notin listed => b \in pending' \/ b \notin listed'
    PROVE  LeftInv'
<1>1. NothingLeft' /\ Records' /\ Stripped'
  BY GivesKeeps DEF LeftInv, Stripped
<1>2. \A d \in Deleters, n \in Agents : Holds(d, n)' => Holds(d, n)
  BY RestsHolds
<1>3. Alone' /\ Busy'
  BY <1>2, AloneKept DEF LeftInv, Gives
<1>4. Fresh'
  <2> DEFINE Y == threads' \ threads
  <2>1. \A x \in Y : x \in listed /\ x \notin pending
    BY DEF Gives
  <2>2. threads' \subseteq threads \cup Y
    OBVIOUS
  <2> HIDE DEF Y
  <2> QED BY <2>1, <2>2, FreshKept DEF LeftInv
<1> QED BY <1>1, <1>3, <1>4 DEF LeftInv

\* So is it under most steps of a creation.
LEMMA LeftGiven ==
    ASSUME Shape, LeftInv, NEW a \in Agents, CreationStep(a) \/ CreationFails(a),
           creation[a] \notin {"inserting", "environment"} \/ creation'[a] = "rollback",
           creation[a] # "inserting", applying' = applying,
           NEW X, Gives(X), \A x \in X : x \in threads' \ threads => x \notin pending,
           \A b \in Agents : b \in pending \/ b \notin listed => b \in pending' \/ b \notin listed'
    PROVE  LeftInv'
<1>1. /\ \A d, e \in Deleters : Rests(d)
      /\ \A b \in Agents : BeforeThread(b)' => BeforeThread(b)
  BY CreationRests, BeforeKept
<1>2. \A b \in Agents : /\ creation'[b] = "publishing" => creation[b] = "publishing"
                        /\ creation'[b] = "listing" => creation[b] = "listing"
  BY CreationMoves
<1> QED BY <1>1, <1>2, LeftRests

\* A free lock is held by no deletion.
LEMMA FreeLock ==
    ASSUME NEW a, ~Locked(a)
    PROVE  a \notin applying /\ creation[a] # "publishing" /\ \A d \in Deleters : ~Holds(d, a)
BY DEF Locked, Holds

\* What a request that finds the threads of a line missing may load.
LEMMA LoadGives ==
    ASSUME Shape, LeftInv, NEW a \in Agents, Loadable(a), \A b \in Missing(a) : ~Locked(b), Load(a),
           UNCHANGED <<rows, tombs, turn, listed, pending>>
    PROVE  Gives(Missing(a)) /\ \A x \in Missing(a) : x \notin pending
<1>1. \A x \in Missing(a) : x \in listed /\ x \notin pending /\ \A d \in Deleters : ~Holds(d, x)
  BY FreeLock DEF Loadable, Missing
<1>2. /\ containers' \subseteq containers \cup Missing(a)
      /\ leased' \subseteq leased \cup Missing(a)
      /\ threads' \subseteq threads \cup Missing(a) /\ threads \subseteq threads'
  BY DEF Load, Environment, Missing
<1> QED BY <1>1, <1>2 DEF Gives, LeftInv, Records

\* The invariant under the steps of a creation.
LEMMA LeftCreation ==
    ASSUME Shape, LeftInv, NEW a \in Agents, CreationStep(a) \/ CreationFails(a)
    PROVE  LeftInv'
<1> USE DEF store, docker, runtime, gates
<1>1. Records /\ Parent[a] \in Agents
  <2>1. creation[a] # "none"
    BY CreationMoves
  <2> QED BY <2>1 DEF LeftInv, Shape, CallsOK
<1>2. ASSUME creation[a] \notin {"inserting", "environment"}, UNCHANGED gates,
             UNCHANGED <<rows, tombs, containers, leased, threads, turn, listed, pending>>
      PROVE  LeftInv'
  <2>1. Gives({})
    BY <1>1, <1>2 DEF Gives, Records
  <2> QED BY <1>2, <2>1, LeftGiven
<1>3. CASE ParentContainer(a)
  <2>1. CASE UNCHANGED <<docker, leased>>
    BY <1>2, <1>3, <2>1 DEF ParentContainer
  <2>2. CASE ~Locked(Parent[a]) /\ Possible(Parent[a]) /\ Environment({Parent[a]})
    <3>1. Gives({Parent[a]})
      BY <1>1, <1>3, <2>2, FreeLock DEF ParentContainer, Environment, Possible, Gives, Records
    <3>2. /\ creation[a] = "parent" /\ applying' = applying /\ threads' = threads
          /\ UNCHANGED <<listed, pending>>
      BY <1>3 DEF ParentContainer
    <3> QED BY <3>1, <3>2, LeftGiven
  <2> QED BY <1>3, <2>1, <2>2 DEF ParentContainer
<1>4. CASE Insert(a)
  <2>1. CASE a \in rows \cup tombs
    <3>1. /\ UNCHANGED <<rows, tombs, containers, leased, threads, turn, listed, pending>>
          /\ applying' = applying /\ creation'[a] = "none"
      BY <1>4, <2>1, OverIs DEF Insert, Shape
    <3>2. Gives({})
      BY <1>1, <3>1 DEF Gives, Records
    <3>3. /\ \A d \in Deleters : Rests(d)
          /\ \A b \in Agents : ~deletion'[b].canonical =>
               ~deletion[b].canonical \/ (b = a /\ creation[a] \in Product)
          /\ \A b \in Agents \ {a} : creation'[b] = creation[b]
          /\ creation[a] = "inserting"
      BY <1>4, CreationRests, CreationMoves DEF Insert
    <3>4. \A b \in Agents : BeforeThread(b)' => BeforeThread(b)
      BY <3>1, <3>3 DEF BeforeThread, Product
    <3>5. \A b \in Agents : /\ creation'[b] = "publishing" => creation[b] = "publishing"
                            /\ creation'[b] = "listing" => creation[b] = "listing"
      BY <3>1, <3>3
    <3> QED BY <3>1, <3>2, <3>3, <3>4, <3>5, LeftRests
  <2>2. CASE a \notin rows \cup tombs
    <3>1. /\ UNCHANGED <<tombs, containers, leased, threads, turn, listed, pending>>
          /\ applying' = applying /\ creation'[a] = "listing" /\ rows' = rows \cup {a}
          /\ deletion' = deletion /\ creation[a] = "inserting"
      BY <1>4, <2>2, GotoIs DEF Insert, Shape, CreationSteps, Unarmed
    <3>2. a \notin listed /\ a \notin threads
      BY <1>1, <2>2 DEF Records, LeftInv, NothingLeft
    <3>3. Gives({})
      BY <1>1, <2>2, <3>1, <3>2 DEF Gives, Records
    <3>4. /\ \A d \in Deleters : Rests(d)
          /\ \A b \in Agents \ {a} : creation'[b] = creation[b]
      BY CreationRests, CreationMoves
    <3>5. NothingLeft' /\ Records' /\ Stripped'
      BY <3>3, <3>4, GivesKeeps DEF LeftInv, Stripped
    <3>6. Alone'
      BY <3>1, <3>4 DEF LeftInv, Alone, Holds
    <3>7. Busy'
      BY <3>1, <3>4 DEF LeftInv, Busy
    <3>8. Fresh'
      BY <3>1, <3>2, <3>4 DEF LeftInv, Fresh, BeforeThread
    <3> QED BY <3>5, <3>6, <3>7, <3>8 DEF LeftInv
  <2> QED BY <2>1, <2>2
<1>5. CASE List(a)
  <2>1. /\ UNCHANGED <<rows, tombs, containers, leased, threads, turn>> /\ applying' = applying
        /\ listed' = listed \cup {a} /\ pending' = pending \cup {a} /\ creation[a] = "listing"
    BY <1>5 DEF List
  <2>2. Gives({})
    BY <1>1, <2>1 DEF Gives, Records, LeftInv, Busy
  <2> QED BY <2>1, <2>2, LeftGiven
<1>6. CASE Volume(a)
  BY <1>2, <1>6 DEF Volume
<1>7. CASE Create(a)
  <2>1. /\ UNCHANGED <<rows, tombs, leased, threads, turn, listed, pending>> /\ applying' = applying
        /\ creation[a] = "environment" /\ ~Locked(a)
    BY <1>7 DEF Create
  <2>2. Possible(a) => creation'[a] = "publishing" /\ containers' = containers \cup {a}
    BY <1>7, <2>1, GotoIs DEF Create, Shape, CreationSteps, Product
  <2>3. ~Possible(a) => creation'[a] = "rollback" /\ containers' = containers
    BY <1>7, <2>1, RollBackIs DEF Create, Shape, Product
  <2>4. Possible(a) => a \in listed
    BY DEF Possible
  <2>5. Gives(IF Possible(a) THEN {a} ELSE {})
    BY <1>1, <2>1, <2>2, <2>3, <2>4, FreeLock DEF Gives, Records
  <2>6. /\ \A d \in Deleters : Rests(d)
        /\ \A b \in Agents \ {a} : creation'[b] = creation[b]
        /\ \A b \in Agents : BeforeThread(b)' => BeforeThread(b)
    BY <2>1, CreationRests, CreationMoves, BeforeKept
  <2>7. NothingLeft' /\ Records' /\ Stripped'
    BY <2>5, <2>6, GivesKeeps DEF LeftInv, Stripped
  <2>8. \A d \in Deleters, n \in Agents : Holds(d, n)' => Holds(d, n)
    BY <2>6, RestsHolds
  <2>9. Alone'
    <3>1. a \notin applying /\ \A d \in Deleters : ~Holds(d, a)
      BY <2>1, FreeLock
    <3> QED BY <2>1, <2>6, <2>8, <3>1 DEF LeftInv, Alone
  <2>10. Busy'
    BY <2>1, <2>2, <2>3, <2>4, <2>6 DEF LeftInv, Busy
  <2>11. Fresh'
    BY <2>1, <2>6, FreshStays DEF LeftInv
  <2> QED BY <2>7, <2>9, <2>10, <2>11 DEF LeftInv
<1>8. CASE Publish(a)
  <2>1. /\ UNCHANGED <<rows, tombs, containers, threads, turn, listed, pending>>
        /\ applying' = applying /\ leased' = leased \cup {a} /\ creation[a] = "publishing"
    BY <1>8 DEF Publish
  <2>2. a \in listed /\ \A d \in Deleters : ~Holds(d, a)
    BY <2>1 DEF LeftInv, Alone, Busy
  <2>3. Gives({a})
    BY <1>1, <2>1, <2>2 DEF Gives, Records
  <2> QED BY <2>1, <2>3, LeftGiven
<1>9. CASE Lineage(a)
  <2>1. /\ UNCHANGED <<rows, tombs, turn, listed, pending>> /\ applying' = applying
        /\ creation[a] = "lineage" /\ \A b \in Missing(Parent[a]) : ~Locked(b)
    BY <1>9 DEF Lineage
  <2>2. CASE Loadable(Parent[a]) /\ Load(Parent[a])
    <3>1. Gives(Missing(Parent[a])) /\ \A x \in Missing(Parent[a]) : x \notin pending
      BY <1>1, <2>1, <2>2, LoadGives
    <3> QED BY <2>1, <3>1, LeftGiven
  <2>3. CASE UNCHANGED <<threads, docker, leased>>
    BY <1>2, <1>9, <2>1, <2>3 DEF Lineage
  <2> QED BY <1>9, <2>2, <2>3 DEF Lineage
<1>10. CASE Register(a)
  <2>1. /\ UNCHANGED <<rows, tombs, turn, listed, pending>> /\ applying' = applying
        /\ creation[a] = "registering" /\ ~Locked(a)
    BY <1>10 DEF Register
  <2>2. CASE /\ a \in listed /\ Goto(a, "checking") /\ threads' = threads \cup {a}
             /\ Environment({a} \ leased)
    <3>1. Gives({a})
      BY <1>1, <2>1, <2>2, FreeLock DEF Environment, Gives, Records
    <3>2. /\ \A d \in Deleters : Rests(d)
          /\ \A b \in Agents \ {a} : creation'[b] = creation[b]
          /\ deletion[a].canonical
      BY CreationRests, CreationMoves
    <3>3. creation'[a] = "checking" /\ deletion' = deletion
      BY <2>1, <2>2, GotoIs DEF Shape, CreationSteps, Canonical
    <3>4. \A b \in Agents : BeforeThread(b)' => BeforeThread(b) /\ b # a
      BY <3>2, <3>3 DEF BeforeThread, Product
    <3>5. Fresh'
      BY <2>1, <2>2, <3>4 DEF LeftInv, Fresh
    <3>6. NothingLeft' /\ Records' /\ Stripped'
      BY <3>1, <3>2, GivesKeeps DEF LeftInv, Stripped
    <3>7. \A d \in Deleters, n \in Agents : Holds(d, n)' => Holds(d, n)
      BY <3>2, RestsHolds
    <3>8. Alone' /\ Busy'
      BY <2>1, <3>2, <3>3, <3>7, AloneKept DEF LeftInv
    <3> QED BY <3>5, <3>6, <3>8 DEF LeftInv
  <2>3. CASE UNCHANGED <<threads, docker, leased>>
    BY <1>2, <1>10, <2>1, <2>3 DEF Register
  <2> QED BY <1>10, <2>2, <2>3 DEF Register
<1>11. CASE Check(a)
  BY <1>2, <1>11 DEF Check
<1>12. CASE Commit(a)
  <2>1. /\ UNCHANGED <<rows, tombs, containers, leased, threads, turn, listed>>
        /\ applying' = applying /\ pending' = pending \ {a} /\ creation[a] = "committing"
    BY <1>12 DEF Commit
  <2>2. creation'[a] = "none" /\ deletion' = deletion
    BY <1>12, <2>1, OverIs DEF Commit, Shape
  <2>3. Gives({})
    BY <1>1, <2>1 DEF Gives, Records
  <2>4. /\ \A d \in Deleters : Rests(d)
        /\ \A b \in Agents \ {a} : creation'[b] = creation[b]
        /\ deletion[a].canonical
    BY CreationRests, CreationMoves
  <2>5. NothingLeft' /\ Records' /\ Stripped'
    BY <2>3, <2>4, GivesKeeps DEF LeftInv, Stripped
  <2>6. \A d \in Deleters, n \in Agents : Holds(d, n)' => Holds(d, n)
    BY <2>4, RestsHolds
  <2>7. Alone' /\ Busy'
    BY <2>1, <2>2, <2>4, <2>6, AloneKept DEF LeftInv
  <2>8. \A b \in Agents : BeforeThread(b)' => BeforeThread(b) /\ b # a
    BY <2>2, <2>4 DEF BeforeThread, Product
  <2>9. Fresh'
    BY <2>1, <2>8 DEF LeftInv, Fresh
  <2> QED BY <2>5, <2>7, <2>9 DEF LeftInv
<1>13. CASE CreationFails(a)
  <2>1. /\ UNCHANGED <<rows, tombs, containers, leased, threads, turn, listed, pending>>
        /\ applying' = applying /\ creation[a] # "inserting" /\ creation'[a] = "rollback"
    <3>1. creation[a] \in Product \cup Canonical
      BY <1>13 DEF CreationFails, Canonical
    <3> QED BY <1>13, <3>1, RollBackIs DEF CreationFails, Shape, Product, Canonical
  <2>2. Gives({})
    BY <1>1, <2>1 DEF Gives, Records
  <2> QED BY <2>1, <2>2, LeftGiven
<1> QED BY <1>3, <1>4, <1>5, <1>6, <1>7, <1>8, <1>9, <1>10, <1>11, <1>12, <1>13 DEF CreationStep

\* The invariant when deletions and creations stay as they are.
LEMMA LeftStays ==
    ASSUME Shape, LeftInv, UNCHANGED calls, applying' \subseteq applying,
           UNCHANGED <<listed, pending>>, NEW X, Gives(X),
           \A x \in X : x \in threads' \ threads => x \notin pending
    PROVE  LeftInv'
<1>1. creation' = creation /\ deletion' = deletion
  BY DEF calls
<1>2. \A d \in Deleters : Rests(d)
  BY <1>1 DEF Rests
<1>3. \A b \in Agents : BeforeThread(b)' => BeforeThread(b)
  BY <1>1 DEF BeforeThread
<1> QED BY <1>1, <1>2, <1>3, LeftRests

\* ... under a call, the turns, the applications and the loading of threads ...
LEMMA LeftAgents ==
    ASSUME Shape, LeftInv, NEW a \in Agents,
           \/ Parent[a] # None /\ Spawn(a)
           \/ TurnBegins(a) \/ TurnEnds(a) \/ Interrupt(a) \/ LoadThread(a)
           \/ ApplyBegins(a) \/ ApplyEnds(a) \/ ApplyFails(a)
    PROVE  LeftInv'
<1> USE DEF store, docker, runtime, gates
<1>1. CallsOK /\ Records
  BY DEF Shape, LeftInv
<1>2. CASE Parent[a] # None /\ Spawn(a)
  <2>1. /\ UNCHANGED <<rows, tombs, containers, leased, threads, turn, listed, pending>>
        /\ applying' = applying
    BY <1>2 DEF Spawn
  <2>2. /\ creation'[a] = "parent" /\ \A b \in Agents \ {a} : creation'[b] = creation[b]
        /\ deletion' = deletion
    BY <1>1, <1>2, SpawnIs
  <2>3. \A d \in Deleters : Rests(d)
    BY <2>2 DEF Rests
  <2>4. /\ \A b \in Agents : BeforeThread(b)' => BeforeThread(b)
        /\ \A b \in Agents : /\ creation'[b] = "publishing" => creation[b] = "publishing"
                             /\ creation'[b] = "listing" => creation[b] = "listing"
    BY <2>2 DEF BeforeThread, Product
  <2>5. Gives({})
    BY <1>1, <2>1 DEF Gives, Records
  <2> QED BY <2>1, <2>3, <2>4, <2>5, LeftRests
<1>3. CASE TurnBegins(a)
  <2>1. /\ UNCHANGED <<rows, tombs, containers, leased, threads, listed, pending, calls>>
        /\ applying' = applying /\ turn' = turn \cup {a} /\ a \in threads
    BY <1>3 DEF TurnBegins
  <2>2. Gives({})
    BY <1>1, <2>1 DEF Gives, Records
  <2> QED BY <2>1, <2>2, LeftStays
<1>4. CASE TurnEnds(a)
  <2>1. /\ UNCHANGED <<rows, tombs, containers, leased, threads, listed, pending, calls>>
        /\ applying' = applying /\ turn' = turn \ {a}
    BY <1>4 DEF TurnEnds
  <2>2. Gives({})
    BY <1>1, <2>1 DEF Gives, Records
  <2> QED BY <2>1, <2>2, LeftStays
<1>5. CASE Interrupt(a)
  <2>1. /\ UNCHANGED <<rows, tombs, containers, leased, threads, listed, pending>>
        /\ applying' = applying /\ turn' = turn \ {a}
    BY <1>5 DEF Interrupt
  <2>2. PICK S \in SUBSET (awaited \cap Children(a)) : Fell(S, {})
    BY <1>5, InterruptIs
  <2>3. S \in SUBSET Agents
    BY <1>1 DEF CallsOK
  <2> DEFINE D == {}
  <2>7. Fell(S, D) /\ Deleters \ D = Deleters /\ Agents \ D = Agents
    BY <2>2
  <2> HIDE DEF D
  <2>8. /\ \A d \in Deleters \ D : Rests(d)
        /\ \A b \in Agents \ D : ~deletion'[b].canonical =>
             ~deletion[b].canonical \/ creation[b] \in Product
        /\ \A b \in Agents : creation'[b] \in {creation[b], "none", "rollback"}
    BY <2>3, <2>7, FellRests
  <2>4. /\ \A d \in Deleters : Rests(d)
        /\ \A b \in Agents : ~deletion'[b].canonical =>
             ~deletion[b].canonical \/ creation[b] \in Product
        /\ \A b \in Agents : creation'[b] \in {creation[b], "none", "rollback"}
    BY <2>7, <2>8
  <2>5. /\ \A b \in Agents : BeforeThread(b)' => BeforeThread(b)
        /\ \A b \in Agents : /\ creation'[b] = "publishing" => creation[b] = "publishing"
                             /\ creation'[b] = "listing" => creation[b] = "listing"
    BY <2>4 DEF BeforeThread, Product
  <2>6. Gives({})
    BY <1>1, <2>1 DEF Gives, Records
  <2> QED BY <2>1, <2>4, <2>5, <2>6, LeftRests
<1>6. CASE LoadThread(a)
  <2>1. /\ UNCHANGED <<rows, tombs, turn, listed, pending, calls>> /\ applying' = applying
        /\ Loadable(a) /\ Load(a) /\ \A b \in Missing(a) : ~Locked(b)
    BY <1>6 DEF LoadThread
  <2>2. Gives(Missing(a)) /\ \A x \in Missing(a) : x \notin pending
    BY <2>1, LoadGives
  <2> QED BY <2>1, <2>2, LeftStays
<1>7. CASE ApplyBegins(a)
  <2>1. /\ UNCHANGED <<rows, tombs, containers, leased, threads, turn, listed, pending, calls>>
        /\ applying' = applying \cup {a} /\ a \in listed /\ ~Locked(a)
    BY <1>7 DEF ApplyBegins
  <2>2. UNCHANGED <<creation, deletion>>
    BY <2>1 DEF calls
  <2>3. a \notin applying /\ creation[a] # "publishing" /\ \A d \in Deleters : ~Holds(d, a)
    BY <2>1, FreeLock
  <2>4. Gives({}) /\ \A d \in Deleters : Rests(d)
    BY <1>1, <2>1, <2>2 DEF Gives, Records, Rests
  <2>5. NothingLeft' /\ Records' /\ Stripped'
    BY <2>4, GivesKeeps DEF LeftInv, Stripped
  <2>6. Alone' /\ Busy'
    BY <2>1, <2>2, <2>3 DEF LeftInv, Alone, Busy, Holds
  <2>7. Fresh'
    BY <2>1, <2>2 DEF LeftInv, Fresh, BeforeThread
  <2> QED BY <2>5, <2>6, <2>7 DEF LeftInv
<1>8. CASE ApplyEnds(a)
  <2>1. /\ UNCHANGED <<rows, tombs, threads, turn, listed, pending, calls>>
        /\ applying' = applying \ {a} /\ a \in applying /\ Environment({a})
    BY <1>8 DEF ApplyEnds
  <2>2. a \in listed /\ \A d \in Deleters : ~Holds(d, a)
    BY <2>1 DEF LeftInv, Alone, Busy
  <2>3. Gives({a})
    BY <1>1, <2>1, <2>2 DEF Gives, Records, Environment
  <2> QED BY <2>1, <2>3, LeftStays
<1>9. CASE ApplyFails(a)
  <2>1. /\ UNCHANGED <<rows, tombs, containers, threads, turn, listed, pending, calls>>
        /\ applying' = applying \ {a} /\ leased' = leased \ {a}
    BY <1>9 DEF ApplyFails
  <2>2. Gives({})
    BY <1>1, <2>1 DEF Gives, Records
  <2> QED BY <2>1, <2>2, LeftStays
<1> QED BY <1>2, <1>3, <1>4, <1>5, <1>6, <1>7, <1>8, <1>9

\* ... under the request of a user ...
LEMMA LeftAsk ==
    ASSUME Shape, LeftInv, NEW u \in Users, NEW a \in Agents, Ask(u, a)
    PROVE  LeftInv'
<1>1. /\ UNCHANGED <<rows, tombs, containers, leased, threads, turn, listed, pending>>
      /\ applying' = applying
  BY DEF Ask, store, docker, runtime, gates
<1>2. /\ deletion'[u] = Reclaim(a, TRUE, FALSE) /\ creation' = creation
      /\ \A d \in Deleters \ {u} : deletion'[d] = deletion[d]
  BY AskIs
<1>3. deletion'[u].pc = "sampling" /\ deletion'[u].canonical
  <2>1. Begun(deletion'[u], a)
    BY <1>2, ReclaimBegins
  <2> QED BY <2>1 DEF Begun
<1>4. \A d \in Deleters : Rests(d)
  BY <1>2, <1>3 DEF Rests, Held
<1>5. \A b \in Agents : BeforeThread(b)' => BeforeThread(b)
  BY <1>2, <1>3, DeletersAre DEF BeforeThread
<1>6. Gives({})
  BY <1>1 DEF Gives, Records, LeftInv
<1> QED BY <1>1, <1>2, <1>4, <1>5, <1>6, LeftRests

\* ... and when the server starts again.
LEMMA LeftRestart ==
    ASSUME Shape, LeftInv, Restart
    PROVE  LeftInv'
<1>1. /\ \A a \in Agents : creation'[a] = "none"
      /\ \A d \in Deleters : deletion'[d] = NoDeletion
  BY RestartIs DEF Shape
<1>2. /\ listed' = rows /\ leased' = {} /\ threads' = {} /\ turn' = {} /\ applying' = {}
      /\ containers' = containers \cap rows /\ UNCHANGED <<rows, tombs>>
  BY DEF Restart
<1>3. NoDeletion.pc = "none" /\ NoDeletion.canonical
  BY DEF NoDeletion
<1>4. NothingLeft' /\ Records'
  BY <1>2 DEF NothingLeft, Records, LeftInv
<1>5. Alone' /\ Busy'
  BY <1>1, <1>2, <1>3 DEF Alone, Busy, Holds, Held
<1>6. Fresh'
  BY <1>1, <1>3, DeletersAre DEF Fresh, BeforeThread, Product
<1>7. Stripped'
  BY <1>1, <1>3 DEF Stripped, StrippedOf, Held
<1> QED BY <1>4, <1>5, <1>6, <1>7 DEF LeftInv

\* A deletion that ends, and keeps or removes the containers of its node.
LEMMA LeftEnds ==
    ASSUME Shape, LeftInv, NEW d \in Deleters, deletion[d].pc # "none", NEW ok \in BOOLEAN,
           Ends(d, ok), containers' \subseteq containers, applying' = applying,
           UNCHANGED <<rows, tombs, leased, threads, turn, listed, pending>>
    PROVE  LeftInv'
<1>1. /\ \A e \in Deleters : Rests(e)
      /\ \A b \in Agents : ~deletion'[b].canonical => ~deletion[b].canonical
      /\ \A b \in Agents : creation'[b] = creation[b] \/ creation'[b] = "none"
  BY EndsRests DEF Shape
<1>2. \A b \in Agents : BeforeThread(b)' => BeforeThread(b)
  BY <1>1 DEF BeforeThread, Product
<1>3. Gives({})
  BY DEF Gives, Records, LeftInv
<1>4. \A b \in Agents : /\ creation'[b] = "publishing" => creation[b] = "publishing"
                        /\ creation'[b] = "listing" => creation[b] = "listing"
  BY <1>1
<1>5. UNCHANGED <<threads, listed, pending>> /\ applying' \subseteq applying
  OBVIOUS
<1> QED BY <1>1, <1>2, <1>3, <1>4, <1>5, LeftRests

\* A holder of a lock strips its own node: what other holders have stripped stays.
LEMMA OthersStripped ==
    ASSUME Shape, LeftInv, NEW d \in Deleters, NEW n \in Agents, Holds(d, n),
           \A e \in Deleters \ {d} : Rests(e),
           containers' \subseteq containers, leased' \subseteq leased, threads' \subseteq threads,
           listed \subseteq listed' \cup {n}, rows' \subseteq rows
    PROVE  \A e \in Deleters \ {d} : StrippedOf(e)'
<1> SUFFICES ASSUME NEW e \in Deleters \ {d}, deletion'[e].pc \in Held
             PROVE  StrippedOf(e)'
  BY DEF StrippedOf, Held
<1>1. deletion'[e].pc = deletion[e].pc /\ deletion'[e].node = deletion[e].node
  BY DEF Rests
<1>2. deletion[e].node \in Agents
  BY <1>1 DEF Shape, CallsOK, Sound
<1>3. deletion[e].node # n
  BY <1>1, <1>2 DEF Holds, LeftInv, Alone
<1>4. StrippedOf(e)
  BY DEF LeftInv, Stripped
<1> QED BY <1>1, <1>3, <1>4 DEF StrippedOf

\* The invariant under the steps of a deletion.
LEMMA LeftDeletion ==
    ASSUME Shape, LeftInv, NEW d \in Deleters, deletion[d].pc # "none",
           DeletionStep(d) \/ DeletionFails(d)
    PROVE  LeftInv'
<1> USE DEF store, docker, runtime, gates
<1> DEFINE n == deletion[d].node
<1>1. /\ CallsOK /\ NothingLeft /\ Records /\ Alone /\ Busy /\ Fresh /\ StrippedOf(d)
      /\ deletion[d].canonical \/ (d \in Agents /\ n = d)
  BY DEF Shape, LeftInv, Stripped, CallsOK, Sound
<1>2. ASSUME Rests(d), \A e \in Deleters \ {d} : deletion'[e] = deletion[e],
             deletion'[d].canonical, creation' = creation, applying' = applying,
             UNCHANGED <<rows, tombs, containers, leased, threads, turn, listed, pending>>
      PROVE  LeftInv'
  <2>1. \A e \in Deleters : Rests(e)
    BY <1>2 DEF Rests
  <2>2. \A b \in Agents : BeforeThread(b)' => BeforeThread(b)
    BY <1>2, DeletersAre DEF BeforeThread
  <2>3. Gives({})
    BY <1>1, <1>2 DEF Gives, Records
  <2> QED BY <1>2, <2>1, <2>2, <2>3, LeftRests
<1>3. CASE Sample(d)
  <2>1. /\ UNCHANGED <<rows, tombs, containers, leased, threads, turn, listed, pending>>
        /\ applying' = applying
    BY <1>3 DEF Sample
  <2>2. CASE Ends(d, TRUE)
    BY <2>1, <2>2, LeftEnds
  <2>3. CASE /\ deletion'[d].pc \in {"marking", "locking"} /\ deletion'[d].canonical
             /\ \A e \in Deleters \ {d} : deletion'[e] = deletion[e]
             /\ creation' = creation
    BY <1>2, <2>1, <2>3 DEF Rests, Held
  <2> QED BY <1>3, <2>2, <2>3, SampleIs
<1>4. CASE Mark(d)
  <2>1. /\ UNCHANGED <<rows, tombs, containers, leased, threads, turn, listed, pending>>
        /\ applying' = applying
    BY <1>4 DEF Mark
  <2>2. CASE Ends(d, FALSE)
    BY <2>1, <2>2, LeftEnds
  <2>3. CASE /\ deletion'[d].pc = "sampling" /\ deletion'[d].canonical
             /\ \A e \in Deleters \ {d} : deletion'[e] = deletion[e]
             /\ creation' = creation
    BY <1>2, <2>1, <2>3 DEF Rests, Held
  <2> QED BY <1>4, <2>2, <2>3, MarkIs
<1>5. ASSUME NEW p \in Held, deletion[d].pc \in Held \cup {"locking"},
             p = "closing" => deletion[d].canonical, Then(d, p)
      PROVE  /\ n \in Agents /\ deletion'[d].pc = p /\ deletion'[d].node = n
             /\ \A e \in Deleters \ {d} : deletion'[e] = deletion[e] /\ Rests(e)
             /\ creation' = creation
             /\ \A b \in Agents : BeforeThread(b)' <=> BeforeThread(b)
             /\ deletion[d].pc # "locking" =>
                  \A e \in Deleters, m \in Agents : Holds(e, m)' => Holds(e, m)
  <2>1. n \in Agents
    BY <1>1, <1>5 DEF CallsOK, Sound
  <2>2. /\ deletion'[d].pc = p /\ deletion'[d].node = deletion[d].node
        /\ deletion'[d].canonical = deletion[d].canonical
        /\ \A e \in Deleters \ {d} : deletion'[e] = deletion[e]
        /\ creation' = creation
    BY <1>1, <1>5, ThenIs
  <2>3. \A b \in Agents : BeforeThread(b)' <=> BeforeThread(b)
    BY <2>2, DeletersAre DEF BeforeThread
  <2>4. \A e \in Deleters \ {d} : Rests(e)
    BY <2>2 DEF Rests
  <2>5. deletion[d].pc # "locking" =>
          \A e \in Deleters, m \in Agents : Holds(e, m)' => Holds(e, m)
    BY <1>5, <2>2 DEF Holds
  <2> QED BY <2>1, <2>2, <2>3, <2>4, <2>5
<1>6. CASE Lock(d)
  <2>1. /\ UNCHANGED <<rows, tombs, containers, leased, threads, turn, listed, pending>>
        /\ applying' = applying /\ ~Locked(n) /\ deletion[d].pc = "locking"
    BY <1>6 DEF Lock, At
  <2>2. PICK p \in {"closing", "leasing"} : Then(d, p) /\ (p = "closing" <=> deletion[d].canonical)
    BY <1>6 DEF Lock
  <2>3. /\ n \in Agents /\ deletion'[d].pc = p /\ deletion'[d].node = n
        /\ \A e \in Deleters \ {d} : deletion'[e] = deletion[e] /\ Rests(e)
        /\ creation' = creation
        /\ \A b \in Agents : BeforeThread(b)' <=> BeforeThread(b)
    BY <1>5, <2>1, <2>2 DEF Held
  <2>4. n \notin applying /\ creation[n] # "publishing" /\ \A e \in Deleters : ~Holds(e, n)
    BY <2>1, FreeLock
  <2>5. Gives({})
    BY <1>1, <2>1 DEF Gives, Records
  <2>6. /\ NothingLeft' /\ Records'
        /\ \A e \in Deleters \ {d} : StrippedOf(e)'
    BY <1>1, <2>3, <2>5, GivesKeeps DEF LeftInv, Stripped
  <2>7. StrippedOf(d)'
    <3>1. p = "leasing" => n \notin threads
      BY <1>1, <2>2 DEF Fresh, BeforeThread
    <3> QED BY <2>1, <2>2, <2>3, <3>1 DEF StrippedOf
  <2>8. Alone'
    <3>1. \A e \in Deleters \ {d}, m \in Agents : Holds(e, m)' <=> Holds(e, m)
      BY <2>3 DEF Holds
    <3>2. \A m \in Agents : Holds(d, m)' => m = n
      BY <2>3 DEF Holds
    <3> QED BY <1>1, <2>1, <2>3, <2>4, <3>1, <3>2 DEF Alone
  <2>9. Busy' /\ Fresh'
    BY <1>1, <2>1, <2>3 DEF Busy, Fresh
  <2> QED BY <2>6, <2>7, <2>8, <2>9 DEF LeftInv, Stripped
<1>7. ASSUME deletion[d].pc \in Held, n \in Agents,
             deletion'[d].pc \in Held, deletion'[d].node = n,
             \A e \in Deleters \ {d} : Rests(e),
             \A b \in Agents : BeforeThread(b)' => BeforeThread(b),
             \A b \in Agents : /\ creation'[b] = "publishing" => creation[b] = "publishing"
                               /\ creation'[b] = "listing" => creation[b] = "listing",
             containers' \subseteq containers, leased' \subseteq leased, threads' \subseteq threads,
             turn' \subseteq threads', UNCHANGED <<listed, pending>>, applying' = applying,
             n \in listed \/ UNCHANGED <<rows, tombs>>,
             rows' = rows \/ rows' = rows \ {n},
             tombs' = tombs \cup (rows \ rows') \cup (tombs' \cap {n}),
             n \in tombs' => n \notin rows',
             StrippedOf(d)'
      PROVE  LeftInv'
  <2>1. Holds(d, n)
    BY <1>7 DEF Holds
  <2>2. \A e \in Deleters \ {d} : StrippedOf(e)'
    BY <1>7, <2>1, OthersStripped
  <2>3. Stripped'
    BY <1>7, <2>2 DEF Stripped
  <2>4. Fresh'
    BY <1>1, <1>7, FreshStays
  <2>5. \A e \in Deleters, m \in Agents : Holds(e, m)' => Holds(e, m)
    BY <1>7 DEF Holds, Rests
  <2>6. rows \cup tombs \subseteq rows' \cup tombs'
    BY <1>7
  <2>7. Alone' /\ Busy'
    BY <1>1, <1>7, <2>5, <2>6, AloneKept
  <2>8. Records'
    BY <1>1, <1>7, <2>6 DEF Records
  <2>9. NothingLeft'
    BY <1>1, <1>7 DEF NothingLeft, Records
  <2> QED BY <2>3, <2>4, <2>7, <2>8, <2>9 DEF LeftInv
<1>8. CASE CloseThread(d)
  <2>1. /\ UNCHANGED <<rows, tombs, containers, leased, listed, pending>> /\ applying' = applying
        /\ threads' = threads \ {n} /\ turn' = turn \ {n}
    BY <1>8 DEF CloseThread
  <2>2. /\ deletion[d].pc = "closing" /\ deletion[d].canonical /\ n \in Agents
        /\ deletion'[d].pc = "leasing" /\ deletion'[d].node = n /\ deletion'[d].canonical
    BY <1>8, CloseIs
  <2>3. PICK S \in SUBSET (awaited \cap Children(n)) : Fell(S, {d}) /\ d \notin S
    BY <1>8, CloseIs
  <2>4. S \in SUBSET Agents
    BY <1>1 DEF CallsOK
  <2>5. /\ \A e \in Deleters \ {d} : Rests(e)
        /\ \A b \in Agents \ {d} : ~deletion'[b].canonical =>
             ~deletion[b].canonical \/ creation[b] \in Product
        /\ \A b \in Agents : creation'[b] \in {creation[b], "none", "rollback"}
    BY <2>3, <2>4, FellRests
  <2>6. /\ \A b \in Agents : BeforeThread(b)' => BeforeThread(b)
        /\ \A b \in Agents : /\ creation'[b] = "publishing" => creation[b] = "publishing"
                             /\ creation'[b] = "listing" => creation[b] = "listing"
    BY <2>2, <2>5 DEF BeforeThread, Product
  <2>7. StrippedOf(d)'
    BY <2>1, <2>2 DEF StrippedOf
  <2>8. turn' \subseteq threads'
    BY <1>1, <2>1 DEF Records
  <2>9. /\ tombs' = tombs \cup (rows \ rows') \cup (tombs' \cap {n})
        /\ n \in tombs' => n \notin rows'
    BY <1>1, <2>1 DEF Records
  <2> QED BY <1>7, <2>1, <2>2, <2>5, <2>6, <2>7, <2>8, <2>9 DEF Held
<1>9. CASE RevokeLease(d)
  <2>1. /\ UNCHANGED <<rows, tombs, containers, threads, turn, listed, pending>>
        /\ applying' = applying /\ leased' = leased \ {n}
        /\ deletion[d].pc = "leasing" /\ Then(d, "resources")
    BY <1>9 DEF RevokeLease, At
  <2>2. /\ n \in Agents /\ deletion'[d].pc = "resources" /\ deletion'[d].node = n
        /\ \A e \in Deleters \ {d} : Rests(e)
        /\ creation' = creation
        /\ \A b \in Agents : BeforeThread(b)' => BeforeThread(b)
    BY <1>5, <2>1 DEF Held
  <2>3. StrippedOf(d)'
    BY <1>1, <2>1, <2>2 DEF StrippedOf, Held
  <2>4. /\ turn' \subseteq threads' /\ (n \in tombs' => n \notin rows')
        /\ tombs' = tombs \cup (rows \ rows') \cup (tombs' \cap {n})
    BY <1>1, <2>1 DEF Records
  <2> QED BY <1>7, <2>1, <2>2, <2>3, <2>4 DEF Held
<1>10. CASE DeleteResources(d)
  <2>1. /\ UNCHANGED <<rows, tombs, leased, threads, turn, listed, pending>>
        /\ applying' = applying /\ deletion[d].pc = "resources"
    BY <1>10 DEF DeleteResources, At
  <2>2. CASE n \notin listed
    <3>1. Ends(d, TRUE) /\ containers' = containers
      BY <1>10, <2>2 DEF DeleteResources
    <3> QED BY <2>1, <3>1, LeftEnds
  <2>3. CASE n \in listed
    <3>1. Then(d, "records") /\ containers' = containers \ {n}
      BY <1>10, <2>3 DEF DeleteResources
    <3>2. /\ n \in Agents /\ deletion'[d].pc = "records" /\ deletion'[d].node = n
          /\ \A e \in Deleters \ {d} : Rests(e)
          /\ creation' = creation
          /\ \A b \in Agents : BeforeThread(b)' => BeforeThread(b)
      BY <1>5, <2>1, <3>1 DEF Held
    <3>3. StrippedOf(d)'
      BY <1>1, <2>1, <2>3, <3>1, <3>2 DEF StrippedOf, Held
    <3>4. /\ turn' \subseteq threads' /\ (n \in tombs' => n \notin rows')
          /\ tombs' = tombs \cup (rows \ rows') \cup (tombs' \cap {n})
      BY <1>1, <2>1 DEF Records
    <3> QED BY <1>7, <2>1, <3>1, <3>2, <3>3, <3>4 DEF Held
  <2> QED BY <2>2, <2>3
<1>11. CASE DeleteRow(d)
  <2>1. /\ UNCHANGED <<containers, leased, threads, turn, listed, pending>>
        /\ applying' = applying /\ rows' = rows \ {n} /\ tombs' = tombs \cup {n}
        /\ deletion[d].pc = "records" /\ Then(d, "forgetting")
    BY <1>11 DEF DeleteRow, At
  <2>2. /\ n \in Agents /\ deletion'[d].pc = "forgetting" /\ deletion'[d].node = n
        /\ \A e \in Deleters \ {d} : Rests(e)
        /\ creation' = creation
        /\ \A b \in Agents : BeforeThread(b)' => BeforeThread(b)
    BY <1>5, <2>1 DEF Held
  <2>3. StrippedOf(d)'
    BY <1>1, <2>1, <2>2 DEF StrippedOf, Held
  <2>4. n \in listed
    BY <1>1, <2>1 DEF StrippedOf
  <2>5. /\ turn' \subseteq threads' /\ (n \in tombs' => n \notin rows')
        /\ tombs' = tombs \cup (rows \ rows') \cup (tombs' \cap {n})
    BY <1>1, <2>1 DEF Records
  <2> QED BY <1>7, <2>1, <2>2, <2>3, <2>4, <2>5 DEF Held
<1>12. CASE Forget(d)
  <2>1. /\ UNCHANGED <<rows, tombs, containers, leased, threads, turn>> /\ applying' = applying
        /\ listed' = listed \ {n} /\ pending' = pending \ {n}
    BY <1>12 DEF Forget
  <2>2. /\ deletion[d].pc = "forgetting" /\ n \in Agents
        /\ n \notin threads \cup leased \cup containers \cup rows
    BY <1>1, <1>12, ForgetIs DEF StrippedOf, Held
  <2>3. /\ \A e \in Deleters : Rests(e)
        /\ deletion'[d].pc \notin Held
        /\ \A b \in Agents : BeforeThread(b)' => BeforeThread(b)
        /\ \A b \in Agents : /\ creation'[b] = "publishing" => creation[b] = "publishing"
                             /\ creation'[b] = "listing" => creation[b] = "listing"
    <3>1. CASE Ends(d, TRUE)
      <4>1. /\ \A e \in Deleters : Rests(e)
            /\ \A b \in Agents : ~deletion'[b].canonical => ~deletion[b].canonical
            /\ \A b \in Agents : creation'[b] = creation[b] \/ creation'[b] = "none"
            /\ \/ deletion'[d] = NoDeletion
               \/ Begun(deletion'[d], d) \/ BegunProduct(deletion'[d], d)
        BY <1>1, <3>1, EndsRests
      <4>2. deletion'[d].pc \notin Held
        BY <4>1 DEF Begun, BegunProduct, NoDeletion, Held
      <4> QED BY <4>1, <4>2 DEF BeforeThread, Product
    <3>2. CASE /\ deletion'[d].pc = "locking" /\ deletion'[d].canonical
               /\ \A e \in Deleters \ {d} : deletion'[e] = deletion[e]
               /\ creation' = creation
      BY <3>2, DeletersAre DEF Rests, Held, BeforeThread
    <3> QED BY <1>12, <3>1, <3>2, ForgetIs
  <2>4. Holds(d, n)
    BY <2>2 DEF Holds, Held
  <2>5. Stripped'
    <3>1. \A e \in Deleters \ {d} : StrippedOf(e)'
      BY <2>1, <2>2, <2>3, <2>4, OthersStripped
    <3>2. StrippedOf(d)'
      BY <2>3 DEF StrippedOf, Held
    <3> QED BY <3>1, <3>2 DEF Stripped
  <2>6. Alone'
    BY <1>1, <2>1, <2>3, RestsHolds DEF Alone
  <2>7. Busy'
    <3>1. n \notin applying /\ creation[n] # "publishing"
      BY <1>1, <2>2, <2>4 DEF Alone
    <3> QED BY <1>1, <2>1, <2>3, <3>1 DEF Busy
  <2>8. Records' /\ NothingLeft'
    BY <1>1, <2>1, <2>2 DEF Records, NothingLeft
  <2>9. Fresh'
    BY <1>1, <2>1, <2>3 DEF Fresh
  <2> QED BY <2>5, <2>6, <2>7, <2>8, <2>9 DEF LeftInv
<1>13. CASE DeletionFails(d)
  <2>1. /\ UNCHANGED <<rows, tombs, leased, threads, turn, listed, pending>>
        /\ applying' = applying /\ containers' \subseteq containers /\ Ends(d, FALSE)
    BY <1>13 DEF DeletionFails
  <2> QED BY <2>1, LeftEnds
<1> QED BY <1>3, <1>4, <1>6, <1>8, <1>9, <1>10, <1>11, <1>12, <1>13 DEF DeletionStep

\* At first every agent of the store has all it may have.
LEMMA InitLeft == Init => LeftInv
<1> SUFFICES ASSUME Init PROVE LeftInv
  OBVIOUS
<1>1. /\ rows = Existing /\ listed = Existing /\ tombs = {} /\ turn = {} /\ applying = {}
      /\ containers = Existing /\ leased = Existing /\ threads = Existing
      /\ \A a \in Agents : creation[a] = "none"
      /\ \A d \in Deleters : deletion[d] = NoDeletion
  BY DEF Init
<1>2. NoDeletion.pc = "none" /\ NoDeletion.canonical
  BY DEF NoDeletion
<1>3. NothingLeft /\ Records
  BY <1>1 DEF NothingLeft, Records
<1>4. Alone /\ Busy
  BY <1>1, <1>2 DEF Alone, Busy, Holds, Held
<1>5. Fresh
  BY <1>1, <1>2, DeletersAre DEF Fresh, BeforeThread, Product
<1>6. Stripped
  BY <1>1, <1>2 DEF Stripped, StrippedOf, Held
<1> QED BY <1>3, <1>4, <1>5, <1>6 DEF LeftInv

\* The invariant under every step.
LEMMA LeftStep == Shape /\ LeftInv /\ [Next]_vars => LeftInv'
<1> SUFFICES ASSUME Shape, LeftInv, [Next]_vars PROVE LeftInv'
  OBVIOUS
<1>1. ASSUME NEW a \in Agents, CreationStep(a) \/ CreationFails(a) PROVE LeftInv'
  BY <1>1, LeftCreation
<1>2. ASSUME NEW a \in Agents,
             \/ Parent[a] # None /\ Spawn(a)
             \/ TurnBegins(a) \/ TurnEnds(a) \/ Interrupt(a) \/ LoadThread(a)
             \/ ApplyBegins(a) \/ ApplyEnds(a) \/ ApplyFails(a)
      PROVE  LeftInv'
  BY <1>2, LeftAgents
<1>3. ASSUME NEW u \in Users, NEW a \in Agents, Ask(u, a) PROVE LeftInv'
  BY <1>3, LeftAsk
<1>4. ASSUME NEW d \in Deleters, deletion[d].pc # "none", DeletionStep(d) \/ DeletionFails(d)
      PROVE  LeftInv'
  BY <1>4, LeftDeletion
<1>5. CASE Restart
  BY <1>5, LeftRestart
<1>6. CASE UNCHANGED vars
  <2>1. /\ UNCHANGED <<rows, tombs, containers, leased, threads, turn, listed, pending, calls>>
        /\ applying' = applying
    BY <1>6 DEF vars, store, docker, runtime, gates
  <2>2. Gives({})
    BY <2>1 DEF Gives, Records, LeftInv
  <2> QED BY <2>1, <2>2, LeftStays
<1>7. CASE Next
  BY <1>1, <1>2, <1>3, <1>4, <1>5, <1>7 DEF Next
<1> QED BY <1>6, <1>7

\* A container, a lease, a thread or a turn belongs to an agent that has a record,
\* whatever deletions, creations, applications and ends of the server meet.
THEOREM NothingIsLeft == Spec => []NothingLeft
<1>1. LeftInv => NothingLeft
  BY DEF LeftInv
<1> QED BY <1>1, InitShape, ShapeStep, InitLeft, LeftStep, PTL DEF Spec

-----------------------------------------------------------------------------
(***************************************************************************)
(* No orphan, when a message waits for the end of the creation and the     *)
(* snapshots can be reclaimed: neither "early" nor "reclaim" is in Events. *)
(***************************************************************************)
\* A creation that is under way has a row, and may still be rolled back.
Armed == Product \cup Canonical
Underway == {"listing", "rollback"} \cup Armed

\* A row without a record in memory is of a creation about to list it, or was left
\* halfway; a record without a row is of a deletion about to forget it, or of a
\* creation that is being rolled back or could not be.
Rowed == \A a \in Agents :
    /\ a \in rows \ listed => \/ creation[a] = "listing"
                              \/ creation[a] \in Unarmed /\ a \in stranded
    /\ creation[a] = "listing" => a \in rows \ listed
    /\ a \in listed \ rows =>
         \/ a \in pending /\ creation[a] \notin {"listing"} \cup Armed
         \/ \E d \in Deleters : /\ deletion[d].pc = "forgetting" /\ deletion[d].canonical
                                /\ deletion[d].node = a

\* The registration of a creation under way is pending as long as it is listed.
Awaiting == \A a \in Agents : creation[a] \in Underway => a \in pending \/ a \notin listed

\* Until it is registered an agent has no turn, and so no child.
Childless(p) == p \notin turn /\ \A c \in Children(p) : c \notin rows \cup listed
                                                       /\ creation[c] = "none"
Barren == \A p \in Agents : creation[p] \in Underway \/ p \in pending => Childless(p)

\* Nobody is created under an agent that never was.
Descent == \A c \in Agents : c \in rows \cup listed \/ creation[c] # "none" =>
                               Parent[c] \in rows \cup tombs \cup {None}

\* A rollback handles its own agent alone.
OwnOnly == \A a \in Agents : deletion[a].todo \subseteq {a} /\ deletion[a].node \in {a, None}

\* Whose creation is not decided, or was left halfway.
Unsettled(c) == creation[c] \in Undecided \/ c \in stranded

\* Children go first: one that is not of the sample is not settled.
Taken == \A d \in Deleters : deletion[d].canonical /\ deletion[d].pc \in Held \cup {"locking"} =>
    /\ Leaf(deletion[d].todo, deletion[d].node)
    /\ \A n \in deletion[d].todo : \A c \in Children(n) :
         c \in rows \ deletion[d].todo => Unsettled(c)

\* NoOrphan, in the words of the steps above.
Covered == \A a \in rows : Parent[a] \in rows \cup {None} \/ Unsettled(a)

\* The inductive invariant of NoOrphan.
OrphanInv == Rowed /\ Awaiting /\ Barren /\ Descent /\ OwnOnly /\ Taken /\ Covered

\* How a creation may go on where no row is made ...
Calmly(a) ==
    \/ creation'[a] = creation[a]
    \/ creation[a] = "none" /\ creation'[a] = "parent" /\ Parent[a] \in turn \cap listed
    \/ creation[a] \in {"parent", "inserting"} /\ creation'[a] \in {"none", "inserting"}
    \/ creation[a] = "listing" /\ creation'[a] = "none" /\ a \in stranded'
    \/ creation[a] \in Armed /\ creation'[a] \in Armed \ {"committing"}
    \/ /\ creation[a] = "checking" /\ creation'[a] = "committing"
       /\ Parent[a] \in rows /\ ~Retired(Parent[a])
    \/ creation[a] \in Armed \cup {"rollback"} /\ creation'[a] = "rollback"
    \/ creation[a] = "committing" /\ creation'[a] = "none"
    \/ creation[a] = "rollback" /\ creation'[a] = "none" /\ (a \notin rows \/ a \in stranded')

\* ... and a deletion.
Goes(d) ==
    /\ d \in Agents => deletion'[d].todo \subseteq {d} /\ deletion'[d].node \in {d, None}
    /\ deletion[d].pc = "forgetting" /\ deletion[d].canonical =>
         \/ /\ deletion'[d].pc = "forgetting" /\ deletion'[d].canonical
            /\ deletion'[d].node = deletion[d].node
         \/ deletion[d].node \notin listed'
         \/ d \in Agents /\ creation[d] = "rollback" /\ creation'[d] = "rollback"
    /\ deletion'[d].canonical /\ deletion'[d].pc \in Held \cup {"locking"} =>
         /\ Leaf(deletion'[d].todo, deletion'[d].node)
         /\ \A n \in deletion'[d].todo :
              /\ Retired(n)
              /\ \A c \in Children(n) : c \in rows \ deletion'[d].todo => Unsettled(c)

\* A step that makes no row and removes none: a record leaves memory with its row
\* gone, an agent is no longer pending as it leaves or its creation is over.
Calm ==
    /\ rows' = rows /\ tombs' = tombs
    /\ listed' \subseteq listed /\ listed \cap rows \subseteq listed'
    /\ pending' \subseteq pending
    /\ \A a \in pending \ pending' :
         a \notin listed' \/ (creation[a] \in Armed /\ creation'[a] = "none")
    /\ \A p \in turn' \ turn : p \notin pending /\ creation[p] \notin Underway
    /\ stranded \subseteq stranded'
    /\ \A a \in Agents : Calmly(a)
    /\ \A d \in Deleters : Goes(d)

\* What calm steps of a creation keep.
LEMMA CalmlyKeeps ==
    ASSUME NEW a, Calmly(a), stranded \subseteq stranded'
    PROVE  /\ creation'[a] \in Underway => creation[a] \in Underway
           /\ creation'[a] \in Armed => creation[a] \in Armed
           /\ creation'[a] = "listing" => creation[a] = "listing"
           /\ creation'[a] # "none" => creation[a] # "none" \/ Parent[a] \in turn \cap listed
           /\ creation[a] \in Unarmed /\ a \in stranded =>
                creation'[a] \in Unarmed /\ a \in stranded'
           /\ creation[a] = "listing" => \/ creation'[a] = "listing"
                                         \/ creation'[a] \in Unarmed /\ a \in stranded'
           /\ Unsettled(a) => \/ Unsettled(a)' \/ a \notin rows
                              \/ Parent[a] \in rows /\ ~Retired(Parent[a])
<1> USE DEF Unarmed, Underway, Armed, Product, Canonical
<1>1. /\ creation'[a] \in Underway => creation[a] \in Underway
      /\ creation'[a] \in Armed => creation[a] \in Armed
      /\ creation'[a] = "listing" => creation[a] = "listing"
  BY DEF Calmly
<1>2. creation'[a] # "none" => creation[a] # "none" \/ Parent[a] \in turn \cap listed
  BY DEF Calmly
<1>3. creation[a] \in Unarmed /\ a \in stranded => creation'[a] \in Unarmed /\ a \in stranded'
  BY DEF Calmly
<1>4. creation[a] = "listing" => \/ creation'[a] = "listing"
                                 \/ creation'[a] \in Unarmed /\ a \in stranded'
  BY DEF Calmly
<1>5. Unsettled(a) => \/ Unsettled(a)' \/ a \notin rows
                      \/ Parent[a] \in rows /\ ~Retired(Parent[a])
  BY DEF Calmly, Unsettled, Undecided
<1> QED BY <1>1, <1>2, <1>3, <1>4, <1>5

\* A calm step keeps the invariant.
LEMMA OrphanCalm ==
    ASSUME Shape, LeftInv, OrphanInv, Calm
    PROVE  OrphanInv'
<1>1. /\ \A a \in Agents : Calmly(a) /\ stranded \subseteq stranded'
      /\ \A d \in Deleters : Goes(d)
      /\ rows' = rows /\ tombs' = tombs
      /\ listed' \subseteq listed /\ listed \cap rows \subseteq listed'
      /\ pending' \subseteq pending
  BY DEF Calm
<1>2. /\ Rowed /\ Awaiting /\ Barren /\ Descent /\ OwnOnly /\ Taken /\ Covered
      /\ Records /\ rows \subseteq Agents /\ listed \subseteq Agents
  BY DEF OrphanInv, LeftInv, Shape, AgentsOK
<1>3. Rowed'
  <2>1. ASSUME NEW a \in Agents, a \in rows' \ listed'
        PROVE  creation'[a] = "listing" \/ (creation'[a] \in Unarmed /\ a \in stranded')
    BY <1>1, <1>2, <2>1, CalmlyKeeps DEF Rowed
  <2>2. ASSUME NEW a \in Agents, creation'[a] = "listing" PROVE a \in rows' \ listed'
    BY <1>1, <1>2, <2>2, CalmlyKeeps DEF Rowed
  <2>3. ASSUME NEW a \in Agents, a \in listed' \ rows'
        PROVE  \/ a \in pending' /\ creation'[a] \notin {"listing"} \cup Armed
               \/ \E d \in Deleters : /\ deletion'[d].pc = "forgetting" /\ deletion'[d].canonical
                                      /\ deletion'[d].node = a
    <3>1. CASE a \in pending /\ creation[a] \notin {"listing"} \cup Armed
      <4>1. a \in pending'
        BY <2>3, <3>1 DEF Calm
      <4> QED BY <1>1, <3>1, <4>1, CalmlyKeeps
    <3>2. CASE \E d \in Deleters : /\ deletion[d].pc = "forgetting" /\ deletion[d].canonical
                                   /\ deletion[d].node = a
      <4>1. PICK d \in Deleters : /\ deletion[d].pc = "forgetting" /\ deletion[d].canonical
                                  /\ deletion[d].node = a
        BY <3>2
      <4>2. CASE /\ deletion'[d].pc = "forgetting" /\ deletion'[d].canonical
                 /\ deletion'[d].node = deletion[d].node
        BY <4>1, <4>2
      <4>3. CASE d \in Agents /\ creation[d] = "rollback" /\ creation'[d] = "rollback"
        <5>1. d = a
          BY <1>2, <4>1, <4>3, DeletersAre DEF OwnOnly
        <5>2. a \in pending
          BY <1>1, <1>2, <2>3, <4>3, <5>1 DEF Awaiting, Underway
        <5>3. a \in pending'
          BY <2>3, <4>3, <5>1, <5>2 DEF Calm
        <5> QED BY <4>3, <5>1, <5>3 DEF Armed, Product, Canonical
      <4> QED BY <1>1, <2>3, <4>1, <4>2, <4>3 DEF Goes
    <3> QED BY <1>1, <1>2, <2>3, <3>1, <3>2 DEF Rowed
  <2> QED BY <2>1, <2>2, <2>3 DEF Rowed
<1>4. Awaiting'
  <2> SUFFICES ASSUME NEW a \in Agents, creation'[a] \in Underway, a \in listed'
               PROVE  a \in pending'
    BY DEF Awaiting
  <2>1. creation[a] \in Underway
    BY <1>1, CalmlyKeeps
  <2>2. a \in pending
    BY <1>1, <1>2, <2>1 DEF Awaiting
  <2>3. creation'[a] # "none"
    BY DEF Underway, Armed, Product, Canonical
  <2> QED BY <2>2, <2>3 DEF Calm
<1>5. Barren'
  <2> SUFFICES ASSUME NEW p \in Agents, creation'[p] \in Underway \/ p \in pending'
               PROVE  Childless(p)'
    BY DEF Barren
  <2>1. creation[p] \in Underway \/ p \in pending
    BY <1>1, CalmlyKeeps
  <2>2. Childless(p)
    BY <1>2, <2>1 DEF Barren
  <2>3. p \notin turn'
    BY <2>1, <2>2 DEF Calm, Childless
  <2>4. ASSUME NEW c \in Children(p)
        PROVE  c \notin rows' \cup listed' /\ creation'[c] = "none"
    <3>1. c \in Agents /\ Parent[c] = p
      BY DEF Children
    <3>2. c \notin rows \cup listed /\ creation[c] = "none" /\ p \notin turn
      BY <2>2 DEF Childless
    <3> QED BY <1>1, <3>1, <3>2, CalmlyKeeps
  <2> QED BY <2>3, <2>4 DEF Childless
<1>6. Descent'
  <2> SUFFICES ASSUME NEW c \in Agents, c \in rows' \cup listed' \/ creation'[c] # "none"
               PROVE  Parent[c] \in rows' \cup tombs' \cup {None}
    BY DEF Descent
  <2>1. \/ c \in rows \cup listed \/ creation[c] # "none" \/ Parent[c] \in listed
    BY <1>1, CalmlyKeeps
  <2> QED BY <1>1, <1>2, <2>1 DEF Descent, Records
<1>7. OwnOnly'
  BY <1>1, DeletersAre DEF Goes, OwnOnly
<1>8. Taken'
  <2> SUFFICES ASSUME NEW d \in Deleters, deletion'[d].canonical,
                      deletion'[d].pc \in Held \cup {"locking"}
               PROVE  /\ Leaf(deletion'[d].todo, deletion'[d].node)
                      /\ \A n \in deletion'[d].todo : \A c \in Children(n) :
                           c \in rows' \ deletion'[d].todo => Unsettled(c)'
    BY DEF Taken, Leaf
  <2>1. Leaf(deletion'[d].todo, deletion'[d].node)
    BY <1>1 DEF Goes
  <2>2. ASSUME NEW n \in deletion'[d].todo, NEW c \in Children(n), c \in rows' \ deletion'[d].todo
        PROVE  Unsettled(c)'
    <3>1. Retired(n) /\ Unsettled(c) /\ c \in rows
      BY <1>1, <2>2 DEF Goes
    <3>2. c \in Agents /\ Parent[c] = n
      BY DEF Children
    <3> QED BY <1>1, <3>1, <3>2, CalmlyKeeps
  <2> QED BY <2>1, <2>2
<1>9. Covered'
  <2> SUFFICES ASSUME NEW a \in rows', ~(Parent[a] \in rows' \cup {None})
               PROVE  Unsettled(a)'
    BY DEF Covered
  <2>1. a \in Agents /\ a \in rows /\ Unsettled(a)
    BY <1>1, <1>2 DEF Covered
  <2> QED BY <1>1, <2>1, CalmlyKeeps
<1> QED BY <1>3, <1>4, <1>5, <1>6, <1>7, <1>8, <1>9 DEF OrphanInv

\* A deletion that stays where it is, or goes on with its node, goes on calmly ...
LEMMA GoesOn ==
    ASSUME Shape, OrphanInv, NEW d \in Deleters,
           /\ deletion'[d].todo = deletion[d].todo /\ deletion'[d].node = deletion[d].node
           /\ deletion'[d].canonical = deletion[d].canonical,
           \/ deletion'[d].pc = deletion[d].pc
           \/ deletion[d].pc \in (Held \cup {"locking"}) \ {"forgetting"}
    PROVE  Goes(d)
<1>1. d \in Agents => deletion[d].todo \subseteq {d} /\ deletion[d].node \in {d, None}
  BY DEF OrphanInv, OwnOnly
<1>2. deletion[d].canonical /\ deletion[d].pc \in Held \cup {"locking"} =>
        /\ Leaf(deletion[d].todo, deletion[d].node)
        /\ \A n \in deletion[d].todo :
             \A c \in Children(n) : c \in rows \ deletion[d].todo => Unsettled(c)
  BY DEF OrphanInv, Taken
<1>3. deletion[d].canonical /\ deletion[d].pc \in Held \cup {"locking"} =>
        \A n \in deletion[d].todo : Retired(n)
  BY TreeAssumption DEF Shape, CallsOK, Sound, Retired
<1> QED BY <1>1, <1>2, <1>3 DEF Goes

\* ... and so does one that ends or begins.
LEMMA GoesAway ==
    ASSUME NEW d \in Deleters,
           \/ deletion'[d] = NoDeletion
           \/ d \in Agents /\ (Begun(deletion'[d], d) \/ BegunProduct(deletion'[d], d))
           \/ d \notin Agents /\ \E a \in Agents : Begun(deletion'[d], a),
           deletion[d].pc = "forgetting" /\ deletion[d].canonical =>
             \/ deletion[d].node \notin listed'
             \/ d \in Agents /\ creation[d] = "rollback" /\ creation'[d] = "rollback"
    PROVE  Goes(d)
<1>1. CASE deletion'[d] = NoDeletion
  BY <1>1 DEF Goes, NoDeletion, Held
<1>2. CASE d \in Agents /\ Begun(deletion'[d], d)
  BY <1>2 DEF Goes, Begun, Held
<1>3. CASE d \in Agents /\ BegunProduct(deletion'[d], d)
  BY <1>3 DEF Goes, BegunProduct, Held
<1>4. CASE d \notin Agents /\ \E a \in Agents : Begun(deletion'[d], a)
  BY <1>4 DEF Goes, Begun, Held
<1> QED BY <1>1, <1>2, <1>3, <1>4

\* A step of a creation that makes no row and lists none is calm.
LEMMA CreationCalm ==
    ASSUME Shape, LeftInv, OrphanInv, NEW a \in Agents, CreationStep(a) \/ CreationFails(a),
           creation[a] # "listing", creation'[a] # "listing"
    PROVE  Calm
<1> USE DEF store, docker, runtime, gates
<1>1. /\ creation[a] \in CreationSteps \ {"none", "rollback"}
      /\ \A b \in Agents \ {a} : creation'[b] = creation[b]
      /\ stranded' = stranded
      /\ \A d \in Deleters \ {a} : deletion'[d] = deletion[d]
      /\ deletion[a].pc = "none"
      /\ \/ deletion' = deletion /\ creation'[a] # "rollback"
         \/ creation[a] \in Armed /\ creation'[a] = "rollback"
      /\ creation'[a] = "rollback" => Begun(deletion'[a], a) \/ BegunProduct(deletion'[a], a)
  BY CreationMoves, CreationRests DEF Armed
<1>2. \A d \in Deleters : Goes(d)
  <2>1. ASSUME NEW d \in Deleters, deletion'[d] = deletion[d] PROVE Goes(d)
    BY <2>1, GoesOn
  <2>2. ASSUME creation'[a] = "rollback" PROVE Goes(a)
    BY <1>1, <2>2, GoesAway, DeletersAre
  <2> QED BY <1>1, <2>1, <2>2
<1>3. \A b \in Agents \ {a} : Calmly(b)
  BY <1>1 DEF Calmly
<1>4. creation[a] \in Armed /\ creation'[a] = "rollback" => Calmly(a)
  BY DEF Calmly
<1>5. ASSUME UNCHANGED <<rows, tombs, listed, pending, turn>>, Calmly(a) PROVE Calm
  BY <1>1, <1>2, <1>3, <1>5 DEF Calm
<1>6. CallsOK
  BY DEF Shape
<1>7. ASSUME NEW pc \in CreationSteps \ {"rollback"}, Goto(a, pc) PROVE creation'[a] = pc
  BY <1>1, <1>6, <1>7, GotoIs
<1>8. ASSUME Over(a) PROVE creation'[a] = "none"
  BY <1>1, <1>6, <1>8, OverIs
<1> USE DEF CreationSteps, Unarmed, Product, Canonical, Armed
<1>9. CASE ParentContainer(a)
  <2>1. creation'[a] \in {"none", "inserting"}
    BY <1>7, <1>8, <1>9 DEF ParentContainer
  <2> QED BY <1>5, <1>9, <2>1 DEF ParentContainer, Calmly
<1>10. CASE Insert(a)
  <2>1. a \in rows \cup tombs
    BY <1>7, <1>10 DEF Insert
  <2>2. creation'[a] = "none"
    BY <1>8, <1>10, <2>1 DEF Insert
  <2> QED BY <1>5, <1>10, <2>1, <2>2 DEF Insert, Calmly
<1>11. CASE List(a)
  BY <1>11 DEF List
<1>12. CASE Volume(a)
  <2>1. creation'[a] = "environment"
    BY <1>7, <1>12 DEF Volume
  <2> QED BY <1>5, <1>12, <2>1 DEF Volume, Calmly
<1>13. CASE Create(a)
  <2>1. creation[a] = "environment" /\ creation'[a] \in {"publishing", "rollback"}
    BY <1>6, <1>7, <1>13, RollBackIs DEF Create
  <2>2. Calmly(a)
    BY <2>1 DEF Calmly
  <2> QED BY <1>5, <1>13, <2>2 DEF Create
<1>14. CASE Publish(a)
  <2>1. creation'[a] = "lineage"
    BY <1>7, <1>14 DEF Publish
  <2> QED BY <1>5, <1>14, <2>1 DEF Publish, Calmly
<1>15. CASE Lineage(a)
  <2>1. creation[a] = "lineage" /\ creation'[a] \in {"registering", "rollback"}
    BY <1>6, <1>7, <1>15, RollBackIs DEF Lineage
  <2>2. Calmly(a)
    BY <2>1 DEF Calmly
  <2> QED BY <1>5, <1>15, <2>2 DEF Lineage
<1>16. CASE Register(a)
  <2>1. creation[a] = "registering" /\ creation'[a] \in {"checking", "rollback"}
    BY <1>6, <1>7, <1>16, RollBackIs DEF Register
  <2>2. Calmly(a)
    BY <2>1 DEF Calmly
  <2> QED BY <1>5, <1>16, <2>2 DEF Register
<1>17. CASE Check(a)
  <2>1. creation[a] = "checking" /\ UNCHANGED <<rows, tombs, listed, pending, turn>>
    BY <1>17 DEF Check
  <2>2. CASE Retired(Parent[a]) \/ Parent[a] \notin listed
    <3>1. creation'[a] = "rollback"
      BY <1>6, <1>17, <2>1, <2>2, RollBackIs DEF Check
    <3> QED BY <1>4, <1>5, <2>1, <3>1
  <2>3. CASE ~Retired(Parent[a]) /\ Parent[a] \in listed
    <3>1. creation'[a] = "committing"
      BY <1>7, <1>17, <2>3 DEF Check
    <3>2. Parent[a] \in Agents /\ a \in Children(Parent[a])
      BY <1>6, <2>1 DEF CallsOK, Children
    <3>3. Parent[a] \notin pending
      BY <2>1, <3>2 DEF OrphanInv, Barren, Childless
    <3>4. ASSUME NEW d \in Deleters, deletion[d].pc = "forgetting", deletion[d].canonical,
                 deletion[d].node = Parent[a]
          PROVE  FALSE
      <4>1. Parent[a] \in deletion[d].retired
        BY <1>6, <3>2, <3>4, DeletersAre DEF CallsOK, Sound
      <4> QED BY <2>3, <4>1 DEF Retired
    <3>5. Parent[a] \in rows
      BY <2>3, <3>2, <3>3, <3>4 DEF OrphanInv, Rowed
    <3>6. Calmly(a)
      BY <2>1, <2>3, <3>1, <3>5 DEF Calmly
    <3> QED BY <1>5, <2>1, <3>6
  <2> QED BY <2>2, <2>3
<1>18. CASE Commit(a)
  <2>1. /\ creation[a] = "committing" /\ UNCHANGED <<rows, tombs, listed, turn>>
        /\ pending' = pending \ {a}
    BY <1>18 DEF Commit
  <2>2. creation'[a] = "none"
    BY <1>8, <1>18 DEF Commit
  <2>3. Calmly(a)
    BY <2>1, <2>2 DEF Calmly
  <2>4. \A b \in pending \ pending' : creation[b] \in Armed /\ creation'[b] = "none"
    BY <2>1, <2>2
  <2> QED BY <1>1, <1>2, <1>3, <2>1, <2>3, <2>4 DEF Calm
<1>19. CASE CreationFails(a)
  <2>1. creation[a] \in Armed /\ creation'[a] = "rollback"
    BY <1>6, <1>19, RollBackIs DEF CreationFails
  <2> QED BY <1>4, <1>5, <1>19, <2>1 DEF CreationFails
<1> QED BY <1>9, <1>10, <1>11, <1>12, <1>13, <1>14, <1>15, <1>16, <1>17, <1>18, <1>19
        DEF CreationStep

\* A step that leaves the calls, the rows and what is listed is calm, when it
\* begins no turn of an agent that may still be rolled back.
LEMMA StaysCalm ==
    ASSUME Shape, OrphanInv, UNCHANGED <<calls, rows, tombs, listed, pending>>,
           \A p \in turn' \ turn : p \notin pending /\ creation[p] \notin Underway
    PROVE  Calm
<1>1. UNCHANGED <<creation, deletion, stranded>>
  BY DEF calls
<1>2. \A d \in Deleters : Goes(d)
  BY <1>1, GoesOn
<1> QED BY <1>1, <1>2 DEF Calm, Calmly

\* The creations that are dropped go on calmly, and their rollbacks begin again.
LEMMA FellCalm ==
    ASSUME Shape, OrphanInv, NEW S \in SUBSET Agents, NEW D, Fell(S, D)
    PROVE  /\ \A b \in Agents : Calmly(b)
           /\ \A d \in Deleters \ D : Goes(d)
           /\ stranded \subseteq stranded'
<1>1. /\ \A b \in Agents \ S : creation'[b] = creation[b]
      /\ \A d \in Deleters \ (S \cup D) : deletion'[d] = deletion[d]
      /\ \A b \in S : creation[b] \in Unarmed =>
           /\ creation'[b] = "none" /\ deletion'[b] = deletion[b]
           /\ creation[b] = "listing" => b \in stranded'
      /\ stranded \subseteq stranded'
  BY DEF Fell
<1>2. \A b \in S : creation[b] \notin Unarmed =>
        /\ creation'[b] = "rollback"
        /\ Begun(deletion'[b], b) \/ BegunProduct(deletion'[b], b)
  BY FellRests
<1>3. \A b \in Agents : creation[b] \in CreationSteps
                        /\ (creation[b] = "rollback" <=> deletion[b].pc # "none")
  BY DEF Shape, CallsOK
<1>4. ASSUME NEW b \in Agents PROVE Calmly(b)
  <2>1. CASE b \notin S
    BY <1>1, <2>1 DEF Calmly
  <2>2. CASE b \in S /\ creation[b] \in Unarmed
    BY <1>1, <2>2 DEF Calmly, Unarmed
  <2>3. CASE b \in S /\ creation[b] \notin Unarmed
    BY <1>2, <1>3, <2>3 DEF Calmly, CreationSteps, Armed
  <2> QED BY <2>1, <2>2, <2>3
<1>5. ASSUME NEW d \in Deleters \ D PROVE Goes(d)
  <2>1. CASE d \notin S
    BY <1>1, <2>1, GoesOn
  <2>2. CASE d \in S /\ creation[d] \in Unarmed
    BY <1>1, <2>2, GoesOn
  <2>3. CASE d \in S /\ creation[d] \notin Unarmed
    <3>1. d \in Agents /\ creation'[d] = "rollback"
      BY <1>2, <2>3
    <3>2. deletion[d].pc = "forgetting" => creation[d] = "rollback"
      BY <1>3, <3>1
    <3> QED BY <1>2, <2>3, <3>1, <3>2, GoesAway
  <2> QED BY <2>1, <2>2, <2>3
<1> QED BY <1>1, <1>4, <1>5

\* The steps of the agents besides creations are calm.
LEMMA AgentsCalm ==
    ASSUME Shape, LeftInv, OrphanInv, "early" \notin Events, NEW a \in Agents,
           \/ Parent[a] # None /\ Spawn(a)
           \/ TurnBegins(a) \/ TurnEnds(a) \/ Interrupt(a) \/ LoadThread(a)
           \/ ApplyBegins(a) \/ ApplyEnds(a) \/ ApplyFails(a)
    PROVE  Calm
<1> USE DEF store, docker, runtime, gates
<1>1. CallsOK
  BY DEF Shape
<1>2. CASE Parent[a] # None /\ Spawn(a)
  <2>1. /\ UNCHANGED <<rows, tombs, turn, listed, pending>> /\ Parent[a] \in turn \cap listed
    BY <1>2 DEF Spawn
  <2>2. /\ creation[a] = "none" /\ creation'[a] = "parent"
        /\ \A b \in Agents \ {a} : creation'[b] = creation[b]
        /\ UNCHANGED <<deletion, stranded>>
    BY <1>1, <1>2, SpawnIs
  <2>3. \A d \in Deleters : Goes(d)
    BY <2>2, GoesOn
  <2>4. \A b \in Agents : Calmly(b)
    BY <2>1, <2>2 DEF Calmly
  <2> QED BY <2>1, <2>2, <2>3, <2>4 DEF Calm
<1>3. CASE TurnBegins(a)
  <2>1. /\ UNCHANGED <<calls, rows, tombs, listed, pending>>
        /\ turn' = turn \cup {a} /\ a \in threads /\ a \notin pending
    BY <1>3 DEF TurnBegins
  <2>2. creation[a] \notin Underway
    <3> SUFFICES ASSUME creation[a] \in Underway PROVE FALSE
      OBVIOUS
    <3>1. a \notin listed
      BY <2>1 DEF OrphanInv, Awaiting
    <3>2. a \in rows \ listed
      BY <2>1, <3>1 DEF LeftInv, NothingLeft
    <3>3. creation[a] = "listing"
      BY <3>2 DEF OrphanInv, Rowed, Unarmed, Underway, Armed, Product, Canonical
    <3> QED BY <2>1, <3>3 DEF LeftInv, Fresh, BeforeThread
  <2> QED BY <2>1, <2>2, StaysCalm
<1>4. CASE Interrupt(a)
  <2>1. /\ UNCHANGED <<rows, tombs, listed, pending>> /\ turn' = turn \ {a}
    BY <1>4 DEF Interrupt
  <2>2. PICK S \in SUBSET (awaited \cap Children(a)) : Fell(S, {})
    BY <1>4, InterruptIs
  <2>3. S \in SUBSET Agents
    BY <1>1 DEF CallsOK
  <2> DEFINE D == {}
  <2>4. Fell(S, D) /\ Deleters \ D = Deleters
    BY <2>2
  <2> HIDE DEF D
  <2>5. /\ \A b \in Agents : Calmly(b)
        /\ \A d \in Deleters \ D : Goes(d)
        /\ stranded \subseteq stranded'
    BY <2>3, <2>4, FellCalm
  <2> QED BY <2>1, <2>4, <2>5 DEF Calm
<1>5. CASE TurnEnds(a)
  <2>1. UNCHANGED <<calls, rows, tombs, listed, pending>> /\ turn' \subseteq turn
    BY <1>5 DEF TurnEnds
  <2> QED BY <2>1, StaysCalm
<1>6. CASE LoadThread(a) \/ ApplyBegins(a) \/ ApplyEnds(a) \/ ApplyFails(a)
  <2>1. UNCHANGED <<calls, rows, tombs, listed, pending, turn>>
    BY <1>6 DEF LoadThread, ApplyBegins, ApplyEnds, ApplyFails
  <2> QED BY <2>1, StaysCalm
<1> QED BY <1>2, <1>3, <1>4, <1>5, <1>6

\* So is the request of a user.
LEMMA AskCalm ==
    ASSUME Shape, OrphanInv, NEW u \in Users, NEW a \in Agents, Ask(u, a)
    PROVE  Calm
<1>1. UNCHANGED <<rows, tombs, turn, listed, pending>>
  BY DEF Ask, store, runtime
<1>2. /\ deletion[u].pc = "none" /\ deletion'[u] = Reclaim(a, TRUE, FALSE)
      /\ \A d \in Deleters \ {u} : deletion'[d] = deletion[d]
      /\ UNCHANGED <<creation, stranded>>
  BY AskIs
<1>3. Begun(deletion'[u], a)
  BY <1>2, ReclaimBegins
<1>4. Goes(u)
  BY <1>2, <1>3, GoesAway, DeletersAre
<1>5. \A d \in Deleters : Goes(d)
  BY <1>2, <1>4, GoesOn
<1> QED BY <1>1, <1>2, <1>5 DEF Calm, Calmly

\* A deletion that ends: of a rollback either the row is gone, or it is told as
\* left halfway.
LEMMA EndsCalm ==
    ASSUME Shape, OrphanInv, NEW d \in Deleters, deletion[d].pc # "none", NEW ok \in BOOLEAN,
           Ends(d, ok), ok => d \notin rows,
           deletion[d].pc = "forgetting" => deletion[d].node \notin listed',
           UNCHANGED <<rows, tombs, turn>>,
           listed' \subseteq listed, listed \cap rows \subseteq listed', pending' \subseteq pending,
           \A a \in pending \ pending' : a \notin listed'
    PROVE  Calm
<1>1. CallsOK
  BY DEF Shape
<1>2. /\ \A e \in Deleters \ {d} : deletion'[e] = deletion[e]
      /\ \A b \in Agents \ {d} : creation'[b] = creation[b]
      /\ stranded \subseteq stranded'
      /\ d \in Agents => \/ creation'[d] = "none" /\ (ok \/ d \in stranded')
                         \/ creation' = creation
  BY <1>1, EndsIs
<1>3. \/ deletion'[d] = NoDeletion
      \/ d \in Agents /\ (Begun(deletion'[d], d) \/ BegunProduct(deletion'[d], d))
  BY <1>1, EndsRests
<1>4. Goes(d)
  BY <1>3, GoesAway
<1>5. \A e \in Deleters : Goes(e)
  BY <1>2, <1>4, GoesOn
<1>6. d \in Agents => creation[d] = "rollback"
  BY <1>1 DEF CallsOK
<1>7. \A b \in Agents : Calmly(b)
  BY <1>2, <1>6 DEF Calmly
<1> QED BY <1>2, <1>5, <1>7 DEF Calm

\* An agent that is rolled back has no subtree but itself ...
LEMMA OwnSubtree ==
    ASSUME Shape, OrphanInv, NEW a \in Agents, creation[a] = "rollback"
    PROVE  Subtree(a) \subseteq {a}
<1> SUFFICES ASSUME NEW b \in Subtree(a), b # a PROVE FALSE
  OBVIOUS
<1>1. b \in Agents /\ a \in Line[b] /\ \A c \in Line[b] : a \in Line[c] => c \in listed
  BY DEF Subtree, Shape, AgentsOK
<1>2. PICK x \in Line[b] : Parent[x] = a /\ a \in Line[x]
  BY <1>1, LineThrough
<1>3. x \in listed /\ x \in Children(a)
  BY <1>1, <1>2, LineIs DEF Children
<1>4. Childless(a)
  BY DEF OrphanInv, Barren, Underway
<1> QED BY <1>3, <1>4 DEF Childless

\* ... and every subtree has the children of its agents that are listed.
LEMMA SubtreeCloses ==
    ASSUME AgentsOK, NEW a \in Agents, NEW n \in Subtree(a), NEW c \in Children(n), c \in listed
    PROVE  c \in Subtree(a)
<1>1. n \in Agents /\ a \in Line[n] /\ \A x \in Line[n] : a \in Line[x] => x \in listed
  BY DEF Subtree, AgentsOK
<1>2. c \in Agents /\ Parent[c] = n /\ n # None
  BY <1>1, TreeAssumption DEF Children
<1>3. Line[c] = {c} \cup Line[n]
  BY <1>2, LineIs
<1> QED BY <1>1, <1>3 DEF Subtree

\* What is rolled back has no row without a record.
LEMMA NoneToFind ==
    ASSUME Shape, OrphanInv, NEW d \in Deleters, deletion[d].pc # "none", d \notin listed
    PROVE  d \notin rows
<1> SUFFICES ASSUME d \in rows PROVE FALSE
  OBVIOUS
<1>1. d \in Agents
  BY DEF Shape, AgentsOK
<1>2. creation[d] = "rollback"
  BY <1>1 DEF Shape, CallsOK
<1> QED BY <1>1, <1>2 DEF OrphanInv, Rowed, Unarmed

\* A new sample is calm: a child of the subtree it has not taken is not listed.
LEMMA SampleCalm ==
    ASSUME Shape, OrphanInv, NEW d \in Deleters, Sample(d)
    PROVE  Calm
<1>1. UNCHANGED <<rows, tombs, turn, listed, pending>>
  BY DEF Sample, store, runtime
<1>2. deletion[d].pc = "sampling" /\ deletion[d].root \in Agents
  BY SampleIs
<1>3. d \in Agents => deletion[d].root = d /\ creation[d] = "rollback"
  BY <1>2 DEF Shape, CallsOK, Sound
<1> DEFINE targets == Subtree(deletion[d].root)
<1>4. CASE deletion[d].root \notin listed /\ Ends(d, TRUE)
  <2>1. d \notin rows
    <3>1. CASE d \in Agents
      BY <1>2, <1>3, <1>4, <3>1, NoneToFind
    <3>2. CASE d \notin Agents
      BY <3>2 DEF Shape, AgentsOK
    <3> QED BY <3>1, <3>2
  <2> QED BY <1>1, <1>2, <1>4, <2>1, EndsCalm
<1>5. CASE /\ deletion'[d].pc \in {"marking", "locking"}
           /\ \A e \in Deleters \ {d} : deletion'[e] = deletion[e]
           /\ UNCHANGED <<called, creation, awaited, stranded>>
           /\ deletion'[d].todo = targets
           /\ deletion'[d].pc = "marking" => deletion'[d].node = None
           /\ deletion'[d].pc = "locking" => /\ targets \subseteq deletion[d].retired
                                             /\ Leaf(deletion'[d].todo, deletion'[d].node)
  <2>1. d \in Agents => targets \subseteq {d}
    BY <1>3, OwnSubtree
  <2>2. d \in Agents => deletion'[d].node \in {d, None}
    BY <1>5, <2>1 DEF Leaf
  <2>3. ASSUME deletion'[d].pc = "locking", NEW n \in targets
        PROVE  Retired(n) /\ \A c \in Children(n) : c \in rows \ targets => Unsettled(c)
    <3>1. Retired(n)
      BY <1>5, <2>3 DEF Retired
    <3>2. ASSUME NEW c \in Children(n), c \in rows \ targets PROVE Unsettled(c)
      <4>1. c \notin listed
        BY <1>2, <3>2, SubtreeCloses DEF Shape
      <4>2. c \in Agents /\ c \in rows \ listed
        BY <3>2, <4>1 DEF Children
      <4> QED BY <4>2 DEF OrphanInv, Rowed, Unsettled, Undecided
    <3> QED BY <3>1, <3>2
  <2> HIDE DEF targets
  <2>4. Goes(d)
    <3>1. deletion'[d].pc \in Held \cup {"locking"} => deletion'[d].pc = "locking"
      BY <1>5 DEF Held
    <3> QED BY <1>2, <1>5, <2>1, <2>2, <2>3, <3>1 DEF Goes
  <2>5. \A e \in Deleters : Goes(e)
    BY <1>5, <2>4, GoesOn
  <2> QED BY <1>1, <1>5, <2>5 DEF Calm, Calmly
<1> QED BY <1>4, <1>5, SampleIs

\* So are the marks, ...
LEMMA MarkCalm ==
    ASSUME Shape, OrphanInv, NEW d \in Deleters, Mark(d)
    PROVE  Calm
<1>1. UNCHANGED <<rows, tombs, turn, listed, pending>>
  BY DEF Mark, store, runtime
<1>2. deletion[d].pc = "marking"
  BY MarkIs
<1>3. CASE Ends(d, FALSE)
  BY <1>1, <1>2, <1>3, EndsCalm
<1>4. CASE /\ deletion'[d].pc = "sampling" /\ deletion'[d].node = None
           /\ deletion'[d].todo = deletion[d].todo
           /\ \A e \in Deleters \ {d} : deletion'[e] = deletion[e]
           /\ UNCHANGED <<called, creation, awaited, stranded>>
  <2>1. d \in Agents => deletion[d].todo \subseteq {d}
    BY DEF OrphanInv, OwnOnly
  <2>2. Goes(d)
    BY <1>2, <1>4, <2>1 DEF Goes, Held
  <2>3. \A e \in Deleters : Goes(e)
    BY <1>4, <2>2, GoesOn
  <2> QED BY <1>1, <1>4, <2>3 DEF Calm, Calmly
<1> QED BY <1>3, <1>4, MarkIs

\* ... the steps under the lock ...
LEMMA ThenCalm ==
    ASSUME Shape, OrphanInv, NEW d \in Deleters,
           deletion[d].pc \in (Held \cup {"locking"}) \ {"forgetting"},
           NEW p \in Held, p = "closing" => deletion[d].canonical, Then(d, p),
           UNCHANGED <<rows, tombs, turn, listed, pending>>
    PROVE  Calm
<1>1. /\ deletion'[d].node = deletion[d].node /\ deletion'[d].todo = deletion[d].todo
      /\ deletion'[d].canonical = deletion[d].canonical
      /\ \A e \in Deleters \ {d} : deletion'[e] = deletion[e]
      /\ UNCHANGED <<called, creation, awaited, stranded>>
  BY ThenIs DEF Shape
<1>2. \A e \in Deleters : Goes(e)
  BY <1>1, GoesOn
<1> QED BY <1>1, <1>2 DEF Calm, Calmly

\* ... the end of the thread ...
LEMMA CloseCalm ==
    ASSUME Shape, OrphanInv, NEW d \in Deleters, CloseThread(d)
    PROVE  Calm
<1>1. UNCHANGED <<rows, tombs, listed, pending>> /\ turn' \subseteq turn
  BY DEF CloseThread, store
<1>2. /\ deletion[d].pc = "closing" /\ deletion[d].canonical /\ deletion'[d].canonical
      /\ deletion'[d].node = deletion[d].node /\ deletion'[d].todo = deletion[d].todo
  BY CloseIs
<1>3. PICK S \in SUBSET (awaited \cap Children(deletion[d].node)) : Fell(S, {d}) /\ d \notin S
  BY CloseIs
<1>4. S \in SUBSET Agents
  BY DEF Shape, CallsOK
<1>5. /\ \A b \in Agents : Calmly(b)
      /\ \A e \in Deleters \ {d} : Goes(e)
      /\ stranded \subseteq stranded'
  BY <1>3, <1>4, FellCalm
<1>6. Goes(d)
  <2>1. deletion[d].canonical = TRUE /\ deletion'[d].canonical = TRUE
    <3>1. CallsOK /\ CallsOK'
      BY CloseIs DEF Shape
    <3>2. deletion[d] \in DeletionRecords /\ deletion'[d] \in DeletionRecords
      BY <3>1 DEF CallsOK
    <3> QED BY <1>2, <3>2 DEF DeletionRecords
  <2> QED BY <1>2, <2>1, GoesOn DEF Held
<1> QED BY <1>1, <1>5, <1>6 DEF Calm

\* ... and the end of a node, whose row is gone.
LEMMA ForgetCalm ==
    ASSUME Shape, LeftInv, OrphanInv, NEW d \in Deleters, Forget(d)
    PROVE  Calm
<1> DEFINE n == deletion[d].node
<1>1. /\ UNCHANGED <<rows, tombs, turn>>
      /\ listed' = listed \ {n} /\ pending' = pending \ {n}
  BY DEF Forget, runtime
<1>2. deletion[d].pc = "forgetting" /\ n \in Agents
  BY ForgetIs
<1>3. n \notin rows
  BY <1>2 DEF LeftInv, Stripped, StrippedOf
<1>4. d \in Agents => n = d /\ deletion[d].todo \subseteq {d}
  BY <1>2, DeletersAre DEF OrphanInv, OwnOnly
<1>5. CASE Ends(d, TRUE)
  <2>1. d \notin rows
    BY <1>3, <1>4 DEF Shape, AgentsOK
  <2> QED BY <1>1, <1>2, <1>3, <1>5, <2>1, EndsCalm
<1>6. CASE /\ deletion[d].canonical
           /\ deletion'[d].todo = deletion[d].todo \ {n}
           /\ Leaf(deletion'[d].todo, deletion'[d].node)
           /\ \A e \in Deleters \ {d} : deletion'[e] = deletion[e]
           /\ UNCHANGED <<called, creation, awaited, stranded>>
  <2>1. d \notin Agents
    BY <1>4, <1>6 DEF Leaf
  <2>2. ASSUME NEW m \in deletion'[d].todo
        PROVE  /\ Retired(m)
               /\ \A c \in Children(m) : c \in rows \ deletion'[d].todo => Unsettled(c)
    <3>1. m \in deletion[d].retired
      BY <1>2, <1>6, <2>2, DeletersAre DEF Shape, CallsOK, Sound
    <3>2. \A c \in Children(m) : c \in rows \ deletion[d].todo => Unsettled(c)
      BY <1>2, <1>6, <2>2 DEF OrphanInv, Taken, Held
    <3> QED BY <1>3, <1>6, <3>1, <3>2 DEF Retired
  <2>3. Goes(d)
    BY <1>1, <1>6, <2>1, <2>2 DEF Goes
  <2>4. \A e \in Deleters : Goes(e)
    BY <1>6, <2>3, GoesOn
  <2> QED BY <1>1, <1>3, <1>6, <2>4 DEF Calm, Calmly
<1> QED BY <1>5, <1>6, ForgetIs

\* The row of a node is deleted: its children went first, or are not settled.
LEMMA OrphanDeleteRow ==
    ASSUME Shape, LeftInv, OrphanInv, NEW d \in Deleters, DeleteRow(d)
    PROVE  OrphanInv'
<1> DEFINE n == deletion[d].node
<1>1. /\ rows' = rows \ {n} /\ tombs' = tombs \cup {n}
      /\ UNCHANGED <<turn, listed, pending>>
      /\ deletion[d].pc = "records" /\ Then(d, "forgetting")
  BY DEF DeleteRow, At, runtime
<1>2. /\ deletion'[d].pc = "forgetting" /\ deletion'[d].node = n
      /\ deletion'[d].todo = deletion[d].todo /\ deletion'[d].canonical = deletion[d].canonical
      /\ \A e \in Deleters \ {d} : deletion'[e] = deletion[e]
      /\ UNCHANGED <<creation, stranded>>
  BY <1>1, ThenIs DEF Shape, Held
<1>3. /\ Rowed /\ Awaiting /\ Barren /\ Descent /\ OwnOnly /\ Taken /\ Covered
      /\ rows \subseteq Agents /\ n \in Agents /\ n \in listed
  BY <1>1 DEF OrphanInv, Shape, AgentsOK, CallsOK, Sound, LeftInv, Stripped, StrippedOf, Held
<1>4. \/ deletion[d].canonical
      \/ d = n /\ creation[n] = "rollback"
  BY <1>1 DEF Shape, CallsOK, Sound
<1>5. Rowed'
  <2>1. ASSUME NEW a \in Agents
        PROVE  /\ a \in rows' \ listed' => \/ creation'[a] = "listing"
                                           \/ creation'[a] \in Unarmed /\ a \in stranded'
               /\ creation'[a] = "listing" => a \in rows' \ listed'
    BY <1>1, <1>2, <1>3 DEF Rowed
  <2>2. ASSUME NEW a \in Agents, a \in listed' \ rows'
        PROVE  \/ a \in pending' /\ creation'[a] \notin {"listing"} \cup Armed
               \/ \E e \in Deleters : /\ deletion'[e].pc = "forgetting" /\ deletion'[e].canonical
                                      /\ deletion'[e].node = a
    <3>1. CASE a = n /\ deletion[d].canonical
      BY <1>2, <3>1
    <3>2. CASE a = n /\ creation[n] = "rollback"
      <4>1. a \in pending
        BY <1>3, <3>2 DEF Awaiting, Underway
      <4> QED BY <1>1, <1>2, <3>2, <4>1 DEF Armed, Product, Canonical
    <3>3. CASE a # n
      <4>1. a \in listed \ rows
        BY <1>1, <2>2, <3>3
      <4>2. CASE a \in pending /\ creation[a] \notin {"listing"} \cup Armed
        BY <1>1, <1>2, <4>2
      <4>3. CASE \E e \in Deleters : /\ deletion[e].pc = "forgetting" /\ deletion[e].canonical
                                     /\ deletion[e].node = a
        <5>1. PICK e \in Deleters : /\ deletion[e].pc = "forgetting" /\ deletion[e].canonical
                                    /\ deletion[e].node = a
          BY <4>3
        <5>2. deletion'[e] = deletion[e]
          BY <1>1, <1>2, <5>1
        <5> QED BY <5>1, <5>2
      <4> QED BY <1>3, <4>1, <4>2, <4>3 DEF Rowed
    <3> QED BY <1>4, <3>1, <3>2, <3>3
  <2> QED BY <2>1, <2>2 DEF Rowed
<1>6. Awaiting' /\ Barren'
  BY <1>1, <1>2, <1>3 DEF Awaiting, Barren, Childless
<1>7. Descent'
  BY <1>1, <1>2, <1>3 DEF Descent
<1>8. OwnOnly'
  BY <1>2, <1>3, DeletersAre DEF OwnOnly
<1>9. Taken'
  <2> SUFFICES ASSUME NEW e \in Deleters, deletion'[e].canonical,
                      deletion'[e].pc \in Held \cup {"locking"}
               PROVE  /\ Leaf(deletion'[e].todo, deletion'[e].node)
                      /\ \A m \in deletion'[e].todo : \A c \in Children(m) :
                           c \in rows' \ deletion'[e].todo => Unsettled(c)'
    BY DEF Taken, Leaf
  <2>1. /\ deletion'[e].todo = deletion[e].todo /\ deletion'[e].node = deletion[e].node
        /\ deletion[e].canonical /\ deletion[e].pc \in Held \cup {"locking"}
    BY <1>1, <1>2 DEF Held
  <2> QED BY <1>1, <1>2, <1>3, <2>1 DEF Taken, Unsettled
<1>10. Covered'
  <2> SUFFICES ASSUME NEW a \in rows', ~(Parent[a] \in rows' \cup {None})
               PROVE  Unsettled(a)'
    BY DEF Covered
  <2>1. a \in rows /\ a \in Agents
    BY <1>1, <1>3
  <2>2. CASE Parent[a] # n
    BY <1>1, <1>2, <1>3, <2>1, <2>2 DEF Covered, Unsettled
  <2>3. CASE Parent[a] = n /\ deletion[d].canonical
    <3>1. n \in deletion[d].todo /\ a \in Children(n) /\ a \notin deletion[d].todo
      BY <1>1, <1>3, <2>1, <2>3 DEF Taken, Leaf, Children, Held
    <3>2. Unsettled(a)
      BY <1>1, <1>3, <2>1, <2>3, <3>1 DEF Taken, Held
    <3> QED BY <1>2, <3>2 DEF Unsettled
  <2>4. CASE Parent[a] = n /\ creation[n] = "rollback"
    BY <1>3, <2>1, <2>4 DEF Barren, Childless, Children, Underway
  <2> QED BY <1>4, <2>2, <2>3, <2>4
<1> QED BY <1>5, <1>6, <1>7, <1>8, <1>9, <1>10 DEF OrphanInv

\* The row of a new agent: no child was created under it.
LEMMA OrphanInsert ==
    ASSUME Shape, LeftInv, OrphanInv, NEW a \in Agents, Insert(a), a \notin rows \cup tombs
    PROVE  OrphanInv'
<1>1. /\ rows' = rows \cup {a} /\ UNCHANGED <<tombs, turn, listed, pending>>
      /\ creation[a] = "inserting" /\ Goto(a, "listing")
  BY DEF Insert, runtime
<1>2. /\ creation'[a] = "listing" /\ \A b \in Agents \ {a} : creation'[b] = creation[b]
      /\ UNCHANGED <<deletion, stranded>>
  BY <1>1, GotoIs DEF Shape, CreationSteps, Unarmed
<1>3. /\ Rowed /\ Awaiting /\ Barren /\ Descent /\ OwnOnly /\ Taken /\ Covered
      /\ rows \subseteq Agents /\ a # None
  BY TreeAssumption DEF OrphanInv, Shape, AgentsOK
<1>4. a \notin listed /\ a \notin turn
  BY DEF LeftInv, Records, NothingLeft
<1>5. Rowed'
  BY <1>1, <1>2, <1>3, <1>4 DEF Rowed
<1>6. Awaiting'
  BY <1>1, <1>2, <1>3, <1>4 DEF Awaiting
<1>7. Parent[a] # a
  BY <1>1, <1>3 DEF Descent
<1>8. Childless(a)
  BY <1>3, <1>4 DEF Descent, Childless, Children
<1>9. Barren'
  <2> SUFFICES ASSUME NEW p \in Agents, creation'[p] \in Underway \/ p \in pending'
               PROVE  Childless(p)'
    BY DEF Barren
  <2>1. Childless(p)
    BY <1>1, <1>2, <1>3, <1>8 DEF Barren
  <2>2. a \notin Children(p)
    BY <1>1, <2>1 DEF Childless
  <2> QED BY <1>1, <1>2, <2>1, <2>2 DEF Childless, Children
<1>10. Descent'
  BY <1>1, <1>2, <1>3 DEF Descent
<1>11. OwnOnly'
  BY <1>2, <1>3 DEF OwnOnly
<1>12. Unsettled(a)' /\ \A c \in Agents : Unsettled(c) => Unsettled(c)'
  BY <1>2 DEF Unsettled, Undecided
<1>13. Taken'
  BY <1>1, <1>2, <1>3, <1>12 DEF Taken, Leaf, Children
<1>14. Covered'
  BY <1>1, <1>3, <1>12 DEF Covered
<1> QED BY <1>5, <1>6, <1>9, <1>10, <1>11, <1>13, <1>14 DEF OrphanInv

\* Its record: it is pending from the first.
LEMMA OrphanList ==
    ASSUME Shape, LeftInv, OrphanInv, NEW a \in Agents, List(a)
    PROVE  OrphanInv'
<1>1. /\ UNCHANGED <<rows, tombs, turn>>
      /\ listed' = listed \cup {a} /\ pending' = pending \cup {a}
      /\ creation[a] = "listing" /\ Goto(a, "volume")
  BY DEF List, store, runtime
<1>2. /\ creation'[a] = "volume" /\ \A b \in Agents \ {a} : creation'[b] = creation[b]
      /\ UNCHANGED <<deletion, stranded>>
  BY <1>1, GotoIs DEF Shape, CreationSteps, Product
<1>3. /\ Rowed /\ Awaiting /\ Barren /\ Descent /\ OwnOnly /\ Taken /\ Covered
      /\ rows \subseteq Agents /\ a \in rows
  BY <1>1 DEF OrphanInv, Shape, AgentsOK, Rowed
<1>4. Rowed'
  BY <1>1, <1>2, <1>3 DEF Rowed
<1>5. Awaiting'
  BY <1>1, <1>2, <1>3 DEF Awaiting
<1>6. Barren'
  <2> SUFFICES ASSUME NEW p \in Agents, creation'[p] \in Underway \/ p \in pending'
               PROVE  Childless(p)'
    BY DEF Barren
  <2>1. Childless(p)
    BY <1>1, <1>2, <1>3 DEF Barren, Underway
  <2>2. a \notin Children(p)
    BY <1>3, <2>1 DEF Childless
  <2> QED BY <1>1, <1>2, <2>1, <2>2 DEF Childless, Children
<1>7. Descent'
  BY <1>1, <1>2, <1>3 DEF Descent
<1>8. OwnOnly'
  BY <1>2, <1>3 DEF OwnOnly
<1>9. \A c \in Agents : Unsettled(c) => Unsettled(c)'
  BY <1>2 DEF Unsettled, Undecided, Product
<1>10. Taken'
  BY <1>1, <1>2, <1>3, <1>9 DEF Taken, Leaf, Children
<1>11. Covered'
  BY <1>1, <1>3, <1>9 DEF Covered
<1> QED BY <1>4, <1>5, <1>6, <1>7, <1>8, <1>10, <1>11 DEF OrphanInv

\* When the server starts again, what was under way is left halfway.
LEMMA OrphanRestart ==
    ASSUME Shape, OrphanInv, Restart
    PROVE  OrphanInv'
<1>1. /\ UNCHANGED <<rows, tombs>> /\ listed' = rows /\ pending' = {} /\ turn' = {}
  BY DEF Restart
<1>2. /\ \A a \in Agents : creation'[a] = "none"
      /\ \A d \in Deleters : deletion'[d] = NoDeletion
      /\ stranded \subseteq stranded'
      /\ \A a \in Agents : creation[a] \notin {"none", "parent", "inserting"} => a \in stranded'
  BY RestartIs DEF Shape
<1>3. Descent /\ Covered /\ rows \subseteq Agents
  BY DEF OrphanInv, Shape, AgentsOK
<1>4. Rowed' /\ Awaiting' /\ Barren'
  BY <1>1, <1>2, <1>3 DEF Rowed, Awaiting, Barren, Underway, Armed, Product, Canonical
<1>5. Descent'
  BY <1>1, <1>2, <1>3 DEF Descent
<1>6. OwnOnly' /\ Taken'
  BY <1>2, DeletersAre DEF OwnOnly, Taken, NoDeletion, Held
<1>7. \A a \in Agents : Unsettled(a) => Unsettled(a)'
  BY <1>2 DEF Unsettled, Undecided, Product
<1>8. Covered'
  BY <1>1, <1>3, <1>7 DEF Covered
<1> QED BY <1>4, <1>5, <1>6, <1>8 DEF OrphanInv

\* At first every agent is in memory, under another or a root.
LEMMA InitOrphan == Init => OrphanInv
<1> SUFFICES ASSUME Init PROVE OrphanInv
  OBVIOUS
<1>1. /\ rows = Existing /\ listed = Existing /\ tombs = {} /\ turn = {} /\ pending = {}
      /\ \A a \in Agents : creation[a] = "none"
      /\ \A d \in Deleters : deletion[d] = NoDeletion
  BY DEF Init
<1>2. \A a \in Existing : a \in Agents /\ Parent[a] \in Existing \cup {None}
  BY TreeAssumption
<1>3. Rowed /\ Awaiting /\ Barren
  BY <1>1 DEF Rowed, Awaiting, Barren, Underway, Armed, Product, Canonical
<1>4. Descent /\ Covered
  BY <1>1, <1>2 DEF Descent, Covered
<1>5. OwnOnly /\ Taken
  BY <1>1, DeletersAre DEF OwnOnly, Taken, NoDeletion, Held
<1> QED BY <1>3, <1>4, <1>5 DEF OrphanInv

\* The invariant under every step of a deletion ...
LEMMA OrphanDeletion ==
    ASSUME Shape, LeftInv, OrphanInv, "reclaim" \notin Events,
           NEW d \in Deleters, deletion[d].pc # "none", DeletionStep(d) \/ DeletionFails(d)
    PROVE  OrphanInv'
<1> USE DEF store, runtime, gates
<1>1. CASE Sample(d)
  BY <1>1, SampleCalm, OrphanCalm
<1>2. CASE Mark(d)
  BY <1>2, MarkCalm, OrphanCalm
<1>3. CASE Lock(d)
  <2>1. /\ deletion[d].pc = "locking" /\ UNCHANGED <<rows, tombs, turn, listed, pending>>
    BY <1>3 DEF Lock, At
  <2>2. PICK p \in {"closing", "leasing"} : Then(d, p) /\ (p = "closing" => deletion[d].canonical)
    BY <1>3 DEF Lock
  <2>3. p \in Held /\ "locking" # "forgetting"
    BY DEF Held
  <2>4. Calm
    BY <2>1, <2>2, <2>3, ThenCalm
  <2> QED BY <2>4, OrphanCalm
<1>4. CASE CloseThread(d)
  BY <1>4, CloseCalm, OrphanCalm
<1>5. CASE RevokeLease(d)
  <2>1. /\ deletion[d].pc = "leasing" /\ Then(d, "resources")
        /\ UNCHANGED <<rows, tombs, turn, listed, pending>>
    BY <1>5 DEF RevokeLease, At
  <2>2. Calm
    BY <2>1, ThenCalm DEF Held
  <2> QED BY <2>2, OrphanCalm
<1>6. CASE DeleteResources(d)
  <2>1. deletion[d].pc = "resources" /\ UNCHANGED <<rows, tombs, turn, listed, pending>>
    BY <1>6 DEF DeleteResources, At
  <2>2. CASE deletion[d].node \in listed
    <3>1. Then(d, "records")
      BY <1>6, <2>2 DEF DeleteResources
    <3>2. Calm
      BY <2>1, <3>1, ThenCalm DEF Held
    <3> QED BY <3>2, OrphanCalm
  <2>3. CASE deletion[d].node \notin listed
    <3>1. Ends(d, TRUE)
      BY <1>6, <2>3 DEF DeleteResources
    <3>2. d \in Agents => deletion[d].node = d
      BY <2>1, DeletersAre DEF OrphanInv, OwnOnly, Shape, CallsOK, Sound, Held
    <3>3. d \notin rows
      <4>1. CASE d \in Agents
        BY <2>1, <2>3, <3>2, <4>1, NoneToFind
      <4>2. CASE d \notin Agents
        BY <4>2 DEF Shape, AgentsOK
      <4> QED BY <4>1, <4>2
    <3>4. Calm
      BY <2>1, <3>1, <3>3, EndsCalm
    <3> QED BY <3>4, OrphanCalm
  <2> QED BY <2>2, <2>3
<1>7. CASE DeleteRow(d)
  BY <1>7, OrphanDeleteRow
<1>8. CASE Forget(d)
  BY <1>8, ForgetCalm, OrphanCalm
<1>9. CASE DeletionFails(d)
  <2>1. /\ deletion[d].pc \in {"leasing", "resources", "records"} /\ Ends(d, FALSE)
        /\ UNCHANGED <<rows, tombs, turn, listed, pending>>
    BY <1>9 DEF DeletionFails
  <2>2. Calm
    BY <2>1, EndsCalm
  <2> QED BY <2>2, OrphanCalm
<1> QED BY <1>1, <1>2, <1>3, <1>4, <1>5, <1>6, <1>7, <1>8, <1>9 DEF DeletionStep

\* ... and under every other.
LEMMA OrphanStep ==
    ASSUME "early" \notin Events, "reclaim" \notin Events
    PROVE  Shape /\ LeftInv /\ OrphanInv /\ [Next]_vars => OrphanInv'
<1> SUFFICES ASSUME Shape, LeftInv, OrphanInv, [Next]_vars PROVE OrphanInv'
  OBVIOUS
<1>1. ASSUME NEW a \in Agents, CreationStep(a) \/ CreationFails(a) PROVE OrphanInv'
  <2>1. CASE creation[a] = "listing"
    <3>1. List(a)
      BY <1>1, <2>1 DEF CreationStep, CreationFails, ParentContainer, Insert, Volume, Create,
                        Publish, Lineage, Register, Check, Commit, Product
    <3> QED BY <3>1, OrphanList
  <2>2. CASE creation'[a] = "listing"
    <3>1. creation[a] \in {"inserting", "listing"}
      BY <2>2, <1>1, CreationMoves
    <3>2. CASE creation[a] = "inserting"
      <4>1. Insert(a)
        BY <1>1, <3>2 DEF CreationStep, CreationFails, ParentContainer, List, Volume, Create,
                          Publish, Lineage, Register, Check, Commit, Product
      <4>2. a \notin rows \cup tombs
        BY <2>2, <4>1, OverIs DEF Insert, Shape
      <4> QED BY <4>1, <4>2, OrphanInsert
    <3> QED BY <2>1, <3>1, <3>2
  <2>3. CASE creation[a] # "listing" /\ creation'[a] # "listing"
    BY <1>1, <2>3, CreationCalm, OrphanCalm
  <2> QED BY <2>1, <2>2, <2>3
<1>2. ASSUME NEW a \in Agents,
             \/ Parent[a] # None /\ Spawn(a)
             \/ TurnBegins(a) \/ TurnEnds(a) \/ Interrupt(a) \/ LoadThread(a)
             \/ ApplyBegins(a) \/ ApplyEnds(a) \/ ApplyFails(a)
      PROVE  OrphanInv'
  BY <1>2, AgentsCalm, OrphanCalm
<1>3. ASSUME NEW u \in Users, NEW a \in Agents, Ask(u, a) PROVE OrphanInv'
  BY <1>3, AskCalm, OrphanCalm
<1>4. ASSUME NEW d \in Deleters, deletion[d].pc # "none", DeletionStep(d) \/ DeletionFails(d)
      PROVE  OrphanInv'
  BY <1>4, OrphanDeletion
<1>5. CASE Restart
  BY <1>5, OrphanRestart
<1>6. CASE UNCHANGED vars
  <2>1. UNCHANGED <<calls, rows, tombs, listed, pending, turn>>
    BY <1>6 DEF vars, store, runtime
  <2>2. Calm
    BY <2>1, StaysCalm
  <2> QED BY <2>2, OrphanCalm
<1>7. CASE Next
  BY <1>1, <1>2, <1>3, <1>4, <1>5, <1>7 DEF Next
<1> QED BY <1>6, <1>7

\* No child outlives its parent unseen, when a message waits for the end of the
\* creation of its agent and the snapshots of a deleted one can be reclaimed.
THEOREM NoOrphans ==
    ASSUME "early" \notin Events, "reclaim" \notin Events
    PROVE  Spec => []NoOrphan
<1>1. OrphanInv => NoOrphan
  BY DEF OrphanInv, Covered, NoOrphan, Unsettled
<1>2. Shape /\ LeftInv /\ OrphanInv /\ [Next]_vars => OrphanInv'
  BY OrphanStep
<1> QED BY <1>1, <1>2, InitShape, ShapeStep, InitLeft, LeftStep, InitOrphan, PTL DEF Spec
=============================================================================
