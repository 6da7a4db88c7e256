-------------------------- MODULE TaskGraph_proofs --------------------------
(***************************************************************************)
(* Theorems about the dependencies and the execution plans of              *)
(* TaskLifecycle, and about the walk that looks for cycles, for every set  *)
(* of tasks and steps.                                                     *)
(***************************************************************************)
EXTENDS DependencyWalk, TaskLifecycle_proofs

(***************************************************************************)
(* Dependencies.  A set of tasks that is closed under the edges and holds  *)
(* the child of an edge but not its parent shows that the edge is on no    *)
(* cycle.  The proof turns such sets for the old edges into such sets for  *)
(* the new ones.                                                           *)
(***************************************************************************)
Closed(S, edges) == \A e \in edges : e[1] \in S => e[2] \in S

Separates(S, from, to, edges) ==
    S \in SUBSET Tasks /\ from \in S /\ to \notin S /\ Closed(S, edges)

\* Two tasks are not connected iff a set separates them.
LEMMA PathSeparation ==
    ASSUME NEW from \in Tasks, NEW to \in Tasks
    PROVE  ~PathExists(from, to) <=> \E S \in SUBSET Tasks : Separates(S, from, to, deps)
BY DEF PathExists, Separates, Closed

\* The same for the edges after a step.
LEMMA PathSeparationNext ==
    ASSUME NEW from \in Tasks, NEW to \in Tasks
    PROVE  ~PathExists(from, to)' <=> \E S \in SUBSET Tasks : Separates(S, from, to, deps')
BY DEF PathExists, Separates, Closed

\* Edges only run between rows of the tasks table.
EdgesExist == \A e \in deps : Exists(e[1]) /\ Exists(e[2])

\* A row of the tasks table is never deleted.
LEMMA RowsStay ==
    ASSUME TypeOK, [Next]_vars, NEW u \in Tasks, Exists(u)
    PROVE  Exists(u)'
<1>1. CASE Quiet
  BY <1>1 DEF Quiet, KeepsLease, Exists
<1>2. ASSUME NEW t \in Tasks, Starts(t) PROVE Exists(u)'
  <2>1. task'[t].status = "running" /\ \A v \in Tasks \ {t} : task'[v] = task[v]
    BY <1>2, StartFields DEF StartWrites
  <2> QED
    BY <2>1 DEF Exists
<1>3. ASSUME NEW t \in Tasks, Renews(t) PROVE Exists(u)'
  <2>1. task'[t].status = "running" /\ \A v \in Tasks \ {t} : task'[v] = task[v]
    BY <1>3, RenewFields DEF RenewWrites
  <2> QED
    BY <2>1 DEF Exists
<1>4. ASSUME NEW t \in Tasks, NEW result \in Results, EndsWith(t, result)
      PROVE  Exists(u)'
  BY <1>4 DEF EndsWith, Exists
<1> QED
  BY <1>1, <1>2, <1>3, <1>4, LeaseSteps

(***************************************************************************)
(* The three ways the edges change.                                        *)
(***************************************************************************)
CreatesUnder(t, parents) ==
    /\ ~Exists(t) /\ Exists(t)'
    /\ \A p \in parents : Exists(p)
    /\ deps' = deps \cup (parents \X {t})

AddsEdge(p, c) ==
    /\ Exists(p) /\ Exists(c)
    /\ p # c
    /\ ~PathExists(c, p)
    /\ deps' = deps \cup {<<p, c>>}

LEMMA EdgeSteps ==
    ASSUME TypeOK, [Next]_vars
    PROVE  \/ deps' \subseteq deps
           \/ \E t \in Tasks, parents \in SUBSET Tasks : CreatesUnder(t, parents)
           \/ \E p, c \in Tasks : AddsEdge(p, c)
<1>1. ASSUME NEW t \in Tasks, Describe(t)
      PROVE  \/ deps' = deps
             \/ \E parents \in SUBSET Tasks : CreatesUnder(t, parents)
  <2>1. ASSUME NEW explicit \in Recomputable \cup {NULL}, NEW spec \in BOOLEAN,
               NEW at \in ScheduleArgs, NEW max \in RetryArgs,
               NEW parents \in SUBSET Tasks, NEW readAt \in 0..now,
               CreateTask(t, explicit, spec, at, max, parents, readAt)
        PROVE  CreatesUnder(t, parents)
    <3>1. InitialStatus(explicit, spec, at, readAt) \in Recomputable
      BY InitialRange
    <3>2. task'[t].status = InitialStatus(explicit, spec, at, readAt)
      BY <2>1 DEF CreateTask, NoTask, TypeOK
    <3>3. Exists(t)'
      BY <3>1, <3>2 DEF Exists, Recomputable
    <3> QED
      BY <2>1, <3>3 DEF CreateTask, CreatesUnder
  <2>2. CASE deps' = deps
    BY <2>2
  <2> QED
    BY <1>1, <2>1, <2>2 DEF Describe, UpdateTask, SpecifyTask, PromoteTask
<1>2. ASSUME NEW t \in Tasks, WorkOn(t) PROVE deps' = deps
  BY <1>2 DEF WorkOn, ClaimTask, Heartbeat, ReleaseTask, SubmitReview,
              CompleteRunning, CompleteReviewed, BlockRunning, BlockIdle
<1>3. ASSUME NEW t \in Tasks, Intervene(t) PROVE deps' = deps
  BY <1>3 DEF Intervene, ReclaimTask, ReclaimExpired, UnblockTask, ReopenTask,
              ArchiveRunning, ArchiveIdle
<1>4. ASSUME NEW t \in Tasks, Plan(t) PROVE deps' = deps
  BY <1>4 DEF Plan, MarkPlanNotRequired, CreateStep, RemoveStep, UpdateStep,
              ResolveStep, ReopenStep
<1>5. ASSUME NEW p \in Tasks, NEW c \in Tasks, AddDependency(p, c)
      PROVE  AddsEdge(p, c)
  BY <1>5 DEF AddDependency, InsertDependency, AddsEdge, Live
<1>6. ASSUME NEW p \in Tasks, NEW c \in Tasks, RemoveDependency(p, c)
      PROVE  deps' \subseteq deps
  BY <1>6 DEF RemoveDependency
<1>7. CASE ArchiveBoard \/ Tick \/ UNCHANGED vars
  BY <1>7 DEF ArchiveBoard, Tick, vars
<1> QED
  BY <1>1, <1>2, <1>3, <1>4, <1>5, <1>6, <1>7 DEF Next, Link

GraphInv == TypeOK /\ EdgesExist /\ AcyclicDependencies

LEMMA EdgesExistStep ==
    ASSUME TypeOK, EdgesExist, [Next]_vars
    PROVE  EdgesExist'
<1> SUFFICES ASSUME NEW e \in deps' PROVE Exists(e[1])' /\ Exists(e[2])'
  BY DEF EdgesExist, Exists
<1>1. CASE e \in deps
  <2>1. e[1] \in Tasks /\ e[2] \in Tasks /\ Exists(e[1]) /\ Exists(e[2])
    BY <1>1 DEF TypeOK, EdgesExist
  <2> QED
    BY <2>1, RowsStay
<1>2. ASSUME NEW t \in Tasks, NEW parents \in SUBSET Tasks,
             CreatesUnder(t, parents), e \notin deps
      PROVE  Exists(e[1])' /\ Exists(e[2])'
  <2>1. e[1] \in parents /\ e[2] = t
    BY <1>2 DEF CreatesUnder
  <2>2. Exists(e[1]) /\ Exists(t)' /\ e[1] \in Tasks
    BY <1>2, <2>1 DEF CreatesUnder
  <2> QED
    BY <2>1, <2>2, RowsStay
<1>3. ASSUME NEW p \in Tasks, NEW c \in Tasks, AddsEdge(p, c), e \notin deps
      PROVE  Exists(e[1])' /\ Exists(e[2])'
  <2>1. e = <<p, c>> /\ Exists(p) /\ Exists(c)
    BY <1>3 DEF AddsEdge
  <2> QED
    BY <2>1, RowsStay
<1> QED
  BY <1>1, <1>2, <1>3, EdgeSteps

\* A new task has no children: it can be added to any separating set, and
\* alone it separates itself from its parents.
LEMMA CreateKeepsAcyclic ==
    ASSUME TypeOK, EdgesExist, AcyclicDependencies,
           NEW t \in Tasks, NEW parents \in SUBSET Tasks, CreatesUnder(t, parents),
           NEW e \in deps'
    PROVE  e[1] \in Tasks /\ e[2] \in Tasks /\ ~PathExists(e[2], e[1])'
<1>0. /\ deps' = deps \cup (parents \X {t})
      /\ t \notin parents
      /\ \A d \in deps : d[1] # t /\ d[2] # t /\ d[1] \in Tasks /\ d[2] \in Tasks
  BY DEF CreatesUnder, EdgesExist, TypeOK
<1>1. CASE e \in deps
  <2>1. ~PathExists(e[2], e[1]) /\ e[1] \in Tasks /\ e[2] \in Tasks /\ e[1] # t
    BY <1>0, <1>1 DEF AcyclicDependencies
  <2>2. PICK S \in SUBSET Tasks : Separates(S, e[2], e[1], deps)
    BY <2>1, PathSeparation
  <2>3. Separates(S \cup {t}, e[2], e[1], deps')
    BY <1>0, <2>1, <2>2 DEF Separates, Closed
  <2> QED
    BY <2>1, <2>3, PathSeparationNext DEF Separates
<1>2. CASE e \notin deps
  <2>1. e[1] \in parents /\ e[2] = t
    BY <1>0, <1>2
  <2>2. Separates({t}, e[2], e[1], deps')
    BY <1>0, <2>1 DEF Separates, Closed
  <2> QED
    BY <2>1, <2>2, PathSeparationNext DEF Separates
<1> QED
  BY <1>1, <1>2

\* An edge from p to c is added when some U separates c from p; U decides
\* which set separates an old edge afterwards.
LEMMA AddKeepsAcyclic ==
    ASSUME TypeOK, AcyclicDependencies,
           NEW p \in Tasks, NEW c \in Tasks, AddsEdge(p, c),
           NEW e \in deps'
    PROVE  e[1] \in Tasks /\ e[2] \in Tasks /\ ~PathExists(e[2], e[1])'
<1>0. deps' = deps \cup {<<p, c>>}
  BY DEF AddsEdge
<1>1. PICK U \in SUBSET Tasks : Separates(U, c, p, deps)
  BY PathSeparation DEF AddsEdge
<1>2. CASE e \notin deps
  <2>1. e = <<p, c>>
    BY <1>0, <1>2
  <2>2. Separates(U, c, p, deps')
    BY <1>0, <1>1 DEF Separates, Closed
  <2> QED
    BY <2>1, <2>2, PathSeparationNext
<1>3. CASE e \in deps
  <2>1. ~PathExists(e[2], e[1]) /\ e[1] \in Tasks /\ e[2] \in Tasks
    BY <1>3 DEF AcyclicDependencies, TypeOK
  <2>2. PICK S \in SUBSET Tasks : Separates(S, e[2], e[1], deps)
    BY <2>1, PathSeparation
  <2>3. CASE p \notin S
    <3>1. Separates(S, e[2], e[1], deps')
      BY <1>0, <2>2, <2>3 DEF Separates, Closed
    <3> QED
      BY <2>1, <3>1, PathSeparationNext
  <2>4. CASE p \in S /\ e[1] \notin U
    <3>1. Separates(S \cup U, e[2], e[1], deps')
      BY <1>0, <1>1, <2>2, <2>4 DEF Separates, Closed
    <3> QED
      BY <2>1, <3>1, PathSeparationNext DEF Separates
  <2>5. CASE e[1] \in U
    <3>1. e[2] \in U
      BY <1>1, <1>3, <2>5 DEF Separates, Closed
    <3>2. Separates(S \cap U, e[2], e[1], deps')
      BY <1>0, <1>1, <2>2, <3>1 DEF Separates, Closed
    <3> QED
      BY <2>1, <3>2, PathSeparationNext DEF Separates
  <2> QED
    BY <2>3, <2>4, <2>5
<1> QED
  BY <1>2, <1>3

\* Whatever separates an edge still does when edges are gone.
LEMMA RemoveKeepsAcyclic ==
    ASSUME TypeOK, AcyclicDependencies, deps' \subseteq deps, NEW e \in deps'
    PROVE  e[1] \in Tasks /\ e[2] \in Tasks /\ ~PathExists(e[2], e[1])'
<1>1. ~PathExists(e[2], e[1]) /\ e[1] \in Tasks /\ e[2] \in Tasks
  BY DEF AcyclicDependencies, TypeOK
<1>2. PICK S \in SUBSET Tasks : Separates(S, e[2], e[1], deps)
  BY <1>1, PathSeparation
<1>3. Separates(S, e[2], e[1], deps')
  BY <1>2 DEF Separates, Closed
<1> QED
  BY <1>1, <1>3, PathSeparationNext

\* No task waits for itself, whatever edges and tasks have been added.
THEOREM DependenciesAcyclic == Spec => []AcyclicDependencies
<1>1. Init => GraphInv
  BY InitTypeOK DEF Init, GraphInv, EdgesExist, AcyclicDependencies
<1>2. ASSUME GraphInv, [Next]_vars PROVE GraphInv'
  <2>1. TypeOK /\ EdgesExist /\ AcyclicDependencies
    BY <1>2 DEF GraphInv
  <2>2. ASSUME NEW e \in deps' PROVE ~PathExists(e[2], e[1])'
    BY <1>2, <2>1, <2>2, EdgeSteps, RemoveKeepsAcyclic, CreateKeepsAcyclic,
       AddKeepsAcyclic
  <2>3. AcyclicDependencies'
    BY <2>2 DEF AcyclicDependencies
  <2> QED
    BY <1>2, <2>1, <2>3, NextTypeOK, EdgesExistStep DEF GraphInv
<1>3. GraphInv => AcyclicDependencies
  BY DEF GraphInv
<1> QED
  BY <1>1, <1>2, <1>3, PTL DEF Spec

(***************************************************************************)
(* The walk.  What it has visited can be reached from the child; what it   *)
(* is done with has all its children among the visited, and never the      *)
(* parent.  Once the frontier is empty the visited tasks are therefore a   *)
(* set that separates the child from the parent.                           *)
(***************************************************************************)
WalkRow == [pc: {"walking", "cycle"}, parent: Tasks, child: Tasks,
            frontier: SUBSET Tasks, visited: SUBSET Tasks]

WalkTyped == walk = NoWalk \/ walk \in WalkRow

\* What was checked before the walk is still so.
Checked(p, c) ==
    /\ Live(c) /\ Exists(p) /\ p # c /\ <<p, c>> \notin deps
    /\ task[c].status = "running" => task[p].status \in Satisfied

Explored ==
    /\ walk.child \in walk.visited
    /\ walk.parent \notin walk.visited
    /\ walk.frontier \subseteq walk.visited
    /\ \A u \in walk.visited : PathExists(walk.child, u)
    /\ \A u \in Walked : Children(u) \subseteq walk.visited

WalkInv ==
    /\ WalkTyped
    /\ walk # NoWalk => Checked(walk.parent, walk.child)
    /\ walk.pc = "walking" => Explored
    /\ walk.pc = "cycle" => PathExists(walk.child, walk.parent)

\* A path goes on to the children of its end.
LEMMA PathGoesOn ==
    ASSUME NEW from \in Tasks, NEW u \in Tasks, NEW v \in Children(u), PathExists(from, u)
    PROVE  PathExists(from, v)
<1> SUFFICES ASSUME NEW S \in SUBSET Tasks, from \in S, \A e \in deps : e[1] \in S => e[2] \in S
             PROVE  v \in S
  BY DEF PathExists
<1>1. u \in S /\ <<u, v>> \in deps
  BY DEF PathExists, Children
<1> QED
  BY <1>1

\* As long as nothing but the walk moves, what is known of the graph stays.
LEMMA GraphStays ==
    ASSUME UNCHANGED vars
    PROVE  /\ \A p, c \in Tasks : Checked(p, c) => Checked(p, c)'
           /\ \A u, v : PathExists(u, v) <=> PathExists(u, v)'
           /\ \A u : Children(u)' = Children(u)
BY DEF vars, Checked, Live, Exists, PathExists, Children

LEMMA WalkFields ==
    ASSUME WalkTyped, walk.pc # "idle"
    PROVE  /\ walk \in WalkRow /\ walk # NoWalk
           /\ walk.parent \in Tasks /\ walk.child \in Tasks
           /\ walk.frontier \subseteq Tasks /\ walk.visited \subseteq Tasks
BY DEF WalkTyped, NoWalk, WalkRow

LEMMA BeginWalks ==
    ASSUME TypeOK, NEW p \in Tasks, NEW c \in Tasks, BeginAdd(p, c)
    PROVE  WalkInv'
<1>1. /\ walk' = [pc |-> "walking", parent |-> p, child |-> c,
                  frontier |-> {c}, visited |-> {c}]
      /\ p # c /\ UNCHANGED vars /\ Checked(p, c)
  BY DEF BeginAdd, Checked
<1>2. WalkTyped'
  BY <1>1 DEF WalkTyped, WalkRow
<1>3. PathExists(c, c)
  BY DEF PathExists
<1>4. Explored'
  BY <1>1, <1>3, GraphStays DEF Explored, Walked
<1>5. Checked(p, c)'
  BY <1>1, GraphStays
<1> QED
  BY <1>1, <1>2, <1>4, <1>5 DEF WalkInv

LEMMA VisitWalks ==
    ASSUME WalkInv, NEW u \in Tasks, Visit(u)
    PROVE  WalkInv'
<1>1. /\ walk.pc = "walking" /\ u \in walk.frontier /\ UNCHANGED vars
      /\ walk \in WalkRow /\ walk.parent \in Tasks /\ walk.child \in Tasks
      /\ Explored /\ Checked(walk.parent, walk.child)
  BY WalkFields DEF Visit, WalkInv
<1>2. u \in walk.visited /\ PathExists(walk.child, u) /\ Children(u) \subseteq Tasks
  BY <1>1 DEF Explored, Children
<1>3. Checked(walk.parent, walk.child)'
  <2>1. walk'.parent = walk.parent /\ walk'.child = walk.child
    BY <1>1 DEF Visit, WalkRow
  <2> QED
    BY <1>1, <2>1, GraphStays
<1>4. CASE walk.parent \in Children(u)
  <2>1. walk' = [walk EXCEPT !.pc = "cycle"]
    BY <1>4 DEF Visit
  <2>2. walk' \in WalkRow /\ walk'.pc = "cycle"
        /\ walk'.parent = walk.parent /\ walk'.child = walk.child
    BY <1>1, <2>1 DEF WalkRow
  <2>3. PathExists(walk.child, walk.parent)
    BY <1>1, <1>2, <1>4, PathGoesOn
  <2> QED
    BY <1>1, <1>3, <2>2, <2>3, GraphStays DEF WalkInv, WalkTyped
<1>5. CASE walk.parent \notin Children(u)
  <2>1. walk' = [walk EXCEPT
                   !.frontier = (@ \ {u}) \cup (Children(u) \ walk.visited),
                   !.visited = @ \cup Children(u)]
    BY <1>5 DEF Visit
  <2>2. /\ walk' \in WalkRow /\ walk'.pc = "walking"
        /\ walk'.parent = walk.parent /\ walk'.child = walk.child
        /\ walk'.frontier = (walk.frontier \ {u}) \cup (Children(u) \ walk.visited)
        /\ walk'.visited = walk.visited \cup Children(u)
    BY <1>1, <1>2, <2>1 DEF WalkRow
  <2>3. \A v \in walk'.visited : PathExists(walk.child, v)
    BY <1>1, <1>2, <2>2, PathGoesOn DEF Explored
  <2>4. Walked' = Walked \cup {u}
    BY <1>1, <1>2, <2>2 DEF Walked, Explored
  <2>5. \A v \in Walked' : Children(v) \subseteq walk'.visited
    BY <1>1, <2>2, <2>4 DEF Explored
  <2>6. /\ walk'.child \in walk'.visited
        /\ walk'.parent \notin walk'.visited
        /\ walk'.frontier \subseteq walk'.visited
    BY <1>1, <1>5, <2>2 DEF Explored
  <2>7. Explored'
    <3>1. deps' = deps
      BY <1>1 DEF vars
    <3>2. \A v \in walk'.visited : PathExists(walk.child, v)'
      BY <2>2, <2>3, <3>1 DEF PathExists
    <3>3. \A v \in Walked' : Children(v)' \subseteq walk'.visited
      BY <2>5, <3>1 DEF Children
    <3> QED
      BY <2>6, <3>2, <3>3 DEF Explored
  <2> QED
    BY <1>3, <2>2, <2>7 DEF WalkInv, WalkTyped
<1> QED
  BY <1>4, <1>5

\* When the frontier is empty the visited tasks separate child and parent.
LEMMA EmptyFrontier ==
    ASSUME TypeOK, WalkInv, walk.pc = "walking", walk.frontier = {}
    PROVE  ~PathExists(walk.child, walk.parent)
<1>1. Explored /\ walk.child \in Tasks /\ walk.parent \in Tasks /\ walk.visited \subseteq Tasks
  BY WalkFields DEF WalkInv
<1>2. \A u \in walk.visited : Children(u) \subseteq walk.visited
  BY <1>1 DEF Explored, Walked
<1>3. Closed(walk.visited, deps)
  <2> SUFFICES ASSUME NEW e \in deps, e[1] \in walk.visited PROVE e[2] \in walk.visited
    BY DEF Closed
  <2>1. e = <<e[1], e[2]>> /\ e[2] \in Tasks
    BY DEF TypeOK
  <2>2. e[2] \in Children(e[1])
    BY <2>1 DEF Children
  <2> QED
    BY <1>2, <2>2
<1>4. Separates(walk.visited, walk.child, walk.parent, deps)
  BY <1>1, <1>3 DEF Separates, Explored
<1> QED
  BY <1>1, <1>4, PathSeparation

\* The commit is add_dependency as TaskLifecycle has it; nothing else of the
\* call touches the service.
LEMMA WalkSteps ==
    ASSUME TypeOK, WalkInv, [WNext]_wvars
    PROVE  [Next]_vars
<1>1. ASSUME NEW p \in Tasks, NEW c \in Tasks, BeginAdd(p, c) PROVE UNCHANGED vars
  BY <1>1 DEF BeginAdd
<1>2. ASSUME NEW u \in Tasks, Visit(u) PROVE UNCHANGED vars
  BY <1>2 DEF Visit
<1>3. CASE Commit
  <2>1. /\ walk.pc = "walking" /\ walk.frontier = {}
        /\ InsertDependency(walk.parent, walk.child)
    BY <1>3 DEF Commit
  <2>2. walk.parent \in Tasks /\ walk.child \in Tasks /\ Checked(walk.parent, walk.child)
    BY <2>1, WalkFields DEF WalkInv
  <2>3. AddDependency(walk.parent, walk.child)
    BY <2>1, <2>2, EmptyFrontier DEF AddDependency, Checked
  <2> QED
    BY <2>2, <2>3 DEF Next, Link
<1>4. CASE Rollback \/ UNCHANGED wvars
  BY <1>4 DEF Rollback, wvars
<1>5. CASE Others
  BY <1>5 DEF Others, Next, Link
<1> QED
  BY <1>1, <1>2, <1>3, <1>4, <1>5 DEF WNext

LEMMA NoWalkIsFine == ASSUME walk' = NoWalk PROVE WalkInv'
BY DEF WalkInv, WalkTyped, NoWalk

LEMMA WalkInvStep == TypeOK /\ WalkInv /\ [WNext]_wvars => TypeOK' /\ WalkInv'
<1> SUFFICES ASSUME TypeOK, WalkInv, [WNext]_wvars PROVE TypeOK' /\ WalkInv'
  OBVIOUS
<1>1. TypeOK'
  BY WalkSteps, NextTypeOK
<1>2. CASE Commit \/ Rollback
  BY <1>1, <1>2, NoWalkIsFine DEF Commit, Rollback
<1>3. CASE Others
  BY <1>1, <1>3, NoWalkIsFine DEF Others
<1>4. CASE UNCHANGED wvars
  <2>1. UNCHANGED vars /\ walk' = walk
    BY <1>4 DEF wvars
  <2>2. CASE walk = NoWalk
    BY <1>1, <2>1, <2>2, NoWalkIsFine
  <2>3. CASE walk # NoWalk
    <3>1. walk \in WalkRow /\ walk.parent \in Tasks /\ walk.child \in Tasks
      BY <2>3 DEF WalkInv, WalkTyped, WalkRow
    <3>2. Checked(walk.parent, walk.child)'
      BY <2>1, <2>3, <3>1, GraphStays DEF WalkInv
    <3>3. deps' = deps
      BY <2>1 DEF vars
    <3>4. PathExists(walk.child, walk.parent) => PathExists(walk.child, walk.parent)'
      BY <2>1, <3>3 DEF PathExists
    <3>5. Explored => Explored'
      BY <2>1, <3>3 DEF Explored, Walked, PathExists, Children
    <3> QED
      BY <1>1, <2>1, <3>1, <3>2, <3>4, <3>5 DEF WalkInv, WalkTyped
  <2> QED
    BY <2>2, <2>3
<1> QED
  BY <1>1, <1>2, <1>3, <1>4, BeginWalks, VisitWalks DEF WNext

LEMMA WalkInvAlways == WSpec => [](TypeOK /\ WalkInv)
<1>1. WInit => TypeOK /\ WalkInv
  BY InitTypeOK DEF WInit, WalkInv, WalkTyped, NoWalk
<1> QED
  BY <1>1, WalkInvStep, PTL DEF WSpec

\* support.rs, dependency_path_exists: "yes" only when there is a path, and
\* "no" only when there is none, for any graph and any order of the walk.
THEOREM WalksAreRight == WSpec => []WalkAnswersRight
<1>1. TypeOK /\ WalkInv => WalkAnswersRight
  BY EmptyFrontier DEF WalkInv, WalkAnswersRight
<1> QED
  BY <1>1, WalkInvAlways, PTL

\* No task is taken off the frontier twice, so that the walk is over after one
\* query for each task at most.
THEOREM WalksMoveOn == WSpec => WalkMovesOn
<1> DEFINE MovesOn == walk.pc = "walking" /\ walk'.pc = "walking"
                      => /\ Walked \subseteq Walked' /\ Walked # Walked'
                         /\ walk'.visited \subseteq Tasks
<1>1. ASSUME TypeOK, WalkInv, WalkInv', WNext PROVE MovesOn
  <2> SUFFICES ASSUME walk.pc = "walking", walk'.pc = "walking"
               PROVE  /\ Walked \subseteq Walked' /\ Walked # Walked'
                      /\ walk'.visited \subseteq Tasks
    OBVIOUS
  <2>1. NoWalk.pc # "walking"
    BY DEF NoWalk
  <2>2. PICK u \in Tasks : Visit(u)
    BY <1>1, <2>1 DEF WNext, BeginAdd, Commit, Rollback, Others
  <2>3. walk \in WalkRow /\ Explored
    BY <1>1, WalkFields DEF WalkInv
  <2>4. /\ u \in walk.frontier
        /\ walk' = [walk EXCEPT
                      !.frontier = (@ \ {u}) \cup (Children(u) \ walk.visited),
                      !.visited = @ \cup Children(u)]
    BY <2>2, <2>3 DEF Visit, WalkRow
  <2>5. Walked' = Walked \cup {u} /\ u \notin Walked
    BY <2>3, <2>4 DEF Walked, Explored, WalkRow
  <2>6. walk'.visited \subseteq Tasks
    BY <1>1, <2>1 DEF WalkInv, WalkTyped, WalkRow
  <2> QED
    BY <2>5, <2>6
<1>2. WSpec => [][MovesOn]_wvars
  BY <1>1, WalkInvAlways, PTL DEF WSpec
<1> QED
  BY <1>2 DEF WalkMovesOn

\* add_dependency with its walk, its failures and its rollbacks does what the
\* one step of TaskLifecycle says, so that all that is proved of the service
\* holds with the walk in place of the answer.
THEOREM TheWalkImplementsTheService == WSpec => WalksImplementService
<1>1. WInit => Init
  BY DEF WInit
<1> QED
  BY <1>1, WalkSteps, WalkInvAlways, PTL DEF WSpec, Spec, WalksImplementService

(***************************************************************************)
(* Execution plans.                                                        *)
(***************************************************************************)

\* A step writes the plan of one task at most, and leaves row and steps of
\* that plan in agreement.
LEMMA PlanWrites ==
    ASSUME TypeOK, PlanRowMatchesSteps, [Next]_vars
    PROVE  \/ plan' = plan
           \/ \E t \in Tasks :
                 /\ \A u \in Tasks \ {t} : plan'[u] = plan[u]
                 /\ plan'[t].row = "planned" <=> plan'[t].steps # {}
<1> DEFINE Agrees(t) == /\ \A u \in Tasks \ {t} : plan'[u] = plan[u]
                        /\ plan'[t].row = "planned" <=> plan'[t].steps # {}
<1>1. ASSUME NEW t \in Tasks, Describe(t)
      PROVE  plan' = plan \/ Agrees(t)
  <2>1. ASSUME plan' = [plan EXCEPT ![t] = NoPlan]
        PROVE  Agrees(t)
    BY <2>1 DEF NoPlan, TypeOK
  <2>2. plan' = plan \/ plan' = [plan EXCEPT ![t] = NoPlan]
    BY <1>1 DEF Describe, CreateTask, UpdateTask, SpecifyTask, PromoteTask
  <2> QED
    BY <2>1, <2>2
<1>2. ASSUME NEW t \in Tasks, WorkOn(t) PROVE plan' = plan
  BY <1>2 DEF WorkOn, ClaimTask, Heartbeat, ReleaseTask, SubmitReview,
              CompleteRunning, CompleteReviewed, BlockRunning, BlockIdle
<1>3. ASSUME NEW t \in Tasks, Intervene(t) PROVE plan' = plan
  BY <1>3 DEF Intervene, ReclaimTask, ReclaimExpired, UnblockTask, ReopenTask,
              ArchiveRunning, ArchiveIdle
<1>4. ASSUME NEW t \in Tasks, Plan(t) PROVE Agrees(t)
  <2>0. /\ plan[t].row = "planned" <=> plan[t].steps # {}
        /\ plan[t].row \in PlanStates /\ plan[t].steps \in SUBSET Steps
    BY DEF PlanRowMatchesSteps, TypeOK, PlanType
  <2>1. CASE MarkPlanNotRequired(t)
    BY <2>1 DEF MarkPlanNotRequired, TypeOK, PlanType
  <2>2. ASSUME NEW s \in Steps, NEW required \in BOOLEAN, CreateStep(t, s, required)
        PROVE  Agrees(t)
    BY <2>2 DEF CreateStep, TypeOK, PlanType
  <2>3. ASSUME NEW s \in Steps, NEW required \in BOOLEAN, UpdateStep(t, s, required)
        PROVE  Agrees(t)
    BY <2>0, <2>3 DEF UpdateStep, TypeOK, PlanType
  <2>4. ASSUME NEW s \in Steps, RemoveStep(t, s)
        PROVE  Agrees(t)
    <3>1. /\ s \in plan[t].steps
          /\ \A u \in Tasks \ {t} : plan'[u] = plan[u]
          /\ plan'[t].row = IF plan[t].steps = {s} THEN "unplanned" ELSE plan[t].row
          /\ plan'[t].steps = plan[t].steps \ {s}
      BY <2>4 DEF RemoveStep, TypeOK, PlanType
    <3> QED
      BY <2>0, <3>1
  <2>5. ASSUME NEW s \in Steps, ResolveStep(t, s) \/ ReopenStep(t, s)
        PROVE  Agrees(t)
    BY <2>0, <2>5 DEF ResolveStep, ReopenStep, TypeOK, PlanType
  <2> QED
    BY <1>4, <2>1, <2>2, <2>3, <2>4, <2>5 DEF Plan
<1>5. CASE Link \/ ArchiveBoard \/ Tick \/ UNCHANGED vars
  BY <1>5 DEF Link, AddDependency, InsertDependency, RemoveDependency, ArchiveBoard, Tick, vars
<1> QED
  BY <1>1, <1>2, <1>3, <1>4, <1>5 DEF Next

\* The stored plan state and the step rows never disagree.
THEOREM PlansMatchSteps == Spec => []PlanRowMatchesSteps
<1>1. Init => PlanRowMatchesSteps
  BY DEF Init, PlanRowMatchesSteps, NoPlan
<1>2. ASSUME TypeOK, PlanRowMatchesSteps, [Next]_vars
      PROVE  PlanRowMatchesSteps'
  BY <1>2, PlanWrites DEF PlanRowMatchesSteps
<1> QED
  BY <1>1, <1>2, TypeCorrect, PTL DEF Spec
=============================================================================
