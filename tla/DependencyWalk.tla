--------------------------- MODULE DependencyWalk ---------------------------
(***************************************************************************)
(* How add_dependency looks for a cycle: dependency_path_exists walks the  *)
(* children of the child, one query for each task it meets, until it finds *)
(* the parent or has nowhere left to go.  TaskLifecycle has the call as    *)
(* one step that knows the answer; here the call begins, walks, and then   *)
(* writes or not, and may fail half way.                                   *)
(*                                                                         *)
(* The transaction and the mutation_gate are held from the first read to   *)
(* the last write, and the clock is read once: as in TaskLifecycle the     *)
(* whole call is at the instant of that reading.                           *)
(***************************************************************************)
EXTENDS TaskLifecycle

VARIABLE walk   \* the call of add_dependency that has the gate, if any

wvars == <<vars, walk>>

NoWalk == [pc |-> "idle", parent |-> NULL, child |-> NULL,
           frontier |-> {}, visited |-> {}]

WInit == Init /\ walk = NoWalk

\* The checks of the call and of its transaction that come before the walk.
BeginAdd(p, c) ==
    /\ walk = NoWalk
    /\ Live(c)
    /\ Exists(p)
    /\ p # c
    /\ <<p, c>> \notin deps
    /\ task[c].status = "running" => task[p].status \in Satisfied
    /\ walk' = [pc |-> "walking", parent |-> p, child |-> c,
                frontier |-> {c}, visited |-> {c}]
    /\ UNCHANGED vars

\* One task is taken off the frontier and its children are read.  Which one,
\* and in what order its children come, is left open; the first that is the
\* parent ends the walk.
Visit(u) ==
    /\ walk.pc = "walking" /\ u \in walk.frontier
    /\ IF walk.parent \in Children(u)
       THEN walk' = [walk EXCEPT !.pc = "cycle"]
       ELSE walk' = [walk EXCEPT
                       !.frontier = (@ \ {u}) \cup (Children(u) \ walk.visited),
                       !.visited = @ \cup Children(u)]
    /\ UNCHANGED vars

\* Mutant: the last task of the frontier is not read.
Commit_LastUnread ==
    /\ walk.pc = "walking" /\ Cardinality(walk.frontier) <= 1
    /\ InsertDependency(walk.parent, walk.child)
    /\ walk' = NoWalk

\* Nowhere left to go: the edge is written, and the transaction commits.
Commit ==
    /\ walk.pc = "walking" /\ walk.frontier = {}
    /\ InsertDependency(walk.parent, walk.child)
    /\ walk' = NoWalk

\* The call is refused for the cycle, or a query fails, or the host goes down:
\* the transaction is rolled back.
Rollback ==
    /\ walk.pc # "idle"
    /\ walk' = NoWalk
    /\ UNCHANGED vars

\* Every other operation waits for the gate.
Others ==
    /\ walk = NoWalk
    /\ \/ \E t \in Tasks : Describe(t) \/ WorkOn(t) \/ Intervene(t) \/ Plan(t)
       \/ \E p, c \in Tasks : RemoveDependency(p, c)
       \/ ArchiveBoard
       \/ Tick
    /\ UNCHANGED walk

WNext ==
    \/ \E p, c \in Tasks : BeginAdd(p, c)
    \/ \E u \in Tasks : Visit(u)
    \/ Commit
    \/ Rollback
    \/ Others

WSpec == WInit /\ [][WNext]_wvars

(***************************************************************************)
(* Properties.                                                             *)
(***************************************************************************)

\* The walk gives the right answer, in whatever order it takes the tasks: a
\* call is refused for a cycle only when there is one, and when the frontier
\* is empty no path leads from the child back to the parent.
WalkAnswersRight ==
    /\ walk.pc = "cycle" => PathExists(walk.child, walk.parent)
    /\ walk.pc = "walking" /\ walk.frontier = {} => ~PathExists(walk.child, walk.parent)

\* Every step of the walk is done with one more task for good, so that the
\* call holds the gate for at most one query per task, also where a task can
\* be reached in many ways.
Walked == walk.visited \ walk.frontier

WalkMovesOn ==
    [][walk.pc = "walking" /\ walk'.pc = "walking"
       => /\ Walked \subseteq Walked' /\ Walked # Walked'
          /\ walk'.visited \subseteq Tasks]_wvars

\* Walking first and writing afterwards, with failures in between, adds up to
\* what TaskLifecycle says of add_dependency in one step.
WalksImplementService == Spec
=============================================================================
