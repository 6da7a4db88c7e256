------------------------- MODULE VectorQueue_proofs -------------------------
(***************************************************************************)
(* Theorems about VectorQueue, for every set of hosts, entities and        *)
(* providers and for every bound.                                          *)
(***************************************************************************)
EXTENDS VectorQueue, TLAPS

USE QueueAssumption

(***************************************************************************)
(* Types.                                                                  *)
(***************************************************************************)
HostRow == [pc : Pcs, config : Models \cup {NULL}, job : Jobs \cup {NULL},
            fence : Nat, seen : 0..MaxEdits, budget : Nat,
            todo : SUBSET Entities, any : BOOLEAN, put : SUBSET Entities, op : Operations]

StateRow == [lifecycle : {"bootstrap_required", "degraded", "ready"}, dirty : BOOLEAN]

\* What is in the locals of a host at work.
Locals(h) ==
    /\ host[h].pc \in Working => host[h].job \in Jobs
    /\ host[h].pc \in Ticking => host[h].config \in Models
    /\ host[h].pc = "claim" => host[h].budget > 0
    /\ host[h].put # {} => host[h].any /\ host[h].pc \in {"enqueue", "mark"}

Typed == TypeOK /\ \A h \in Hosts : Locals(h)

LEMMA TypeParts ==
    ASSUME Typed
    PROVE  /\ content \in [Entities -> 0..MaxEdits]
           /\ job \in [Jobs -> JobRow]
           /\ state \in [Projections -> StateRow]
           /\ model \in Models \cup {NULL}
           /\ vector \in [Entities -> [Models -> 0..MaxEdits]]
           /\ host \in [Hosts -> HostRow]
           /\ calls \in 0..MaxCalls
           /\ faults \in 0..MaxFaults
           /\ owed \subseteq Entities
           /\ crossed \subseteq Entities
           /\ \A h \in Hosts : Locals(h)
BY DEF Typed, TypeOK, HostRow, StateRow

LEMMA Typing ==
    ASSUME content' \in [Entities -> 0..MaxEdits],
           job' \in [Jobs -> JobRow],
           state' \in [Projections -> StateRow],
           model' \in Models \cup {NULL},
           vector' \in [Entities -> [Models -> 0..MaxEdits]],
           host' \in [Hosts -> HostRow],
           calls' \in 0..MaxCalls,
           faults' \in 0..MaxFaults,
           owed' \subseteq Entities,
           crossed' \subseteq Entities,
           \A h \in Hosts : Locals(h)'
    PROVE  Typed'
BY DEF Typed, TypeOK, HostRow, StateRow

LEMMA IdleRow == Idle \in HostRow /\ Off \in HostRow
<1>1. Idle \in HostRow
  BY DEF Idle, HostRow, Pcs, Ticking, Working, Operations
<1>2. "off" \in Pcs
  BY DEF Pcs
<1> QED
  BY <1>1, <1>2 DEF Off, HostRow

LEMMA IdleFields ==
    /\ Idle.pc = "idle" /\ Idle.put = {} /\ Idle.any = FALSE
    /\ Off.pc = "off" /\ Off.put = {}
BY DEF Idle, Off

LEMMA Marks ==
    /\ Degraded \in [Projections -> StateRow]
    /\ \A row \in StateRow : Stale(row) \in StateRow
BY DEF Degraded, Stale, StateRow, Projections

LEMMA JobRows ==
    /\ NoJob \in JobRow
    /\ \A row \in JobRow : Claimed(row) \in JobRow /\ Swept(row) \in JobRow
    /\ \A row \in JobRow, op \in Operations : Enqueued(row, op) \in JobRow
<1>1. NoJob \in JobRow
  BY DEF NoJob, JobRow
<1>2. ASSUME NEW row \in JobRow PROVE Claimed(row) \in JobRow
  BY DEF JobRow, Claimed
<1>3. ASSUME NEW row \in JobRow PROVE Swept(row) \in JobRow
  BY DEF JobRow, Swept
<1>4. ASSUME NEW row \in JobRow, NEW op \in Operations PROVE Enqueued(row, op) \in JobRow
  <2>1. CASE op = "rebuild" \/ row.status = "none"
    BY <2>1 DEF JobRow, Enqueued
  <2>2. CASE ~(op = "rebuild" \/ row.status = "none")
    <3> DEFINE new == IF row.status = "done" THEN "pending" ELSE row.status
    <3>1. new \in {"none", "pending", "running", "done", "failed"}
      BY DEF JobRow
    <3>2. Enqueued(row, op) = [row EXCEPT !.status = new, !.due = "now"]
      BY <2>2 DEF Enqueued
    <3> QED
      BY <3>1, <3>2 DEF JobRow
  <2> QED
    BY <2>1, <2>2
<1> QED
  BY <1>1, <1>2, <1>3, <1>4

LEMMA QueueInitTyped == Init => Typed
<1> SUFFICES ASSUME Init PROVE Typed
  OBVIOUS
<1>1. host \in [Hosts -> HostRow] /\ \A h \in Hosts : Locals(h)
  BY IdleRow DEF Init, Idle, Locals, Working, Ticking
<1>2. job \in [Jobs -> JobRow]
  BY JobRows DEF Init
<1>3. state \in [Projections -> StateRow]
  BY DEF Init, StateRow, Projections
<1>4. vector \in [Entities -> [Models -> 0..MaxEdits]] /\ content \in [Entities -> 0..MaxEdits]
  BY DEF Init
<1> QED
  BY <1>1, <1>2, <1>3, <1>4 DEF Init, Typed, TypeOK, HostRow, StateRow

\* Only h's row changes.
LEMMA HostMoves ==
    ASSUME host \in [Hosts -> HostRow], \A g \in Hosts : Locals(g),
           NEW h \in Hosts, NEW row \in HostRow, host' = [host EXCEPT ![h] = row],
           row.pc \in Working => row.job \in Jobs,
           row.pc \in Ticking => row.config \in Models,
           row.pc = "claim" => row.budget > 0,
           row.put # {} => row.any /\ row.pc \in {"enqueue", "mark"}
    PROVE  host' \in [Hosts -> HostRow] /\ \A g \in Hosts : Locals(g)'
<1>1. host' \in [Hosts -> HostRow]
  OBVIOUS
<1>2. host'[h] = row /\ \A g \in Hosts \ {h} : host'[g] = host[g]
  OBVIOUS
<1> QED
  BY <1>1, <1>2 DEF Locals

\* Onward leads to the next job or to the end of the tick.
LEMMA OnwardMoves ==
    ASSUME host \in [Hosts -> HostRow], \A g \in Hosts : Locals(g),
           NEW h \in Hosts, host[h].pc \in Ticking, Onward(h)
    PROVE  host' \in [Hosts -> HostRow] /\ \A g \in Hosts : Locals(g)'
<1> DEFINE row == [Idle EXCEPT !.config = host[h].config, !.budget = host[h].budget,
                               !.pc = IF host[h].budget > 0 THEN "claim" ELSE "publish"]
<1>1. host[h] \in HostRow /\ host[h].config \in Models
  BY DEF Locals
<1>2. /\ row.pc \in {"claim", "publish"}
      /\ row.pc = "claim" => host[h].budget > 0
      /\ row.config = host[h].config /\ row.budget = host[h].budget /\ row.put = {}
  BY DEF Idle
<1>3. row \in HostRow
  BY <1>1, IdleRow DEF HostRow, Pcs, Ticking
<1>4. host' = [host EXCEPT ![h] = row]
  BY DEF Onward
<1> HIDE DEF row
<1> QED
  BY <1>1, <1>2, <1>3, <1>4, HostMoves DEF Working, HostRow

\* Another step of the tick, or of the enqueue loop, for a host that keeps its
\* other locals.
LEMMA PcMoves ==
    ASSUME host \in [Hosts -> HostRow], \A g \in Hosts : Locals(g),
           NEW h \in Hosts, NEW pc \in Ticking \ {"claim"},
           host' = [host EXCEPT ![h].pc = pc],
           host[h].pc \in Ticking, pc \in Working => host[h].pc \in Working
    PROVE  host' \in [Hosts -> HostRow] /\ \A g \in Hosts : Locals(g)'
<1> DEFINE row == [host[h] EXCEPT !.pc = pc]
<1>1. host[h] \in HostRow /\ Locals(h)
  OBVIOUS
<1>2. pc \in Pcs
  BY DEF Pcs
<1>3. /\ row \in HostRow /\ row.pc = pc /\ row.job = host[h].job
      /\ row.config = host[h].config /\ row.put = host[h].put
  BY <1>1, <1>2 DEF HostRow
<1>4. host' = [host EXCEPT ![h] = row]
  OBVIOUS
<1>5. row.put = {}
  BY <1>1, <1>3 DEF Locals, Ticking, Working
<1> HIDE DEF row
<1>6. /\ row.pc \in Working => row.job \in Jobs
      /\ row.pc \in Ticking => row.config \in Models
      /\ row.pc # "claim"
  BY <1>1, <1>3 DEF Locals
<1> QED
  BY <1>3, <1>4, <1>5, <1>6, HostMoves

\* A host that becomes idle or is cut off has no locals left.
LEMMA HostRests ==
    ASSUME host \in [Hosts -> HostRow], \A g \in Hosts : Locals(g),
           NEW h \in Hosts, NEW row \in {Idle, Off}, host' = [host EXCEPT ![h] = row]
    PROVE  host' \in [Hosts -> HostRow] /\ \A g \in Hosts : Locals(g)'
<1>1. row \in HostRow /\ row.pc \in {"idle", "off"} /\ row.put = {}
  BY IdleRow, IdleFields
<1> QED
  BY <1>1, HostMoves DEF Working, Ticking

LEMMA FaultTyped ==
    ASSUME faults \in 0..MaxFaults, Fault
    PROVE  faults' \in 0..MaxFaults
BY DEF Fault

\* Canonical writes, calls and configuration.
LEMMA WritesTyped ==
    ASSUME Typed, NEW h \in Hosts,
           \/ \E e \in Entities : Edit(h, e)
           \/ \E op \in Operations : Enqueue(h, op)
           \/ EnqueueOne(h) \/ MarkEnqueued(h)
           \/ \E m \in Models : Configure(h, m)
    PROVE  Typed'
<1>0. /\ content \in [Entities -> 0..MaxEdits]
      /\ job \in [Jobs -> JobRow]
      /\ state \in [Projections -> StateRow]
      /\ model \in Models \cup {NULL}
      /\ vector \in [Entities -> [Models -> 0..MaxEdits]]
      /\ host \in [Hosts -> HostRow]
      /\ calls \in 0..MaxCalls
      /\ faults \in 0..MaxFaults
      /\ owed \subseteq Entities
      /\ crossed \subseteq Entities
      /\ \A g \in Hosts : Locals(g)
  BY TypeParts
<1> USE <1>0
<1>1. ASSUME NEW e \in Entities, Edit(h, e) PROVE Typed'
  <2>1. content' \in [Entities -> 0..MaxEdits]
    BY <1>1 DEF Edit
  <2>2. <<e, "upsert">> \in Jobs /\ "upsert" \in Operations
    BY DEF Jobs, Operations
  <2>3. job' \in [Jobs -> JobRow]
    BY <1>1, <2>2, JobRows DEF Edit
  <2>4. state' \in [Projections -> StateRow]
    BY <1>1, Marks DEF Edit
  <2>5. owed' \subseteq Entities /\ crossed' \subseteq Entities
    BY <1>1 DEF Edit, Owe
  <2>6. UNCHANGED <<model, vector, host, calls, faults>>
    BY <1>1, Zenon DEF Edit
  <2>7. \A g \in Hosts : Locals(g)'
    BY <2>6 DEF Locals
  <2> QED
    BY <2>1, <2>3, <2>4, <2>5, <2>6, <2>7, Typing
<1>2. ASSUME NEW op \in Operations, Enqueue(h, op) PROVE Typed'
  <2> DEFINE row == [Idle EXCEPT !.pc = "enqueue", !.op = op,
                                 !.todo = {e \in Entities : content[e] > 0}]
  <2>1. row \in HostRow
    BY IdleRow DEF HostRow, Pcs
  <2>2. row.pc = "enqueue" /\ row.put = {}
    BY DEF Idle
  <2>3. host' = [host EXCEPT ![h] = row]
    BY <1>2 DEF Enqueue
  <2> HIDE DEF row
  <2>4. host' \in [Hosts -> HostRow] /\ \A g \in Hosts : Locals(g)'
    BY <2>1, <2>2, <2>3, HostMoves DEF Working, Ticking
  <2>5. /\ calls < MaxCalls /\ calls' = calls + 1
        /\ UNCHANGED <<content, job, state, model, vector, faults, owed, crossed>>
    BY <1>2, Zenon DEF Enqueue
  <2> QED
    BY <2>4, <2>5, Typing
<1>3. ASSUME EnqueueOne(h) PROVE Typed'
  <2>1. host[h] \in HostRow /\ Locals(h) /\ host[h].pc = "enqueue"
    BY <1>3 DEF EnqueueOne
  <2>2. ASSUME NEW e \in host[h].todo,
               job' = [job EXCEPT ![<<e, host[h].op>>] = Enqueued(@, host[h].op)],
               host' = [host EXCEPT ![h].todo = @ \ {e}, ![h].any = TRUE, ![h].put = @ \cup {e}]
        PROVE  job' \in [Jobs -> JobRow] /\ host' \in [Hosts -> HostRow]
               /\ \A g \in Hosts : Locals(g)'
    <3>1. e \in Entities /\ <<e, host[h].op>> \in Jobs /\ host[h].op \in Operations
      BY <2>1 DEF HostRow, Jobs
    <3>2. job' \in [Jobs -> JobRow]
      BY <2>2, <3>1, JobRows
    <3> DEFINE row == [host[h] EXCEPT !.todo = @ \ {e}, !.any = TRUE, !.put = @ \cup {e}]
    <3>3. row \in HostRow /\ row.pc = "enqueue" /\ row.any
      BY <2>1, <3>1 DEF HostRow
    <3>4. host' = [host EXCEPT ![h] = row]
      BY <2>2
    <3> HIDE DEF row
    <3> QED
      BY <3>2, <3>3, <3>4, HostMoves DEF Working, Ticking
  <2>3. ASSUME host' = [host EXCEPT ![h].pc = "mark"]
        PROVE  host' \in [Hosts -> HostRow] /\ \A g \in Hosts : Locals(g)'
    <3> DEFINE row == [host[h] EXCEPT !.pc = "mark"]
    <3>1. /\ row \in HostRow /\ row.pc = "mark" /\ row.any = host[h].any
          /\ row.put = host[h].put
      BY <2>1 DEF HostRow, Pcs
    <3>2. host' = [host EXCEPT ![h] = row]
      BY <2>3
    <3> HIDE DEF row
    <3> QED
      BY <2>1, <3>1, <3>2, HostMoves DEF Working, Ticking, Locals
  <2>4. job' \in [Jobs -> JobRow] /\ host' \in [Hosts -> HostRow] /\ \A g \in Hosts : Locals(g)'
    BY <1>3, <2>2, <2>3 DEF EnqueueOne
  <2>5. crossed' = crossed \/ \E e \in host[h].todo : crossed' = crossed \cup {e}
    BY <1>3, Zenon DEF EnqueueOne
  <2>6. crossed' \subseteq Entities
    BY <2>1, <2>5 DEF HostRow
  <2>7. UNCHANGED <<content, state, model, vector, calls, faults, owed>>
    BY <1>3, Zenon DEF EnqueueOne
  <2> QED
    BY <2>4, <2>6, <2>7, Typing
<1>4. ASSUME MarkEnqueued(h) PROVE Typed'
  <2>1. host' \in [Hosts -> HostRow] /\ \A g \in Hosts : Locals(g)'
    BY <1>4, HostRests DEF MarkEnqueued
  <2>2. state' \in [Projections -> StateRow]
    BY <1>4, Marks DEF MarkEnqueued
  <2>3. owed' \subseteq Entities
    BY <1>4 DEF MarkEnqueued, HostRow
  <2>4. UNCHANGED <<content, job, model, vector, calls, faults, crossed>>
    BY <1>4, Zenon DEF MarkEnqueued
  <2> QED
    BY <2>1, <2>2, <2>3, <2>4, Typing
<1>5. ASSUME NEW m \in Models, Configure(h, m) PROVE Typed'
  <2>1. \A row \in HostRow : [row EXCEPT !.put = {}] \in HostRow
    BY DEF HostRow
  <2>2. /\ host' = [g \in Hosts |-> [host[g] EXCEPT !.put = {}]]
        /\ model' = m /\ state' = Degraded /\ owed' = {} /\ calls < MaxCalls /\ calls' = calls + 1
        /\ UNCHANGED <<content, job, vector, faults, crossed>>
    BY <1>5, Zenon DEF Configure
  <2>3. host' \in [Hosts -> HostRow]
    BY <2>1, <2>2
  <2>4. ASSUME NEW g \in Hosts PROVE Locals(g)'
    <3>1. /\ host'[g].pc = host[g].pc /\ host'[g].job = host[g].job
          /\ host'[g].config = host[g].config /\ host'[g].budget = host[g].budget
          /\ host'[g].put = {}
      BY <2>2 DEF HostRow
    <3> QED
      BY <3>1 DEF Locals
  <2> QED
    BY <2>2, <2>3, <2>4, Marks, Typing
<1> QED
  BY <1>1, <1>2, <1>3, <1>4, <1>5

\* The steps of a tick.
LEMMA TickTyped ==
    ASSUME Typed, NEW h \in Hosts,
           \/ StartTick(h) \/ Claim(h) \/ ReadFact(h) \/ Embed(h) \/ Store(h)
           \/ Complete(h) \/ Fail(h) \/ Degrade(h) \/ Publish(h)
    PROVE  Typed'
<1>0. /\ content \in [Entities -> 0..MaxEdits]
      /\ job \in [Jobs -> JobRow]
      /\ state \in [Projections -> StateRow]
      /\ model \in Models \cup {NULL}
      /\ vector \in [Entities -> [Models -> 0..MaxEdits]]
      /\ host \in [Hosts -> HostRow]
      /\ calls \in 0..MaxCalls
      /\ faults \in 0..MaxFaults
      /\ owed \subseteq Entities
      /\ crossed \subseteq Entities
      /\ \A g \in Hosts : Locals(g)
  BY TypeParts
<1> USE <1>0
<1>h. host[h] \in HostRow /\ Locals(h)
  OBVIOUS
<1>t. (Working \cup {"degrade", "publish"}) \subseteq Ticking \ {"claim"}
  BY DEF Working, Ticking
<1>1. ASSUME StartTick(h) PROVE Typed'
  <2> DEFINE row == [Idle EXCEPT !.pc = "claim", !.config = model, !.budget = TickJobs]
  <2>1. /\ model # NULL /\ host' = [host EXCEPT ![h] = row]
        /\ UNCHANGED <<content, job, state, model, vector, calls, faults, owed, crossed>>
    BY <1>1, Zenon DEF StartTick
  <2>2. row \in HostRow
    BY IdleRow DEF HostRow, Pcs, Ticking
  <2>3. row.pc = "claim" /\ row.config = model /\ row.budget = TickJobs /\ row.put = {}
    BY DEF Idle
  <2> HIDE DEF row
  <2>4. /\ row.pc \notin Working /\ row.config \in Models /\ row.budget > 0
    BY <2>1, <2>3 DEF Working
  <2>5. host' \in [Hosts -> HostRow] /\ \A g \in Hosts : Locals(g)'
    BY <2>1, <2>2, <2>3, <2>4, HostMoves
  <2> QED
    BY <2>1, <2>5, Typing
<1>2. ASSUME Claim(h) PROVE Typed'
  <2>1. /\ host[h].pc = "claim" /\ (state' = Degraded \/ state' = state)
        /\ UNCHANGED <<content, model, vector, calls, faults, owed, crossed>>
    BY <1>2, Zenon DEF Claim
  <2>2. state' \in [Projections -> StateRow]
    BY <2>1, Marks
  <2>3. ASSUME NEW j \in Jobs,
               job' = [i \in Jobs |-> IF i = j THEN Claimed(job[i]) ELSE Swept(job[i])],
               host' = [host EXCEPT ![h].pc = "read", ![h].job = j,
                                    ![h].fence = job'[j].fence, ![h].budget = @ - 1]
        PROVE  Typed'
    <3>1. job' \in [Jobs -> JobRow]
      BY <2>3, JobRows
    <3>2. job'[j].fence \in Nat
      BY <3>1 DEF JobRow
    <3> DEFINE row == [host[h] EXCEPT !.pc = "read", !.job = j,
                                      !.fence = job'[j].fence, !.budget = @ - 1]
    <3>3. host[h].budget \in Nat /\ host[h].budget > 0 /\ host[h].put = {}
          /\ host[h].config \in Models
      BY <1>h, <2>1 DEF Locals, HostRow, Ticking
    <3>4. row \in HostRow
      <4>1. "read" \in Pcs /\ host[h].budget - 1 \in Nat
        BY <3>3 DEF Pcs, Ticking, Working
      <4>2. \A n \in Nat, f \in Nat :
                [host[h] EXCEPT !.pc = "read", !.job = j, !.fence = f, !.budget = n] \in HostRow
        BY <1>h, <4>1 DEF HostRow
      <4> QED
        BY <3>2, <4>1, <4>2
    <3>5. row.pc = "read" /\ row.job = j /\ row.config = host[h].config /\ row.put = {}
      BY <1>h, <3>3 DEF HostRow
    <3>6. host' = [host EXCEPT ![h] = row]
      BY <2>3
    <3> HIDE DEF row
    <3>7. host' \in [Hosts -> HostRow] /\ \A g \in Hosts : Locals(g)'
      BY <3>3, <3>4, <3>5, <3>6, HostMoves
    <3> QED
      BY <2>1, <2>2, <3>1, <3>7, Typing
  <2>4. ASSUME job' = [i \in Jobs |-> Swept(job[i])],
               host' = [host EXCEPT ![h].pc = "publish"]
        PROVE  Typed'
    <3>1. job' \in [Jobs -> JobRow]
      BY <2>4, JobRows
    <3>2. "publish" \in Ticking \ {"claim"} /\ "publish" \notin Working
          /\ host[h].pc \in Ticking
      BY <2>1 DEF Ticking, Working
    <3>3. host' \in [Hosts -> HostRow] /\ \A g \in Hosts : Locals(g)'
      BY <2>4, <3>2, PcMoves
    <3> QED
      BY <2>1, <2>2, <3>1, <3>3, Typing
  <2> QED
    BY <1>2, <2>3, <2>4, Zenon DEF Claim
<1>3. ASSUME ReadFact(h) PROVE Typed'
  <2>1. /\ host[h].pc = "read"
        /\ UNCHANGED <<content, job, state, model, vector, calls, owed, crossed>>
        /\ faults' \in 0..MaxFaults
    BY <1>3 DEF ReadFact, Fault
  <2>2. host[h].pc \in Working /\ host[h].job \in Jobs /\ host[h].put = {}
    BY <1>h, <2>1 DEF Working, Locals
  <2>3. content[host[h].job[1]] \in 0..MaxEdits
    BY <2>2 DEF Jobs
  <2>4. ASSUME NEW pc \in {"complete", "embed"},
               host' = [host EXCEPT ![h].seen = content[host[h].job[1]], ![h].pc = pc]
        PROVE  host' \in [Hosts -> HostRow] /\ \A g \in Hosts : Locals(g)'
    <3> DEFINE row == [host[h] EXCEPT !.seen = content[host[h].job[1]], !.pc = pc]
    <3>1. row \in HostRow /\ row.pc = pc
      BY <1>h, <2>3 DEF HostRow, Pcs, Ticking, Working
    <3>2. row.job = host[h].job /\ row.config = host[h].config /\ row.put = {}
      BY <1>h, <2>2 DEF HostRow
    <3>3. host' = [host EXCEPT ![h] = row]
      BY <2>4
    <3>4. host[h].config \in Models
      BY <1>h, <1>t, <2>2 DEF Locals
    <3> HIDE DEF row
    <3> QED
      BY <2>2, <3>1, <3>2, <3>3, <3>4, HostMoves
  <2>5. ASSUME host' = [host EXCEPT ![h].pc = "fatal"]
        PROVE  host' \in [Hosts -> HostRow] /\ \A g \in Hosts : Locals(g)'
    BY <1>t, <2>2, <2>5, PcMoves DEF Working
  <2>6. host' \in [Hosts -> HostRow] /\ \A g \in Hosts : Locals(g)'
    BY <1>3, <2>4, <2>5, Zenon DEF ReadFact
  <2> QED
    BY <2>1, <2>6, Typing
<1>4. ASSUME Embed(h) PROVE Typed'
  <2>1. /\ host[h].pc = "embed"
        /\ UNCHANGED <<content, job, state, model, vector, calls, owed, crossed>>
        /\ faults' \in 0..MaxFaults
        /\ \E pc \in {"store", "retry", "fatal"} : host' = [host EXCEPT ![h].pc = pc]
    BY <1>4 DEF Embed, Fault
  <2>2. host' \in [Hosts -> HostRow] /\ \A g \in Hosts : Locals(g)'
    BY <1>t, <2>1, PcMoves DEF Working
  <2> QED
    BY <2>1, <2>2, Typing
<1>5. ASSUME Store(h) PROVE Typed'
  <2>1. /\ host[h].pc = "store"
        /\ UNCHANGED <<content, job, state, model, calls, owed, crossed>>
        /\ faults' \in 0..MaxFaults
        /\ \E pc \in {"complete", "fatal"} : host' = [host EXCEPT ![h].pc = pc]
    BY <1>5 DEF Store, Fault
  <2>2. host' \in [Hosts -> HostRow] /\ \A g \in Hosts : Locals(g)'
    BY <1>t, <2>1, PcMoves DEF Working
  <2>3. \/ vector' = vector
        \/ vector' = [vector EXCEPT ![host[h].job[1]][host[h].config] = host[h].seen]
    BY <1>5, Zenon DEF Store
  <2>4. host[h].seen \in 0..MaxEdits
    BY <1>h DEF HostRow
  <2>5. vector' \in [Entities -> [Models -> 0..MaxEdits]]
    BY <2>3, <2>4
  <2> QED
    BY <2>1, <2>2, <2>5, Typing
<1>6. ASSUME Complete(h) PROVE Typed'
  <2>1. /\ host[h].pc = "complete" /\ Onward(h)
        /\ UNCHANGED <<content, state, model, vector, calls, faults, owed, crossed>>
        /\ \/ job' = job
           \/ job' = [job EXCEPT ![host[h].job] = [@ EXCEPT !.status = "done", !.due = "now",
                                                          !.expired = FALSE]]
    BY <1>6, Zenon DEF Complete
  <2>2. job' \in [Jobs -> JobRow]
    <3>1. host[h].job \in Jobs /\ job[host[h].job] \in JobRow
      BY <1>h, <2>1 DEF Locals, Working
    <3>2. [job[host[h].job] EXCEPT !.status = "done", !.due = "now", !.expired = FALSE] \in JobRow
      BY <3>1 DEF JobRow
    <3> QED
      BY <2>1, <3>1, <3>2
  <2>3. host' \in [Hosts -> HostRow] /\ \A g \in Hosts : Locals(g)'
    BY <2>1, OnwardMoves DEF Ticking, Working
  <2> QED
    BY <2>1, <2>2, <2>3, Typing
<1>7. ASSUME Fail(h) PROVE Typed'
  <2>1. /\ host[h].pc \in {"retry", "fatal"}
        /\ UNCHANGED <<content, state, model, vector, calls, faults, owed, crossed>>
        /\ Onward(h) \/ host' = [host EXCEPT ![h].pc = "degrade"]
        /\ \/ job' = job
           \/ \E due \in {"later", "never"} :
                job' = [job EXCEPT ![host[h].job] = [@ EXCEPT !.status = "failed",
                                                            !.expired = FALSE, !.due = due]]
    BY <1>7 DEF Fail
  <2>2. job' \in [Jobs -> JobRow]
    <3>1. host[h].job \in Jobs /\ job[host[h].job] \in JobRow
      BY <1>h, <2>1 DEF Locals, Working
    <3>2. \A due \in {"later", "never"} :
             [job[host[h].job] EXCEPT !.status = "failed", !.expired = FALSE, !.due = due]
                 \in JobRow
      BY <3>1 DEF JobRow
    <3> QED
      BY <2>1, <3>1, <3>2
  <2>3. CASE Onward(h)
    BY <2>1, <2>2, <2>3, OnwardMoves, Typing DEF Ticking, Working
  <2>4. CASE host' = [host EXCEPT ![h].pc = "degrade"]
    <3>1. host' \in [Hosts -> HostRow] /\ \A g \in Hosts : Locals(g)'
      BY <1>t, <2>1, <2>4, PcMoves DEF Working
    <3> QED
      BY <2>1, <2>2, <3>1, Typing
  <2> QED
    BY <2>1, <2>3, <2>4
<1>8. ASSUME Degrade(h) PROVE Typed'
  <2>1. /\ host[h].pc = "degrade" /\ Onward(h) /\ state' = Degraded
        /\ UNCHANGED <<content, job, model, vector, calls, faults, owed, crossed>>
    BY <1>8, Zenon DEF Degrade
  <2>2. host' \in [Hosts -> HostRow] /\ \A g \in Hosts : Locals(g)'
    BY <2>1, OnwardMoves DEF Ticking
  <2> QED
    BY <2>1, <2>2, Marks, Typing
<1>9. ASSUME Publish(h) PROVE Typed'
  <2>1. /\ host' = [host EXCEPT ![h] = Idle]
        /\ UNCHANGED <<content, job, model, vector, calls, faults, owed, crossed>>
        /\ \/ state' = state
           \/ state' = [p \in Projections |-> [lifecycle |-> "ready", dirty |-> FALSE]]
    BY <1>9, Zenon DEF Publish
  <2>2. host' \in [Hosts -> HostRow] /\ \A g \in Hosts : Locals(g)'
    BY <2>1, HostRests
  <2>3. [lifecycle |-> "ready", dirty |-> FALSE] \in StateRow
    BY DEF StateRow
  <2>4. state' \in [Projections -> StateRow]
    BY <2>1, <2>3
  <2> QED
    BY <2>1, <2>2, <2>4, Typing
<1> QED
  BY <1>1, <1>2, <1>3, <1>4, <1>5, <1>6, <1>7, <1>8, <1>9

\* What happens to hosts and jobs.
LEMMA WorldTyped ==
    ASSUME Typed,
           \/ \E h \in Hosts : \/ StatementFails(h) \/ Crash(h) \/ Restart(h)
                               \/ \E j \in Jobs : Cleanup(h, j)
           \/ \E j \in Jobs : ExpireLease(j) \/ EndPause(j)
    PROVE  Typed'
<1>0. /\ content \in [Entities -> 0..MaxEdits]
      /\ job \in [Jobs -> JobRow]
      /\ state \in [Projections -> StateRow]
      /\ model \in Models \cup {NULL}
      /\ vector \in [Entities -> [Models -> 0..MaxEdits]]
      /\ host \in [Hosts -> HostRow]
      /\ calls \in 0..MaxCalls
      /\ faults \in 0..MaxFaults
      /\ owed \subseteq Entities
      /\ crossed \subseteq Entities
      /\ \A g \in Hosts : Locals(g)
  BY TypeParts
<1> USE <1>0
<1>1. ASSUME NEW h \in Hosts, StatementFails(h) \/ Crash(h) \/ Restart(h)
      PROVE  Typed'
  <2>1. /\ UNCHANGED <<content, job, state, model, vector, calls, owed, crossed>>
        /\ faults' \in 0..MaxFaults
        /\ \E row \in {Idle, Off} : host' = [host EXCEPT ![h] = row]
    BY <1>1 DEF StatementFails, Crash, Restart, Fault
  <2>2. host' \in [Hosts -> HostRow] /\ \A g \in Hosts : Locals(g)'
    BY <2>1, HostRests
  <2> QED
    BY <2>1, <2>2, Typing
<1>2. ASSUME NEW row \in JobRow, NEW j \in Jobs, job' = [job EXCEPT ![j] = row],
             UNCHANGED <<content, state, model, vector, host, calls, faults, owed, crossed>>
      PROVE  Typed'
  <2>1. job' \in [Jobs -> JobRow] /\ \A g \in Hosts : Locals(g)'
    BY <1>2 DEF Locals
  <2> QED
    BY <1>2, <2>1, Typing
<1>3. ASSUME NEW j \in Jobs
      PROVE  /\ [job[j] EXCEPT !.expired = TRUE] \in JobRow
             /\ [job[j] EXCEPT !.due = "now"] \in JobRow
             /\ [NoJob EXCEPT !.fence = job[j].fence] \in JobRow
  BY JobRows DEF JobRow
<1> QED
  BY <1>1, <1>2, <1>3 DEF Cleanup, ExpireLease, EndPause

LEMMA QueueNextTyped == Typed /\ [Next]_vars => Typed'
<1> SUFFICES ASSUME Typed, [Next]_vars PROVE Typed'
  OBVIOUS
<1>1. CASE UNCHANGED vars
  BY <1>1 DEF vars, Typed, TypeOK, Locals
<1>2. CASE Next
  BY <1>2, WritesTyped, TickTyped, WorldTyped DEF Next, HostStep
<1> QED
  BY <1>1, <1>2

\* Every variable of facts, queue, projections and hosts keeps its type.
THEOREM QueueIsTyped == Spec => []TypeOK
<1>1. Typed => TypeOK
  BY DEF Typed
<1> QED
  BY <1>1, QueueInitTyped, QueueNextTyped, PTL DEF Spec

(***************************************************************************)
(* Claims.                                                                 *)
(***************************************************************************)

\* Whoever is at work after the step was at work on the same claim before.
KeepsWork ==
    \A g \in Hosts : host'[g].pc \in Working =>
        /\ host[g].pc \in Working
        /\ host'[g].job = host[g].job /\ host'[g].fence = host[g].fence
        /\ host'[g].config = host[g].config

LEMMA RowKeepsWork ==
    ASSUME host \in [Hosts -> HostRow], NEW h \in Hosts, NEW row,
           host' = [host EXCEPT ![h] = row],
           row.pc \in Working => /\ host[h].pc \in Working /\ row.job = host[h].job
                                 /\ row.fence = host[h].fence /\ row.config = host[h].config
    PROVE  KeepsWork
BY DEF KeepsWork

LEMMA OnlyClaimsStartWork ==
    ASSUME Typed, Next, \A h \in Hosts : ~Claim(h)
    PROVE  KeepsWork
<1>0. host \in [Hosts -> HostRow]
  BY TypeParts
<1> USE <1>0
<1>1. ASSUME UNCHANGED host PROVE KeepsWork
  BY <1>1 DEF KeepsWork
<1>2. ASSUME NEW h \in Hosts, NEW pc, pc \notin Working, host' = [host EXCEPT ![h].pc = pc]
      PROVE  KeepsWork
  <2>1. [host[h] EXCEPT !.pc = pc].pc = pc
    BY DEF HostRow
  <2> QED
    BY <1>2, <2>1, RowKeepsWork
<1>3. ASSUME NEW h \in Hosts, NEW row, row.pc \notin Working, host' = [host EXCEPT ![h] = row]
      PROVE  KeepsWork
  BY <1>3, RowKeepsWork
<1>4. ASSUME NEW h \in Hosts,
             EnqueueOne(h) \/ MarkEnqueued(h) \/ StartTick(h)
             \/ (\E op \in Operations : Enqueue(h, op))
      PROVE  KeepsWork
  <2>1. ASSUME NEW e, host[h].pc = "enqueue",
               host' = [host EXCEPT ![h].todo = @ \ {e}, ![h].any = TRUE, ![h].put = @ \cup {e}]
        PROVE  KeepsWork
    <3> DEFINE row == [host[h] EXCEPT !.todo = @ \ {e}, !.any = TRUE, !.put = @ \cup {e}]
    <3>1. host[h] \in HostRow
      OBVIOUS
    <3>2. row.pc = host[h].pc
      BY <3>1 DEF HostRow
    <3>3. host' = [host EXCEPT ![h] = row]
      BY <2>1
    <3> HIDE DEF row
    <3> QED
      BY <2>1, <3>2, <3>3, <1>3 DEF Working
  <2>2. EnqueueOne(h) => KeepsWork
    BY <1>2, <2>1 DEF EnqueueOne, Working
  <2>3. MarkEnqueued(h) => KeepsWork
    BY <1>3, IdleFields DEF MarkEnqueued, Working
  <2>4. ASSUME StartTick(h) PROVE KeepsWork
    <3>1. [Idle EXCEPT !.pc = "claim", !.config = model, !.budget = TickJobs].pc = "claim"
      BY DEF Idle
    <3> QED
      BY <2>4, <3>1, <1>3 DEF StartTick, Working
  <2>5. ASSUME NEW op \in Operations, Enqueue(h, op) PROVE KeepsWork
    <3> DEFINE row == [Idle EXCEPT !.pc = "enqueue", !.op = op,
                                   !.todo = {e \in Entities : content[e] > 0}]
    <3>1. host' = [host EXCEPT ![h] = row]
      BY <2>5, Zenon DEF Enqueue
    <3>2. row.pc = "enqueue"
      BY DEF Idle
    <3> QED
      BY <3>1, <3>2, <1>3 DEF Working
  <2> QED
    BY <1>4, <2>2, <2>3, <2>4, <2>5
<1>5. ASSUME NEW h \in Hosts, Onward(h) PROVE KeepsWork
  <2>1. [Idle EXCEPT !.config = host[h].config, !.budget = host[h].budget,
                     !.pc = IF host[h].budget > 0 THEN "claim" ELSE "publish"].pc
            \in {"claim", "publish"}
    BY DEF Idle
  <2> QED
    BY <1>5, <2>1, <1>3 DEF Onward, Working
<1>6. ASSUME NEW h \in Hosts, NEW m \in Models, Configure(h, m) PROVE KeepsWork
  <2>1. host' = [g \in Hosts |-> [host[g] EXCEPT !.put = {}]]
    BY <1>6, Zenon DEF Configure
  <2> QED
    BY <2>1 DEF KeepsWork, HostRow
<1>7. ASSUME NEW h \in Hosts, Embed(h) \/ Store(h) PROVE KeepsWork
  <2>1. host[h].pc \in Working
    BY <1>7 DEF Embed, Store, Working
  <2>2. PICK pc : host' = [host EXCEPT ![h].pc = pc]
    BY <1>7 DEF Embed, Store
  <2> DEFINE row == [host[h] EXCEPT !.pc = pc]
  <2>3. row.job = host[h].job /\ row.fence = host[h].fence /\ row.config = host[h].config
    BY DEF HostRow
  <2> QED
    BY <2>1, <2>2, <2>3, RowKeepsWork
<1>8. ASSUME NEW h \in Hosts, ReadFact(h) PROVE KeepsWork
  <2>1. host[h].pc \in Working
    BY <1>8 DEF ReadFact, Working
  <2>2. PICK seen, pc : host' = [host EXCEPT ![h].seen = seen, ![h].pc = pc]
                        \/ host' = [host EXCEPT ![h].pc = "fatal"]
    BY <1>8, Zenon DEF ReadFact
  <2> DEFINE row == [host[h] EXCEPT !.seen = seen, !.pc = pc]
  <2> DEFINE fatal == [host[h] EXCEPT !.pc = "fatal"]
  <2>3. /\ row.job = host[h].job /\ row.fence = host[h].fence /\ row.config = host[h].config
        /\ fatal.job = host[h].job /\ fatal.fence = host[h].fence
        /\ fatal.config = host[h].config
    BY DEF HostRow
  <2>4. host' = [host EXCEPT ![h] = row] \/ host' = [host EXCEPT ![h] = fatal]
    BY <2>2
  <2> HIDE DEF row, fatal
  <2> QED
    BY <2>1, <2>3, <2>4, RowKeepsWork
<1>9. ASSUME NEW h \in Hosts, Complete(h) \/ Fail(h) \/ Degrade(h) PROVE KeepsWork
  <2>1. Onward(h) \/ host' = [host EXCEPT ![h].pc = "degrade"]
    BY <1>9 DEF Complete, Fail, Degrade
  <2> QED
    BY <2>1, <1>2, <1>5 DEF Working
<1>10. ASSUME NEW h \in Hosts, Publish(h) \/ StatementFails(h) \/ Crash(h) \/ Restart(h)
       PROVE  KeepsWork
  <2>1. host' = [host EXCEPT ![h] = Idle] \/ host' = [host EXCEPT ![h] = Off]
    BY <1>10 DEF Publish, StatementFails, Crash, Restart
  <2> QED
    BY <2>1, <1>3, IdleFields DEF Working
<1>11. ASSUME NEW h \in Hosts,
              (\E e \in Entities : Edit(h, e)) \/ (\E j \in Jobs : Cleanup(h, j))
       PROVE  KeepsWork
  BY <1>11, <1>1 DEF Edit, Cleanup
<1>12. ASSUME NEW j \in Jobs, ExpireLease(j) \/ EndPause(j) PROVE KeepsWork
  BY <1>12, <1>1 DEF ExpireLease, EndPause
<1> QED
  BY <1>4, <1>6, <1>7, <1>8, <1>9, <1>10, <1>11, <1>12 DEF Next, HostStep

\* A row never goes back to an older fence.
LEMMA RowsFences ==
    ASSUME NEW row \in JobRow
    PROVE  /\ Claimed(row).fence = row.fence + 1
           /\ Swept(row).fence = row.fence
           /\ \A op : Enqueued(row, op).fence \in {row.fence, row.fence + 1}
           /\ [NoJob EXCEPT !.fence = row.fence].fence = row.fence
<1>1. Claimed(row).fence = row.fence + 1
  BY DEF Claimed
<1>2. Swept(row).fence = row.fence
  BY DEF Swept, JobRow
<1>3. ASSUME NEW op PROVE Enqueued(row, op).fence \in {row.fence, row.fence + 1}
  <2>1. \A status, due : [row EXCEPT !.status = status, !.due = due].fence = row.fence
    BY DEF JobRow
  <2> DEFINE status == IF row.status = "done" THEN "pending" ELSE row.status
  <2>2. CASE op = "rebuild" \/ row.status = "none"
    BY <2>2 DEF Enqueued
  <2>3. CASE ~(op = "rebuild" \/ row.status = "none")
    <3>1. Enqueued(row, op) = [row EXCEPT !.status = status, !.due = "now"]
      BY <2>3 DEF Enqueued
    <3> QED
      BY <2>1, <3>1
  <2> QED
    BY <2>2, <2>3
<1>4. [NoJob EXCEPT !.fence = row.fence].fence = row.fence
  BY DEF NoJob
<1> QED
  BY <1>1, <1>2, <1>3, <1>4

FencesGrow == \A j \in Jobs : job[j].fence <= job'[j].fence

LEMMA FencesNext ==
    ASSUME Typed, Next
    PROVE  FencesGrow
<1>0. job \in [Jobs -> JobRow] /\ \A j \in Jobs : job[j] \in JobRow /\ job[j].fence \in Nat
  <2>1. job \in [Jobs -> JobRow]
    BY TypeParts
  <2>2. \A row \in JobRow : row.fence \in Nat
    BY DEF JobRow
  <2> QED
    BY <2>1, <2>2
<1> USE <1>0
<1>1. ASSUME UNCHANGED job PROVE FencesGrow
  BY <1>1 DEF FencesGrow
<1>2. ASSUME NEW j \in Jobs, NEW row, job' = [job EXCEPT ![j] = row],
             row.fence \in {job[j].fence, job[j].fence + 1}
      PROVE  FencesGrow
  <2>1. ASSUME NEW i \in Jobs PROVE job[i].fence <= job'[i].fence
    <3>1. CASE i = j
      BY <1>2, <3>1
    <3>2. CASE i # j
      BY <1>2, <3>2
    <3> QED
      BY <3>1, <3>2
  <2> QED
    BY <2>1 DEF FencesGrow
<1>3. ASSUME NEW h \in Hosts, NEW e \in Entities, Edit(h, e) PROVE FencesGrow
  <2>1. <<e, "upsert">> \in Jobs
    BY DEF Jobs, Operations
  <2>2. job' = [job EXCEPT ![<<e, "upsert">>] = Enqueued(job[<<e, "upsert">>], "upsert")]
    BY <1>3 DEF Edit
  <2> QED
    BY <2>1, <2>2, <1>2, RowsFences
<1>4. ASSUME NEW h \in Hosts, EnqueueOne(h) PROVE FencesGrow
  <2>1. ASSUME NEW e \in host[h].todo,
               job' = [job EXCEPT ![<<e, host[h].op>>] = Enqueued(@, host[h].op)]
        PROVE  FencesGrow
    <3>1. host[h] \in HostRow
      BY TypeParts
    <3>2. <<e, host[h].op>> \in Jobs
      BY <3>1 DEF HostRow, Jobs
    <3> QED
      BY <2>1, <3>2, <1>2, RowsFences
  <2> QED
    BY <1>4, <1>1, <2>1, Zenon DEF EnqueueOne
<1>5. ASSUME NEW h \in Hosts, Claim(h) PROVE FencesGrow
  <2>1. \A i \in Jobs : job'[i] = Claimed(job[i]) \/ job'[i] = Swept(job[i])
    BY <1>5 DEF Claim
  <2> QED
    BY <2>1, RowsFences DEF FencesGrow
<1>6. ASSUME NEW h \in Hosts, Complete(h) \/ Fail(h) PROVE FencesGrow
  <2>1. host[h].job \in Jobs
    <3>1. Locals(h) /\ host[h].pc \in Working
      BY <1>6, TypeParts DEF Complete, Fail, Working
    <3> QED
      BY <3>1 DEF Locals
  <2> DEFINE j == host[h].job
  <2>2. PICK status, due :
            \/ job' = job
            \/ job' = [job EXCEPT ![j] = [@ EXCEPT !.status = status, !.due = due, !.expired = FALSE]]
            \/ job' = [job EXCEPT ![j] = [@ EXCEPT !.status = status, !.expired = FALSE, !.due = due]]
    BY <1>6, Zenon DEF Complete, Fail
  <2>3. \A row \in JobRow :
            /\ [row EXCEPT !.status = status, !.due = due, !.expired = FALSE].fence = row.fence
            /\ [row EXCEPT !.status = status, !.expired = FALSE, !.due = due].fence = row.fence
    BY DEF JobRow
  <2> QED
    BY <2>1, <2>2, <2>3, <1>1, <1>2
<1>7. ASSUME NEW h \in Hosts, NEW j \in Jobs, Cleanup(h, j) PROVE FencesGrow
  BY <1>7, <1>2, RowsFences DEF Cleanup
<1>8. ASSUME NEW j \in Jobs, ExpireLease(j) \/ EndPause(j) PROVE FencesGrow
  <2>1. \A row \in JobRow : /\ [row EXCEPT !.expired = TRUE].fence = row.fence
                            /\ [row EXCEPT !.due = "now"].fence = row.fence
    BY DEF JobRow
  <2> QED
    BY <1>8, <2>1, <1>2 DEF ExpireLease, EndPause
<1>9. ASSUME NEW h \in Hosts,
             \/ \E op \in Operations : Enqueue(h, op)
             \/ \E m \in Models : Configure(h, m)
             \/ MarkEnqueued(h) \/ StartTick(h) \/ ReadFact(h) \/ Embed(h) \/ Store(h)
             \/ Degrade(h) \/ Publish(h) \/ StatementFails(h) \/ Crash(h) \/ Restart(h)
      PROVE  FencesGrow
  <2>1. UNCHANGED job
    BY <1>9, Zenon DEF Enqueue, Configure, MarkEnqueued, StartTick, ReadFact, Embed, Store,
                       Degrade, Publish, StatementFails, Crash, Restart
  <2> QED
    BY <1>1, <2>1
<1> QED
  BY <1>3, <1>4, <1>5, <1>6, <1>7, <1>8, <1>9 DEF Next, HostStep

LEMMA ClaimsKept ==
    ASSUME Typed, Typed', ClaimsAreUnique, KeepsWork, FencesGrow
    PROVE  ClaimsAreUnique'
<1>1. ASSUME NEW g \in Hosts, host'[g].pc \in Working
      PROVE  host[g].job \in Jobs /\ host[g].fence \in Nat
             /\ job[host[g].job].fence \in Nat /\ job'[host[g].job].fence \in Nat
  <2>1. Locals(g) /\ host[g] \in HostRow /\ job \in [Jobs -> JobRow]
    BY TypeParts
  <2>2. host[g].pc \in Working
    BY <1>1 DEF KeepsWork
  <2>3. host[g].job \in Jobs /\ host[g].fence \in Nat
    BY <2>1, <2>2 DEF Locals, HostRow
  <2>4. job' \in [Jobs -> JobRow]
    BY DEF Typed, TypeOK
  <2> QED
    BY <2>1, <2>3, <2>4 DEF JobRow
<1> QED
  BY <1>1 DEF ClaimsAreUnique, KeepsWork, FencesGrow

LEMMA ClaimsAfterClaim ==
    ASSUME Typed, Typed', ClaimsAreUnique, FencesGrow, NEW h \in Hosts, Claim(h)
    PROVE  ClaimsAreUnique'
<1>1. host \in [Hosts -> HostRow] /\ job \in [Jobs -> JobRow] /\ job' \in [Jobs -> JobRow]
      /\ \A g \in Hosts : Locals(g)
  BY TypeParts DEF Typed, TypeOK
<1>2. \A row \in JobRow : row.fence \in Nat
  BY DEF JobRow
<1>3. CASE host' = [host EXCEPT ![h].pc = "publish"]
  <2>1. [host[h] EXCEPT !.pc = "publish"].pc = "publish"
    BY <1>1 DEF HostRow
  <2>2. KeepsWork
    BY <1>1, <1>3, <2>1, RowKeepsWork DEF Working
  <2> QED
    BY <2>2, ClaimsKept
<1>4. ASSUME NEW j \in Jobs,
             job' = [i \in Jobs |-> IF i = j THEN Claimed(job[i]) ELSE Swept(job[i])],
             host' = [host EXCEPT ![h].pc = "read", ![h].job = j,
                                  ![h].fence = job'[j].fence, ![h].budget = @ - 1]
      PROVE  ClaimsAreUnique'
  <2>1. job'[j].fence = job[j].fence + 1 /\ job[j].fence \in Nat
    BY <1>1, <1>2, <1>4, RowsFences
  <2>2. host'[h].job = j /\ host'[h].fence = job'[j].fence
    BY <1>1, <1>4 DEF HostRow
  <2>3. \A g \in Hosts \ {h} : host'[g] = host[g]
    BY <1>1, <1>4
  <2>4. ASSUME NEW g \in Hosts \ {h}, host[g].pc \in Working
        PROVE  /\ host[g].job \in Jobs /\ host[g].fence \in Nat
               /\ host[g].fence <= job[host[g].job].fence
               /\ host[g].fence <= job'[host[g].job].fence
               /\ (host[g].job = j => host[g].fence # job'[j].fence)
    <3>1. host[g].job \in Jobs /\ host[g].fence \in Nat
      BY <1>1, <2>4 DEF Locals, HostRow
    <3>2. host[g].fence <= job[host[g].job].fence
      BY <2>4 DEF ClaimsAreUnique
    <3>3. job[host[g].job].fence \in Nat /\ job'[host[g].job].fence \in Nat
      BY <1>1, <1>2, <3>1
    <3>4. job[host[g].job].fence <= job'[host[g].job].fence
      BY <3>1 DEF FencesGrow
    <3> QED
      BY <2>1, <3>1, <3>2, <3>3, <3>4
  <2> QED
    BY <1>1, <1>2, <2>1, <2>2, <2>3, <2>4 DEF ClaimsAreUnique
<1> QED
  BY <1>3, <1>4, Zenon DEF Claim

LEMMA ClaimsNext ==
    ASSUME Typed, ClaimsAreUnique, [Next]_vars
    PROVE  ClaimsAreUnique'
<1>1. Typed'
  BY QueueNextTyped
<1>2. CASE UNCHANGED vars
  BY <1>2 DEF vars, ClaimsAreUnique
<1>3. CASE Next /\ \E h \in Hosts : Claim(h)
  BY <1>1, <1>3, FencesNext, ClaimsAfterClaim
<1>4. CASE Next /\ \A h \in Hosts : ~Claim(h)
  BY <1>1, <1>4, FencesNext, OnlyClaimsStartWork, ClaimsKept
<1> QED
  BY <1>2, <1>3, <1>4

\* No two workers ever hold the same claim: of all who come with an answer, at
\* most one bears the fence of the row.
THEOREM NoClaimIsShared == Spec => []ClaimsAreUnique
<1>1. Init => ClaimsAreUnique
  BY IdleFields DEF Init, ClaimsAreUnique, Working
<1> QED
  BY <1>1, QueueInitTyped, QueueNextTyped, ClaimsNext, PTL DEF Spec

(***************************************************************************)
(* Facts and their jobs.                                                   *)
(***************************************************************************)

\* What the properties speak of: an entity that was enqueued since the provider
\* was configured, by a call that may not have marked the rows yet, and whose
\* enqueuing no other host could overtake.
Tracked(e) == e \in owed \/ \E h \in Hosts : e \in host[h].put
Counted(e) == Tracked(e) /\ e \notin crossed

\* A tick that meets such an entity works under the present configuration and
\* with the present version.
HonestAt(h, e) ==
    /\ host[h].pc \in Ticking => host[h].config = model
    /\ host[h].pc \in Working /\ host[h].job[1] = e =>
          /\ host[h].pc \in {"embed", "store"} => host[h].seen = content[e]
          /\ host[h].pc = "complete" => vector[e][host[h].config] = content[e]

Cared(e) == Embedded(e) \/ \E op \in Operations : Outstanding(<<e, op>>)

Tracking ==
    /\ \A e \in Entities : Counted(e) => Cared(e) /\ \A h \in Hosts : HonestAt(h, e)
    /\ ReadyIsCurrent

LEMMA EnqueuedIsOutstanding ==
    ASSUME NEW row \in JobRow, NEW op \in Operations
    PROVE  Enqueued(row, op).status \in {"pending", "running", "failed"}
<1>1. CASE op = "rebuild" \/ row.status = "none"
  BY <1>1 DEF Enqueued
<1>2. CASE ~(op = "rebuild" \/ row.status = "none")
  <2> DEFINE new == IF row.status = "done" THEN "pending" ELSE row.status
  <2>1. Enqueued(row, op) = [row EXCEPT !.status = new, !.due = "now"]
    BY <1>2 DEF Enqueued
  <2>2. new \in {"pending", "running", "failed"}
    BY <1>2 DEF JobRow
  <2> HIDE DEF new
  <2>3. Enqueued(row, op).status = new
    BY <2>1 DEF JobRow
  <2> QED
    BY <2>2, <2>3
<1> QED
  BY <1>1, <1>2

\* The common case: no fact, no embedding and no configuration changes, nothing
\* comes to be counted, no job is done and no row becomes ready.
LEMMA TrackingKept ==
    ASSUME Tracking, UNCHANGED <<content, vector, model>>,
           \A e \in Entities : Counted(e)' => Counted(e),
           \A j \in Jobs : Outstanding(j) => Outstanding(j)',
           \A e \in Entities, g \in Hosts : HonestAt(g, e) => HonestAt(g, e)',
           \A p \in Projections : state'[p].lifecycle = "ready" => state[p].lifecycle = "ready",
           owed' \ crossed' \subseteq owed \ crossed
           \/ \A p \in Projections : state'[p].lifecycle # "ready",
           owed' \subseteq Entities
    PROVE  Tracking'
<1>1. \A e \in Entities, op \in Operations : <<e, op>> \in Jobs
  BY DEF Jobs
<1>2. \A e \in Entities : Cared(e) => Cared(e)'
  BY <1>1 DEF Cared, Embedded
<1>3. \A e \in Entities : Row(e) \in Projections
  BY DEF Row, Projections
<1>4. ReadyIsCurrent'
  BY <1>3 DEF Tracking, ReadyIsCurrent, Embedded, Row
<1> QED
  BY <1>2, <1>4 DEF Tracking

\* A host whose row says nothing of a job keeps honest; so does one whose row
\* stays.
LEMMA HonestRest ==
    ASSUME UNCHANGED <<content, vector, model>>, NEW g \in Hosts, NEW e \in Entities,
           HonestAt(g, e),
           \/ host'[g] = host[g]
           \/ host'[g].pc \notin Ticking
           \/ /\ host'[g].pc \in Ticking \ {"embed", "store", "complete"}
              /\ host'[g].config = model \/ (host[g].pc \in Ticking
                                             /\ host'[g].config = host[g].config)
    PROVE  HonestAt(g, e)'
<1>1. Working \subseteq Ticking
  BY DEF Ticking
<1> QED
  BY <1>1 DEF HonestAt

\* A canonical write: the entity gets a job, and unless somebody may overtake
\* it nobody works on it.
LEMMA EditTracking ==
    ASSUME Typed, Tracking, NEW h \in Hosts, NEW e \in Entities, Edit(h, e)
    PROVE  Tracking'
<1>1. /\ content \in [Entities -> 0..MaxEdits] /\ job \in [Jobs -> JobRow]
      /\ state \in [Projections -> StateRow] /\ owed \subseteq Entities
  BY TypeParts
<1>2. /\ host[h].pc = "idle"
      /\ content' = [content EXCEPT ![e] = @ + 1]
      /\ job' = [job EXCEPT ![<<e, "upsert">>] = Enqueued(@, "upsert")]
      /\ state' = [p \in Projections |->
                    IF e \in Tasks \/ p = "atoms" THEN Stale(state[p]) ELSE state[p]]
      /\ owed' = owed \cup {e}
      /\ crossed' = IF Overtaken(h, e) THEN crossed \cup {e} ELSE crossed \ {e}
      /\ UNCHANGED <<model, vector, host>>
  BY Zenon DEF Edit, Owe
<1>3. <<e, "upsert">> \in Jobs /\ "upsert" \in Operations
  BY DEF Jobs, Operations
<1>4. Outstanding(<<e, "upsert">>)'
  BY <1>1, <1>2, <1>3, EnqueuedIsOutstanding DEF Outstanding
<1>5. Cared(e)'
  BY <1>3, <1>4 DEF Cared
<1>6. ASSUME Counted(e)', NEW g \in Hosts PROVE HonestAt(g, e)'
  <2>1. ~Overtaken(h, e)
    BY <1>2, <1>6 DEF Counted
  <2>2. g # h => ~(host[g].pc \in Working /\ host[g].job[1] = e)
                 /\ ~(host[g].pc \in Ticking /\ host[g].config # model)
    BY <2>1 DEF Overtaken, MayOvertake
  <2>3. host[h].pc \notin Ticking /\ host[h].pc \notin Working
    BY <1>2 DEF Ticking, Working
  <2> QED
    BY <1>2, <2>2, <2>3 DEF HonestAt
<1>7. ASSUME NEW f \in Entities \ {e}
      PROVE  /\ Counted(f)' => Counted(f)
             /\ Cared(f) => Cared(f)'
             /\ \A g \in Hosts : HonestAt(g, f) => HonestAt(g, f)'
  <2>1. content'[f] = content[f] /\ (f \in owed' <=> f \in owed) /\ (f \in crossed' <=> f \in crossed)
    BY <1>1, <1>2
  <2>2. \A op \in Operations : job'[<<f, op>>] = job[<<f, op>>]
    BY <1>1, <1>2 DEF Jobs
  <2> QED
    BY <1>2, <2>1, <2>2 DEF Counted, Tracked, Cared, Embedded, Outstanding, HonestAt
<1>8. ASSUME NEW f \in owed' \ crossed', state'[Row(f)].lifecycle = "ready"
      PROVE  Embedded(f)'
  <2>1. f \in Entities /\ Row(f) \in Projections
    BY <1>1, <1>2 DEF Row, Projections
  <2>2. Stale(state[Row(f)]).lifecycle # "ready"
    BY <1>1, <2>1 DEF Stale
  <2>3. state'[Row(f)] = state[Row(f)] /\ e \notin Tasks /\ Row(f) # "atoms"
    BY <1>2, <1>8, <2>1, <2>2
  <2>4. f # e
    BY <2>3 DEF Row
  <2>5. f \in owed \ crossed /\ content'[f] = content[f]
    BY <1>1, <1>2, <2>1, <2>4
  <2> QED
    BY <1>2, <1>8, <2>3, <2>5 DEF Tracking, ReadyIsCurrent, Embedded
<1>9. ReadyIsCurrent'
  BY <1>8 DEF ReadyIsCurrent, Row
<1> QED
  BY <1>5, <1>6, <1>7, <1>9 DEF Tracking

LEMMA EnqueueOneTracking ==
    ASSUME Typed, Tracking, NEW h \in Hosts, EnqueueOne(h)
    PROVE  Tracking'
<1>1. /\ job \in [Jobs -> JobRow] /\ owed \subseteq Entities
      /\ host \in [Hosts -> HostRow] /\ host[h] \in HostRow
  BY TypeParts
<1>2. /\ host[h].pc = "enqueue"
      /\ UNCHANGED <<content, state, model, vector, owed>>
  BY Zenon DEF EnqueueOne
<1>3. ASSUME NEW e \in host[h].todo,
             job' = [job EXCEPT ![<<e, host[h].op>>] = Enqueued(@, host[h].op)],
             host' = [host EXCEPT ![h].todo = @ \ {e}, ![h].any = TRUE, ![h].put = @ \cup {e}],
             crossed' = IF Overtaken(h, e) THEN crossed \cup {e} ELSE crossed
      PROVE  Tracking'
  <2> DEFINE row == [host[h] EXCEPT !.todo = @ \ {e}, !.any = TRUE, !.put = @ \cup {e}]
  <2>1. row.pc = "enqueue" /\ row.put = host[h].put \cup {e}
    BY <1>1, <1>2 DEF HostRow
  <2>2. host'[h] = row /\ \A g \in Hosts \ {h} : host'[g] = host[g]
    BY <1>1, <1>3
  <2> HIDE DEF row
  <2>3. e \in Entities /\ host[h].op \in Operations /\ <<e, host[h].op>> \in Jobs
    BY <1>1 DEF HostRow, Jobs
  <2>4. PICK op \in Operations : op = host[h].op
    BY <2>3
  <2>5. Cared(e)'
    <3>1. job[<<e, op>>] \in JobRow /\ <<e, op>> \in Jobs
      BY <1>1, <2>3, <2>4
    <3>2. job'[<<e, op>>] = Enqueued(job[<<e, op>>], op)
      BY <1>1, <1>3, <2>3, <2>4
    <3>3. Enqueued(job[<<e, op>>], op).status \in {"pending", "running", "failed"}
      BY <3>1, EnqueuedIsOutstanding
    <3> QED
      BY <3>2, <3>3 DEF Cared, Outstanding
  <2>6. host'[h].pc \notin Ticking /\ host'[h].pc \notin Working
    BY <2>1, <2>2 DEF Ticking, Working
  <2>7. ASSUME Counted(e)', NEW g \in Hosts PROVE HonestAt(g, e)'
    <3>1. ~Overtaken(h, e)
      BY <1>3, <2>7 DEF Counted
    <3>2. g # h => ~(host[g].pc \in Working /\ host[g].job[1] = e)
                   /\ ~(host[g].pc \in Ticking /\ host[g].config # model)
      BY <3>1 DEF Overtaken, MayOvertake
    <3> QED
      BY <1>2, <2>2, <2>6, <3>2 DEF HonestAt
  <2>8. ASSUME NEW f \in Entities \ {e}
        PROVE  /\ Counted(f)' => Counted(f)
               /\ Cared(f) => Cared(f)'
               /\ \A g \in Hosts : HonestAt(g, f) => HonestAt(g, f)'
    <3>1. f \in crossed' <=> f \in crossed
      BY <1>3
    <3>2. \A o \in Operations : job'[<<f, o>>] = job[<<f, o>>]
      BY <1>1, <1>3 DEF Jobs
    <3>3. \A g \in Hosts : f \in host'[g].put <=> f \in host[g].put
      BY <2>1, <2>2
    <3>4. \A g \in Hosts : HonestAt(g, f) => HonestAt(g, f)'
      BY <1>2, <2>2, <2>6 DEF HonestAt
    <3> QED
      BY <1>2, <3>1, <3>2, <3>3, <3>4 DEF Counted, Tracked, Cared, Embedded, Outstanding
  <2>9. ReadyIsCurrent'
    BY <1>2, <1>3 DEF Tracking, ReadyIsCurrent, Embedded, Row
  <2> QED
    BY <2>5, <2>7, <2>8, <2>9 DEF Tracking
<1>4. CASE host' = [host EXCEPT ![h].pc = "mark"] /\ UNCHANGED <<job, crossed>>
  <2> DEFINE row == [host[h] EXCEPT !.pc = "mark"]
  <2>1. row.pc = "mark" /\ row.put = host[h].put
    BY <1>1 DEF HostRow
  <2>2. host'[h] = row /\ \A g \in Hosts \ {h} : host'[g] = host[g]
    BY <1>1, <1>4
  <2> HIDE DEF row
  <2>3. \A g \in Hosts : host'[g] = host[g] \/ host'[g].pc \notin Ticking
    BY <2>1, <2>2 DEF Ticking, Working
  <2>4. \A g \in Hosts, e \in Entities : HonestAt(g, e) => HonestAt(g, e)'
    BY <1>2, <2>3, HonestRest
  <2>5. \A e \in Entities : Counted(e)' => Counted(e)
    BY <1>2, <1>4, <2>1, <2>2 DEF Counted, Tracked
  <2>6. \A j \in Jobs : Outstanding(j) => Outstanding(j)'
    BY <1>4 DEF Outstanding
  <2> QED
    BY <1>1, <1>2, <1>4, <2>4, <2>5, <2>6, TrackingKept
<1> QED
  BY <1>3, <1>4, Zenon DEF EnqueueOne

LEMMA ConfigureTracking ==
    ASSUME Typed, Tracking, NEW h \in Hosts, NEW m \in Models, Configure(h, m)
    PROVE  Tracking'
<1>1. owed' = {} /\ host' = [g \in Hosts |-> [host[g] EXCEPT !.put = {}]]
  BY Zenon DEF Configure
<1>2. \A g \in Hosts : host'[g].put = {}
  BY <1>1, TypeParts DEF HostRow
<1>3. \A e : ~Tracked(e)'
  BY <1>1, <1>2 DEF Tracked
<1> QED
  BY <1>1, <1>3 DEF Tracking, Counted, ReadyIsCurrent

\* What a tick stored is the present version of an entity that is counted.
LEMMA StoreTracking ==
    ASSUME Typed, Tracking, NEW h \in Hosts, Store(h)
    PROVE  Tracking'
<1>1. /\ vector \in [Entities -> [Models -> 0..MaxEdits]] /\ owed \subseteq Entities
      /\ host \in [Hosts -> HostRow] /\ host[h] \in HostRow /\ Locals(h)
  BY TypeParts
<1>2. /\ host[h].pc = "store" /\ host[h].pc \in Working /\ host[h].pc \in Ticking
      /\ UNCHANGED <<content, job, state, model, owed, crossed>>
  BY DEF Store, Working, Ticking
<1>3. host[h].job[1] \in Entities /\ host[h].config \in Models
  BY <1>1, <1>2 DEF Locals, Jobs
<1>4. PICK pc \in {"complete", "fatal"} : host' = [host EXCEPT ![h].pc = pc]
  BY DEF Store
<1> DEFINE row == [host[h] EXCEPT !.pc = pc]
<1>5. /\ row.pc = pc /\ row.put = host[h].put /\ row.job = host[h].job
      /\ row.config = host[h].config
  BY <1>1 DEF HostRow
<1>6. host'[h] = row /\ \A g \in Hosts \ {h} : host'[g] = host[g]
  BY <1>1, <1>4
<1> HIDE DEF row
<1>7. \A e : Counted(e)' <=> Counted(e)
  BY <1>2, <1>5, <1>6 DEF Counted, Tracked
<1>11. PICK e0 \in Entities, m0 \in Models : e0 = host[h].job[1] /\ m0 = host[h].config
  BY <1>3
<1>8. CASE vector' = [vector EXCEPT ![host[h].job[1]][host[h].config] = host[h].seen]
  <2>1. vector'[e0][m0] = host[h].seen
    BY <1>1, <1>8, <1>11
  <2>2. \A e \in Entities, m \in Models : e # e0 \/ m # m0 => vector'[e][m] = vector[e][m]
    BY <1>1, <1>8, <1>11
  <2>3. Counted(e0) => model = m0 /\ host[h].seen = content[e0]
    <3>1. Counted(e0) => HonestAt(h, e0)
      BY DEF Tracking
    <3> QED
      BY <1>2, <1>11, <3>1 DEF HonestAt
  <2>4. ASSUME Counted(e0) PROVE Embedded(e0)'
    <3>1. model' # NULL /\ model' = m0 /\ content'[e0] = content[e0]
      BY <1>2, <2>3, <2>4
    <3> QED
      BY <2>1, <2>3, <2>4, <3>1 DEF Embedded
  <2>5. ASSUME NEW e \in Entities, Counted(e), Embedded(e) PROVE Embedded(e)'
    <3>1. CASE e = e0
      BY <2>4, <2>5, <3>1
    <3>2. CASE e # e0
      <4>1. model \in Models
        BY <2>5, TypeParts DEF Embedded
      <4> QED
        BY <1>2, <2>2, <2>5, <3>2, <4>1 DEF Embedded
    <3> QED
      BY <3>1, <3>2
  <2>6. ASSUME NEW e \in Entities, Counted(e), NEW g \in Hosts, HonestAt(g, e)
        PROVE  HonestAt(g, e)'
    <3>1. CASE g = h
      <4>1. HonestAt(h, e)' <=>
              /\ m0 = model
              /\ (e0 = e /\ pc = "complete") => vector'[e][m0] = content[e]
        BY <1>2, <1>5, <1>6, <1>11 DEF HonestAt, Working, Ticking
      <4>2. m0 = model
        BY <1>2, <1>11, <2>6, <3>1 DEF HonestAt
      <4> QED
        BY <2>1, <2>3, <2>6, <3>1, <4>1, <4>2
    <3>2. CASE g # h
      <4>1. host'[g] = host[g] /\ Locals(g)
        BY <1>6, <3>2, TypeParts
      <4>2. ASSUME host[g].pc = "complete", host[g].job[1] = e
            PROVE  vector'[e][host[g].config] = content[e]
        <5>1. /\ host[g].pc \in Working /\ host[g].pc \in Ticking
          BY <4>2 DEF Working, Ticking
        <5>2. host[g].config \in Models /\ host[g].config = model
              /\ vector[e][host[g].config] = content[e]
          BY <2>6, <4>1, <4>2, <5>1 DEF HonestAt, Locals
        <5>3. CASE e = e0
          BY <2>1, <2>3, <2>6, <5>2, <5>3
        <5>4. CASE e # e0
          BY <2>2, <5>2, <5>4
        <5> QED
          BY <5>3, <5>4
      <4> QED
        BY <1>2, <2>6, <4>1, <4>2 DEF HonestAt
    <3> QED
      BY <3>1, <3>2
  <2>7. \A e \in Entities : Counted(e) /\ Cared(e) => Cared(e)'
    BY <1>2, <2>5 DEF Cared, Outstanding
  <2>8. ReadyIsCurrent'
    <3>1. \A e \in owed \ crossed : e \in Entities /\ Counted(e)
      BY <1>1 DEF Counted, Tracked
    <3> QED
      BY <1>2, <2>5, <3>1 DEF Tracking, ReadyIsCurrent, Row
  <2> QED
    BY <1>7, <2>6, <2>7, <2>8 DEF Tracking
<1>9. CASE pc = "fatal" /\ UNCHANGED vector
  <2>1. \A g \in Hosts, e \in Entities : HonestAt(g, e) => HonestAt(g, e)'
    <3>1. "fatal" \in Ticking \ {"embed", "store", "complete"}
      BY DEF Ticking, Working
    <3>2. \A g \in Hosts : \/ host'[g] = host[g]
                           \/ /\ host'[g].pc \in Ticking \ {"embed", "store", "complete"}
                              /\ host[g].pc \in Ticking /\ host'[g].config = host[g].config
      BY <1>2, <1>5, <1>6, <1>9, <3>1
    <3> QED
      BY <1>2, <1>9, <3>2, HonestRest
  <2>2. \A j \in Jobs : Outstanding(j) => Outstanding(j)'
    BY <1>2 DEF Outstanding
  <2> QED
    BY <1>1, <1>2, <1>7, <1>9, <2>1, <2>2, TrackingKept
<1>10. vector' = [vector EXCEPT ![host[h].job[1]][host[h].config] = host[h].seen]
       \/ (pc = "fatal" /\ UNCHANGED vector)
  <2>1. [host[h] EXCEPT !.pc = "fatal"].pc = "fatal"
    BY <1>1 DEF HostRow
  <2>2. host' = [host EXCEPT ![h].pc = "fatal"] => pc = "fatal"
    BY <1>1, <1>5, <1>6, <2>1
  <2> QED
    BY <2>2, Zenon DEF Store
<1> QED
  BY <1>8, <1>9, <1>10

\* A host takes up no version of a fact, nothing comes to be counted, and what
\* was cared for still is.
LEMMA RestTracking ==
    ASSUME Typed, Tracking, NEW h \in Hosts, NEW row,
           host' = [host EXCEPT ![h] = row], row.put \subseteq host[h].put,
           UNCHANGED <<content, vector, model, crossed, owed>>,
           \/ row.pc \notin Ticking
           \/ /\ row.pc \in Ticking \ {"embed", "store", "complete"}
              /\ row.config = model \/ (host[h].pc \in Ticking /\ row.config = host[h].config),
           \A e \in Entities : Counted(e) /\ Cared(e) => Cared(e)',
           state' = state \/ state' = Degraded
    PROVE  Tracking'
<1>1. host \in [Hosts -> HostRow] /\ owed \subseteq Entities
  BY TypeParts
<1>2. host'[h] = row /\ \A g \in Hosts \ {h} : host'[g] = host[g]
  BY <1>1
<1>3. \A g \in Hosts, e \in Entities : HonestAt(g, e) => HonestAt(g, e)'
  <2>1. \A g \in Hosts :
          \/ host'[g] = host[g]
          \/ host'[g].pc \notin Ticking
          \/ /\ host'[g].pc \in Ticking \ {"embed", "store", "complete"}
             /\ host'[g].config = model \/ (host[g].pc \in Ticking
                                            /\ host'[g].config = host[g].config)
    BY <1>2
  <2> QED
    BY <2>1, HonestRest
<1>4. \A e \in Entities : Counted(e)' => Counted(e)
  BY <1>2 DEF Counted, Tracked
<1>5. ReadyIsCurrent'
  <2>1. \A e \in Entities : Row(e) \in Projections
    BY DEF Row, Projections
  <2>2. \A p \in Projections : state'[p].lifecycle = "ready" => state[p].lifecycle = "ready"
    BY DEF Degraded
  <2> QED
    BY <1>1, <2>1, <2>2 DEF Tracking, ReadyIsCurrent, Embedded, Row
<1> QED
  BY <1>3, <1>4, <1>5 DEF Tracking

\* The same when no job is done.
LEMMA OutstandingTracking ==
    ASSUME Typed, Tracking, NEW h \in Hosts, NEW row,
           host' = [host EXCEPT ![h] = row], row.put \subseteq host[h].put,
           UNCHANGED <<content, vector, model, crossed, owed>>,
           \/ row.pc \notin Ticking
           \/ /\ row.pc \in Ticking \ {"embed", "store", "complete"}
              /\ row.config = model \/ (host[h].pc \in Ticking /\ row.config = host[h].config),
           \A j \in Jobs : Outstanding(j) => Outstanding(j)',
           state' = state \/ state' = Degraded
    PROVE  Tracking'
<1>1. \A e \in Entities : Counted(e) /\ Cared(e) => Cared(e)'
  BY DEF Cared, Embedded, Jobs
<1> QED
  BY <1>1, RestTracking

\* Where a host goes after a job.
LEMMA OnwardRow ==
    ASSUME NEW h \in Hosts, Onward(h)
    PROVE  \E row : /\ host' = [host EXCEPT ![h] = row]
                    /\ row.pc \in {"claim", "publish"}
                    /\ row.put = {} /\ row.config = host[h].config
<1> DEFINE row == [Idle EXCEPT !.config = host[h].config, !.budget = host[h].budget,
                               !.pc = IF host[h].budget > 0 THEN "claim" ELSE "publish"]
<1>1. row.pc \in {"claim", "publish"} /\ row.put = {} /\ row.config = host[h].config
  BY DEF Idle
<1>2. host' = [host EXCEPT ![h] = row]
  BY DEF Onward
<1> QED
  BY <1>1, <1>2

\* Calls that only get under way, faults and restarts.
LEMMA CallsTracking ==
    ASSUME Typed, Tracking, NEW h \in Hosts,
           \/ \E op \in Operations : Enqueue(h, op)
           \/ StartTick(h) \/ StatementFails(h) \/ Crash(h) \/ Restart(h)
    PROVE  Tracking'
<1>1. UNCHANGED <<content, job, state, model, vector, owed, crossed>>
  BY Zenon DEF Enqueue, StartTick, StatementFails, Crash, Restart
<1>2. \A j \in Jobs : Outstanding(j) => Outstanding(j)'
  BY <1>1 DEF Outstanding
<1>3. ASSUME NEW row \in {Idle, Off}, host' = [host EXCEPT ![h] = row] PROVE Tracking'
  <2>1. row.put = {} /\ row.pc \notin Ticking
    BY IdleFields DEF Ticking, Working
  <2> QED
    BY <1>1, <1>2, <1>3, <2>1, OutstandingTracking
<1>4. ASSUME NEW op \in Operations, Enqueue(h, op) PROVE Tracking'
  <2> DEFINE row == [Idle EXCEPT !.pc = "enqueue", !.op = op,
                                 !.todo = {e \in Entities : content[e] > 0}]
  <2>1. row.put = {} /\ row.pc \notin Ticking
    BY DEF Idle, Ticking, Working
  <2>2. host' = [host EXCEPT ![h] = row]
    BY <1>4 DEF Enqueue
  <2> HIDE DEF row
  <2> QED
    BY <1>1, <1>2, <2>1, <2>2, OutstandingTracking
<1>5. CASE StartTick(h)
  <2> DEFINE row == [Idle EXCEPT !.pc = "claim", !.config = model, !.budget = TickJobs]
  <2>1. row.put = {} /\ row.pc \in Ticking \ {"embed", "store", "complete"}
        /\ row.config = model
    BY DEF Idle, Ticking, Working
  <2>2. host' = [host EXCEPT ![h] = row]
    BY <1>5 DEF StartTick
  <2> HIDE DEF row
  <2> QED
    BY <1>1, <1>2, <2>1, <2>2, OutstandingTracking
<1>6. CASE StatementFails(h) \/ Crash(h) \/ Restart(h)
  <2>1. \E row \in {Idle, Off} : host' = [host EXCEPT ![h] = row]
    BY <1>6 DEF StatementFails, Crash, Restart
  <2> QED
    BY <1>3, <2>1
<1> QED
  BY <1>4, <1>5, <1>6

\* A claim: the jobs it sweeps and the one it takes are still to be done.
LEMMA ClaimTracking ==
    ASSUME Typed, Tracking, NEW h \in Hosts, Claim(h)
    PROVE  Tracking'
<1>1. host \in [Hosts -> HostRow] /\ job \in [Jobs -> JobRow] /\ host[h] \in HostRow
  BY TypeParts
<1>2. /\ host[h].pc = "claim" /\ host[h].pc \in Ticking
      /\ UNCHANGED <<content, model, vector, owed, crossed>>
      /\ state' = state \/ state' = Degraded
  BY DEF Claim, Ticking
<1>3. \A i \in Jobs : job'[i] = Claimed(job[i]) \/ job'[i] = Swept(job[i])
  BY DEF Claim
<1>4. \A row \in JobRow :
        /\ Claimed(row).status = "running"
        /\ Swept(row).status = row.status \/ Swept(row).status = "failed"
  BY DEF Claimed, Swept, JobRow
<1>5. \A j \in Jobs : Outstanding(j) => Outstanding(j)'
  BY <1>1, <1>3, <1>4 DEF Outstanding
<1>6. CASE host' = [host EXCEPT ![h].pc = "publish"]
  <2> DEFINE row == [host[h] EXCEPT !.pc = "publish"]
  <2>1. row.pc = "publish" /\ row.put = host[h].put /\ row.config = host[h].config
    BY <1>1 DEF HostRow
  <2>2. host' = [host EXCEPT ![h] = row]
    BY <1>6
  <2> HIDE DEF row
  <2>3. row.pc \in Ticking \ {"embed", "store", "complete"}
    BY <2>1 DEF Ticking
  <2> QED
    BY <1>2, <1>5, <2>1, <2>2, <2>3, OutstandingTracking
<1>7. ASSUME NEW j \in Jobs,
             host' = [host EXCEPT ![h].pc = "read", ![h].job = j,
                                  ![h].fence = job'[j].fence, ![h].budget = @ - 1]
      PROVE  Tracking'
  <2> DEFINE row == [host[h] EXCEPT !.pc = "read", !.job = j, !.fence = job'[j].fence,
                                    !.budget = @ - 1]
  <2>1. row.pc = "read" /\ row.put = host[h].put /\ row.config = host[h].config
    BY <1>1 DEF HostRow
  <2>2. host' = [host EXCEPT ![h] = row]
    BY <1>1, <1>7
  <2> HIDE DEF row
  <2>3. row.pc \in Ticking \ {"embed", "store", "complete"}
    BY <2>1 DEF Ticking, Working
  <2> QED
    BY <1>2, <1>5, <2>1, <2>2, <2>3, OutstandingTracking
<1> QED
  BY <1>6, <1>7, Zenon DEF Claim

\* What a tick reads and has embedded is the present version.
LEMMA ReadTracking ==
    ASSUME Typed, Tracking, NEW h \in Hosts, ReadFact(h) \/ Embed(h)
    PROVE  Tracking'
<1>1. host \in [Hosts -> HostRow] /\ host[h] \in HostRow /\ owed \subseteq Entities
  BY TypeParts
<1>2. /\ host[h].pc \in {"read", "embed"} /\ host[h].pc \in Ticking /\ host[h].pc \in Working
      /\ UNCHANGED <<content, job, state, model, vector, owed, crossed>>
  BY DEF ReadFact, Embed, Ticking, Working
<1>3. \A j \in Jobs : Outstanding(j) => Outstanding(j)'
  BY <1>2 DEF Outstanding
<1>4. ASSUME NEW pc \in {"retry", "fatal"}, host' = [host EXCEPT ![h].pc = pc]
      PROVE  Tracking'
  <2> DEFINE row == [host[h] EXCEPT !.pc = pc]
  <2>1. row.pc = pc /\ row.put = host[h].put /\ row.config = host[h].config
    BY <1>1 DEF HostRow
  <2>2. host' = [host EXCEPT ![h] = row]
    BY <1>4
  <2> HIDE DEF row
  <2>3. row.pc \in Ticking \ {"embed", "store", "complete"}
    BY <2>1 DEF Ticking, Working
  <2> QED
    BY <1>2, <1>3, <2>1, <2>2, <2>3, OutstandingTracking
<1>5. ASSUME NEW row, host' = [host EXCEPT ![h] = row],
             row.put = host[h].put, row.config = host[h].config, row.job = host[h].job,
             row.pc \in {"embed", "store"} =>
                row.seen = content[host[h].job[1]]
                \/ (host[h].pc = "embed" /\ row.seen = host[h].seen),
             row.pc = "complete" => vector[host[h].job[1]][host[h].config] = content[host[h].job[1]]
      PROVE  Tracking'
  <2>1. host'[h] = row /\ \A g \in Hosts \ {h} : host'[g] = host[g]
    BY <1>1, <1>5
  <2>2. \A e \in Entities : Counted(e)' <=> Counted(e)
    BY <1>2, <1>5, <2>1 DEF Counted, Tracked
  <2>3. \A g \in Hosts, e \in Entities : HonestAt(g, e) => HonestAt(g, e)'
    <3>1. \A e \in Entities : HonestAt(h, e) => HonestAt(h, e)'
      BY <1>2, <1>5, <2>1 DEF HonestAt
    <3>2. \A g \in Hosts \ {h}, e \in Entities : HonestAt(g, e) => HonestAt(g, e)'
      BY <1>2, <2>1 DEF HonestAt
    <3> QED
      BY <3>1, <3>2
  <2> QED
    BY <1>1, <1>2, <1>3, <2>2, <2>3, TrackingKept
<1>6. CASE host' = [host EXCEPT ![h].seen = content[host[h].job[1]],
                                ![h].pc = IF vector[host[h].job[1]][host[h].config]
                                             = content[host[h].job[1]]
                                          THEN "complete" ELSE "embed"]
  <2> DEFINE row == [host[h] EXCEPT !.seen = content[host[h].job[1]],
                                    !.pc = IF vector[host[h].job[1]][host[h].config]
                                              = content[host[h].job[1]]
                                           THEN "complete" ELSE "embed"]
  <2>1. /\ row.put = host[h].put /\ row.config = host[h].config /\ row.job = host[h].job
        /\ row.seen = content[host[h].job[1]]
        /\ row.pc = "complete" => vector[host[h].job[1]][host[h].config]
                                  = content[host[h].job[1]]
    BY <1>1 DEF HostRow
  <2>2. host' = [host EXCEPT ![h] = row]
    BY <1>1, <1>6
  <2> HIDE DEF row
  <2> QED
    BY <1>5, <2>1, <2>2
<1>7. CASE host[h].pc = "embed" /\ host' = [host EXCEPT ![h].pc = "store"]
  <2> DEFINE row == [host[h] EXCEPT !.pc = "store"]
  <2>1. /\ row.put = host[h].put /\ row.config = host[h].config /\ row.job = host[h].job
        /\ row.seen = host[h].seen /\ row.pc = "store"
    BY <1>1 DEF HostRow
  <2>2. host' = [host EXCEPT ![h] = row]
    BY <1>7
  <2> HIDE DEF row
  <2> QED
    BY <1>5, <1>7, <2>1, <2>2
<1>8. CASE ReadFact(h)
  BY <1>4, <1>6, <1>8 DEF ReadFact
<1>9. CASE Embed(h)
  BY <1>4, <1>7, <1>9, Zenon DEF Embed
<1> QED
  BY <1>8, <1>9

\* The answers of a tick: a job that is done has its fact embedded.
LEMMA AnswerTracking ==
    ASSUME Typed, Tracking, NEW h \in Hosts, Complete(h) \/ Fail(h) \/ Degrade(h)
    PROVE  Tracking'
<1>1. host \in [Hosts -> HostRow] /\ host[h] \in HostRow /\ Locals(h) /\ job \in [Jobs -> JobRow]
  BY TypeParts
<1>2. /\ UNCHANGED <<content, model, vector, owed, crossed>>
      /\ state' = state \/ state' = Degraded
      /\ host[h].pc \in Ticking
  BY DEF Complete, Fail, Degrade, Ticking, Working
<1>3. ASSUME Onward(h), \A e \in Entities : Counted(e) /\ Cared(e) => Cared(e)'
      PROVE  Tracking'
  <2>1. PICK row : /\ host' = [host EXCEPT ![h] = row]
                   /\ row.pc \in {"claim", "publish"}
                   /\ row.put = {} /\ row.config = host[h].config
    BY <1>3, OnwardRow
  <2>2. row.pc \in Ticking \ {"embed", "store", "complete"}
    BY <2>1 DEF Ticking
  <2> QED
    BY <1>2, <1>3, <2>1, <2>2, RestTracking
<1>4. ASSUME UNCHANGED job PROVE \A e \in Entities : Counted(e) /\ Cared(e) => Cared(e)'
  BY <1>2, <1>4 DEF Cared, Embedded, Outstanding
<1>5. CASE Complete(h) /\ Holds(h)
  <2>1. host[h].pc = "complete" /\ host[h].pc \in Working /\ host[h].job \in Jobs
        /\ host[h].config \in Models
    BY <1>1, <1>2, <1>5 DEF Complete, Working, Locals
  <2>2. PICK j \in Jobs : j = host[h].job
    BY <2>1
  <2>3. \A i \in Jobs \ {j} : job'[i] = job[i]
    BY <1>1, <1>5, <2>2 DEF Complete
  <2>4. ASSUME NEW e \in Entities, Counted(e), Cared(e) PROVE Cared(e)'
    <3>1. CASE e = j[1]
      <4>1. HonestAt(h, e)
        BY <2>4 DEF Tracking
      <4>2. Embedded(e)
        BY <1>2, <2>1, <2>2, <3>1, <4>1 DEF HonestAt, Embedded
      <4> QED
        BY <1>2, <4>2 DEF Cared, Embedded
    <3>2. CASE e # j[1]
      <4>1. \A op \in Operations : job'[<<e, op>>] = job[<<e, op>>]
        BY <2>3, <3>2 DEF Jobs
      <4> QED
        BY <1>2, <2>4, <4>1 DEF Cared, Embedded, Outstanding
    <3> QED
      BY <3>1, <3>2
  <2> QED
    BY <1>3, <1>5, <2>4 DEF Complete
<1>6. CASE Complete(h) /\ ~Holds(h)
  BY <1>3, <1>4, <1>6 DEF Complete
<1>7. CASE Fail(h) /\ ~Holds(h)
  BY <1>3, <1>4, <1>7 DEF Fail
<1>8. CASE Fail(h) /\ Holds(h)
  <2>1. PICK j \in Jobs : j = host[h].job
    BY <1>1, <1>8 DEF Fail, Locals, Working
  <2>2. \A i \in Jobs : job'[i] = job[i] \/ job'[i].status = "failed"
    <3>1. \A due \in {"now", "later", "never"} :
            [job[j] EXCEPT !.status = "failed", !.expired = FALSE, !.due = due].status = "failed"
      BY <1>1 DEF JobRow
    <3>2. job' = [job EXCEPT ![j] = [@ EXCEPT !.status = "failed", !.expired = FALSE,
                                      !.due = IF host[h].pc = "retry" THEN "later" ELSE "never"]]
      BY <1>8, <2>1 DEF Fail
    <3> QED
      BY <1>1, <3>1, <3>2
  <2>3. \A i \in Jobs : Outstanding(i) => Outstanding(i)'
    BY <2>2 DEF Outstanding
  <2> DEFINE row == [host[h] EXCEPT !.pc = "degrade"]
  <2>4. row.pc = "degrade" /\ row.put = host[h].put /\ row.config = host[h].config
    BY <1>1 DEF HostRow
  <2>5. host' = [host EXCEPT ![h] = row]
    BY <1>8 DEF Fail
  <2> HIDE DEF row
  <2>6. row.pc \in Ticking \ {"embed", "store", "complete"}
    BY <2>4 DEF Ticking
  <2> QED
    BY <1>2, <2>3, <2>4, <2>5, <2>6, OutstandingTracking
<1>9. CASE Degrade(h)
  BY <1>3, <1>4, <1>9 DEF Degrade
<1> QED
  BY <1>5, <1>6, <1>7, <1>8, <1>9
\* The mark after an enqueue loop: what the loop put is owed from here on, and
\* neither row is ready.
LEMMA MarkTracking ==
    ASSUME Typed, Tracking, NEW h \in Hosts, MarkEnqueued(h)
    PROVE  Tracking'
<1>1. /\ host \in [Hosts -> HostRow] /\ host[h] \in HostRow /\ owed \subseteq Entities
      /\ Locals(h)
  BY TypeParts
<1>2. /\ host' = [host EXCEPT ![h] = Idle]
      /\ owed' = owed \cup host[h].put
      /\ UNCHANGED <<content, job, model, vector, crossed>>
  BY Zenon DEF MarkEnqueued
<1>3. host'[h] = Idle /\ \A g \in Hosts \ {h} : host'[g] = host[g]
  BY <1>1, <1>2
<1>4. host'[h].pc \notin Ticking /\ host'[h].put = {}
  BY <1>3, IdleFields DEF Ticking, Working
<1>5. \A e \in Entities : Counted(e)' => Counted(e)
  BY <1>2, <1>3, <1>4 DEF Counted, Tracked
<1>6. \A g \in Hosts, e \in Entities : HonestAt(g, e) => HonestAt(g, e)'
  BY <1>2, <1>3, <1>4, HonestRest
<1>7. \A j \in Jobs : Outstanding(j) => Outstanding(j)'
  BY <1>2 DEF Outstanding
<1>8. \A p \in Projections : state'[p].lifecycle = "ready" => state[p].lifecycle = "ready"
  BY DEF MarkEnqueued, Degraded
<1>9. \/ owed' \ crossed' \subseteq owed \ crossed
      \/ \A p \in Projections : state'[p].lifecycle # "ready"
  <2>1. CASE host[h].put = {}
    BY <1>2, <2>1
  <2>2. CASE host[h].put # {}
    <3>1. state' = Degraded
      BY <1>1, <2>2 DEF MarkEnqueued, Locals
    <3> QED
      BY <3>1 DEF Degraded
  <2> QED
    BY <2>1, <2>2
<1>10. owed' \subseteq Entities
  BY <1>1, <1>2 DEF HostRow
<1> QED
  BY <1>2, <1>5, <1>6, <1>7, <1>8, <1>9, <1>10, TrackingKept

\* A generation is published over a quiet queue: what is cared for without a
\* job is embedded.
LEMMA PublishTracking ==
    ASSUME Typed, Tracking, NEW h \in Hosts, Publish(h)
    PROVE  Tracking'
<1>1. host \in [Hosts -> HostRow] /\ host[h] \in HostRow /\ owed \subseteq Entities
  BY TypeParts
<1>2. /\ host' = [host EXCEPT ![h] = Idle]
      /\ UNCHANGED <<content, job, model, vector, owed, crossed>>
      /\ state' = state \/ Quiet
  BY DEF Publish
<1>3. host'[h] = Idle /\ \A g \in Hosts \ {h} : host'[g] = host[g]
  BY <1>1, <1>2
<1>4. host'[h].pc \notin Ticking /\ host'[h].put = {}
  BY <1>3, IdleFields DEF Ticking, Working
<1>5. \A e \in Entities : Counted(e)' => Counted(e)
  BY <1>2, <1>3, <1>4 DEF Counted, Tracked
<1>6. \A g \in Hosts, e \in Entities : HonestAt(g, e) => HonestAt(g, e)'
  BY <1>2, <1>3, <1>4, HonestRest
<1>7. \A e \in Entities : Cared(e)' <=> Cared(e)
  BY <1>2 DEF Cared, Embedded, Outstanding
<1>8. ReadyIsCurrent'
  <2>1. CASE state' = state
    BY <1>2, <2>1 DEF Tracking, ReadyIsCurrent, Embedded, Row
  <2>2. CASE Quiet
    <3>1. ASSUME NEW e \in owed \ crossed PROVE Embedded(e)
      <4>1. e \in Entities /\ Cared(e)
        BY <1>1, <3>1 DEF Tracking, Counted, Tracked
      <4> QED
        BY <2>2, <4>1 DEF Cared, Quiet, Jobs
    <3> QED
      BY <1>2, <3>1 DEF ReadyIsCurrent, Embedded
  <2> QED
    BY <1>2, <2>1, <2>2
<1> QED
  BY <1>5, <1>6, <1>7, <1>8 DEF Tracking

\* Only a job that is done is deleted, and time passes over the others.
LEMMA WorldTracking ==
    ASSUME Typed, Tracking, NEW j \in Jobs,
           \/ \E h \in Hosts : Cleanup(h, j)
           \/ ExpireLease(j) \/ EndPause(j)
    PROVE  Tracking'
<1>1. job \in [Jobs -> JobRow] /\ owed \subseteq Entities
  BY TypeParts
<1>2. UNCHANGED <<content, state, model, vector, host, owed, crossed>>
  BY Zenon DEF Cleanup, ExpireLease, EndPause
<1>3. \A i \in Jobs : Outstanding(i) => Outstanding(i)'
  <2>1. \A row \in JobRow : /\ [row EXCEPT !.expired = TRUE].status = row.status
                            /\ [row EXCEPT !.due = "now"].status = row.status
    BY DEF JobRow
  <2>2. ASSUME ExpireLease(j) \/ EndPause(j) PROVE \A i \in Jobs : job'[i].status = job[i].status
    BY <1>1, <2>1, <2>2 DEF ExpireLease, EndPause
  <2>3. ASSUME NEW h \in Hosts, Cleanup(h, j)
        PROVE  ~Outstanding(j) /\ \A i \in Jobs \ {j} : job'[i] = job[i]
    BY <1>1, <2>3 DEF Cleanup, Outstanding
  <2> QED
    BY <2>2, <2>3 DEF Outstanding
<1>4. \A e \in Entities : Counted(e)' => Counted(e)
  BY <1>2 DEF Counted, Tracked
<1>5. \A g \in Hosts, e \in Entities : HonestAt(g, e) => HonestAt(g, e)'
  BY <1>2, HonestRest
<1> QED
  BY <1>1, <1>2, <1>3, <1>4, <1>5, TrackingKept

LEMMA TrackingNext ==
    ASSUME Typed, Tracking, [Next]_vars
    PROVE  Tracking'
<1>1. CASE UNCHANGED vars
  BY <1>1 DEF vars, Tracking, ReadyIsCurrent, Counted, Tracked, Cared, Embedded,
              Outstanding, HonestAt, Row
<1>2. ASSUME NEW h \in Hosts, HostStep(h) PROVE Tracking'
  BY <1>2, EnqueueOneTracking, MarkTracking, CallsTracking, ClaimTracking, ReadTracking,
     StoreTracking, AnswerTracking, PublishTracking, Zenon DEF HostStep
<1>3. ASSUME NEW h \in Hosts, StatementFails(h) \/ Crash(h) \/ Restart(h)
      PROVE  Tracking'
  BY <1>3, CallsTracking
<1>4. ASSUME NEW h \in Hosts, NEW e \in Entities, Edit(h, e) PROVE Tracking'
  BY <1>4, EditTracking
<1>5. ASSUME NEW h \in Hosts, NEW op \in Operations, Enqueue(h, op) PROVE Tracking'
  BY <1>5, CallsTracking
<1>6. ASSUME NEW h \in Hosts, NEW m \in Models, Configure(h, m) PROVE Tracking'
  BY <1>6, ConfigureTracking
<1>7. ASSUME NEW j \in Jobs,
             (\E h \in Hosts : Cleanup(h, j)) \/ ExpireLease(j) \/ EndPause(j)
      PROVE  Tracking'
  BY <1>7, WorldTracking
<1> QED
  BY <1>1, <1>2, <1>3, <1>4, <1>5, <1>6, <1>7, Zenon DEF Next

LEMMA TrackingInit == Init => Tracking
BY IdleFields DEF Init, Tracking, Counted, Tracked, ReadyIsCurrent

\* No fact that was queued is forgotten, whatever fails and whoever crashes.
THEOREM NothingIsForgottenEver == Spec => []NothingIsForgotten
<1>1. Typed /\ Tracking => NothingIsForgotten
  BY TypeParts DEF Tracking, Counted, Tracked, Cared, NothingIsForgotten
<1> QED
  BY <1>1, QueueInitTyped, QueueNextTyped, TrackingInit, TrackingNext, PTL DEF Spec

\* A published generation serves no vector of an older text.
THEOREM PublishedIsCurrent == Spec => []ReadyIsCurrent
<1>1. Tracking => ReadyIsCurrent
  BY DEF Tracking
<1> QED
  BY <1>1, QueueInitTyped, QueueNextTyped, TrackingInit, TrackingNext, PTL DEF Spec
(***************************************************************************)
(* The queue implements a fenced queue.  What a step does to the claims is *)
(* seen in two places: the phase of each row, and whose claim it bears.    *)
(***************************************************************************)

\* h works on what it worked on.
KeepsClaim(h) ==
    /\ host'[h].pc \in Working <=> host[h].pc \in Working
    /\ host[h].pc \in Working => host'[h].job = host[h].job /\ host'[h].fence = host[h].fence

\* The claim on j that is in force, if any, is as it was.
KeepsRow(j) ==
    /\ job'[j].status = "running" <=> job[j].status = "running"
    /\ job[j].status = "running" => job'[j].fence = job[j].fence

LEMMA OnlyClaimant ==
    ASSUME NEW S, NEW h \in S, \A g \in S : g = h
    PROVE  (CHOOSE g \in S : TRUE) = h
OBVIOUS

\* At most one host bears the claim that is in force.
LEMMA OneClaimant ==
    ASSUME ClaimsAreUnique, NEW j \in Jobs, NEW h \in LastClaimant(j)
    PROVE  Holder(j) = h
<1>1. \A g \in LastClaimant(j) : g = h
  BY DEF LastClaimant, ClaimsAreUnique
<1>2. LastClaimant(j) # {}
  OBVIOUS
<1>3. (CHOOSE g \in LastClaimant(j) : TRUE) = h
  BY <1>1, OnlyClaimant
<1> QED
  BY <1>2, <1>3, Zenon DEF Holder

LEMMA OneClaimantNext ==
    ASSUME ClaimsAreUnique', NEW j \in Jobs, NEW h \in LastClaimant(j)'
    PROVE  Holder(j)' = h
<1>1. \A g \in LastClaimant(j)' : g = h
  BY DEF LastClaimant, ClaimsAreUnique
<1>2. LastClaimant(j)' # {}
  OBVIOUS
<1>3. (CHOOSE g \in LastClaimant(j)' : TRUE) = h
  BY <1>1, OnlyClaimant
<1> QED
  BY <1>2, <1>3, Zenon DEF Holder

LEMMA NoClaimant ==
    ASSUME NEW j \in Jobs
    PROVE  /\ LastClaimant(j) = {} => Holder(j) = NULL
           /\ LastClaimant(j)' = {} => Holder(j)' = NULL
BY Zenon DEF Holder

LEMMA HolderKept ==
    ASSUME ClaimsAreUnique, ClaimsAreUnique', NEW j \in Jobs,
           LastClaimant(j)' = LastClaimant(j)
    PROVE  Holder(j)' = Holder(j)
<1>1. CASE LastClaimant(j) = {}
  BY <1>1, NoClaimant
<1>2. ASSUME NEW h \in LastClaimant(j) PROVE Holder(j)' = Holder(j)
  BY <1>2, OneClaimant, OneClaimantNext
<1> QED
  BY <1>1, <1>2

\* A host that holds a claim bears it.
LEMMA HolderBears ==
    ASSUME NEW j \in Jobs, NEW h \in Hosts, Holder(j) = h
    PROVE  h \in LastClaimant(j)
<1>1. LastClaimant(j) # {}
  <2>1. NULL \notin Hosts
    OBVIOUS
  <2> QED
    BY <2>1, NoClaimant
<1>2. (CHOOSE g \in LastClaimant(j) : TRUE) \in LastClaimant(j)
  BY <1>1
<1> QED
  BY <1>1, <1>2, Zenon DEF Holder

LEMMA ClaimKept ==
    ASSUME ClaimsAreUnique, ClaimsAreUnique', NEW j \in Jobs, KeepsRow(j), \A h \in Hosts : KeepsClaim(h)
    PROVE  Holder(j)' = Holder(j)
<1>1. LastClaimant(j)' = LastClaimant(j)
  BY DEF LastClaimant, KeepsRow, KeepsClaim
<1> QED
  BY <1>1, HolderKept

LEMMA FencedStutter ==
    ASSUME \A j \in Jobs : Phase(job'[j]) = Phase(job[j]) /\ Holder(j)' = Holder(j)
    PROVE  UNCHANGED Fenced!fvars
BY DEF Fenced!fvars

\* The hosts' claims are as they were, and one row was enqueued.
LEMMA EnqueuedMaps ==
    ASSUME Typed, ClaimsAreUnique, ClaimsAreUnique', NEW j \in Jobs, NEW op \in Operations,
           job' = [job EXCEPT ![j] = Enqueued(job[j], op)],
           \A h \in Hosts : KeepsClaim(h)
    PROVE  [Fenced!Next]_(Fenced!fvars)
<1>1. job \in [Jobs -> JobRow] /\ job[j] \in JobRow
  BY TypeParts
<1>2. \A k \in Jobs \ {j} : Phase(job'[k]) = Phase(job[k]) /\ Holder(k)' = Holder(k)
  BY <1>1, ClaimKept DEF KeepsRow
<1>3. job'[j] = Enqueued(job[j], op)
  BY <1>1
<1>4. CASE op # "rebuild" /\ job[j].status \in {"pending", "running", "failed"}
  <2>1. job'[j] = [job[j] EXCEPT !.status = job[j].status, !.due = "now"]
    BY <1>3, <1>4 DEF Enqueued
  <2>2. job'[j].status = job[j].status /\ job'[j].fence = job[j].fence
    BY <1>1, <2>1 DEF JobRow
  <2>3. Phase(job'[j]) = Phase(job[j]) /\ KeepsRow(j)
    BY <2>2 DEF Phase, KeepsRow
  <2> QED
    BY <1>2, <2>3, ClaimKept, FencedStutter
<1>5. CASE op = "rebuild" \/ job[j].status \in {"none", "done"}
  <2>1. job'[j].status = "pending"
    <3>1. CASE op = "rebuild" \/ job[j].status = "none"
      BY <1>3, <3>1 DEF Enqueued
    <3>2. CASE op # "rebuild" /\ job[j].status = "done"
      <4>1. job'[j] = [job[j] EXCEPT !.status = "pending", !.due = "now"]
        BY <1>3, <3>2 DEF Enqueued
      <4> QED
        BY <1>1, <4>1 DEF JobRow
    <3> QED
      BY <1>5, <3>1, <3>2
  <2>2. Phase(job'[j]) = "queued"
    BY <2>1 DEF Phase
  <2>3. Holder(j)' = NULL
    <3>1. LastClaimant(j)' = {}
      BY <2>1 DEF LastClaimant
    <3> QED
      BY <3>1, NoClaimant
  <2>4. Fenced!Put(j)
    BY <1>2, <2>2, <2>3 DEF Fenced!Put
  <2> QED
    BY <2>4 DEF Fenced!Next
<1> QED
  BY <1>1, <1>4, <1>5 DEF JobRow, Operations

\* No row changes, and one host at most stops working.
LEMMA GivingUpMaps ==
    ASSUME Typed, ClaimsAreUnique, ClaimsAreUnique', UNCHANGED job, NEW h \in Hosts,
           \A g \in Hosts \ {h} : KeepsClaim(g),
           KeepsClaim(h) \/ host'[h].pc \notin Working
    PROVE  [Fenced!Next]_(Fenced!fvars)
<1>1. \A j \in Jobs : Phase(job'[j]) = Phase(job[j])
  OBVIOUS
<1>2. CASE KeepsClaim(h)
  <2>1. \A j \in Jobs : Holder(j)' = Holder(j)
    BY <1>2, ClaimKept DEF KeepsRow
  <2> QED
    BY <1>1, <2>1, FencedStutter
<1>3. CASE host'[h].pc \notin Working
  <2>1. \A j \in Jobs : LastClaimant(j)' = LastClaimant(j) \ {h}
    BY <1>3 DEF LastClaimant, KeepsClaim
  <2>2. CASE \A j \in Jobs : h \notin LastClaimant(j)
    <3>1. \A j \in Jobs : Holder(j)' = Holder(j)
      BY <2>1, <2>2, HolderKept
    <3> QED
      BY <1>1, <3>1, FencedStutter
  <2>3. ASSUME NEW j \in Jobs, h \in LastClaimant(j) PROVE Fenced!Lose(j)
    <3>1. Phase(job[j]) = "leased"
      BY <2>3 DEF LastClaimant, Phase
    <3>2. Holder(j)' = NULL
      <4>1. LastClaimant(j)' = {}
        BY <2>1, <2>3 DEF LastClaimant, ClaimsAreUnique
      <4> QED
        BY <4>1, NoClaimant
    <3>3. \A k \in Jobs \ {j} : Holder(k)' = Holder(k)
      BY <2>1, <2>3, HolderKept DEF LastClaimant
    <3> QED
      BY <1>1, <3>1, <3>2, <3>3 DEF Fenced!Lose
  <2> QED
    BY <2>2, <2>3 DEF Fenced!Next
<1> QED
  BY <1>2, <1>3

\* The worker whose claim is in force answers.
LEMMA AnswerMaps ==
    ASSUME Typed, ClaimsAreUnique, ClaimsAreUnique', NEW h \in Hosts, Complete(h) \/ Fail(h)
    PROVE  [Fenced!Next]_(Fenced!fvars)
<1>1. /\ host \in [Hosts -> HostRow] /\ job \in [Jobs -> JobRow] /\ Locals(h)
  BY TypeParts
<1>2. host[h].pc \in Working /\ host[h].job \in Jobs
  BY <1>1 DEF Complete, Fail, Working, Locals
<1>3. /\ \A g \in Hosts \ {h} : host'[g] = host[g]
      /\ host'[h].pc \notin Working
  <2>1. CASE Onward(h)
    BY <1>1, <2>1, OnwardRow DEF Working
  <2>2. CASE host' = [host EXCEPT ![h].pc = "degrade"]
    <3>1. [host[h] EXCEPT !.pc = "degrade"].pc = "degrade"
      BY <1>1 DEF HostRow
    <3> QED
      BY <1>1, <2>2, <3>1 DEF Working
  <2> QED
    BY <2>1, <2>2 DEF Complete, Fail
<1>4. \A g \in Hosts \ {h} : KeepsClaim(g)
  BY <1>3 DEF KeepsClaim
<1>5. CASE ~Holds(h)
  <2>1. UNCHANGED job
    BY <1>5 DEF Complete, Fail
  <2> QED
    BY <1>3, <1>4, <2>1, GivingUpMaps
<1>6. CASE Holds(h)
  <2>1. PICK j \in Jobs : j = host[h].job
    BY <1>2
  <2>2. h \in LastClaimant(j)
    BY <1>2, <1>6, <2>1 DEF LastClaimant, Holds
  <2>3. /\ job'[j].status \in {"done", "failed"}
        /\ \A k \in Jobs \ {j} : job'[k] = job[k]
    <3>1. \A row \in JobRow, due \in {"now", "later", "never"} :
            /\ [row EXCEPT !.status = "done", !.due = "now", !.expired = FALSE].status = "done"
            /\ [row EXCEPT !.status = "failed", !.expired = FALSE, !.due = due].status = "failed"
      BY DEF JobRow
    <3>2. CASE Complete(h)
      BY <1>1, <1>6, <2>1, <3>1, <3>2 DEF Complete
    <3>3. CASE Fail(h)
      <4>1. PICK due \in {"now", "later", "never"} : due = IF host[h].pc = "retry" THEN "later" ELSE "never"
        OBVIOUS
      <4>2. job' = [job EXCEPT ![j] = [@ EXCEPT !.status = "failed", !.expired = FALSE,
                                                !.due = due]]
        BY <1>6, <2>1, <3>3, <4>1 DEF Fail
      <4> QED
        BY <1>1, <3>1, <4>2
    <3> QED
      BY <3>2, <3>3
  <2>4. Phase(job'[j]) \in {"done", "queued"} /\ Holder(j)' = NULL
    <3>1. LastClaimant(j)' = {}
      BY <2>3 DEF LastClaimant
    <3> QED
      BY <2>3, <3>1, NoClaimant DEF Phase
  <2>5. \A k \in Jobs \ {j} : Phase(job'[k]) = Phase(job[k]) /\ Holder(k)' = Holder(k)
    <3>1. \A k \in Jobs \ {j} : LastClaimant(k)' = LastClaimant(k)
      BY <1>3, <1>4, <2>1, <2>3 DEF LastClaimant, KeepsClaim
    <3> QED
      BY <2>3, <3>1, HolderKept
  <2>6. Holder(j) = h
    BY <2>2, OneClaimant
  <2>7. [k \in Jobs |-> Phase(job[k])]'
        = [[k \in Jobs |-> Phase(job[k])] EXCEPT ![j] = Phase(job'[j])]
    BY <2>5
  <2>8. [k \in Jobs |-> Holder(k)]' = [[k \in Jobs |-> Holder(k)] EXCEPT ![j] = NULL]
    BY <2>4, <2>5
  <2>9. Fenced!Answer(h, j)
    BY <2>4, <2>6, <2>7, <2>8 DEF Fenced!Answer
  <2> QED
    BY <2>9 DEF Fenced!Next
<1> QED
  BY <1>5, <1>6

\* A claim takes one job and puts back those nobody answered for.
LEMMA ClaimMaps ==
    ASSUME Typed, Typed', ClaimsAreUnique, ClaimsAreUnique', NEW h \in Hosts, Claim(h)
    PROVE  [Fenced!Next]_(Fenced!fvars)
<1>1. /\ host \in [Hosts -> HostRow] /\ job \in [Jobs -> JobRow] /\ host[h] \in HostRow
      /\ job' \in [Jobs -> JobRow]
  BY TypeParts DEF Typed, TypeOK
<1>2. host[h].pc = "claim" /\ host[h].pc \notin Working
  BY DEF Claim, Working
<1> DEFINE abandoned == {k \in Jobs : Spent(job[k])}
<1>3. \A k \in Jobs : h \notin LastClaimant(k) /\ Holder(k) # h
  BY <1>2, HolderBears DEF LastClaimant
<1>4. \A k \in abandoned : Phase(job[k]) = "leased"
  BY DEF Spent, Phase
<1>5. ASSUME NEW k \in Jobs, job'[k] = Swept(job[k]),
             \A g \in Hosts \ {h} : host'[g] = host[g],
             host'[h].pc \notin Working \/ host'[h].job # k
      PROVE  /\ k \in abandoned => Phase(job'[k]) = "queued" /\ Holder(k)' = NULL
             /\ k \notin abandoned => Phase(job'[k]) = Phase(job[k]) /\ Holder(k)' = Holder(k)
  <2>1. CASE k \in abandoned
    <3>1. job'[k].status = "failed"
      BY <1>1, <1>5, <2>1 DEF Swept, JobRow
    <3>2. LastClaimant(k)' = {}
      BY <3>1 DEF LastClaimant
    <3> QED
      BY <2>1, <3>1, <3>2, NoClaimant DEF Phase
  <2>2. CASE k \notin abandoned
    <3>1. job'[k] = job[k]
      BY <1>5, <2>2 DEF Swept
    <3>2. LastClaimant(k)' = LastClaimant(k)
      BY <1>3, <1>5, <3>1 DEF LastClaimant
    <3> QED
      BY <2>2, <3>1, <3>2, HolderKept
  <2> QED
    BY <2>1, <2>2
<1>6. CASE /\ job' = [i \in Jobs |-> Swept(job[i])]
           /\ host' = [host EXCEPT ![h].pc = "publish"]
  <2>1. [host[h] EXCEPT !.pc = "publish"].pc = "publish"
    BY <1>1 DEF HostRow
  <2>2. host'[h].pc \notin Working /\ \A g \in Hosts \ {h} : host'[g] = host[g]
    BY <1>1, <1>6, <2>1 DEF Working
  <2>3. \A k \in Jobs : job'[k] = Swept(job[k])
    BY <1>6
  <2>5. abandoned \in SUBSET Jobs
    OBVIOUS
  <2> HIDE DEF abandoned
  <2>6. \A k \in Jobs :
          /\ Phase(job'[k]) = IF k \in abandoned THEN "queued" ELSE Phase(job[k])
          /\ Holder(k)' = IF k \in abandoned THEN NULL ELSE Holder(k)
    BY <1>5, <2>2, <2>3
  <2>4. Fenced!PutBack(abandoned)
    BY <1>4, <2>5, <2>6 DEF Fenced!PutBack
  <2> QED
    BY <2>4, <2>5 DEF Fenced!Next
<1>7. ASSUME NEW j \in Jobs, Claimable(job[j]),
             job' = [i \in Jobs |-> IF i = j THEN Claimed(job[i]) ELSE Swept(job[i])],
             host' = [host EXCEPT ![h].pc = "read", ![h].job = j,
                                  ![h].fence = job'[j].fence, ![h].budget = @ - 1]
      PROVE  \E some \in SUBSET Jobs : Fenced!Take(h, j, some)
  <2> DEFINE row == [host[h] EXCEPT !.pc = "read", !.job = j, !.fence = job'[j].fence,
                                    !.budget = @ - 1]
  <2>1. row.pc = "read" /\ row.job = j /\ row.fence = job'[j].fence
    BY <1>1 DEF HostRow
  <2>2. host'[h] = row /\ \A g \in Hosts \ {h} : host'[g] = host[g]
    BY <1>1, <1>7
  <2> HIDE DEF row
  <2>3. \A k \in Jobs \ {j} : job'[k] = Swept(job[k])
    BY <1>7
  <2>4. \A k \in Jobs \ {j} :
          /\ k \in abandoned => Phase(job'[k]) = "queued" /\ Holder(k)' = NULL
          /\ k \notin abandoned => Phase(job'[k]) = Phase(job[k]) /\ Holder(k)' = Holder(k)
    BY <1>5, <2>1, <2>2, <2>3
  <2>5. job'[j].status = "running"
    BY <1>7 DEF Claimed
  <2>6. Phase(job'[j]) = "leased" /\ Holder(j)' = h
    <3>1. h \in LastClaimant(j)'
      BY <2>1, <2>2, <2>5 DEF LastClaimant, Working
    <3> QED
      BY <2>5, <3>1, OneClaimantNext DEF Phase
  <2>7. Phase(job[j]) \in {"queued", "leased"}
    BY <1>7 DEF Claimable, Phase
  <2>8. j \notin abandoned
    <3>1. job[j] \in JobRow /\ job[j].attempts \in Nat
      BY <1>1 DEF JobRow
    <3> QED
      BY <1>7, <3>1 DEF Claimable, Spent
  <2>9. abandoned \in SUBSET Jobs
    OBVIOUS
  <2> HIDE DEF abandoned
  <2>10. Fenced!Take(h, j, abandoned)
    BY <1>3, <1>4, <2>4, <2>6, <2>7, <2>8, <2>9 DEF Fenced!Take
  <2> QED
    BY <2>9, <2>10
<1>8. CASE \E j \in Jobs :
             /\ Claimable(job[j])
             /\ job' = [i \in Jobs |-> IF i = j THEN Claimed(job[i]) ELSE Swept(job[i])]
             /\ host' = [host EXCEPT ![h].pc = "read", ![h].job = j,
                                     ![h].fence = job'[j].fence, ![h].budget = @ - 1]
  BY <1>7, <1>8, Zenon DEF Fenced!Next
<1> QED
  BY <1>6, <1>8 DEF Claim

\* The world: time passes and jobs that are done are deleted.
LEMMA WorldMaps ==
    ASSUME Typed, ClaimsAreUnique, ClaimsAreUnique', NEW j \in Jobs,
           \/ \E h \in Hosts : Cleanup(h, j)
           \/ ExpireLease(j) \/ EndPause(j)
    PROVE  [Fenced!Next]_(Fenced!fvars)
<1>1. job \in [Jobs -> JobRow] /\ host \in [Hosts -> HostRow]
  BY TypeParts
<1>2. UNCHANGED host
  BY Zenon DEF Cleanup, ExpireLease, EndPause
<1>3. \A h \in Hosts : KeepsClaim(h)
  BY <1>2 DEF KeepsClaim
<1>4. CASE ExpireLease(j) \/ EndPause(j)
  <2>1. \A row \in JobRow :
          /\ [row EXCEPT !.expired = TRUE].status = row.status
          /\ [row EXCEPT !.expired = TRUE].fence = row.fence
          /\ [row EXCEPT !.due = "now"].status = row.status
          /\ [row EXCEPT !.due = "now"].fence = row.fence
    BY DEF JobRow
  <2>2. \A i \in Jobs : job'[i].status = job[i].status /\ job'[i].fence = job[i].fence
    <3>1. ASSUME NEW row, job' = [job EXCEPT ![j] = row],
                 row.status = job[j].status, row.fence = job[j].fence
          PROVE  \A i \in Jobs : job'[i].status = job[i].status /\ job'[i].fence = job[i].fence
      BY <1>1, <3>1
    <3>2. CASE job' = [job EXCEPT ![j] = [job[j] EXCEPT !.expired = TRUE]]
      BY <1>1, <2>1, <3>1, <3>2
    <3>3. CASE job' = [job EXCEPT ![j] = [job[j] EXCEPT !.due = "now"]]
      BY <1>1, <2>1, <3>1, <3>3
    <3> QED
      BY <1>4, <3>2, <3>3 DEF ExpireLease, EndPause
  <2>3. \A i \in Jobs : Phase(job'[i]) = Phase(job[i]) /\ Holder(i)' = Holder(i)
    BY <1>3, <2>2, ClaimKept DEF Phase, KeepsRow
  <2> QED
    BY <2>3, FencedStutter
<1>5. ASSUME NEW h \in Hosts, Cleanup(h, j) PROVE Fenced!Forget(j)
  <2>1. job[j].status = "done" /\ job'[j].status = "none"
        /\ \A k \in Jobs \ {j} : job'[k] = job[k]
    BY <1>1, <1>5 DEF Cleanup, NoJob
  <2>2. \A k \in Jobs : KeepsRow(k)
    BY <2>1 DEF KeepsRow
  <2>3. \A k \in Jobs : Holder(k)' = Holder(k)
    BY <1>3, <2>2, ClaimKept
  <2>4. /\ Phase(job[j]) = "done" /\ Phase(job'[j]) = "none"
        /\ \A k \in Jobs \ {j} : Phase(job'[k]) = Phase(job[k])
    BY <2>1 DEF Phase
  <2> QED
    BY <2>3, <2>4 DEF Fenced!Forget
<1> QED
  BY <1>4, <1>5 DEF Fenced!Next

\* The enqueuing of a write, and of one turn of an enqueue loop.
LEMMA WriteMaps ==
    ASSUME Typed, ClaimsAreUnique, ClaimsAreUnique', NEW h \in Hosts,
           (\E e \in Entities : Edit(h, e)) \/ EnqueueOne(h)
    PROVE  [Fenced!Next]_(Fenced!fvars)
<1>1. host \in [Hosts -> HostRow] /\ host[h] \in HostRow
  BY TypeParts
<1>2. ASSUME NEW e \in Entities, Edit(h, e) PROVE [Fenced!Next]_(Fenced!fvars)
  <2>1. <<e, "upsert">> \in Jobs /\ "upsert" \in Operations
    BY DEF Jobs, Operations
  <2>2. job' = [job EXCEPT ![<<e, "upsert">>] = Enqueued(job[<<e, "upsert">>], "upsert")]
        /\ UNCHANGED host
    BY <1>2 DEF Edit
  <2>3. \A g \in Hosts : KeepsClaim(g)
    BY <2>2 DEF KeepsClaim
  <2> QED
    BY <2>1, <2>2, <2>3, EnqueuedMaps
<1>3. ASSUME NEW e \in host[h].todo, host[h].pc = "enqueue",
             job' = [job EXCEPT ![<<e, host[h].op>>] = Enqueued(@, host[h].op)],
             host' = [host EXCEPT ![h].todo = @ \ {e}, ![h].any = TRUE, ![h].put = @ \cup {e}]
      PROVE  [Fenced!Next]_(Fenced!fvars)
  <2>1. PICK op \in Operations : op = host[h].op
    BY <1>1 DEF HostRow
  <2>2. <<e, op>> \in Jobs
    BY <1>1 DEF HostRow, Jobs
  <2>3. job' = [job EXCEPT ![<<e, op>>] = Enqueued(job[<<e, op>>], op)]
    BY <1>3, <2>1
  <2>4. [host[h] EXCEPT !.todo = @ \ {e}, !.any = TRUE, !.put = @ \cup {e}].pc = "enqueue"
    BY <1>1, <1>3 DEF HostRow
  <2>5. \A g \in Hosts : KeepsClaim(g)
    BY <1>1, <1>3, <2>4 DEF KeepsClaim, Working
  <2> QED
    BY <2>1, <2>2, <2>3, <2>5, EnqueuedMaps
<1>4. CASE host[h].pc = "enqueue" /\ host' = [host EXCEPT ![h].pc = "mark"] /\ UNCHANGED job
  <2>1. [host[h] EXCEPT !.pc = "mark"].pc = "mark"
    BY <1>1 DEF HostRow
  <2>2. \A g \in Hosts : KeepsClaim(g)
    BY <1>1, <1>4, <2>1 DEF KeepsClaim, Working
  <2> QED
    BY <1>4, <2>2, GivingUpMaps
<1>5. host[h].pc = "enqueue" \/ ~EnqueueOne(h)
  BY DEF EnqueueOne
<1> QED
  BY <1>2, <1>3, <1>4, <1>5, Zenon DEF EnqueueOne

\* A call that starts or ends, and a host that crashes or comes back.
LEMMA CallMaps ==
    ASSUME Typed, ClaimsAreUnique, ClaimsAreUnique', NEW h \in Hosts,
           \/ \E op \in Operations : Enqueue(h, op)
           \/ \E m \in Models : Configure(h, m)
           \/ MarkEnqueued(h) \/ StartTick(h) \/ Degrade(h) \/ Publish(h)
           \/ StatementFails(h) \/ Crash(h) \/ Restart(h)
    PROVE  [Fenced!Next]_(Fenced!fvars)
<1>1. host \in [Hosts -> HostRow]
  BY TypeParts
<1>2. UNCHANGED job
  BY Zenon DEF Enqueue, Configure, MarkEnqueued, StartTick, Degrade, Publish,
               StatementFails, Crash, Restart
<1>3. ASSUME NEW m \in Models, Configure(h, m) PROVE [Fenced!Next]_(Fenced!fvars)
  <2>1. \A row \in HostRow : /\ [row EXCEPT !.put = {}].pc = row.pc
                             /\ [row EXCEPT !.put = {}].job = row.job
                             /\ [row EXCEPT !.put = {}].fence = row.fence
    BY DEF HostRow
  <2>2. \A g \in Hosts : KeepsClaim(g)
    BY <1>1, <1>3, <2>1 DEF Configure, KeepsClaim
  <2> QED
    BY <1>2, <2>2, GivingUpMaps
<1>4. ASSUME NEW row, host' = [host EXCEPT ![h] = row], row.pc \notin Working
      PROVE  [Fenced!Next]_(Fenced!fvars)
  <2>1. host'[h] = row /\ \A g \in Hosts \ {h} : KeepsClaim(g)
    BY <1>1, <1>4 DEF KeepsClaim
  <2> QED
    BY <1>2, <1>4, <2>1, GivingUpMaps
<1>5. CASE MarkEnqueued(h) \/ Publish(h) \/ StatementFails(h) \/ Crash(h) \/ Restart(h)
  <2>1. \E row \in {Idle, Off} : host' = [host EXCEPT ![h] = row]
    BY <1>5 DEF MarkEnqueued, Publish, StatementFails, Crash, Restart
  <2> QED
    BY <1>4, <2>1, IdleFields DEF Working
<1>6. ASSUME NEW op \in Operations, Enqueue(h, op) PROVE [Fenced!Next]_(Fenced!fvars)
  <2> DEFINE row == [Idle EXCEPT !.pc = "enqueue", !.op = op,
                                 !.todo = {e \in Entities : content[e] > 0}]
  <2>1. row.pc \notin Working /\ host' = [host EXCEPT ![h] = row]
    BY <1>6 DEF Enqueue, Idle, Working
  <2> HIDE DEF row
  <2> QED
    BY <1>4, <2>1
<1>7. CASE StartTick(h)
  <2> DEFINE row == [Idle EXCEPT !.pc = "claim", !.config = model, !.budget = TickJobs]
  <2>1. row.pc \notin Working /\ host' = [host EXCEPT ![h] = row]
    BY <1>7 DEF StartTick, Idle, Working
  <2> HIDE DEF row
  <2> QED
    BY <1>4, <2>1
<1>8. CASE Degrade(h)
  <2>1. PICK row : host' = [host EXCEPT ![h] = row] /\ row.pc \in {"claim", "publish"}
    BY <1>8, OnwardRow DEF Degrade
  <2> QED
    BY <1>4, <2>1 DEF Working
<1> QED
  BY <1>3, <1>5, <1>6, <1>7, <1>8

\* Between its claim and its answer a tick keeps its claim.
LEMMA WorkMaps ==
    ASSUME Typed, ClaimsAreUnique, ClaimsAreUnique', NEW h \in Hosts,
           ReadFact(h) \/ Embed(h) \/ Store(h)
    PROVE  [Fenced!Next]_(Fenced!fvars)
<1>1. host \in [Hosts -> HostRow] /\ host[h] \in HostRow
  BY TypeParts
<1>2. UNCHANGED job /\ host[h].pc \in Working
  BY DEF ReadFact, Embed, Store, Working
<1>3. \E pc \in Working, seen \in 0..MaxEdits :
         \/ host' = [host EXCEPT ![h].pc = pc]
         \/ host' = [host EXCEPT ![h].seen = seen, ![h].pc = pc]
  <2>1. {"complete", "embed", "store", "retry", "fatal"} \subseteq Working
    BY DEF Working
  <2>2. CASE ReadFact(h)
    <3>1. PICK seen \in 0..MaxEdits : seen = content[host[h].job[1]]
      <4>1. content \in [Entities -> 0..MaxEdits] /\ Locals(h)
        BY TypeParts
      <4> QED
        BY <1>2, <4>1 DEF Locals, Jobs
    <3> QED
      BY <2>1, <2>2, <3>1 DEF ReadFact
  <2>3. CASE Embed(h) \/ Store(h)
    <3>1. 0 \in 0..MaxEdits
      OBVIOUS
    <3> QED
      BY <2>1, <2>3, <3>1 DEF Embed, Store
  <2> QED
    BY <2>2, <2>3
<1>4. PICK pc \in Working, seen \in 0..MaxEdits :
         \/ host' = [host EXCEPT ![h].pc = pc]
         \/ host' = [host EXCEPT ![h].seen = seen, ![h].pc = pc]
  BY <1>3
<1>5. /\ [host[h] EXCEPT !.pc = pc].pc = pc
      /\ [host[h] EXCEPT !.pc = pc].job = host[h].job
      /\ [host[h] EXCEPT !.pc = pc].fence = host[h].fence
      /\ [host[h] EXCEPT !.seen = seen, !.pc = pc].pc = pc
      /\ [host[h] EXCEPT !.seen = seen, !.pc = pc].job = host[h].job
      /\ [host[h] EXCEPT !.seen = seen, !.pc = pc].fence = host[h].fence
  BY <1>1 DEF HostRow
<1>6. \A g \in Hosts : KeepsClaim(g)
  BY <1>1, <1>2, <1>4, <1>5 DEF KeepsClaim
<1> QED
  BY <1>2, <1>6, GivingUpMaps

LEMMA StepMaps ==
    ASSUME Typed, ClaimsAreUnique, [Next]_vars
    PROVE  [Fenced!Next]_(Fenced!fvars)
<1>0. Typed' /\ ClaimsAreUnique'
  BY QueueNextTyped, ClaimsNext
<1>1. CASE UNCHANGED vars
  <2>1. UNCHANGED <<job, host>>
    BY <1>1 DEF vars
  <2>2. \A j \in Jobs : KeepsRow(j) /\ Phase(job'[j]) = Phase(job[j])
    BY <2>1 DEF KeepsRow
  <2>3. \A h \in Hosts : KeepsClaim(h)
    BY <2>1 DEF KeepsClaim
  <2> QED
    BY <1>0, <2>2, <2>3, ClaimKept, FencedStutter
<1>2. ASSUME NEW h \in Hosts, HostStep(h) PROVE [Fenced!Next]_(Fenced!fvars)
  BY <1>0, <1>2, WriteMaps, CallMaps, ClaimMaps, WorkMaps, AnswerMaps, Zenon DEF HostStep
<1>3. ASSUME NEW h \in Hosts,
             \/ StatementFails(h) \/ Crash(h) \/ Restart(h)
             \/ \E op \in Operations : Enqueue(h, op)
             \/ \E m \in Models : Configure(h, m)
      PROVE  [Fenced!Next]_(Fenced!fvars)
  BY <1>0, <1>3, CallMaps
<1>4. ASSUME NEW h \in Hosts, NEW e \in Entities, Edit(h, e)
      PROVE  [Fenced!Next]_(Fenced!fvars)
  BY <1>0, <1>4, WriteMaps
<1>5. ASSUME NEW j \in Jobs,
             (\E h \in Hosts : Cleanup(h, j)) \/ ExpireLease(j) \/ EndPause(j)
      PROVE  [Fenced!Next]_(Fenced!fvars)
  BY <1>0, <1>5, WorldMaps
<1>6. CASE Next
  BY <1>2, <1>3, <1>4, <1>5, <1>6, Zenon DEF Next
<1> QED
  BY <1>1, <1>6

LEMMA InitMaps == Init => Fenced!Init
<1> SUFFICES ASSUME Init PROVE Fenced!Init
  OBVIOUS
<1>1. \A j \in Jobs : Phase(job[j]) = "none" /\ LastClaimant(j) = {}
  BY DEF Init, NoJob, Phase, LastClaimant
<1>2. \A j \in Jobs : Holder(j) = NULL
  BY <1>1, NoClaimant
<1> QED
  BY <1>1, <1>2 DEF Fenced!Init

\* The queue implements a fenced queue: a result counts only when it comes from
\* the host that holds the job.
THEOREM TheQueueIsFenced == Spec => AnswersAreFenced
<1>1. Init => Typed /\ ClaimsAreUnique
  BY QueueInitTyped, IdleFields DEF Init, ClaimsAreUnique, Working
<1>2. Typed /\ ClaimsAreUnique /\ [Next]_vars => Typed' /\ ClaimsAreUnique'
  BY QueueNextTyped, ClaimsNext
<1> QED
  BY <1>1, <1>2, InitMaps, StepMaps, PTL DEF Spec, AnswersAreFenced, Fenced!Spec
=============================================================================
