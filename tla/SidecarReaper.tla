--------------------------- MODULE SidecarReaper ---------------------------
(***************************************************************************)
(* The sidecars of apps/desktop and the reaper of host_lifecycle.rs: a     *)
(* sidecar is a process group that is signalled and polled, never waited   *)
(* for; one that is not known to be gone is handed to a background thread  *)
(* through a queue, and a counter says how many are not settled.           *)
(***************************************************************************)
EXTENDS Integers, FiniteSets

CONSTANTS
    Workers,        \* bootstrap threads; the sidecar a worker starts has its name
    Nobody,         \* no worker, no sidecar
    MaxServices,    \* bound on the reaper threads started
    MaxFaults       \* bound on failing system calls, crashes and panics

\* The threads that move sidecars from the queue to the service: those that
\* hand one over, and the retry pump.
Pump == "pump"
Movers == Workers \cup {Pump}

ASSUME ReaperAssumption ==
    /\ Nobody \notin Workers /\ Pump \notin Workers
    /\ MaxServices \in Nat \ {0} /\ MaxFaults \in Nat

Services == 1..MaxServices

VARIABLES
    proc,       \* proc[c]: the process group of sidecar c
    queue,      \* REAPER_FALLBACK_QUEUE
    registry,   \* REAPER_SERVICE: the thread whose channel is known, 0 for none
    service,    \* service[s]: a reaper thread, its channel and its tasks in one
    mover,      \* mover[t]: where t is in flush_pending_reapers
    unsettled,  \* REAPER_PENDING_CHILDREN
    faults

reaperVars == <<proc, queue, registry, service, mover, unsettled, faults>>

\* The leader and what it started; killed: SIGKILL was sent to all of them;
\* asked: SIGINT was.
Members == {"leader", "rest"}
NotStarted == [up |-> {}, killed |-> FALSE, asked |-> FALSE]
Started == [NotStarted EXCEPT !.up = Members]

AtRest == [pc |-> "off", to |-> 0, hand |-> Nobody, failed |-> FALSE]

ReaperInit ==
    /\ proc = [c \in Workers |-> NotStarted]
    /\ queue = {}
    /\ registry = 0
    /\ service = [s \in Services |-> [state |-> "none", holds |-> {}]]
    /\ mover = [t \in Movers |-> AtRest]
    /\ unsettled = 0
    /\ faults = 0

Fault == faults < MaxFaults /\ faults' = faults + 1

Gone(c) == proc[c].up = {}

(***************************************************************************)
(* Processes.                                                              *)
(***************************************************************************)

\* A process that was asked or killed ends, one that was not may crash; what
\* the leader leaves behind may end by itself.
Exits(c) ==
    /\ \E m \in proc[c].up :
        /\ proc' = [proc EXCEPT ![c].up = @ \ {m}]
        /\ IF proc[c].killed \/ m = "rest" \/ proc[c].asked THEN UNCHANGED faults ELSE Fault
    /\ UNCHANGED <<queue, registry, service, mover, unsettled>>

\* force_stop: a look, SIGKILL to the group, another look.  What is left may
\* take its time; a signal may fail.
ForceStop(c) ==
    \/ \E left \in SUBSET proc[c].up :
        /\ proc' = [proc EXCEPT ![c].up = left, ![c].killed = @ \/ ~Gone(c)]
        /\ UNCHANGED faults
    \/ ~Gone(c) /\ Fault /\ UNCHANGED proc

(***************************************************************************)
(* handoff_to_reaper, and the way from the queue to the service.           *)
(***************************************************************************)

\* The counter goes up before the sidecar is in the queue; nobody looks in
\* between.
HandOver(c) ==
    /\ unsettled' = unsettled + 1
    /\ queue' = queue \cup {c}
    /\ mover' = [mover EXCEPT ![c] = [AtRest EXCEPT !.pc = "service"]]
    /\ UNCHANGED <<registry, service>>

\* schedule_reaper_retry, unless the pump runs.
Rest(t) == [mover EXCEPT ![t] = AtRest]
RestAndSchedule(t) ==
    IF t = Pump \/ mover[Pump].pc # "off" THEN Rest(t)
    ELSE [Rest(t) EXCEPT ![Pump].pc = "service"]

Unused == {s \in Services : service[s].state = "none"}

\* reaper_service gives the channel of the thread that is known, or starts one.
NewService(s) ==
    /\ Unused # {} /\ s = CHOOSE u \in Unused : \A v \in Unused : u <= v
    /\ registry' = s
    /\ service' = [service EXCEPT ![s].state = "alive"]

AskService(t) ==
    /\ mover[t].pc = "service"
    /\ \/ /\ registry # 0
          /\ mover' = [mover EXCEPT ![t].pc = "pop", ![t].to = registry]
          /\ UNCHANGED <<registry, service, faults>>
       \/ /\ registry = 0
          /\ \E s \in Services :
                NewService(s) /\ mover' = [mover EXCEPT ![t].pc = "pop", ![t].to = s]
          /\ UNCHANGED faults
       \/ /\ registry = 0
          /\ IF Unused = {} THEN UNCHANGED faults ELSE Fault
          /\ mover' = IF t = Pump THEN [mover EXCEPT ![t] = [AtRest EXCEPT !.pc = "look"]]
                      ELSE RestAndSchedule(t)
          /\ UNCHANGED <<registry, service>>
    /\ UNCHANGED <<proc, queue, unsettled>>

\* flush_pending_reapers takes one sidecar after the other off the queue.
Pop(t) ==
    /\ mover[t].pc = "pop"
    /\ \/ \E c \in queue :
            /\ queue' = queue \ {c}
            /\ mover' = [mover EXCEPT ![t].pc = "send", ![t].hand = c]
       \/ /\ queue = {}
          /\ mover' = IF t = Pump THEN [mover EXCEPT ![t] = [AtRest EXCEPT !.pc = "look"]]
                      ELSE Rest(t)
          /\ UNCHANGED queue
    /\ UNCHANGED <<proc, registry, service, unsettled, faults>>

\* Mutant: a sidecar the service does not take is dropped.
PutBack_Dropped(t) == UNCHANGED queue

PutBack(t) == queue' = queue \cup {mover[t].hand}

\* The channel is closed when its thread has ended.  Then whatever thread is
\* known is forgotten, and another is tried once.
Send(t) ==
    /\ mover[t].pc = "send"
    /\ LET s == mover[t].to IN
       \/ /\ service[s].state = "alive"
          /\ service' = [service EXCEPT ![s].holds = @ \cup {mover[t].hand}]
          /\ mover' = [mover EXCEPT ![t].pc = "pop", ![t].hand = Nobody]
          /\ UNCHANGED <<queue, registry>>
       \/ /\ service[s].state = "ended"
          /\ PutBack(t)
          /\ registry' = 0
          /\ mover' = IF mover[t].failed
                      THEN IF t = Pump THEN [mover EXCEPT ![t] = [AtRest EXCEPT !.pc = "look"]]
                           ELSE Rest(t)
                      ELSE [mover EXCEPT ![t] = [AtRest EXCEPT !.pc = "service", !.failed = TRUE]]
          /\ UNCHANGED service
    /\ UNCHANGED <<proc, unsettled, faults>>

\* After a round the pump ends when the queue is empty, or after eight rounds.
PumpLooks ==
    /\ mover[Pump].pc = "look"
    /\ \/ mover' = Rest(Pump)
       \/ queue # {} /\ mover' = [mover EXCEPT ![Pump] = [AtRest EXCEPT !.pc = "service"]]
    /\ UNCHANGED <<proc, queue, registry, service, unsettled, faults>>

(***************************************************************************)
(* run_reaper_service.                                                     *)
(***************************************************************************)

\* CleanupOwnership::Release: the leader was waited for and the group is gone.
Settled(c) == proc'[c].up = {}

Reap(s, c) ==
    /\ service[s].state = "alive" /\ c \in service[s].holds
    /\ ForceStop(c)
    /\ IF Settled(c)
       THEN /\ service' = [service EXCEPT ![s].holds = @ \ {c}]
            /\ unsettled' = unsettled - 1
       ELSE UNCHANGED <<service, unsettled>>
    /\ UNCHANGED <<queue, registry, mover>>

\* Nobody has its channel any more: the thread ends, with what it holds.
Disconnected(s) ==
    /\ service[s].state = "alive"
    /\ registry # s /\ \A t \in Movers : mover[t].to # s
    /\ service' = [service EXCEPT ![s].state = "ended"]
    /\ UNCHANGED <<proc, queue, registry, mover, unsettled, faults>>

\* It panics.
Dies(s) ==
    /\ service[s].state = "alive"
    /\ Fault
    /\ service' = [service EXCEPT ![s].state = "ended"]
    /\ UNCHANGED <<proc, queue, registry, mover, unsettled>>

ReaperStep ==
    \/ \E t \in Movers : AskService(t) \/ Pop(t) \/ Send(t)
    \/ PumpLooks
    \/ \E s \in Services : Disconnected(s) \/ \E c \in Workers : Reap(s, c)
=============================================================================
