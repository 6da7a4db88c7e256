----------------------------- MODULE Dispatcher -----------------------------
(***************************************************************************)
(* The dispatcher of crates/kanban-server: one loop that sweeps expired    *)
(* leases, claims a ready task, runs one worker process for it, keeps its  *)
(* lease alive and records the outcome.  It shares the service of          *)
(* TaskLifecycle with every other caller of the host; its calls may fail,  *)
(* and it may be stopped, killed and started again at any point.           *)
(*                                                                         *)
(* Every `await` of the loop is a place where other callers, the worker    *)
(* and the signals come in between; an action below is what the loop does  *)
(* from one await to the next.                                             *)
(***************************************************************************)
EXTENDS TaskLifecycle

CONSTANTS
    Self,               \* DISPATCHER_ACTOR
    ClaimTtl,           \* claim_ttl_ms of the profile
    HeartbeatInterval,  \* heartbeat_interval_ms of the profile
    OnSuccess,          \* on_success: "done" or "review"
    OnFailure,          \* on_failure: "blocked" or "ready"
    MaxFaults           \* bound on crashes, failing calls and signals

ASSUME ProfileAssumption ==
    /\ Self \in Actors
    /\ ClaimTtl \in Ttls
    /\ HeartbeatInterval \in 1..(ClaimTtl - 1)
    /\ OnSuccess \in {"done", "review"}
    /\ OnFailure \in {"blocked", "ready"}
    /\ MaxFaults \in Nat

VARIABLES
    pc,         \* where the loop is
    late,       \* the expired claims the sweep has listed and not yet handled
    picked,     \* the ready task the loop has read and will try to claim
    held,       \* the ClaimRecord the loop works on
    worker,     \* the worker process of that claim
    nextBeat,   \* when the heartbeat ticker fires next, 0 where there is none
    shutdown,   \* the shutdown signal
    mine,       \* the runs this loop has claimed since it was started
    faults      \* crashes, failing calls and signals so far

loopVars == <<pc, late, picked, held, worker, nextBeat, shutdown, mine, faults>>
dvars == <<vars, loopVars>>

NoHold == [task |-> NULL, run |-> NULL]
Idle == {"poll", "reclaim", "sweep", "list", "claim", "sleep"}
Busy == {"spawn", "work", "finish", "giveup"}
\* The loop returned Ok, returned an error, or was dropped half way.
Ended == {"finished", "failed", "killed"}

DInit ==
    /\ Init
    /\ pc = "poll"
    /\ late = {}
    /\ picked = NULL
    /\ held = NoHold
    /\ worker = "none"
    /\ nextBeat = 0
    /\ shutdown = "running"
    /\ mine = {}
    /\ faults = 0

(***************************************************************************)
(* Calls.  A call the service refuses returns an error and changes nothing.*)
(***************************************************************************)
Refused(call) == ~ENABLED call /\ UNCHANGED vars

\* A storage error: the call has no effect either.
StoreFails == faults < MaxFaults /\ faults' = faults + 1 /\ UNCHANGED vars

\* The horizon of the clock: leases are only taken when they can run out.
WithinHorizon == now + ClaimTtl <= MaxTime

(***************************************************************************)
(* One round of the loop.                                                  *)
(***************************************************************************)
Expiring ==
    {t \in Tasks : Live(t) /\ task[t].status = "running" /\ Expired(t)}

\* Mutant: a graceful shutdown is not looked for.
Stopping_ForceOnly == shutdown = "force"

\* What the loop asks at its top and when the pause between rounds is cut short.
Stopping == shutdown # "running"

\* The top of the loop, then the vector worker's tick.
Poll ==
    /\ pc = "poll"
    /\ pc' = IF Stopping THEN "finished" ELSE "reclaim"
    /\ UNCHANGED <<vars, late, picked, held, worker, nextBeat, shutdown, mine, faults>>

\* Mutant: nothing is ever found to be late.
ListExpired_Nothing ==
    /\ pc = "reclaim"
    /\ pc' = "sweep"
    /\ late' = {}
    /\ UNCHANGED <<vars, picked, held, worker, nextBeat, shutdown, mine, faults>>

\* reclaim_expired takes the gate and lists the expired claims ...
ListExpired ==
    /\ pc = "reclaim"
    /\ pc' = "sweep"
    /\ late' = Expiring
    /\ UNCHANGED <<vars, picked, held, worker, nextBeat, shutdown, mine, faults>>

\* ... and reclaims them one transaction at a time before it lets the gate go.
Sweep ==
    /\ pc = "sweep"
    /\ \/ late = {} /\ pc' = "list" /\ UNCHANGED <<vars, late>>
       \/ \E t \in late : ReclaimExpired(t) /\ late' = late \ {t} /\ UNCHANGED pc
    /\ UNCHANGED <<picked, held, worker, nextBeat, shutdown, mine, faults>>

\* claim_next_ready reads the first ready task of the board.  Priorities
\* change at any time, so any ready task may be the first.
List ==
    /\ pc = "list"
    /\ LET ready == {t \in Tasks : task[t].status = "ready"}
       IN  IF ready = {} THEN pc' = "sleep" /\ UNCHANGED picked
           ELSE pc' = "claim" /\ picked' \in ready
    /\ UNCHANGED <<vars, late, held, worker, nextBeat, shutdown, mine, faults>>

\* A refused claim is not an error: the loop sleeps and tries again.  So it
\* does when the bounds on runs and time leave nothing to claim with.
Claim ==
    /\ pc = "claim"
    /\ picked' = NULL
    /\ \/ \E r \in Runs :
            /\ WithinHorizon
            /\ ClaimTask(picked, Self, r, ClaimTtl)
            /\ held' = [task |-> picked, run |-> r]
            /\ mine' = mine \cup {r}
            /\ pc' = "spawn"
       \/ /\ Claimable(picked) => ~WithinHorizon \/ \A r \in Runs : runs[r].status # "unused"
          /\ pc' = "sleep"
          /\ UNCHANGED <<vars, held, mine>>
    /\ UNCHANGED <<late, worker, nextBeat, shutdown, faults>>

\* The pause between two rounds ends early when a shutdown is signalled.
Sleep ==
    /\ pc = "sleep"
    /\ pc' = IF Stopping THEN "finished" ELSE "poll"
    /\ UNCHANGED <<vars, late, picked, held, worker, nextBeat, shutdown, mine, faults>>

(***************************************************************************)
(* One worker.                                                             *)
(***************************************************************************)

\* The log file and the process are created; either may fail.
Spawn ==
    /\ pc = "spawn"
    /\ \/ worker' = "alive" /\ pc' = "work" /\ nextBeat' = now + HeartbeatInterval
       \/ worker' = "failed" /\ pc' = "finish" /\ UNCHANGED nextBeat
    /\ UNCHANGED <<vars, late, picked, held, shutdown, mine, faults>>

\* The process ends on its own; what it did before is up to the callers below.
WorkerExits ==
    /\ worker = "alive"
    /\ worker' \in {"succeeded", "failed"}
    /\ UNCHANGED <<vars, pc, late, picked, held, nextBeat, shutdown, mine, faults>>

Collect ==
    /\ pc = "work"
    /\ worker # "alive"
    /\ pc' = "finish"
    /\ nextBeat' = 0
    /\ UNCHANGED <<vars, late, picked, held, worker, shutdown, mine, faults>>

\* The ticker has fired, and the call has waited for the gate since.  The next
\* tick is an interval after this one.  When the lease cannot be renewed the
\* worker is killed.
Beat ==
    /\ pc = "work"
    /\ now >= nextBeat
    /\ WithinHorizon
    /\ LET call == Heartbeat(held.task, Self, held.run, ClaimTtl)
       IN  \/ /\ call
              /\ \E fired \in nextBeat..now : nextBeat' = fired + HeartbeatInterval
              /\ UNCHANGED <<pc, worker, faults>>
           \/ /\ (Refused(call) /\ UNCHANGED faults) \/ StoreFails
              /\ pc' = "giveup" /\ worker' = "none" /\ nextBeat' = 0
    /\ UNCHANGED <<late, picked, held, shutdown, mine>>

\* The task of the killed worker is released if it still can be; either way
\* the loop ends with the heartbeat's error and takes the host with it.
GiveUp ==
    /\ pc = "giveup"
    /\ LET call == ReleaseTask(held.task, Self, held.run)
       IN  ((call \/ Refused(call)) /\ UNCHANGED faults) \/ StoreFails
    /\ pc' = "failed" /\ held' = NoHold
    /\ UNCHANGED <<late, picked, worker, nextBeat, shutdown, mine>>

\* The command that records how the worker ended.  complete_task and
\* block_task also accept a task that is no longer running.
RecordOutcome(t, r) ==
    IF worker = "succeeded"
    THEN IF OnSuccess = "done"
         THEN CompleteRunning(t, Self, r, FALSE) \/ CompleteReviewed(t)
         ELSE SubmitReview(t, Self, r, FALSE)
    ELSE IF OnFailure = "blocked"
         THEN BlockRunning(t, Self, r, FALSE) \/ BlockIdle(t)
         ELSE ReleaseTask(t, Self, r)

\* Mutants: an outcome that cannot be recorded is logged and forgotten; the
\* claim is still held when the next round starts.
Finish_IgnoresErrors ==
    /\ pc = "finish"
    /\ LET call == RecordOutcome(held.task, held.run)
       IN  ((call \/ Refused(call)) /\ UNCHANGED faults) \/ StoreFails
    /\ pc' = "poll" /\ held' = NoHold /\ worker' = "none"
    /\ UNCHANGED <<late, picked, nextBeat, shutdown, mine>>

Finish_KeepsHold ==
    /\ pc = "finish"
    /\ LET call == RecordOutcome(held.task, held.run)
       IN  \/ call /\ pc' = "poll" /\ UNCHANGED faults
           \/ ((Refused(call) /\ UNCHANGED faults) \/ StoreFails) /\ pc' = "failed"
    /\ worker' = "none"
    /\ UNCHANGED <<late, picked, held, nextBeat, shutdown, mine>>

\* A refused outcome ends the loop with an error.
Finish ==
    /\ pc = "finish"
    /\ LET call == RecordOutcome(held.task, held.run)
       IN  \/ call /\ pc' = "poll" /\ UNCHANGED faults
           \/ ((Refused(call) /\ UNCHANGED faults) \/ StoreFails) /\ pc' = "failed"
    /\ held' = NoHold /\ worker' = "none"
    /\ UNCHANGED <<late, picked, nextBeat, shutdown, mine>>

(***************************************************************************)
(* Faults, signals and restarts.                                           *)
(***************************************************************************)

\* The loop ends where it stands; its claim, if it holds one, stays.
Drop(how) ==
    /\ pc' = how
    /\ late' = {} /\ picked' = NULL /\ held' = NoHold /\ worker' = "none"
    /\ nextBeat' = 0
    /\ UNCHANGED <<shutdown, mine>>

\* An error of any call of the idle round, or of waiting for the worker, is
\* the loop's own.
LoopFails ==
    pc \in {"reclaim", "sweep", "list", "claim", "work"} /\ StoreFails /\ Drop("failed")

\* The host dies at any point.  Its worker has a process group of its own and
\* lives on; with its token it is one of the callers below.
Crash == pc \notin Ended /\ StoreFails /\ Drop("killed")

\* The first interrupt asks for a graceful end, the second forces it.
Interrupt ==
    /\ pc \notin Ended
    /\ shutdown # "force"
    /\ faults < MaxFaults /\ faults' = faults + 1
    /\ shutdown' = IF shutdown = "running" THEN "graceful" ELSE "force"
    /\ UNCHANGED <<vars, pc, late, picked, held, worker, nextBeat, mine>>

\* A forced end kills the worker and leaves its claim behind.
ForceEnd == pc \notin Ended /\ shutdown = "force" /\ Drop("killed") /\ UNCHANGED <<vars, faults>>

Restart ==
    /\ pc \in Ended
    /\ pc' = "poll"
    /\ shutdown' = "running"
    /\ mine' = {}
    /\ UNCHANGED <<vars, late, picked, held, worker, nextBeat, faults>>

\* Mutant: the sweep does not keep the gate between the list and the reclaims.
ServiceIsFree_InSweep == pc # "killed"

\* The mutation_gate is not held by the sweep, and the host is there.
ServiceIsFree == pc \notin {"sweep", "killed"}

(***************************************************************************)
(* Everybody else.  The worker, and an orphan of an earlier host, know the *)
(* token of their run and may use it for anything.                         *)
(***************************************************************************)
Callers ==
    /\ ServiceIsFree
    /\ \/ \E t \in Tasks : Describe(t) \/ WorkOn(t) \/ Intervene(t) \/ Plan(t)
       \/ Link
       \/ ArchiveBoard
    /\ \A t \in Tasks : task'[t].claim # NoClaim => task'[t].claim.expires <= MaxTime
    /\ UNCHANGED loopVars

\* Time passes wherever the loop is: a process takes its time to start, and a
\* renewal may wait for the mutation_gate until long after the lease ran out.
TimePasses == Tick /\ UNCHANGED loopVars

Loop ==
    Poll \/ ListExpired \/ Sweep \/ List \/ Claim \/ Sleep \/ Spawn \/ Beat
        \/ GiveUp \/ Finish \/ ForceEnd

DNext ==
    \/ Loop \/ Collect \/ WorkerExits \/ LoopFails \/ Crash \/ Interrupt \/ Restart
    \/ Callers \/ TimePasses

DSpec == DInit /\ [][DNext]_dvars

(***************************************************************************)
(* The runtime keeps polling the loop, and its select! does not starve the *)
(* end of the worker; workers end, time passes, and a host that went down  *)
(* is started again.  Nothing is assumed of the callers.                   *)
(***************************************************************************)
FairDSpec ==
    /\ DSpec
    /\ WF_dvars(Loop)
    /\ WF_dvars(Collect)
    /\ WF_dvars(WorkerExits)
    /\ WF_dvars(TimePasses)
    /\ WF_dvars(Restart)

(***************************************************************************)
(* Properties.                                                             *)
(***************************************************************************)

\* Shapes of the loop's variables, and that it holds a claim exactly while it
\* works on one: no path through spawn, heartbeat, finish and the faults
\* drops the ClaimRecord early or carries it into the next round.
DispatcherTypeOK ==
    /\ pc \in Idle \cup Busy \cup Ended
    /\ late \subseteq Tasks /\ picked \in Tasks \cup {NULL}
    /\ held \in [task: Tasks, run: Runs] \cup {NoHold}
    /\ pc \in Busy <=> held # NoHold
    /\ worker \in {"none", "alive", "succeeded", "failed"}
    /\ pc \notin {"work", "finish"} => worker = "none"
    /\ nextBeat \in Nat
    /\ shutdown \in {"running", "graceful", "force"}
    /\ mine \subseteq Runs
    /\ faults \in 0..MaxFaults

\* The loop never moves on from a run that is still open: every run it has
\* claimed since it was started is over, unless it is the one at hand or the
\* loop has ended with an error.  In particular a graceful end leaves no lease.
OpenRunIsTended ==
    pc \notin {"failed", "killed"} =>
        \A r \in mine : runs[r].status = "running" => held.run = r

\* The loop ends no run but the one it has claimed and those the sweep found
\* expired: not even when its lease ran out behind the gate or while the worker
\* was started, the task was taken back and is held again by the dispatcher of
\* another host, which goes by the same name.
OnlyOwnRunIsEnded ==
    [][\A r \in Runs :
          runs[r].status = "running" /\ runs'[r].status # "running" =>
              \/ UNCHANGED loopVars
              \/ r = held.run
              \/ pc = "sweep" /\ Expired(runs[r].task)]_dvars

\* What the sweep has listed it can reclaim: between the list and the last
\* transaction the gate is held, and nothing the sweep does to one task, or
\* that goes on beside it, makes the checks of the next one fail.  (A row that
\* had moved on would be passed over; one that is still expired and does not
\* match its run would end the loop.)
SweepMeetsNoRefusal ==
    pc = "sweep" =>
        \A t \in late :
            /\ t \in Expiring
            /\ ActiveRunMatches(t) /\ CurrentRunMatches(t)

\* Every lease ends, whoever holds it: the holder finishes, or it stops
\* renewing and some later round reclaims the task, also after the host was
\* killed half way and started again.  (A caller that renews a lease for ever
\* keeps it; the clock's horizon is where every caller stops.)
EveryLeaseEnds ==
    \A r \in Runs : runs[r].status = "running" ~> runs[r].status # "running"

\* A graceful shutdown lets the worker finish and then ends the loop.
GracefulShutdownEnds == shutdown = "graceful" ~> pc \in Ended

(***************************************************************************)
(* A statement of crates/kanban-core/docs/state_machine.md that the code   *)
(* does not keep; a run shows how.                                         *)
(***************************************************************************)

\* "done and block check owner and token": the outcome of a worker is only
\* recorded on a task that is still held under its claim.  block_task and
\* complete_task look at the token of running tasks only.
OnlyOwnOutcomeIsRecorded ==
    [][pc = "finish" /\ pc' = "poll" => HoldsClaim(held.task, Self, held.run)]_dvars
=============================================================================
