------------------------- MODULE Dispatcher_proofs -------------------------
(***************************************************************************)
(* The safety of the dispatcher among all other callers, for any sets of   *)
(* tasks, runs and actors, any profile and any number of faults.           *)
(***************************************************************************)
EXTENDS Dispatcher, TaskLifecycle_proofs

(***************************************************************************)
(* Whatever the loop does to the service is an operation of the service.   *)
(***************************************************************************)
Picks == pc = "claim" => picked \in Tasks
Ends == pc = "finish" => worker # "alive"

LoopTyped == DispatcherTypeOK /\ Picks /\ Ends

LEMMA HeldFields ==
    ASSUME DispatcherTypeOK, pc \in Busy
    PROVE  held.task \in Tasks /\ held.run \in Runs
BY DEF DispatcherTypeOK

LEMMA RecordIsWork ==
    ASSUME NEW t \in Tasks, NEW r \in Runs, RecordOutcome(t, r)
    PROVE  WorkOn(t)
BY ProfileAssumption DEF RecordOutcome, WorkOn

\* What a call of the loop may come to: it is carried out, or nothing changes.
LEMMA BeatCalls ==
    ASSUME Beat
    PROVE  \/ /\ Heartbeat(held.task, Self, held.run, ClaimTtl)
              /\ \E fired \in nextBeat..now : nextBeat' = fired + HeartbeatInterval
              /\ UNCHANGED <<pc, worker, faults>>
           \/ /\ UNCHANGED vars /\ (UNCHANGED faults \/ StoreFails)
              /\ pc' = "giveup" /\ worker' = "none" /\ nextBeat' = 0
BY DEF Beat, Refused, StoreFails

LEMMA GiveUpCalls ==
    ASSUME GiveUp
    PROVE  /\ ReleaseTask(held.task, Self, held.run) \/ UNCHANGED vars
           /\ UNCHANGED faults \/ StoreFails
BY DEF GiveUp, Refused, StoreFails

LEMMA FinishCalls ==
    ASSUME Finish
    PROVE  \/ RecordOutcome(held.task, held.run) /\ pc' = "poll" /\ UNCHANGED faults
           \/ UNCHANGED vars /\ pc' = "failed" /\ (UNCHANGED faults \/ StoreFails)
BY DEF Finish, Refused, StoreFails

\* The other callers.
LEMMA CallersAct == ASSUME Callers PROVE Next /\ UNCHANGED loopVars
BY DEF Callers, Next

LEMMA ServiceSteps ==
    ASSUME LoopTyped, [DNext]_dvars
    PROVE  [Next]_vars
<1> USE DEF LoopTyped
<1>1. CASE Poll \/ ListExpired \/ List \/ Sleep
  BY <1>1 DEF Poll, ListExpired, List, Sleep
<1>2. CASE Sweep
  <2>1. ASSUME NEW t \in late, ReclaimExpired(t) PROVE Next
    BY <2>1 DEF DispatcherTypeOK, Next, Intervene
  <2> QED
    BY <1>2, <2>1, Zenon DEF Sweep
<1>3. CASE Claim
  <2>1. ASSUME NEW r \in Runs, pc = "claim", ClaimTask(picked, Self, r, ClaimTtl) PROVE Next
    BY <2>1, ProfileAssumption DEF Picks, Next, WorkOn
  <2> QED
    BY <1>3, <2>1, Zenon DEF Claim
<1>4. CASE Spawn \/ WorkerExits \/ Collect \/ ForceEnd \/ Interrupt \/ Restart
  BY <1>4 DEF Spawn, WorkerExits, Collect, ForceEnd, Interrupt, Restart
<1>5. CASE Beat
  <2>1. ASSUME Heartbeat(held.task, Self, held.run, ClaimTtl) PROVE Next
    BY <1>5, <2>1, HeldFields, ProfileAssumption DEF Beat, Busy, Next, WorkOn
  <2> QED
    BY <1>5, <2>1, BeatCalls
<1>6. CASE GiveUp
  <2>1. ASSUME ReleaseTask(held.task, Self, held.run) PROVE Next
    BY <1>6, <2>1, HeldFields, ProfileAssumption DEF GiveUp, Busy, Next, WorkOn
  <2> QED
    BY <1>6, <2>1, GiveUpCalls
<1>7. CASE Finish
  <2>1. ASSUME RecordOutcome(held.task, held.run) PROVE Next
    BY <1>7, <2>1, HeldFields, RecordIsWork DEF Finish, Busy, Next
  <2> QED
    BY <1>7, <2>1, FinishCalls
<1>8. CASE LoopFails \/ Crash
  BY <1>8 DEF LoopFails, Crash, StoreFails
<1>9. CASE TimePasses
  BY <1>9 DEF TimePasses, Next
<1>10. CASE UNCHANGED dvars
  BY <1>10 DEF dvars
<1> QED
  BY <1>1, <1>2, <1>3, <1>4, <1>5, <1>6, <1>7, <1>8, <1>9, <1>10, CallersAct, Zenon
  DEF DNext, Loop

(***************************************************************************)
(* The loop's own variables.                                               *)
(***************************************************************************)
LEMMA LoopTypedInit == DInit => LoopTyped
BY ProfileAssumption DEF DInit, LoopTyped, DispatcherTypeOK, Picks, Ends, Idle, Busy, Ended, NoHold

LEMMA NoHoldIsNone ==
    /\ NoHold.run = NULL
    /\ \A t \in Tasks, r \in Runs : [task |-> t, run |-> r] # NoHold
<1>1. ASSUME NEW t \in Tasks, NEW r \in Runs PROVE [task |-> t, run |-> r].task # NoHold.task
  BY IdAssumption DEF NoHold
<1> QED
  BY <1>1 DEF NoHold

LEMMA FaultsTyped ==
    ASSUME DispatcherTypeOK, UNCHANGED faults \/ StoreFails
    PROVE  faults' \in 0..MaxFaults
BY ProfileAssumption DEF DispatcherTypeOK, StoreFails

LEMMA LoopTypedStep ==
    ASSUME TypeOK, LoopTyped, [DNext]_dvars
    PROVE  LoopTyped'
<1> USE DEF LoopTyped, DispatcherTypeOK, Picks, Ends, Idle, Busy, Ended
<1>1. CASE Poll \/ ListExpired \/ List \/ Sleep
  BY <1>1 DEF Poll, ListExpired, List, Sleep, Expiring
<1>2. CASE Sweep
  BY <1>2 DEF Sweep
<1>3. CASE Claim
  BY <1>3, NoHoldIsNone, IdAssumption DEF Claim
<1>4. CASE Spawn
  BY <1>4, ProfileAssumption DEF Spawn, TypeOK
<1>5. CASE WorkerExits \/ Collect
  BY <1>5 DEF WorkerExits, Collect
<1>6. CASE Beat
  <2>1. nextBeat' \in Nat
    BY <1>6, BeatCalls, ProfileAssumption DEF TypeOK
  <2>2. faults' \in 0..MaxFaults
    BY <1>6, BeatCalls, FaultsTyped
  <2>3. \/ UNCHANGED <<pc, worker>>
        \/ pc' = "giveup" /\ worker' = "none"
    BY <1>6, BeatCalls
  <2>4. pc = "work" /\ UNCHANGED <<late, picked, held, shutdown, mine>>
    BY <1>6 DEF Beat
  <2> QED
    BY <2>1, <2>2, <2>3, <2>4
<1>7. CASE GiveUp
  <2>1. faults' \in 0..MaxFaults
    BY <1>7, GiveUpCalls, FaultsTyped
  <2>2. /\ pc = "giveup" /\ pc' = "failed" /\ held' = NoHold
        /\ UNCHANGED <<late, picked, worker, nextBeat, shutdown, mine>>
    BY <1>7 DEF GiveUp
  <2> QED
    BY <2>1, <2>2
<1>8. CASE Finish
  <2>1. pc' \in {"poll", "failed"} /\ faults' \in 0..MaxFaults
    BY <1>8, FinishCalls, FaultsTyped
  <2>2. /\ pc = "finish" /\ held' = NoHold /\ worker' = "none"
        /\ UNCHANGED <<late, picked, nextBeat, shutdown, mine>>
    BY <1>8 DEF Finish
  <2> QED
    BY <2>1, <2>2
<1>9. CASE LoopFails \/ Crash \/ ForceEnd
  <2>1. faults' \in 0..MaxFaults
    BY <1>9, FaultsTyped DEF LoopFails, Crash, ForceEnd
  <2>2. Drop("failed") \/ Drop("killed")
    BY <1>9 DEF LoopFails, Crash, ForceEnd
  <2> QED
    BY <2>1, <2>2 DEF Drop
<1>10. CASE Interrupt \/ Restart
  BY <1>10, ProfileAssumption DEF Interrupt, Restart
<1>11. CASE UNCHANGED loopVars
  BY <1>11 DEF loopVars
<1> QED
  BY <1>1, <1>2, <1>3, <1>4, <1>5, <1>6, <1>7, <1>8, <1>9, <1>10, <1>11, CallersAct, Zenon
  DEF DNext, Loop, TimePasses, dvars

(***************************************************************************)
(* What a step does to the claims of the loop.                             *)
(***************************************************************************)
Down == {"failed", "killed"}

Holds == UNCHANGED <<held, mine>> /\ (pc \in Down => pc' \in Down)

Takes ==
    \E r \in Runs :
        /\ pc = "claim"
        /\ ClaimTask(picked, Self, r, ClaimTtl)
        /\ held' = [task |-> picked, run |-> r]
        /\ mine' = mine \cup {r}

Drops == held' = NoHold /\ mine' = mine /\ pc' \in Down

Records ==
    /\ pc = "finish"
    /\ RecordOutcome(held.task, held.run)
    /\ held' = NoHold /\ mine' = mine

Anew == held' = held /\ held = NoHold /\ mine' = {}

LEMMA LoopSteps ==
    ASSUME LoopTyped, [DNext]_dvars
    PROVE  Holds \/ Takes \/ Drops \/ Records \/ Anew
<1> USE DEF Down
<1>1. CASE Poll \/ ListExpired \/ List \/ Sleep \/ Spawn \/ WorkerExits \/ Collect \/ Interrupt
  BY <1>1 DEF Poll, ListExpired, List, Sleep, Spawn, WorkerExits, Collect, Interrupt, Holds
<1>2. CASE Sweep
  <2>1. pc = "sweep" /\ UNCHANGED <<held, mine>>
    BY <1>2 DEF Sweep
  <2> QED
    BY <2>1 DEF Holds
<1>3. CASE Claim
  BY <1>3 DEF Claim, Holds, Takes
<1>4. CASE Beat
  <2>1. pc = "work" /\ UNCHANGED <<held, mine>>
    BY <1>4 DEF Beat
  <2> QED
    BY <2>1 DEF Holds
<1>5. CASE GiveUp
  BY <1>5 DEF GiveUp, Drops
<1>6. CASE Finish
  <2>1. pc = "finish" /\ held' = NoHold /\ mine' = mine
    BY <1>6 DEF Finish
  <2> QED
    BY <1>6, <2>1, FinishCalls DEF Drops, Records
<1>7. CASE LoopFails \/ Crash \/ ForceEnd
  BY <1>7 DEF LoopFails, Crash, ForceEnd, Drop, Drops
<1>8. CASE Restart
  BY <1>8 DEF Restart, Anew, LoopTyped, DispatcherTypeOK, Busy, Ended
<1>9. CASE UNCHANGED loopVars
  BY <1>9 DEF loopVars, Holds
<1> QED
  BY <1>1, <1>2, <1>3, <1>4, <1>5, <1>6, <1>7, <1>8, <1>9, CallersAct, Zenon
  DEF DNext, Loop, TimePasses, dvars

(***************************************************************************)
(* What any operation does to a run that has been claimed.                 *)
(***************************************************************************)
LEMMA RunMovesOn ==
    ASSUME TypeOK, [Next]_vars, NEW r \in Runs, runs[r].status # "unused"
    PROVE  /\ runs'[r].status # "unused" /\ runs'[r].task = runs[r].task
           /\ runs'[r].status = "running" => runs[r].status = "running"
<1>1. CASE Quiet
  BY <1>1 DEF Quiet
<1>2. ASSUME NEW t \in Tasks, Starts(t) PROVE runs'[r] = runs[r]
  BY <1>2, StartFields DEF StartWrites
<1>3. ASSUME NEW t \in Tasks, Renews(t)
      PROVE  \/ runs'[r] = runs[r]
             \/ /\ runs'[r].status = "running" /\ runs[r].status = "running"
                /\ runs'[r].task = runs[r].task
  BY <1>3, RenewFields DEF RenewWrites, ActiveRuns
<1>4. ASSUME NEW t \in Tasks, NEW result \in Results, EndsWith(t, result)
      PROVE  \/ runs'[r] = runs[r]
             \/ /\ runs'[r].status \in Results
                /\ runs'[r].task = runs[r].task
  BY <1>4, EndFields
<1> QED
  BY <1>1, <1>2, <1>3, <1>4, LeaseSteps DEF Results

\* The run of a running task is its current one.
LEMMA RunningIsCurrent ==
    ASSUME LeaseInv, NEW r \in Runs, NEW t \in Tasks,
           runs[r].status = "running", runs[r].task = t
    PROVE  task[t].status = "running" /\ task[t].run = r
<1>1. r \in ActiveRuns(t)
  BY DEF ActiveRuns
<1> QED
  BY <1>1 DEF LeaseInv, ClaimMatchesRun

\* The recorded outcome closes the run, or the run was over before.
LEMMA RecordedIsOver ==
    ASSUME LeaseInv, NEW t \in Tasks, NEW r \in Runs, runs[r].task = t,
           runs[r].status # "unused", RecordOutcome(t, r)
    PROVE  runs'[r].status # "running"
<1> SUFFICES ASSUME runs[r].status = "running" PROVE runs'[r].status # "running"
  BY RecordIsWork, RunMovesOn DEF Next, LeaseInv
<1>1. task[t].status = "running" /\ task[t].run = r
  BY RunningIsCurrent
<1>2. \E status \in Results : EndRun(t, status)
  BY <1>1
  DEF RecordOutcome, CompleteRunning, CompleteReviewed, SubmitReview, BlockRunning, BlockIdle,
      ReleaseTask, Results, Recomputable
<1> QED
  BY <1>1, <1>2 DEF EndRun, LeaseInv, TypeOK, RunType, Results

(***************************************************************************)
(* The claims of the loop: each is of the task it holds, and each but that *)
(* one is over.                                                            *)
(***************************************************************************)
Claims ==
    /\ \A r \in mine : runs[r].status # "unused"
    /\ held # NoHold => held.run \in mine /\ runs[held.run].task = held.task

DInv == LeaseInv /\ LoopTyped /\ Claims /\ OpenRunIsTended

LEMMA DInvInit == DInit => DInv
<1> SUFFICES ASSUME DInit PROVE DInv
  OBVIOUS
<1>1. LeaseInv /\ LoopTyped
  BY LeaseInvInductive, LoopTypedInit DEF DInit
<1>2. Claims /\ OpenRunIsTended
  BY DEF DInit, Claims, OpenRunIsTended
<1> QED
  BY <1>1, <1>2 DEF DInv

LEMMA ClaimsStep ==
    ASSUME DInv, [DNext]_dvars
    PROVE  Claims' /\ OpenRunIsTended'
<1> USE DEF DInv
<1>1. [Next]_vars /\ TypeOK
  BY ServiceSteps DEF LeaseInv
<1>2. mine \subseteq Runs /\ \A r \in mine : runs[r].status # "unused"
  BY DEF LoopTyped, DispatcherTypeOK, Claims
<1>3. \A r \in mine : /\ runs'[r].status # "unused" /\ runs'[r].task = runs[r].task
                      /\ runs'[r].status = "running" => runs[r].status = "running"
  BY <1>1, <1>2, RunMovesOn
<1>4. CASE Holds
  BY <1>3, <1>4 DEF Holds, Claims, OpenRunIsTended, Down
<1>5. CASE Drops
  BY <1>3, <1>5 DEF Drops, Claims, OpenRunIsTended, Down
<1>6. CASE Anew
  BY <1>6 DEF Anew, Claims, OpenRunIsTended
<1>7. CASE Takes
  <2>1. PICK r \in Runs :
           /\ pc = "claim"
           /\ ClaimTask(picked, Self, r, ClaimTtl)
           /\ held' = [task |-> picked, run |-> r]
           /\ mine' = mine \cup {r}
    BY <1>7 DEF Takes
  <2>2. held = NoHold
    BY <2>1 DEF LoopTyped, DispatcherTypeOK, Busy
  <2>3. \A q \in mine : runs[q].status # "running"
    BY <1>2, <2>1, <2>2, NoHoldIsNone, IdAssumption DEF OpenRunIsTended
  <2>4. runs'[r].status = "running" /\ runs'[r].task = picked
    BY <2>1 DEF ClaimTask, LeaseInv, TypeOK
  <2>5. held'.run = r /\ held'.task = picked
    BY <2>1
  <2> QED
    BY <1>3, <2>1, <2>3, <2>4, <2>5 DEF Claims, OpenRunIsTended
<1>8. CASE Records
  <2>1. held # NoHold /\ held.task \in Tasks /\ held.run \in Runs
    BY <1>8, HeldFields DEF Records, LoopTyped, DispatcherTypeOK, Busy
  <2>2. held.run \in mine /\ runs[held.run].task = held.task
    BY <2>1 DEF Claims
  <2>3. runs'[held.run].status # "running"
    BY <1>2, <1>8, <2>1, <2>2, RecordedIsOver DEF Records
  <2>4. \A q \in mine : runs[q].status = "running" => q = held.run
    BY <1>8 DEF Records, OpenRunIsTended
  <2> QED
    BY <1>3, <1>8, <2>3, <2>4 DEF Records, Claims, OpenRunIsTended
<1> QED
  BY <1>4, <1>5, <1>6, <1>7, <1>8, LoopSteps

LEMMA DInvStep == DInv /\ [DNext]_dvars => DInv'
<1> SUFFICES ASSUME DInv, [DNext]_dvars PROVE DInv'
  OBVIOUS
<1>1. LeaseInv' /\ LoopTyped'
  BY ServiceSteps, LeaseInvInductive, LoopTypedStep DEF DInv, LeaseInv
<1> QED
  BY <1>1, ClaimsStep DEF DInv

LEMMA DInvAlways == DSpec => []DInv
BY DInvInit, DInvStep, PTL DEF DSpec

\* dispatcher.rs: the loop holds a ClaimRecord exactly while it works on one.
THEOREM DispatcherIsTyped == DSpec => []DispatcherTypeOK
<1>1. DInv => DispatcherTypeOK
  BY DEF DInv, LoopTyped
<1> QED
  BY <1>1, DInvAlways, PTL

\* dispatcher.rs: the loop does not go on from a run that is still open.
THEOREM OpenRunsAreTended == DSpec => []OpenRunIsTended
<1>1. DInv => OpenRunIsTended
  BY DEF DInv
<1> QED
  BY <1>1, DInvAlways, PTL

(***************************************************************************)
(* The dispatcher is one of the service's callers: with everybody else it  *)
(* does nothing but what TaskLifecycle allows.  Whatever is proved of the  *)
(* service therefore holds while the dispatcher runs, crashes and starts   *)
(* again.                                                                  *)
(***************************************************************************)
THEOREM DispatcherUsesTheService == DSpec => Spec
<1>1. DInit => Init
  BY DEF DInit
<1>2. DInv /\ [DNext]_dvars => [Next]_vars
  BY ServiceSteps DEF DInv
<1> QED
  BY <1>1, <1>2, DInvAlways, PTL DEF DSpec, Spec

\* The leases the dispatcher takes, renews and gives back are leases in the
\* sense of RunLease, and none it leaves behind is beyond everybody's reach.
THEOREM DispatcherKeepsLeases == DSpec => ImplementsLease /\ []NoRunIsStuck
BY DispatcherUsesTheService, LifecycleImplementsLease, OpenRunsCanBeEnded, PTL

(***************************************************************************)
(* The sweep.                                                              *)
(***************************************************************************)
Listed == pc = "sweep" => late \subseteq Expiring

\* The rows of a running task and its run agree, so that a sweep that still
\* finds the claim expired is not refused.
LEMMA ExpiringMatches ==
    ASSUME LeaseInv, NEW t \in Expiring
    PROVE  ActiveRunMatches(t) /\ CurrentRunMatches(t)
<1>1. t \in Tasks /\ task[t].status = "running"
  BY DEF Expiring
<1>2. ActiveRuns(t) = {task[t].run} /\ runs[task[t].run].claim = task[t].claim
  BY <1>1 DEF LeaseInv, ClaimMatchesRun
<1> QED
  BY <1>2 DEF ActiveRunMatches, CurrentRunMatches

\* Reclaiming one task leaves the others as they are.
LEMMA SweepTakesOne ==
    ASSUME TypeOK, NEW t \in Tasks, ReclaimExpired(t), NEW u \in Expiring, u # t
    PROVE  u \in Expiring'
<1>1. u \in Tasks /\ task'[u] = task[u]
  <2>1. task' = [Unclaimed(t, ReclaimTarget(t, NULL), NULL) EXCEPT ![t].retries = @ + 1]
    BY DEF ReclaimExpired
  <2>2. u \in Tasks
    BY DEF Expiring
  <2> QED
    BY <2>1, <2>2 DEF Unclaimed, TypeOK
<1>2. now' = now /\ boardArchived' = boardArchived
  BY DEF ReclaimExpired
<1> QED
  BY <1>1, <1>2 DEF Expiring, Live, Exists, Expired

\* What has expired stays so while the clock goes on.
LEMMA ExpiringLasts ==
    ASSUME LeaseInv, NEW u \in Expiring, Tick
    PROVE  u \in Expiring'
<1>1. u \in Tasks /\ task[u].status = "running" /\ Live(u) /\ task[u].claim.expires <= now
  BY DEF Expiring, Expired
<1>2. task[u].claim \in ClaimType
  BY <1>1 DEF LeaseInv, ClaimMatchesRun, TypeOK, TaskType
<1>3. task[u].claim.expires \in Nat /\ now \in Nat
  BY <1>2 DEF ClaimType, LeaseInv, TypeOK
<1>4. now' = now + 1 /\ task' = task /\ boardArchived' = boardArchived
  BY DEF Tick
<1>5. task'[u].claim.expires <= now'
  BY <1>1, <1>3, <1>4
<1> QED
  BY <1>1, <1>4, <1>5 DEF Expiring, Live, Exists, Expired

LEMMA ListedStep ==
    ASSUME DInv, Listed, [DNext]_dvars
    PROVE  Listed'
<1> SUFFICES ASSUME pc' = "sweep", NEW u \in late' PROVE u \in Expiring'
  BY DEF Listed
<1>0. TypeOK /\ LeaseInv /\ late \subseteq Tasks
  BY DEF DInv, LeaseInv, LoopTyped, DispatcherTypeOK
<1>1. CASE ListExpired
  BY <1>1 DEF ListExpired, vars, Expiring, Live, Exists, Expired
<1>2. CASE Sweep
  <2>1. PICK t \in late : ReclaimExpired(t) /\ late' = late \ {t}
    BY <1>2 DEF Sweep
  <2>2. pc = "sweep"
    BY <1>2 DEF Sweep
  <2> QED
    BY <1>0, <2>1, <2>2, SweepTakesOne DEF Listed
<1>3. CASE TimePasses
  <2>1. Tick /\ late' = late /\ pc' = pc
    BY <1>3 DEF TimePasses, loopVars
  <2> QED
    BY <1>0, <2>1, ExpiringLasts DEF Listed
<1>4. CASE WorkerExits \/ Interrupt \/ UNCHANGED dvars
  <2>1. UNCHANGED <<vars, pc, late>>
    BY <1>4 DEF WorkerExits, Interrupt, dvars, loopVars
  <2> QED
    BY <2>1 DEF Listed, vars, Expiring, Live, Exists, Expired
<1>5. CASE Callers
  <2>1. pc # "sweep" /\ pc' = pc
    BY <1>5 DEF Callers, ServiceIsFree, loopVars
  <2> QED
    BY <2>1
<1>6. CASE Beat
  <2>1. pc = "work" /\ pc' \in {pc, "giveup"}
    BY <1>6, BeatCalls DEF Beat
  <2> QED
    BY <2>1
<1>7. CASE GiveUp
  BY <1>7 DEF GiveUp
<1>8. CASE Finish
  BY <1>8, FinishCalls
<1>9. CASE Poll \/ List \/ Claim \/ Sleep \/ Spawn \/ Collect
  BY <1>9 DEF Poll, List, Claim, Sleep, Spawn, Collect
<1>10. CASE LoopFails \/ Crash \/ ForceEnd \/ Restart
  BY <1>10 DEF LoopFails, Crash, ForceEnd, Restart, Drop
<1> QED
  BY <1>1, <1>2, <1>3, <1>4, <1>5, <1>6, <1>7, <1>8, <1>9, <1>10, Zenon DEF DNext, Loop

\* reclaim.rs, reclaim_expired: no task the sweep has listed is refused when its
\* turn comes, whatever else the sweep reclaims before it.
THEOREM SweepsAreNotRefused == DSpec => []SweepMeetsNoRefusal
<1>1. DInit => Listed
  BY DEF DInit, Listed
<1>2. DInv /\ Listed /\ [DNext]_dvars => Listed'
  BY ListedStep
<1>3. DInv /\ Listed => SweepMeetsNoRefusal
  BY ExpiringMatches DEF DInv, Listed, SweepMeetsNoRefusal
<1> QED
  BY <1>1, <1>2, <1>3, DInvAlways, PTL DEF DSpec

(***************************************************************************)
(* Whose runs the loop ends.                                               *)
(***************************************************************************)

\* A claim's token is minted together with its run.
TokensMatch == \A r \in Runs : runs[r].status # "unused" => runs[r].claim.token = r

LEMMA TokensMatchStep ==
    ASSUME TypeOK, TokensMatch, [Next]_vars
    PROVE  TokensMatch'
<1> SUFFICES ASSUME NEW r \in Runs, runs'[r].status # "unused"
             PROVE  runs'[r].claim.token = r
  BY DEF TokensMatch
<1>1. CASE Quiet
  BY <1>1 DEF Quiet, TokensMatch
<1>2. ASSUME NEW t \in Tasks, Starts(t) PROVE runs'[r].claim.token = r
  <2>1. PICK a \in Actors, q \in Runs, ttl \in Ttls : ClaimTask(t, a, q, ttl)
    BY <1>2 DEF Starts
  <2>2. runs' = [runs EXCEPT ![q] = [status |-> "running", task |-> t,
                    claim |-> [token |-> q, owner |-> a, expires |-> now + ttl]]]
    BY <2>1 DEF ClaimTask
  <2> QED
    BY <2>2 DEF TypeOK, TokensMatch
<1>3. ASSUME NEW t \in Tasks, Renews(t) PROVE runs'[r].claim.token = r
  <2>1. PICK expires \in Nat : RenewWrites(t, expires)
    BY <1>3, RenewFields
  <2>2. CASE r = task[t].run
    <3>1. runs[r].claim.token = r /\ runs[r].claim \in ClaimType \cup {NoClaim}
      BY <2>1, <2>2 DEF RenewWrites, ActiveRuns, TokensMatch, TypeOK, RunType
    <3>2. runs'[r].claim = [runs[r].claim EXCEPT !.expires = expires]
      BY <2>1, <2>2 DEF RenewWrites
    <3> QED
      BY <3>1, <3>2 DEF ClaimType, NoClaim
  <2>3. CASE r # task[t].run
    BY <2>1, <2>3 DEF RenewWrites, TokensMatch
  <2> QED
    BY <2>2, <2>3
<1>4. ASSUME NEW t \in Tasks, NEW result \in Results, EndsWith(t, result)
      PROVE  runs'[r].claim.token = r
  <2>1. runs' = [runs EXCEPT ![task[t].run].status = result]
    BY <1>4 DEF EndsWith, EndRun
  <2>2. task[t].run \in Runs /\ runs[task[t].run].status = "running"
    BY <1>4, EndFields
  <2>3. runs'[r].claim = runs[r].claim /\ runs[r].status # "unused"
    BY <2>1, <2>2 DEF TypeOK, RunType
  <2> QED
    BY <2>3 DEF TokensMatch
<1> QED
  BY <1>1, <1>2, <1>3, <1>4, LeaseSteps

\* A call with the token of run k, forced by nobody, ends run k or none.
LEMMA OutcomeEndsHeld ==
    ASSUME LeaseInv, TokensMatch, NEW t \in Tasks, NEW k \in Runs,
           RecordOutcome(t, k) \/ ReleaseTask(t, Self, k),
           NEW r \in Runs, runs'[r] # runs[r]
    PROVE  r = k
<1>1. /\ task[t].status = "running" /\ task[t].claim.token = k
      /\ \E status \in Results : EndRun(t, status)
  BY DEF RecordOutcome, CompleteRunning, CompleteReviewed, SubmitReview, BlockRunning,
         BlockIdle, ReleaseTask, HoldsClaim, Results
<1>2. r = task[t].run
  BY <1>1 DEF EndRun, LeaseInv, TypeOK
<1>3. runs[r].status = "running" /\ runs[r].claim = task[t].claim
  BY <1>1, <1>2 DEF LeaseInv, ClaimMatchesRun, ActiveRuns
<1> QED
  BY <1>1, <1>3 DEF TokensMatch

\* What the loop does between two awaits, seen from a run that is open.
LEMMA LoopEndsItsOwn ==
    ASSUME DInv, TokensMatch, DNext, NEW r \in Runs,
           runs[r].status = "running", runs'[r].status # "running"
    PROVE  \/ UNCHANGED loopVars
           \/ r = held.run
           \/ pc = "sweep" /\ Expired(runs[r].task)
<1>0. LeaseInv /\ TypeOK /\ LoopTyped /\ DispatcherTypeOK /\ runs'[r] # runs[r]
  BY DEF DInv, LeaseInv, LoopTyped
<1>1. CASE Callers \/ TimePasses
  BY <1>1 DEF Callers, TimePasses
<1>2. CASE Sweep
  <2>1. PICK t \in late : pc = "sweep" /\ ReclaimExpired(t)
    BY <1>0, <1>2 DEF Sweep, vars
  <2>2. t \in Tasks /\ task[t].status = "running" /\ Expired(t) /\ EndRun(t, "expired")
    BY <1>0, <2>1 DEF ReclaimExpired, DispatcherTypeOK
  <2>3. r = task[t].run
    BY <1>0, <2>2 DEF EndRun, TypeOK
  <2>4. runs[r].task = t
    BY <1>0, <2>2, <2>3 DEF LeaseInv, ClaimMatchesRun, ActiveRuns
  <2> QED
    BY <2>1, <2>2, <2>4
<1>3. CASE Claim
  <2>1. PICK q \in Runs : ClaimTask(picked, Self, q, ClaimTtl)
    BY <1>0, <1>3 DEF Claim, vars
  <2>2. runs[q].status = "unused" /\ \A k \in Runs \ {q} : runs'[k] = runs[k]
    BY <1>0, <2>1 DEF ClaimTask, TypeOK
  <2> QED
    BY <1>0, <2>2
<1>4. CASE Beat
  <2>1. held.task \in Tasks /\ held.run \in Runs
    BY <1>0, <1>4, HeldFields DEF Beat, Busy
  <2>2. Heartbeat(held.task, Self, held.run, ClaimTtl)
    BY <1>0, <1>4, BeatCalls DEF vars
  <2>3. Renews(held.task)
    BY <2>1, <2>2, ProfileAssumption DEF Renews
  <2> QED
    BY <1>0, <2>1, <2>3, RenewFields DEF RenewWrites
<1>5. CASE GiveUp
  <2>1. held.task \in Tasks /\ held.run \in Runs
    BY <1>0, <1>5, HeldFields DEF GiveUp, Busy
  <2>2. ReleaseTask(held.task, Self, held.run)
    BY <1>0, <1>5, GiveUpCalls DEF vars
  <2> QED
    BY <1>0, <2>1, <2>2, OutcomeEndsHeld
<1>6. CASE Finish
  <2>1. held.task \in Tasks /\ held.run \in Runs
    BY <1>0, <1>6, HeldFields DEF Finish, Busy
  <2>2. RecordOutcome(held.task, held.run)
    BY <1>0, <1>6, FinishCalls DEF vars
  <2> QED
    BY <1>0, <2>1, <2>2, OutcomeEndsHeld
<1>7. CASE Poll \/ ListExpired \/ List \/ Sleep \/ Spawn \/ Collect \/ WorkerExits
  BY <1>0, <1>7 DEF Poll, ListExpired, List, Sleep, Spawn, Collect, WorkerExits, vars
<1>8. CASE ForceEnd \/ LoopFails \/ Crash \/ Interrupt \/ Restart
  BY <1>0, <1>8 DEF ForceEnd, LoopFails, Crash, Interrupt, Restart, StoreFails, vars
<1> QED
  BY <1>1, <1>2, <1>3, <1>4, <1>5, <1>6, <1>7, <1>8, Zenon DEF DNext, Loop

\* dispatcher.rs: however long the loop is kept waiting, and whoever holds the
\* task by then, it ends no run but its own and those it found expired.
THEOREM OnlyOwnRunsAreEnded == DSpec => OnlyOwnRunIsEnded
<1>1. DInit => TokensMatch
  BY DEF DInit, Init, NoRun, TokensMatch
<1>2. DInv /\ TokensMatch /\ [DNext]_dvars => TokensMatch'
  BY ServiceSteps, TokensMatchStep DEF DInv, LeaseInv
<1>3. DInv /\ TokensMatch /\ [DNext]_dvars =>
        [\A r \in Runs :
            runs[r].status = "running" /\ runs'[r].status # "running" =>
                \/ UNCHANGED loopVars
                \/ r = held.run
                \/ pc = "sweep" /\ Expired(runs[r].task)]_dvars
  BY LoopEndsItsOwn
<1> QED
  BY <1>1, <1>2, <1>3, DInvAlways, PTL DEF DSpec, OnlyOwnRunIsEnded
=============================================================================
