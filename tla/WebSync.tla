------------------------------ MODULE WebSync ------------------------------
(***************************************************************************)
(* WebSyncController with the board's sink: the browser's side of the      *)
(* event stream.  Events come by SSE and by polling through one queue;     *)
(* each of them makes the sink reload the board, and is confirmed after    *)
(* that.  A gap that cannot be excluded is closed by a recovery: reload,   *)
(* collect the events after the confirmed cursor, apply them, and only     *)
(* then promote what was staged, while the next connection is already up.  *)
(* Anomalies of the protocol are counted; too many open a circuit.         *)
(*                                                                         *)
(* An action is what runs between two awaits.  A callback is old once      *)
(* connectionEpoch or generation have moved on from the token it carries.  *)
(***************************************************************************)
EXTENDS EventStream, FiniteSets

CONSTANTS
    Unknown,        \* events of a kind this client does not know
    MaxAttempts,    \* maxAnomalyAttempts
    MaxQueue,       \* bound on the tasks that wait in ingestTail
    MaxFaults       \* bound on what disturbs: bad frames, lost connections, failed
                    \* requests, needless stalls and the user's own reloads

ASSUME SyncAssumption ==
    /\ Unknown \subseteq 1..MaxEvents
    /\ MaxAttempts \in Nat \ {0} /\ {MaxQueue, MaxFaults} \subseteq Nat

VARIABLES
    ctl,            \* state, lastConfirmedCursor, anomalyAttempts, flags
    seen,           \* seenIds
    queue,          \* ingestTail: what waits to be ingested
    effect,         \* the sink's onEvent that is running
    load,           \* the newest reload of the board's model
    rec,            \* the recovery and its stage
    poll,           \* the page pollOnce is feeding
    startTimer, retryTimer,     \* a recovery that is scheduled
    shown,          \* last event the published model can know of
    applied,        \* events that were reported as applied
    faults

syncVars == <<ctl, seen, queue, effect, load, rec, poll, startTimer, retryTimer, shown, applied,
              faults>>
vars == <<streamVars, syncVars>>

States == {"connecting", "live", "recovering", "polling", "circuit-open", "stopped"}

NoEffect == [who |-> "none", ev |-> 0, phase |-> "loading"]
NoLoad == [who |-> "none", at |-> 0]
NoPoll == [on |-> FALSE, next |-> 0, upto |-> 0]
NoRec == [step |-> "none", after |-> 0, budgeted |-> FALSE, hw |-> 0, pre |-> {}, buffer |-> {},
          seen |-> {}, cursor |-> 0]

Upper(a, b) == IF a > b THEN a ELSE b
MaxOf(S) == CHOOSE n \in S : \A m \in S : m <= n
MinOf(S) == CHOOSE n \in S : \A m \in S : n <= m

\* start() has opened the first connection.
Init ==
    /\ log = 0
    /\ conn = Opened(0)
    /\ ctl = [state |-> "connecting", cursor |-> 0, attempts |-> 0, barrier |-> FALSE,
              sawLive |-> FALSE, polling |-> FALSE]
    /\ seen = {} /\ applied = {}
    /\ queue = <<>>
    /\ effect = NoEffect /\ load = NoLoad /\ rec = NoRec /\ poll = NoPoll
    /\ startTimer = "none" /\ retryTimer = "none"
    /\ shown = 0 /\ faults = 0

Fault == faults < MaxFaults /\ faults' = faults + 1

Task(what, ev) == [what |-> what, ev |-> ev, old |-> FALSE]

Aged(q) == [i \in DOMAIN q |-> [q[i] EXCEPT !.old = TRUE]]

\* recovery # null.  A recovery that ended as "stranded" is over, but has left
\* its stage behind.
Recovering == rec.step \notin {"none", "stranded"}

\* recoveryStage # null.
Staging == rec.step # "none"

(***************************************************************************)
(* Fences.  Each moves the token on, closes the connection and aborts what *)
(* the sink and the poll are doing.                                        *)
(***************************************************************************)
NewToken(q) ==
    /\ queue' = Aged(q)
    /\ effect' = NoEffect
    /\ poll' = NoPoll

Aborted == IF load.who = "refresh" THEN load ELSE NoLoad

\* beginRecovery: the next connection overlaps with the recovery.
BeginRecovery(c, q, budgeted, pre) ==
    /\ NewToken(q)
    /\ ctl' = [c EXCEPT !.state = "recovering", !.barrier = FALSE, !.sawLive = FALSE,
                        !.polling = TRUE]
    /\ rec' = [step |-> "reload", after |-> c.cursor, budgeted |-> budgeted, hw |-> 0,
               pre |-> pre, buffer |-> pre, seen |-> seen \cup pre,
               cursor |-> MaxOf(pre \cup {c.cursor})]
    /\ conn' = Opened(c.cursor)
    /\ load' = [who |-> "recovery", at |-> log]
    /\ UNCHANGED seen

\* fenceRecoveryConnection.
RecoveryFenced(c, q) ==
    /\ NewToken(q)
    /\ ctl' = [c EXCEPT !.barrier = TRUE, !.sawLive = FALSE]
    /\ rec' = NoRec
    /\ conn' = NoConn
    /\ load' = Aborted
    /\ UNCHANGED <<seen, startTimer>>

\* Mutant: nothing is scheduled to try again.
FenceRecovery_NoTimer(c, q, timer) == RecoveryFenced(c, q) /\ retryTimer' = "none"

\* scheduleRecoveryConnectionRetry follows.
FenceRecovery(c, q, timer) == RecoveryFenced(c, q) /\ retryTimer' = timer

\* fenceConnection: the barrier stays up if a recovery was under way.
Fenced(c, state) ==
    [c EXCEPT !.state = state, !.sawLive = FALSE, !.polling = TRUE,
              !.barrier = @ \/ Recovering \/ c.state = "recovering"]

ScheduleRecovery(c, q, timer) ==
    /\ NewToken(q)
    /\ ctl' = Fenced(c, "polling")
    /\ rec' = NoRec
    /\ conn' = NoConn
    /\ load' = Aborted
    /\ startTimer' = timer
    /\ retryTimer' = "none"
    /\ UNCHANGED seen

OpenCircuit(c, q) ==
    /\ NewToken(q)
    /\ ctl' = Fenced(c, "circuit-open")
    /\ rec' = NoRec
    /\ conn' = NoConn
    /\ load' = Aborted
    /\ startTimer' = "none" /\ retryTimer' = "none"
    /\ UNCHANGED seen

\* protocolFailure, for an anomaly met in the recovery or outside.
ProtocolFailure(c, q) ==
    LET counted == [c EXCEPT !.attempts = @ + 1] IN
    IF ~Recovering /\ startTimer # "none"
    THEN /\ ctl' = c /\ queue' = q
         /\ UNCHANGED <<conn, rec, effect, load, poll, seen, startTimer, retryTimer>>
    ELSE IF counted.attempts >= MaxAttempts THEN OpenCircuit(counted, q)
    ELSE IF Recovering THEN FenceRecovery(counted, q, "budgeted")
    ELSE ScheduleRecovery(counted, q, "budgeted")

\* The catch of performRecovery.
FailRecovery(counts) ==
    LET counted == [ctl EXCEPT !.attempts = @ + 1] IN
    IF ~counts THEN ScheduleRecovery(ctl, queue, "plain")
    ELSE IF ctl.attempts >= MaxAttempts \/ (ctl.attempts = 0 /\ MaxAttempts <= 1)
    THEN OpenCircuit([ctl EXCEPT !.attempts = IF @ = 0 THEN 1 ELSE @], queue)
    ELSE ScheduleRecovery(counted, queue, "budgeted")

(***************************************************************************)
(* The connection: what it delivers waits in ingestTail.                   *)
(***************************************************************************)
Receive(task) ==
    /\ Len(queue) < MaxQueue
    /\ queue' = Append(queue, task)
    /\ UNCHANGED <<ctl, seen, effect, load, rec, poll, startTimer, retryTimer, shown, applied>>

EventArrives ==
    /\ SendEvent
    /\ Receive(Task("event", Head(conn.pending)))
    /\ UNCHANGED faults

\* The deadline of the heartbeat passes; it goes before what waits to be sent.
HeartbeatArrives ==
    /\ conn.pc = "open"
    /\ \A i \in DOMAIN queue : queue[i].what # "heartbeat"
    /\ Receive(Task("heartbeat", 0))
    /\ UNCHANGED <<streamVars, faults>>

\* A frame that does not pass validateControl, parseEnvelope or validateBusiness.
BadFrameArrives ==
    /\ conn.pc = "open"
    /\ Fault
    /\ Receive(Task("bad", 0))
    /\ UNCHANGED streamVars

\* The transport may report that it broke, or may hang.
ConnectionBreaks ==
    /\ Break
    /\ Fault
    /\ \/ Receive(Task("error", 0))
       \/ UNCHANGED <<ctl, seen, queue, effect, load, rec, poll, startTimer, retryTimer, shown,
                      applied>>

(***************************************************************************)
(* ingestFrame, ingestEnvelope and handleTransportFailure.                 *)
(***************************************************************************)

\* Mutant: a callback is taken for current whatever token it carries.
Current_Always(task) == TRUE

\* isCurrent.
Current(task) == ~task.old

\* Only the stage counts while there is one.
StageSeen == IF Staging THEN rec.seen ELSE seen
StageCursor == IF Staging THEN rec.cursor ELSE ctl.cursor

\* Whoever sends frames is alive; live again is a client that recovers nothing.
Lively(task) ==
    CASE task.what = "poll" -> ctl
      [] task.what # "poll" /\ Recovering -> [ctl EXCEPT !.sawLive = TRUE]
      [] OTHER -> [ctl EXCEPT !.state = "live", !.polling = FALSE]

Confirmed(c, n) ==
    IF n > c.cursor THEN [c EXCEPT !.cursor = n, !.attempts = 0] ELSE c

Drop ==
    /\ queue' = Tail(queue)
    /\ UNCHANGED <<conn, ctl, seen, effect, load, rec, poll, startTimer, retryTimer>>

\* An event that is new is staged in a recovery; otherwise the sink is called.
Accept(task, c) ==
    /\ queue' = Tail(queue)
    /\ ctl' = c
    /\ poll' = IF c.polling THEN poll ELSE NoPoll
    /\ IF Recovering
       THEN /\ rec' = [rec EXCEPT !.buffer = @ \cup {task.ev}, !.seen = @ \cup {task.ev},
                                  !.cursor = Upper(@, task.ev)]
            /\ UNCHANGED <<effect, load>>
       ELSE /\ effect' = [who |-> "ingest", ev |-> task.ev, phase |-> "loading"]
            /\ load' = [who |-> "effect", at |-> log]
            /\ UNCHANGED rec
    /\ UNCHANGED <<conn, seen, startTimer, retryTimer>>

\* Nothing of it is news; a frame proves the connection alive.
Note(task, c) ==
    /\ queue' = Tail(queue)
    /\ ctl' = IF Staging \/ task.what = "heartbeat" THEN c ELSE Confirmed(c, task.ev)
    /\ rec' = IF Staging THEN [rec EXCEPT !.cursor = Upper(@, task.ev)] ELSE rec
    /\ poll' = IF c.polling THEN poll ELSE NoPoll
    /\ UNCHANGED <<conn, seen, effect, load, startTimer, retryTimer>>

\* Mutant: an event that was seen is not recognised.
Decision_NoDuplicates(ev) == "new"

\* dedupeDecision.
Decision(ev) ==
    CASE ev \in StageSeen -> "duplicate"
      [] ev \notin StageSeen /\ ev <= StageCursor -> "stale"
      [] OTHER -> "new"

IngestEvent(task) ==
    CASE ctl.barrier -> Drop
      [] ~ctl.barrier /\ Decision(task.ev) = "duplicate" -> Note(task, Lively(task))
      [] ~ctl.barrier /\ Decision(task.ev) = "stale" ->
             ProtocolFailure(Lively(task), Tail(queue))
      [] OTHER -> Accept(task, Lively(task))

IngestTask(task) ==
    CASE task.what = "bad" ->
             IF ctl.state = "circuit-open" THEN Drop ELSE ProtocolFailure(ctl, Tail(queue))
      [] task.what = "error" ->
             IF ctl.state = "circuit-open" THEN Drop
             ELSE IF Recovering THEN FenceRecovery(ctl, Tail(queue), "plain")
             ELSE BeginRecovery(ctl, Tail(queue), FALSE, {})
                  /\ UNCHANGED <<startTimer, retryTimer>>
      [] task.what = "heartbeat" -> Note(task, Lively(task))
      [] OTHER -> IngestEvent(task)

Ingest ==
    /\ queue # <<>> /\ effect.who # "ingest"
    /\ IF Current(Head(queue)) THEN IngestTask(Head(queue)) ELSE Drop
    /\ UNCHANGED <<log, shown, applied, faults>>

(***************************************************************************)
(* The sink's reloads.  A reload that starts aborts the one before it, and *)
(* only the newest is published.                                           *)
(***************************************************************************)
LoadDone ==
    /\ load.who # "none"
    /\ shown' \in load.at..log
    /\ load' = NoLoad
    /\ effect' = IF load.who = "effect" THEN [effect EXCEPT !.phase = "shown"] ELSE effect
    /\ rec' = IF load.who = "recovery" THEN [rec EXCEPT !.step = "collect"] ELSE rec
    /\ UNCHANGED <<streamVars, ctl, seen, queue, poll, startTimer, retryTimer, applied, faults>>

\* What a failed or aborted reload leaves to whoever awaits it.
Failed(who) ==
    /\ effect' = IF who = "effect" THEN [effect EXCEPT !.phase = "failed"] ELSE effect
    /\ rec' = IF who = "recovery" THEN [rec EXCEPT !.step = "failed"] ELSE rec

LoadFails ==
    /\ load.who # "none"
    /\ Fault
    /\ Failed(load.who)
    /\ load' = NoLoad
    /\ UNCHANGED <<streamVars, ctl, seen, queue, poll, startTimer, retryTimer, shown, applied>>

\* refresh() of the board session uses the same query.
Refresh ==
    /\ ctl.state # "stopped" /\ load.who # "refresh"
    /\ Fault
    /\ Failed(load.who)
    /\ load' = [who |-> "refresh", at |-> log]
    /\ UNCHANGED <<streamVars, ctl, seen, queue, poll, startTimer, retryTimer, shown, applied>>

(***************************************************************************)
(* applyEvent goes on after invokeEffect.                                  *)
(***************************************************************************)

\* The sink has done its work.
Ready == effect.phase = "shown"

\* commitEvent: confirmed, or only staged if a stage is still there.
CommitIngested(ev) ==
    IF Staging
    THEN /\ rec' = [rec EXCEPT !.seen = @ \cup {ev}, !.cursor = Upper(@, ev)]
         /\ UNCHANGED <<ctl, seen>>
    ELSE /\ seen' = seen \cup {ev}
         /\ ctl' = Confirmed(ctl, ev)
         /\ UNCHANGED rec

EffectDone ==
    /\ effect.who = "ingest" /\ Ready
    /\ applied' = applied \cup {effect.ev}
    /\ IF effect.ev \in Unknown
       THEN BeginRecovery(ctl, queue, FALSE, {effect.ev})
       ELSE /\ CommitIngested(effect.ev)
            /\ effect' = NoEffect
            /\ UNCHANGED <<conn, queue, load, poll>>
    /\ UNCHANGED <<log, startTimer, retryTimer, shown, faults>>

EffectFails ==
    /\ effect.who = "ingest"
    /\ \/ effect.phase = "failed" /\ UNCHANGED faults
       \/ effect.phase = "loading" /\ Fault
    /\ BeginRecovery(ctl, queue, FALSE, {})
    /\ UNCHANGED <<log, startTimer, retryTimer, shown, applied>>

(***************************************************************************)
(* performRecovery.                                                        *)
(***************************************************************************)

\* collectEvents pages to the end of the log; the boundary is staged.
Collect ==
    /\ rec.step = "collect"
    /\ rec' = [rec EXCEPT !.step = "replay", !.hw = log,
                          !.seen = @ \cup ((rec.after + 1)..log), !.cursor = Upper(@, log)]
    /\ UNCHANGED <<streamVars, ctl, seen, queue, effect, load, poll, startTimer, retryTimer, shown,
                   applied, faults>>

\* Mutant: only the boundary is replayed.
Owed_NoBuffer == ((rec.after + 1)..rec.hw) \ rec.pre

\* Events of the boundary, then of the buffer, that were not applied yet.
Owed == (((rec.after + 1)..rec.hw) \cup rec.buffer) \ rec.pre

Replay ==
    /\ rec.step = "replay" /\ effect.who = "none" /\ Owed # {}
    /\ effect' = [who |-> "recovery", ev |-> MinOf(Owed), phase |-> "loading"]
    /\ load' = [who |-> "effect", at |-> log]
    /\ UNCHANGED <<streamVars, ctl, seen, queue, rec, poll, startTimer, retryTimer, shown, applied,
                   faults>>

ReplayDone ==
    /\ effect.who = "recovery" /\ Ready
    /\ applied' = applied \cup {effect.ev}
    /\ IF effect.ev \in Unknown
       THEN BeginRecovery(ctl, queue, FALSE, rec.pre \cup {effect.ev}) /\ retryTimer' = "none"
       ELSE /\ rec' = [rec EXCEPT !.pre = @ \cup {effect.ev}]
            /\ effect' = NoEffect
            /\ UNCHANGED <<conn, ctl, seen, queue, load, poll, retryTimer>>
    /\ UNCHANGED <<log, startTimer, shown, faults>>

RecoveryFails ==
    /\ \/ rec.step = "failed" /\ FailRecovery(rec.budgeted) /\ UNCHANGED faults
       \/ rec.step = "collect" /\ Fault /\ \E counts \in {rec.budgeted, TRUE} : FailRecovery(counts)
       \/ effect.who = "recovery" /\ effect.phase = "failed" /\ FailRecovery(FALSE) /\ UNCHANGED faults
    /\ UNCHANGED <<log, shown, applied>>

\* A replayed effect runs out of time.  invokeEffect aborts it before it rejects
\* it, so that performRecovery sees SinkEffectCancelled and returns: nothing is
\* fenced or scheduled, the next frame is ingested as if all were well, and the
\* stage of the recovery that is no more still decides what is news.
ReplayTimesOut ==
    /\ effect.who = "recovery" /\ effect.phase = "loading"
    /\ Fault
    /\ rec' = [rec EXCEPT !.step = "stranded", !.pre = {}, !.buffer = {}]
    /\ effect' = NoEffect /\ load' = NoLoad
    /\ UNCHANGED <<streamVars, ctl, seen, queue, poll, startTimer, retryTimer, shown, applied>>

\* promoteRecoveryStage, in one go with the last look at the buffer.  The
\* connection is still there: the transport never closes it by itself, and
\* whoever closes it here ends the recovery as well.
Promote ==
    /\ rec.step = "replay" /\ effect.who = "none" /\ Owed = {}
    /\ seen' = rec.seen
    /\ ctl' = [Confirmed(ctl, Upper(rec.cursor, rec.hw)) EXCEPT
                  !.state = IF ctl.sawLive THEN "live" ELSE "connecting",
                  !.polling = ~ctl.sawLive]
    /\ poll' = IF ctl.sawLive THEN NoPoll ELSE poll
    /\ rec' = NoRec
    /\ retryTimer' = "none"
    /\ UNCHANGED <<streamVars, queue, effect, load, startTimer, shown, applied, faults>>

(***************************************************************************)
(* Timers and calls.                                                       *)
(***************************************************************************)

\* The liveness timer of a connection from which nothing comes any more, or
\* whose frames wait too long behind a slow effect.
Stalled ==
    /\ \/ conn.pc = "dead" /\ UNCHANGED faults
       \/ conn.pc = "open" /\ Fault
    /\ IF Recovering THEN FenceRecovery(ctl, queue, "plain")
       ELSE BeginRecovery(ctl, queue, FALSE, {}) /\ UNCHANGED <<startTimer, retryTimer>>
    /\ UNCHANGED <<log, shown, applied>>

StartTimerFires ==
    /\ startTimer # "none"
    /\ startTimer' = "none"
    /\ IF Recovering
       THEN UNCHANGED <<conn, ctl, seen, queue, effect, load, rec, poll>>
       ELSE BeginRecovery(ctl, queue, startTimer = "budgeted", {})
    /\ UNCHANGED <<log, retryTimer, shown, applied, faults>>

RetryTimerFires ==
    /\ retryTimer # "none"
    /\ retryTimer' = "none"
    /\ IF Recovering
       THEN UNCHANGED <<conn, ctl, seen, queue, effect, load, rec, poll>>
       ELSE BeginRecovery(ctl, queue, retryTimer = "budgeted", {})
    /\ UNCHANGED <<log, startTimer, shown, applied, faults>>

\* pollOnce has its page, and feeds it to the queue event by event.
PollStart ==
    /\ ctl.polling /\ ctl.state \notin {"live", "circuit-open"}
    /\ ~poll.on /\ ctl.cursor < log
    /\ poll' = [on |-> TRUE, next |-> ctl.cursor + 1, upto |-> log]
    /\ UNCHANGED <<streamVars, ctl, seen, queue, effect, load, rec, startTimer, retryTimer, shown,
                   applied, faults>>

PollFeeds ==
    /\ poll.on /\ effect.who # "ingest"
    /\ \A i \in DOMAIN queue : queue[i].what # "poll"
    /\ IF poll.next > poll.upto
       THEN poll' = NoPoll /\ UNCHANGED queue
       ELSE /\ poll' = [poll EXCEPT !.next = @ + 1]
            /\ queue' = Append(queue, Task("poll", poll.next))
    /\ UNCHANGED <<streamVars, ctl, seen, effect, load, rec, startTimer, retryTimer, shown, applied,
                   faults>>

\* retry(), from the board's reconnect button.
Retry ==
    /\ ctl.state = "circuit-open"
    /\ BeginRecovery([ctl EXCEPT !.attempts = 0], queue, FALSE, {})
    /\ UNCHANGED <<log, startTimer, retryTimer, shown, applied, faults>>

\* The session is released.
Stop ==
    /\ ctl.state # "stopped"
    /\ NewToken(queue)
    /\ ctl' = [ctl EXCEPT !.state = "stopped", !.barrier = FALSE, !.polling = FALSE]
    /\ rec' = NoRec /\ conn' = NoConn /\ load' = NoLoad
    /\ startTimer' = "none" /\ retryTimer' = "none"
    /\ UNCHANGED <<log, seen, shown, applied, faults>>

Sink ==
    \/ LoadDone \/ EffectDone \/ EffectFails
    \/ Collect \/ Replay \/ ReplayDone \/ RecoveryFails \/ Promote

Timers == Stalled \/ StartTimerFires \/ RetryTimerFires

Next ==
    \/ (CommitEvent \/ PollLog) /\ UNCHANGED syncVars
    \/ EventArrives \/ HeartbeatArrives \/ BadFrameArrives \/ ConnectionBreaks
    \/ Ingest \/ Sink \/ LoadFails \/ ReplayTimesOut \/ Timers
    \/ PollStart \/ PollFeeds
    \/ Refresh \/ Retry \/ Stop

\* The server polls its log and sends what it found or, every 15 seconds, a
\* heartbeat; the browser's event loop, its timers and its requests go on.
\* Nobody has to write, refresh, retry or stop, and polling is only a help.
Fairness ==
    /\ WF_vars(PollLog /\ UNCHANGED syncVars)
    /\ WF_vars(EventArrives) /\ WF_vars(HeartbeatArrives)
    /\ WF_vars(Ingest) /\ WF_vars(Sink) /\ WF_vars(Timers)
    /\ WF_vars(PollFeeds)

Spec == Init /\ [][Next]_vars /\ Fairness

(***************************************************************************)
(* Properties.                                                             *)
(***************************************************************************)
TypeOK ==
    /\ StreamTypeOK
    /\ ctl \in [state : States, cursor : 0..MaxEvents, attempts : 0..MaxAttempts + 1,
                 barrier : BOOLEAN, sawLive : BOOLEAN, polling : BOOLEAN]
    /\ {seen, applied} \subseteq SUBSET (1..MaxEvents)
    /\ queue \in Seq([what : {"event", "heartbeat", "bad", "error", "poll"},
                      ev : 0..MaxEvents, old : BOOLEAN])
    /\ effect \in [who : {"none", "ingest", "recovery"}, ev : 0..MaxEvents,
                    phase : {"loading", "shown", "failed"}]
    /\ load \in [who : {"none", "effect", "recovery", "refresh"}, at : 0..MaxEvents]
    /\ poll \in [on : BOOLEAN, next : 0..MaxEvents + 1, upto : 0..MaxEvents]
    /\ rec \in [step : {"none", "reload", "collect", "replay", "failed", "stranded"},
                 after : 0..MaxEvents, budgeted : BOOLEAN, hw : 0..MaxEvents,
                 pre : SUBSET (1..MaxEvents), buffer : SUBSET (1..MaxEvents),
                 seen : SUBSET (1..MaxEvents), cursor : 0..MaxEvents]
    /\ {startTimer, retryTimer} \subseteq {"none", "plain", "budgeted"}
    /\ shown \in 0..MaxEvents
    /\ faults \in 0..MaxFaults

\* No event is lost: whatever is confirmed, and so asked for never again, was
\* applied and is in the model on the screen; and nothing newer than the
\* confirmed cursor was confirmed alone.
ConfirmedIsApplied ==
    /\ 1..ctl.cursor \subseteq applied
    /\ ctl.cursor <= shown
    /\ seen = 1..ctl.cursor

\* The client always waits for something: a recovery, the timer of one, or a
\* connection that is up or that the liveness timer watches over.  A recovery
\* whose replay ran out of time leaves no more than its connection.
SomethingIsPending ==
    /\ ctl.state = "recovering" =>
          \/ Recovering \/ retryTimer # "none"
          \/ rec.step = "stranded" /\ conn.pc # "none"
    /\ ctl.state = "polling" => startTimer # "none"
    /\ ctl.state \in {"connecting", "live"} => conn.pc # "none" /\ ~Recovering /\ ~ctl.barrier

\* Old callbacks have no effect: while the circuit is open or the client is
\* stopped nothing is applied, confirmed or published, but for a reload the
\* user asks for.
QuietWhenOff ==
    [][ctl.state \in {"circuit-open", "stopped"} /\ ctl'.state = ctl.state =>
         /\ ctl'.cursor = ctl.cursor /\ applied' = applied /\ seen' = seen
         /\ shown' # shown => load.who = "refresh" /\ ctl.state # "stopped"]_vars

\* An event that is confirmed is not applied again, although the stream, the
\* polls and the boundary of a recovery all bring it.
ConfirmedIsNotRepeated ==
    [][effect'.who # "none" /\ effect.who = "none" => effect'.ev > ctl.cursor]_vars

\* The client follows the log as an abstract feed does: three sources that
\* repeat, skip and reorder events, recoveries that begin over and a screen
\* with one shared query add up to events that are applied one after the other,
\* shown before they count, and confirmed once.  A client that lost its place
\* to a replay that ran out of time may take later events first, but confirms
\* none before it has begun over.
Feed == INSTANCE EventFeed WITH
            working <- effect.ev,
            confirmed <- ctl.cursor,
            adrift <- rec.step = "stranded"

ImplementsFeed == Feed!Spec

\* The screen catches up with the log once failures stop, unless the circuit
\* is open or the client stopped, or it is live on a stage that a replay which
\* ran out of time has left behind.
CatchesUp ==
    []<>(\/ ctl.state \in {"circuit-open", "stopped"}
         \/ ctl.state = "live" /\ ctl.cursor = log /\ shown = log
         \/ ctl.state = "live" /\ rec.step = "stranded")

(***************************************************************************)
(* A statement of apps/web/docs/sse-invalidation.md that the code does not *)
(* keep; a run shows how.                                                  *)
(***************************************************************************)

\* "Only after the replay is done and the cursor confirmed may the client be
\* live again and stop polling": with a replay that ran out of time the next
\* heartbeat makes it live, and events of the boundary are never applied.
LiveAfterReplay ==
    [][ctl.state # "live" /\ ctl'.state = "live" => (rec.after + 1)..rec.hw \subseteq applied']_vars
=============================================================================
