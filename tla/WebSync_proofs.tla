-------------------------- MODULE WebSync_proofs --------------------------
(***************************************************************************)
(* The safety of the browser's controller and of its stream, for a log,    *)
(* a page, a queue and budgets of any size: nothing it has confirmed is    *)
(* unapplied, nothing is confirmed twice, and a controller that is off     *)
(* does nothing more.                                                      *)
(***************************************************************************)
EXTENDS WebSync, NaturalsInduction, WellFoundedInduction, TLAPS

(***************************************************************************)
(* Types.                                                                  *)
(***************************************************************************)
Tasks == [what : {"event", "heartbeat", "bad", "error", "poll"}, ev : 0..MaxEvents, old : BOOLEAN]

CtlRows == [state : States, cursor : 0..MaxEvents, attempts : 0..MaxAttempts + 1,
            barrier : BOOLEAN, sawLive : BOOLEAN, polling : BOOLEAN]

ConnRows == [pc : {"none", "open", "dead"}, cursor : 0..MaxEvents, pending : Seq(1..MaxEvents)]

EffectRows == [who : {"none", "ingest", "recovery"}, ev : 0..MaxEvents,
               phase : {"loading", "shown", "failed"}]

LoadRows == [who : {"none", "effect", "recovery", "refresh"}, at : 0..MaxEvents]

PollRows == [on : BOOLEAN, next : 0..MaxEvents + 1, upto : 0..MaxEvents]

RecRows == [step : {"none", "reload", "collect", "replay", "failed", "stranded"},
            after : 0..MaxEvents, budgeted : BOOLEAN, hw : 0..MaxEvents, pre : SUBSET (1..MaxEvents),
            buffer : SUBSET (1..MaxEvents), seen : SUBSET (1..MaxEvents), cursor : 0..MaxEvents]

Timings == {"none", "plain", "budgeted"}

Rows ==
    /\ log \in 0..MaxEvents /\ conn \in ConnRows /\ ctl \in CtlRows
    /\ seen \in SUBSET (1..MaxEvents) /\ applied \in SUBSET (1..MaxEvents)
    /\ queue \in Seq(Tasks) /\ effect \in EffectRows /\ load \in LoadRows
    /\ poll \in PollRows /\ rec \in RecRows
    /\ startTimer \in Timings /\ retryTimer \in Timings
    /\ shown \in 0..MaxEvents /\ faults \in 0..MaxFaults

(***************************************************************************)
(* The inductive invariant.                                                *)
(***************************************************************************)
Off == ctl.state \in {"circuit-open", "stopped"}

\* A task that brings an event to a client that listens to it.
Live(x) == ~x.old /\ x.what \in {"event", "poll"}

\* The first m tasks of q bring all events after b up to e.
Covers(q, m, b, e) ==
    \A n \in (b + 1)..e : \E j \in 1..m : Live(q[j]) /\ q[j].ev = n

\* Without a gap: what comes before an event and after b is ahead of it.
Gapless(q, b) ==
    \A i \in 1..Len(q) : Live(q[i]) => Covers(q, i - 1, b, q[i].ev - 1)

\* The last event that is taken in, or being applied.
Base == IF effect.who = "ingest" THEN effect.ev ELSE StageCursor

Modes ==
    /\ ctl.attempts <= MaxAttempts \/ Off
    /\ SomethingIsPending
    /\ Recovering => ctl.state = "recovering"
    /\ Staging => ctl.state \in {"recovering", "live"} /\ conn.pc # "none"
    /\ ctl.barrier => conn.pc = "none"
    /\ \A i \in 1..Len(queue) : ~queue[i].old /\ queue[i].what # "poll" => conn.pc # "none"
    /\ effect.who = "ingest" => ~Recovering
    /\ effect.who = "recovery" => rec.step = "replay"
    /\ Off =>
         /\ conn.pc = "none" /\ ~poll.on /\ effect.who = "none"
         /\ startTimer = "none" /\ retryTimer = "none"
         /\ load.who # "none" => load.who = "refresh" /\ ctl.state # "stopped"
         /\ ctl.state = "stopped" => ~ctl.polling
         /\ \A i \in 1..Len(queue) : queue[i].old

Loads ==
    /\ shown <= log
    /\ load.who # "none" => shown <= load.at /\ load.at <= log
    /\ load.who = "recovery" => rec.step = "reload"
    /\ load.who = "effect" => effect.who # "none" /\ effect.phase = "loading" /\ effect.ev <= load.at
    /\ effect.who # "none" => effect.ev \in 1..log
    /\ effect.who # "none" /\ effect.phase = "loading" => load.who = "effect"
    /\ effect.who # "none" /\ effect.phase = "shown" => effect.ev <= shown

Order ==
    /\ \A i \in 1..Len(queue) :
         /\ queue[i].ev <= log
         /\ queue[i].what \in {"event", "poll"} => queue[i].ev >= 1
         /\ queue[i].what = "heartbeat" => queue[i].ev = 0
    /\ conn.cursor <= log /\ Len(conn.pending) <= conn.cursor
    /\ \A k \in 1..Len(conn.pending) : conn.pending[k] = conn.cursor - Len(conn.pending) + k
    /\ poll.on => poll.next >= 1 /\ poll.upto <= log
    /\ ~ctl.barrier =>
         /\ Gapless(queue, Base)
         /\ conn.pc = "open" =>
              Covers(queue, Len(queue), Base, conn.cursor - Len(conn.pending))
         /\ poll.on => Covers(queue, Len(queue), Base, poll.next - 1)

\* The events of the stage that are applied or will be.
Kept == rec.pre \cup rec.buffer \cup ((rec.after + 1)..rec.hw)

\* Until a recovery has collected its boundary, an event that was applied before
\* it began may leave a hole below it in the stage.
Stage ==
    /\ rec.after = ctl.cursor
    /\ rec.cursor \in rec.after..log
    /\ rec.hw <= rec.cursor
    /\ 1..rec.after \subseteq rec.seen /\ rec.seen \subseteq 1..rec.cursor
    /\ rec.step \in {"replay", "stranded"} => rec.seen = 1..rec.cursor
    /\ rec.pre \cup rec.buffer \subseteq (rec.after + 1)..rec.cursor
    /\ rec.step = "replay" => (rec.after + 1)..rec.cursor \subseteq Kept
    /\ rec.pre \subseteq applied
    /\ effect.who = "recovery" =>
         /\ effect.ev \in (rec.after + 1)..rec.cursor
         /\ (rec.after + 1)..(effect.ev - 1) \subseteq rec.pre

Confirmations ==
    /\ seen = 1..ctl.cursor /\ ctl.cursor <= log
    /\ seen \subseteq applied /\ applied \subseteq 1..shown
    /\ effect.who = "ingest" => effect.ev = StageCursor + 1
    /\ Staging => Stage

SyncInv == Rows /\ Modes /\ Loads /\ Order /\ Confirmations

(***************************************************************************)
(* Queues.                                                                 *)
(***************************************************************************)
LEMMA RowsAreTypes == Rows <=> TypeOK
BY DEF Rows, TypeOK, StreamTypeOK, Tasks, CtlRows, ConnRows, EffectRows, LoadRows, PollRows,
       RecRows, Timings

LEMMA NoRows ==
    /\ MaxEvents \in Nat /\ MaxAttempts \in Nat \ {0} /\ MaxFaults \in Nat
    /\ NoEffect \in EffectRows /\ NoLoad \in LoadRows /\ NoPoll \in PollRows
    /\ NoRec \in RecRows
BY SyncAssumption, StreamAssumption
DEF NoEffect, NoLoad, NoPoll, NoRec, EffectRows, LoadRows, PollRows, RecRows

LEMMA Differences ==
    \A a, b \in Nat : a - b \in Int /\ (a - b + 1) - 1 = a - b /\ a - (b - 1) = (a - b) + 1
OBVIOUS

\* Sets of numbers have a least and, if bounded, a greatest member.
LEMMA MinIsLeast ==
    ASSUME NEW S \in SUBSET Nat, S # {}
    PROVE  MinOf(S) \in S /\ \A m \in S : MinOf(S) <= m
<1> DEFINE R == OpToRel(<, Nat)
<1>0. IsWellFoundedOn(R, Nat)
  BY NatLessThanWellFounded, Zenon
<1> HIDE DEF R
<1>1. PICK n \in S : \A m \in S : <<m, n>> \notin R
  BY <1>0, WFMin, Zenon
<1>2. \A m \in S : ~ (m < n)
  BY <1>1 DEF R, OpToRel
<1>3. \A m \in S : n <= m
  BY <1>2
<1> QED
  BY <1>3 DEF MinOf

LEMMA MaxIsGreatest ==
    ASSUME NEW n \in Nat, NEW l \in Nat, n <= l, NEW S \in SUBSET ((n + 1)..l)
    PROVE  MaxOf(S \cup {n}) \in n..l /\ S \subseteq (n + 1)..MaxOf(S \cup {n})
<1> DEFINE U == {u \in Nat : \A m \in S \cup {n} : m <= u}
           k == MinOf(U)
<1>1. l \in U /\ \A m \in S \cup {n} : m \in n..l
  OBVIOUS
<1>2. U \in SUBSET Nat /\ U # {}
  BY <1>1
<1>3. k \in U /\ \A u \in U : k <= u
  <2> HIDE DEF U
  <2> QED
    BY <1>2, MinIsLeast
<1>4. k \in Nat /\ k <= l /\ n <= k /\ \A m \in S \cup {n} : m <= k
  BY <1>1, <1>3
<1>5. k \in S \cup {n}
  <2> SUFFICES ASSUME k \notin S \cup {n} PROVE FALSE
    OBVIOUS
  <2> HIDE DEF k
  <2>1. \A m \in S \cup {n} : m <= k - 1
    BY <1>1, <1>4
  <2>2. k - 1 \in U
    BY <1>4, <2>1
  <2>3. k <= k - 1
    BY <1>3, <2>2
  <2> QED
    BY <1>4, <2>3
<1>6. MaxOf(S \cup {n}) = k
  <2> HIDE DEF k
  <2>1. \A j \in S \cup {n} : (\A m \in S \cup {n} : m <= j) => j = k
    BY <1>1, <1>4, <1>5
  <2> QED
    BY <1>4, <1>5, <2>1 DEF MaxOf
<1> HIDE DEF k
<1> QED
  BY <1>1, <1>4, <1>6

LEMMA SomeNumbers ==
    ASSUME SyncInv
    PROVE  /\ Rows
           /\ log \in Nat /\ shown \in Nat /\ ctl.cursor \in Nat
           /\ conn.cursor \in Nat /\ Len(conn.pending) \in Nat
           /\ poll.next \in Nat /\ poll.upto \in Nat /\ Len(queue) \in Nat
           /\ effect.ev \in Nat /\ load.at \in Nat
           /\ rec.after \in Nat /\ rec.cursor \in Nat /\ rec.hw \in Nat
           /\ conn.cursor - Len(conn.pending) \in Int /\ poll.next - 1 \in Int
<1>1. Rows
  BY DEF SyncInv
<1>2. conn.pending \in Seq(1..MaxEvents) /\ queue \in Seq(Tasks)
  BY <1>1 DEF Rows, ConnRows
<1>3. Len(conn.pending) \in Nat /\ Len(queue) \in Nat
  BY <1>2
<1>4. log \in Nat /\ shown \in Nat /\ conn.cursor \in Nat /\ effect.ev \in Nat /\ load.at \in Nat
  BY <1>1, NoRows DEF Rows, ConnRows, EffectRows, LoadRows
<1>5. ctl.cursor \in Nat /\ poll.next \in Nat /\ poll.upto \in Nat
  BY <1>1, NoRows DEF Rows, CtlRows, PollRows
<1>6. rec.after \in Nat /\ rec.cursor \in Nat /\ rec.hw \in Nat
  BY <1>1, NoRows DEF Rows, RecRows
<1>7. conn.cursor - Len(conn.pending) \in Int
  BY <1>3, <1>4, Differences, Zenon
<1>8. poll.next - 1 \in Int
  BY <1>5
<1> QED
  BY <1>1, <1>3, <1>4, <1>5, <1>6, <1>7, <1>8, Zenon

\* A task whose event is in the log.
Fits(x) ==
    /\ x \in Tasks
    /\ x.ev <= log
    /\ x.what \in {"event", "poll"} => x.ev >= 1
    /\ x.what = "heartbeat" => x.ev = 0

FitQueue(q) == q \in Seq(Tasks) /\ \A i \in 1..Len(q) : Fits(q[i])

LEMMA QueueFits == SyncInv => FitQueue(queue)
<1> SUFFICES ASSUME SyncInv PROVE FitQueue(queue)
  OBVIOUS
<1>1. queue \in Seq(Tasks)
  BY DEF SyncInv, Rows
<1>2. \A i \in 1..Len(queue) : queue[i] \in Tasks
  BY <1>1
<1> QED
  BY <1>1, <1>2 DEF SyncInv, Order, FitQueue, Fits

LEMMA TailFits ==
    ASSUME NEW q, FitQueue(q), q # <<>>
    PROVE  /\ FitQueue(Tail(q)) /\ Fits(Head(q)) /\ Head(q) = q[1]
           /\ Len(Tail(q)) = Len(q) - 1 /\ Len(q) >= 1
           /\ \A i \in 1..Len(Tail(q)) : Tail(q)[i] = q[i + 1]
<1> DEFINE T == Tasks
<1>1. q \in Seq(T) /\ \A i \in 1..Len(q) : Fits(q[i])
  BY DEF FitQueue
<1> HIDE DEF T
<1>2. /\ Tail(q) \in Seq(T) /\ Head(q) = q[1]
      /\ Len(Tail(q)) = Len(q) - 1 /\ Len(q) >= 1
      /\ \A i \in 1..Len(Tail(q)) : Tail(q)[i] = q[i + 1]
  BY <1>1
<1>3. \A i \in 1..Len(Tail(q)) : i + 1 \in 1..Len(q)
  BY <1>1, <1>2
<1>4. FitQueue(Tail(q))
  BY <1>1, <1>2, <1>3 DEF FitQueue, T
<1> QED
  BY <1>1, <1>2, <1>4

LEMMA AppendFits ==
    ASSUME NEW q, FitQueue(q), NEW x, Fits(x)
    PROVE  /\ FitQueue(Append(q, x))
           /\ Len(Append(q, x)) = Len(q) + 1 /\ Append(q, x)[Len(q) + 1] = x
           /\ \A i \in 1..Len(q) : Append(q, x)[i] = q[i]
<1> DEFINE T == Tasks
<1>1. q \in Seq(T) /\ x \in T /\ \A i \in 1..Len(q) : Fits(q[i])
  BY DEF FitQueue, Fits
<1> HIDE DEF T
<1>2. /\ Append(q, x) \in Seq(T)
      /\ Len(Append(q, x)) = Len(q) + 1 /\ Append(q, x)[Len(q) + 1] = x
      /\ \A i \in 1..Len(q) : Append(q, x)[i] = q[i]
  BY <1>1
<1>3. \A i \in 1..(Len(q) + 1) : i = Len(q) + 1 \/ i \in 1..Len(q)
  BY <1>1
<1> QED
  BY <1>1, <1>2, <1>3 DEF FitQueue, T

LEMMA AgedFits ==
    ASSUME NEW q, FitQueue(q)
    PROVE  FitQueue(Aged(q)) /\ \A i \in 1..Len(Aged(q)) : Aged(q)[i].old
<1>1. DOMAIN q = 1..Len(q) /\ Len(q) \in Nat
  BY DEF FitQueue
<1>2. \A i \in 1..Len(q) :
         /\ Aged(q)[i] = [q[i] EXCEPT !.old = TRUE]
         /\ Fits(Aged(q)[i]) /\ Aged(q)[i].old
  BY <1>1 DEF FitQueue, Fits, Tasks, Aged
<1>3. Aged(q) \in Seq(Tasks) /\ Len(Aged(q)) = Len(q)
  <2>1. DOMAIN Aged(q) = 1..Len(q) /\ Aged(q) = [i \in 1..Len(q) |-> Aged(q)[i]]
    BY <1>1 DEF Aged
  <2>2. \A i \in 1..Len(q) : Aged(q)[i] \in Tasks
    BY <1>2 DEF Fits
  <2>3. Aged(q) \in [1..Len(q) -> Tasks]
    BY <2>1, <2>2
  <2> QED
    BY <1>1, <2>3
<1> QED
  BY <1>2, <1>3 DEF FitQueue

\* What is said of a queue stays true when an event is taken in, when nothing
\* that counts leaves it, and when its next event joins it.
LEMMA TailCovers ==
    ASSUME NEW q, FitQueue(q), q # <<>>, NEW b \in Nat, NEW d \in Nat, d >= b,
           Live(q[1]) => q[1].ev <= d,
           NEW m \in 1..Len(q), NEW e \in Int, Covers(q, m, b, e)
    PROVE  Covers(Tail(q), m - 1, d, e)
<1> SUFFICES ASSUME NEW n \in (d + 1)..e PROVE \E j \in 1..(m - 1) : Live(Tail(q)[j]) /\ Tail(q)[j].ev = n
  BY DEF Covers
<1>1. Len(q) \in Nat
  BY DEF FitQueue
<1>2. PICK j \in 1..m : Live(q[j]) /\ q[j].ev = n
  BY DEF Covers
<1>3. j # 1
  BY <1>2
<1>4. j - 1 \in 1..(m - 1) /\ j - 1 \in 1..Len(Tail(q))
  BY <1>1, <1>3, TailFits
<1>5. Tail(q)[j - 1] = q[j]
  <2>1. Tail(q)[j - 1] = q[(j - 1) + 1]
    BY <1>4, TailFits
  <2>2. (j - 1) + 1 = j
    OBVIOUS
  <2> QED
    BY <2>1, <2>2
<1> QED
  BY <1>2, <1>4, <1>5

LEMMA TailGapless ==
    ASSUME NEW q, FitQueue(q), q # <<>>, NEW b \in Nat, NEW d \in Nat, d >= b,
           Live(q[1]) => q[1].ev <= d, Gapless(q, b)
    PROVE  Gapless(Tail(q), d)
<1> SUFFICES ASSUME NEW i \in 1..Len(Tail(q)), Live(Tail(q)[i])
             PROVE  Covers(Tail(q), i - 1, d, Tail(q)[i].ev - 1)
  BY DEF Gapless
<1>1. Len(q) \in Nat /\ i + 1 \in 1..Len(q) /\ i \in 1..Len(q) /\ Tail(q)[i] = q[i + 1]
  BY TailFits DEF FitQueue
<1>2. q[i + 1].ev \in Nat
  BY <1>1 DEF FitQueue, Fits, Tasks
<1>3. Covers(q, (i + 1) - 1, b, q[i + 1].ev - 1)
  BY <1>1 DEF Gapless
<1>4. (i + 1) - 1 = i
  BY <1>1
<1>5. q[i + 1].ev - 1 \in Int /\ Covers(q, i, b, q[i + 1].ev - 1)
  BY <1>2, <1>3, <1>4
<1>6. Covers(Tail(q), i - 1, d, q[i + 1].ev - 1)
  BY <1>1, <1>5, TailCovers
<1> QED
  BY <1>1, <1>6

LEMMA AppendCovers ==
    ASSUME NEW q, FitQueue(q), NEW x, Fits(x), NEW b \in Nat, NEW e \in Int,
           Covers(q, Len(q), b, e)
    PROVE  /\ Covers(Append(q, x), Len(q) + 1, b, e)
           /\ Live(x) /\ x.ev = e + 1 => Covers(Append(q, x), Len(q) + 1, b, e + 1)
<1>1. Len(q) \in Nat
  BY DEF FitQueue
<1>2. \A n \in (b + 1)..e : \E j \in 1..(Len(q) + 1) :
         Live(Append(q, x)[j]) /\ Append(q, x)[j].ev = n
  BY <1>1, AppendFits DEF Covers
<1>3. ASSUME Live(x), x.ev = e + 1
      PROVE  \E j \in 1..(Len(q) + 1) : Live(Append(q, x)[j]) /\ Append(q, x)[j].ev = e + 1
  BY <1>1, <1>3, AppendFits
<1>4. \A n \in (b + 1)..(e + 1) : n = e + 1 \/ n \in (b + 1)..e
  OBVIOUS
<1>5. Covers(Append(q, x), Len(q) + 1, b, e)
  BY <1>2 DEF Covers
<1>6. ASSUME Live(x), x.ev = e + 1 PROVE Covers(Append(q, x), Len(q) + 1, b, e + 1)
  BY <1>2, <1>3, <1>4, <1>6 DEF Covers
<1> QED
  BY <1>5, <1>6

LEMMA AppendGapless ==
    ASSUME NEW q, FitQueue(q), NEW x, Fits(x), NEW b \in Nat, Gapless(q, b),
           Live(x) => Covers(q, Len(q), b, x.ev - 1)
    PROVE  Gapless(Append(q, x), b)
<1> SUFFICES ASSUME NEW i \in 1..Len(Append(q, x)), Live(Append(q, x)[i])
             PROVE  Covers(Append(q, x), i - 1, b, Append(q, x)[i].ev - 1)
  BY DEF Gapless
<1>1. Len(q) \in Nat /\ Len(Append(q, x)) = Len(q) + 1
  BY AppendFits DEF FitQueue
<1>2. CASE i = Len(q) + 1
  <2>1. Append(q, x)[i] = x /\ i - 1 = Len(q)
    BY <1>1, <1>2, AppendFits
  <2>2. \A j \in 1..Len(q) : Append(q, x)[j] = q[j]
    BY AppendFits
  <2> QED
    BY <2>1, <2>2 DEF Covers
<1>3. CASE i \in 1..Len(q)
  <2>1. Append(q, x)[i] = q[i]
    BY <1>3, AppendFits
  <2>2. \A j \in 1..(i - 1) : Append(q, x)[j] = q[j]
    BY <1>1, <1>3, AppendFits
  <2>3. Covers(q, i - 1, b, q[i].ev - 1)
    BY <1>3, <2>1 DEF Gapless
  <2> QED
    BY <2>1, <2>2, <2>3 DEF Covers
<1> QED
  BY <1>1, <1>2, <1>3

\* A client that has taken in more needs no more.
LEMMA CoversLess ==
    ASSUME NEW q, NEW m \in Int, NEW b \in Nat, NEW d \in Nat, d >= b, NEW e \in Int,
           Covers(q, m, b, e)
    PROVE  Covers(q, m, d, e)
BY DEF Covers

LEMMA GaplessLess ==
    ASSUME NEW q, FitQueue(q), NEW b \in Nat, NEW d \in Nat, d >= b, Gapless(q, b)
    PROVE  Gapless(q, d)
<1> SUFFICES ASSUME NEW i \in 1..Len(q), Live(q[i]) PROVE Covers(q, i - 1, d, q[i].ev - 1)
  BY DEF Gapless
<1>1. i - 1 \in Int /\ q[i].ev - 1 \in Int
  BY DEF FitQueue, Fits, Tasks
<1> QED
  BY <1>1, CoversLess DEF Gapless

(***************************************************************************)
(* The fences.                                                             *)
(***************************************************************************)
LEMMA SyncInit == Init => SyncInv
<1> SUFFICES ASSUME Init PROVE SyncInv
  OBVIOUS
<1>1. Len(queue) = 0 /\ Len(conn.pending) = 0 /\ ~Recovering /\ ~Staging
  BY DEF Init, Opened, Recovering, Staging, NoRec
<1>2. Rows
  BY NoRows DEF Init, Rows, CtlRows, ConnRows, States, Opened, Timings
<1>3. Modes
  BY <1>1, SyncAssumption DEF Init, Modes, SomethingIsPending, Off, Opened, NoEffect
<1>4. Loads
  BY DEF Init, Loads, NoEffect, NoLoad
<1>5. Order
  BY <1>1 DEF Init, Order, Opened, NoPoll, Gapless, Covers, Base, NoEffect, StageCursor
<1>6. Confirmations
  BY <1>1 DEF Init, Confirmations, NoEffect
<1> QED
  BY <1>2, <1>3, <1>4, <1>5, <1>6 DEF SyncInv

LEMMA NewTokenAges ==
    ASSUME NEW q, FitQueue(q), NewToken(q), log' = log
    PROVE  /\ queue' \in Seq(Tasks) /\ effect' = NoEffect /\ poll' = NoPoll
           /\ FitQueue(queue)'
           /\ \A i \in 1..Len(queue') : queue'[i].old
           /\ \A b : Gapless(queue', b)
<1>1. queue' = Aged(q) /\ effect' = NoEffect /\ poll' = NoPoll
  BY DEF NewToken
<1>2. FitQueue(queue') /\ \A i \in 1..Len(queue') : queue'[i].old
  BY <1>1, AgedFits
<1>3. FitQueue(queue)'
  BY <1>2 DEF FitQueue, Fits
<1> QED
  BY <1>1, <1>2, <1>3 DEF Gapless, Live, FitQueue

\* What every fence leaves right of the queue, and of what it would bring.
LEMMA FencedOrder ==
    ASSUME NEW q, FitQueue(q), NewToken(q), log' = log, SyncInv, Base' \in Nat,
           \/ conn' = NoConn
           \/ \E a \in 0..log : conn' = Opened(a) /\ a <= Base'
    PROVE  /\ Order' /\ conn' \in ConnRows
<1>1. /\ log \in 0..MaxEvents /\ MaxEvents \in Nat
  BY NoRows DEF SyncInv, Rows
<1>2. PICK a \in 0..log : /\ conn' = NoConn \/ conn' = Opened(a)
                         /\ a <= Base'
  <2>1. CASE conn' = NoConn
    BY <1>1, <2>1
  <2> QED
    BY <2>1
<1>3. /\ conn'.pending = <<>> /\ conn'.cursor \in 0..log
      /\ conn'.pc = "open" => conn'.cursor <= Base'
  BY <1>1, <1>2 DEF NoConn, Opened
<1>4. Len(conn'.pending) = 0 /\ conn'.pending \in Seq(1..MaxEvents)
  BY <1>3
<1>5. conn' \in ConnRows
  <2>1. <<>> \in Seq(1..MaxEvents) /\ 0 \in 0..MaxEvents /\ a \in 0..MaxEvents
    BY <1>1
  <2>2. CASE conn' = NoConn
    BY <2>1, <2>2 DEF NoConn, ConnRows
  <2>3. CASE conn' = Opened(a)
    BY <2>1, <2>3 DEF Opened, ConnRows
  <2> QED
    BY <1>2, <2>2, <2>3
<1>6. \A i \in 1..Len(queue') : Fits(queue[i])'
  BY NewTokenAges DEF FitQueue
<1>7. conn'.pc = "open" => Covers(queue', Len(queue'), Base', conn'.cursor - Len(conn'.pending))
  <2>1. conn'.cursor - Len(conn'.pending) = conn'.cursor /\ conn'.cursor \in Int
    BY <1>1, <1>3, <1>4
  <2>2. ASSUME conn'.cursor <= Base' PROVE (Base' + 1)..conn'.cursor = {}
    BY <2>1, <2>2
  <2> QED
    BY <1>3, <2>1, <2>2 DEF Covers
<1>8. poll'.on = FALSE /\ Gapless(queue', Base')
  BY NewTokenAges DEF NoPoll
<1> QED
  BY <1>1, <1>3, <1>4, <1>5, <1>6, <1>7, <1>8 DEF Order, Fits

LEMMA BeginKeeps ==
    ASSUME SyncInv, NEW c \in CtlRows, c.cursor = ctl.cursor, c.attempts <= MaxAttempts,
           NEW q, FitQueue(q), NEW budgeted \in BOOLEAN,
           NEW pre \in SUBSET ((ctl.cursor + 1)..log),
           BeginRecovery(c, q, budgeted, pre),
           log' = log, shown' = shown, applied \subseteq applied', applied' \subseteq 1..shown,
           pre \subseteq applied', startTimer' \in Timings, retryTimer' \in Timings,
           faults' \in 0..MaxFaults
    PROVE  SyncInv'
<1>1. /\ log \in 0..MaxEvents /\ shown \in 0..MaxEvents /\ MaxEvents \in Nat
      /\ ctl.cursor \in 0..MaxEvents /\ MaxAttempts \in Nat /\ shown <= log /\ ctl.cursor <= log
      /\ seen = 1..ctl.cursor /\ seen \subseteq applied /\ seen' = seen
  BY NoRows DEF SyncInv, Rows, CtlRows, Loads, Confirmations, BeginRecovery
<1>2. PICK k \in ctl.cursor..log :
         MaxOf(pre \cup {c.cursor}) = k /\ pre \subseteq (ctl.cursor + 1)..k
  <2>1. ctl.cursor \in Nat /\ log \in Nat
    BY <1>1
  <2> QED
    BY <1>1, <2>1, MaxIsGreatest
<1>3. /\ ctl' = [c EXCEPT !.state = "recovering", !.barrier = FALSE, !.sawLive = FALSE,
                          !.polling = TRUE]
      /\ rec' = [step |-> "reload", after |-> ctl.cursor, budgeted |-> budgeted, hw |-> 0,
                 pre |-> pre, buffer |-> pre, seen |-> seen \cup pre, cursor |-> k]
      /\ conn' = Opened(ctl.cursor)
      /\ load' = [who |-> "recovery", at |-> log]
      /\ NewToken(q)
  BY <1>2 DEF BeginRecovery
<1>4. /\ queue' \in Seq(Tasks) /\ effect' = NoEffect /\ poll' = NoPoll
      /\ \A i \in 1..Len(queue') : queue'[i].old
  BY <1>3, NewTokenAges
<1>5. /\ ctl' \in CtlRows /\ ctl'.state = "recovering" /\ ~ctl'.barrier /\ ctl'.cursor = ctl.cursor
      /\ ctl'.attempts <= MaxAttempts /\ conn'.pc = "open"
  BY <1>3 DEF CtlRows, States, Opened
<1>6. rec'.step = "reload" /\ Staging' /\ Base' = k /\ k \in Nat
  BY <1>1, <1>3, <1>4 DEF Staging, Base, StageCursor, NoEffect
<1>7. Order' /\ conn' \in ConnRows
  BY <1>1, <1>3, <1>6, FencedOrder
<1>8. Rows'
  <2>1. /\ k \in 0..MaxEvents /\ pre \subseteq 1..MaxEvents
        /\ seen \cup pre \subseteq 1..MaxEvents
    <3>1. log \in Nat /\ log <= MaxEvents /\ ctl.cursor \in Nat /\ ctl.cursor <= log
      BY <1>1
    <3>2. 1..ctl.cursor \subseteq 1..MaxEvents /\ (ctl.cursor + 1)..log \subseteq 1..MaxEvents
      BY <1>1, <3>1
    <3>3. k \in 0..MaxEvents
      BY <1>1, <3>1
    <3> QED
      BY <1>1, <3>2, <3>3
  <2>2. rec' \in RecRows /\ load' \in LoadRows
    BY <1>1, <1>3, <2>1 DEF RecRows, LoadRows
  <2> QED
    BY <1>1, <1>4, <1>5, <1>7, <2>2, NoRows DEF Rows
<1>9. Modes'
  BY <1>3, <1>4, <1>5, <1>6 DEF Modes, SomethingIsPending, Recovering, Off, NoEffect, NoPoll
<1>10. Loads'
  BY <1>1, <1>3, <1>4 DEF Loads, NoEffect
<1>11. Confirmations'
  <2>1. seen \cup pre \subseteq 1..k /\ 1..ctl.cursor \subseteq seen \cup pre /\ 0 <= k
    <3>1. ctl.cursor \in Nat /\ k \in Nat /\ ctl.cursor <= k
      BY <1>1, <1>2
    <3>2. 1..ctl.cursor \subseteq 1..k /\ (ctl.cursor + 1)..k \subseteq 1..k
      BY <3>1
    <3>3. pre \subseteq (ctl.cursor + 1)..k /\ seen = 1..ctl.cursor
      BY <1>1, <1>2
    <3>4. seen \cup pre \subseteq 1..k /\ 1..ctl.cursor \subseteq seen \cup pre
      BY <3>2, <3>3, Zenon
    <3>5. 0 <= k
      BY <3>1
    <3> QED
      BY <3>4, <3>5, Zenon
  <2>2. Stage'
    BY <1>1, <1>2, <1>3, <1>4, <1>5, <2>1 DEF Stage, NoEffect
  <2> QED
    BY <1>1, <1>3, <1>4, <1>5, <2>2 DEF Confirmations, NoEffect
<1> QED
  BY <1>7, <1>8, <1>9, <1>10, <1>11 DEF SyncInv

\* The fences that end a recovery without a successor.
LEMMA FallKeeps ==
    ASSUME SyncInv, NEW c \in CtlRows, c.cursor = ctl.cursor,
           NEW q, FitQueue(q), NewToken(q),
           ctl' \in CtlRows, ctl'.cursor = c.cursor, ctl'.attempts = c.attempts,
           rec' = NoRec, conn' = NoConn, load' = Aborted,
           log' = log, shown' = shown, applied' = applied, seen' = seen,
           startTimer' \in Timings, retryTimer' \in Timings, faults' \in 0..MaxFaults,
           c.attempts <= MaxAttempts \/ ctl'.state = "circuit-open",
           ctl'.state # "stopped" \/ (load' = NoLoad /\ ~ctl'.polling),
           \/ ctl'.state = "recovering" /\ retryTimer' # "none"
           \/ ctl'.state = "polling" /\ startTimer' # "none"
           \/ /\ ctl'.state \in {"circuit-open", "stopped"}
              /\ startTimer' = "none" /\ retryTimer' = "none"
    PROVE  SyncInv'
<1>1. /\ log \in 0..MaxEvents /\ shown \in 0..MaxEvents /\ MaxEvents \in Nat
      /\ ctl.cursor \in 0..MaxEvents /\ MaxAttempts \in Nat /\ shown <= log /\ ctl.cursor <= log
      /\ seen = 1..ctl.cursor /\ seen \subseteq applied /\ applied \subseteq 1..shown
  BY NoRows DEF SyncInv, Rows, CtlRows, Loads, Confirmations
<1>2. /\ queue' \in Seq(Tasks) /\ effect' = NoEffect /\ poll' = NoPoll
      /\ \A i \in 1..Len(queue') : queue'[i].old
  BY NewTokenAges
<1>3. ~Recovering' /\ ~Staging' /\ Base' = ctl.cursor /\ conn'.pc = "none" /\ effect'.who = "none"
  BY <1>2 DEF Recovering, Staging, Base, StageCursor, NoRec, NoEffect, NoConn
<1>4. load'.who \in {"none", "refresh"} /\ load' \in {load, NoLoad}
  BY DEF Aborted, NoLoad
<1>5. Order' /\ conn' \in ConnRows
  BY <1>1, <1>3, FencedOrder
<1>6. Rows'
  BY <1>1, <1>2, <1>4, <1>5, NoRows DEF SyncInv, Rows
<1>7. Modes'
  BY <1>2, <1>3, <1>4 DEF Modes, SomethingIsPending, Off, NoEffect, NoPoll, NoConn, NoLoad, CtlRows
<1>8. Loads'
  BY <1>1, <1>2, <1>3, <1>4 DEF SyncInv, Loads, NoLoad
<1>9. Confirmations'
  BY <1>1, <1>3 DEF Confirmations
<1> QED
  BY <1>5, <1>6, <1>7, <1>8, <1>9 DEF SyncInv

LEMMA FenceKeeps ==
    ASSUME SyncInv, NEW c \in CtlRows, c.cursor = ctl.cursor, c.attempts <= MaxAttempts,
           c.state = "recovering", NEW q, FitQueue(q), NEW timer \in {"plain", "budgeted"},
           FenceRecovery(c, q, timer),
           log' = log, shown' = shown, applied' = applied, faults' \in 0..MaxFaults
    PROVE  SyncInv'
<1>1. /\ ctl' = [c EXCEPT !.barrier = TRUE, !.sawLive = FALSE]
      /\ NewToken(q) /\ rec' = NoRec /\ conn' = NoConn /\ load' = Aborted
      /\ seen' = seen /\ startTimer' = startTimer /\ retryTimer' = timer
  BY DEF FenceRecovery, RecoveryFenced
<1>2. ctl' \in CtlRows /\ ctl'.cursor = c.cursor /\ ctl'.attempts = c.attempts
      /\ ctl'.state = "recovering"
  BY <1>1 DEF CtlRows
<1>3. startTimer' \in Timings /\ retryTimer' \in Timings
  BY <1>1 DEF SyncInv, Rows, Timings
<1> QED
  BY <1>1, <1>2, <1>3, FallKeeps

LEMMA ScheduleKeeps ==
    ASSUME SyncInv, NEW c \in CtlRows, c.cursor = ctl.cursor, c.attempts <= MaxAttempts,
           NEW q, FitQueue(q), NEW timer \in {"plain", "budgeted"},
           ScheduleRecovery(c, q, timer),
           log' = log, shown' = shown, applied' = applied, faults' \in 0..MaxFaults
    PROVE  SyncInv'
<1>1. /\ ctl' = Fenced(c, "polling")
      /\ NewToken(q) /\ rec' = NoRec /\ conn' = NoConn /\ load' = Aborted
      /\ seen' = seen /\ startTimer' = timer /\ retryTimer' = "none"
  BY DEF ScheduleRecovery
<1>2. ctl' \in CtlRows /\ ctl'.cursor = c.cursor /\ ctl'.attempts = c.attempts
      /\ ctl'.state = "polling"
  BY <1>1 DEF CtlRows, Fenced, States, Recovering
<1>3. startTimer' \in Timings /\ retryTimer' \in Timings
  BY <1>1 DEF Timings
<1> QED
  BY <1>1, <1>2, <1>3, FallKeeps

LEMMA OpenKeeps ==
    ASSUME SyncInv, NEW c \in CtlRows, c.cursor = ctl.cursor,
           NEW q, FitQueue(q), OpenCircuit(c, q),
           log' = log, shown' = shown, applied' = applied, faults' \in 0..MaxFaults
    PROVE  SyncInv'
<1>1. /\ ctl' = Fenced(c, "circuit-open")
      /\ NewToken(q) /\ rec' = NoRec /\ conn' = NoConn /\ load' = Aborted
      /\ seen' = seen /\ startTimer' = "none" /\ retryTimer' = "none"
  BY DEF OpenCircuit
<1>2. ctl' \in CtlRows /\ ctl'.cursor = c.cursor /\ ctl'.attempts = c.attempts
      /\ ctl'.state = "circuit-open"
  BY <1>1 DEF CtlRows, Fenced, States, Recovering
<1>3. startTimer' \in Timings /\ retryTimer' \in Timings
  BY <1>1 DEF Timings
<1> QED
  BY <1>1, <1>2, <1>3, FallKeeps

LEMMA CtlTyped ==
    ASSUME SyncInv
    PROVE  /\ ctl \in CtlRows /\ MaxAttempts \in Nat \ {0}
           /\ ~Off => ctl.attempts <= MaxAttempts
           /\ ~Off => [ctl EXCEPT !.attempts = @ + 1] \in CtlRows
           /\ ~Off => [ctl EXCEPT !.attempts = 1] \in CtlRows
           /\ [ctl EXCEPT !.attempts = 0] \in CtlRows
           /\ faults \in 0..MaxFaults
<1>1. ctl \in CtlRows /\ faults \in 0..MaxFaults /\ MaxAttempts \in Nat \ {0}
  BY NoRows DEF SyncInv, Rows
<1>2. ~Off => ctl.attempts <= MaxAttempts
  BY DEF SyncInv, Modes
<1> QED
  BY <1>1, <1>2 DEF CtlRows

LEMMA FailRecoveryKeeps ==
    ASSUME SyncInv, ~Off, NEW counts \in BOOLEAN, FailRecovery(counts),
           log' = log, shown' = shown, applied' = applied, faults' \in 0..MaxFaults
    PROVE  SyncInv'
<1> DEFINE counted == [ctl EXCEPT !.attempts = @ + 1]
           opened == [ctl EXCEPT !.attempts = IF @ = 0 THEN 1 ELSE @]
           full == ctl.attempts >= MaxAttempts \/ (ctl.attempts = 0 /\ MaxAttempts <= 1)
<1>1. FitQueue(queue) /\ ctl \in CtlRows
  BY QueueFits, CtlTyped
<1>2. counted \in CtlRows /\ counted.cursor = ctl.cursor /\ counted.attempts = ctl.attempts + 1
      /\ opened \in CtlRows /\ opened.cursor = ctl.cursor
  BY CtlTyped DEF CtlRows
<1>3. CASE ~counts
  <2>1. ScheduleRecovery(ctl, queue, "plain")
    BY <1>3 DEF FailRecovery
  <2> QED
    BY <2>1, <1>1, CtlTyped, ScheduleKeeps
<1>4. CASE counts /\ full
  <2>1. OpenCircuit(opened, queue)
    BY <1>4 DEF FailRecovery
  <2> QED
    BY <2>1, <1>1, <1>2, OpenKeeps
<1>5. CASE counts /\ ~full
  <2>1. ScheduleRecovery(counted, queue, "budgeted")
    BY <1>5 DEF FailRecovery
  <2>2. counted.attempts <= MaxAttempts
    BY <1>2, <1>5, CtlTyped DEF CtlRows
  <2> HIDE DEF counted
  <2> QED
    BY <2>1, <2>2, <1>1, <1>2, ScheduleKeeps
<1> QED
  BY <1>3, <1>4, <1>5

(***************************************************************************)
(* Ingestion.                                                              *)
(***************************************************************************)
LEMMA BaseTyped ==
    ASSUME SyncInv
    PROVE  /\ Base \in Nat /\ StageCursor \in Nat /\ StageCursor <= Base /\ Base <= log
           /\ StageSeen \subseteq 1..StageCursor
           /\ ~Recovering => StageSeen = 1..StageCursor
           /\ ~Staging => StageCursor = ctl.cursor
           /\ ctl.cursor \in Nat /\ ctl.cursor <= StageCursor
           /\ effect.who = "ingest" => Base = StageCursor + 1
<1>1. ctl.cursor \in Nat /\ seen = 1..ctl.cursor /\ ctl.cursor <= log /\ log \in Nat
  BY SomeNumbers DEF SyncInv, Confirmations
<1>2. Staging => /\ rec.cursor \in ctl.cursor..log /\ rec.seen \subseteq 1..rec.cursor
                 /\ ~Recovering => rec.seen = 1..rec.cursor
  BY DEF SyncInv, Confirmations, Stage, Staging, Recovering
<1>3. Recovering => Staging
  BY DEF Recovering, Staging
<1>4. effect.who = "ingest" => effect.ev = StageCursor + 1 /\ effect.ev <= log
  BY DEF SyncInv, Loads, Confirmations
<1> QED
  BY <1>1, <1>2, <1>3, <1>4 DEF Base, StageCursor, StageSeen

\* The order of what is left when a task has left the queue.
LEMMA TailOrder ==
    ASSUME SyncInv, queue # <<>>, queue' = Tail(queue), log' = log, conn' = conn,
           poll' \in {poll, NoPoll}, ctl'.barrier = ctl.barrier,
           NEW d \in Nat, d >= Base, Base' = d,
           ctl.barrier \/ (Live(Head(queue)) => Head(queue).ev <= d)
    PROVE  Order'
<1>1. /\ Head(queue) = queue[1] /\ Len(queue') = Len(queue) - 1
      /\ Len(queue) \in Nat /\ Len(queue) >= 1
      /\ \A i \in 1..Len(queue') : i + 1 \in 1..Len(queue) /\ queue'[i] = queue[i + 1]
  BY QueueFits, TailFits DEF FitQueue
<1>2. \A i \in 1..Len(queue') :
        /\ queue'[i].ev <= log
        /\ queue'[i].what \in {"event", "poll"} => queue'[i].ev >= 1
        /\ queue'[i].what = "heartbeat" => queue'[i].ev = 0
  BY <1>1 DEF SyncInv, Order
<1>3. poll'.on => poll'.next >= 1 /\ poll'.upto <= log /\ poll' = poll
  BY DEF SyncInv, Order, NoPoll
<1>4. ASSUME ~ctl.barrier
      PROVE  /\ Gapless(queue', d)
             /\ conn.pc = "open" =>
                  Covers(queue', Len(queue'), d, conn.cursor - Len(conn.pending))
             /\ poll'.on => Covers(queue', Len(queue'), d, poll.next - 1)
  <2>1. Gapless(queue, Base) /\ FitQueue(queue) /\ Base \in Nat /\ Len(queue) \in 1..Len(queue)
    BY <1>4, <1>1, QueueFits, BaseTyped DEF SyncInv, Order
  <2>2. Live(queue[1]) => queue[1].ev <= d
    BY <1>4, <1>1
  <2>3. Gapless(queue', d)
    BY <2>1, <2>2, TailGapless
  <2>4. \A e \in Int : Covers(queue, Len(queue), Base, e) => Covers(queue', Len(queue'), d, e)
    BY <2>1, <2>2, <1>1, TailCovers
  <2>5. conn.cursor - Len(conn.pending) \in Int /\ poll.next - 1 \in Int
    BY SomeNumbers, Zenon
  <2> QED
    BY <1>3, <1>4, <2>3, <2>4, <2>5 DEF SyncInv, Order
<1> QED
  BY <1>2, <1>3, <1>4 DEF SyncInv, Order

\* A task leaves the queue which has nothing new to say, or nobody to say it to.
LEMMA DropKeeps ==
    ASSUME SyncInv, queue # <<>>, queue' = Tail(queue),
           ctl.barrier \/ (Live(Head(queue)) => Head(queue).ev <= Base),
           UNCHANGED <<log, conn, seen, effect, load, rec, startTimer, retryTimer, shown, applied,
                       faults>>,
           poll' \in {poll, NoPoll},
           ctl' \in CtlRows, ctl'.cursor = ctl.cursor, ctl'.attempts = ctl.attempts,
           ctl'.barrier = ctl.barrier, ctl'.polling => ctl.polling,
           \/ ctl'.state = ctl.state
           \/ /\ ctl'.state = "live" /\ ctl.state \notin {"circuit-open", "stopped"}
              /\ ~Recovering /\ ~ctl.barrier /\ conn.pc # "none"
    PROVE  SyncInv'
<1> DEFINE T == Tasks
<1>1. /\ queue' \in Seq(T) /\ Head(queue) = queue[1] /\ Len(queue') = Len(queue) - 1
      /\ Len(queue) \in Nat /\ Len(queue) >= 1
      /\ \A i \in 1..Len(queue') : i + 1 \in 1..Len(queue) /\ queue'[i] = queue[i + 1]
  BY QueueFits, TailFits DEF FitQueue
<1>2. /\ Recovering' = Recovering /\ Staging' = Staging
      /\ StageCursor' = StageCursor /\ Base' = Base
  BY DEF Recovering, Staging, Base, StageCursor
<1>3. Rows'
  BY <1>1, NoRows DEF SyncInv, Rows
<1> HIDE DEF T
<1>4. Modes'
  BY <1>1, <1>2 DEF SyncInv, Modes, SomethingIsPending, Off, NoPoll
<1>5. Loads'
  BY DEF SyncInv, Loads
<1>6. Order'
  BY <1>2, BaseTyped, TailOrder
<1>7. Confirmations'
  BY <1>2 DEF SyncInv, Confirmations, Stage, Kept
<1> QED
  BY <1>3, <1>4, <1>5, <1>6, <1>7 DEF SyncInv

LEMMA ProtocolFailureKeeps ==
    ASSUME SyncInv, ~Off, queue # <<>>,
           NEW c \in CtlRows, c.cursor = ctl.cursor, c.attempts = ctl.attempts,
           c.barrier = ctl.barrier, c.polling => ctl.polling,
           \/ c.state = ctl.state
           \/ /\ c.state = "live" /\ ctl.state \notin {"circuit-open", "stopped"}
              /\ ~Recovering /\ ~ctl.barrier /\ conn.pc # "none",
           ctl.barrier \/ (Live(Head(queue)) => Head(queue).ev <= Base),
           ProtocolFailure(c, Tail(queue)),
           log' = log, shown' = shown, applied' = applied, faults' = faults
    PROVE  SyncInv'
<1> DEFINE counted == [c EXCEPT !.attempts = @ + 1]
<1>1. FitQueue(Tail(queue)) /\ faults \in 0..MaxFaults /\ c.attempts <= MaxAttempts
  BY QueueFits, TailFits, CtlTyped
<1>2. counted \in CtlRows /\ counted.cursor = ctl.cursor /\ counted.attempts = c.attempts + 1
      /\ counted.state = c.state
  BY <1>1, NoRows DEF CtlRows
<1>3. CASE ~Recovering /\ startTimer # "none"
  <2>1. ctl' = c /\ queue' = Tail(queue) /\ poll' = poll
        /\ UNCHANGED <<conn, rec, effect, load, seen, startTimer, retryTimer>>
    BY <1>3 DEF ProtocolFailure
  <2> QED
    BY <2>1, <1>1, DropKeeps
<1>4. CASE ~(~Recovering /\ startTimer # "none") /\ counted.attempts >= MaxAttempts
  <2>1. OpenCircuit(counted, Tail(queue))
    BY <1>4 DEF ProtocolFailure
  <2> HIDE DEF counted
  <2> QED
    BY <2>1, <1>1, <1>2, OpenKeeps
<1>5. counted.attempts <= MaxAttempts \/ counted.attempts >= MaxAttempts
  <2>1. MaxAttempts \in Nat /\ counted.attempts \in Nat
    BY <1>2, NoRows DEF CtlRows
  <2> HIDE DEF counted
  <2> QED
    BY <2>1
<1>6. CASE Recovering /\ ~(counted.attempts >= MaxAttempts)
  <2>1. FenceRecovery(counted, Tail(queue), "budgeted")
    BY <1>6 DEF ProtocolFailure
  <2>2. counted.state = "recovering"
    BY <1>2, <1>6 DEF SyncInv, Modes
  <2> HIDE DEF counted
  <2> QED
    BY <2>1, <2>2, <1>1, <1>2, <1>5, <1>6, FenceKeeps
<1>7. CASE ~Recovering /\ startTimer = "none" /\ ~(counted.attempts >= MaxAttempts)
  <2>1. ScheduleRecovery(counted, Tail(queue), "budgeted")
    BY <1>7 DEF ProtocolFailure
  <2> HIDE DEF counted
  <2> QED
    BY <2>1, <1>1, <1>2, <1>5, <1>7, ScheduleKeeps
<1> QED
  BY <1>3, <1>4, <1>6, <1>7

\* A task that is not old is no task of a client that is off, and a frame is
\* one of a connection.
LEMMA CurrentHead ==
    ASSUME SyncInv, queue # <<>>, ~Head(queue).old
    PROVE  /\ ~Off
           /\ Head(queue).what # "poll" => conn.pc # "none" /\ ~ctl.barrier
<1>1. Head(queue) = queue[1] /\ 1 \in 1..Len(queue)
  BY QueueFits, TailFits DEF FitQueue
<1> QED
  BY <1>1 DEF SyncInv, Modes

LEMMA LivelyKeeps ==
    ASSUME SyncInv, queue # <<>>, ~Head(queue).old
    PROVE  LET c == Lively(Head(queue)) IN
           /\ c \in CtlRows /\ c.cursor = ctl.cursor /\ c.attempts = ctl.attempts
           /\ c.barrier = ctl.barrier /\ (c.polling => ctl.polling)
           /\ \/ c.state = ctl.state
              \/ /\ c.state = "live" /\ ctl.state \notin {"circuit-open", "stopped"}
                 /\ ~Recovering /\ ~ctl.barrier /\ conn.pc # "none"
<1> DEFINE t == Head(queue)
<1>1. ctl \in CtlRows /\ (t.what # "poll" => conn.pc # "none" /\ ~ctl.barrier) /\ ~Off
  BY CtlTyped, CurrentHead
<1>2. CASE t.what = "poll"
  <2>1. Lively(t) = ctl
    BY <1>2 DEF Lively
  <2> QED
    BY <1>1, <2>1
<1>3. CASE t.what # "poll" /\ Recovering
  <2>1. Lively(t) = [ctl EXCEPT !.sawLive = TRUE]
    BY <1>3 DEF Lively
  <2> QED
    BY <1>1, <2>1 DEF CtlRows
<1>4. CASE t.what # "poll" /\ ~Recovering
  <2>1. Lively(t) = [ctl EXCEPT !.state = "live", !.polling = FALSE]
    BY <1>4 DEF Lively
  <2> QED
    BY <1>1, <1>4, <2>1 DEF CtlRows, States, Off
<1> QED
  BY <1>2, <1>3, <1>4

\* The next event to be taken in is the one after all that were.
LEMMA NewIsNext ==
    ASSUME SyncInv, queue # <<>>, Live(Head(queue)), ~ctl.barrier, effect.who # "ingest"
    PROVE  LET ev == Head(queue).ev IN
           /\ ev \in 1..MaxEvents /\ ev <= log
           /\ Base = StageCursor
           /\ Decision(ev) \in {"duplicate", "stale", "new"}
           /\ Decision(ev) \in {"duplicate", "stale"} => ev <= Base
           /\ Decision(ev) = "new" => ev = Base + 1
<1> DEFINE ev == Head(queue).ev
<1>1. /\ Head(queue) = queue[1] /\ 1 \in 1..Len(queue) /\ Fits(queue[1])
  BY QueueFits, TailFits DEF FitQueue
<1>2. ev \in 1..MaxEvents /\ ev <= log
  BY <1>1, StreamAssumption DEF Fits, Tasks, Live
<1>3. Base = StageCursor /\ Base \in Nat /\ StageSeen \subseteq 1..StageCursor
  BY BaseTyped DEF Base
<1>4. ev <= Base + 1
  <2>1. Covers(queue, 0, Base, ev - 1)
    BY <1>1 DEF SyncInv, Order, Gapless
  <2>2. \A j \in 1..0 : FALSE
    OBVIOUS
  <2> QED
    BY <1>2, <1>3, <2>1, <2>2 DEF Covers
<1>5. ev \in StageSeen => ev <= Base
  BY <1>2, <1>3
<1> QED
  BY <1>2, <1>3, <1>4, <1>5 DEF Decision

LEMMA AcceptKeeps ==
    ASSUME SyncInv, queue # <<>>, Live(Head(queue)), ~ctl.barrier, effect.who # "ingest",
           Decision(Head(queue).ev) = "new", Accept(Head(queue), Lively(Head(queue))),
           log' = log, shown' = shown, applied' = applied, faults' = faults
    PROVE  SyncInv'
<1> DEFINE ev == Head(queue).ev
           c == Lively(Head(queue))
<1>1. /\ ev \in 1..MaxEvents /\ ev <= log /\ ev = Base + 1 /\ Base = StageCursor
      /\ Base \in Nat /\ log \in 0..MaxEvents /\ MaxEvents \in Nat /\ shown <= log
      /\ shown \in 0..MaxEvents /\ ~Off
  BY NewIsNext, BaseTyped, NoRows, CurrentHead DEF SyncInv, Rows, Loads, Live
<1>2. /\ c \in CtlRows /\ c.cursor = ctl.cursor /\ c.attempts = ctl.attempts
      /\ c.barrier = ctl.barrier
      /\ \/ c.state = ctl.state
         \/ /\ c.state = "live" /\ ctl.state \notin {"circuit-open", "stopped"}
            /\ ~Recovering /\ ~ctl.barrier /\ conn.pc # "none"
  BY LivelyKeeps DEF Live
<1>3. /\ queue' = Tail(queue) /\ ctl' = c /\ poll' \in {poll, NoPoll}
      /\ conn' = conn /\ seen' = seen /\ startTimer' = startTimer /\ retryTimer' = retryTimer
  BY DEF Accept
<1>4. /\ queue' \in Seq(Tasks) /\ Len(queue') = Len(queue) - 1 /\ Len(queue) \in Nat
      /\ \A i \in 1..Len(queue') : i + 1 \in 1..Len(queue) /\ queue'[i] = queue[i + 1]
  BY <1>3, QueueFits, TailFits DEF FitQueue
<1>5. Rows /\ poll' \in PollRows
  BY <1>3, SomeNumbers, NoRows DEF Rows
<1>6. CASE Recovering
  <2>1. rec' = [rec EXCEPT !.buffer = @ \cup {ev}, !.seen = @ \cup {ev}, !.cursor = Upper(@, ev)]
        /\ effect' = effect /\ load' = load
    BY <1>6 DEF Accept
  <2>2. Stage /\ rec.cursor = Base /\ Staging
    BY <1>1, <1>6 DEF SyncInv, Confirmations, StageCursor, Recovering, Staging
  <2>3. /\ rec'.cursor = ev /\ rec'.seen = rec.seen \cup {ev} /\ rec'.step = rec.step
        /\ rec'.after = rec.after /\ rec'.hw = rec.hw /\ rec'.pre = rec.pre
        /\ rec'.buffer = rec.buffer \cup {ev} /\ rec' \in RecRows
    <3>1. Upper(rec.cursor, ev) = ev
      BY <1>1, <2>2 DEF Upper
    <3>2. rec \in RecRows /\ ev \in 0..MaxEvents /\ rec.buffer \cup {ev} \in SUBSET (1..MaxEvents)
      BY <1>1, <1>5 DEF Rows, RecRows
    <3>3. rec.seen \cup {ev} \in SUBSET (1..MaxEvents)
      BY <1>1, <3>2 DEF RecRows
    <3> HIDE DEF ev
    <3> QED
      BY <2>1, <3>1, <3>2, <3>3 DEF RecRows
  <2>4. Recovering' /\ Staging' /\ Base' = ev /\ StageCursor' = ev
    BY <1>1, <1>6, <2>1, <2>3 DEF Recovering, Staging, Base, StageCursor
  <2>5. Rows'
    BY <1>2, <1>3, <1>4, <1>5, <2>1, <2>3 DEF Rows
  <2>6. Modes'
    BY <1>2, <1>3, <1>4, <1>6, <2>1, <2>2, <2>3, <2>4
    DEF SyncInv, Modes, SomethingIsPending, Off, NoPoll, Recovering
  <2>7. Loads'
    BY <2>1, <2>3 DEF SyncInv, Loads
  <2>8. Order'
    BY <1>1, <1>2, <1>3, <2>4, TailOrder
  <2>9. Confirmations'
    <3>1. Stage'
      <4>1. /\ rec.after \in Nat /\ rec.cursor \in Nat /\ rec.after <= rec.cursor
            /\ rec.cursor + 1 = ev /\ rec.hw \in Nat /\ log \in Nat
        BY <1>1, <2>2, SomeNumbers DEF Stage
      <4>2. /\ (rec.after + 1)..ev = ((rec.after + 1)..rec.cursor) \cup {ev}
            /\ 1..ev = (1..rec.cursor) \cup {ev}
        BY <4>1
      <4>3. /\ rec'.after = ctl'.cursor
            /\ rec'.cursor \in rec'.after..log /\ rec'.hw <= rec'.cursor
            /\ rec'.pre \subseteq applied
        BY <1>1, <1>2, <1>3, <2>2, <2>3, <4>1 DEF Stage
      <4>4. /\ 1..rec'.after \subseteq rec'.seen /\ rec'.seen \subseteq 1..rec'.cursor
            /\ rec'.step \in {"replay", "stranded"} => rec'.seen = 1..rec'.cursor
            /\ rec'.pre \cup rec'.buffer \subseteq (rec'.after + 1)..rec'.cursor
        BY <2>2, <2>3, <4>2 DEF Stage
      <4>5. rec'.step = "replay" => (rec'.after + 1)..rec'.cursor \subseteq Kept'
        BY <2>2, <2>3, <4>2 DEF Stage, Kept
      <4>6. effect'.who = "recovery" =>
              /\ effect'.ev \in (rec'.after + 1)..rec'.cursor
              /\ (rec'.after + 1)..(effect'.ev - 1) \subseteq rec'.pre
        BY <2>1, <2>2, <2>3, <4>2 DEF Stage
      <4> HIDE DEF ev, c
      <4> QED
        BY <1>3, <4>3, <4>4, <4>5, <4>6 DEF Stage
    <3> QED
      BY <1>2, <1>3, <2>1, <2>2, <2>4, <3>1 DEF SyncInv, Confirmations
  <2> QED
    BY <2>5, <2>6, <2>7, <2>8, <2>9 DEF SyncInv
<1>7. CASE ~Recovering
  <2>1. /\ effect' = [who |-> "ingest", ev |-> ev, phase |-> "loading"]
        /\ load' = [who |-> "effect", at |-> log] /\ rec' = rec
    BY <1>7 DEF Accept
  <2>2. /\ Base' = ev /\ ~Recovering' /\ Staging' = Staging
        /\ StageCursor' = StageCursor /\ ev = StageCursor + 1
    BY <1>1, <1>2, <1>3, <1>7, <2>1 DEF Recovering, Staging, Base, StageCursor
  <2>3. Rows'
    <3>1. effect' \in EffectRows /\ load' \in LoadRows
      BY <1>1, <2>1 DEF EffectRows, LoadRows
    <3> QED
      BY <1>2, <1>3, <1>4, <1>5, <2>1, <3>1 DEF Rows
  <2>4. Modes'
    BY <1>1, <1>2, <1>3, <1>4, <1>7, <2>1, <2>2
    DEF SyncInv, Modes, SomethingIsPending, Off, Recovering
  <2>5. Loads'
    BY <1>1, <2>1 DEF SyncInv, Loads
  <2>6. Order'
    BY <1>1, <1>2, <1>3, <2>2, TailOrder
  <2>7. Confirmations'
    <3>1. Staging => Stage'
      BY <1>1, <1>2, <1>3, <2>1, <2>2 DEF SyncInv, Confirmations, Stage, Kept
    <3> QED
      BY <1>1, <1>2, <1>3, <2>1, <2>2, <3>1 DEF SyncInv, Confirmations
  <2> QED
    BY <2>3, <2>4, <2>5, <2>6, <2>7 DEF SyncInv
<1> QED
  BY <1>6, <1>7

LEMMA NoteKeeps ==
    ASSUME SyncInv, queue # <<>>, ~Head(queue).old, effect.who # "ingest",
           \/ Head(queue).what = "heartbeat"
           \/ /\ Live(Head(queue)) /\ ~ctl.barrier
              /\ Decision(Head(queue).ev) = "duplicate",
           Note(Head(queue), Lively(Head(queue))),
           log' = log, shown' = shown, applied' = applied, faults' = faults
    PROVE  SyncInv'
<1> DEFINE t == Head(queue)
           c == Lively(t)
<1>1. /\ c \in CtlRows /\ c.cursor = ctl.cursor /\ c.attempts = ctl.attempts
      /\ c.barrier = ctl.barrier /\ (c.polling => ctl.polling)
      /\ \/ c.state = ctl.state
         \/ /\ c.state = "live" /\ ctl.state \notin {"circuit-open", "stopped"}
            /\ ~Recovering /\ ~ctl.barrier /\ conn.pc # "none"
  BY LivelyKeeps
<1>2. /\ Base = StageCursor /\ Base \in Nat
      /\ t.ev \in Nat /\ t.ev <= Base
      /\ Live(t) => t.ev <= Base
  <2>1. Fits(t)
    BY QueueFits, TailFits
  <2>2. Base = StageCursor /\ Base \in Nat
    BY BaseTyped DEF Base
  <2>3. CASE t.what = "heartbeat"
    BY <2>1, <2>2, <2>3 DEF Fits
  <2>4. CASE Live(t) /\ ~ctl.barrier /\ Decision(t.ev) = "duplicate"
    BY <2>2, <2>4, NewIsNext
  <2> QED
    BY <2>2, <2>3, <2>4
<1>3. /\ queue' = Tail(queue) /\ poll' \in {poll, NoPoll}
      /\ UNCHANGED <<conn, seen, effect, load, startTimer, retryTimer>>
  BY DEF Note
<1>4. ctl' = c
  BY <1>1, <1>2 DEF Note, Confirmed, StageCursor
<1>5. rec' = rec
  <2>1. CASE Staging
    <3>1. Upper(rec.cursor, t.ev) = rec.cursor
      BY <1>2, <2>1 DEF Upper, StageCursor
    <3>2. rec' = [rec EXCEPT !.cursor = rec.cursor]
      BY <2>1, <3>1 DEF Note
    <3> QED
      BY <3>2, SomeNumbers DEF Rows, RecRows
  <2> QED
    BY <2>1 DEF Note
<1> HIDE DEF c
<1> QED
  BY <1>1, <1>2, <1>3, <1>4, <1>5, DropKeeps

LEMMA IngestKeeps ==
    ASSUME SyncInv, Ingest
    PROVE  SyncInv'
<1> DEFINE t == Head(queue)
<1>1. /\ queue # <<>> /\ effect.who # "ingest"
      /\ IF ~t.old THEN IngestTask(t) ELSE Drop
      /\ log' = log /\ shown' = shown /\ applied' = applied /\ faults' = faults
  BY DEF Ingest, Current
<1>2. t \in Tasks /\ FitQueue(Tail(queue)) /\ ctl \in CtlRows /\ faults \in 0..MaxFaults
  BY <1>1, QueueFits, TailFits, CtlTyped DEF Fits
<1>3. ASSUME Drop, t.old \/ ctl.barrier PROVE SyncInv'
  <2>1. /\ queue' = Tail(queue)
        /\ UNCHANGED <<conn, ctl, seen, effect, load, rec, poll, startTimer, retryTimer>>
    BY <1>3 DEF Drop
  <2>2. Live(t) => ctl.barrier
    BY <1>3 DEF Live
  <2> QED
    BY <1>1, <1>2, <2>1, <2>2, DropKeeps
<1>4. CASE t.old
  BY <1>1, <1>3, <1>4
<1>5. CASE ~t.old /\ t.what = "bad"
  <2>1. ~Off /\ ~Live(t)
    BY <1>1, <1>5, CurrentHead DEF Live
  <2>2. ProtocolFailure(ctl, Tail(queue))
    BY <1>1, <1>5, <2>1 DEF IngestTask, Off
  <2> QED
    BY <1>1, <1>2, <2>1, <2>2, ProtocolFailureKeeps
<1>6. CASE ~t.old /\ t.what = "error"
  <2>1. ~Off /\ ctl.attempts <= MaxAttempts
    BY <1>1, <1>6, CurrentHead, CtlTyped
  <2>2. CASE Recovering
    <3>1. FenceRecovery(ctl, Tail(queue), "plain") /\ ctl.state = "recovering"
      BY <1>1, <1>6, <2>1, <2>2 DEF IngestTask, Off, SyncInv, Modes
    <3> QED
      BY <1>1, <1>2, <2>1, <3>1, FenceKeeps
  <2>3. CASE ~Recovering
    <3>1. BeginRecovery(ctl, Tail(queue), FALSE, {}) /\ UNCHANGED <<startTimer, retryTimer>>
      BY <1>1, <1>6, <2>1, <2>3 DEF IngestTask, Off
    <3>2. ctl.cursor \in Nat /\ log \in Nat
      BY <1>1, SomeNumbers, Zenon
    <3>3. ctl.cursor <= log /\ applied \subseteq 1..shown
      BY <1>1 DEF SyncInv, Confirmations
    <3>4. {} \in SUBSET ((ctl.cursor + 1)..log)
      OBVIOUS
    <3>5. startTimer' \in Timings /\ retryTimer' \in Timings
      BY <1>1, <3>1 DEF SyncInv, Rows
    <3> QED
      BY <1>1, <1>2, <2>1, <3>1, <3>3, <3>4, <3>5, BeginKeeps
  <2> QED
    BY <2>2, <2>3
<1>7. CASE ~t.old /\ t.what = "heartbeat"
  <2>1. Note(t, Lively(t))
    BY <1>1, <1>7 DEF IngestTask
  <2> QED
    BY <1>1, <1>7, <2>1, NoteKeeps
<1>8. CASE Live(t)
  <2>1. IngestEvent(t)
    BY <1>1, <1>8 DEF IngestTask, Live
  <2>2. CASE ctl.barrier
    BY <1>3, <2>1, <2>2 DEF IngestEvent
  <2>3. CASE ~ctl.barrier /\ Decision(t.ev) = "duplicate"
    <3>1. Note(t, Lively(t))
      BY <2>1, <2>3 DEF IngestEvent
    <3> QED
      BY <1>1, <1>8, <2>3, <3>1, NoteKeeps DEF Live
  <2>4. CASE ~ctl.barrier /\ Decision(t.ev) = "new"
    <3>1. Accept(t, Lively(t))
      BY <2>1, <2>4 DEF IngestEvent
    <3> QED
      BY <1>1, <1>8, <2>4, <3>1, AcceptKeeps
  <2>5. CASE ~ctl.barrier /\ Decision(t.ev) = "stale"
    <3> DEFINE c == Lively(t)
    <3>1. ProtocolFailure(c, Tail(queue))
      BY <2>1, <2>5 DEF IngestEvent
    <3>2. /\ c \in CtlRows /\ c.cursor = ctl.cursor /\ c.attempts = ctl.attempts
          /\ c.barrier = ctl.barrier /\ (c.polling => ctl.polling)
          /\ \/ c.state = ctl.state
             \/ /\ c.state = "live" /\ ctl.state \notin {"circuit-open", "stopped"}
                /\ ~Recovering /\ ~ctl.barrier /\ conn.pc # "none"
      BY <1>1, <1>8, LivelyKeeps DEF Live
    <3>3. ~Off /\ t.ev <= Base
      BY <1>1, <1>8, <2>5, CurrentHead, NewIsNext DEF Live
    <3> HIDE DEF c
    <3> QED
      BY <1>1, <3>1, <3>2, <3>3, ProtocolFailureKeeps
  <2> QED
    BY <1>1, <1>8, <2>2, <2>3, <2>4, <2>5, NewIsNext
<1> QED
  BY <1>2, <1>4, <1>5, <1>6, <1>7, <1>8 DEF Tasks, Live

(***************************************************************************)
(* The connection and the poll.                                            *)
(***************************************************************************)
LEMMA ReceiveKeeps ==
    ASSUME SyncInv, NEW x, Fits(x), ~x.old, x.what # "poll", Receive(x),
           log' = log, faults' \in 0..MaxFaults, conn' \in ConnRows,
           conn.pc # "none", conn'.pc # "none", conn'.cursor = conn.cursor,
           Len(conn'.pending) <= conn.cursor,
           \A k \in 1..Len(conn'.pending) : conn'.pending[k] = conn.cursor - Len(conn'.pending) + k,
           Live(x) => /\ conn.pc = "open" /\ x.ev = conn.cursor - Len(conn.pending) + 1
                      /\ Len(conn'.pending) = Len(conn.pending) - 1,
           conn'.pc = "open" => conn.pc = "open" /\ (Live(x) \/ conn' = conn)
    PROVE  SyncInv'
<1>1. /\ queue' = Append(queue, x)
      /\ UNCHANGED <<ctl, seen, effect, load, rec, poll, startTimer, retryTimer, shown, applied>>
  BY DEF Receive
<1>2. /\ FitQueue(queue') /\ FitQueue(queue) /\ Len(queue) \in Nat
      /\ Len(queue') = Len(queue) + 1 /\ queue'[Len(queue) + 1] = x
      /\ \A i \in 1..Len(queue) : queue'[i] = queue[i]
      /\ \A i \in 1..Len(queue') : i = Len(queue) + 1 \/ i \in 1..Len(queue)
  BY <1>1, QueueFits, AppendFits DEF FitQueue
<1>3. ~Off /\ ~ctl.barrier
  BY DEF SyncInv, Modes
<1>4. /\ Recovering' = Recovering /\ Staging' = Staging
      /\ StageCursor' = StageCursor /\ Base' = Base /\ Base \in Nat
  BY <1>1, BaseTyped DEF Recovering, Staging, Base, StageCursor
<1>5. Rows'
  BY <1>1, <1>2 DEF SyncInv, Rows, FitQueue
<1>6. Modes'
  BY <1>1, <1>2, <1>3, <1>4 DEF SyncInv, Modes, SomethingIsPending, Off
<1>7. Loads'
  BY <1>1 DEF SyncInv, Loads
<1>8. Confirmations'
  BY <1>1, <1>4 DEF SyncInv, Confirmations, Stage, Kept
<1>9. Order'
  <2>1. \A i \in 1..Len(queue') :
          /\ queue'[i].ev <= log
          /\ queue'[i].what \in {"event", "poll"} => queue'[i].ev >= 1
          /\ queue'[i].what = "heartbeat" => queue'[i].ev = 0
    BY <1>2 DEF FitQueue, Fits
  <2>2. /\ Gapless(queue, Base)
        /\ conn.pc = "open" => Covers(queue, Len(queue), Base, conn.cursor - Len(conn.pending))
        /\ poll.on => Covers(queue, Len(queue), Base, poll.next - 1)
    BY <1>3 DEF SyncInv, Order
  <2>3. /\ conn.cursor - Len(conn.pending) \in Int /\ poll.next - 1 \in Int
        /\ conn.cursor \in Nat /\ Len(conn.pending) \in Nat
        /\ (conn.cursor - Len(conn.pending) + 1) - 1 = conn.cursor - Len(conn.pending)
        /\ conn.cursor - (Len(conn.pending) - 1) = (conn.cursor - Len(conn.pending)) + 1
    BY SomeNumbers, Differences, Zenon
  <2>4. Gapless(queue', Base)
    BY <1>1, <1>2, <1>4, <2>2, <2>3, AppendGapless
  <2>5. conn'.pc = "open" => Covers(queue', Len(queue'), Base, conn'.cursor - Len(conn'.pending))
    <3>1. CASE Live(x)
      <4>1. Covers(queue', Len(queue'), Base, (conn.cursor - Len(conn.pending)) + 1)
        BY <1>1, <1>2, <1>4, <2>2, <2>3, <3>1, AppendCovers
      <4>2. conn'.cursor - Len(conn'.pending) = (conn.cursor - Len(conn.pending)) + 1
        BY <2>3, <3>1
      <4> QED
        BY <4>1, <4>2
    <3>2. CASE ~Live(x)
      BY <1>1, <1>2, <1>4, <2>2, <2>3, <3>2, AppendCovers
    <3> QED
      BY <3>1, <3>2
  <2>6. poll.on => Covers(queue', Len(queue'), Base, poll.next - 1)
    BY <1>1, <1>2, <1>4, <2>2, <2>3, AppendCovers
  <2> QED
    BY <1>1, <1>4, <2>1, <2>3, <2>4, <2>5, <2>6 DEF SyncInv, Order
<1> QED
  BY <1>5, <1>6, <1>7, <1>8, <1>9 DEF SyncInv

LEMMA FaultCounts == SyncInv /\ Fault => faults' \in 0..MaxFaults
<1> SUFFICES ASSUME SyncInv, Fault PROVE faults' \in 0..MaxFaults
  OBVIOUS
<1>1. faults \in 0..MaxFaults /\ MaxFaults \in Nat /\ faults < MaxFaults /\ faults' = faults + 1
  BY NoRows DEF SyncInv, Rows, Fault
<1> QED
  BY <1>1

LEMMA EventArrivesKeeps == SyncInv /\ EventArrives => SyncInv'
<1> SUFFICES ASSUME SyncInv, EventArrives PROVE SyncInv'
  OBVIOUS
<1> DEFINE x == Task("event", Head(conn.pending))
           P == 1..MaxEvents
<1>1. /\ conn.pc = "open" /\ conn.pending # <<>> /\ conn' = [conn EXCEPT !.pending = Tail(@)]
      /\ log' = log /\ faults' = faults /\ Receive(x)
  BY DEF EventArrives, SendEvent
<1>2. conn \in ConnRows /\ conn.pending \in Seq(P)
  BY SomeNumbers DEF Rows, ConnRows
<1>3. conn'.pc = "open" /\ conn'.cursor = conn.cursor /\ conn'.pending = Tail(conn.pending)
  BY <1>1, <1>2 DEF ConnRows
<1>4. /\ Head(conn.pending) = conn.pending[1] /\ Tail(conn.pending) \in Seq(P)
      /\ Len(conn.pending) \in Nat /\ Len(conn.pending) >= 1 /\ Head(conn.pending) \in P
      /\ Len(Tail(conn.pending)) = Len(conn.pending) - 1
      /\ \A k \in 1..Len(Tail(conn.pending)) :
           Tail(conn.pending)[k] = conn.pending[k + 1] /\ k + 1 \in 1..Len(conn.pending)
  <2> HIDE DEF P
  <2> QED
    BY <1>1, <1>2
<1>5. /\ conn.cursor <= log /\ Len(conn.pending) <= conn.cursor /\ conn.cursor \in Nat
      /\ \A k \in 1..Len(conn.pending) : conn.pending[k] = conn.cursor - Len(conn.pending) + k
  BY SomeNumbers DEF SyncInv, Order
<1>6. x.ev = conn.cursor - Len(conn.pending) + 1 /\ x.ev \in 1..MaxEvents /\ x.ev <= log
  <2>1. x.ev = conn.pending[1] /\ 1 \in 1..Len(conn.pending) /\ x.ev \in 1..MaxEvents
    BY <1>4 DEF Task
  <2>2. x.ev = conn.cursor - Len(conn.pending) + 1
    BY <1>5, <2>1, Zenon
  <2> HIDE DEF x
  <2>3. x.ev <= conn.cursor
    <3> DEFINE l == Len(conn.pending)
    <3>1. l \in Nat /\ l >= 1 /\ conn.cursor \in Nat /\ x.ev = conn.cursor - l + 1
      BY <1>4, <1>5, <2>2
    <3> HIDE DEF l
    <3> QED
      BY <3>1
  <2> QED
    BY <1>5, <2>1, <2>2, <2>3, SomeNumbers
<1>7. Fits(x) /\ ~x.old /\ x.what = "event"
  <2>1. x \in Tasks /\ x.what = "event" /\ ~x.old
    BY <1>4, NoRows DEF Task, Tasks
  <2> HIDE DEF x
  <2> QED
    BY <1>6, <2>1 DEF Fits
<1>8. conn' \in ConnRows
  BY <1>1, <1>2, <1>4 DEF ConnRows
<1>9. ASSUME NEW k \in 1..Len(conn'.pending)
      PROVE  conn'.pending[k] = conn.cursor - Len(conn'.pending) + k
  <2> DEFINE l == Len(conn.pending)
  <2>1. Len(conn'.pending) = l - 1 /\ conn'.pending[k] = conn.pending[k + 1] /\ k + 1 \in 1..l
    BY <1>3, <1>4
  <2>2. conn.pending[k + 1] = conn.cursor - l + (k + 1)
    BY <1>5, <2>1, Zenon
  <2>3. l \in Nat /\ conn.cursor \in Nat /\ k \in Int
    BY <1>4, <1>5, <2>1
  <2> HIDE DEF l
  <2>4. conn.cursor - l + (k + 1) = conn.cursor - (l - 1) + k
    BY <2>3
  <2> QED
    BY <2>1, <2>2, <2>4
<1>10. faults \in 0..MaxFaults /\ Live(x)
  BY <1>7, SomeNumbers DEF Rows, Live
<1>11. Len(conn'.pending) = Len(conn.pending) - 1 /\ Len(conn'.pending) <= conn.cursor
  BY <1>3, <1>4, <1>5
<1> HIDE DEF x
<1> QED
  BY <1>1, <1>3, <1>4, <1>5, <1>6, <1>7, <1>8, <1>9, <1>10, <1>11, ReceiveKeeps

LEMMA FrameArrivesKeeps ==
    ASSUME SyncInv, NEW what \in {"heartbeat", "bad"}, conn.pc = "open", Receive(Task(what, 0)),
           UNCHANGED streamVars, faults' \in 0..MaxFaults
    PROVE  SyncInv'
<1> DEFINE x == Task(what, 0)
<1>1. conn' = conn /\ log' = log /\ Receive(x)
  BY DEF streamVars
<1>2. Fits(x) /\ ~x.old /\ x.what = what /\ ~Live(x)
  BY SomeNumbers, NoRows DEF Fits, Task, Tasks, Live
<1>3. /\ conn \in ConnRows /\ Len(conn.pending) <= conn.cursor
      /\ \A k \in 1..Len(conn.pending) : conn.pending[k] = conn.cursor - Len(conn.pending) + k
  BY SomeNumbers DEF SyncInv, Order, Rows
<1> HIDE DEF x
<1> QED
  BY <1>1, <1>2, <1>3, ReceiveKeeps

LEMMA ConnectionBreaksKeeps == SyncInv /\ ConnectionBreaks => SyncInv'
<1> SUFFICES ASSUME SyncInv, ConnectionBreaks PROVE SyncInv'
  OBVIOUS
<1> DEFINE x == Task("error", 0)
<1>1. /\ conn.pc = "open" /\ conn' = [conn EXCEPT !.pc = "dead", !.pending = <<>>]
      /\ log' = log /\ faults' \in 0..MaxFaults
  BY SomeNumbers, FaultCounts DEF ConnectionBreaks, Break
<1>2. conn'.pc = "dead" /\ conn'.pending = <<>> /\ conn'.cursor = conn.cursor /\ conn' \in ConnRows
  <2>1. conn \in ConnRows /\ <<>> \in Seq(1..MaxEvents)
    BY SomeNumbers DEF Rows
  <2> QED
    BY <1>1, <2>1 DEF ConnRows
<1>3. Len(conn'.pending) = 0 /\ conn.cursor \in Nat
  BY <1>2, SomeNumbers
<1>4. CASE Receive(x)
  <2>1. Fits(x) /\ ~x.old /\ x.what = "error" /\ ~Live(x)
    BY SomeNumbers, NoRows DEF Fits, Task, Tasks, Live
  <2>2. \A k \in 1..Len(conn'.pending) : conn'.pending[k] = conn.cursor - Len(conn'.pending) + k
    BY <1>3
  <2> HIDE DEF x
  <2> QED
    BY <1>1, <1>2, <1>3, <1>4, <2>1, <2>2, ReceiveKeeps
<1>5. CASE UNCHANGED <<ctl, seen, queue, effect, load, rec, poll, startTimer, retryTimer, shown,
                       applied>>
  <2>1. /\ Recovering' = Recovering /\ Staging' = Staging
        /\ StageCursor' = StageCursor /\ Base' = Base
    BY <1>5 DEF Recovering, Staging, Base, StageCursor
  <2>2. Rows'
    BY <1>1, <1>2, <1>5 DEF SyncInv, Rows
  <2>3. Modes'
    BY <1>1, <1>2, <1>5, <2>1 DEF SyncInv, Modes, SomethingIsPending, Off
  <2>4. Loads' /\ Confirmations'
    BY <1>1, <1>5, <2>1 DEF SyncInv, Loads, Confirmations, Stage, Kept
  <2>5. Order'
    BY <1>1, <1>2, <1>3, <1>5, <2>1 DEF SyncInv, Order
  <2> QED
    BY <2>2, <2>3, <2>4, <2>5 DEF SyncInv
<1> QED
  BY <1>4, <1>5 DEF ConnectionBreaks

LEMMA PollStartKeeps == SyncInv /\ PollStart => SyncInv'
<1> SUFFICES ASSUME SyncInv, PollStart PROVE SyncInv'
  OBVIOUS
<1>1. /\ poll' = [on |-> TRUE, next |-> ctl.cursor + 1, upto |-> log]
      /\ ctl.polling /\ ctl.state \notin {"live", "circuit-open"} /\ ctl.cursor < log
      /\ UNCHANGED <<log, conn, ctl, seen, queue, effect, load, rec, startTimer, retryTimer, shown,
                     applied, faults>>
  BY DEF PollStart, streamVars
<1>2. /\ Recovering' = Recovering /\ Staging' = Staging
      /\ StageCursor' = StageCursor /\ Base' = Base /\ Base \in Nat /\ ctl.cursor <= Base
  BY <1>1, BaseTyped DEF Recovering, Staging, Base, StageCursor
<1>3. poll' \in PollRows
  <2>1. ctl.cursor \in Nat /\ log \in 0..MaxEvents /\ MaxEvents \in Nat
    BY SomeNumbers, NoRows DEF Rows
  <2>2. ctl.cursor + 1 \in 0..(MaxEvents + 1)
    BY <1>1, <2>1
  <2> QED
    BY <1>1, <2>1, <2>2 DEF PollRows
<1>4. Rows'
  BY <1>1, <1>3 DEF SyncInv, Rows
<1>5. Modes'
  BY <1>1, <1>2 DEF SyncInv, Modes, SomethingIsPending, Off
<1>6. Loads' /\ Confirmations'
  BY <1>1, <1>2 DEF SyncInv, Loads, Confirmations, Stage, Kept
<1>7. Order'
  <2>0. ctl.cursor \in Nat /\ log \in Nat
    BY SomeNumbers, Zenon
  <2>1. poll'.next - 1 = ctl.cursor /\ poll'.next >= 1 /\ poll'.upto <= log
    BY <1>1, <2>0
  <2>2. Covers(queue, Len(queue), Base, poll'.next - 1)
    BY <1>2, <2>0, <2>1 DEF Covers
  <2> QED
    BY <1>1, <1>2, <2>1, <2>2 DEF SyncInv, Order
<1> QED
  BY <1>4, <1>5, <1>6, <1>7 DEF SyncInv

LEMMA PollFeedsKeeps == SyncInv /\ PollFeeds => SyncInv'
<1> SUFFICES ASSUME SyncInv, PollFeeds PROVE SyncInv'
  OBVIOUS
<1> DEFINE x == Task("poll", poll.next)
<1>1. /\ poll.on /\ effect.who # "ingest"
      /\ UNCHANGED <<log, conn, ctl, seen, effect, load, rec, startTimer, retryTimer, shown,
                     applied, faults>>
  BY DEF PollFeeds, streamVars
<1>2. /\ Recovering' = Recovering /\ Staging' = Staging
      /\ StageCursor' = StageCursor /\ Base' = Base /\ Base \in Nat
  BY <1>1, BaseTyped DEF Recovering, Staging, Base, StageCursor
<1>3. Loads' /\ Confirmations'
  BY <1>1, <1>2 DEF SyncInv, Loads, Confirmations, Stage, Kept
<1>4. CASE poll.next > poll.upto
  <2>1. poll' = NoPoll /\ queue' = queue /\ ~poll'.on
    BY <1>4 DEF PollFeeds, NoPoll
  <2>2. Rows'
    BY <1>1, <2>1, NoRows DEF SyncInv, Rows
  <2>3. Modes'
    BY <1>1, <1>2, <2>1 DEF SyncInv, Modes, SomethingIsPending, Off
  <2>4. Order'
    BY <1>1, <1>2, <2>1 DEF SyncInv, Order
  <2> QED
    BY <1>3, <2>2, <2>3, <2>4 DEF SyncInv
<1>5. CASE ~(poll.next > poll.upto)
  <2>1. poll' = [poll EXCEPT !.next = @ + 1] /\ queue' = Append(queue, x)
    BY <1>5 DEF PollFeeds
  <2>2. /\ poll.next \in Nat /\ poll.upto \in 0..MaxEvents /\ poll.next <= poll.upto
        /\ poll.next >= 1 /\ poll.upto <= log /\ poll \in PollRows /\ log \in Nat
    BY <1>1, <1>5, SomeNumbers DEF SyncInv, Order, Rows, PollRows
  <2>3. /\ poll'.on /\ poll'.next = poll.next + 1 /\ poll'.upto = poll.upto /\ poll' \in PollRows
        /\ poll'.next - 1 = (poll.next - 1) + 1
    <3>1. poll.next + 1 \in 0..(MaxEvents + 1) /\ (poll.next + 1) - 1 = (poll.next - 1) + 1
      BY <2>2, NoRows
    <3>2. poll' = [on |-> poll.on, next |-> poll.next + 1, upto |-> poll.upto]
      BY <2>1, <2>2 DEF PollRows
    <3> QED
      BY <1>1, <2>2, <3>1, <3>2 DEF PollRows
  <2>4. Fits(x) /\ Live(x) /\ ~x.old /\ x.what = "poll" /\ x.ev = poll.next
    BY <2>2, NoRows DEF Fits, Live, Task, Tasks
  <2> HIDE DEF x
  <2>5. /\ FitQueue(queue') /\ FitQueue(queue) /\ Len(queue) \in Nat
        /\ Len(queue') = Len(queue) + 1 /\ queue'[Len(queue) + 1] = x
        /\ \A i \in 1..Len(queue) : queue'[i] = queue[i]
        /\ \A i \in 1..Len(queue') : i = Len(queue) + 1 \/ i \in 1..Len(queue)
    BY <2>1, <2>4, QueueFits, AppendFits DEF FitQueue
  <2>6. Rows'
    BY <1>1, <2>3, <2>5 DEF SyncInv, Rows, FitQueue
  <2>7. Modes'
    BY <1>1, <1>2, <2>3, <2>4, <2>5 DEF SyncInv, Modes, SomethingIsPending, Off
  <2>8. Order'
    <3>1. \A i \in 1..Len(queue') :
            /\ queue'[i].ev <= log
            /\ queue'[i].what \in {"event", "poll"} => queue'[i].ev >= 1
            /\ queue'[i].what = "heartbeat" => queue'[i].ev = 0
      BY <2>5 DEF FitQueue, Fits
    <3>2. ASSUME ~ctl.barrier
          PROVE  /\ Gapless(queue', Base)
                 /\ conn.pc = "open" =>
                      Covers(queue', Len(queue'), Base, conn.cursor - Len(conn.pending))
                 /\ Covers(queue', Len(queue'), Base, poll'.next - 1)
      <4>1. /\ Gapless(queue, Base)
            /\ conn.pc = "open" => Covers(queue, Len(queue), Base, conn.cursor - Len(conn.pending))
            /\ Covers(queue, Len(queue), Base, poll.next - 1)
        BY <1>1, <3>2 DEF SyncInv, Order
      <4>2. conn.cursor - Len(conn.pending) \in Int /\ poll.next - 1 \in Int
            /\ (poll.next - 1) + 1 = poll.next
        BY SomeNumbers
      <4>3. Gapless(queue', Base)
        BY <1>2, <2>1, <2>4, <2>5, <4>1, AppendGapless
      <4>4. conn.pc = "open" => Covers(queue', Len(queue'), Base, conn.cursor - Len(conn.pending))
        BY <1>2, <2>1, <2>4, <2>5, <4>1, <4>2, AppendCovers
      <4>5. Covers(queue', Len(queue'), Base, (poll.next - 1) + 1)
        BY <1>2, <2>1, <2>4, <2>5, <4>1, <4>2, AppendCovers
      <4> QED
        BY <2>3, <4>3, <4>4, <4>5
    <3>3. poll'.next >= 1 /\ poll'.upto <= log
      BY <2>2, <2>3
    <3> QED
      BY <1>1, <1>2, <3>1, <3>2, <3>3 DEF SyncInv, Order
  <2> QED
    BY <1>3, <2>6, <2>7, <2>8 DEF SyncInv
<1> QED
  BY <1>4, <1>5

LEMMA CommitEventKeeps == SyncInv /\ CommitEvent /\ UNCHANGED syncVars => SyncInv'
<1> SUFFICES ASSUME SyncInv, CommitEvent, UNCHANGED syncVars PROVE SyncInv'
  OBVIOUS
<1>1. /\ log' = log + 1 /\ log < MaxEvents /\ conn' = conn
      /\ UNCHANGED <<ctl, seen, queue, effect, load, rec, poll, startTimer, retryTimer, shown,
                     applied, faults>>
  BY DEF CommitEvent, syncVars
<1>2. /\ Recovering' = Recovering /\ Staging' = Staging
      /\ StageCursor' = StageCursor /\ Base' = Base
  BY <1>1 DEF Recovering, Staging, Base, StageCursor
<1>3. Rows'
  BY <1>1, NoRows DEF SyncInv, Rows
<1>4. Modes'
  BY <1>1, <1>2 DEF SyncInv, Modes, SomethingIsPending, Off
<1>5. log \in Nat /\ \A n \in Int : n <= log => n <= log'
  BY <1>1, SomeNumbers
<1>6. Loads'
  BY <1>1, <1>5, SomeNumbers DEF SyncInv, Loads
<1>7. Confirmations'
  <2>1. ctl.cursor \in Nat
    BY SomeNumbers
  <2>2. Staging => Stage'
    <3>1. ASSUME NEW a \in Nat PROVE a..log \subseteq a..log'
      BY <1>5
    <3>2. rec.after \in Nat
      BY SomeNumbers
    <3> QED
      BY <1>1, <3>1, <3>2 DEF SyncInv, Confirmations, Stage, Kept
  <2> QED
    BY <1>1, <1>2, <1>5, <2>1, <2>2 DEF SyncInv, Confirmations
<1>8. Order'
  <2>1. \A i \in 1..Len(queue) : queue[i].ev \in Int
    BY QueueFits, NoRows DEF FitQueue, Fits, Tasks
  <2>2. conn.cursor \in Int /\ poll.upto \in Int
    BY SomeNumbers
  <2>3. \A i \in 1..Len(queue) :
           /\ queue[i].ev <= log'
           /\ queue[i].what \in {"event", "poll"} => queue[i].ev >= 1
           /\ queue[i].what = "heartbeat" => queue[i].ev = 0
    BY <1>5, <2>1 DEF SyncInv, Order
  <2>4. conn.cursor <= log' /\ (poll.on => poll.next >= 1 /\ poll.upto <= log')
    BY <1>5, <2>2 DEF SyncInv, Order
  <2> QED
    BY <1>1, <1>2, <2>3, <2>4 DEF SyncInv, Order
<1> QED
  BY <1>3, <1>4, <1>6, <1>7, <1>8 DEF SyncInv

LEMMA PageFollows ==
    ASSUME SyncInv, conn.cursor < log
    PROVE  LET p == Page(conn.cursor) IN
           /\ p \in Seq(1..MaxEvents) /\ Len(p) \in Nat /\ conn.cursor + Len(p) <= log
           /\ \A k \in 1..Len(p) : p[k] = conn.cursor + k
<1> DEFINE n == IF log - conn.cursor < PageLimit THEN log - conn.cursor ELSE PageLimit
           p == [i \in 1..n |-> conn.cursor + i]
<1>1. n \in Nat /\ conn.cursor + n <= log /\ log <= MaxEvents /\ conn.cursor \in Nat /\ log \in Nat
  <2>1. conn.cursor \in Nat /\ log \in 0..MaxEvents /\ MaxEvents \in Nat /\ PageLimit \in Nat
    BY SomeNumbers, StreamAssumption DEF Rows
  <2> QED
    BY <2>1
<1>2. Page(conn.cursor) = p
  BY DEF Page
<1> HIDE DEF n
<1>3. \A i \in 1..n : conn.cursor + i \in 1..MaxEvents
  BY <1>1, NoRows
<1>4. p \in Seq(1..MaxEvents) /\ Len(p) = n
  BY <1>1, <1>3
<1> QED
  BY <1>1, <1>2, <1>4

LEMMA PollLogKeeps == SyncInv /\ PollLog /\ UNCHANGED syncVars => SyncInv'
<1> SUFFICES ASSUME SyncInv, PollLog, UNCHANGED syncVars PROVE SyncInv'
  OBVIOUS
<1> DEFINE p == Page(conn.cursor)
<1>1. /\ conn.pc = "open" /\ conn.pending = <<>> /\ conn.cursor < log
      /\ conn' = [conn EXCEPT !.pending = p, !.cursor = @ + Len(p)] /\ log' = log
      /\ UNCHANGED <<ctl, seen, queue, effect, load, rec, poll, startTimer, retryTimer, shown,
                     applied, faults>>
  BY DEF PollLog, Polled, syncVars
<1>2. /\ p \in Seq(1..MaxEvents) /\ Len(p) \in Nat /\ conn.cursor + Len(p) <= log
      /\ \A k \in 1..Len(p) : p[k] = conn.cursor + k
  BY <1>1, PageFollows
<1> HIDE DEF p
<1>3. /\ conn'.pc = "open" /\ conn'.pending = p /\ conn'.cursor = conn.cursor + Len(p)
      /\ conn' \in ConnRows
  <2>1. conn \in ConnRows /\ conn.cursor + Len(p) \in 0..MaxEvents
    <3>1. conn \in ConnRows /\ log \in 0..MaxEvents /\ conn.cursor \in Nat /\ MaxEvents \in Nat
      BY SomeNumbers, NoRows DEF Rows
    <3> QED
      BY <1>2, <3>1
  <2> QED
    BY <1>1, <1>2, <2>1 DEF ConnRows
<1>4. /\ Recovering' = Recovering /\ Staging' = Staging
      /\ StageCursor' = StageCursor /\ Base' = Base
  BY <1>1 DEF Recovering, Staging, Base, StageCursor
<1>5. Rows'
  BY <1>1, <1>3 DEF SyncInv, Rows
<1>6. Modes'
  BY <1>1, <1>3, <1>4 DEF SyncInv, Modes, SomethingIsPending, Off
<1>7. Loads' /\ Confirmations'
  BY <1>1, <1>4 DEF SyncInv, Loads, Confirmations, Stage, Kept
<1>8. Order'
  <2>1. conn'.cursor - Len(conn'.pending) = conn.cursor /\ Len(conn'.pending) <= conn'.cursor
        /\ conn'.cursor <= log
    BY <1>2, <1>3, SomeNumbers
  <2>2. \A k \in 1..Len(conn'.pending) :
          conn'.pending[k] = conn'.cursor - Len(conn'.pending) + k
    BY <1>2, <1>3, <2>1
  <2>3. conn.cursor - Len(conn.pending) = conn.cursor
    BY <1>1, SomeNumbers
  <2>4. ~ctl.barrier => Covers(queue, Len(queue), Base, conn'.cursor - Len(conn'.pending))
    BY <1>1, <2>1, <2>3 DEF SyncInv, Order
  <2> QED
    BY <1>1, <1>3, <1>4, <2>1, <2>2, <2>4 DEF SyncInv, Order
<1> QED
  BY <1>5, <1>6, <1>7, <1>8 DEF SyncInv

(***************************************************************************)
(* The reloads.                                                            *)
(***************************************************************************)
\* A reload ends, or another takes its place.
LEMMA LoadStepKeeps ==
    ASSUME SyncInv, Loads',
           effect' \in EffectRows, effect'.who = effect.who, effect'.ev = effect.ev,
           rec' = rec \/ (rec.step = "reload" /\
                          \E s \in {"collect", "failed"} : rec' = [rec EXCEPT !.step = s]),
           load' \in LoadRows, load' = NoLoad \/ (load'.who = "refresh" /\ ctl.state # "stopped"),
           shown' \in shown..log, faults' \in 0..MaxFaults,
           UNCHANGED <<streamVars, ctl, seen, queue, poll, startTimer, retryTimer, applied>>
    PROVE  SyncInv'
<1>1. /\ UNCHANGED <<log, conn, ctl, seen, queue, poll, startTimer, retryTimer, applied>>
      /\ shown \in Nat /\ log \in 0..MaxEvents
  BY SomeNumbers DEF streamVars, Rows
<1>2. /\ rec' \in RecRows /\ rec'.after = rec.after /\ rec'.cursor = rec.cursor /\ rec'.hw = rec.hw
      /\ rec'.seen = rec.seen /\ rec'.pre = rec.pre /\ rec'.buffer = rec.buffer
      /\ rec'.step # rec.step => rec.step = "reload" /\ rec'.step \in {"collect", "failed"}
  BY SomeNumbers DEF Rows, RecRows
<1>3. Recovering' = Recovering /\ Staging' = Staging
  BY <1>2 DEF Recovering, Staging
<1>4. Base' = Base /\ StageCursor' = StageCursor
  BY <1>1, <1>2, <1>3 DEF Base, StageCursor
<1>5. Rows'
  BY <1>1, <1>2, NoRows DEF SyncInv, Rows
<1>6. Modes'
  BY <1>1, <1>2, <1>3 DEF SyncInv, Modes, SomethingIsPending, Off, NoLoad
<1>7. Order'
  BY <1>1, <1>4 DEF SyncInv, Order
<1>8. Confirmations'
  <2>1. 1..shown \subseteq 1..shown'
    BY <1>1
  <2> QED
    BY <1>1, <1>2, <1>3, <1>4, <2>1 DEF SyncInv, Confirmations, Stage, Kept
<1> QED
  BY <1>5, <1>6, <1>7, <1>8 DEF SyncInv

LEMMA LoadDoneKeeps == SyncInv /\ LoadDone => SyncInv'
<1> SUFFICES ASSUME SyncInv, LoadDone PROVE SyncInv'
  OBVIOUS
<1>1. /\ load.who # "none" /\ shown' \in load.at..log /\ load' = NoLoad
      /\ UNCHANGED <<streamVars, ctl, seen, queue, poll, startTimer, retryTimer, applied, faults>>
      /\ log' = log
  BY DEF LoadDone, streamVars
<1>2. /\ effect' = IF load.who = "effect" THEN [effect EXCEPT !.phase = "shown"] ELSE effect
      /\ rec' = IF load.who = "recovery" THEN [rec EXCEPT !.step = "collect"] ELSE rec
  BY DEF LoadDone
<1>3. /\ effect \in EffectRows /\ shown <= load.at /\ load.at \in Nat /\ shown \in Nat /\ log \in Nat
      /\ faults \in 0..MaxFaults /\ effect.ev \in Nat
      /\ load.who = "effect" => effect.ev <= load.at
  BY <1>1, SomeNumbers DEF SyncInv, Loads, Rows
<1>4. /\ effect' \in EffectRows /\ effect'.who = effect.who /\ effect'.ev = effect.ev
      /\ effect'.phase = IF load.who = "effect" THEN "shown" ELSE effect.phase
  BY <1>2, <1>3 DEF EffectRows
<1>5. load' \in LoadRows /\ load'.who = "none" /\ shown' \in shown..log
  BY <1>1, <1>3, NoRows DEF NoLoad
<1>6. Loads'
  BY <1>1, <1>3, <1>4, <1>5 DEF SyncInv, Loads
<1>7. rec' = rec \/ (rec.step = "reload" /\ rec' = [rec EXCEPT !.step = "collect"])
  BY <1>2 DEF SyncInv, Loads
<1> QED
  BY <1>1, <1>3, <1>4, <1>5, <1>6, <1>7, LoadStepKeeps

LEMMA LoadLostKeeps ==
    ASSUME SyncInv, Failed(load.who), faults' \in 0..MaxFaults,
           \/ load' = NoLoad
           \/ load' = [who |-> "refresh", at |-> log] /\ ctl.state # "stopped",
           UNCHANGED <<streamVars, ctl, seen, queue, poll, startTimer, retryTimer, shown, applied>>
    PROVE  SyncInv'
<1>1. /\ effect' = IF load.who = "effect" THEN [effect EXCEPT !.phase = "failed"] ELSE effect
      /\ rec' = IF load.who = "recovery" THEN [rec EXCEPT !.step = "failed"] ELSE rec
      /\ log' = log /\ shown' = shown
  BY DEF Failed, streamVars
<1>2. effect \in EffectRows /\ shown <= log /\ shown \in Nat /\ log \in 0..MaxEvents
  BY SomeNumbers DEF SyncInv, Loads, Rows
<1>3. /\ effect' \in EffectRows /\ effect'.who = effect.who /\ effect'.ev = effect.ev
      /\ effect'.phase = IF load.who = "effect" THEN "failed" ELSE effect.phase
  BY <1>1, <1>2 DEF EffectRows
<1>4. /\ load' \in LoadRows /\ load'.who \in {"none", "refresh"}
      /\ load'.who # "none" => load'.at = log
      /\ load' = NoLoad \/ (load'.who = "refresh" /\ ctl.state # "stopped")
  BY <1>2, NoRows DEF NoLoad, LoadRows
<1>5. Loads'
  BY <1>1, <1>2, <1>3, <1>4, SomeNumbers DEF SyncInv, Loads
<1>6. rec' = rec \/ (rec.step = "reload" /\ rec' = [rec EXCEPT !.step = "failed"])
  BY <1>1 DEF SyncInv, Loads
<1>7. shown' \in shown..log
  BY <1>1, <1>2
<1> QED
  BY <1>3, <1>4, <1>5, <1>6, <1>7, LoadStepKeeps

(***************************************************************************)
(* Effects and recoveries.                                                 *)
(***************************************************************************)
LEMMA EffectDoneKeeps == SyncInv /\ EffectDone => SyncInv'
<1> SUFFICES ASSUME SyncInv, EffectDone PROVE SyncInv'
  OBVIOUS
<1>1. /\ effect.who = "ingest" /\ effect.phase = "shown"
      /\ applied' = applied \cup {effect.ev}
      /\ log' = log /\ startTimer' = startTimer /\ retryTimer' = retryTimer
      /\ shown' = shown /\ faults' = faults
  BY DEF EffectDone, Ready
<1>2. /\ effect.ev \in 1..log /\ effect.ev <= shown /\ effect.ev = StageCursor + 1
      /\ ~Recovering /\ ~Off /\ load.who # "effect"
      /\ seen = 1..ctl.cursor /\ seen \subseteq applied /\ applied \subseteq 1..shown
  BY <1>1 DEF SyncInv, Modes, Loads, Confirmations
<1>3. /\ ctl.cursor \in Nat /\ ctl.cursor <= StageCursor /\ StageCursor \in Nat
      /\ ~Staging => StageCursor = ctl.cursor
      /\ shown \in 0..MaxEvents /\ log \in 0..MaxEvents /\ MaxEvents \in Nat
      /\ ctl \in CtlRows /\ ctl.attempts <= MaxAttempts /\ FitQueue(queue)
  BY <1>2, SomeNumbers, BaseTyped, NoRows, CtlTyped, QueueFits DEF Rows
<1>4. applied' \subseteq 1..shown /\ applied' \in SUBSET (1..MaxEvents)
  <2>1. effect.ev \in 1..shown /\ 1..shown \subseteq 1..MaxEvents
    BY <1>2, <1>3
  <2> QED
    BY <1>1, <1>2, <2>1
<1>5. CASE effect.ev \in Unknown
  <2>1. BeginRecovery(ctl, queue, FALSE, {effect.ev})
    BY <1>5 DEF EffectDone
  <2>2. {effect.ev} \in SUBSET ((ctl.cursor + 1)..log) /\ {effect.ev} \subseteq applied'
    BY <1>1, <1>2, <1>3
  <2>3. startTimer' \in Timings /\ retryTimer' \in Timings /\ faults' \in 0..MaxFaults
    BY <1>1 DEF SyncInv, Rows
  <2> QED
    BY <1>1, <1>3, <1>4, <2>1, <2>2, <2>3, BeginKeeps
<1>6. CASE effect.ev \notin Unknown /\ ~Staging
  <2>1. /\ seen' = seen \cup {effect.ev} /\ ctl' = Confirmed(ctl, effect.ev) /\ effect' = NoEffect
        /\ UNCHANGED <<conn, queue, load, rec, poll>>
    BY <1>6 DEF EffectDone, CommitIngested
  <2>2. ctl' = [ctl EXCEPT !.cursor = effect.ev, !.attempts = 0]
    BY <1>2, <1>3, <1>6, <2>1 DEF Confirmed
  <2>3. /\ ctl' \in CtlRows /\ ctl'.cursor = effect.ev /\ ctl'.attempts <= MaxAttempts
        /\ ctl'.state = ctl.state /\ ctl'.barrier = ctl.barrier /\ ctl'.polling = ctl.polling
    <3>1. effect.ev \in 0..MaxEvents /\ 0 \in 0..(MaxAttempts + 1) /\ 0 <= MaxAttempts
      BY <1>2, <1>3, NoRows
    <3> QED
      BY <1>3, <2>2, <3>1 DEF CtlRows
  <2>4. seen' = 1..effect.ev /\ seen' \in SUBSET (1..MaxEvents)
    BY <1>2, <1>3, <1>6, <2>1
  <2>5. ~Recovering' /\ ~Staging' /\ Base' = Base
    BY <1>1, <1>2, <1>6, <2>1, <2>3 DEF Recovering, Staging, Base, StageCursor, NoEffect
  <2>6. Rows'
    BY <1>1, <1>4, <2>1, <2>3, <2>4, NoRows DEF SyncInv, Rows
  <2>7. Modes'
    BY <1>1, <1>2, <2>1, <2>3, <2>5 DEF SyncInv, Modes, SomethingIsPending, Off, NoEffect
  <2>8. Loads'
    BY <1>1, <1>2, <2>1 DEF SyncInv, Loads, NoEffect
  <2>9. Order'
    BY <1>1, <2>1, <2>3, <2>5 DEF SyncInv, Order
  <2>10. Confirmations'
    BY <1>1, <1>2, <1>4, <2>1, <2>3, <2>4, <2>5 DEF Confirmations, NoEffect
  <2> QED
    BY <2>6, <2>7, <2>8, <2>9, <2>10 DEF SyncInv
\* A stage that was left behind takes the event in.
<1>7. CASE effect.ev \notin Unknown /\ Staging
  <2>1. /\ rec' = [rec EXCEPT !.seen = @ \cup {effect.ev}, !.cursor = Upper(@, effect.ev)]
        /\ effect' = NoEffect
        /\ UNCHANGED <<conn, ctl, seen, queue, load, poll>>
    BY <1>7 DEF EffectDone, CommitIngested
  <2>2. /\ rec \in RecRows /\ Stage /\ rec.step = "stranded" /\ effect.ev = rec.cursor + 1
        /\ rec.cursor \in Nat /\ rec.after \in Nat /\ rec.hw \in Nat /\ rec.seen = 1..rec.cursor
    BY <1>2, <1>7, SomeNumbers
    DEF SyncInv, Confirmations, Rows, Stage, Staging, Recovering, StageCursor
  <2>3. Upper(rec.cursor, effect.ev) = effect.ev /\ rec.seen \cup {effect.ev} = 1..effect.ev
    BY <2>2 DEF Upper
  <2>4. /\ rec' \in RecRows /\ rec'.step = "stranded" /\ rec'.after = rec.after
        /\ rec'.hw = rec.hw /\ rec'.pre = rec.pre /\ rec'.buffer = rec.buffer
        /\ rec'.seen = 1..effect.ev /\ rec'.cursor = effect.ev
    <3>1. effect.ev \in 0..MaxEvents /\ 1..effect.ev \in SUBSET (1..MaxEvents)
      BY <1>2, <1>3
    <3> QED
      BY <2>1, <2>2, <2>3, <3>1 DEF RecRows
  <2>5. /\ ~Recovering' /\ Staging' /\ Base' = Base
    BY <1>1, <2>1, <2>4 DEF Recovering, Staging, Base, StageCursor, NoEffect
  <2>6. Rows'
    BY <1>1, <1>4, <2>1, <2>4, NoRows DEF SyncInv, Rows
  <2>7. Modes'
    BY <1>1, <1>2, <1>7, <2>1, <2>2, <2>4, <2>5
    DEF SyncInv, Modes, SomethingIsPending, Off, NoEffect
  <2>8. Loads'
    BY <1>1, <1>2, <2>1, <2>2, <2>4 DEF SyncInv, Loads, NoEffect
  <2>9. Order'
    BY <1>1, <2>1, <2>5 DEF SyncInv, Order
  <2>10. Stage'
    <3>1. rec.after <= rec.cursor /\ effect.ev <= log /\ rec.hw <= rec.cursor /\ log \in Nat
      BY <1>2, <1>3, <2>2 DEF Stage
    <3>2. /\ rec.cursor <= effect.ev /\ effect.ev \in rec.after..log
          /\ rec.hw <= effect.ev
          /\ (rec.after + 1)..rec.cursor \subseteq (rec.after + 1)..effect.ev
          /\ 1..rec.after \subseteq 1..effect.ev
      BY <2>2, <3>1
    <3> QED
      BY <1>1, <2>1, <2>2, <2>4, <3>2 DEF Stage, NoEffect
  <2>11. Confirmations'
    BY <1>1, <1>2, <1>4, <2>1, <2>5, <2>10 DEF SyncInv, Confirmations, NoEffect
  <2> QED
    BY <2>6, <2>7, <2>8, <2>9, <2>11 DEF SyncInv
<1> QED
  BY <1>5, <1>6, <1>7

\* A recovery with nothing applied in advance.
LEMMA BareBeginKeeps ==
    ASSUME SyncInv, NEW c \in CtlRows, c.cursor = ctl.cursor, c.attempts <= MaxAttempts,
           NEW budgeted \in BOOLEAN, BeginRecovery(c, queue, budgeted, {}),
           log' = log, shown' = shown, applied' = applied,
           startTimer' \in Timings, retryTimer' \in Timings, faults' \in 0..MaxFaults
    PROVE  SyncInv'
<1>1. {} \in SUBSET ((ctl.cursor + 1)..log) /\ applied \subseteq 1..shown /\ FitQueue(queue)
  BY QueueFits DEF SyncInv, Confirmations
<1> QED
  BY <1>1, BeginKeeps

LEMMA EffectFailsKeeps == SyncInv /\ EffectFails => SyncInv'
<1> SUFFICES ASSUME SyncInv, EffectFails PROVE SyncInv'
  OBVIOUS
<1>1. /\ effect.who = "ingest" /\ BeginRecovery(ctl, queue, FALSE, {})
      /\ UNCHANGED <<log, startTimer, retryTimer, shown, applied>>
      /\ faults' = faults \/ Fault
  BY DEF EffectFails
<1>2. ctl \in CtlRows /\ ctl.attempts <= MaxAttempts
  BY <1>1, CtlTyped DEF SyncInv, Modes
<1>3. startTimer' \in Timings /\ retryTimer' \in Timings /\ faults' \in 0..MaxFaults
  BY <1>1, FaultCounts DEF SyncInv, Rows
<1> QED
  BY <1>1, <1>2, <1>3, BareBeginKeeps

LEMMA StageFacts ==
    ASSUME SyncInv, Recovering
    PROVE  /\ Stage /\ ~Off /\ ctl.state = "recovering" /\ ~ctl.barrier /\ conn.pc # "none"
           /\ rec.after \in Nat /\ rec.cursor \in Nat /\ rec.hw \in Nat /\ log \in 0..MaxEvents
           /\ MaxEvents \in Nat /\ StageCursor = rec.cursor /\ effect.who # "ingest"
           /\ Base = rec.cursor /\ rec \in RecRows /\ Staging
BY SomeNumbers, NoRows
DEF SyncInv, Modes, Off, Confirmations, Rows, StageCursor, Base, Recovering, Staging

LEMMA CollectKeeps == SyncInv /\ Collect => SyncInv'
<1> SUFFICES ASSUME SyncInv, Collect PROVE SyncInv'
  OBVIOUS
<1>1. /\ rec.step = "collect" /\ Recovering
      /\ rec' = [rec EXCEPT !.step = "replay", !.hw = log,
                            !.seen = @ \cup ((rec.after + 1)..log), !.cursor = Upper(@, log)]
      /\ UNCHANGED <<log, conn, ctl, seen, queue, effect, load, poll, startTimer, retryTimer, shown,
                     applied, faults>>
  BY DEF Collect, Recovering, streamVars
<1>2. /\ Stage /\ rec \in RecRows /\ Base = rec.cursor /\ effect.who # "ingest"
      /\ rec.after \in Nat /\ rec.cursor \in Nat /\ log \in 0..MaxEvents /\ MaxEvents \in Nat
      /\ rec.after <= rec.cursor /\ rec.cursor <= log /\ effect.who = "none"
  <2>1. effect.who # "recovery" /\ effect.who \in {"none", "ingest", "recovery"}
    BY <1>1, SomeNumbers DEF SyncInv, Modes, Rows, EffectRows
  <2>2. rec.cursor \in rec.after..log
    BY <1>1, StageFacts DEF Stage
  <2> QED
    BY <1>1, <2>1, <2>2, StageFacts
<1>3. Upper(rec.cursor, log) = log /\ rec.seen \cup ((rec.after + 1)..log) = 1..log
  <2>1. 1..rec.after \subseteq rec.seen /\ rec.seen \subseteq 1..rec.cursor
    BY <1>2 DEF Stage
  <2> QED
    BY <1>2, <2>1 DEF Upper
<1>4. /\ rec' \in RecRows /\ rec'.step = "replay" /\ rec'.hw = log /\ rec'.seen = 1..log
      /\ rec'.cursor = log /\ rec'.after = rec.after /\ rec'.pre = rec.pre
      /\ rec'.buffer = rec.buffer
  <2>1. 1..log \in SUBSET (1..MaxEvents)
    BY <1>2
  <2> QED
    BY <1>1, <1>2, <1>3, <2>1 DEF RecRows
<1>5. Recovering' /\ Staging /\ Staging' /\ Base' = log
  BY <1>1, <1>2, <1>4 DEF Recovering, Staging, Base, StageCursor
<1>6. Rows'
  BY <1>1, <1>4 DEF SyncInv, Rows
<1>7. Modes'
  BY <1>1, <1>2, <1>4, <1>5 DEF SyncInv, Modes, SomethingIsPending, Off
<1>8. Loads'
  BY <1>1, <1>4 DEF SyncInv, Loads
<1>9. Order'
  <2>1. FitQueue(queue) /\ log \in Nat /\ log >= rec.cursor
        /\ conn.cursor - Len(conn.pending) \in Int /\ poll.next - 1 \in Int /\ Len(queue) \in Int
    BY <1>2, QueueFits, SomeNumbers
  <2>2. ~ctl.barrier =>
          /\ Gapless(queue, log)
          /\ conn.pc = "open" => Covers(queue, Len(queue), log, conn.cursor - Len(conn.pending))
          /\ poll.on => Covers(queue, Len(queue), log, poll.next - 1)
    BY <1>2, <2>1, CoversLess, GaplessLess DEF SyncInv, Order
  <2> QED
    BY <1>1, <1>5, <2>2 DEF SyncInv, Order
<1>10. Confirmations'
  <2>1. Stage'
    <3>1. /\ (rec.after + 1)..rec.cursor \subseteq (rec.after + 1)..log
          /\ 1..rec.after \subseteq 1..log
      BY <1>2
    <3>2. /\ rec'.after = ctl'.cursor /\ rec'.cursor \in rec'.after..log'
          /\ rec'.hw <= rec'.cursor /\ rec'.seen = 1..rec'.cursor /\ rec'.pre \subseteq applied'
      BY <1>1, <1>2, <1>4 DEF Stage
    <3>3. /\ 1..rec'.after \subseteq rec'.seen
          /\ rec'.pre \cup rec'.buffer \subseteq (rec'.after + 1)..rec'.cursor
          /\ (rec'.after + 1)..rec'.cursor \subseteq Kept'
      BY <1>2, <1>4, <3>1 DEF Stage, Kept
    <3> QED
      BY <1>1, <1>2, <3>2, <3>3 DEF Stage
  <2> QED
    BY <1>1, <1>2, <1>5, <2>1 DEF SyncInv, Confirmations
<1> QED
  BY <1>6, <1>7, <1>8, <1>9, <1>10 DEF SyncInv

\* While a recovery has something left to apply, the next is the event after
\* which all before it were.
LEMMA OwedIsNext ==
    ASSUME SyncInv, rec.step = "replay", effect.who = "none", Owed # {}
    PROVE  /\ MinOf(Owed) \in (rec.after + 1)..rec.cursor
           /\ (rec.after + 1)..(MinOf(Owed) - 1) \subseteq rec.pre
<1> DEFINE ev == MinOf(Owed)
<1>1. Recovering /\ Stage
  BY StageFacts DEF Recovering
<1>2. /\ rec.after \in Nat /\ rec.cursor \in Nat /\ rec.hw \in Nat /\ rec.hw <= rec.cursor
      /\ (rec.after + 1)..rec.cursor \subseteq Kept
      /\ rec.pre \cup rec.buffer \subseteq (rec.after + 1)..rec.cursor
  BY <1>1, StageFacts DEF Stage
<1>3. Owed = Kept \ rec.pre /\ Kept = (rec.after + 1)..rec.cursor
  <2>1. (rec.after + 1)..rec.hw \subseteq (rec.after + 1)..rec.cursor
    BY <1>2
  <2> QED
    BY <1>2, <2>1 DEF Owed, Kept
<1>4. Owed \in SUBSET Nat
  BY <1>2, <1>3
<1>5. ev \in Owed /\ \A m \in Owed : ev <= m
  BY <1>4, MinIsLeast
<1> HIDE DEF ev
<1>6. ev \in (rec.after + 1)..rec.cursor /\ ev \in Nat
  BY <1>3, <1>4, <1>5
<1>7. ASSUME NEW n \in (rec.after + 1)..(ev - 1), n \notin rec.pre
      PROVE  FALSE
  <2>1. n \in (rec.after + 1)..rec.cursor /\ n < ev
    BY <1>2, <1>6, <1>7
  <2>2. n \in Owed
    BY <1>3, <1>7, <2>1
  <2> QED
    BY <1>4, <1>5, <1>6, <2>1, <2>2
<1> QED
  BY <1>6, <1>7 DEF ev

LEMMA ReplayKeeps == SyncInv /\ Replay => SyncInv'
<1> SUFFICES ASSUME SyncInv, Replay PROVE SyncInv'
  OBVIOUS
<1> DEFINE ev == MinOf(Owed)
<1>1. /\ rec.step = "replay" /\ effect.who = "none" /\ Owed # {} /\ Recovering
      /\ effect' = [who |-> "recovery", ev |-> ev, phase |-> "loading"]
      /\ load' = [who |-> "effect", at |-> log]
      /\ UNCHANGED <<log, conn, ctl, seen, queue, rec, poll, startTimer, retryTimer, shown, applied,
                     faults>>
  BY DEF Replay, Recovering, streamVars
<1>2. ev \in (rec.after + 1)..rec.cursor /\ (rec.after + 1)..(ev - 1) \subseteq rec.pre
  BY <1>1, OwedIsNext
<1>3. /\ Stage /\ rec.after \in Nat /\ rec.cursor \in rec.after..log /\ log \in 0..MaxEvents
      /\ MaxEvents \in Nat /\ rec.cursor \in Nat /\ ~Off
  BY <1>1, StageFacts DEF Stage
<1>4. ev \in 1..log /\ ev \in 0..MaxEvents /\ shown <= log
  BY <1>2, <1>3 DEF SyncInv, Loads
<1> HIDE DEF ev
<1>5. effect' \in EffectRows /\ load' \in LoadRows
  BY <1>1, <1>3, <1>4 DEF EffectRows, LoadRows
<1>6. Recovering' /\ Staging /\ Staging' /\ StageCursor' = StageCursor /\ Base' = Base
  BY <1>1 DEF Recovering, Staging, Base, StageCursor
<1>7. Rows'
  BY <1>1, <1>5 DEF SyncInv, Rows
<1>8. Modes'
  BY <1>1, <1>3, <1>6 DEF SyncInv, Modes, SomethingIsPending, Off
<1>9. Loads'
  BY <1>1, <1>3, <1>4 DEF SyncInv, Loads
<1>10. Order'
  BY <1>1, <1>6 DEF SyncInv, Order
<1>11. Confirmations'
  BY <1>1, <1>2, <1>3, <1>6 DEF SyncInv, Confirmations, Stage, Kept
<1> QED
  BY <1>7, <1>8, <1>9, <1>10, <1>11 DEF SyncInv

LEMMA ReplayDoneKeeps == SyncInv /\ ReplayDone => SyncInv'
<1> SUFFICES ASSUME SyncInv, ReplayDone PROVE SyncInv'
  OBVIOUS
<1> DEFINE ev == effect.ev
<1>1. /\ effect.who = "recovery" /\ effect.phase = "shown" /\ applied' = applied \cup {ev}
      /\ log' = log /\ startTimer' = startTimer /\ shown' = shown /\ faults' = faults
  BY DEF ReplayDone, Ready
<1>2. rec.step = "replay" /\ Recovering /\ ev <= shown /\ ev \in 1..log /\ load.who # "effect"
  BY <1>1 DEF SyncInv, Modes, Loads, Recovering
<1>3. /\ Stage /\ rec.after \in Nat /\ rec.cursor \in Nat /\ log \in 0..MaxEvents /\ MaxEvents \in Nat
      /\ rec.after = ctl.cursor /\ ~Off /\ rec \in RecRows /\ rec.cursor \in rec.after..log
      /\ Base = rec.cursor
  BY <1>2, StageFacts DEF Stage
<1>4. ev \in (rec.after + 1)..rec.cursor /\ rec.pre \subseteq (rec.after + 1)..rec.cursor
  BY <1>1, <1>3 DEF Stage
<1>5. rec.pre \cup {ev} \subseteq (rec.after + 1)..rec.cursor
      /\ rec.pre \cup {ev} \in SUBSET ((rec.after + 1)..log)
  BY <1>3, <1>4
<1>6. applied' \subseteq 1..shown /\ applied' \in SUBSET (1..MaxEvents)
      /\ rec.pre \cup {ev} \subseteq applied' /\ applied \subseteq applied' /\ seen \subseteq applied'
  <2>1. applied \subseteq 1..shown /\ seen \subseteq applied /\ rec.pre \subseteq applied
        /\ shown \in 0..MaxEvents
    BY <1>3, SomeNumbers DEF SyncInv, Confirmations, Stage, Rows
  <2>2. ev \in 1..shown /\ 1..shown \subseteq 1..MaxEvents
    BY <1>2, <1>3, <2>1
  <2> QED
    BY <1>1, <2>1, <2>2
<1> HIDE DEF ev
<1>7. CASE effect.ev \in Unknown
  <2>1. BeginRecovery(ctl, queue, FALSE, rec.pre \cup {ev}) /\ retryTimer' = "none"
    BY <1>7 DEF ReplayDone, ev
  <2>2. ctl \in CtlRows /\ ctl.attempts <= MaxAttempts /\ FitQueue(queue)
    BY <1>3, CtlTyped, QueueFits
  <2>3. startTimer' \in Timings /\ retryTimer' \in Timings /\ faults' \in 0..MaxFaults
    BY <1>1, <2>1 DEF SyncInv, Rows, Timings
  <2>4. rec.pre \cup {ev} \in SUBSET ((ctl.cursor + 1)..log)
    BY <1>3, <1>5
  <2> QED
    BY <1>1, <1>6, <2>1, <2>2, <2>3, <2>4, BeginKeeps
<1>8. CASE effect.ev \notin Unknown
  <2>1. /\ rec' = [rec EXCEPT !.pre = @ \cup {ev}] /\ effect' = NoEffect
        /\ UNCHANGED <<conn, ctl, seen, queue, load, poll, retryTimer>>
    BY <1>8 DEF ReplayDone, ev
  <2>2. /\ rec' \in RecRows /\ rec'.step = rec.step /\ rec'.after = rec.after /\ rec'.hw = rec.hw
        /\ rec'.pre = rec.pre \cup {ev} /\ rec'.buffer = rec.buffer /\ rec'.seen = rec.seen
        /\ rec'.cursor = rec.cursor
    <3>1. rec.pre \cup {ev} \in SUBSET (1..MaxEvents)
      BY <1>3, <1>5
    <3> QED
      BY <1>3, <2>1, <3>1 DEF RecRows
  <2>3. Recovering' /\ Staging /\ Staging' /\ Base' = Base
    BY <1>2, <1>3, <2>1, <2>2 DEF Recovering, Staging, Base, StageCursor, NoEffect
  <2>4. Rows'
    BY <1>1, <1>6, <2>1, <2>2, NoRows DEF SyncInv, Rows
  <2>5. Modes'
    BY <1>1, <1>2, <1>3, <2>1, <2>2, <2>3
    DEF SyncInv, Modes, SomethingIsPending, Off, NoEffect, Recovering
  <2>6. Loads'
    BY <1>1, <1>2, <2>1, <2>2 DEF SyncInv, Loads, NoEffect
  <2>7. Order'
    BY <1>1, <2>1, <2>3 DEF SyncInv, Order
  <2>8. Confirmations'
    <3>1. Stage'
      BY <1>1, <1>3, <1>5, <1>6, <2>1, <2>2 DEF Stage, Kept, NoEffect
    <3> QED
      BY <1>1, <1>6, <2>1, <2>3, <3>1 DEF SyncInv, Confirmations, NoEffect
  <2> QED
    BY <2>4, <2>5, <2>6, <2>7, <2>8 DEF SyncInv
<1> QED
  BY <1>7, <1>8

LEMMA RecoveryFailsKeeps == SyncInv /\ RecoveryFails => SyncInv'
<1> SUFFICES ASSUME SyncInv, RecoveryFails PROVE SyncInv'
  OBVIOUS
<1>1. log' = log /\ shown' = shown /\ applied' = applied
  BY DEF RecoveryFails
<1>2. faults' \in 0..MaxFaults
  BY FaultCounts, SomeNumbers DEF RecoveryFails, Rows
<1>3. rec.budgeted \in BOOLEAN
  BY SomeNumbers DEF Rows, RecRows
<1>4. \E counts \in BOOLEAN : FailRecovery(counts)
  BY <1>3 DEF RecoveryFails
<1>5. Recovering
  BY DEF RecoveryFails, SyncInv, Modes, Recovering
<1>6. ~Off
  BY <1>5, StageFacts
<1> QED
  BY <1>1, <1>2, <1>4, <1>6, FailRecoveryKeeps

\* The replay runs out of time: the stage, and what it has seen, stay.
LEMMA ReplayTimesOutKeeps == SyncInv /\ ReplayTimesOut => SyncInv'
<1> SUFFICES ASSUME SyncInv, ReplayTimesOut PROVE SyncInv'
  OBVIOUS
<1>1. /\ effect.who = "recovery" /\ effect' = NoEffect /\ load' = NoLoad
      /\ rec' = [rec EXCEPT !.step = "stranded", !.pre = {}, !.buffer = {}]
      /\ UNCHANGED <<log, conn, ctl, seen, queue, poll, startTimer, retryTimer, shown, applied>>
      /\ faults' \in 0..MaxFaults
  BY FaultCounts DEF ReplayTimesOut, streamVars
<1>2. rec.step = "replay" /\ Recovering
  BY <1>1 DEF SyncInv, Modes, Recovering
<1>3. /\ Stage /\ ~Off /\ ctl.state = "recovering" /\ ~ctl.barrier /\ conn.pc # "none"
      /\ rec \in RecRows /\ Base = rec.cursor
  BY <1>2, StageFacts
<1>4. /\ rec' \in RecRows /\ rec'.step = "stranded" /\ rec'.after = rec.after
      /\ rec'.hw = rec.hw /\ rec'.pre = {} /\ rec'.buffer = {}
      /\ rec'.seen = rec.seen /\ rec'.cursor = rec.cursor
  BY <1>1, <1>3 DEF RecRows
<1>5. ~Recovering' /\ Staging' /\ Base' = Base
  BY <1>1, <1>3, <1>4 DEF Recovering, Staging, Base, StageCursor, NoEffect
<1>6. Rows'
  BY <1>1, <1>4, NoRows DEF SyncInv, Rows
<1>7. Modes'
  BY <1>1, <1>3, <1>4, <1>5 DEF SyncInv, Modes, SomethingIsPending, Off, NoEffect, NoLoad
<1>8. Loads'
  BY <1>1 DEF SyncInv, Loads, NoEffect, NoLoad
<1>9. Order'
  BY <1>1, <1>5 DEF SyncInv, Order
<1>10. Stage'
  BY <1>1, <1>2, <1>3, <1>4 DEF Stage, NoEffect
<1>11. Confirmations'
  BY <1>1, <1>5, <1>10 DEF SyncInv, Confirmations, NoEffect
<1> QED
  BY <1>6, <1>7, <1>8, <1>9, <1>11 DEF SyncInv

LEMMA PromoteKeeps == SyncInv /\ Promote => SyncInv'
<1> SUFFICES ASSUME SyncInv, Promote PROVE SyncInv'
  OBVIOUS
<1>1. /\ rec.step = "replay" /\ effect.who = "none" /\ Owed = {} /\ Recovering
      /\ seen' = rec.seen /\ rec' = NoRec /\ retryTimer' = "none" /\ poll' \in {poll, NoPoll}
      /\ UNCHANGED <<log, conn, queue, effect, load, startTimer, shown, applied, faults>>
  BY DEF Promote, Recovering, streamVars
<1>2. /\ Stage /\ rec.after \in Nat /\ rec.cursor \in Nat /\ rec.hw \in Nat /\ log \in 0..MaxEvents
      /\ MaxEvents \in Nat /\ Base = rec.cursor /\ ~Off /\ ~ctl.barrier /\ conn.pc # "none"
      /\ rec.after = ctl.cursor /\ rec.cursor \in rec.after..log /\ rec.hw <= rec.cursor
      /\ rec.seen = 1..rec.cursor /\ ctl \in CtlRows /\ ctl.attempts <= MaxAttempts
  BY <1>1, StageFacts, CtlTyped DEF Stage
<1>3. /\ ctl' \in CtlRows /\ ctl'.cursor = rec.cursor /\ ctl'.attempts <= MaxAttempts
      /\ ctl'.barrier = FALSE /\ ctl'.state \in {"live", "connecting"}
  <2>1. Upper(rec.cursor, rec.hw) = rec.cursor
    BY <1>2 DEF Upper
  <2> DEFINE c == Confirmed(ctl, rec.cursor)
  <2>2. /\ c \in CtlRows /\ c.cursor = rec.cursor /\ c.attempts <= MaxAttempts /\ c.barrier = FALSE
    <3>1. CASE rec.cursor > ctl.cursor
      <4>1. c = [ctl EXCEPT !.cursor = rec.cursor, !.attempts = 0]
        BY <3>1 DEF Confirmed
      <4>2. rec.cursor \in 0..MaxEvents /\ 0 \in 0..(MaxAttempts + 1) /\ 0 <= MaxAttempts
        BY <1>2, NoRows
      <4>3. c \in CtlRows /\ c.cursor = rec.cursor /\ c.attempts = 0 /\ c.barrier = ctl.barrier
        BY <1>2, <4>1, <4>2 DEF CtlRows
      <4> HIDE DEF c
      <4> QED
        BY <1>2, <4>2, <4>3 DEF CtlRows
    <3>2. CASE ~(rec.cursor > ctl.cursor)
      <4>1. c = ctl /\ rec.cursor = ctl.cursor
        BY <1>2, <3>2 DEF Confirmed
      <4> QED
        BY <1>2, <4>1 DEF CtlRows
    <3> QED
      BY <3>1, <3>2
  <2>3. ctl' = [c EXCEPT !.state = IF ctl.sawLive THEN "live" ELSE "connecting",
                         !.polling = ~ctl.sawLive]
    BY <2>1 DEF Promote
  <2> HIDE DEF c
  <2>4. ctl.sawLive \in BOOLEAN
    BY <1>2 DEF CtlRows
  <2> QED
    BY <2>2, <2>3, <2>4 DEF CtlRows, States
<1>4. ~Recovering' /\ ~Staging' /\ Base' = Base
  BY <1>1, <1>2, <1>3 DEF Recovering, Staging, Base, StageCursor, NoRec
<1>5. 1..rec.cursor \subseteq applied
  <2>1. (rec.after + 1)..rec.cursor \subseteq rec.pre
    BY <1>1, <1>2 DEF Stage, Kept, Owed
  <2>2. 1..rec.after \subseteq applied /\ rec.pre \subseteq applied
    BY <1>2 DEF SyncInv, Confirmations, Stage, Kept
  <2> QED
    BY <1>2, <2>1, <2>2
<1>6. Rows'
  <2>1. seen' \in SUBSET (1..MaxEvents)
    BY <1>1, <1>2
  <2> QED
    BY <1>1, <1>3, <2>1, NoRows DEF SyncInv, Rows, Timings
<1>7. Modes'
  BY <1>1, <1>2, <1>3, <1>4 DEF SyncInv, Modes, SomethingIsPending, Off
<1>8. Loads'
  BY <1>1 DEF SyncInv, Loads
<1>9. Order'
  BY <1>1, <1>2, <1>3, <1>4 DEF SyncInv, Order, NoPoll
<1>10. Confirmations'
  BY <1>1, <1>2, <1>3, <1>4, <1>5 DEF SyncInv, Confirmations
<1> QED
  BY <1>6, <1>7, <1>8, <1>9, <1>10 DEF SyncInv

(***************************************************************************)
(* Timers and calls.                                                       *)
(***************************************************************************)
LEMMA TimersKeep == SyncInv /\ Timers => SyncInv'
<1> SUFFICES ASSUME SyncInv, Timers PROVE SyncInv'
  OBVIOUS
<1>1. /\ ctl \in CtlRows /\ faults \in 0..MaxFaults /\ FitQueue(queue)
      /\ startTimer \in Timings /\ retryTimer \in Timings
  BY CtlTyped, QueueFits DEF SyncInv, Rows
<1>2. CASE Stalled
  <2>1. /\ conn.pc # "none" /\ log' = log /\ shown' = shown /\ applied' = applied
        /\ faults' = faults \/ Fault
    BY <1>2 DEF Stalled
  <2>2. ~Off /\ ctl.attempts <= MaxAttempts /\ faults' \in 0..MaxFaults
    BY <1>1, <2>1, CtlTyped, FaultCounts DEF SyncInv, Modes
  <2>3. CASE Recovering
    <3>1. FenceRecovery(ctl, queue, "plain") /\ ctl.state = "recovering"
      BY <1>2, <2>3, StageFacts DEF Stalled
    <3> QED
      BY <1>1, <2>1, <2>2, <3>1, FenceKeeps
  <2>4. CASE ~Recovering
    <3>1. BeginRecovery(ctl, queue, FALSE, {}) /\ UNCHANGED <<startTimer, retryTimer>>
      BY <1>2, <2>4 DEF Stalled
    <3> QED
      BY <1>1, <2>1, <2>2, <3>1, BareBeginKeeps
  <2> QED
    BY <2>3, <2>4
\* A timer that fires during a recovery is just forgotten.
<1>3. ASSUME Recovering, startTimer' \in Timings, retryTimer' \in Timings,
             UNCHANGED <<conn, ctl, seen, queue, effect, load, rec, poll, log, shown, applied, faults>>
      PROVE  SyncInv'
  <2>1. /\ Recovering' = Recovering /\ Staging' = Staging
        /\ StageCursor' = StageCursor /\ Base' = Base /\ ~Off /\ ctl.state = "recovering"
    BY <1>3, StageFacts DEF Recovering, Staging, Base, StageCursor
  <2>2. Rows'
    BY <1>3 DEF SyncInv, Rows
  <2>3. Modes'
    BY <1>3, <2>1 DEF SyncInv, Modes, SomethingIsPending, Off
  <2>4. Loads' /\ Order' /\ Confirmations'
    BY <1>3, <2>1 DEF SyncInv, Loads, Order, Confirmations, Stage, Kept
  <2> QED
    BY <2>2, <2>3, <2>4 DEF SyncInv
<1>4. CASE StartTimerFires
  <2>1. /\ startTimer # "none" /\ startTimer' = "none" /\ retryTimer' = retryTimer
        /\ UNCHANGED <<log, shown, applied, faults>>
    BY <1>4 DEF StartTimerFires
  <2>2. startTimer' \in Timings /\ retryTimer' \in Timings /\ ctl.attempts <= MaxAttempts
        /\ (startTimer = "budgeted") \in BOOLEAN
    BY <1>1, <2>1, CtlTyped DEF Timings, SyncInv, Modes
  <2>3. CASE Recovering
    BY <1>3, <1>4, <2>1, <2>2, <2>3 DEF StartTimerFires
  <2>4. CASE ~Recovering
    <3>1. BeginRecovery(ctl, queue, startTimer = "budgeted", {})
      BY <1>4, <2>4 DEF StartTimerFires
    <3> QED
      BY <1>1, <2>1, <2>2, <3>1, BareBeginKeeps
  <2> QED
    BY <2>3, <2>4
<1>5. CASE RetryTimerFires
  <2>1. /\ retryTimer # "none" /\ retryTimer' = "none" /\ startTimer' = startTimer
        /\ UNCHANGED <<log, shown, applied, faults>>
    BY <1>5 DEF RetryTimerFires
  <2>2. startTimer' \in Timings /\ retryTimer' \in Timings /\ ctl.attempts <= MaxAttempts
        /\ (retryTimer = "budgeted") \in BOOLEAN
    BY <1>1, <2>1, CtlTyped DEF Timings, SyncInv, Modes
  <2>3. CASE Recovering
    BY <1>3, <1>5, <2>1, <2>2, <2>3 DEF RetryTimerFires
  <2>4. CASE ~Recovering
    <3>1. BeginRecovery(ctl, queue, retryTimer = "budgeted", {})
      BY <1>5, <2>4 DEF RetryTimerFires
    <3> QED
      BY <1>1, <2>1, <2>2, <3>1, BareBeginKeeps
  <2> QED
    BY <2>3, <2>4
<1> QED
  BY <1>2, <1>4, <1>5 DEF Timers

LEMMA RetryKeeps == SyncInv /\ Retry => SyncInv'
<1> SUFFICES ASSUME SyncInv, Retry PROVE SyncInv'
  OBVIOUS
<1> DEFINE c == [ctl EXCEPT !.attempts = 0]
<1>1. /\ BeginRecovery(c, queue, FALSE, {})
      /\ UNCHANGED <<log, startTimer, retryTimer, shown, applied, faults>>
  BY DEF Retry
<1>2. c \in CtlRows /\ c.cursor = ctl.cursor /\ c.attempts <= MaxAttempts
  BY CtlTyped DEF CtlRows
<1>3. startTimer' \in Timings /\ retryTimer' \in Timings /\ faults' \in 0..MaxFaults
  BY <1>1 DEF SyncInv, Rows
<1> HIDE DEF c
<1> QED
  BY <1>1, <1>2, <1>3, BareBeginKeeps

LEMMA StopKeeps == SyncInv /\ Stop => SyncInv'
<1> SUFFICES ASSUME SyncInv, Stop PROVE SyncInv'
  OBVIOUS
<1>1. /\ NewToken(queue) /\ rec' = NoRec /\ conn' = NoConn /\ load' = NoLoad
      /\ ctl' = [ctl EXCEPT !.state = "stopped", !.barrier = FALSE, !.polling = FALSE]
      /\ startTimer' = "none" /\ retryTimer' = "none"
      /\ UNCHANGED <<log, seen, shown, applied, faults>>
  BY DEF Stop
<1>2. /\ ctl' \in CtlRows /\ ctl'.cursor = ctl.cursor /\ ctl'.state = "stopped" /\ ~ctl'.polling
      /\ seen = 1..ctl.cursor /\ seen \subseteq applied /\ applied \subseteq 1..shown
      /\ ctl.cursor <= log /\ shown <= log /\ ctl.cursor \in Nat
  BY <1>1, CtlTyped, SomeNumbers DEF CtlRows, States, SyncInv, Confirmations, Loads
<1>3. /\ queue' \in Seq(Tasks) /\ effect' = NoEffect /\ poll' = NoPoll
      /\ \A i \in 1..Len(queue') : queue'[i].old
  BY <1>1, QueueFits, NewTokenAges
<1>4. ~Recovering' /\ ~Staging' /\ Base' = ctl.cursor
  BY <1>1, <1>2, <1>3 DEF Recovering, Staging, Base, StageCursor, NoRec, NoEffect
<1>5. Order' /\ conn' \in ConnRows
  BY <1>1, <1>2, <1>4, QueueFits, FencedOrder
<1>6. Rows'
  BY <1>1, <1>2, <1>3, <1>5, NoRows DEF SyncInv, Rows, Timings
<1>7. Modes'
  BY <1>1, <1>2, <1>3, <1>4
  DEF Modes, SomethingIsPending, Off, NoConn, NoEffect, NoPoll, NoLoad
<1>8. Loads'
  BY <1>1, <1>2, <1>3 DEF Loads, NoLoad, NoEffect
<1>9. Confirmations'
  BY <1>1, <1>2, <1>3, <1>4 DEF Confirmations, NoEffect
<1> QED
  BY <1>5, <1>6, <1>7, <1>8, <1>9 DEF SyncInv

(***************************************************************************)
(* The theorems.                                                           *)
(***************************************************************************)
LEMMA SyncStep == SyncInv /\ [Next]_vars => SyncInv'
<1> SUFFICES ASSUME SyncInv, [Next]_vars PROVE SyncInv'
  OBVIOUS
<1>1. CASE CommitEvent /\ UNCHANGED syncVars
  BY <1>1, CommitEventKeeps
<1>2. CASE PollLog /\ UNCHANGED syncVars
  BY <1>2, PollLogKeeps
<1>3. CASE EventArrives
  BY <1>3, EventArrivesKeeps
<1>4. CASE HeartbeatArrives
  <2>1. /\ conn.pc = "open" /\ Receive(Task("heartbeat", 0)) /\ UNCHANGED streamVars
        /\ faults' = faults
    BY <1>4 DEF HeartbeatArrives
  <2>2. faults' \in 0..MaxFaults
    BY <2>1, SomeNumbers DEF Rows
  <2> QED
    BY <2>1, <2>2, FrameArrivesKeeps
<1>5. CASE BadFrameArrives
  <2>1. conn.pc = "open" /\ Receive(Task("bad", 0)) /\ UNCHANGED streamVars
    BY <1>5 DEF BadFrameArrives
  <2>2. faults' \in 0..MaxFaults
    BY <1>5, FaultCounts DEF BadFrameArrives
  <2> QED
    BY <2>1, <2>2, FrameArrivesKeeps
<1>6. CASE ConnectionBreaks
  BY <1>6, ConnectionBreaksKeeps
<1>7. CASE Ingest
  BY <1>7, IngestKeeps
<1>8. CASE Sink
  BY <1>8, LoadDoneKeeps, EffectDoneKeeps, EffectFailsKeeps, CollectKeeps, ReplayKeeps,
     ReplayDoneKeeps, RecoveryFailsKeeps, PromoteKeeps DEF Sink
<1>9. CASE LoadFails
  <2>1. /\ Failed(load.who) /\ load' = NoLoad
        /\ UNCHANGED <<streamVars, ctl, seen, queue, poll, startTimer, retryTimer, shown, applied>>
    BY <1>9 DEF LoadFails
  <2>2. faults' \in 0..MaxFaults
    BY <1>9, FaultCounts DEF LoadFails
  <2> QED
    BY <2>1, <2>2, LoadLostKeeps
<1>10. CASE Timers
  BY <1>10, TimersKeep
<1>11. CASE PollStart
  BY <1>11, PollStartKeeps
<1>12. CASE PollFeeds
  BY <1>12, PollFeedsKeeps
<1>13. CASE Refresh
  <2>1. /\ Failed(load.who) /\ load' = [who |-> "refresh", at |-> log] /\ ctl.state # "stopped"
        /\ UNCHANGED <<streamVars, ctl, seen, queue, poll, startTimer, retryTimer, shown, applied>>
    BY <1>13 DEF Refresh
  <2>2. faults' \in 0..MaxFaults
    BY <1>13, FaultCounts DEF Refresh
  <2> QED
    BY <2>1, <2>2, LoadLostKeeps
<1>14. CASE Retry
  BY <1>14, RetryKeeps
<1>15. CASE Stop
  BY <1>15, StopKeeps
<1>16. CASE ReplayTimesOut
  BY <1>16, ReplayTimesOutKeeps
<1>17. CASE UNCHANGED vars
  <2>1. UNCHANGED <<log, conn, ctl, seen, queue, effect, load, rec, poll, startTimer, retryTimer,
                    shown, applied, faults>>
    BY <1>17 DEF vars, streamVars, syncVars
  <2>2. /\ Recovering' = Recovering /\ Staging' = Staging
        /\ StageCursor' = StageCursor /\ Base' = Base /\ Off' = Off
    BY <2>1 DEF Recovering, Staging, Base, StageCursor, Off
  <2>3. Rows' /\ Loads'
    BY <2>1 DEF SyncInv, Rows, Loads
  <2>4. Modes'
    BY <2>1, <2>2 DEF SyncInv, Modes, SomethingIsPending
  <2>5. Order' /\ Confirmations'
    BY <2>1, <2>2 DEF SyncInv, Order, Confirmations, Stage, Kept
  <2> QED
    BY <2>3, <2>4, <2>5 DEF SyncInv
<1> QED
  BY <1>1, <1>2, <1>3, <1>4, <1>5, <1>6, <1>7, <1>8, <1>9, <1>10, <1>11, <1>12, <1>13, <1>14,
     <1>15, <1>16, <1>17 DEF Next

LEMMA SyncAlways == Spec => []SyncInv
<1>1. Init => SyncInv
  BY SyncInit
<1>2. SyncInv /\ [Next]_vars => SyncInv'
  BY SyncStep
<1> QED
  BY <1>1, <1>2, PTL DEF Spec

\* The variables of the controller and of the stream have their types, and the
\* budget of anomalies is never exceeded by more than the one that opens the
\* circuit (beginRecovery, protocolFailure, promoteRecoveryStage).
THEOREM SyncIsTyped == Spec => []TypeOK
<1>1. SyncInv => TypeOK
  BY RowsAreTypes DEF SyncInv
<1> QED
  BY <1>1, SyncAlways, PTL

\* No event is lost: for logs, pages, queues and faults of any number, what the
\* controller confirms was applied, is on the screen, and has nothing
\* unconfirmed before it (applyEvent, ingestEnvelope, promoteRecoveryStage).
THEOREM NoEventIsLost == Spec => []ConfirmedIsApplied
<1>1. SyncInv => ConfirmedIsApplied
  <2> SUFFICES ASSUME SyncInv PROVE ConfirmedIsApplied
    OBVIOUS
  <2>1. seen = 1..ctl.cursor /\ seen \subseteq applied /\ applied \subseteq 1..shown
    BY DEF SyncInv, Confirmations
  <2>2. ctl.cursor \in Nat /\ shown \in Nat
    BY SomeNumbers
  <2>3. ctl.cursor <= shown
    <3>1. CASE ctl.cursor = 0
      BY <2>2, <3>1
    <3>2. CASE ctl.cursor # 0
      <4>1. ctl.cursor \in 1..ctl.cursor
        BY <2>2, <3>2
      <4>2. ctl.cursor \in 1..shown
        BY <2>1, <4>1
      <4> QED
        BY <2>2, <4>2
    <3> QED
      BY <3>1, <3>2
  <2> QED
    BY <2>1, <2>3 DEF ConfirmedIsApplied
<1> QED
  BY <1>1, SyncAlways, PTL

\* Whatever fails, a path is left: a recovery or a timer that starts one, or a
\* connection (scheduleRecovery, fenceRecoveryConnection, beginRecovery); after a
\* replay that ran out of time it is the connection alone (performRecovery).
THEOREM SomethingIsAlwaysPending == Spec => []SomethingIsPending
<1>1. SyncInv => SomethingIsPending
  BY DEF SyncInv, Modes
<1> QED
  BY <1>1, SyncAlways, PTL

\* Every fence takes the running effect away.
LEMMA FencesCancel ==
    /\ \A c, q, b, p : BeginRecovery(c, q, b, p) => effect'.who = "none"
    /\ \A c, q, t : FenceRecovery(c, q, t) => effect'.who = "none"
    /\ \A c, q : ProtocolFailure(c, q) => effect'.who = "none" \/ effect' = effect
    /\ \A n : FailRecovery(n) => effect'.who = "none"
<1>1. \A q : NewToken(q) => effect'.who = "none"
  BY DEF NewToken, NoEffect
<1>2. /\ \A c, q, t : ScheduleRecovery(c, q, t) => effect'.who = "none"
      /\ \A c, q : OpenCircuit(c, q) => effect'.who = "none"
  BY <1>1 DEF ScheduleRecovery, OpenCircuit
<1>3. /\ \A c, q, b, p : BeginRecovery(c, q, b, p) => effect'.who = "none"
      /\ \A c, q, t : FenceRecovery(c, q, t) => effect'.who = "none"
  BY <1>1 DEF BeginRecovery, FenceRecovery, RecoveryFenced
<1>4. \A c, q : ProtocolFailure(c, q) => effect'.who = "none" \/ effect' = effect
  BY <1>2, <1>3 DEF ProtocolFailure
<1>5. \A n : FailRecovery(n) => effect'.who = "none"
  BY <1>2 DEF FailRecovery
<1> QED
  BY <1>3, <1>4, <1>5

LEMMA EffectStarts ==
    ASSUME SyncInv, [Next]_vars, effect.who = "none", effect'.who # "none"
    PROVE  effect'.ev > ctl.cursor
<1> USE FencesCancel
<1>1. CASE Ingest
  <2> DEFINE t == Head(queue)
  <2>1. /\ queue # <<>> /\ effect.who # "ingest" /\ IF ~t.old THEN IngestTask(t) ELSE Drop
    BY <1>1 DEF Ingest, Current
  <2>2. t.what \in {"event", "heartbeat", "bad", "error", "poll"}
    BY <2>1, QueueFits, TailFits DEF Fits, Tasks
  <2>3. ~Drop /\ ~Note(t, Lively(t)) /\ (\A c : ~ProtocolFailure(c, Tail(queue)))
        /\ ~FenceRecovery(ctl, Tail(queue), "plain")
        /\ ~BeginRecovery(ctl, Tail(queue), FALSE, {})
    BY DEF Drop, Note
  <2>4. Live(t) /\ IngestEvent(t)
    BY <2>1, <2>2, <2>3 DEF IngestTask, Live
  <2>5. ~ctl.barrier /\ Decision(t.ev) \notin {"duplicate", "stale"}
    BY <2>3, <2>4 DEF IngestEvent
  <2>6. Decision(t.ev) = "new" /\ t.ev = Base + 1
    BY <2>1, <2>4, <2>5, NewIsNext
  <2>7. Accept(t, Lively(t))
    BY <2>4, <2>5, <2>6 DEF IngestEvent
  <2>8. effect'.ev = t.ev
    BY <2>7 DEF Accept
  <2>9. Base \in Nat /\ ctl.cursor \in Nat /\ ctl.cursor <= Base
    BY BaseTyped
  <2> QED
    BY <2>6, <2>8, <2>9
<1>2. CASE Replay
  <2>1. effect'.ev = MinOf(Owed)
    BY <1>2 DEF Replay
  <2>2. MinOf(Owed) \in (rec.after + 1)..rec.cursor
    BY <1>2, OwedIsNext DEF Replay
  <2>3. rec.after = ctl.cursor /\ rec.after \in Nat /\ rec.cursor \in Nat
    BY <1>2, StageFacts DEF Replay, Recovering, Stage
  <2> QED
    BY <2>1, <2>2, <2>3
<1>3. CASE UNCHANGED syncVars \/ UNCHANGED vars
  BY <1>3 DEF syncVars, vars
<1>4. CASE EventArrives \/ HeartbeatArrives \/ BadFrameArrives \/ ConnectionBreaks
  BY <1>4 DEF EventArrives, HeartbeatArrives, BadFrameArrives, ConnectionBreaks, Receive
<1>5. CASE LoadDone \/ LoadFails \/ Refresh
  <2>1. load.who # "effect"
    BY DEF SyncInv, Loads
  <2> QED
    BY <1>5, <2>1 DEF LoadDone, LoadFails, Refresh, Failed
<1>6. CASE EffectDone \/ EffectFails \/ ReplayDone
  BY <1>6 DEF EffectDone, EffectFails, ReplayDone
<1>7. CASE Collect \/ Promote \/ PollStart \/ PollFeeds
  BY <1>7 DEF Collect, Promote, PollStart, PollFeeds
<1>8. CASE RecoveryFails \/ Timers \/ Retry
  BY <1>8 DEF RecoveryFails, Timers, Stalled, StartTimerFires, RetryTimerFires, Retry
<1>9. CASE Stop \/ ReplayTimesOut
  BY <1>9 DEF Stop, NewToken, ReplayTimesOut, NoEffect
<1> QED
  BY <1>1, <1>2, <1>3, <1>4, <1>5, <1>6, <1>7, <1>8, <1>9 DEF Next, Sink

\* The stream, the polls, the boundary and the buffer of a recovery may all
\* bring an event: once it is confirmed, no effect is started for it again.
THEOREM ConfirmedAreNotRepeated == Spec => ConfirmedIsNotRepeated
<1>1. SyncInv /\ [Next]_vars
        => [effect'.who # "none" /\ effect.who = "none" => effect'.ev > ctl.cursor]_vars
  BY EffectStarts
<1> QED
  BY <1>1, SyncAlways, PTL DEF Spec, ConfirmedIsNotRepeated

LEMMA OffStep ==
    ASSUME SyncInv, [Next]_vars, Off, ctl'.state = ctl.state
    PROVE  /\ ctl'.cursor = ctl.cursor /\ applied' = applied /\ seen' = seen
           /\ shown' # shown => load.who = "refresh" /\ ctl.state # "stopped"
<1>1. /\ ~Recovering /\ conn.pc = "none" /\ ~poll.on /\ effect.who = "none"
      /\ startTimer = "none" /\ retryTimer = "none"
      /\ load.who # "none" => load.who = "refresh" /\ ctl.state # "stopped"
      /\ \A i \in 1..Len(queue) : queue[i].old
      /\ ctl.state \in {"circuit-open", "stopped"} /\ rec.step = "none"
  BY DEF SyncInv, Modes, Off, Recovering, Staging
<1>2. CASE UNCHANGED syncVars \/ UNCHANGED vars
  BY <1>2 DEF syncVars, vars
<1>3. ~PollLog /\ ~EventArrives /\ ~HeartbeatArrives /\ ~BadFrameArrives /\ ~ConnectionBreaks
  BY <1>1 DEF PollLog, EventArrives, SendEvent, HeartbeatArrives, BadFrameArrives,
              ConnectionBreaks, Break
<1>4. CASE Ingest
  <2>1. queue # <<>>
    BY <1>4 DEF Ingest
  <2>2. Head(queue).old
    BY <1>1, <2>1, QueueFits, TailFits
  <2> QED
    BY <1>4, <2>2 DEF Ingest, Current, Drop
<1>5. /\ ~EffectDone /\ ~EffectFails /\ ~Collect /\ ~Replay /\ ~ReplayDone
      /\ ~RecoveryFails /\ ~ReplayTimesOut /\ ~Promote
  BY <1>1 DEF EffectDone, EffectFails, Collect, Replay, ReplayDone, RecoveryFails,
              ReplayTimesOut, Promote
<1>6. CASE LoadDone \/ LoadFails \/ Refresh
  BY <1>1, <1>6 DEF LoadDone, LoadFails, Refresh
<1>7. ~Timers
  BY <1>1 DEF Timers, Stalled, StartTimerFires, RetryTimerFires
<1>8. CASE PollStart \/ PollFeeds
  BY <1>8 DEF PollStart, PollFeeds
<1>9. ~Retry
  <2>1. ASSUME Retry PROVE ctl'.state = "recovering"
    <3>1. [ctl EXCEPT !.attempts = 0] \in CtlRows
      BY CtlTyped
    <3> QED
      BY <2>1, <3>1 DEF Retry, BeginRecovery, CtlRows
  <2> QED
    BY <1>1, <2>1
<1>10. ~Stop
  <2>1. ctl \in CtlRows
    BY CtlTyped
  <2> QED
    BY <2>1 DEF Stop, CtlRows
<1> QED
  BY <1>2, <1>3, <1>4, <1>5, <1>6, <1>7, <1>8, <1>9, <1>10 DEF Next, Sink

\* A client whose circuit is open or that was stopped does nothing for what is
\* still under way: callbacks of its connections, polls and effects are void
\* (isCurrent, fenceConnection, stop).
THEOREM OffIsQuiet == Spec => QuietWhenOff
<1>1. SyncInv /\ [Next]_vars
        => [ctl.state \in {"circuit-open", "stopped"} /\ ctl'.state = ctl.state =>
              /\ ctl'.cursor = ctl.cursor /\ applied' = applied /\ seen' = seen
              /\ shown' # shown => load.who = "refresh" /\ ctl.state # "stopped"]_vars
  BY OffStep DEF Off
<1> QED
  BY <1>1, SyncAlways, PTL DEF Spec, QuietWhenOff

(***************************************************************************)
(* The client implements the feed.  It is adrift while the stage of a      *)
(* replay that ran out of time decides for it; otherwise the event at work *)
(* comes after events that were all applied.  Each step is a step of the   *)
(* feed or leaves alone what the feed sees.                                *)
(***************************************************************************)
Adrift == rec.step = "stranded"

FeedInv == effect.who = "none" => effect.ev = 0

\* The steps, by what they do to the feed.
Calm ==
    /\ log' = log /\ shown' = shown /\ applied' = applied /\ ctl'.cursor = ctl.cursor
    /\ \/ effect'.ev = effect.ev /\ effect'.who = effect.who /\ Adrift' = Adrift
       \/ effect' = NoEffect /\ (Adrift' => Adrift \/ effect.who # "none")

Commits ==
    /\ log < MaxEvents /\ log' = log + 1
    /\ UNCHANGED <<shown, effect, applied, ctl, rec>>

Shows ==
    /\ shown' \in shown..log
    /\ log' = log /\ applied' = applied /\ ctl' = ctl
    /\ effect'.ev = effect.ev /\ effect'.who = effect.who /\ Adrift' = Adrift

Begins ==
    /\ effect.who = "none" /\ effect'.who # "none"
    /\ effect'.ev \in (ctl.cursor + 1)..log
    /\ Adrift \/ 1..(effect'.ev - 1) \subseteq applied
    /\ log' = log /\ shown' = shown /\ applied' = applied /\ ctl'.cursor = ctl.cursor
    /\ Adrift' = Adrift

Applies ==
    /\ effect.ev \in 1..shown
    /\ log' = log /\ shown' = shown /\ applied' = applied \cup {effect.ev}
    /\ effect' = NoEffect
    /\ \/ ctl'.cursor = ctl.cursor
       \/ ~Adrift /\ ctl'.cursor = effect.ev /\ effect.ev = ctl.cursor + 1
    /\ Adrift' => Adrift

Confirms ==
    /\ effect.who = "none" /\ effect' = effect
    /\ log' = log /\ shown' = shown /\ applied' = applied
    /\ ctl'.cursor \in ctl.cursor..log /\ 1..ctl'.cursor \subseteq applied
    /\ ~Adrift /\ ~Adrift'

FeedSteps == Calm \/ Commits \/ Shows \/ Begins \/ Applies \/ Confirms

\* The counters of the controller, whatever the budget.
Ctls == [state : States, cursor : 0..MaxEvents, attempts : Nat, barrier : BOOLEAN,
         sawLive : BOOLEAN, polling : BOOLEAN]

LEMMA CtlIsCtls ==
    ASSUME SyncInv
    PROVE  /\ ctl \in Ctls /\ [ctl EXCEPT !.attempts = @ + 1] \in Ctls
           /\ [ctl EXCEPT !.attempts = @ + 1].cursor = ctl.cursor
           /\ [ctl EXCEPT !.attempts = IF @ = 0 THEN 1 ELSE @] \in Ctls
           /\ [ctl EXCEPT !.attempts = IF @ = 0 THEN 1 ELSE @].cursor = ctl.cursor
           /\ [ctl EXCEPT !.attempts = 0] \in Ctls
           /\ [ctl EXCEPT !.attempts = 0].cursor = ctl.cursor
BY CtlTyped DEF CtlRows, Ctls

\* Every fence takes the running effect away and keeps what is confirmed.
LEMMA FencesAreCalm ==
    ASSUME NEW c \in Ctls, NEW q, NEW b, NEW p
    PROVE  /\ BeginRecovery(c, q, b, p) => effect' = NoEffect /\ ctl'.cursor = c.cursor /\ ~Adrift'
           /\ FenceRecovery(c, q, b) => effect' = NoEffect /\ ctl'.cursor = c.cursor /\ ~Adrift'
           /\ ScheduleRecovery(c, q, b) => effect' = NoEffect /\ ctl'.cursor = c.cursor /\ ~Adrift'
           /\ OpenCircuit(c, q) => effect' = NoEffect /\ ctl'.cursor = c.cursor /\ ~Adrift'
<1>1. NewToken(q) => effect' = NoEffect
  BY DEF NewToken
<1>2. /\ BeginRecovery(c, q, b, p) => NewToken(q) /\ ctl'.cursor = c.cursor
      /\ FenceRecovery(c, q, b) => NewToken(q) /\ ctl'.cursor = c.cursor
  BY DEF BeginRecovery, FenceRecovery, RecoveryFenced, Ctls
<1>3. /\ Fenced(c, "polling").cursor = c.cursor /\ Fenced(c, "circuit-open").cursor = c.cursor
  BY DEF Fenced, Ctls
<1>4. /\ ScheduleRecovery(c, q, b) => NewToken(q) /\ ctl'.cursor = c.cursor
      /\ OpenCircuit(c, q) => NewToken(q) /\ ctl'.cursor = c.cursor
  BY <1>3 DEF ScheduleRecovery, OpenCircuit
<1>5. BeginRecovery(c, q, b, p) => ~Adrift'
  BY DEF BeginRecovery, Adrift
<1>6. rec' = NoRec => ~Adrift'
  BY DEF NoRec, Adrift
<1>7. FenceRecovery(c, q, b) \/ ScheduleRecovery(c, q, b) \/ OpenCircuit(c, q) => ~Adrift'
  BY <1>6 DEF FenceRecovery, RecoveryFenced, ScheduleRecovery, OpenCircuit
<1> QED
  BY <1>1, <1>2, <1>4, <1>5, <1>7

LEMMA AnomaliesAreCalm ==
    ASSUME NEW c \in Ctls, NEW q, ProtocolFailure(c, q)
    PROVE  /\ ctl'.cursor = c.cursor
           /\ \/ effect' = effect /\ rec' = rec
              \/ effect' = NoEffect /\ ~Adrift'
<1> DEFINE counted == [c EXCEPT !.attempts = @ + 1]
<1>1. counted \in Ctls /\ counted.cursor = c.cursor
  BY DEF Ctls
<1>2. \/ ctl' = c /\ effect' = effect /\ rec' = rec
      \/ OpenCircuit(counted, q)
      \/ FenceRecovery(counted, q, "budgeted")
      \/ ScheduleRecovery(counted, q, "budgeted")
  BY DEF ProtocolFailure
<1> HIDE DEF counted
<1> QED
  BY <1>1, <1>2, FencesAreCalm

LEMMA FailuresAreCalm ==
    ASSUME SyncInv, NEW counts, FailRecovery(counts)
    PROVE  effect' = NoEffect /\ ctl'.cursor = ctl.cursor /\ ~Adrift'
<1> DEFINE counted == [ctl EXCEPT !.attempts = @ + 1]
           opened == [ctl EXCEPT !.attempts = IF @ = 0 THEN 1 ELSE @]
<1>1. /\ ctl \in Ctls /\ counted \in Ctls /\ counted.cursor = ctl.cursor
      /\ opened \in Ctls /\ opened.cursor = ctl.cursor
  BY CtlIsCtls
<1>2. \/ ScheduleRecovery(ctl, queue, "plain")
      \/ OpenCircuit(opened, queue)
      \/ ScheduleRecovery(counted, queue, "budgeted")
  BY DEF FailRecovery
<1> HIDE DEF counted, opened
<1> QED
  BY <1>1, <1>2, FencesAreCalm

\* What has nothing to do with effects.
LEMMA SameIsCalm ==
    ASSUME log' = log, shown' = shown, applied' = applied, ctl'.cursor = ctl.cursor,
           \/ effect' = effect /\ (rec' = rec \/ Adrift' = Adrift)
           \/ effect' = NoEffect /\ ~Adrift'
    PROVE  Calm
BY DEF Calm, Adrift

\* A queued task starts an effect only for the event that comes next.
LEMMA IngestInFeed ==
    ASSUME SyncInv, Ingest
    PROVE  Calm \/ Begins
<1> DEFINE t == Head(queue)
           c == Lively(t)
<1>1. /\ queue # <<>> /\ effect.who # "ingest" /\ IF ~t.old THEN IngestTask(t) ELSE Drop
      /\ log' = log /\ shown' = shown /\ applied' = applied
  BY DEF Ingest, Current
<1>2. t.what \in {"event", "heartbeat", "bad", "error", "poll"} /\ t.ev \in Nat
  BY <1>1, QueueFits, TailFits, StreamAssumption DEF Fits, Tasks
<1>3. ctl \in Ctls
  BY CtlIsCtls
<1>4. CASE Drop
  BY <1>1, <1>4, SameIsCalm DEF Drop
<1>5. CASE ~t.old /\ t.what = "bad"
  <2>1. Drop \/ ProtocolFailure(ctl, Tail(queue))
    BY <1>1, <1>5 DEF IngestTask
  <2> QED
    BY <1>1, <1>3, <1>4, <2>1, AnomaliesAreCalm, SameIsCalm
<1>6. CASE ~t.old /\ t.what = "error"
  <2>1. \/ Drop \/ FenceRecovery(ctl, Tail(queue), "plain")
        \/ BeginRecovery(ctl, Tail(queue), FALSE, {})
    BY <1>1, <1>6 DEF IngestTask
  <2> QED
    BY <1>1, <1>3, <1>4, <2>1, FencesAreCalm, SameIsCalm
<1>7. CASE ~t.old /\ t.what \notin {"bad", "error"}
  <2>1. c \in CtlRows /\ c.cursor = ctl.cursor
    BY <1>1, <1>7, LivelyKeeps
  <2>2. Base \in Nat /\ StageCursor = Base /\ ctl.cursor \in Nat /\ ctl.cursor <= Base
        /\ (~Staging => Base = ctl.cursor) /\ log \in Nat /\ rec \in RecRows
    BY <1>1, BaseTyped, SomeNumbers DEF Base, Rows
  <2>3. CASE t.what = "heartbeat"
    <3>1. Note(t, c)
      BY <1>1, <1>7, <2>3 DEF IngestTask
    <3>2. ctl' = c /\ effect' = effect /\ Adrift' = Adrift
      BY <2>2, <2>3, <3>1 DEF Note, Adrift, RecRows
    <3> QED
      BY <1>1, <2>1, <3>2, SameIsCalm
  <2>4. CASE t.what # "heartbeat" /\ ctl.barrier
    <3>1. Drop
      BY <1>1, <1>7, <2>4 DEF IngestTask, IngestEvent
    <3> QED
      BY <1>4, <3>1
  <2>5. CASE t.what # "heartbeat" /\ ~ctl.barrier
    <3>1. Live(t) /\ IngestEvent(t)
      BY <1>1, <1>2, <1>7, <2>5 DEF IngestTask, Live
    <3>2. /\ t.ev \in 1..MaxEvents /\ t.ev <= log /\ Decision(t.ev) \in {"duplicate", "stale", "new"}
          /\ Decision(t.ev) = "duplicate" => t.ev <= Base
          /\ Decision(t.ev) = "new" => t.ev = Base + 1
      BY <1>1, <2>5, <3>1, NewIsNext
    <3>3. CASE Decision(t.ev) = "duplicate"
      <4>1. Note(t, c) /\ t.ev <= Base
        BY <2>5, <3>1, <3>2, <3>3 DEF IngestEvent
      <4>2. /\ effect' = effect /\ ctl' = IF Staging THEN c ELSE Confirmed(c, t.ev)
            /\ Adrift' = Adrift
        BY <2>2, <2>5, <4>1 DEF Note, Adrift, RecRows
      <4>3. ctl' = c
        BY <2>1, <2>2, <3>2, <4>1, <4>2 DEF Confirmed
      <4> QED
        BY <1>1, <2>1, <4>2, <4>3, SameIsCalm
    <3>4. CASE Decision(t.ev) = "new"
      <4>1. Accept(t, c) /\ t.ev = Base + 1
        BY <2>5, <3>1, <3>2, <3>4 DEF IngestEvent
      <4>2. ctl' = c
        BY <4>1 DEF Accept
      <4>3. CASE Recovering
        <5>1. effect' = effect /\ Adrift' = Adrift
          BY <2>2, <4>1, <4>3 DEF Accept, Adrift, RecRows
        <5> QED
          BY <1>1, <2>1, <4>2, <5>1, SameIsCalm
      <4>4. CASE ~Recovering
        <5>1. effect' = [who |-> "ingest", ev |-> t.ev, phase |-> "loading"] /\ rec' = rec
          BY <4>1, <4>4 DEF Accept
        <5>2. effect.who = "none"
          <6>1. effect.who # "recovery" /\ effect.who \in {"none", "ingest", "recovery"}
            BY <4>4, SomeNumbers DEF SyncInv, Modes, Recovering, Rows, EffectRows
          <6> QED
            BY <1>1, <6>1
        <5>3. 1..ctl.cursor \subseteq applied /\ (Adrift <=> Staging)
          BY <4>4 DEF SyncInv, Confirmations, Adrift, Staging, Recovering
        <5>4. /\ t.ev \in (ctl.cursor + 1)..log
              /\ Adrift \/ 1..(t.ev - 1) \subseteq applied
          BY <2>2, <3>2, <4>1, <5>3
        <5>5. Adrift' = Adrift
          BY <5>1 DEF Adrift
        <5> HIDE DEF t, c
        <5> QED
          BY <1>1, <2>1, <4>2, <5>1, <5>2, <5>4, <5>5 DEF Begins
      <4> QED
        BY <4>3, <4>4
    <3>5. CASE Decision(t.ev) = "stale"
      <4>1. ProtocolFailure(c, Tail(queue))
        BY <2>5, <3>1, <3>5 DEF IngestEvent
      <4>2. c \in Ctls
        BY <2>1 DEF CtlRows, Ctls
      <4> QED
        BY <1>1, <2>1, <4>1, <4>2, AnomaliesAreCalm, SameIsCalm
    <3> QED
      BY <3>2, <3>3, <3>4, <3>5
  <2> QED
    BY <2>3, <2>4, <2>5
<1> QED
  BY <1>1, <1>2, <1>4, <1>5, <1>6, <1>7

\* A recovery replays the event after those it has replayed.
LEMMA ReplayInFeed ==
    ASSUME SyncInv, Replay
    PROVE  Begins
<1> DEFINE ev == MinOf(Owed)
<1>1. /\ rec.step = "replay" /\ effect.who = "none" /\ Owed # {}
      /\ effect' = [who |-> "recovery", ev |-> ev, phase |-> "loading"]
      /\ log' = log /\ shown' = shown /\ applied' = applied /\ ctl' = ctl /\ rec' = rec
  BY DEF Replay, streamVars
<1>2. ev \in (rec.after + 1)..rec.cursor /\ (rec.after + 1)..(ev - 1) \subseteq rec.pre
  BY <1>1, OwedIsNext
<1>3. /\ rec.after = ctl.cursor /\ rec.after \in Nat /\ rec.cursor \in rec.after..log
      /\ rec.pre \subseteq applied /\ log \in Nat
  BY <1>1, StageFacts, SomeNumbers DEF Recovering, Stage
<1>4. 1..ctl.cursor \subseteq applied
  BY DEF SyncInv, Confirmations
<1> HIDE DEF ev
<1>5. 1..(ev - 1) \subseteq applied
  BY <1>2, <1>3, <1>4
<1> QED
  BY <1>1, <1>2, <1>3, <1>5 DEF Begins, Adrift

\* What an effect applies is on the screen; one that is confirmed with it is
\* the next to be.
LEMMA DoneInFeed ==
    ASSUME SyncInv, EffectDone \/ ReplayDone
    PROVE  Applies
<1>1. /\ effect.who # "none" /\ effect.phase = "shown" /\ applied' = applied \cup {effect.ev}
      /\ log' = log /\ shown' = shown
  BY DEF EffectDone, ReplayDone, Ready
<1>2. effect.ev \in 1..shown
  BY <1>1, SomeNumbers DEF SyncInv, Loads
<1>3. ctl \in Ctls /\ ctl.cursor \in Nat
  BY CtlIsCtls, SomeNumbers
<1>4. /\ effect' = NoEffect
      /\ \/ ctl'.cursor = ctl.cursor
         \/ ~Adrift /\ ctl'.cursor = effect.ev /\ effect.ev = ctl.cursor + 1
      /\ Adrift' => Adrift
  <2>1. CASE EffectDone /\ effect.ev \in Unknown
    <3>1. BeginRecovery(ctl, queue, FALSE, {effect.ev})
      BY <2>1 DEF EffectDone
    <3> QED
      BY <1>3, <3>1, FencesAreCalm
  <2>2. CASE EffectDone /\ effect.ev \notin Unknown
    <3>1. effect.who = "ingest" /\ effect' = NoEffect /\ CommitIngested(effect.ev)
      BY <2>2 DEF EffectDone
    <3>2. CASE Staging
      <4>1. rec' = [rec EXCEPT !.seen = @ \cup {effect.ev}, !.cursor = Upper(@, effect.ev)]
            /\ ctl' = ctl /\ rec \in RecRows
        BY <3>1, <3>2, SomeNumbers DEF CommitIngested, Rows
      <4> QED
        BY <3>1, <4>1 DEF Adrift, RecRows
    <3>3. CASE ~Staging
      <4>1. ctl' = Confirmed(ctl, effect.ev) /\ rec' = rec
        BY <3>1, <3>3 DEF CommitIngested
      <4>2. effect.ev = ctl.cursor + 1 /\ ~Adrift
        BY <3>1, <3>3, BaseTyped DEF SyncInv, Confirmations, Adrift, Staging
      <4>3. ctl'.cursor = effect.ev
        BY <1>3, <4>1, <4>2 DEF Confirmed, Ctls
      <4> QED
        BY <3>1, <4>1, <4>2, <4>3 DEF Adrift
    <3> QED
      BY <3>2, <3>3
  <2>3. CASE ReplayDone /\ effect.ev \in Unknown
    <3>1. BeginRecovery(ctl, queue, FALSE, rec.pre \cup {effect.ev})
      BY <2>3 DEF ReplayDone
    <3> QED
      BY <1>3, <3>1, FencesAreCalm
  <2>4. CASE ReplayDone /\ effect.ev \notin Unknown
    <3>1. rec' = [rec EXCEPT !.pre = @ \cup {effect.ev}] /\ effect' = NoEffect /\ ctl' = ctl
      BY <2>4 DEF ReplayDone
    <3>2. rec \in RecRows
      BY SomeNumbers DEF Rows
    <3> QED
      BY <3>1, <3>2 DEF Adrift, RecRows
  <2> QED
    BY <2>1, <2>2, <2>3, <2>4
<1> QED
  BY <1>1, <1>2, <1>4 DEF Applies

\* What a recovery confirms was applied before it or by it.
LEMMA PromoteInFeed ==
    ASSUME SyncInv, Promote
    PROVE  Confirms
<1>1. /\ rec.step = "replay" /\ effect.who = "none" /\ Owed = {} /\ Recovering
      /\ effect' = effect /\ log' = log /\ shown' = shown /\ applied' = applied /\ rec' = NoRec
  BY DEF Promote, Recovering, streamVars
<1>2. /\ Stage /\ rec.after \in Nat /\ rec.cursor \in Nat /\ rec.hw \in Nat /\ rec.hw <= rec.cursor
      /\ rec.after = ctl.cursor /\ rec.cursor \in rec.after..log
  BY <1>1, StageFacts DEF Stage
<1>3. 1..rec.cursor \subseteq applied
  <2>1. (rec.after + 1)..rec.cursor \subseteq rec.pre
    BY <1>1, <1>2 DEF Stage, Kept, Owed
  <2>2. 1..rec.after \subseteq applied /\ rec.pre \subseteq applied
    BY <1>2 DEF SyncInv, Confirmations, Stage, Kept
  <2> QED
    BY <1>2, <2>1, <2>2
<1>4. ctl'.cursor = rec.cursor
  <2>1. Upper(rec.cursor, rec.hw) = rec.cursor
    BY <1>2 DEF Upper
  <2> DEFINE c == Confirmed(ctl, rec.cursor)
  <2>2. c \in Ctls /\ c.cursor = rec.cursor
    <3>1. ctl \in Ctls /\ rec.cursor \in 0..MaxEvents
      BY <1>2, CtlIsCtls, SomeNumbers DEF Rows, RecRows
    <3>2. CASE rec.cursor > ctl.cursor
      <4>1. c = [ctl EXCEPT !.cursor = rec.cursor, !.attempts = 0]
        BY <3>2 DEF Confirmed
      <4>2. 0 \in Nat
        OBVIOUS
      <4> HIDE DEF c
      <4>3. c \in Ctls
        BY <3>1, <4>1, <4>2 DEF Ctls
      <4>4. c.cursor = rec.cursor
        BY <3>1, <4>1 DEF Ctls
      <4> QED
        BY <4>3, <4>4
    <3>3. CASE ~(rec.cursor > ctl.cursor)
      <4>1. c = ctl /\ rec.cursor = ctl.cursor
        BY <1>2, <3>3 DEF Confirmed
      <4> HIDE DEF c
      <4> QED
        BY <3>1, <4>1
    <3> QED
      BY <3>2, <3>3
  <2>3. ctl' = [c EXCEPT !.state = IF ctl.sawLive THEN "live" ELSE "connecting",
                         !.polling = ~ctl.sawLive]
    BY <2>1 DEF Promote
  <2> HIDE DEF c
  <2> QED
    BY <2>2, <2>3 DEF Ctls
<1> QED
  BY <1>1, <1>2, <1>3, <1>4 DEF Confirms, Adrift, NoRec

LEMMA StepsInFeed ==
    ASSUME SyncInv, [Next]_vars
    PROVE  FeedSteps
<1> USE DEF FeedSteps
<1>1. ctl \in Ctls /\ rec \in RecRows
  BY CtlIsCtls, SomeNumbers DEF Rows
<1>2. CASE CommitEvent /\ UNCHANGED syncVars
  BY <1>2 DEF CommitEvent, syncVars, Commits
<1>3. CASE PollLog /\ UNCHANGED syncVars
  BY <1>3, SameIsCalm DEF PollLog, syncVars
<1>4. CASE UNCHANGED vars
  BY <1>4, SameIsCalm DEF vars, streamVars, syncVars
<1>5. CASE EventArrives \/ HeartbeatArrives \/ BadFrameArrives \/ ConnectionBreaks
  BY <1>5, SameIsCalm
  DEF EventArrives, HeartbeatArrives, BadFrameArrives, ConnectionBreaks, Receive, SendEvent,
      Break, streamVars
<1>6. CASE Ingest
  BY <1>6, IngestInFeed
<1>7. CASE LoadDone
  <2>1. shown <= load.at /\ load.at \in Nat /\ shown \in Nat /\ log \in Nat
    BY <1>7, SomeNumbers DEF LoadDone, SyncInv, Loads
  <2>2. shown' \in shown..log
    BY <1>7, <2>1 DEF LoadDone
  <2>3. effect \in EffectRows
    BY SomeNumbers DEF Rows
  <2>4. effect'.ev = effect.ev /\ effect'.who = effect.who /\ Adrift' = Adrift
    BY <1>1, <1>7, <2>3 DEF LoadDone, EffectRows, RecRows, SyncInv, Loads, Adrift
  <2> QED
    BY <1>7, <2>2, <2>4 DEF LoadDone, Shows, streamVars
<1>8. CASE LoadFails \/ Refresh
  <2>1. effect \in EffectRows
    BY SomeNumbers DEF Rows
  <2>2. effect'.ev = effect.ev /\ effect'.who = effect.who /\ Adrift' = Adrift
    BY <1>1, <1>8, <2>1
    DEF LoadFails, Refresh, Failed, EffectRows, RecRows, SyncInv, Loads, Adrift
  <2> QED
    BY <1>8, <2>2 DEF LoadFails, Refresh, Calm, streamVars
<1>9. CASE EffectDone \/ ReplayDone
  BY <1>9, DoneInFeed
<1>10. CASE Replay
  BY <1>10, ReplayInFeed
<1>11. CASE Promote
  BY <1>11, PromoteInFeed
<1>12. CASE Collect \/ PollStart \/ PollFeeds
  <2>1. Adrift' = Adrift
    BY <1>1, <1>12 DEF Collect, PollStart, PollFeeds, Adrift, RecRows
  <2> QED
    BY <1>12, <2>1, SameIsCalm DEF Collect, PollStart, PollFeeds, streamVars
<1>13. CASE RecoveryFails
  <2>1. /\ \E counts : FailRecovery(counts)
        /\ log' = log /\ shown' = shown /\ applied' = applied
    BY <1>13 DEF RecoveryFails
  <2> QED
    BY <2>1, FailuresAreCalm, SameIsCalm
<1>14. CASE EffectFails
  <2>1. /\ BeginRecovery(ctl, queue, FALSE, {})
        /\ log' = log /\ shown' = shown /\ applied' = applied
    BY <1>14 DEF EffectFails
  <2> QED
    BY <1>1, <2>1, FencesAreCalm, SameIsCalm
<1>15. CASE Timers
  <2>1. log' = log /\ shown' = shown /\ applied' = applied
    BY <1>15 DEF Timers, Stalled, StartTimerFires, RetryTimerFires
  <2>2. \/ FenceRecovery(ctl, queue, "plain")
        \/ \E b : BeginRecovery(ctl, queue, b, {})
        \/ UNCHANGED <<ctl, effect, rec>>
    BY <1>15 DEF Timers, Stalled, StartTimerFires, RetryTimerFires
  <2> QED
    BY <1>1, <2>1, <2>2, FencesAreCalm, SameIsCalm
<1>16. CASE Retry
  <2> DEFINE c == [ctl EXCEPT !.attempts = 0]
  <2>1. c \in Ctls /\ c.cursor = ctl.cursor
    BY CtlIsCtls
  <2>2. BeginRecovery(c, queue, FALSE, {}) /\ log' = log /\ shown' = shown /\ applied' = applied
    BY <1>16 DEF Retry
  <2> HIDE DEF c
  <2> QED
    BY <2>1, <2>2, FencesAreCalm, SameIsCalm
<1>17. CASE Stop
  BY <1>1, <1>17, SameIsCalm DEF Stop, NewToken, Ctls, NoRec, Adrift
<1>18. CASE ReplayTimesOut
  BY <1>18 DEF ReplayTimesOut, Calm, streamVars
<1> QED
  BY <1>2, <1>3, <1>4, <1>5, <1>6, <1>7, <1>8, <1>9, <1>10, <1>11, <1>12, <1>13, <1>14, <1>15,
     <1>16, <1>17, <1>18 DEF Next, Sink

LEMMA FeedStep ==
    ASSUME SyncInv, SyncInv', FeedInv, [Next]_vars
    PROVE  FeedInv' /\ [Feed!Next]_Feed!feedVars
<1>1. /\ log \in Nat /\ shown \in Nat /\ ctl.cursor \in Nat /\ effect.ev \in Nat
      /\ effect.who # "none" => effect.ev >= 1
  BY SomeNumbers DEF SyncInv, Loads
<1>2. effect.who = "none" => effect.ev = 0
  BY DEF FeedInv
<1>3. (rec.step = "stranded") \in BOOLEAN /\ (rec'.step = "stranded") \in BOOLEAN
  OBVIOUS
<1> USE DEF Feed!Next, Feed!feedVars, Adrift
<1>4. CASE Calm
  <2>1. CASE effect'.ev = effect.ev /\ effect'.who = effect.who /\ Adrift' = Adrift
    BY <1>2, <1>4, <2>1 DEF Calm, FeedInv
  <2>2. CASE effect' = NoEffect /\ (Adrift' => Adrift \/ effect.who # "none")
    <3>1. effect'.ev = 0 /\ effect'.who = "none"
      BY <2>2 DEF NoEffect
    <3>2. Adrift' => Adrift \/ effect.ev # 0
      BY <1>1, <2>2
    <3>3. (rec'.step = "stranded") \in {FALSE, rec.step = "stranded", effect.ev # 0}
      BY <3>2
    <3>4. Feed!GiveUp
      BY <1>4, <3>1, <3>3 DEF Calm, Feed!GiveUp
    <3> QED
      BY <3>1, <3>4 DEF FeedInv
  <2> QED
    BY <1>4, <2>1, <2>2 DEF Calm
<1>5. CASE Commits
  BY <1>2, <1>5 DEF Commits, FeedInv, Feed!Commit
<1>6. CASE Shows
  BY <1>2, <1>6 DEF Shows, FeedInv, Feed!Show
<1>7. CASE Begins
  BY <1>2, <1>7 DEF Begins, FeedInv, Feed!Begin
<1>8. CASE Applies
  <2>1. effect'.ev = 0 /\ effect'.who = "none" /\ effect.ev # 0 /\ effect.ev <= shown
    BY <1>1, <1>8 DEF Applies, NoEffect
  <2>2. (rec'.step = "stranded") \in {FALSE, rec.step = "stranded"}
    BY <1>8 DEF Applies
  <2>3. ctl'.cursor \in {ctl.cursor}
          \cup (IF rec.step = "stranded" THEN {} ELSE {effect.ev} \cap {ctl.cursor + 1})
    BY <1>8 DEF Applies
  <2>4. Feed!Apply
    BY <1>8, <2>1, <2>2, <2>3 DEF Applies, Feed!Apply
  <2> QED
    BY <2>1, <2>4 DEF FeedInv
<1>9. CASE Confirms
  BY <1>2, <1>9 DEF Confirms, FeedInv, Feed!Confirm
<1> QED
  BY <1>4, <1>5, <1>6, <1>7, <1>8, <1>9, StepsInFeed DEF FeedSteps

LEMMA FeedInit == Init => FeedInv /\ Feed!Init
BY DEF Init, FeedInv, NoEffect, NoRec, Feed!Init

\* Behind its connections, polls, recoveries and fences the controller is a
\* plain follower of the log: events are begun in order and never once they are
\* confirmed, they count when the screen knows of them, what is confirmed has
\* been applied, and the screen never goes back.  After a replay that ran out of
\* time (invokeEffect, performRecovery) it may begin an event out of order, but
\* then it confirms nothing.
THEOREM TheClientFollowsTheFeed == Spec => ImplementsFeed
<1>1. Init => FeedInv /\ Feed!Init
  BY FeedInit
<1>2. SyncInv /\ SyncInv' /\ FeedInv /\ [Next]_vars => FeedInv' /\ [Feed!Next]_Feed!feedVars
  BY FeedStep
<1> QED
  BY <1>1, <1>2, SyncAlways, PTL DEF Spec, ImplementsFeed, Feed!Spec
=============================================================================
