------------------------- MODULE DesktopHost_proofs -------------------------
(***************************************************************************)
(* The safety of the desktop host, for any number of attempts, reaper      *)
(* threads and failures: a sidecar has exactly one keeper until it is      *)
(* gone, and the desktop process leaves none behind.                       *)
(***************************************************************************)
EXTENDS DesktopHost, FiniteSetTheorems, TLAPS

(***************************************************************************)
(* Types.                                                                  *)
(***************************************************************************)
Pcs == {"none", "probe", "spawn", "wait", "undo", "over", "finish", "drop", "dropped",
        "navigate", "abort", "stop", "done"}
WorkerRow == [pc : Pcs, kind : Kinds, cancel : BOOLEAN, result : {"failed", "external", "owned"}]
MoverRow == [pc : {"off", "service", "pop", "send", "look"}, to : Services \cup {0},
             hand : Workers \cup {Nobody}, failed : BOOLEAN]
ServiceRow == [state : {"none", "alive", "ended"}, holds : SUBSET Workers]
ProcRow == [up : SUBSET Members, killed : BOOLEAN, asked : BOOLEAN]
HandleRow == [kind : {"none", "external", "owned"}, child : Workers \cup {Nobody},
              asked : BOOLEAN, late : BOOLEAN, forced : BOOLEAN]

ReaperTyped ==
    /\ proc \in [Workers -> ProcRow]
    /\ queue \subseteq Workers
    /\ registry \in Services \cup {0}
    /\ service \in [Services -> ServiceRow]
    /\ mover \in [Movers -> MoverRow]
    /\ unsettled \in Int

HostTyped ==
    /\ app \in {"running", "exited"}
    /\ ui \in [pc : {"idle", "begun", "install"}, new : Workers \cup {Nobody}, kind : Kinds]
    /\ ui.pc # "idle" => ui.new \in Workers
    /\ fence \in [current : Workers \cup {Nobody}, inFlight : BOOLEAN, closed : BOOLEAN]
    /\ worker \in [Workers -> WorkerRow]
    /\ slot \in Workers \cup {Nobody}
    /\ handle \in HandleRow
    /\ quit \in [pc : {"none", "workers", "reaper", "host"}, ready : BOOLEAN, event : BOOLEAN]

\* A thread in flush_pending_reapers has a channel when it needs one, and a
\* sidecar in its hands just when it sends one.
MoverTyped ==
    \A t \in Movers :
        /\ mover[t].pc \in {"pop", "send"} => mover[t].to \in Services
        /\ mover[t].hand \in Workers <=> mover[t].pc = "send"

Typed == ReaperTyped /\ HostTyped /\ MoverTyped

LEMMA TypedInit == Init => Typed
BY ReaperAssumption
DEF Init, ReaperInit, Typed, ReaperTyped, HostTyped, MoverTyped, NotStarted, AtRest,
    ProcRow, ServiceRow, MoverRow, WorkerRow, HandleRow, NoHandle, NoWorker, Pcs, Kinds,
    Services

(***************************************************************************)
(* The processes: nothing but a spawn makes any of them run.               *)
(***************************************************************************)
NoneRises == \A c \in Workers : proc'[c].up \subseteq proc[c].up

LEMMA ForceStopFields ==
    ASSUME proc \in [Workers -> ProcRow], NEW c, ForceStop(c)
    PROVE  /\ proc' \in [Workers -> ProcRow]
           /\ NoneRises
           /\ \A d \in Workers \ {c} : proc'[d] = proc[d]
<1>1. CASE \E left \in SUBSET proc[c].up :
             proc' = [proc EXCEPT ![c].up = left, ![c].killed = @ \/ ~Gone(c)]
  <2>1. PICK left \in SUBSET proc[c].up :
             proc' = [proc EXCEPT ![c].up = left, ![c].killed = @ \/ ~Gone(c)]
    BY <1>1
  <2> DEFINE row == [proc[c] EXCEPT !.up = left, !.killed = @ \/ ~Gone(c)]
  <2>2. proc' = [proc EXCEPT ![c] = row]
    BY <2>1
  <2>3. c \in Workers => row \in ProcRow /\ row.up = left
    BY <2>1 DEF ProcRow
  <2> HIDE DEF row
  <2> QED
    BY <2>1, <2>2, <2>3 DEF NoneRises
<1>2. CASE proc' = proc
  BY <1>2 DEF NoneRises
<1> QED
  BY <1>1, <1>2 DEF ForceStop

LEMMA ExitsFields ==
    ASSUME proc \in [Workers -> ProcRow], NEW c \in Workers, Exits(c)
    PROVE  proc' \in [Workers -> ProcRow] /\ NoneRises
<1> PICK m \in proc[c].up : proc' = [proc EXCEPT ![c].up = @ \ {m}]
  BY DEF Exits
<1> DEFINE row == [proc[c] EXCEPT !.up = @ \ {m}]
<1>1. proc' = [proc EXCEPT ![c] = row]
  OBVIOUS
<1>2. row \in ProcRow /\ row.up \subseteq proc[c].up
  BY DEF ProcRow
<1> HIDE DEF row
<1> QED
  BY <1>1, <1>2 DEF NoneRises

\* Asking a sidecar to end changes no more than a flag.
LEMMA AskingFields ==
    ASSUME proc \in [Workers -> ProcRow], NEW c,
           proc' = [proc EXCEPT ![c].asked = TRUE]
    PROVE  proc' \in [Workers -> ProcRow] /\ NoneRises
<1> DEFINE row == [proc[c] EXCEPT !.asked = TRUE]
<1>1. c \in Workers => row \in ProcRow /\ row.up = proc[c].up
  BY DEF ProcRow
<1>2. proc' = [proc EXCEPT ![c] = row]
  OBVIOUS
<1> HIDE DEF row
<1> QED
  BY <1>1, <1>2 DEF NoneRises

(***************************************************************************)
(* The reaper: a sidecar is moved, taken in or settled.                    *)
(***************************************************************************)
\* Who has which sidecar stays as it is.
SameReaper ==
    /\ queue' = queue
    /\ \A t \in Movers : mover'[t].hand = mover[t].hand
    /\ \A s \in Services : service'[s].holds = service[s].holds
    /\ unsettled' = unsettled

MovesOthers(t) == \A u \in Movers \ {t} : mover'[u].hand = mover[u].hand
ServesOthers(s) == \A r \in Services \ {s} : service'[r].holds = service[r].holds
SameServices == \A s \in Services : service'[s].holds = service[s].holds

\* t takes c off the queue, gives what it has to s, or puts it back.
Takes(t, c) ==
    /\ c \in queue /\ queue' = queue \ {c}
    /\ mover[t].hand \notin Workers /\ mover'[t].hand = c /\ MovesOthers(t)
    /\ SameServices
    /\ unsettled' = unsettled

Gives(t, s) ==
    /\ queue' = queue
    /\ mover[t].hand \in Workers /\ mover'[t].hand \notin Workers /\ MovesOthers(t)
    /\ service'[s].holds = service[s].holds \cup {mover[t].hand} /\ ServesOthers(s)
    /\ unsettled' = unsettled

Returns(t) ==
    /\ mover[t].hand \in Workers /\ mover'[t].hand \notin Workers /\ MovesOthers(t)
    /\ queue' = queue \cup {mover[t].hand}
    /\ SameServices
    /\ unsettled' = unsettled

\* s lets go of c, which is gone.
Settles(s, c) ==
    /\ c \in service[s].holds
    /\ queue' = queue
    /\ \A t \in Movers : mover'[t].hand = mover[t].hand
    /\ service'[s].holds = service[s].holds \ {c} /\ ServesOthers(s)
    /\ unsettled' = unsettled - 1
    /\ Gone(c)'

\* c is handed over by its worker.
HandsOver(c) ==
    /\ queue' = queue \cup {c}
    /\ \A t \in Movers : mover'[t].hand = mover[t].hand
    /\ SameServices
    /\ unsettled' = unsettled + 1

ReaperMoves ==
    \/ SameReaper
    \/ \E t \in Movers : Returns(t) \/ \E c \in Workers : Takes(t, c)
    \/ \E t \in Movers, s \in Services : Gives(t, s)
    \/ \E s \in Services, c \in Workers : Settles(s, c)

\* A thread whose hands are empty goes somewhere else with empty hands.
LEMMA MoverGoes ==
    ASSUME Typed, NEW t \in Movers, mover[t].pc # "send",
           NEW row \in MoverRow, row.hand = Nobody, row.pc # "send",
           row.pc = "pop" => row.to \in Services,
           mover' = [mover EXCEPT ![t] = row]
    PROVE  /\ mover' \in [Movers -> MoverRow]
           /\ MoverTyped'
           /\ \A u \in Movers : mover'[u].hand = mover[u].hand
<1>1. mover[t].hand = Nobody
  BY DEF Typed, ReaperTyped, MoverTyped, MoverRow
<1> QED
  BY <1>1, ReaperAssumption DEF Typed, ReaperTyped, MoverTyped

LEMMA AtRestTyped == AtRest \in MoverRow /\ AtRest.hand = Nobody /\ AtRest.pc = "off"
BY DEF AtRest, MoverRow

\* schedule_reaper_retry starts the pump.
LEMMA SchedulesPump ==
    ASSUME Typed, NEW t \in Movers, mover[t].pc # "send", mover' = RestAndSchedule(t)
    PROVE  /\ mover' \in [Movers -> MoverRow]
           /\ MoverTyped'
           /\ \A u \in Movers : mover'[u].hand = mover[u].hand
<1>1. CASE t = Pump \/ mover[Pump].pc # "off"
  BY <1>1, MoverGoes, AtRestTyped DEF RestAndSchedule, Rest
<1>2. CASE t # Pump /\ mover[Pump].pc = "off"
  <2> DEFINE row == [mover[Pump] EXCEPT !.pc = "service"]
  <2>1. Pump \in Movers /\ mover[Pump] \in MoverRow
    BY DEF Movers, Typed, ReaperTyped
  <2>2. mover' = [mover EXCEPT ![t] = AtRest, ![Pump] = row]
    BY <1>2 DEF RestAndSchedule, Rest
  <2>3. row \in MoverRow /\ row.hand = mover[Pump].hand /\ row.pc = "service"
    BY <2>1 DEF MoverRow
  <2>4. mover[t].hand = Nobody /\ mover[Pump].hand = Nobody
    BY <1>2, <2>1 DEF Typed, ReaperTyped, MoverTyped, MoverRow
  <2> HIDE DEF row
  <2> QED
    BY <1>2, <2>1, <2>2, <2>3, <2>4, AtRestTyped, ReaperAssumption
    DEF Typed, ReaperTyped, MoverTyped
<1> QED
  BY <1>1, <1>2

LEMMA NewServiceFields ==
    ASSUME Typed, NEW s \in Services, NewService(s)
    PROVE  /\ registry' \in Services
           /\ service' \in [Services -> ServiceRow]
           /\ SameServices
BY DEF NewService, Typed, ReaperTyped, ServiceRow, SameServices

LEMMA AskServiceMoves ==
    ASSUME Typed, NEW t \in Movers, AskService(t)
    PROVE  ReaperTyped' /\ MoverTyped' /\ NoneRises /\ SameReaper
<1> USE DEF Typed
<1>0. mover[t].pc = "service" /\ UNCHANGED <<proc, queue, unsettled>>
  BY Zenon DEF AskService
<1>1. ASSUME NEW s \in Services, mover' = [mover EXCEPT ![t].pc = "pop", ![t].to = s]
      PROVE  /\ mover' \in [Movers -> MoverRow]
             /\ MoverTyped'
             /\ \A u \in Movers : mover'[u].hand = mover[u].hand
  <2> DEFINE row == [mover[t] EXCEPT !.pc = "pop", !.to = s]
  <2>1. mover[t] \in MoverRow /\ mover[t].hand = Nobody
    BY <1>0 DEF ReaperTyped, MoverTyped, MoverRow
  <2>2. row \in MoverRow /\ row.hand = Nobody /\ row.pc = "pop" /\ row.to = s
    BY <2>1 DEF MoverRow
  <2>3. mover' = [mover EXCEPT ![t] = row]
    BY <1>1
  <2> HIDE DEF row
  <2> QED
    BY <1>0, <2>2, <2>3, MoverGoes
<1>2. CASE /\ registry # 0
           /\ mover' = [mover EXCEPT ![t].pc = "pop", ![t].to = registry]
           /\ UNCHANGED <<registry, service, faults>>
  BY <1>0, <1>1, <1>2 DEF ReaperTyped, SameReaper, NoneRises
<1>3. ASSUME NEW s \in Services, NewService(s),
             mover' = [mover EXCEPT ![t].pc = "pop", ![t].to = s]
      PROVE  ReaperTyped' /\ MoverTyped' /\ NoneRises /\ SameReaper
  BY <1>0, <1>1, <1>3, NewServiceFields
  DEF ReaperTyped, SameReaper, SameServices, NoneRises
<1>4. CASE /\ mover' = IF t = Pump THEN [mover EXCEPT ![t] = [AtRest EXCEPT !.pc = "look"]]
                       ELSE RestAndSchedule(t)
           /\ UNCHANGED <<registry, service>>
  <2>1. CASE mover' = [mover EXCEPT ![t] = [AtRest EXCEPT !.pc = "look"]]
    <3> DEFINE row == [AtRest EXCEPT !.pc = "look"]
    <3>1. row \in MoverRow /\ row.hand = Nobody /\ row.pc = "look"
      BY DEF AtRest, MoverRow
    <3> HIDE DEF row
    <3> QED
      BY <1>0, <1>4, <2>1, <3>1, MoverGoes DEF ReaperTyped, SameReaper, NoneRises, row
  <2>2. CASE mover' = RestAndSchedule(t)
    BY <1>0, <1>4, <2>2, SchedulesPump DEF ReaperTyped, SameReaper, NoneRises
  <2> QED
    BY <1>4, <2>1, <2>2
<1> QED
  BY <1>2, <1>3, <1>4 DEF AskService

LEMMA PopMoves ==
    ASSUME Typed, NEW t \in Movers, Pop(t)
    PROVE  ReaperTyped' /\ MoverTyped' /\ NoneRises /\ ReaperMoves
<1> USE DEF Typed
<1>0. mover[t].pc = "pop" /\ UNCHANGED <<proc, registry, service, unsettled>>
  BY Zenon DEF Pop
<1>1. mover[t] \in MoverRow /\ mover[t].hand = Nobody /\ mover[t].to \in Services
  BY <1>0 DEF ReaperTyped, MoverTyped, MoverRow
<1>2. ASSUME NEW c \in queue, queue' = queue \ {c},
             mover' = [mover EXCEPT ![t].pc = "send", ![t].hand = c]
      PROVE  ReaperTyped' /\ MoverTyped' /\ NoneRises /\ Takes(t, c)
  <2> DEFINE row == [mover[t] EXCEPT !.pc = "send", !.hand = c]
  <2>1. c \in Workers
    BY DEF ReaperTyped
  <2>2. row \in MoverRow /\ row.hand = c /\ row.pc = "send" /\ row.to = mover[t].to
    BY <1>1, <2>1 DEF MoverRow
  <2>3. mover' = [mover EXCEPT ![t] = row]
    BY <1>2
  <2> HIDE DEF row
  <2>4. mover' \in [Movers -> MoverRow] /\ MoverTyped' /\ MovesOthers(t) /\ mover'[t].hand = c
    BY <1>1, <2>1, <2>2, <2>3 DEF ReaperTyped, MoverTyped, MovesOthers
  <2> QED
    BY <1>0, <1>1, <1>2, <2>4, ReaperAssumption
    DEF ReaperTyped, NoneRises, Takes, SameServices
<1>3. ASSUME UNCHANGED queue, NEW row \in MoverRow, row.hand = Nobody,
             row.pc \in {"off", "look"}, mover' = [mover EXCEPT ![t] = row]
      PROVE  ReaperTyped' /\ MoverTyped' /\ NoneRises /\ SameReaper
  BY <1>0, <1>3, MoverGoes DEF ReaperTyped, NoneRises, SameReaper
<1>4. [AtRest EXCEPT !.pc = "look"] \in MoverRow
  BY DEF AtRest, MoverRow
<1>5. CASE /\ mover' = IF t = Pump THEN [mover EXCEPT ![t] = [AtRest EXCEPT !.pc = "look"]]
                       ELSE Rest(t)
           /\ UNCHANGED queue
  <2>1. CASE t = Pump
    <3> DEFINE row == [AtRest EXCEPT !.pc = "look"]
    <3>1. row.hand = Nobody /\ row.pc = "look" /\ row \in MoverRow
      BY <1>4 DEF AtRest
    <3>2. mover' = [mover EXCEPT ![t] = row]
      BY <1>5, <2>1
    <3> HIDE DEF row
    <3> QED
      BY <1>3, <1>5, <3>1, <3>2 DEF ReaperMoves
  <2>2. CASE t # Pump
    BY <1>3, <1>5, <2>2, AtRestTyped DEF ReaperMoves, Rest
  <2> QED
    BY <2>1, <2>2
<1>6. queue \subseteq Workers
  BY DEF ReaperTyped
<1> QED
  BY <1>2, <1>5, <1>6 DEF Pop, ReaperMoves

LEMMA SendMoves ==
    ASSUME Typed, NEW t \in Movers, Send(t)
    PROVE  ReaperTyped' /\ MoverTyped' /\ NoneRises /\ ReaperMoves
<1> USE DEF Typed
<1> DEFINE s == mover[t].to
           c == mover[t].hand
<1>0. mover[t].pc = "send" /\ UNCHANGED <<proc, unsettled>>
  BY Zenon DEF Send
<1>1. mover[t] \in MoverRow /\ c \in Workers /\ s \in Services
  BY <1>0 DEF ReaperTyped, MoverTyped, MoverRow
<1>2. ASSUME NEW row \in MoverRow, row.hand = Nobody, row.pc # "send",
             row.pc = "pop" => row.to \in Services,
             mover' = [mover EXCEPT ![t] = row]
      PROVE  /\ mover' \in [Movers -> MoverRow] /\ MoverTyped' /\ MovesOthers(t)
             /\ mover'[t].hand \notin Workers
  BY <1>2, ReaperAssumption DEF ReaperTyped, MoverTyped, MovesOthers
<1>3. CASE /\ service' = [service EXCEPT ![s].holds = @ \cup {c}]
           /\ mover' = [mover EXCEPT ![t].pc = "pop", ![t].hand = Nobody]
           /\ UNCHANGED <<queue, registry>>
  <2> DEFINE row == [mover[t] EXCEPT !.pc = "pop", !.hand = Nobody]
  <2>1. row \in MoverRow /\ row.hand = Nobody /\ row.pc = "pop" /\ row.to = s
    BY <1>1 DEF MoverRow
  <2>2. mover' = [mover EXCEPT ![t] = row]
    BY <1>3
  <2> HIDE DEF row
  <2>3. /\ mover' \in [Movers -> MoverRow] /\ MoverTyped' /\ MovesOthers(t)
        /\ mover'[t].hand \notin Workers
    BY <1>1, <1>2, <2>1, <2>2
  <2>4. /\ service' \in [Services -> ServiceRow]
        /\ service'[s].holds = service[s].holds \cup {c} /\ ServesOthers(s)
    BY <1>1, <1>3 DEF ReaperTyped, ServiceRow, ServesOthers
  <2> QED
    BY <1>0, <1>1, <1>3, <2>3, <2>4 DEF ReaperTyped, NoneRises, Gives, ReaperMoves
<1>4. CASE /\ queue' = queue \cup {c}
           /\ registry' = 0
           /\ mover' = IF mover[t].failed
                       THEN IF t = Pump THEN [mover EXCEPT ![t] = [AtRest EXCEPT !.pc = "look"]]
                            ELSE Rest(t)
                       ELSE [mover EXCEPT ![t] = [AtRest EXCEPT !.pc = "service", !.failed = TRUE]]
           /\ UNCHANGED service
  <2>1. PICK row \in MoverRow : /\ row.hand = Nobody /\ row.pc \in {"look", "off", "service"}
                                /\ mover' = [mover EXCEPT ![t] = row]
    <3>1. /\ [AtRest EXCEPT !.pc = "look"] \in MoverRow
          /\ [AtRest EXCEPT !.pc = "look"].hand = Nobody
          /\ [AtRest EXCEPT !.pc = "look"].pc = "look"
          /\ [AtRest EXCEPT !.pc = "service", !.failed = TRUE] \in MoverRow
          /\ [AtRest EXCEPT !.pc = "service", !.failed = TRUE].hand = Nobody
          /\ [AtRest EXCEPT !.pc = "service", !.failed = TRUE].pc = "service"
      BY DEF AtRest, MoverRow
    <3> QED
      BY <1>4, <3>1, AtRestTyped, Zenon DEF Rest
  <2>2. /\ mover' \in [Movers -> MoverRow] /\ MoverTyped' /\ MovesOthers(t)
        /\ mover'[t].hand \notin Workers
    BY <1>2, <2>1
  <2> QED
    BY <1>0, <1>1, <1>4, <2>2
    DEF ReaperTyped, NoneRises, Returns, ReaperMoves, SameServices
<1> QED
  BY <1>3, <1>4, Zenon DEF Send, PutBack

LEMMA PumpMoves ==
    ASSUME Typed, PumpLooks
    PROVE  ReaperTyped' /\ MoverTyped' /\ NoneRises /\ SameReaper
<1> USE DEF Typed
<1>0. mover[Pump].pc = "look" /\ UNCHANGED <<proc, queue, registry, service, unsettled>>
  BY Zenon DEF PumpLooks
<1>1. Pump \in Movers
  BY DEF Movers
<1>2. [AtRest EXCEPT !.pc = "service"] \in MoverRow
  BY DEF AtRest, MoverRow
<1>3. PICK row \in MoverRow : /\ row.hand = Nobody /\ row.pc \in {"off", "service"}
                              /\ mover' = [mover EXCEPT ![Pump] = row]
  <2>1. [AtRest EXCEPT !.pc = "service"].hand = Nobody /\ [AtRest EXCEPT !.pc = "service"].pc = "service"
    BY DEF AtRest
  <2> QED
    BY <1>2, <2>1, AtRestTyped, Zenon DEF PumpLooks, Rest
<1>4. /\ mover' \in [Movers -> MoverRow] /\ MoverTyped'
      /\ \A u \in Movers : mover'[u].hand = mover[u].hand
  BY <1>0, <1>1, <1>3, MoverGoes
<1> QED
  BY <1>0, <1>4 DEF ReaperTyped, NoneRises, SameReaper

\* A reaper thread that ends keeps what it holds.
LEMMA ServiceEnds ==
    ASSUME Typed, NEW s \in Services, Disconnected(s) \/ Dies(s)
    PROVE  ReaperTyped' /\ MoverTyped' /\ NoneRises /\ SameReaper
<1>1. /\ service' = [service EXCEPT ![s].state = "ended"]
      /\ UNCHANGED <<proc, queue, registry, mover, unsettled>>
  BY Zenon DEF Disconnected, Dies
<1>2. service' \in [Services -> ServiceRow] /\ SameServices
  BY <1>1 DEF Typed, ReaperTyped, ServiceRow, SameServices
<1> QED
  BY <1>1, <1>2 DEF Typed, ReaperTyped, MoverTyped, NoneRises, SameReaper, SameServices

LEMMA ReapMoves ==
    ASSUME Typed, NEW s \in Services, NEW c \in Workers, Reap(s, c)
    PROVE  ReaperTyped' /\ MoverTyped' /\ NoneRises /\ ReaperMoves
<1> USE DEF Typed
<1>1. /\ c \in service[s].holds /\ ForceStop(c)
      /\ UNCHANGED <<queue, registry, mover>>
  BY Zenon DEF Reap
<1>2. proc' \in [Workers -> ProcRow] /\ NoneRises
  BY <1>1, ForceStopFields DEF ReaperTyped
<1>3. CASE Settled(c) /\ service' = [service EXCEPT ![s].holds = @ \ {c}] /\ unsettled' = unsettled - 1
  <2>1. /\ service' \in [Services -> ServiceRow]
        /\ service'[s].holds = service[s].holds \ {c} /\ ServesOthers(s)
    BY <1>3 DEF ReaperTyped, ServiceRow, ServesOthers
  <2> QED
    BY <1>1, <1>2, <1>3, <2>1
    DEF ReaperTyped, MoverTyped, Settles, ReaperMoves, Gone, Settled
<1>4. CASE UNCHANGED <<service, unsettled>>
  BY <1>1, <1>2, <1>4 DEF ReaperTyped, MoverTyped, SameReaper, ReaperMoves
<1> QED
  BY <1>3, <1>4 DEF Reap

LEMMA ReaperStepMoves ==
    ASSUME Typed, ReaperStep \/ \E s \in Services : Dies(s)
    PROVE  ReaperTyped' /\ MoverTyped' /\ NoneRises /\ ReaperMoves
BY AskServiceMoves, PopMoves, SendMoves, PumpMoves, ServiceEnds, ReapMoves
DEF ReaperStep, ReaperMoves

LEMMA HandOverFields ==
    ASSUME Typed, NEW c \in Workers, mover[c].pc = "off", HandOver(c),
           proc' \in [Workers -> ProcRow]
    PROVE  ReaperTyped' /\ MoverTyped' /\ HandsOver(c)
<1> USE DEF Typed
<1>1. /\ unsettled' = unsettled + 1 /\ queue' = queue \cup {c}
      /\ mover' = [mover EXCEPT ![c] = [AtRest EXCEPT !.pc = "service"]]
      /\ UNCHANGED <<registry, service>>
  BY Zenon DEF HandOver
<1> DEFINE row == [AtRest EXCEPT !.pc = "service"]
<1>2. row \in MoverRow /\ row.hand = Nobody /\ row.pc = "service"
  BY DEF AtRest, MoverRow
<1>3. c \in Movers
  BY DEF Movers
<1>4. mover' = [mover EXCEPT ![c] = row]
  BY <1>1
<1> HIDE DEF row
<1>5. /\ mover' \in [Movers -> MoverRow] /\ MoverTyped'
      /\ \A u \in Movers : mover'[u].hand = mover[u].hand
  BY <1>2, <1>3, <1>4, MoverGoes
<1> QED
  BY <1>1, <1>5 DEF ReaperTyped, HandsOver, SameServices

\* A thread that is not handing anything over does not begin to.
OffStaysOff == \A t \in Workers : mover[t].pc = "off" => mover'[t].pc = "off"

LEMMA ReaperLeavesWorkersOff ==
    ASSUME Typed, ReaperStep \/ \E s \in Services : Dies(s)
    PROVE  OffStaysOff
<1> USE ReaperAssumption DEF OffStaysOff, Typed, ReaperTyped, Movers
<1>1. ASSUME NEW t \in Movers, NEW row, mover[t].pc # "off", mover' = [mover EXCEPT ![t] = row]
      PROVE  OffStaysOff
  BY <1>1
<1>2. ASSUME NEW t \in Movers, AskService(t) PROVE OffStaysOff
  <2>1. mover[t].pc = "service"
    BY <1>2 DEF AskService
  <2>2. CASE mover' = RestAndSchedule(t)
    BY <2>1, <2>2 DEF RestAndSchedule, Rest
  <2>3. CASE \E row : mover' = [mover EXCEPT ![t] = row]
    BY <1>1, <2>1, <2>3
  <2>4. ASSUME NEW s, mover' = [mover EXCEPT ![t].pc = "pop", ![t].to = s] PROVE OffStaysOff
    BY <2>1, <2>4
  <2> QED
    BY <1>2, <2>2, <2>3, <2>4, Zenon DEF AskService
<1>3. ASSUME NEW t \in Movers, Pop(t) PROVE OffStaysOff
  <2>1. mover[t].pc = "pop"
    BY <1>3 DEF Pop
  <2>2. ASSUME NEW c, mover' = [mover EXCEPT ![t].pc = "send", ![t].hand = c] PROVE OffStaysOff
    BY <2>1, <2>2
  <2>3. CASE \E row : mover' = [mover EXCEPT ![t] = row]
    BY <1>1, <2>1, <2>3
  <2> QED
    BY <1>3, <2>2, <2>3, Zenon DEF Pop, Rest
<1>4. ASSUME NEW t \in Movers, Send(t) PROVE OffStaysOff
  <2>1. mover[t].pc = "send"
    BY <1>4 DEF Send
  <2>2. CASE mover' = [mover EXCEPT ![t].pc = "pop", ![t].hand = Nobody]
    BY <2>1, <2>2
  <2>3. CASE \E row : mover' = [mover EXCEPT ![t] = row]
    BY <1>1, <2>1, <2>3
  <2> QED
    BY <1>4, <2>2, <2>3, Zenon DEF Send, Rest
<1>5. ASSUME PumpLooks PROVE OffStaysOff
  BY <1>1, <1>5, Zenon DEF PumpLooks, Rest
<1>6. ASSUME NEW s \in Services, NEW c \in Workers, Disconnected(s) \/ Dies(s) \/ Reap(s, c)
      PROVE  OffStaysOff
  BY <1>6 DEF Disconnected, Dies, Reap
<1>7. ASSUME NEW s \in Services, Disconnected(s) \/ Dies(s) PROVE OffStaysOff
  BY <1>7 DEF Disconnected, Dies
<1> QED
  BY <1>2, <1>3, <1>4, <1>5, <1>6, <1>7, Zenon DEF ReaperStep

(***************************************************************************)
(* Who owns a sidecar outside the reaper: the thread that started it, or   *)
(* the handle.                                                             *)
(***************************************************************************)
AtWorker(c) ==
    \/ worker[c].pc \in {"wait", "undo", "drop"}
    \/ worker[c].pc = "finish" /\ worker[c].result = "owned"

Unborn(c) == worker[c].pc \in {"none", "probe", "spawn"}
Living(w) == worker[w].pc \notin {"none", "done"}

SameWorkers == \A c \in Workers : AtWorker(c)' <=> AtWorker(c)
OtherWorkers(c) == \A d \in Workers \ {c} : AtWorker(d)' <=> AtWorker(d)
SameHandle == handle'.child = handle.child
NoneIsReborn == \A c \in Workers : Unborn(c)' => Unborn(c)

\* What a step can do to ownership.
Keeps == SameWorkers /\ SameHandle /\ ReaperMoves /\ NoneRises

Spawns(c) ==
    /\ Unborn(c) /\ AtWorker(c)' /\ OtherWorkers(c)
    /\ SameHandle /\ SameReaper
    /\ ~Gone(c)' /\ \A d \in Workers \ {c} : proc'[d] = proc[d]

Loses(c) ==
    /\ AtWorker(c) /\ ~AtWorker(c)' /\ OtherWorkers(c)
    /\ NoneRises
    /\ \/ SameHandle /\ HandsOver(c)
       \/ SameHandle /\ SameReaper /\ Gone(c)'
       \/ handle.child = Nobody /\ handle'.child = c /\ SameReaper

Frees ==
    /\ SameWorkers /\ SameReaper /\ NoneRises
    /\ handle'.child = Nobody
    /\ handle.child \in Workers => Settled(handle.child)

OwnerStep ==
    /\ NoneIsReborn
    /\ Keeps \/ Frees \/ \E c \in Workers : Spawns(c) \/ Loses(c)

(***************************************************************************)
(* The books the threads keep, apart from the sidecars themselves.         *)
(***************************************************************************)
KindFits(w) ==
    \/ worker[w].pc \in {"spawn", "wait"}
    \/ worker[w].pc = "finish" /\ worker[w].result = "owned"
    => worker[w].kind = "start"

HandleFits ==
    /\ handle.child # Nobody <=> handle.kind = "owned"
    /\ fence.inFlight => handle.child = Nobody

MoversFit == \A w \in Workers : mover[w].pc # "off" => worker[w].pc \in {"over", "dropped"}

ThreadsFit ==
    /\ ui.pc = "begun" => worker[ui.new].pc = "none"
    /\ \A w \in Workers : Living(w) => w = slot \/ (ui.pc = "install" /\ ui.new = w)

\* From the request to quit on no attempt begins any more, and behind the look
\* at the workers there are none.
QuitFits ==
    /\ quit.pc # "none" \/ quit.ready => fence.closed /\ ui.pc = "idle"
    /\ quit.pc \in {"reaper", "host"} \/ quit.ready => slot = Nobody

Books == HandleFits /\ MoversFit /\ ThreadsFit /\ QuitFits /\ \A w \in Workers : KindFits(w)

LEMMA BooksInit == Init => Books
BY ReaperAssumption
DEF Init, ReaperInit, Books, HandleFits, MoversFit, ThreadsFit, QuitFits, KindFits, Living,
    AtRest, NoHandle, NoWorker, Movers

LEMMA NoneHandles == NoHandle \in HandleRow /\ NoHandle.child = Nobody /\ NoHandle.kind = "none"
BY DEF NoHandle, HandleRow

LEMMA GotoFields ==
    ASSUME Typed, NEW w \in Workers, NEW pc \in Pcs, Goto(w, pc)
    PROVE  /\ worker' \in [Workers -> WorkerRow]
           /\ \A u \in Workers \ {w} : worker'[u] = worker[u]
           /\ worker'[w].pc = pc
           /\ worker'[w].kind = worker[w].kind
           /\ worker'[w].result = worker[w].result
BY DEF Typed, HostTyped, WorkerRow, Goto

LEMMA ConcludeFields ==
    ASSUME Typed, NEW w \in Workers, NEW result \in {"failed", "external", "owned"},
           Conclude(w, result)
    PROVE  /\ worker' \in [Workers -> WorkerRow]
           /\ \A u \in Workers \ {w} : worker'[u] = worker[u]
           /\ worker'[w].pc = "finish"
           /\ worker'[w].kind = worker[w].kind
           /\ worker'[w].result = result
<1> DEFINE row == [worker[w] EXCEPT !.pc = "finish", !.result = result]
<1>1. worker' = [worker EXCEPT ![w] = row]
  BY DEF Conclude
<1>2. worker[w] \in WorkerRow
  BY DEF Typed, HostTyped
<1>3. "finish" \in Pcs
  BY DEF Pcs
<1>4. /\ row \in WorkerRow
      /\ row.pc = "finish" /\ row.kind = worker[w].kind /\ row.result = result
  BY <1>2, <1>3 DEF WorkerRow
<1> HIDE DEF row
<1> QED
  BY <1>1, <1>4 DEF Typed, HostTyped

\* Cancelling touches a flag only.
LEMMA CancelledFields ==
    ASSUME Typed, NEW v, NEW rows, rows = Cancelled(v)
    PROVE  /\ rows \in [Workers -> WorkerRow]
           /\ \A u \in Workers : /\ rows[u].pc = worker[u].pc
                                 /\ rows[u].kind = worker[u].kind
                                 /\ rows[u].result = worker[u].result
<1> DEFINE row == [worker[v] EXCEPT !.cancel = TRUE]
<1>1. worker \in [Workers -> WorkerRow]
  BY DEF Typed, HostTyped
<1>2. CASE v \in Workers /\ rows = [worker EXCEPT ![v] = row]
  <2>1. worker[v] \in WorkerRow
    BY <1>1, <1>2
  <2>2. /\ row \in WorkerRow
        /\ row.pc = worker[v].pc /\ row.kind = worker[v].kind
        /\ row.result = worker[v].result
    BY <2>1 DEF WorkerRow
  <2> HIDE DEF row
  <2> QED
    BY <1>1, <1>2, <2>2
<1>3. CASE rows = worker
  BY <1>1, <1>3
<1>4. v \notin Workers => [worker EXCEPT ![v] = row] = worker
  BY <1>1
<1> QED
  BY <1>2, <1>3, <1>4 DEF Cancelled

\* A step of a living worker that stays among the living or ends.
LEMMA WorkerBooks ==
    ASSUME Typed, Books, NEW w \in Workers, Living(w),
           \A u \in Workers \ {w} : worker'[u] = worker[u],
           worker'[w].pc # "none", KindFits(w)',
           UNCHANGED <<ui, slot, quit>>,
           fence.closed => fence'.closed,
           HandleFits', MoversFit'
    PROVE  Books'
<1>1. ThreadsFit'
  BY DEF Books, ThreadsFit, Living, Typed, HostTyped
<1>2. QuitFits'
  BY DEF Books, QuitFits
<1>3. \A u \in Workers : KindFits(u)'
  BY DEF Books, KindFits
<1> QED
  BY <1>1, <1>2, <1>3 DEF Books

\* A step that leaves the reaper's side and the processes alone.
LEMMA ReaperAside ==
    ASSUME Typed, UNCHANGED <<proc, queue, registry, service, mover, unsettled>>
    PROVE  ReaperTyped' /\ MoverTyped' /\ NoneRises /\ SameReaper
BY DEF Typed, ReaperTyped, MoverTyped, NoneRises, SameReaper

Good == Typed /\ Books

\* A step that is none to the owners: no worker comes to own anything or ceases to.
LEMMA Aside ==
    ASSUME Good, UNCHANGED <<proc, queue, registry, service, mover, unsettled>>,
           HostTyped', Books', handle'.child = handle.child,
           \A c \in Workers : (AtWorker(c)' <=> AtWorker(c)) /\ (Unborn(c)' => Unborn(c))
    PROVE  Good' /\ OwnerStep
<1>1. ReaperTyped' /\ MoverTyped' /\ NoneRises /\ SameReaper
  BY ReaperAside DEF Good
<1> QED
  BY <1>1 DEF Good, Typed, OwnerStep, Keeps, SameWorkers, SameHandle, NoneIsReborn, ReaperMoves

\* Nothing is moved between workers, but flags and the main thread change.
LEMMA FlagsBooks ==
    ASSUME Good, NEW v, worker' = Cancelled(v) \/ worker' = worker
    PROVE  /\ worker' \in [Workers -> WorkerRow]
           /\ \A u \in Workers : /\ worker'[u].pc = worker[u].pc
                                 /\ worker'[u].kind = worker[u].kind
                                 /\ worker'[u].result = worker[u].result
<1>1. CASE worker' = worker
  BY <1>1 DEF Good, Typed, HostTyped
<1>2. CASE worker' = Cancelled(v)
  BY <1>2, CancelledFields DEF Good
<1> QED
  BY <1>1, <1>2

(***************************************************************************)
(* The main thread.                                                        *)
(***************************************************************************)
LEMMA BeginStep ==
    ASSUME Good, NEW w \in Workers, NEW kind \in Kinds, Begin(w, kind)
    PROVE  Good' /\ OwnerStep
<1> USE DEF Good, Typed
<1>1. /\ ui.pc = "idle" /\ worker[w].pc = "none"
      /\ handle = NoHandle /\ ~fence.inFlight /\ ~fence.closed
      /\ fence' = [fence EXCEPT !.current = w, !.inFlight = TRUE]
      /\ ui' = [pc |-> "begun", new |-> w, kind |-> kind]
      /\ slot' = IF Finished(slot) THEN Nobody ELSE slot
      /\ UNCHANGED <<app, worker, handle, quit, reaperVars>>
  BY Zenon DEF Begin
<1>2. HostTyped'
  BY <1>1 DEF HostTyped
<1>3. HandleFits'
  BY <1>1, NoneHandles DEF HandleFits
<1>4. MoversFit' /\ \A u \in Workers : KindFits(u)'
  BY <1>1 DEF MoversFit, KindFits, Books, reaperVars
<1>5. ThreadsFit'
  <2>1. ASSUME NEW u \in Workers, Living(u)' PROVE (u = slot \/ (ui.pc = "install" /\ ui.new = u))'
    <3>1. Living(u) /\ u = slot
      BY <1>1, <2>1 DEF Living, Books, ThreadsFit
    <3>2. ~Finished(slot)
      BY <3>1, ReaperAssumption DEF Finished, Living
    <3> QED
      BY <1>1, <3>1, <3>2
  <2> QED
    BY <1>1, <2>1 DEF ThreadsFit
<1>6. QuitFits'
  BY <1>1 DEF Books, QuitFits
<1> QED
  BY <1>1, <1>2, <1>3, <1>4, <1>5, <1>6, Aside DEF Books, reaperVars, AtWorker, Unborn

LEMMA RegisterStep ==
    ASSUME Good, Register
    PROVE  Good' /\ OwnerStep
<1> USE DEF Good, Typed
<1> DEFINE w == ui.new
<1>1. /\ ui.pc = "begun"
      /\ UNCHANGED <<app, slot, handle, quit, proc, queue, registry, service, mover, unsettled>>
  BY Zenon DEF Register
<1>2. w \in Workers /\ worker[w].pc = "none"
  BY <1>1 DEF HostTyped, Books, ThreadsFit
<1>3. quit.pc = "none" /\ ~quit.ready
  BY <1>1 DEF Books, QuitFits
<1>4. mover[w].pc = "off"
  BY <1>2 DEF Books, MoversFit
<1>5. CASE /\ ui' = [ui EXCEPT !.pc = "install"]
           /\ worker' = [worker EXCEPT ![w] = [NoWorker EXCEPT !.pc = "probe", !.kind = ui.kind]]
           /\ UNCHANGED fence
  <2> DEFINE row == [NoWorker EXCEPT !.pc = "probe", !.kind = ui.kind]
  <2>1. row \in WorkerRow /\ row.pc = "probe"
    BY DEF HostTyped, NoWorker, WorkerRow, Pcs
  <2>2. worker' = [worker EXCEPT ![w] = row]
    BY <1>5
  <2> HIDE DEF row
  <2>3. /\ worker' \in [Workers -> WorkerRow] /\ worker'[w].pc = "probe"
        /\ \A u \in Workers \ {w} : worker'[u] = worker[u]
    BY <1>2, <2>1, <2>2 DEF HostTyped
  <2>4. ui'.pc = "install" /\ ui'.new = w
    BY <1>5 DEF HostTyped
  <2>5. HostTyped'
    BY <1>1, <1>2, <1>5, <2>3, <2>4 DEF HostTyped
  <2>6. HandleFits' /\ MoversFit' /\ QuitFits' /\ \A u \in Workers : KindFits(u)'
    BY <1>1, <1>2, <1>3, <1>4, <1>5, <2>3 DEF Books, HandleFits, MoversFit, QuitFits, KindFits
  <2>7. ThreadsFit'
    BY <1>1, <2>3, <2>4 DEF Books, ThreadsFit, Living
  <2>8. \A c \in Workers : (AtWorker(c)' <=> AtWorker(c)) /\ (Unborn(c)' => Unborn(c))
    BY <1>2, <2>3 DEF AtWorker, Unborn
  <2> QED
    BY <1>1, <2>5, <2>6, <2>7, <2>8, Aside DEF Books
<1>6. ASSUME NEW rows \in [Workers -> WorkerRow],
             \A u \in Workers : /\ rows[u].pc = worker[u].pc
                                /\ rows[u].kind = worker[u].kind
                                /\ rows[u].result = worker[u].result,
             ui' = [ui EXCEPT !.pc = "idle"],
             worker' = [rows EXCEPT ![w].pc = "done"],
             fence' \in {fence, [fence EXCEPT !.inFlight = FALSE]}
      PROVE  Good' /\ OwnerStep
  <2> DEFINE row == [rows[w] EXCEPT !.pc = "done"]
  <2>1. row \in WorkerRow /\ row.pc = "done"
    BY <1>2, <1>6 DEF WorkerRow, Pcs
  <2>2. worker' = [rows EXCEPT ![w] = row]
    BY <1>6
  <2> HIDE DEF row
  <2>3. /\ worker' \in [Workers -> WorkerRow] /\ worker'[w].pc = "done"
        /\ \A u \in Workers \ {w} : worker'[u] = rows[u]
    BY <1>2, <1>6, <2>1, <2>2
  <2>4. ui'.pc = "idle"
    BY <1>6 DEF HostTyped
  <2>5. /\ fence' \in [current : Workers \cup {Nobody}, inFlight : BOOLEAN, closed : BOOLEAN]
        /\ fence'.inFlight => fence.inFlight
    BY <1>6 DEF HostTyped
  <2>6. HostTyped'
    BY <1>1, <1>6, <2>3, <2>4, <2>5 DEF HostTyped
  <2>7. HandleFits' /\ MoversFit' /\ QuitFits' /\ \A u \in Workers : KindFits(u)'
    BY <1>1, <1>2, <1>3, <1>4, <1>6, <2>3, <2>5
    DEF Books, HandleFits, MoversFit, QuitFits, KindFits
  <2>8. ThreadsFit'
    BY <1>1, <1>6, <2>3, <2>4 DEF Books, ThreadsFit, Living
  <2>9. \A c \in Workers : (AtWorker(c)' <=> AtWorker(c)) /\ (Unborn(c)' => Unborn(c))
    BY <1>2, <1>6, <2>3 DEF AtWorker, Unborn
  <2> QED
    BY <1>1, <2>6, <2>7, <2>8, <2>9, Aside DEF Books
<1>7. CASE /\ ui' = [ui EXCEPT !.pc = "idle"]
           /\ worker' = [Cancelled(slot) EXCEPT ![w].pc = "done"]
           /\ UNCHANGED fence
  <2>1. PICK rows : rows = Cancelled(slot)
    OBVIOUS
  <2>2. /\ rows \in [Workers -> WorkerRow]
        /\ \A u \in Workers : /\ rows[u].pc = worker[u].pc
                              /\ rows[u].kind = worker[u].kind
                              /\ rows[u].result = worker[u].result
    BY <2>1, CancelledFields
  <2>3. worker' = [rows EXCEPT ![w].pc = "done"]
    BY <1>7, <2>1
  <2> QED
    BY <1>6, <1>7, <2>2, <2>3
<1>8. CASE /\ ui' = [ui EXCEPT !.pc = "idle"]
           /\ fence' = [fence EXCEPT !.inFlight = FALSE]
           /\ worker' = [worker EXCEPT ![w].pc = "done"]
  BY <1>6, <1>8 DEF HostTyped
<1> QED
  BY <1>5, <1>7, <1>8 DEF Register

\* A step of the main thread that at most sets a cancel flag.
LEMMA FlagsAside ==
    ASSUME Good, NEW v, worker' = Cancelled(v) \/ worker' = worker,
           UNCHANGED <<handle, proc, queue, registry, service, mover, unsettled>>,
           HostTyped', ThreadsFit', QuitFits', fence'.inFlight => fence.inFlight
    PROVE  Good' /\ OwnerStep
<1>1. \A u \in Workers : /\ worker'[u].pc = worker[u].pc
                         /\ worker'[u].kind = worker[u].kind
                         /\ worker'[u].result = worker[u].result
  BY CancelledFields DEF Good
<1>2. HandleFits' /\ MoversFit' /\ \A u \in Workers : KindFits(u)'
  BY <1>1 DEF Good, Books, HandleFits, MoversFit, KindFits
<1>3. \A c \in Workers : (AtWorker(c)' <=> AtWorker(c)) /\ (Unborn(c)' => Unborn(c))
  BY <1>1 DEF AtWorker, Unborn
<1> QED
  BY <1>2, <1>3, Aside DEF Books

LEMMA InstallStep ==
    ASSUME Good, Install
    PROVE  Good' /\ OwnerStep
<1> USE DEF Good, Typed
<1>1. ui.pc = "install" /\ UNCHANGED <<app, fence, handle, quit, reaperVars>>
  BY Zenon DEF Install
<1>2. ui.new \in Workers /\ quit.pc = "none" /\ ~quit.ready
  BY <1>1 DEF HostTyped, Books, QuitFits
<1>3. QuitFits' /\ (fence'.inFlight => fence.inFlight)
  BY <1>1, <1>2 DEF QuitFits
<1>4. CASE /\ Finished(slot) /\ slot' = ui.new
           /\ ui' = [ui EXCEPT !.pc = "idle"]
           /\ UNCHANGED worker
  <2>1. HostTyped' /\ ui'.pc = "idle"
    BY <1>1, <1>2, <1>4 DEF HostTyped
  <2>2. ThreadsFit'
    BY <1>1, <1>4, <2>1, ReaperAssumption DEF Books, ThreadsFit, Living, Finished
  <2> QED
    BY <1>1, <1>3, <1>4, <2>1, <2>2, FlagsAside DEF reaperVars
<1>5. CASE worker' = Cancelled(slot) /\ UNCHANGED <<slot, ui>>
  <2>1. /\ worker' \in [Workers -> WorkerRow]
        /\ \A u \in Workers : worker'[u].pc = worker[u].pc
    BY <1>5, CancelledFields
  <2>2. HostTyped' /\ ThreadsFit'
    BY <1>1, <1>5, <2>1 DEF HostTyped, Books, ThreadsFit, Living
  <2> QED
    BY <1>1, <1>3, <1>5, <2>2, FlagsAside DEF reaperVars
<1> QED
  BY <1>4, <1>5 DEF Install

LEMMA CloseWindowStep ==
    ASSUME Good, CloseWindow
    PROVE  Good' /\ OwnerStep
<1> USE DEF Good, Typed
<1>1. /\ ui.pc = "idle"
      /\ fence' = IF fence.inFlight
                  THEN [fence EXCEPT !.current = Nobody, !.inFlight = FALSE] ELSE fence
      /\ worker' = Cancelled(slot)
      /\ UNCHANGED <<app, ui, slot, handle, quit, reaperVars>>
  BY Zenon DEF CloseWindow
<1>2. /\ worker' \in [Workers -> WorkerRow]
      /\ \A u \in Workers : worker'[u].pc = worker[u].pc
  BY <1>1, CancelledFields
<1>3. /\ fence' \in [current : Workers \cup {Nobody}, inFlight : BOOLEAN, closed : BOOLEAN]
      /\ (fence'.inFlight => fence.inFlight) /\ fence'.closed = fence.closed
  BY <1>1 DEF HostTyped
<1>4. HostTyped' /\ ThreadsFit' /\ QuitFits'
  BY <1>1, <1>2, <1>3 DEF HostTyped, Books, ThreadsFit, QuitFits, Living
<1> QED
  BY <1>1, <1>3, <1>4, FlagsAside DEF reaperVars

(***************************************************************************)
(* The bootstrap threads.                                                  *)
(***************************************************************************)

\* What every step of a worker has in common.
Steps(w) ==
    /\ Living(w)
    /\ worker' \in [Workers -> WorkerRow]
    /\ \A u \in Workers \ {w} : worker'[u] = worker[u]
    /\ worker'[w].pc # "none"
    /\ KindFits(w)'
    /\ Unborn(w)' => Unborn(w)
    /\ UNCHANGED <<app, ui, slot, quit>>
    /\ fence' \in [current : Workers \cup {Nobody}, inFlight : BOOLEAN, closed : BOOLEAN]
    /\ fence.closed => fence'.closed
    /\ handle' \in HandleRow
    /\ HandleFits'

LEMMA StepsGood ==
    ASSUME Good, NEW w \in Workers, Steps(w), ReaperTyped', MoverTyped', MoversFit'
    PROVE  Good' /\ NoneIsReborn
<1>1. HostTyped'
  BY DEF Good, Typed, HostTyped, Steps
<1>2. Books'
  BY WorkerBooks DEF Good, Steps
<1>3. NoneIsReborn
  BY DEF NoneIsReborn, Unborn, Steps
<1> QED
  BY <1>1, <1>2, <1>3 DEF Good, Typed

\* A step that is none to the owners.
LEMMA StepsAside ==
    ASSUME Good, NEW w \in Workers, Steps(w),
           UNCHANGED <<proc, queue, registry, service, mover, unsettled>>,
           mover[w].pc = "off" \/ worker'[w].pc \in {"over", "dropped"},
           SameHandle, AtWorker(w)' <=> AtWorker(w)
    PROVE  Good' /\ OwnerStep
<1>1. ReaperTyped' /\ MoverTyped' /\ NoneRises /\ SameReaper
  BY ReaperAside DEF Good
<1>2. MoversFit'
  BY DEF Good, Books, MoversFit, Steps
<1>3. SameWorkers
  BY DEF SameWorkers, AtWorker, Steps
<1> QED
  BY <1>1, <1>2, <1>3, StepsGood DEF OwnerStep, Keeps, ReaperMoves

\* The mover's thread is off while its worker does something else.
LEMMA WorkerIsOff ==
    ASSUME Good, NEW w \in Workers, worker[w].pc \notin {"over", "dropped"}
    PROVE  mover[w].pc = "off"
BY DEF Good, Books, MoversFit

LEMMA ProbeStep ==
    ASSUME Good, NEW w \in Workers, Probe(w)
    PROVE  Good' /\ OwnerStep
<1>1. worker[w].pc = "probe" /\ UNCHANGED <<Rests, reaperVars>>
  BY Zenon DEF Probe
<1>2. mover[w].pc = "off" /\ HandleFits'
  BY <1>1, WorkerIsOff DEF Good, Books, HandleFits, Rests
<1>3. ASSUME worker' \in [Workers -> WorkerRow],
             \A u \in Workers \ {w} : worker'[u] = worker[u],
             KindFits(w)', ~AtWorker(w)', worker'[w].pc # "none"
      PROVE  Good' /\ OwnerStep
  <2>1. Steps(w)
    BY <1>1, <1>2, <1>3
    DEF Steps, Living, Unborn, Good, Typed, HostTyped, Rests
  <2>2. SameHandle /\ ~AtWorker(w)
    BY <1>1 DEF SameHandle, AtWorker, Rests
  <2> QED
    BY <1>1, <1>2, <1>3, <2>1, <2>2, StepsAside DEF reaperVars
<1>4. CASE Goto(w, "done")
  BY <1>3, <1>4, GotoFields DEF Good, KindFits, AtWorker, Pcs
<1>5. ASSUME NEW result \in {"failed", "external"}, Conclude(w, result)
      PROVE  Good' /\ OwnerStep
  BY <1>3, <1>5, ConcludeFields DEF Good, KindFits, AtWorker
<1>6. CASE worker[w].kind = "start" /\ Goto(w, "spawn")
  BY <1>3, <1>6, GotoFields DEF Good, KindFits, AtWorker, Pcs
<1> QED
  BY <1>4, <1>5, <1>6 DEF Probe

LEMMA WaitStep ==
    ASSUME Good, NEW w \in Workers, Wait(w)
    PROVE  Good' /\ OwnerStep
<1>1. worker[w].pc = "wait" /\ UNCHANGED <<Rests, reaperVars>>
  BY Zenon DEF Wait
<1>2. mover[w].pc = "off" /\ HandleFits' /\ worker[w].kind = "start"
  BY <1>1, WorkerIsOff DEF Good, Books, HandleFits, Rests, KindFits
<1>3. ASSUME worker' \in [Workers -> WorkerRow],
             \A u \in Workers \ {w} : worker'[u] = worker[u],
             worker'[w].kind = "start", AtWorker(w)', ~Unborn(w)', worker'[w].pc # "none"
      PROVE  Good' /\ OwnerStep
  <2>1. Steps(w)
    BY <1>1, <1>2, <1>3
    DEF Steps, Living, KindFits, Good, Typed, HostTyped, Rests
  <2>2. SameHandle /\ AtWorker(w)
    BY <1>1 DEF SameHandle, AtWorker, Rests
  <2> QED
    BY <1>1, <1>2, <1>3, <2>1, <2>2, StepsAside DEF reaperVars
<1>4. CASE Conclude(w, "owned")
  BY <1>2, <1>3, <1>4, ConcludeFields DEF Good, AtWorker, Unborn
<1>5. CASE Goto(w, "undo")
  BY <1>2, <1>3, <1>5, GotoFields DEF Good, AtWorker, Unborn, Pcs
<1> QED
  BY <1>4, <1>5 DEF Wait

LEMMA SpawnStep ==
    ASSUME Good, NEW w \in Workers, Spawn(w)
    PROVE  Good' /\ OwnerStep
<1> USE DEF Good, Typed
<1>1. worker[w].pc = "spawn" /\ UNCHANGED <<Rests, queue, mover, unsettled, faults>>
  BY Zenon DEF Spawn
<1>2. mover[w].pc = "off" /\ HandleFits' /\ worker[w].kind = "start"
  BY <1>1, WorkerIsOff DEF Books, HandleFits, Rests, KindFits
<1>3. ASSUME worker' \in [Workers -> WorkerRow],
             \A u \in Workers \ {w} : worker'[u] = worker[u],
             worker'[w].pc # "none", worker'[w].kind = "start"
      PROVE  Steps(w) /\ SameHandle
  BY <1>1, <1>2, <1>3
  DEF Steps, Living, Unborn, KindFits, HostTyped, Rests, SameHandle
<1>4. CASE (Goto(w, "done") \/ Conclude(w, "failed")) /\ UNCHANGED <<proc, registry, service>>
  <2>1. /\ worker' \in [Workers -> WorkerRow]
        /\ \A u \in Workers \ {w} : worker'[u] = worker[u]
        /\ worker'[w].pc # "none" /\ worker'[w].kind = "start" /\ ~AtWorker(w)'
    BY <1>2, <1>4, GotoFields, ConcludeFields DEF AtWorker, Pcs
  <2>2. ~AtWorker(w)
    BY <1>1 DEF AtWorker
  <2> QED
    BY <1>1, <1>2, <1>3, <1>4, <2>1, <2>2, StepsAside
<1>5. CASE /\ IF registry = 0 THEN \E s \in Services : NewService(s)
              ELSE UNCHANGED <<registry, service>>
           /\ proc' = [proc EXCEPT ![w] = Started]
           /\ Goto(w, "wait")
  <2>1. /\ worker' \in [Workers -> WorkerRow]
        /\ \A u \in Workers \ {w} : worker'[u] = worker[u]
        /\ worker'[w].pc = "wait" /\ worker'[w].kind = "start"
    BY <1>2, <1>5, GotoFields DEF Pcs
  <2>2. /\ registry' \in Services \cup {0} /\ service' \in [Services -> ServiceRow]
        /\ SameServices
    BY <1>5, NewServiceFields DEF ReaperTyped, SameServices
  <2>3. Started \in ProcRow
    BY DEF Started, NotStarted, ProcRow
  <2>4. ReaperTyped' /\ MoverTyped'
    BY <1>1, <1>5, <2>2, <2>3 DEF ReaperTyped, MoverTyped
  <2>5. MoversFit'
    BY <1>1, <1>2, <2>1 DEF Books, MoversFit
  <2>6. Good' /\ NoneIsReborn
    BY <1>3, <2>1, <2>4, <2>5, StepsGood
  <2>7. Spawns(w)
    <3>1. Unborn(w) /\ AtWorker(w)' /\ OtherWorkers(w)
      BY <1>1, <2>1 DEF Unborn, AtWorker, OtherWorkers
    <3>2. SameReaper
      BY <1>1, <2>2 DEF SameReaper, SameServices
    <3>3. ~Gone(w)' /\ \A d \in Workers \ {w} : proc'[d] = proc[d]
      BY <1>5 DEF ReaperTyped, Gone, Started, NotStarted, Members
    <3> QED
      BY <1>3, <2>1, <3>1, <3>2, <3>3 DEF Spawns
  <2> QED
    BY <2>6, <2>7 DEF OwnerStep
<1> QED
  BY <1>4, <1>5, Zenon DEF Spawn

LEMMA UndoStep ==
    ASSUME Good, NEW w \in Workers, Undo(w)
    PROVE  Good' /\ OwnerStep
<1> USE DEF Good, Typed
<1>1. worker[w].pc = "undo" /\ ForceStop(w) /\ UNCHANGED Rests
  BY Zenon DEF Undo
<1>2. mover[w].pc = "off" /\ HandleFits'
  BY <1>1, WorkerIsOff DEF Books, HandleFits, Rests
<1>3. proc' \in [Workers -> ProcRow] /\ NoneRises
  BY <1>1, ForceStopFields DEF ReaperTyped
<1>4. ASSUME worker' \in [Workers -> WorkerRow],
             \A u \in Workers \ {w} : worker'[u] = worker[u],
             ~AtWorker(w)', KindFits(w)', worker'[w].pc \in {"finish", "over"}
      PROVE  Steps(w) /\ SameHandle /\ AtWorker(w) /\ OtherWorkers(w)
  BY <1>1, <1>2, <1>4
  DEF Steps, Living, Unborn, HostTyped, Rests, SameHandle, AtWorker, OtherWorkers
<1>5. CASE /\ Settled(w) /\ Conclude(w, "failed")
           /\ UNCHANGED <<queue, registry, service, mover, unsettled>>
  <2>1. /\ worker' \in [Workers -> WorkerRow]
        /\ \A u \in Workers \ {w} : worker'[u] = worker[u]
        /\ ~AtWorker(w)' /\ KindFits(w)' /\ worker'[w].pc = "finish"
    BY <1>5, ConcludeFields DEF AtWorker, KindFits
  <2>2. ReaperTyped' /\ MoverTyped' /\ SameReaper
    BY <1>3, <1>5 DEF ReaperTyped, MoverTyped, SameReaper
  <2>3. MoversFit'
    BY <1>2, <1>5, <2>1 DEF Books, MoversFit
  <2>4. Loses(w)
    BY <1>3, <1>4, <1>5, <2>1, <2>2 DEF Loses, Gone, Settled
  <2> QED
    BY <1>4, <2>1, <2>2, <2>3, <2>4, StepsGood DEF OwnerStep
<1>6. CASE Goto(w, "over") /\ HandOver(w)
  <2>1. /\ worker' \in [Workers -> WorkerRow]
        /\ \A u \in Workers \ {w} : worker'[u] = worker[u]
        /\ ~AtWorker(w)' /\ KindFits(w)' /\ worker'[w].pc = "over"
    BY <1>6, GotoFields DEF AtWorker, KindFits, Pcs
  <2>2. ReaperTyped' /\ MoverTyped' /\ HandsOver(w)
    BY <1>2, <1>3, <1>6, HandOverFields
  <2>3. MoversFit'
    <3>1. mover' = [mover EXCEPT ![w] = [AtRest EXCEPT !.pc = "service"]]
      BY <1>6 DEF HandOver
    <3> QED
      BY <2>1, <3>1 DEF Books, MoversFit, ReaperTyped, Movers
  <2>4. Loses(w)
    BY <1>3, <1>4, <2>1, <2>2 DEF Loses
  <2> QED
    BY <1>4, <2>1, <2>2, <2>3, <2>4, StepsGood DEF OwnerStep
<1> QED
  BY <1>5, <1>6, Zenon DEF Undo

LEMMA DropStep ==
    ASSUME Good, NEW w \in Workers, Drop(w)
    PROVE  Good' /\ OwnerStep
<1> USE DEF Good, Typed
<1>1. /\ worker[w].pc = "drop" /\ ForceStop(w) /\ HandOver(w) /\ Goto(w, "dropped")
      /\ UNCHANGED Rests
  BY Zenon DEF Drop
<1>2. mover[w].pc = "off" /\ HandleFits'
  BY <1>1, WorkerIsOff DEF Books, HandleFits, Rests
<1>3. proc' \in [Workers -> ProcRow] /\ NoneRises
  BY <1>1, ForceStopFields DEF ReaperTyped
<1>4. /\ worker' \in [Workers -> WorkerRow]
      /\ \A u \in Workers \ {w} : worker'[u] = worker[u]
      /\ ~AtWorker(w)' /\ KindFits(w)' /\ worker'[w].pc = "dropped"
  BY <1>1, GotoFields DEF AtWorker, KindFits, Pcs
<1>5. Steps(w) /\ SameHandle /\ AtWorker(w) /\ OtherWorkers(w)
  BY <1>1, <1>2, <1>4
  DEF Steps, Living, Unborn, HostTyped, Rests, SameHandle, AtWorker, OtherWorkers
<1>6. ReaperTyped' /\ MoverTyped' /\ HandsOver(w)
  BY <1>1, <1>2, <1>3, HandOverFields
<1>7. MoversFit'
  <2>1. mover' = [mover EXCEPT ![w] = [AtRest EXCEPT !.pc = "service"]]
    BY <1>1 DEF HandOver
  <2> QED
    BY <1>4, <2>1 DEF Books, MoversFit, ReaperTyped, Movers
<1>8. Loses(w)
  BY <1>3, <1>4, <1>5, <1>6 DEF Loses
<1> QED
  BY <1>5, <1>6, <1>7, <1>8, StepsGood DEF OwnerStep

LEMMA OverStep ==
    ASSUME Good, NEW w \in Workers, Over(w)
    PROVE  Good' /\ OwnerStep
<1> USE DEF Good, Typed
<1>1. /\ worker[w].pc \in {"over", "dropped"} /\ mover[w].pc = "off"
      /\ Conclude(w, "failed") \/ Goto(w, "done")
      /\ UNCHANGED <<Rests, reaperVars>>
  BY Zenon DEF Over
<1>2. HandleFits'
  BY <1>1 DEF Books, HandleFits, Rests
<1>3. /\ worker' \in [Workers -> WorkerRow]
      /\ \A u \in Workers \ {w} : worker'[u] = worker[u]
      /\ ~AtWorker(w)' /\ KindFits(w)' /\ worker'[w].pc \in {"finish", "done"}
  BY <1>1, ConcludeFields, GotoFields DEF AtWorker, KindFits, Pcs
<1>4. Steps(w) /\ SameHandle /\ ~AtWorker(w)
  BY <1>1, <1>2, <1>3 DEF Steps, Living, Unborn, HostTyped, Rests, SameHandle, AtWorker
<1> QED
  BY <1>1, <1>3, <1>4, StepsAside DEF reaperVars

LEMMA FinishStep ==
    ASSUME Good, NEW w \in Workers, Finish(w)
    PROVE  Good' /\ OwnerStep
<1> USE DEF Good, Typed
<1> DEFINE r == worker[w].result
<1>1. /\ worker[w].pc = "finish"
      /\ UNCHANGED <<app, ui, slot, quit, reaperVars>>
  BY Zenon DEF Finish
<1>2. mover[w].pc = "off" /\ (r = "owned" => worker[w].kind = "start") /\ ~Unborn(w)
  BY <1>1, WorkerIsOff DEF Books, KindFits, Unborn
<1>3. r \in {"failed", "external", "owned"}
  BY DEF HostTyped, WorkerRow
<1>4. ReaperTyped' /\ MoverTyped' /\ NoneRises /\ SameReaper
  BY <1>1, ReaperAside DEF reaperVars
<1>5. ASSUME NEW pc \in {"done", "navigate", "drop"}, Goto(w, pc),
             fence' \in {fence, [fence EXCEPT !.inFlight = FALSE]},
             handle' \in HandleRow, HandleFits'
      PROVE  /\ Steps(w) /\ MoversFit' /\ OtherWorkers(w)
             /\ AtWorker(w)' <=> pc = "drop"
  <2>1. /\ worker' \in [Workers -> WorkerRow]
        /\ \A u \in Workers \ {w} : worker'[u] = worker[u]
        /\ worker'[w].pc = pc
    BY <1>5, GotoFields DEF Pcs
  <2>2. /\ fence' \in [current : Workers \cup {Nobody}, inFlight : BOOLEAN, closed : BOOLEAN]
        /\ fence.closed => fence'.closed
    BY <1>5 DEF HostTyped
  <2>3. KindFits(w)' /\ (AtWorker(w)' <=> pc = "drop") /\ ~Unborn(w)' /\ Living(w)
    BY <1>1, <1>5, <2>1 DEF KindFits, AtWorker, Unborn, Living
  <2>4. MoversFit' /\ OtherWorkers(w)
    BY <1>1, <1>2, <2>1 DEF Books, MoversFit, OtherWorkers, AtWorker, reaperVars
  <2> QED
    BY <1>1, <1>5, <2>1, <2>2, <2>3, <2>4 DEF Steps
<1>6. CASE Accepts(w)
  <2>1. /\ fence' = [fence EXCEPT !.inFlight = FALSE]
        /\ handle' = IF worker[w].kind = "probe" \/ r = "failed" THEN handle
                       ELSE IF r = "external" THEN External ELSE Owned(w)
        /\ Goto(w, IF r = "failed" THEN "done" ELSE "navigate")
    BY <1>6, Zenon DEF Finish
  <2>2. handle.child = Nobody /\ ~fence'.inFlight
    BY <1>6, <2>1 DEF Accepts, Books, HandleFits, HostTyped
  <2>3. PICK pc \in {"done", "navigate"} : Goto(w, pc)
    BY <2>1
  <2>4. CASE worker[w].kind = "probe" \/ r = "failed"
    <3>1. handle' = handle
      BY <2>1, <2>4, Zenon
    <3>2. ~AtWorker(w)
      BY <1>1, <1>2, <2>4 DEF AtWorker
    <3>3. handle' \in HandleRow /\ HandleFits'
      BY <2>2, <3>1 DEF HostTyped, Books, HandleFits
    <3>4. Steps(w) /\ ~AtWorker(w)'
      BY <1>5, <2>1, <2>3, <3>3
    <3> QED
      BY <1>1, <1>2, <3>1, <3>2, <3>4, StepsAside DEF SameHandle, reaperVars
  <2>5. CASE worker[w].kind # "probe" /\ r = "external"
    <3>1. handle' = External /\ ~AtWorker(w)
      BY <1>1, <2>1, <2>5 DEF AtWorker
    <3>2. handle' \in HandleRow /\ handle'.child = Nobody /\ handle'.kind = "external"
      BY <3>1 DEF External, NoHandle, HandleRow
    <3>3. HandleFits'
      BY <2>2, <3>2 DEF HandleFits
    <3>4. Steps(w) /\ ~AtWorker(w)'
      BY <1>5, <2>1, <2>3, <3>2, <3>3
    <3> QED
      BY <1>1, <1>2, <2>2, <3>1, <3>2, <3>4, StepsAside DEF SameHandle, reaperVars
  <2>6. CASE worker[w].kind # "probe" /\ r = "owned"
    <3>1. handle' = Owned(w) /\ AtWorker(w)
      BY <1>1, <2>1, <2>6 DEF AtWorker
    <3>2. handle' \in HandleRow /\ handle'.child = w /\ handle'.kind = "owned"
      BY <3>1 DEF Owned, NoHandle, HandleRow
    <3>3. HandleFits'
      BY <2>2, <3>2, ReaperAssumption DEF HandleFits
    <3>4. Steps(w) /\ ~AtWorker(w)' /\ MoversFit' /\ OtherWorkers(w)
      BY <1>5, <2>1, <2>3, <3>2, <3>3
    <3>5. Loses(w)
      BY <1>4, <2>2, <3>1, <3>2, <3>4 DEF Loses
    <3> QED
      BY <1>4, <3>4, <3>5, StepsGood DEF OwnerStep
  <2> QED
    BY <1>3, <2>4, <2>5, <2>6
<1>7. CASE ~Accepts(w)
  <2>1. Goto(w, IF r = "owned" THEN "drop" ELSE "done") /\ UNCHANGED <<fence, handle>>
    BY <1>7, Zenon DEF Finish
  <2>2. handle' \in HandleRow /\ HandleFits' /\ SameHandle
    BY <2>1 DEF HostTyped, Books, HandleFits, SameHandle
  <2>3. Steps(w) /\ (AtWorker(w)' <=> r = "owned")
    BY <1>5, <2>1, <2>2
  <2>4. AtWorker(w) <=> r = "owned"
    BY <1>1 DEF AtWorker
  <2> QED
    BY <1>1, <1>2, <2>2, <2>3, <2>4, StepsAside DEF reaperVars
<1> QED
  BY <1>6, <1>7

LEMMA NavigateStep ==
    ASSUME Good, NEW w \in Workers, Navigate(w)
    PROVE  Good' /\ OwnerStep
<1> USE DEF Good, Typed
<1>1. /\ worker[w].pc = "navigate"
      /\ Goto(w, "done") \/ Goto(w, "abort")
      /\ UNCHANGED <<Rests, proc, queue, registry, service, mover, unsettled>>
  BY Zenon DEF Navigate
<1>2. HandleFits' /\ mover[w].pc = "off"
  BY <1>1, WorkerIsOff DEF Books, HandleFits, Rests
<1>3. /\ worker' \in [Workers -> WorkerRow]
      /\ \A u \in Workers \ {w} : worker'[u] = worker[u]
      /\ worker'[w].pc \in {"done", "abort"}
  BY <1>1, GotoFields DEF Pcs
<1>4. Steps(w) /\ SameHandle /\ ~AtWorker(w) /\ ~AtWorker(w)'
  BY <1>1, <1>2, <1>3
  DEF Steps, Living, Unborn, KindFits, HostTyped, Rests, SameHandle, AtWorker
<1> QED
  BY <1>1, <1>2, <1>4, StepsAside

LEMMA AbortStep ==
    ASSUME Good, NEW w \in Workers, Abort(w)
    PROVE  Good' /\ OwnerStep
<1> USE DEF Good, Typed
<1>1. /\ worker[w].pc = "abort" /\ fence' = Closed
      /\ UNCHANGED <<app, ui, slot, quit, queue, registry, service, mover, unsettled, faults>>
  BY Zenon DEF Abort
<1>2. mover[w].pc = "off"
  BY <1>1, WorkerIsOff
<1>3. /\ fence' \in [current : Workers \cup {Nobody}, inFlight : BOOLEAN, closed : BOOLEAN]
      /\ fence'.closed /\ ~fence'.inFlight
  BY <1>1 DEF Closed
<1>4. ASSUME NEW pc \in {"done", "stop"}, Goto(w, pc), handle' \in HandleRow, HandleFits'
      PROVE  Steps(w) /\ SameWorkers /\ MoversFit'
  <2>1. /\ worker' \in [Workers -> WorkerRow]
        /\ \A u \in Workers \ {w} : worker'[u] = worker[u]
        /\ worker'[w].pc = pc
    BY <1>4, GotoFields DEF Pcs
  <2>2. Living(w) /\ ~Unborn(w)' /\ KindFits(w)'
    BY <1>1, <1>4, <2>1 DEF Living, Unborn, KindFits
  <2>3. SameWorkers
    BY <1>1, <1>4, <2>1 DEF SameWorkers, AtWorker
  <2>4. MoversFit'
    BY <1>1, <1>2, <2>1 DEF Books, MoversFit
  <2> QED
    BY <1>1, <1>3, <1>4, <2>1, <2>2, <2>3, <2>4 DEF Steps
<1>5. CASE /\ handle.kind = "owned"
           /\ proc' = [proc EXCEPT ![handle.child].asked = TRUE]
           /\ Goto(w, "stop")
           /\ UNCHANGED handle
  <2>1. handle' \in HandleRow /\ HandleFits' /\ SameHandle
    BY <1>3, <1>5 DEF HostTyped, Books, HandleFits, SameHandle
  <2>2. proc' \in [Workers -> ProcRow] /\ NoneRises
    BY <1>5, AskingFields DEF ReaperTyped
  <2>3. ReaperTyped' /\ MoverTyped' /\ SameReaper
    BY <1>1, <2>2 DEF ReaperTyped, MoverTyped, SameReaper
  <2>4. Steps(w) /\ SameWorkers /\ MoversFit'
    BY <1>4, <1>5, <2>1
  <2> QED
    BY <2>1, <2>2, <2>3, <2>4, StepsGood DEF OwnerStep, Keeps, ReaperMoves
<1>6. CASE handle.kind # "owned" /\ Goto(w, "done") /\ handle' = NoHandle /\ UNCHANGED proc
  <2>1. handle' \in HandleRow /\ HandleFits' /\ SameHandle
    BY <1>3, <1>6, NoneHandles DEF Books, HandleFits, SameHandle
  <2>2. ReaperTyped' /\ MoverTyped' /\ NoneRises /\ SameReaper
    BY <1>1, <1>6, ReaperAside
  <2>3. Steps(w) /\ SameWorkers /\ MoversFit'
    BY <1>4, <1>6, <2>1
  <2> QED
    BY <2>1, <2>2, <2>3, StepsGood DEF OwnerStep, Keeps, ReaperMoves
<1> QED
  BY <1>5, <1>6, Zenon DEF Abort

\* The handle is given up when its sidecar is gone.
LEMMA FreesHandle ==
    ASSUME Good, HandleFits, handle' = NoHandle, ForceStop(handle.child),
           handle.child \in Workers => Settled(handle.child), SameWorkers, SameReaper
    PROVE  Frees
<1>1. NoneRises
  BY ForceStopFields DEF Good, Typed, ReaperTyped
<1> QED
  BY <1>1, NoneHandles DEF Frees

LEMMA StopStep ==
    ASSUME Good, NEW w \in Workers, Stop(w)
    PROVE  Good' /\ OwnerStep
<1> USE DEF Good, Typed
<1>1. /\ worker[w].pc = "stop" /\ ForceStop(handle.child)
      /\ handle' = IF Settled(handle.child) THEN NoHandle ELSE handle
      /\ Goto(w, "done")
      /\ UNCHANGED <<app, ui, fence, slot, quit, queue, registry, service, mover, unsettled>>
  BY Zenon DEF Stop
<1>2. mover[w].pc = "off"
  BY <1>1, WorkerIsOff
<1>3. proc' \in [Workers -> ProcRow] /\ NoneRises
  BY <1>1, ForceStopFields DEF ReaperTyped
<1>4. ReaperTyped' /\ MoverTyped' /\ SameReaper
  BY <1>1, <1>3 DEF ReaperTyped, MoverTyped, SameReaper
<1>5. /\ worker' \in [Workers -> WorkerRow]
      /\ \A u \in Workers \ {w} : worker'[u] = worker[u]
      /\ worker'[w].pc = "done"
  BY <1>1, GotoFields DEF Pcs
<1>6. handle' \in HandleRow /\ HandleFits'
  BY <1>1, NoneHandles DEF HostTyped, Books, HandleFits
<1>7. Steps(w) /\ SameWorkers /\ MoversFit'
  <2>1. Living(w) /\ ~Unborn(w)' /\ KindFits(w)'
    BY <1>1, <1>5 DEF Living, Unborn, KindFits
  <2>2. SameWorkers
    BY <1>1, <1>5 DEF SameWorkers, AtWorker
  <2>3. MoversFit'
    BY <1>1, <1>2, <1>5 DEF Books, MoversFit
  <2> QED
    BY <1>1, <1>5, <1>6, <2>1, <2>2, <2>3 DEF Steps, HostTyped
<1>8. CASE Settled(handle.child)
  BY <1>1, <1>4, <1>6, <1>7, <1>8, FreesHandle, StepsGood DEF OwnerStep, Books
<1>9. CASE ~Settled(handle.child)
  BY <1>1, <1>3, <1>4, <1>6, <1>7, <1>9, StepsGood
  DEF OwnerStep, Keeps, SameHandle, ReaperMoves
<1> QED
  BY <1>8, <1>9

LEMMA WorkerSteps ==
    ASSUME Good, NEW w \in Workers, WorkerStep(w)
    PROVE  Good' /\ OwnerStep
BY ProbeStep, SpawnStep, WaitStep, UndoStep, OverStep, FinishStep, DropStep,
   NavigateStep, AbortStep, StopStep, Zenon
DEF WorkerStep

(***************************************************************************)
(* The exit, the reaper's threads and the processes.                       *)
(***************************************************************************)
QuitType == [pc : {"none", "workers", "reaper", "host"}, ready : BOOLEAN, event : BOOLEAN]

\* A request to quit closes the fence before it starts a clean-up.
LEMMA AskStep ==
    ASSUME Good, ui.pc = "idle", NEW event \in BOOLEAN, NEW goes,
           Ask(goes, event),
           goes => /\ quit' \in QuitType /\ ~quit'.ready /\ quit'.pc = quit.pc
                   /\ app' \in {"running", "exited"},
           UNCHANGED <<ui, slot, handle, proc, queue, registry, service, mover, unsettled>>
    PROVE  Good' /\ OwnerStep
<1> USE DEF Good, Typed
<1>1. CASE quit.ready /\ goes /\ UNCHANGED <<fence, worker, faults>>
  <2>1. HostTyped'
    BY <1>1 DEF HostTyped, QuitType
  <2>2. ThreadsFit' /\ QuitFits'
    BY <1>1 DEF Books, ThreadsFit, QuitFits, Living
  <2> QED
    BY <1>1, <2>1, <2>2, FlagsAside
<1>2. CASE /\ UNCHANGED app /\ quit.pc # "none"
           /\ quit' = [quit EXCEPT !.event = event]
           /\ UNCHANGED <<fence, worker, faults>>
  <2>1. HostTyped' /\ quit'.pc = quit.pc /\ quit'.ready = quit.ready
    BY <1>2 DEF HostTyped
  <2>2. ThreadsFit' /\ QuitFits'
    BY <1>2, <2>1 DEF Books, ThreadsFit, QuitFits, Living
  <2> QED
    BY <1>2, <2>1, <2>2, FlagsAside
<1>3. CASE /\ UNCHANGED app /\ quit.pc = "none" /\ ~quit.ready
           /\ fence' = Closed /\ worker' = Cancelled(slot)
           /\ \/ quit' = [quit EXCEPT !.event = event, !.pc = "workers"]
              \/ quit' = [quit EXCEPT !.event = event]
  <2>1. quit' \in QuitType /\ ~quit'.ready /\ quit'.pc \in {"none", "workers"}
    BY <1>3 DEF HostTyped, QuitType
  <2>2. /\ worker' \in [Workers -> WorkerRow]
        /\ \A u \in Workers : worker'[u].pc = worker[u].pc
    BY <1>3, CancelledFields
  <2>3. /\ fence' \in [current : Workers \cup {Nobody}, inFlight : BOOLEAN, closed : BOOLEAN]
        /\ fence'.closed /\ ~fence'.inFlight
    BY <1>3 DEF Closed
  <2>4. HostTyped'
    BY <1>3, <2>1, <2>2, <2>3 DEF HostTyped, QuitType
  <2>5. ThreadsFit' /\ QuitFits'
    BY <2>1, <2>2, <2>3 DEF Books, ThreadsFit, QuitFits, Living
  <2> QED
    BY <1>3, <2>3, <2>4, <2>5, FlagsAside
<1> QED
  BY <1>1, <1>2, <1>3, Zenon DEF Ask

LEMMA RequestExitStep ==
    ASSUME Good, RequestExit
    PROVE  Good' /\ OwnerStep
<1> DEFINE goes == quit' = [quit EXCEPT !.ready = FALSE, !.event = TRUE] /\ UNCHANGED app
<1>1. /\ ui.pc = "idle" /\ Ask(goes, quit.event)
      /\ UNCHANGED <<ui, slot, handle, proc, queue, registry, service, mover, unsettled>>
  BY Zenon DEF RequestExit
<1>2. quit.event \in BOOLEAN
  BY DEF Good, Typed, HostTyped
<1>3. goes => /\ quit' \in QuitType /\ ~quit'.ready /\ quit'.pc = quit.pc
              /\ app' \in {"running", "exited"}
  BY DEF Good, Typed, HostTyped, QuitType
<1> HIDE DEF goes
<1> QED
  BY <1>1, <1>2, <1>3, AskStep

LEMMA ExitRequestedStep ==
    ASSUME Good, ExitRequested
    PROVE  Good' /\ OwnerStep
<1> DEFINE goes == app' = "exited" /\ quit' = [quit EXCEPT !.ready = FALSE, !.event = FALSE]
<1>1. /\ ui.pc = "idle" /\ Ask(goes, FALSE)
      /\ UNCHANGED <<ui, slot, handle, proc, queue, registry, service, mover, unsettled>>
  BY Zenon DEF ExitRequested
<1>2. goes => /\ quit' \in QuitType /\ ~quit'.ready /\ quit'.pc = quit.pc
              /\ app' \in {"running", "exited"}
  BY DEF Good, Typed, HostTyped, QuitType
<1> HIDE DEF goes
<1> QED
  BY <1>1, <1>2, AskStep

LEMMA AgainFields ==
    ASSUME Good, Again
    PROVE  quit' \in QuitType /\ quit'.pc \in {"workers", "none"} /\ quit'.ready = quit.ready
BY DEF Good, Typed, HostTyped, QuitType, Again

LEMMA LookAtWorkersStep ==
    ASSUME Good, LookAtWorkers
    PROVE  Good' /\ OwnerStep
<1> USE DEF Good, Typed
<1>1. /\ quit.pc = "workers"
      /\ UNCHANGED <<app, ui, fence, worker, handle, reaperVars>>
  BY Zenon DEF LookAtWorkers
<1>2. fence.closed /\ ui.pc = "idle"
  BY <1>1 DEF Books, QuitFits
<1>3. CASE Finished(slot) /\ slot' = Nobody /\ quit' = [quit EXCEPT !.pc = "reaper"]
  <2>1. HostTyped'
    BY <1>1, <1>3 DEF HostTyped
  <2>2. ThreadsFit'
    BY <1>1, <1>2, <1>3, ReaperAssumption DEF Books, ThreadsFit, Living, Finished
  <2>3. QuitFits'
    BY <1>1, <1>2, <1>3 DEF QuitFits
  <2> QED
    BY <1>1, <2>1, <2>2, <2>3, FlagsAside DEF reaperVars
<1>4. CASE Again /\ UNCHANGED slot
  <2>1. HostTyped' /\ ThreadsFit' /\ QuitFits'
    BY <1>1, <1>2, <1>4, AgainFields
    DEF HostTyped, QuitType, Books, ThreadsFit, QuitFits, Living
  <2> QED
    BY <1>1, <2>1, FlagsAside DEF reaperVars
<1> QED
  BY <1>3, <1>4 DEF LookAtWorkers

LEMMA LookAtReaperStep ==
    ASSUME Good, LookAtReaper
    PROVE  Good' /\ OwnerStep
<1> USE DEF Good, Typed
<1>1. /\ quit.pc = "reaper" /\ (quit' = [quit EXCEPT !.pc = "host"] \/ Again)
      /\ UNCHANGED <<app, ui, fence, worker, slot, handle, reaperVars>>
  BY Zenon DEF LookAtReaper
<1>2. quit' \in QuitType /\ quit'.ready = quit.ready
  BY <1>1, AgainFields DEF HostTyped, QuitType
<1>3. HostTyped' /\ ThreadsFit' /\ QuitFits'
  BY <1>1, <1>2 DEF HostTyped, QuitType, Books, ThreadsFit, QuitFits, Living
<1> QED
  BY <1>1, <1>3, FlagsAside DEF reaperVars

LEMMA TimePassesStep ==
    ASSUME Good, TimePasses
    PROVE  Good' /\ OwnerStep
<1> USE DEF Good, Typed
<1>1. /\ handle' = [handle EXCEPT !.late = TRUE]
      /\ UNCHANGED <<app, ui, fence, worker, slot, quit, reaperVars>>
  BY Zenon DEF TimePasses
<1>2. handle' \in HandleRow /\ handle'.child = handle.child /\ handle'.kind = handle.kind
  BY <1>1 DEF HostTyped, HandleRow
<1>3. HostTyped' /\ Books'
  BY <1>1, <1>2
  DEF HostTyped, Books, HandleFits, MoversFit, ThreadsFit, QuitFits, KindFits, Living, reaperVars
<1> QED
  BY <1>1, <1>2, <1>3, Aside DEF reaperVars, AtWorker, Unborn

\* The last look: the handle is asked, forced or given up.
LEMMA ShutDownStep ==
    ASSUME Good, ShutDown
    PROVE  Good' /\ OwnerStep
<1> USE DEF Good, Typed
<1>1. /\ quit.pc = "host"
      /\ UNCHANGED <<app, ui, fence, worker, slot, queue, registry, service, mover, unsettled>>
  BY Zenon DEF ShutDown
<1>2. fence.closed /\ ui.pc = "idle" /\ slot = Nobody
  BY <1>1 DEF Books, QuitFits
<1>3. SameWorkers /\ NoneIsReborn
  BY <1>1 DEF SameWorkers, NoneIsReborn, AtWorker, Unborn
<1>4. ASSUME proc' \in [Workers -> ProcRow], quit' \in QuitType, handle' \in HandleRow, HandleFits'
      PROVE  Good' /\ SameReaper
  <2>1. ReaperTyped' /\ MoverTyped' /\ SameReaper
    BY <1>1, <1>4 DEF ReaperTyped, MoverTyped, SameReaper
  <2>2. HostTyped'
    BY <1>1, <1>4 DEF HostTyped, QuitType
  <2>3. Books'
    BY <1>1, <1>2, <1>4 DEF Books, MoversFit, ThreadsFit, QuitFits, KindFits, Living
  <2> QED
    BY <2>1, <2>2, <2>3
<1>5. Leave => /\ quit' \in QuitType /\ handle' \in HandleRow /\ HandleFits'
               /\ handle' = NoHandle
  BY NoneHandles DEF Leave, QuitType, HandleFits
<1>6. ASSUME NEW asked \in BOOLEAN, NEW forced \in BOOLEAN,
             handle' = [handle EXCEPT !.asked = asked, !.forced = forced],
             Again \/ UNCHANGED quit
      PROVE  quit' \in QuitType /\ handle' \in HandleRow /\ HandleFits' /\ SameHandle
  <2>1. handle' \in HandleRow /\ handle'.child = handle.child /\ handle'.kind = handle.kind
    BY <1>6 DEF HostTyped, HandleRow
  <2> QED
    BY <1>1, <1>6, <2>1, AgainFields DEF HostTyped, QuitType, Books, HandleFits, SameHandle
<1>7. CASE handle.kind # "owned" /\ Leave /\ UNCHANGED <<proc, faults>>
  <2>1. Good' /\ SameReaper
    BY <1>4, <1>5, <1>7 DEF ReaperTyped
  <2>2. handle.child = Nobody /\ handle'.child = Nobody
    BY <1>5, <1>7, NoneHandles DEF Books, HandleFits
  <2> QED
    BY <1>3, <1>7, <2>1, <2>2 DEF OwnerStep, Keeps, SameHandle, ReaperMoves, NoneRises
<1>8. CASE ForceOut(handle)
  <2>1. ForceStop(handle.child)
    BY <1>8 DEF ForceOut
  <2>2. proc' \in [Workers -> ProcRow] /\ NoneRises
    BY <2>1, ForceStopFields DEF ReaperTyped
  <2>3. CASE Settled(handle.child) /\ Leave
    BY <1>3, <1>4, <1>5, <2>1, <2>2, <2>3, FreesHandle DEF OwnerStep, Books
  <2>4. CASE Again /\ handle' = [handle EXCEPT !.forced = TRUE]
    <3>1. handle' = [handle EXCEPT !.asked = handle.asked, !.forced = TRUE]
      BY <2>4 DEF HostTyped, HandleRow
    <3>2. handle.asked \in BOOLEAN
      BY DEF HostTyped, HandleRow
    <3>3. quit' \in QuitType /\ handle' \in HandleRow /\ HandleFits' /\ SameHandle
      BY <1>6, <2>4, <3>1, <3>2
    <3> QED
      BY <1>3, <1>4, <2>2, <3>3 DEF OwnerStep, Keeps, ReaperMoves
  <2> QED
    BY <1>8, <2>3, <2>4, Zenon DEF ForceOut
<1>9. CASE Again /\ UNCHANGED <<handle, proc, faults>>
  <2>1. handle' \in HandleRow /\ HandleFits' /\ SameHandle /\ proc' \in [Workers -> ProcRow] /\ NoneRises
    BY <1>1, <1>9 DEF HostTyped, Books, HandleFits, SameHandle, ReaperTyped, NoneRises
  <2> QED
    BY <1>3, <1>4, <1>9, <2>1, AgainFields DEF OwnerStep, Keeps, ReaperMoves
<1>10. CASE Asked(handle)
  <2>1. /\ proc' = [proc EXCEPT ![handle.child].asked = TRUE]
        /\ handle' = [handle EXCEPT !.asked = TRUE] /\ Again
    BY <1>10 DEF Asked
  <2>2. proc' \in [Workers -> ProcRow] /\ NoneRises
    BY <2>1, AskingFields DEF ReaperTyped
  <2>3. handle' = [handle EXCEPT !.asked = TRUE, !.forced = handle.forced]
    BY <2>1 DEF HostTyped, HandleRow
  <2>4. handle.forced \in BOOLEAN
    BY DEF HostTyped, HandleRow
  <2>5. quit' \in QuitType /\ handle' \in HandleRow /\ HandleFits' /\ SameHandle
    BY <1>6, <2>1, <2>3, <2>4
  <2> QED
    BY <1>3, <1>4, <2>2, <2>5 DEF OwnerStep, Keeps, ReaperMoves
<1> QED
  BY <1>7, <1>8, <1>9, <1>10, Zenon DEF ShutDown

LEMMA ReaperSideStep ==
    ASSUME Good, ReaperStep \/ \E s \in Services : Dies(s), UNCHANGED desktopVars
    PROVE  Good' /\ OwnerStep
<1> USE DEF Good, Typed
<1>1. ReaperTyped' /\ MoverTyped' /\ NoneRises /\ ReaperMoves
  BY ReaperStepMoves
<1>2. OffStaysOff
  BY ReaperLeavesWorkersOff
<1>3. HostTyped' /\ Books'
  BY <1>2
  DEF HostTyped, Books, HandleFits, MoversFit, ThreadsFit, QuitFits, KindFits, Living,
      OffStaysOff, desktopVars
<1>4. SameWorkers /\ NoneIsReborn /\ SameHandle
  BY DEF SameWorkers, NoneIsReborn, SameHandle, AtWorker, Unborn, desktopVars
<1> QED
  BY <1>1, <1>3, <1>4 DEF OwnerStep, Keeps

LEMMA ExitsStep ==
    ASSUME Good, NEW c \in Workers, Exits(c), UNCHANGED desktopVars
    PROVE  Good' /\ OwnerStep
<1> USE DEF Good, Typed
<1>1. UNCHANGED <<queue, registry, service, mover, unsettled>>
  BY Zenon DEF Exits
<1>2. proc' \in [Workers -> ProcRow] /\ NoneRises
  BY ExitsFields DEF ReaperTyped
<1>3. ReaperTyped' /\ MoverTyped' /\ SameReaper
  BY <1>1, <1>2 DEF ReaperTyped, MoverTyped, SameReaper
<1>4. HostTyped' /\ Books'
  BY <1>1
  DEF HostTyped, Books, HandleFits, MoversFit, ThreadsFit, QuitFits, KindFits, Living, desktopVars
<1>5. SameWorkers /\ NoneIsReborn /\ SameHandle
  BY DEF SameWorkers, NoneIsReborn, SameHandle, AtWorker, Unborn, desktopVars
<1> QED
  BY <1>2, <1>3, <1>4, <1>5 DEF OwnerStep, Keeps, ReaperMoves

LEMMA StutterStep ==
    ASSUME Good, UNCHANGED vars
    PROVE  Good' /\ OwnerStep
<1>1. HostTyped' /\ Books'
  BY DEF Good, Typed, HostTyped, Books, HandleFits, MoversFit, ThreadsFit, QuitFits, KindFits,
         Living, vars, desktopVars, reaperVars
<1> QED
  BY <1>1, Aside DEF vars, desktopVars, reaperVars, AtWorker, Unborn

\* Every step keeps the books, and is one of the kinds listed above.
LEMMA GoodStep ==
    ASSUME Good, [Next]_vars
    PROVE  Good' /\ OwnerStep
BY BeginStep, RegisterStep, InstallStep, CloseWindowStep, WorkerSteps, RequestExitStep,
   ExitRequestedStep, LookAtWorkersStep, LookAtReaperStep, ShutDownStep, TimePassesStep,
   ReaperSideStep, ExitsStep, StutterStep, Zenon
DEF Next, Exit

(***************************************************************************)
(* Where a sidecar is.  Between the hand-over and the end it is in one     *)
(* place of the reaper, before that with its worker or in the handle.      *)
(***************************************************************************)
InReaper(c) ==
    \/ c \in queue
    \/ \E t \in Movers : mover[t].hand = c
    \/ \E s \in Services : c \in service[s].holds

OncePlaced(c) ==
    /\ c \in queue => /\ \A t \in Movers : mover[t].hand # c
                      /\ \A s \in Services : c \notin service[s].holds
    /\ \A t \in Movers : mover[t].hand = c =>
           /\ \A u \in Movers : mover[u].hand = c => u = t
           /\ \A s \in Services : c \notin service[s].holds
    /\ \A s, r \in Services : c \in service[s].holds /\ c \in service[r].holds => s = r

Placed(c) ==
    /\ OncePlaced(c)
    /\ InReaper(c) => ~AtWorker(c) /\ handle.child # c
    /\ AtWorker(c) => handle.child # c
    /\ Unborn(c) => ~InReaper(c) /\ handle.child # c
    /\ ~Gone(c) => AtWorker(c) \/ handle.child = c \/ InReaper(c)

Handed == {c \in Workers : InReaper(c)}
Counted == IsFiniteSet(Handed) /\ unsettled = Cardinality(Handed)

Places == Counted /\ \A c \in Workers : Placed(c)

\* The five ways the reaper's side changes, seen from one sidecar.
LEMMA SamePlaces ==
    ASSUME SameReaper, NEW d \in Workers
    PROVE  (InReaper(d)' <=> InReaper(d)) /\ (OncePlaced(d) => OncePlaced(d)')
BY DEF SameReaper, InReaper, OncePlaced

LEMMA TakesPlaces ==
    ASSUME NEW t \in Movers, NEW c \in Workers, Takes(t, c), OncePlaced(c), NEW d \in Workers
    PROVE  (InReaper(d)' <=> InReaper(d)) /\ (OncePlaced(d) => OncePlaced(d)')
<1>1. CASE d = c
  BY <1>1 DEF Takes, MovesOthers, SameServices, InReaper, OncePlaced
<1>2. CASE d # c
  BY <1>2 DEF Takes, MovesOthers, SameServices, InReaper, OncePlaced
<1> QED
  BY <1>1, <1>2

LEMMA GivesPlaces ==
    ASSUME NEW t \in Movers, NEW s \in Services, Gives(t, s), OncePlaced(mover[t].hand),
           NEW d \in Workers
    PROVE  (InReaper(d)' <=> InReaper(d)) /\ (OncePlaced(d) => OncePlaced(d)')
<1>1. CASE d = mover[t].hand
  BY <1>1 DEF Gives, MovesOthers, ServesOthers, InReaper, OncePlaced
<1>2. CASE d # mover[t].hand
  <2>1. \A r \in Services : d \in service'[r].holds <=> d \in service[r].holds
    BY <1>2 DEF Gives, ServesOthers
  <2>2. \A u \in Movers : mover'[u].hand = d <=> mover[u].hand = d
    BY <1>2 DEF Gives, MovesOthers
  <2>3. queue' = queue
    BY DEF Gives
  <2> QED
    BY <2>1, <2>2, <2>3 DEF InReaper, OncePlaced
<1> QED
  BY <1>1, <1>2

LEMMA ReturnsPlaces ==
    ASSUME NEW t \in Movers, Returns(t), OncePlaced(mover[t].hand), NEW d \in Workers
    PROVE  (InReaper(d)' <=> InReaper(d)) /\ (OncePlaced(d) => OncePlaced(d)')
<1>1. CASE d = mover[t].hand
  BY <1>1 DEF Returns, MovesOthers, SameServices, InReaper, OncePlaced
<1>2. CASE d # mover[t].hand
  <2>1. \A r \in Services : d \in service'[r].holds <=> d \in service[r].holds
    BY <1>2 DEF Returns, SameServices
  <2>2. \A u \in Movers : mover'[u].hand = d <=> mover[u].hand = d
    BY <1>2 DEF Returns, MovesOthers
  <2>3. d \in queue' <=> d \in queue
    BY <1>2 DEF Returns
  <2> QED
    BY <2>1, <2>2, <2>3 DEF InReaper, OncePlaced
<1> QED
  BY <1>1, <1>2

LEMMA SettlesPlaces ==
    ASSUME NEW s \in Services, NEW c \in Workers, Settles(s, c), OncePlaced(c),
           NEW d \in Workers
    PROVE  /\ InReaper(d)' <=> InReaper(d) /\ d # c
           /\ OncePlaced(d) => OncePlaced(d)'
<1>1. \A r \in Services : d \in service'[r].holds <=> d \in service[r].holds /\ (d # c \/ r # s)
  BY DEF Settles, ServesOthers
<1>2. queue' = queue /\ \A u \in Movers : mover'[u].hand = mover[u].hand
  BY DEF Settles
<1>3. c \in service[s].holds
  BY DEF Settles
<1>4. CASE d = c
  BY <1>1, <1>2, <1>3, <1>4 DEF InReaper, OncePlaced
<1>5. CASE d # c
  BY <1>1, <1>2, <1>5 DEF InReaper, OncePlaced
<1> QED
  BY <1>4, <1>5

LEMMA HandsOverPlaces ==
    ASSUME NEW c \in Workers, HandsOver(c), ~InReaper(c), NEW d \in Workers
    PROVE  /\ InReaper(d)' <=> InReaper(d) \/ d = c
           /\ OncePlaced(d) => OncePlaced(d)'
BY DEF HandsOver, SameServices, InReaper, OncePlaced

\* A move within the reaper keeps the count, which only settling lowers.
LEMMA SameCount ==
    ASSUME Counted, unsettled' = unsettled, \A d \in Workers : InReaper(d)' <=> InReaper(d)
    PROVE  Counted'
<1>1. Handed' = Handed
  BY DEF Handed
<1> QED
  BY <1>1 DEF Counted

LEMMA ReaperMovesPlaces ==
    ASSUME Good, Counted, \A c \in Workers : OncePlaced(c), ReaperMoves
    PROVE  /\ Counted'
           /\ \A d \in Workers : /\ OncePlaced(d)'
                                 /\ InReaper(d)' => InReaper(d)
                                 /\ InReaper(d) => InReaper(d)' \/ Gone(d)'
<1>1. CASE SameReaper
  BY <1>1, SamePlaces, SameCount DEF SameReaper
<1>2. ASSUME NEW t \in Movers, NEW c \in Workers, Takes(t, c)
      PROVE  Counted' /\ \A d \in Workers : OncePlaced(d)' /\ (InReaper(d)' <=> InReaper(d))
  BY <1>2, TakesPlaces, SameCount DEF Takes
<1>3. ASSUME NEW t \in Movers, NEW s \in Services, Gives(t, s)
      PROVE  Counted' /\ \A d \in Workers : OncePlaced(d)' /\ (InReaper(d)' <=> InReaper(d))
  BY <1>3, GivesPlaces, SameCount DEF Gives
<1>4. ASSUME NEW t \in Movers, Returns(t)
      PROVE  Counted' /\ \A d \in Workers : OncePlaced(d)' /\ (InReaper(d)' <=> InReaper(d))
  BY <1>4, ReturnsPlaces, SameCount DEF Returns
<1>5. ASSUME NEW s \in Services, NEW c \in Workers, Settles(s, c)
      PROVE  /\ Counted'
             /\ \A d \in Workers : /\ OncePlaced(d)'
                                   /\ InReaper(d)' <=> InReaper(d) /\ d # c
                                   /\ Gone(c)'
  <2>1. \A d \in Workers : OncePlaced(d)' /\ (InReaper(d)' <=> InReaper(d) /\ d # c)
    BY <1>5, SettlesPlaces
  <2>2. c \in Handed
    BY <1>5 DEF Settles, Handed, InReaper
  <2>3. Handed' = Handed \ {c}
    BY <2>1 DEF Handed
  <2>4. /\ IsFiniteSet(Handed \ {c})
        /\ Cardinality(Handed \ {c}) = Cardinality(Handed) - 1
    BY <2>2, FS_RemoveElement DEF Counted
  <2> QED
    BY <1>5, <2>1, <2>3, <2>4 DEF Counted, Settles
<1> QED
  BY <1>1, <1>2, <1>3, <1>4, <1>5 DEF ReaperMoves

LEMMA PlacesInit == Init => Places
<1> SUFFICES ASSUME Init PROVE Places
  OBVIOUS
<1>1. \A c \in Workers : ~InReaper(c)
  BY ReaperAssumption DEF Init, ReaperInit, InReaper, AtRest
<1>2. Handed = {}
  BY <1>1 DEF Handed
<1>3. Counted
  BY <1>2, FS_EmptySet DEF Init, ReaperInit, Counted
<1>4. \A c \in Workers : Placed(c)
  BY <1>1, ReaperAssumption
  DEF Init, ReaperInit, Placed, OncePlaced, InReaper, AtRest, AtWorker, Unborn, Gone, NotStarted,
      NoHandle, NoWorker
<1> QED
  BY <1>3, <1>4 DEF Places

\* A place is given up only to the next one, or when the sidecar is gone.
LEMMA PlacesStep ==
    ASSUME Good, Good', Places, OwnerStep
    PROVE  Places'
<1>1. Counted /\ \A c \in Workers : Placed(c) /\ OncePlaced(c)
  BY DEF Places, Placed
<1>2. NoneRises => \A d \in Workers : ~Gone(d)' => ~Gone(d)
  BY DEF NoneRises, Gone
<1>3. \A d \in Workers : Unborn(d)' => Unborn(d)
  BY DEF OwnerStep, NoneIsReborn
<1>4. SameReaper => /\ Counted'
                    /\ \A d \in Workers : OncePlaced(d)' /\ (InReaper(d)' <=> InReaper(d))
  BY <1>1, SamePlaces, SameCount DEF SameReaper
<1>5. CASE Keeps
  <2>1. /\ Counted'
        /\ \A d \in Workers : /\ OncePlaced(d)'
                              /\ InReaper(d)' => InReaper(d)
                              /\ InReaper(d) => InReaper(d)' \/ Gone(d)'
    BY <1>1, <1>5, ReaperMovesPlaces DEF Keeps
  <2>2. ASSUME NEW d \in Workers PROVE Placed(d)'
    BY <1>1, <1>2, <1>3, <1>5, <2>1 DEF Keeps, SameWorkers, SameHandle, Placed
  <2> QED
    BY <2>1, <2>2 DEF Places
<1>6. CASE Frees
  <2>1. ASSUME NEW d \in Workers PROVE Placed(d)'
    <3>1. handle.child = d => Gone(d)'
      BY <1>6 DEF Frees, Settled, Gone
    <3>2. (AtWorker(d)' <=> AtWorker(d)) /\ handle'.child # d
      BY <1>6, ReaperAssumption DEF Frees, SameWorkers
    <3>3. ~Gone(d)' => ~Gone(d)
      BY <1>2, <1>6 DEF Frees
    <3>4. OncePlaced(d)' /\ (InReaper(d)' <=> InReaper(d))
      BY <1>4, <1>6 DEF Frees
    <3> QED
      BY <1>1, <1>3, <3>1, <3>2, <3>3, <3>4 DEF Placed
  <2> QED
    BY <1>4, <1>6, <2>1 DEF Frees, Places
<1>7. ASSUME NEW c \in Workers, Spawns(c) PROVE Places'
  <2>1. ASSUME NEW d \in Workers PROVE Placed(d)'
    <3>1. OncePlaced(d)' /\ (InReaper(d)' <=> InReaper(d)) /\ handle'.child = handle.child
      BY <1>4, <1>7 DEF Spawns, SameHandle
    <3>2. CASE d = c
      <4>1. Unborn(d) /\ AtWorker(d)'
        BY <1>7, <3>2 DEF Spawns
      <4>2. ~Unborn(d)'
        BY <4>1 DEF AtWorker, Unborn
      <4> QED
        BY <1>1, <3>1, <4>1, <4>2 DEF Placed
    <3>3. CASE d # c
      <4>1. (AtWorker(d)' <=> AtWorker(d)) /\ (Gone(d)' <=> Gone(d))
        BY <1>7, <3>3 DEF Spawns, OtherWorkers, Gone
      <4> QED
        BY <1>1, <1>3, <3>1, <4>1 DEF Placed
    <3> QED
      BY <3>2, <3>3
  <2> QED
    BY <1>4, <1>7, <2>1 DEF Spawns, Places
<1>8. ASSUME NEW c \in Workers, Loses(c) PROVE Places'
  <2>1. AtWorker(c) /\ ~AtWorker(c)' /\ ~InReaper(c) /\ handle.child # c /\ ~Unborn(c)
    BY <1>1, <1>8 DEF Loses, Placed, AtWorker, Unborn
  <2>2. \A d \in Workers \ {c} : AtWorker(d)' <=> AtWorker(d)
    BY <1>8 DEF Loses, OtherWorkers
  <2>3. \A d \in Workers : ~Gone(d)' => ~Gone(d)
    BY <1>2, <1>8 DEF Loses
  <2>4. CASE SameHandle /\ HandsOver(c)
    <3>1. \A d \in Workers : OncePlaced(d)' /\ (InReaper(d)' <=> InReaper(d) \/ d = c)
      BY <1>1, <2>1, <2>4, HandsOverPlaces
    <3>2. Handed' = Handed \cup {c} /\ c \notin Handed
      BY <2>1, <3>1 DEF Handed
    <3>3. /\ IsFiniteSet(Handed \cup {c})
          /\ Cardinality(Handed \cup {c}) = Cardinality(Handed) + 1
      BY <1>1, <3>2, FS_AddElement DEF Counted
    <3>4. Counted'
      BY <1>1, <2>4, <3>2, <3>3 DEF Counted, HandsOver
    <3>5. ASSUME NEW d \in Workers PROVE Placed(d)'
      BY <1>1, <1>3, <2>1, <2>2, <2>3, <2>4, <3>1, <3>5 DEF SameHandle, Placed
    <3> QED
      BY <3>4, <3>5 DEF Places
  <2>5. CASE SameHandle /\ SameReaper /\ Gone(c)'
    <3>1. ASSUME NEW d \in Workers PROVE Placed(d)'
      BY <1>1, <1>3, <1>4, <2>1, <2>2, <2>3, <2>5 DEF SameHandle, Placed
    <3> QED
      BY <1>4, <2>5, <3>1 DEF Places
  <2>6. CASE handle.child = Nobody /\ handle'.child = c /\ SameReaper
    <3>1. ASSUME NEW d \in Workers PROVE Placed(d)'
      <4>1. handle.child # d
        BY <2>6, ReaperAssumption
      <4> QED
        BY <1>1, <1>3, <1>4, <2>1, <2>2, <2>3, <2>6, <4>1 DEF Placed
    <3> QED
      BY <1>4, <2>6, <3>1 DEF Places
  <2> QED
    BY <1>8, <2>4, <2>5, <2>6 DEF Loses
<1> QED
  BY <1>5, <1>6, <1>7, <1>8 DEF OwnerStep

(***************************************************************************)
(* The exit.  When it looks at the handle nobody else has a sidecar, and   *)
(* from then on nobody gets one.                                           *)
(***************************************************************************)
Quits ==
    /\ quit.pc = "host" => unsettled = 0
    /\ quit.ready \/ app = "exited" => \A c \in Workers : Gone(c)
    /\ quit.ready => unsettled = 0 /\ handle.child = Nobody

LEMMA NobodyLives ==
    ASSUME Good, quit.pc \in {"reaper", "host"} \/ quit.ready
    PROVE  \A c \in Workers : ~AtWorker(c)
<1>1. slot = Nobody
  BY DEF Good, Books, QuitFits
<1>2. ui.pc = "idle"
  BY DEF Good, Books, QuitFits
<1>3. \A w \in Workers : ~Living(w)
  BY <1>1, <1>2, ReaperAssumption DEF Good, Books, ThreadsFit
<1> QED
  BY <1>3 DEF Living, AtWorker

LEMMA NothingHanded ==
    ASSUME Places, unsettled = 0
    PROVE  \A c \in Workers : ~InReaper(c)
<1>1. Handed = {}
  BY FS_EmptySet DEF Places, Counted
<1> QED
  BY <1>1 DEF Handed

\* A step that is none of the exit's.
LEMMA OthersQuit ==
    ASSUME Good, Good', Places, Quits, OwnerStep, app = "running", UNCHANGED <<app, quit>>
    PROVE  Quits'
<1>1. CASE quit.pc = "host" \/ quit.ready
  <2>1. \A c \in Workers : ~AtWorker(c)
    BY <1>1, NobodyLives
  <2>2. (\A c \in Workers : ~AtWorker(c))'
    <3>1. (quit.pc \in {"reaper", "host"} \/ quit.ready)'
      BY <1>1
    <3>2. (slot = Nobody /\ ui.pc = "idle")'
      BY <3>1 DEF Good, Books, QuitFits
    <3>3. (\A w \in Workers : ~Living(w))'
      BY <3>2, ReaperAssumption DEF Good, Books, ThreadsFit
    <3> QED
      BY <3>3 DEF Living, AtWorker
  <2>3. Keeps \/ Frees
    BY <2>1, <2>2 DEF OwnerStep, Spawns, Loses
  <2>4. \A c \in Workers : Gone(c) => Gone(c)'
    BY <2>3 DEF Keeps, Frees, NoneRises, Gone
  <2>5. ASSUME unsettled = 0 PROVE unsettled' = 0
    <3>1. \A s \in Services, c \in Workers : ~Settles(s, c)
      BY <2>5, NothingHanded DEF Settles, InReaper
    <3> QED
      BY <2>3, <2>5, <3>1 DEF Keeps, Frees, ReaperMoves, SameReaper, Takes, Gives, Returns
  <2>6. ASSUME handle.child = Nobody PROVE handle'.child = Nobody
    BY <2>3, <2>6 DEF Keeps, Frees, SameHandle
  <2> QED
    BY <2>4, <2>5, <2>6 DEF Quits
<1>2. CASE ~(quit.pc = "host" \/ quit.ready)
  BY <1>2 DEF Quits
<1> QED
  BY <1>1, <1>2

LEMMA AskQuits ==
    ASSUME Good, Quits, NEW event, NEW goes, Ask(goes, event), UNCHANGED <<proc, unsettled>>,
           goes => quit'.pc = quit.pc /\ ~quit'.ready /\ (app' = app \/ app' = "exited")
    PROVE  Quits'
<1>1. \A c \in Workers : Gone(c)' <=> Gone(c)
  BY DEF Gone
<1>2. CASE quit.ready
  BY <1>1, <1>2 DEF Ask, Quits
<1>3. CASE ~quit.ready
  <2>1. app' = app
    BY <1>3 DEF Ask
  <2>2. quit'.ready = quit.ready /\ (quit'.pc = quit.pc \/ quit'.pc = "workers")
    BY <1>3 DEF Ask, Good, Typed, HostTyped
  <2> QED
    BY <1>1, <1>3, <2>1, <2>2 DEF Quits
<1> QED
  BY <1>2, <1>3

LEMMA RequestExitQuits == ASSUME Good, Quits, RequestExit PROVE Quits'
<1> DEFINE goes == quit' = [quit EXCEPT !.ready = FALSE, !.event = TRUE] /\ UNCHANGED app
<1>1. Ask(goes, quit.event) /\ UNCHANGED <<proc, unsettled>>
  BY Zenon DEF RequestExit
<1>2. goes => quit'.pc = quit.pc /\ ~quit'.ready /\ app' = app
  BY DEF Good, Typed, HostTyped
<1> HIDE DEF goes
<1> QED
  BY <1>1, <1>2, AskQuits

LEMMA ExitRequestedQuits == ASSUME Good, Quits, ExitRequested PROVE Quits'
<1> DEFINE goes == app' = "exited" /\ quit' = [quit EXCEPT !.ready = FALSE, !.event = FALSE]
<1>1. Ask(goes, FALSE) /\ UNCHANGED <<proc, unsettled>>
  BY Zenon DEF ExitRequested
<1>2. goes => quit'.pc = quit.pc /\ ~quit'.ready /\ app' = "exited"
  BY DEF Good, Typed, HostTyped
<1> HIDE DEF goes
<1> QED
  BY <1>1, <1>2, AskQuits

\* A look that ends in another attempt, or goes on to the next look.
LEMMA LookQuits ==
    ASSUME Good, Quits, NoneRises, UNCHANGED <<app, unsettled>>,
           quit' \in QuitType, quit'.ready = quit.ready, SameHandle,
           quit'.pc = "host" => unsettled = 0
    PROVE  Quits'
<1>1. \A c \in Workers : Gone(c) => Gone(c)'
  BY DEF NoneRises, Gone
<1> QED
  BY <1>1 DEF Quits, SameHandle

LEMMA LookAtWorkersQuits == ASSUME Good, Quits, LookAtWorkers PROVE Quits'
<1>1. /\ quit' = [quit EXCEPT !.pc = "reaper"] \/ Again
      /\ UNCHANGED <<app, ui, fence, worker, handle, reaperVars>>
  BY Zenon DEF LookAtWorkers
<1>2. quit' \in QuitType /\ quit'.ready = quit.ready /\ quit'.pc # "host"
  BY <1>1, AgainFields DEF Good, Typed, HostTyped, QuitType
<1> QED
  BY <1>1, <1>2, LookQuits DEF reaperVars, NoneRises, SameHandle

LEMMA LookAtReaperQuits == ASSUME Good, Quits, LookAtReaper PROVE Quits'
<1>1. /\ (AllSettled /\ quit' = [quit EXCEPT !.pc = "host"]) \/ Again
      /\ UNCHANGED <<app, ui, fence, worker, slot, handle, reaperVars>>
  BY Zenon DEF LookAtReaper
<1>2. /\ quit' \in QuitType /\ quit'.ready = quit.ready
      /\ quit'.pc = "host" => unsettled = 0
  BY <1>1, AgainFields DEF Good, Typed, HostTyped, QuitType, AllSettled
<1> QED
  BY <1>1, <1>2, LookQuits DEF reaperVars, NoneRises, SameHandle

LEMMA ShutDownQuits ==
    ASSUME Good, Good', Places, Quits, ShutDown
    PROVE  Quits'
<1>1. /\ quit.pc = "host"
      /\ UNCHANGED <<app, ui, fence, worker, slot, queue, registry, service, mover, unsettled>>
  BY Zenon DEF ShutDown
<1>2. unsettled = 0
  BY <1>1 DEF Quits
<1>3. \A c \in Workers : ~AtWorker(c) /\ ~InReaper(c)
  BY <1>1, <1>2, NobodyLives, NothingHanded
<1>4. \A c \in Workers : handle.child # c => Gone(c)
  BY <1>3 DEF Places, Placed
<1>5. ASSUME Again, NoneRises, SameHandle PROVE Quits'
  BY <1>1, <1>5, AgainFields, LookQuits
<1>6. ASSUME Leave, \A c \in Workers : Gone(c)' PROVE Quits'
  BY <1>1, <1>2, <1>6, NoneHandles DEF Leave, Quits
<1>7. CASE handle.kind # "owned" /\ Leave /\ UNCHANGED <<proc, faults>>
  <2>1. handle.child = Nobody
    BY <1>7 DEF Good, Books, HandleFits
  <2>2. \A c \in Workers : Gone(c)'
    BY <1>4, <1>7, <2>1, ReaperAssumption DEF Gone
  <2> QED
    BY <1>6, <1>7, <2>2
<1>8. CASE ForceOut(handle)
  <2>1. NoneRises
    BY <1>8, ForceStopFields DEF ForceOut, Good, Typed, ReaperTyped
  <2>2. CASE Settled(handle.child) /\ Leave
    <3>1. \A c \in Workers : Gone(c)'
      BY <1>4, <2>1, <2>2 DEF NoneRises, Gone, Settled
    <3> QED
      BY <1>6, <2>2, <3>1
  <2>3. CASE Again /\ handle' = [handle EXCEPT !.forced = TRUE]
    <3>1. SameHandle
      BY <2>3 DEF SameHandle, Good, Typed, HostTyped, HandleRow
    <3> QED
      BY <1>5, <2>1, <2>3, <3>1
  <2> QED
    BY <1>8, <2>2, <2>3, Zenon DEF ForceOut
<1>9. CASE Again /\ UNCHANGED <<handle, proc, faults>>
  BY <1>5, <1>9 DEF NoneRises, SameHandle
<1>10. CASE Asked(handle)
  <2>1. Again /\ proc' = [proc EXCEPT ![handle.child].asked = TRUE]
    BY <1>10 DEF Asked
  <2>2. SameHandle
    BY <1>10 DEF Asked, SameHandle, Good, Typed, HostTyped, HandleRow
  <2> QED
    BY <1>5, <2>1, <2>2, AskingFields DEF Good, Typed, ReaperTyped
<1> QED
  BY <1>7, <1>8, <1>9, <1>10, Zenon DEF ShutDown

\* The bootstrap threads and the main thread leave the exit alone.
LEMMA WorkersLeaveQuit ==
    ASSUME NEW w \in Workers, WorkerStep(w)
    PROVE  UNCHANGED <<app, quit>>
<1>1. CASE Probe(w) \/ Spawn(w) \/ Wait(w)
  BY <1>1 DEF Probe, Spawn, Wait, Rests
<1>2. CASE Undo(w) \/ Over(w) \/ Drop(w) \/ Navigate(w)
  BY <1>2 DEF Undo, Over, Drop, Navigate, Rests
<1>3. CASE Finish(w) \/ Abort(w) \/ Stop(w)
  BY <1>3, Zenon DEF Finish, Abort, Stop
<1> QED
  BY <1>1, <1>2, <1>3, Zenon DEF WorkerStep

LEMMA QuitsStep ==
    ASSUME Good, Good', Places, Quits, OwnerStep, [Next]_vars
    PROVE  Quits'
<1>1. CASE UNCHANGED vars
  BY <1>1 DEF vars, desktopVars, reaperVars, Quits, Gone
<1>2. ASSUME NEW c \in Workers, Exits(c), UNCHANGED desktopVars PROVE Quits'
  <2>1. UNCHANGED <<app, quit, handle>> /\ unsettled' = unsettled
    BY <1>2, Zenon DEF Exits, desktopVars
  <2>2. NoneRises
    BY <1>2, ExitsFields DEF Good, Typed, ReaperTyped
  <2>3. \A d \in Workers : Gone(d) => Gone(d)'
    BY <2>2 DEF NoneRises, Gone
  <2> QED
    BY <2>1, <2>3 DEF Quits
<1>3. ASSUME Running, UNCHANGED <<app, quit>> PROVE Quits'
  BY <1>3, OthersQuit DEF Running
<1>4. ASSUME NEW w \in Workers, NEW kind \in Kinds, Running, Begin(w, kind) PROVE Quits'
  BY <1>3, <1>4 DEF Begin
<1>5. CASE Running /\ (Register \/ Install \/ CloseWindow \/ TimePasses)
  BY <1>3, <1>5, Zenon DEF Register, Install, CloseWindow, TimePasses
<1>6. ASSUME Running, NEW w \in Workers, WorkerStep(w) PROVE Quits'
  BY <1>3, <1>6, WorkersLeaveQuit
<1>7. CASE Running /\ UNCHANGED desktopVars
  BY <1>3, <1>7 DEF desktopVars
<1> QED
  BY <1>1, <1>2, <1>4, <1>5, <1>6, <1>7, RequestExitQuits, ExitRequestedQuits,
     LookAtWorkersQuits, LookAtReaperQuits, ShutDownQuits, Zenon
  DEF Next, Exit

(***************************************************************************)
(* The inductive invariant and what follows from it.                       *)
(***************************************************************************)
Inv == Good /\ Places /\ Quits

LEMMA InvInit == Init => Inv
<1> SUFFICES ASSUME Init PROVE Inv
  OBVIOUS
<1>1. Good /\ Places
  BY TypedInit, BooksInit, PlacesInit DEF Good
<1>2. Quits
  BY DEF Init, ReaperInit, Quits
<1> QED
  BY <1>1, <1>2 DEF Inv

LEMMA InvStep == Inv /\ [Next]_vars => Inv'
<1> SUFFICES ASSUME Inv, [Next]_vars PROVE Inv'
  OBVIOUS
<1>1. Good' /\ OwnerStep
  BY GoodStep DEF Inv
<1>2. Places'
  BY <1>1, PlacesStep DEF Inv
<1>3. Quits'
  BY <1>1, QuitsStep DEF Inv
<1> QED
  BY <1>1, <1>2, <1>3 DEF Inv

LEMMA InvAlways == Spec => []Inv
BY InvInit, InvStep, PTL DEF Spec

\* host_lifecycle.rs and main.rs: the desktop process ends only when no process
\* of a sidecar it started is left.
THEOREM NoOrphanIsLeft == Spec => []NoOrphan
<1>1. Inv => NoOrphan
  BY DEF Inv, Quits, NoOrphan
<1> QED
  BY <1>1, InvAlways, PTL

\* The keepers of a sidecar, place by place.
LEMMA KeepersAre ==
    ASSUME Good, NEW c \in Workers, NEW k
    PROVE  k \in Keepers(c) <=>
             \/ k = <<"worker", c>> /\ AtWorker(c)
             \/ k = <<"handle", c>> /\ handle.child = c
             \/ k = <<"queue", c>> /\ c \in queue
             \/ \E t \in Movers : k = <<"mover", t>> /\ mover[t].hand = c
             \/ \E s \in Services : k = <<"service", s>> /\ c \in service[s].holds
BY DEF Keepers, AtWorker

LEMMA KeptOnce ==
    ASSUME Inv, NEW c \in Workers, ~Gone(c)
    PROVE  \E k : Keepers(c) = {k}
<1>1. Good /\ Placed(c) /\ OncePlaced(c)
  BY DEF Inv, Places, Placed
<1>2. AtWorker(c) \/ handle.child = c \/ InReaper(c)
  BY <1>1 DEF Placed
<1>3. CASE AtWorker(c)
  <2>1. handle.child # c /\ ~InReaper(c)
    BY <1>1, <1>3 DEF Placed
  <2>2. \A k : k \in Keepers(c) <=> k = <<"worker", c>>
    BY <1>1, <1>3, <2>1, KeepersAre DEF InReaper
  <2>3. Keepers(c) = {<<"worker", c>>}
    BY <2>2
  <2> QED
    BY <2>3
<1>4. CASE handle.child = c
  <2>1. ~AtWorker(c) /\ ~InReaper(c)
    BY <1>1, <1>4 DEF Placed
  <2>2. \A k : k \in Keepers(c) <=> k = <<"handle", c>>
    BY <1>1, <1>4, <2>1, KeepersAre DEF InReaper
  <2>3. Keepers(c) = {<<"handle", c>>}
    BY <2>2
  <2> QED
    BY <2>3
<1>5. CASE InReaper(c)
  <2>1. ~AtWorker(c) /\ handle.child # c
    BY <1>1, <1>5 DEF Placed
  <2>2. CASE c \in queue
    <3>1. \A k : k \in Keepers(c) <=> k = <<"queue", c>>
      BY <1>1, <2>1, <2>2, KeepersAre DEF OncePlaced
    <3>2. Keepers(c) = {<<"queue", c>>}
      BY <3>1
    <3> QED
      BY <3>2
  <2>3. ASSUME NEW t \in Movers, mover[t].hand = c PROVE \E k : Keepers(c) = {k}
    <3>1. c \notin queue /\ \A s \in Services : c \notin service[s].holds
      BY <1>1, <2>3 DEF OncePlaced
    <3>2. \A u \in Movers : mover[u].hand = c <=> u = t
      BY <1>1, <2>3 DEF OncePlaced
    <3>3. \A k : k \in Keepers(c) <=> k = <<"mover", t>>
      BY <1>1, <2>1, <2>3, <3>1, <3>2, KeepersAre
    <3>4. Keepers(c) = {<<"mover", t>>}
      BY <3>3
    <3> QED
      BY <3>4
  <2>4. ASSUME NEW s \in Services, c \in service[s].holds PROVE \E k : Keepers(c) = {k}
    <3>1. c \notin queue /\ \A t \in Movers : mover[t].hand # c
      BY <1>1, <2>4 DEF OncePlaced
    <3>2. \A r \in Services : c \in service[r].holds <=> r = s
      BY <1>1, <2>4 DEF OncePlaced
    <3>3. \A k : k \in Keepers(c) <=> k = <<"service", s>>
      BY <1>1, <2>1, <2>4, <3>1, <3>2, KeepersAre
    <3>4. Keepers(c) = {<<"service", s>>}
      BY <3>3
    <3> QED
      BY <3>4
  <2> QED
    BY <1>5, <2>2, <2>3, <2>4 DEF InReaper
<1> QED
  BY <1>2, <1>3, <1>4, <1>5

\* host_lifecycle.rs, the ownership of a sidecar and REAPER_PENDING_CHILDREN:
\* what is not gone has exactly one keeper, and the counter counts just the
\* sidecars on the reaper's side.
THEOREM OneKeeperAlways == Spec => []OneKeeper
<1>1. ASSUME Inv PROVE OneKeeper
  <2>1. ASSUME NEW c \in Workers, ~Gone(c) PROVE Cardinality(Keepers(c)) = 1
    <3>1. PICK k : Keepers(c) = {k}
      BY <1>1, <2>1, KeptOnce
    <3> QED
      BY <3>1, FS_Singleton
  <2>2. ASSUME NEW c \in Workers
        PROVE  (\E k \in Keepers(c) : k[1] \in {"queue", "mover", "service"}) <=> InReaper(c)
    <3>1. ASSUME NEW k \in Keepers(c), k[1] \in {"queue", "mover", "service"} PROVE InReaper(c)
      BY <1>1, <3>1, KeepersAre DEF Inv, InReaper
    <3>2. c \in queue => <<"queue", c>> \in Keepers(c)
      BY <1>1, KeepersAre DEF Inv
    <3>3. \A t \in Movers : mover[t].hand = c => <<"mover", t>> \in Keepers(c)
      BY <1>1, KeepersAre DEF Inv
    <3>4. \A s \in Services : c \in service[s].holds => <<"service", s>> \in Keepers(c)
      BY <1>1, KeepersAre DEF Inv
    <3>5. \A x : /\ <<"queue", x>>[1] = "queue" /\ <<"mover", x>>[1] = "mover"
                 /\ <<"service", x>>[1] = "service"
      OBVIOUS
    <3>6. InReaper(c) => \E k \in Keepers(c) : k[1] \in {"queue", "mover", "service"}
      BY <3>2, <3>3, <3>4, <3>5 DEF InReaper
    <3> QED
      BY <3>1, <3>6
  <2>3. {c \in Workers : \E k \in Keepers(c) : k[1] \in {"queue", "mover", "service"}} = Handed
    BY <2>2 DEF Handed
  <2> QED
    BY <1>1, <2>1, <2>3 DEF OneKeeper, Inv, Places, Counted
<1> QED
  BY <1>1, InvAlways, PTL

(***************************************************************************)
(* Custody.  Each kind of step moves one sidecar on, or none.              *)
(***************************************************************************)
Owner(c) == {Role(k) : k \in Keepers(c)}

OwnersFit ==
    \A c \in Workers :
        /\ AtWorker(c) => Owner(c) = {"worker"}
        /\ handle.child = c => Owner(c) = {"handle"}
        /\ InReaper(c) => Owner(c) = {"reaper"}
        /\ ~AtWorker(c) /\ handle.child # c /\ ~InReaper(c) => Owner(c) = {}

LEMMA OwnersAre == Inv => OwnersFit
<1> SUFFICES ASSUME Inv, NEW c \in Workers
             PROVE  /\ AtWorker(c) => Owner(c) = {"worker"}
                    /\ handle.child = c => Owner(c) = {"handle"}
                    /\ InReaper(c) => Owner(c) = {"reaper"}
                    /\ ~AtWorker(c) /\ handle.child # c /\ ~InReaper(c) => Owner(c) = {}
  BY DEF OwnersFit
<1>1. Good /\ Placed(c)
  BY DEF Inv, Places
<1>2. \A x : /\ Role(<<"worker", x>>) = "worker" /\ Role(<<"handle", x>>) = "handle"
             /\ Role(<<"queue", x>>) = "reaper" /\ Role(<<"mover", x>>) = "reaper"
             /\ Role(<<"service", x>>) = "reaper"
  BY DEF Role
<1>3. \A k : k \in Keepers(c) <=>
             \/ k = <<"worker", c>> /\ AtWorker(c)
             \/ k = <<"handle", c>> /\ handle.child = c
             \/ k = <<"queue", c>> /\ c \in queue
             \/ \E t \in Movers : k = <<"mover", t>> /\ mover[t].hand = c
             \/ \E s \in Services : k = <<"service", s>> /\ c \in service[s].holds
  BY <1>1, KeepersAre
<1>4. \A r : r \in Owner(c) <=> \E k \in Keepers(c) : r = Role(k)
  BY DEF Owner
<1>5. \A r : r \in Owner(c) <=> \/ r = "worker" /\ AtWorker(c)
                                \/ r = "handle" /\ handle.child = c
                                \/ r = "reaper" /\ InReaper(c)
  <2>1. ASSUME NEW k \in Keepers(c)
        PROVE  \/ Role(k) = "worker" /\ AtWorker(c)
               \/ Role(k) = "handle" /\ handle.child = c
               \/ Role(k) = "reaper" /\ InReaper(c)
    <3>1. CASE k = <<"worker", c>> /\ AtWorker(c)
      BY <1>2, <3>1
    <3>2. CASE k = <<"handle", c>> /\ handle.child = c
      BY <1>2, <3>2
    <3>3. CASE k = <<"queue", c>> /\ c \in queue
      BY <1>2, <3>3 DEF InReaper
    <3>4. ASSUME NEW t \in Movers, k = <<"mover", t>>, mover[t].hand = c
          PROVE  Role(k) = "reaper" /\ InReaper(c)
      BY <1>2, <3>4 DEF InReaper
    <3>5. ASSUME NEW s \in Services, k = <<"service", s>>, c \in service[s].holds
          PROVE  Role(k) = "reaper" /\ InReaper(c)
      BY <1>2, <3>5 DEF InReaper
    <3> QED
      BY <1>3, <2>1, <3>1, <3>2, <3>3, <3>4, <3>5
  <2>2. AtWorker(c) => "worker" \in Owner(c)
    BY <1>2, <1>3, <1>4
  <2>3. handle.child = c => "handle" \in Owner(c)
    BY <1>2, <1>3, <1>4
  <2>4. c \in queue => "reaper" \in Owner(c)
    BY <1>2, <1>3, <1>4
  <2>5. ASSUME NEW t \in Movers, mover[t].hand = c PROVE "reaper" \in Owner(c)
    BY <1>2, <1>3, <1>4, <2>5
  <2>6. ASSUME NEW s \in Services, c \in service[s].holds PROVE "reaper" \in Owner(c)
    BY <1>2, <1>3, <1>4, <2>6
  <2>7. InReaper(c) => "reaper" \in Owner(c)
    BY <2>4, <2>5, <2>6 DEF InReaper
  <2> QED
    BY <1>4, <2>1, <2>2, <2>3, <2>7
<1>6. /\ InReaper(c) => ~AtWorker(c) /\ handle.child # c
      /\ AtWorker(c) => handle.child # c
  BY <1>1 DEF Placed
<1> QED
  BY <1>5, <1>6

LEMMA OwnersAreNext == Inv' => OwnersFit'
BY OwnersAre, PTL

\* The state of the abstract module.
Owners == [c \in Workers |-> Owner(c)]
Fresh == {c \in Workers : Unborn(c)}
Alive == {c \in Workers : ~Gone(c)}

LEMMA OneOwnerMoves ==
    ASSUME NEW c \in Workers, NEW to, Owner(c)' = to,
           \A d \in Workers \ {c} : Owner(d)' = Owner(d)
    PROVE  Owners' = [Owners EXCEPT ![c] = to]
<1>1. Owners' = [d \in Workers |-> Owner(d)']
  BY DEF Owners
<1>2. [Owners EXCEPT ![c] = to] = [d \in Workers |-> IF d = c THEN to ELSE Owner(d)]
  BY DEF Owners
<1> QED
  BY <1>1, <1>2

LEMMA NoOwnerMoves ==
    ASSUME \A d \in Workers : Owner(d)' = Owner(d)
    PROVE  Owners' = Owners
BY DEF Owners

\* The actions of the abstract module, in these terms.
SameOpen == Running' = Running
Passing == Alive' \subseteq Alive /\ Fresh' \subseteq Fresh /\ SameOpen

LEMMA MapsToEnds ==
    ASSUME Passing, Owners' = Owners, unsettled' = unsettled
    PROVE  Custody!Next
<1>1. Custody!Ends
  BY DEF Custody!Ends, Custody!Others, Passing, SameOpen, Owners, Owner, Fresh, Alive, Unborn
<1> QED
  BY <1>1 DEF Custody!Next

LEMMA MapsToStart ==
    ASSUME NEW c \in Workers, Running, Running', c \in Fresh, Fresh' \subseteq Fresh \ {c},
           Alive' = Alive \cup {c}, Owners' = [Owners EXCEPT ![c] = {"worker"}],
           unsettled' = unsettled
    PROVE  Custody!Next
<1>1. Custody!Start(c)
  BY DEF Custody!Start, Custody!Pass, Custody!Worker, Owners, Owner, Fresh, Alive, Unborn
<1> QED
  BY <1>1 DEF Custody!Next

LEMMA MapsToKeep ==
    ASSUME NEW c \in Workers, Passing, Owner(c) = {"worker"},
           \A d \in Workers : Owner(d) # {"handle"},
           Owners' = [Owners EXCEPT ![c] = {"handle"}], unsettled' = unsettled
    PROVE  Custody!Next
<1>1. Custody!Keep(c)
  BY DEF Custody!Keep, Custody!Pass, Custody!Others, Custody!Worker, Custody!Handle, Passing,
         SameOpen, Owners, Owner, Fresh, Alive, Unborn
<1> QED
  BY <1>1 DEF Custody!Next

LEMMA MapsToHandOver ==
    ASSUME NEW c \in Workers, Passing, Owner(c) = {"worker"},
           Owners' = [Owners EXCEPT ![c] = {"reaper"}], unsettled' = unsettled + 1
    PROVE  Custody!Next
<1>1. Custody!HandOver(c)
  BY DEF Custody!HandOver, Custody!Pass, Custody!Others, Custody!Worker, Custody!Reaper, Passing,
         SameOpen, Owners, Owner, Fresh, Alive, Unborn
<1> QED
  BY <1>1 DEF Custody!Next

LEMMA MapsToGiveUp ==
    ASSUME NEW c \in Workers, Passing, Owner(c) # {}, Gone(c)',
           Owners' = [Owners EXCEPT ![c] = {}],
           unsettled' = IF Owner(c) = {"reaper"} THEN unsettled - 1 ELSE unsettled
    PROVE  Custody!Next
<1>1. c \notin Alive'
  BY DEF Alive
<1>2. Custody!GiveUp(c)
  BY <1>1
  DEF Custody!GiveUp, Custody!Pass, Custody!Others, Custody!Nobodys, Custody!Reaper, Passing,
      SameOpen, Owners, Owner, Fresh, Alive, Unborn
<1> QED
  BY <1>2 DEF Custody!Next

\* The reaper keeps what it has, or lets go of one that is gone.
LEMMA ReaperKeeps ==
    ASSUME \A c \in Workers : OncePlaced(c), ReaperTyped, ReaperMoves
    PROVE  \/ /\ unsettled' = unsettled
              /\ \A d \in Workers : InReaper(d)' <=> InReaper(d)
           \/ \E c \in Workers :
                /\ InReaper(c) /\ Gone(c)' /\ unsettled' = unsettled - 1
                /\ \A d \in Workers : InReaper(d)' <=> InReaper(d) /\ d # c
<1>1. CASE SameReaper
  BY <1>1, SamePlaces DEF SameReaper
<1>2. ASSUME NEW t \in Movers, NEW c \in Workers, Takes(t, c)
      PROVE  unsettled' = unsettled /\ \A d \in Workers : InReaper(d)' <=> InReaper(d)
  BY <1>2, TakesPlaces DEF Takes
<1>3. ASSUME NEW t \in Movers, NEW s \in Services, Gives(t, s)
      PROVE  unsettled' = unsettled /\ \A d \in Workers : InReaper(d)' <=> InReaper(d)
  BY <1>3, GivesPlaces DEF Gives
<1>4. ASSUME NEW t \in Movers, Returns(t)
      PROVE  unsettled' = unsettled /\ \A d \in Workers : InReaper(d)' <=> InReaper(d)
  BY <1>4, ReturnsPlaces DEF Returns
<1>5. ASSUME NEW s \in Services, NEW c \in Workers, Settles(s, c)
      PROVE  /\ InReaper(c) /\ Gone(c)' /\ unsettled' = unsettled - 1
             /\ \A d \in Workers : InReaper(d)' <=> InReaper(d) /\ d # c
  BY <1>5, SettlesPlaces DEF Settles, InReaper
<1> QED
  BY <1>1, <1>2, <1>3, <1>4, <1>5 DEF ReaperMoves

\* A step of one of the kinds is a step of the abstract module.
LEMMA CustodyStep ==
    ASSUME Inv, Inv', OwnerStep, SameOpen, Running \/ UNCHANGED worker
    PROVE  Custody!Next
<1>1. OwnersFit /\ OwnersFit'
  BY OwnersAre, OwnersAreNext
<1>2. Fresh' \subseteq Fresh
  BY DEF OwnerStep, NoneIsReborn, Fresh
<1>3. NoneRises => Passing
  BY <1>2 DEF NoneRises, Passing, Alive, Gone
<1>4. ASSUME NEW d \in Workers, AtWorker(d)' <=> AtWorker(d),
             handle'.child = d <=> handle.child = d, InReaper(d)' <=> InReaper(d)
      PROVE  Owner(d)' = Owner(d)
  BY <1>1, <1>4 DEF OwnersFit
<1>5. \A d \in Workers : Placed(d) /\ OncePlaced(d)
  BY DEF Inv, Places, Placed
<1>6. CASE Keeps
  <2>1. Passing
    BY <1>3, <1>6 DEF Keeps
  <2>2. CASE /\ unsettled' = unsettled
             /\ \A d \in Workers : InReaper(d)' <=> InReaper(d)
    <3>1. \A d \in Workers : Owner(d)' = Owner(d)
      BY <1>4, <1>6, <2>2 DEF Keeps, SameWorkers, SameHandle
    <3> QED
      BY <2>1, <2>2, <3>1, NoOwnerMoves, MapsToEnds
  <2>3. ASSUME NEW c \in Workers, InReaper(c), Gone(c)', unsettled' = unsettled - 1,
               \A d \in Workers : InReaper(d)' <=> InReaper(d) /\ d # c
        PROVE  Custody!Next
    <3>1. \A d \in Workers \ {c} : Owner(d)' = Owner(d)
      BY <1>4, <1>6, <2>3 DEF Keeps, SameWorkers, SameHandle
    <3>2. Owner(c) = {"reaper"}
      BY <1>1, <2>3 DEF OwnersFit
    <3>3. ~AtWorker(c)' /\ handle'.child # c /\ ~InReaper(c)'
      BY <1>5, <1>6, <2>3 DEF Keeps, SameWorkers, SameHandle, Placed
    <3>4. Owner(c)' = {}
      BY <1>1, <3>3 DEF OwnersFit
    <3>5. Owners' = [Owners EXCEPT ![c] = {}]
      BY <3>1, <3>4, OneOwnerMoves
    <3>6. Owner(c) # {}
      BY <3>2
    <3> QED
      BY <2>1, <2>3, <3>2, <3>5, <3>6, MapsToGiveUp
  <2> QED
    BY <1>5, <1>6, <2>2, <2>3, ReaperKeeps DEF Keeps, Inv, Good, Typed
<1>7. CASE Frees
  <2>1. Passing /\ unsettled' = unsettled
    BY <1>3, <1>7 DEF Frees, SameReaper
  <2>2. \A d \in Workers : (InReaper(d)' <=> InReaper(d)) /\ (AtWorker(d)' <=> AtWorker(d))
    BY <1>7, SamePlaces DEF Frees, SameWorkers
  <2>3. CASE handle.child \notin Workers
    <3>1. \A d \in Workers : Owner(d)' = Owner(d)
      BY <1>4, <1>7, <2>2, <2>3, ReaperAssumption DEF Frees
    <3> QED
      BY <2>1, <3>1, NoOwnerMoves, MapsToEnds
  <2>4. CASE handle.child \in Workers
    <3>1. PICK c \in Workers : handle.child = c
      BY <2>4
    <3>2. \A d \in Workers \ {c} : Owner(d)' = Owner(d)
      BY <1>4, <1>7, <2>2, <3>1, ReaperAssumption DEF Frees
    <3>3. Gone(c)'
      BY <1>7, <3>1 DEF Frees, Settled, Gone
    <3>4. ~AtWorker(c)' /\ handle'.child # c /\ ~InReaper(c)'
      BY <1>5, <1>7, <2>2, <3>1, ReaperAssumption DEF Frees, Placed
    <3>5. Owner(c)' = {} /\ Owner(c) = {"handle"}
      BY <1>1, <3>1, <3>4 DEF OwnersFit
    <3>6. Owners' = [Owners EXCEPT ![c] = {}]
      BY <3>2, <3>5, OneOwnerMoves
    <3>7. Owner(c) # {} /\ Owner(c) # {"reaper"}
      BY <3>5
    <3> QED
      BY <2>1, <3>3, <3>6, <3>7, MapsToGiveUp
  <2> QED
    BY <2>3, <2>4
<1>8. ASSUME NEW c \in Workers, Spawns(c) PROVE Custody!Next
  <2>1. Unborn(c) /\ AtWorker(c)' /\ unsettled' = unsettled /\ handle'.child = handle.child
    BY <1>8 DEF Spawns, SameReaper, SameHandle
  <2>2. Running /\ Running'
    BY <2>1 DEF Unborn, AtWorker, SameOpen
  <2>3. c \in Fresh /\ Fresh' \subseteq Fresh \ {c}
    BY <1>2, <2>1 DEF Fresh, Unborn, AtWorker
  <2>4. Alive' = Alive \cup {c}
    BY <1>8 DEF Spawns, Alive, Gone
  <2>5. \A d \in Workers \ {c} : Owner(d)' = Owner(d)
    BY <1>4, <1>8, SamePlaces DEF Spawns, OtherWorkers, SameHandle
  <2>6. Owner(c)' = {"worker"}
    BY <1>1, <2>1 DEF OwnersFit
  <2>7. Owners' = [Owners EXCEPT ![c] = {"worker"}]
    BY <2>5, <2>6, OneOwnerMoves
  <2> QED
    BY <2>1, <2>2, <2>3, <2>4, <2>7, MapsToStart
<1>9. ASSUME NEW c \in Workers, Loses(c) PROVE Custody!Next
  <2>1. /\ AtWorker(c) /\ ~AtWorker(c)' /\ ~InReaper(c) /\ handle.child # c
        /\ Passing /\ \A d \in Workers \ {c} : AtWorker(d)' <=> AtWorker(d)
    BY <1>3, <1>5, <1>9 DEF Loses, OtherWorkers, Placed
  <2>2. Owner(c) = {"worker"}
    BY <1>1, <2>1 DEF OwnersFit
  <2>3. CASE SameHandle /\ HandsOver(c)
    <3>1. \A d \in Workers : InReaper(d)' <=> InReaper(d) \/ d = c
      BY <2>1, <2>3, HandsOverPlaces
    <3>2. \A d \in Workers \ {c} : Owner(d)' = Owner(d)
      BY <1>4, <2>1, <2>3, <3>1 DEF SameHandle
    <3>3. Owner(c)' = {"reaper"}
      BY <1>1, <3>1 DEF OwnersFit
    <3>4. Owners' = [Owners EXCEPT ![c] = {"reaper"}]
      BY <3>2, <3>3, OneOwnerMoves
    <3> QED
      BY <2>1, <2>2, <2>3, <3>4, MapsToHandOver DEF HandsOver
  <2>4. CASE SameHandle /\ SameReaper /\ Gone(c)'
    <3>1. \A d \in Workers : InReaper(d)' <=> InReaper(d)
      BY <2>4, SamePlaces
    <3>2. \A d \in Workers \ {c} : Owner(d)' = Owner(d)
      BY <1>4, <2>1, <2>4, <3>1 DEF SameHandle
    <3>3. Owner(c)' = {}
      BY <1>1, <2>1, <2>4, <3>1 DEF OwnersFit, SameHandle
    <3>4. Owners' = [Owners EXCEPT ![c] = {}]
      BY <3>2, <3>3, OneOwnerMoves
    <3>5. unsettled' = unsettled /\ Owner(c) # {} /\ Owner(c) # {"reaper"}
      BY <2>2, <2>4 DEF SameReaper
    <3> QED
      BY <2>1, <2>4, <3>4, <3>5, MapsToGiveUp
  <2>5. CASE handle.child = Nobody /\ handle'.child = c /\ SameReaper
    <3>1. \A d \in Workers : InReaper(d)' <=> InReaper(d)
      BY <2>5, SamePlaces
    <3>2. \A d \in Workers : handle.child # d
      BY <2>5, ReaperAssumption
    <3>3. \A d \in Workers \ {c} : Owner(d)' = Owner(d)
      BY <1>4, <2>1, <2>5, <3>1, <3>2
    <3>4. Owner(c)' = {"handle"}
      BY <1>1, <2>5 DEF OwnersFit
    <3>5. Owners' = [Owners EXCEPT ![c] = {"handle"}]
      BY <3>3, <3>4, OneOwnerMoves
    <3>6. ASSUME NEW d \in Workers PROVE Owner(d) # {"handle"}
      <4>1. Owner(d) \in {{"worker"}, {"reaper"}, {}}
        BY <1>1, <3>2 DEF OwnersFit
      <4> QED
        BY <4>1
    <3> QED
      BY <2>1, <2>2, <2>5, <3>5, <3>6, MapsToKeep DEF SameReaper
  <2> QED
    BY <1>9, <2>3, <2>4, <2>5 DEF Loses
<1> QED
  BY <1>6, <1>7, <1>8, <1>9 DEF OwnerStep

\* Only a granted exit ends the process, and it changes nothing else of this.
LEMMA OnlyExitCloses ==
    ASSUME Good, [Next]_vars
    PROVE  \/ app' = app
           \/ /\ quit.ready /\ Running /\ app' = "exited"
              /\ UNCHANGED <<worker, handle, reaperVars>>
<1>1. CASE UNCHANGED vars
  BY <1>1 DEF vars, desktopVars
<1>2. CASE UNCHANGED desktopVars
  BY <1>2 DEF desktopVars
<1>3. CASE (\E w \in Workers, kind \in Kinds : Begin(w, kind)) \/ CloseWindow
  BY <1>3 DEF Begin, CloseWindow
<1>4. CASE Register \/ Install \/ TimePasses
  BY <1>4, Zenon DEF Register, Install, TimePasses
<1>5. CASE \E w \in Workers : WorkerStep(w)
  BY <1>5, WorkersLeaveQuit
<1>6. CASE Exit
  BY <1>6, Zenon DEF Exit, LookAtWorkers, LookAtReaper, ShutDown
<1>7. CASE RequestExit
  BY <1>7 DEF RequestExit, Ask
<1>8. CASE Running /\ ExitRequested
  <2> DEFINE goes == app' = "exited" /\ quit' = [quit EXCEPT !.ready = FALSE, !.event = FALSE]
  <2>1. /\ Ask(goes, FALSE)
        /\ UNCHANGED <<ui, slot, handle, proc, queue, registry, service, mover, unsettled>>
    BY <1>8, Zenon DEF ExitRequested
  <2>2. CASE quit.ready
    <3>1. goes /\ UNCHANGED <<fence, worker, faults>>
      BY <2>1, <2>2, Zenon DEF Ask
    <3> QED
      BY <1>8, <2>1, <2>2, <3>1 DEF reaperVars
  <2>3. CASE ~quit.ready
    BY <2>1, <2>3, Zenon DEF Ask
  <2> QED
    BY <2>2, <2>3
<1> QED
  BY <1>1, <1>2, <1>3, <1>4, <1>5, <1>6, <1>7, <1>8, Zenon DEF Next

LEMMA LeavingIsLeave ==
    ASSUME Inv, quit.ready, Running, app' = "exited", UNCHANGED <<worker, handle, reaperVars>>
    PROVE  Custody!Next
<1>1. unsettled = 0 /\ handle.child = Nobody
  BY DEF Inv, Quits
<1>2. \A c \in Workers : ~AtWorker(c) /\ ~InReaper(c) /\ handle.child # c
  BY <1>1, NobodyLives, NothingHanded, ReaperAssumption DEF Inv
<1>3. \A c \in Workers : Owner(c) = {}
  BY <1>2, OwnersAre DEF OwnersFit
<1>4. \A c \in Workers : Keepers(c)' = Keepers(c) /\ (Unborn(c)' <=> Unborn(c))
                         /\ (Gone(c)' <=> Gone(c))
  BY DEF reaperVars, Keepers, Unborn, Gone
<1>5. Owners' = Owners
  BY <1>4 DEF Owners, Owner
<1>6. Fresh' = Fresh /\ Alive' = Alive /\ unsettled' = unsettled
  BY <1>4 DEF Fresh, Alive, reaperVars
<1>7. \A c \in Workers : Owners[c] = {}
  BY <1>3 DEF Owners
<1>8. Running' = FALSE
  BY DEF Running
<1>9. Custody!Leave
  BY <1>1, <1>5, <1>6, <1>7, <1>8
  DEF Custody!Leave, Custody!Nobodys, Owners, Owner, Fresh, Alive, Unborn
<1> QED
  BY <1>9 DEF Custody!Next

LEMMA CustodyNext == Inv /\ Inv' /\ [Next]_vars => [Custody!Next]_(Custody!custodyVars)
<1> SUFFICES ASSUME Inv, Inv', [Next]_vars PROVE Custody!Next
  OBVIOUS
<1>1. Good /\ OwnerStep
  BY GoodStep DEF Inv
<1>2. CASE app' = app
  <2>1. SameOpen
    BY <1>2 DEF SameOpen, Running
  <2>2. Running \/ UNCHANGED worker
    BY Zenon DEF Next, vars, desktopVars
  <2> QED
    BY <1>1, <2>1, <2>2, CustodyStep
<1> QED
  BY <1>1, <1>2, OnlyExitCloses, LeavingIsLeave

LEMMA CustodyInit == Init => Custody!Init
<1> SUFFICES ASSUME Init PROVE Custody!Init
  OBVIOUS
<1>1. Inv
  BY InvInit
<1>2. \A c \in Workers : ~AtWorker(c) /\ ~InReaper(c) /\ handle.child # c
  BY ReaperAssumption
  DEF Init, ReaperInit, InReaper, AtRest, AtWorker, NoWorker, NoHandle
<1>3. \A c \in Workers : Owner(c) = {}
  BY <1>1, <1>2, OwnersAre DEF OwnersFit
<1>4. Owners = [c \in Workers |-> {}]
  BY <1>3 DEF Owners
<1>5. Fresh = Workers /\ Alive = {} /\ unsettled = 0 /\ Running = TRUE
  BY DEF Init, ReaperInit, Fresh, Alive, Unborn, Gone, NoWorker, NotStarted, Running
<1> QED
  BY <1>4, <1>5 DEF Custody!Init, Custody!Nobodys, Owners, Owner, Fresh, Alive, Unborn

\* host_lifecycle.rs, from the spawn of a sidecar to the end of the process:
\* the shell with all its threads, cancellations, failed signals and dead
\* reapers keeps custody as SidecarCustody says.
THEOREM TheShellKeepsCustody == Spec => ImplementsCustody
<1>1. Init => Custody!Init
  BY CustodyInit
<1>2. Inv /\ Inv' /\ [Next]_vars => [Custody!Next]_(Custody!custodyVars)
  BY CustodyNext
<1> QED
  BY <1>1, <1>2, InvAlways, PTL DEF Spec, ImplementsCustody, Custody!Spec
=============================================================================
