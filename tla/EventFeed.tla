----------------------------- MODULE EventFeed -----------------------------
(***************************************************************************)
(* What a client that follows a log promises, without connections, queues  *)
(* and recoveries: it works at one event at a time, each time the next one *)
(* or one it has not confirmed yet; an event counts as applied once the    *)
(* screen knows of it; what is confirmed was applied before, with all that *)
(* came before it; and the screen never shows less than it has shown.      *)
(*                                                                         *)
(* A client that gives up on an event may be adrift: it does not know its  *)
(* place in the log any more, may skip events, and confirms nothing until  *)
(* it begins over from what it has confirmed.                              *)
(***************************************************************************)
EXTENDS Naturals

CONSTANT MaxEvents

VARIABLES
    log,        \* how many events there are
    shown,      \* the last event the screen knows of
    working,    \* the event the client works at, or 0
    applied,    \* the events that were applied
    confirmed,  \* the events up to this one are never asked for again
    adrift      \* the client has lost its place

feedVars == <<log, shown, working, applied, confirmed, adrift>>

Init == log = 0 /\ shown = 0 /\ working = 0 /\ applied = {} /\ confirmed = 0 /\ adrift = FALSE

Commit ==
    /\ log < MaxEvents
    /\ log' = log + 1
    /\ UNCHANGED <<shown, working, applied, confirmed, adrift>>

Show ==
    /\ shown' \in shown..log
    /\ UNCHANGED <<log, working, applied, confirmed, adrift>>

Begin ==
    /\ working = 0
    /\ working' \in (confirmed + 1)..log
    /\ adrift \/ 1..(working' - 1) \subseteq applied
    /\ UNCHANGED <<log, shown, applied, confirmed, adrift>>

\* Only who was at work loses its place.
GiveUp ==
    /\ working' = 0
    /\ adrift' \in {FALSE, adrift, working # 0}
    /\ UNCHANGED <<log, shown, applied, confirmed>>

\* The event may be confirmed along with it, if it is the next one to be.
Apply ==
    /\ working # 0 /\ working <= shown
    /\ working' = 0
    /\ applied' = applied \cup {working}
    /\ confirmed' \in {confirmed} \cup (IF adrift THEN {} ELSE {working} \cap {confirmed + 1})
    /\ adrift' \in {FALSE, adrift}
    /\ UNCHANGED <<log, shown>>

Confirm ==
    /\ working = 0 /\ ~adrift
    /\ confirmed' \in confirmed..log
    /\ 1..confirmed' \subseteq applied
    /\ UNCHANGED <<log, shown, working, applied, adrift>>

Next == Commit \/ Show \/ Begin \/ GiveUp \/ Apply \/ Confirm

Spec == Init /\ [][Next]_feedVars
=============================================================================
