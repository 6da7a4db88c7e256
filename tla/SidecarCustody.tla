--------------------------- MODULE SidecarCustody ---------------------------
(***************************************************************************)
(* What the desktop shell promises about the sidecars it starts, without   *)
(* threads, queues and signals: from its start on a sidecar is in the      *)
(* custody of one owner, the thread that started it, the handle of the     *)
(* host or the reaper; custody goes from a thread to one of the others and *)
(* is given up only for a sidecar that is gone; and the shell is left only *)
(* when there is none.                                                     *)
(***************************************************************************)
EXTENDS Integers

CONSTANT Sidecars

VARIABLES
    open,       \* the shell is there
    fresh,      \* the sidecars that may still be started
    alive,      \* those of which a process runs
    owner,      \* owner[c]: who has c
    pending     \* how many the reaper has

custodyVars == <<open, fresh, alive, owner, pending>>

Worker == {"worker"}
Handle == {"handle"}
Reaper == {"reaper"}
Nobodys == {}

Init ==
    /\ open = TRUE
    /\ fresh = Sidecars
    /\ alive = {}
    /\ owner = [c \in Sidecars |-> Nobodys]
    /\ pending = 0

Pass(c, to) == owner' = [owner EXCEPT ![c] = to]

\* Along with any other step processes may end, and a start may be forgone.
Others == alive' \subseteq alive /\ fresh' \subseteq fresh /\ UNCHANGED open

Start(c) ==
    /\ open /\ c \in fresh
    /\ fresh' \subseteq fresh \ {c}
    /\ alive' = alive \cup {c}
    /\ Pass(c, Worker)
    /\ UNCHANGED <<open, pending>>

\* There is one handle.
Keep(c) ==
    /\ owner[c] = Worker /\ \A d \in Sidecars : owner[d] # Handle
    /\ Pass(c, Handle)
    /\ Others /\ UNCHANGED pending

HandOver(c) ==
    /\ owner[c] = Worker
    /\ Pass(c, Reaper) /\ pending' = pending + 1
    /\ Others

GiveUp(c) ==
    /\ owner[c] # Nobodys
    /\ Pass(c, Nobodys) /\ c \notin alive'
    /\ pending' = IF owner[c] = Reaper THEN pending - 1 ELSE pending
    /\ Others

Ends == Others /\ UNCHANGED <<owner, pending>>

Leave ==
    /\ open /\ open' = FALSE
    /\ pending = 0 /\ \A c \in Sidecars : owner[c] = Nobodys
    /\ UNCHANGED <<fresh, alive, owner, pending>>

Next ==
    \/ Ends \/ Leave
    \/ \E c \in Sidecars : Start(c) \/ Keep(c) \/ HandOver(c) \/ GiveUp(c)

Spec == Init /\ [][Next]_custodyVars
=============================================================================
