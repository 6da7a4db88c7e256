---------------------------- MODULE FencedQueue ----------------------------
(***************************************************************************)
(* What the projection queue promises, whatever it stores: a job that is   *)
(* being worked on has at most one holder whose result counts, a result is *)
(* recorded by that holder only, and putting a job back or handing it to   *)
(* another worker takes it from the holder it had.                         *)
(***************************************************************************)
CONSTANTS Hosts, Jobs, NULL

VARIABLES
    phase,      \* phase[j]: "none", "queued", "leased" or "done"
    holder      \* holder[j]: the host whose result for j counts, or NULL

fvars == <<phase, holder>>

Init ==
    /\ phase = [j \in Jobs |-> "none"]
    /\ holder = [j \in Jobs |-> NULL]

\* A job is asked for (again), or asked for while somebody works on it: then
\* it may stay with its holder.
Put(j) ==
    /\ phase' = [phase EXCEPT ![j] = "queued"]
    /\ holder' = [holder EXCEPT ![j] = NULL]

\* Jobs nobody answered for are put back, and h takes one: a queued job, or
\* one that was leased for too long.
Take(h, j, abandoned) ==
    /\ phase[j] \in {"queued", "leased"}
    /\ j \notin abandoned
    /\ \A k \in abandoned : phase[k] = "leased"
    /\ \A k \in Jobs : holder[k] # h
    /\ phase' = [k \in Jobs |-> IF k = j THEN "leased"
                               ELSE IF k \in abandoned THEN "queued" ELSE phase[k]]
    /\ holder' = [k \in Jobs |-> IF k = j THEN h
                                ELSE IF k \in abandoned THEN NULL ELSE holder[k]]

\* Jobs nobody answered for are put back, and there is nothing to take.
PutBack(abandoned) ==
    /\ \A k \in abandoned : phase[k] = "leased"
    /\ phase' = [k \in Jobs |-> IF k \in abandoned THEN "queued" ELSE phase[k]]
    /\ holder' = [k \in Jobs |-> IF k \in abandoned THEN NULL ELSE holder[k]]

\* The holder records what came of the job.
Answer(h, j) ==
    /\ holder[j] = h
    /\ phase' \in {[phase EXCEPT ![j] = "done"], [phase EXCEPT ![j] = "queued"]}
    /\ holder' = [holder EXCEPT ![j] = NULL]

\* The holder is gone; the job stays leased until its lease runs out.
Lose(j) ==
    /\ phase[j] = "leased"
    /\ holder' = [holder EXCEPT ![j] = NULL]
    /\ UNCHANGED phase

\* A job that is done is forgotten.
Forget(j) ==
    /\ phase[j] = "done"
    /\ phase' = [phase EXCEPT ![j] = "none"]
    /\ UNCHANGED holder

Next ==
    \/ \E j \in Jobs : Put(j) \/ Lose(j) \/ Forget(j)
    \/ \E abandoned \in SUBSET Jobs : PutBack(abandoned)
    \/ \E h \in Hosts, j \in Jobs : Answer(h, j)
    \/ \E h \in Hosts, j \in Jobs, abandoned \in SUBSET Jobs : Take(h, j, abandoned)

Spec == Init /\ [][Next]_fvars
=============================================================================
