---------------------------- MODULE DesktopHost ----------------------------
(***************************************************************************)
(* The desktop shell: attempts to attach to a host or to start a sidecar   *)
(* run on bootstrap threads, fenced by a generation; closing the window    *)
(* cancels them, quitting closes the fence for good and lets a cleanup     *)
(* thread settle whatever is left before the process may go.               *)
(*                                                                         *)
(* The registration gate is held by the main thread from the registration  *)
(* of a worker to its installation; pending_worker and installing_worker   *)
(* are set only in between, and everybody who reads them has waited for    *)
(* the gate, so that they are not modelled.                                *)
(***************************************************************************)
EXTENDS SidecarReaper

VARIABLES
    app,        \* "running" or "exited"
    ui,         \* the main thread and the worker it is starting
    fence,      \* GenerationFence: the current attempt, is it in flight, closed
    worker,     \* worker[w]: a bootstrap thread
    slot,       \* DesktopHost.worker
    handle,     \* DesktopHost.handle
    quit        \* the exit: its thread (exit_in_progress), exit_ready, the event

desktopVars == <<app, ui, fence, worker, slot, handle, quit>>
vars == <<desktopVars, reaperVars>>

Kinds == {"probe", "start"}

NoHandle == [kind |-> "none", child |-> Nobody, asked |-> FALSE, late |-> FALSE, forced |-> FALSE]
External == [NoHandle EXCEPT !.kind = "external"]
Owned(c) == [NoHandle EXCEPT !.kind = "owned", !.child = c]

NoWorker == [pc |-> "none", kind |-> "start", cancel |-> FALSE, result |-> "failed"]

Init ==
    /\ ReaperInit
    /\ app = "running"
    /\ ui = [pc |-> "idle", new |-> Nobody, kind |-> "start"]
    /\ fence = [current |-> Nobody, inFlight |-> FALSE, closed |-> FALSE]
    /\ worker = [w \in Workers |-> NoWorker]
    /\ slot = Nobody
    /\ handle = NoHandle
    /\ quit = [pc |-> "none", ready |-> FALSE, event |-> FALSE]

Finished(w) == w = Nobody \/ worker[w].pc = "done"
GateIsFree == ui.pc # "install"
Current(w) == fence.current = w /\ ~fence.closed

\* cancel_workers.
Cancelled(w) == IF w = Nobody THEN worker ELSE [worker EXCEPT ![w].cancel = TRUE]

Closed == [current |-> Nobody, inFlight |-> FALSE, closed |-> TRUE]

(***************************************************************************)
(* The main thread.                                                        *)
(***************************************************************************)

\* begin: not while there is a handle, another attempt, or after the close.
Begin(w, kind) ==
    /\ ui.pc = "idle" /\ worker[w].pc = "none"
    /\ handle = NoHandle /\ ~fence.inFlight /\ ~fence.closed
    /\ fence' = [fence EXCEPT !.current = w, !.inFlight = TRUE]
    /\ ui' = [pc |-> "begun", new |-> w, kind |-> kind]
    /\ slot' = IF Finished(slot) THEN Nobody ELSE slot
    /\ UNCHANGED <<app, worker, handle, quit, reaperVars>>

\* The fence may have been closed before the gate was taken; the thread may
\* fail to start.
Register ==
    LET w == ui.new IN
    /\ ui.pc = "begun"
    /\ \/ /\ Current(w)
          /\ ui' = [ui EXCEPT !.pc = "install"]
          /\ worker' = [worker EXCEPT ![w] = [NoWorker EXCEPT !.pc = "probe", !.kind = ui.kind]]
          /\ UNCHANGED <<fence, faults>>
       \/ /\ ~Current(w)
          /\ ui' = [ui EXCEPT !.pc = "idle"]
          /\ worker' = [Cancelled(slot) EXCEPT ![w].pc = "done"]
          /\ UNCHANGED <<fence, faults>>
       \/ /\ Current(w) /\ Fault
          /\ ui' = [ui EXCEPT !.pc = "idle"]
          /\ fence' = [fence EXCEPT !.inFlight = FALSE]
          /\ worker' = [worker EXCEPT ![w].pc = "done"]
    /\ UNCHANGED <<app, slot, handle, quit, proc, queue, registry, service, mover, unsettled>>

\* install_worker: the worker that was in the slot is dropped, which cancels
\* it and waits for its end, with the gate held.
Install ==
    /\ ui.pc = "install"
    /\ IF Finished(slot)
       THEN /\ slot' = ui.new
            /\ ui' = [ui EXCEPT !.pc = "idle"]
            /\ UNCHANGED worker
       ELSE /\ ~worker[slot].cancel
            /\ worker' = Cancelled(slot)
            /\ UNCHANGED <<slot, ui>>
    /\ UNCHANGED <<app, fence, handle, quit, reaperVars>>

\* cancel_in_flight: the window is closed to the tray.
CloseWindow ==
    /\ ui.pc = "idle"
    /\ fence' = IF fence.inFlight
                THEN [fence EXCEPT !.current = Nobody, !.inFlight = FALSE] ELSE fence
    /\ worker' = Cancelled(slot)
    /\ UNCHANGED <<app, ui, slot, handle, quit, reaperVars>>

(***************************************************************************)
(* A bootstrap thread: connect_or_spawn_with_cancel and what follows.      *)
(***************************************************************************)
Goto(w, pc) == worker' = [worker EXCEPT ![w].pc = pc]
Conclude(w, result) == worker' = [worker EXCEPT ![w].pc = "finish", ![w].result = result]

Rests == <<app, ui, fence, slot, handle, quit>>

\* What answers on the port is a compatible host, another one, or nothing.
Probe(w) ==
    /\ worker[w].pc = "probe"
    /\ \/ worker[w].cancel /\ Goto(w, "done")
       \/ ~worker[w].cancel /\ Conclude(w, "external")
       \/ ~worker[w].cancel /\ Conclude(w, "failed")
       \/ ~worker[w].cancel /\ worker[w].kind = "start" /\ Goto(w, "spawn")
    /\ UNCHANGED <<Rests, reaperVars>>

\* spawn_sidecar: first the reaper, then the process.
Spawn(w) ==
    /\ worker[w].pc = "spawn"
    /\ \/ worker[w].cancel /\ Goto(w, "done") /\ UNCHANGED <<proc, registry, service>>
       \/ ~worker[w].cancel /\ Conclude(w, "failed") /\ UNCHANGED <<proc, registry, service>>
       \/ /\ ~worker[w].cancel
          /\ IF registry = 0 THEN \E s \in Services : NewService(s)
             ELSE UNCHANGED <<registry, service>>
          /\ proc' = [proc EXCEPT ![w] = Started]
          /\ Goto(w, "wait")
    /\ UNCHANGED <<Rests, queue, mover, unsettled, faults>>

\* wait_for_sidecar: until a compatible host answers, the sidecar is gone, the
\* time is up, or the attempt is cancelled.
Wait(w) ==
    /\ worker[w].pc = "wait"
    /\ \/ ~worker[w].cancel /\ Conclude(w, "owned")
       \/ Goto(w, "undo")
    /\ UNCHANGED <<Rests, reaperVars>>

\* The start failed: what is not gone at once goes to the reaper.
Undo(w) ==
    /\ worker[w].pc = "undo"
    /\ ForceStop(w)
    /\ IF Settled(w)
       THEN Conclude(w, "failed") /\ UNCHANGED <<queue, registry, service, mover, unsettled>>
       ELSE Goto(w, "over") /\ HandOver(w)
    /\ UNCHANGED Rests

\* handoff_to_reaper returns.
Over(w) ==
    /\ worker[w].pc \in {"over", "dropped"} /\ mover[w].pc = "off"
    /\ IF worker[w].pc = "over" THEN Conclude(w, "failed") ELSE Goto(w, "done")
    /\ UNCHANGED <<Rests, reaperVars>>

\* Mutant: an attempt that was superseded still delivers its host.
Accepts_Superseded(w) == ~fence.closed

\* GenerationFence::finish.
Accepts(w) == Current(w) /\ fence.inFlight

\* The cancel flag that is looked at before says nothing more: whoever sets it
\* has moved the fence on.
Finish(w) ==
    /\ worker[w].pc = "finish"
    /\ LET r == worker[w].result IN
       IF Accepts(w)
       THEN /\ fence' = [fence EXCEPT !.inFlight = FALSE]
            /\ handle' = IF worker[w].kind = "probe" \/ r = "failed" THEN handle
                           ELSE IF r = "external" THEN External ELSE Owned(w)
            /\ Goto(w, IF r = "failed" THEN "done" ELSE "navigate")
       ELSE /\ Goto(w, IF r = "owned" THEN "drop" ELSE "done")
            /\ UNCHANGED <<fence, handle>>
    /\ UNCHANGED <<app, ui, slot, quit, reaperVars>>

\* Drop for HostHandle: always by way of the reaper.
Drop(w) ==
    /\ worker[w].pc = "drop"
    /\ ForceStop(w)
    /\ HandOver(w)
    /\ Goto(w, "dropped")
    /\ UNCHANGED Rests

\* claim_navigation and navigate_to_fixed_app.
Navigate(w) ==
    /\ worker[w].pc = "navigate"
    /\ \/ Goto(w, "done") /\ UNCHANGED faults
       \/ Current(w) /\ Fault /\ Goto(w, "abort")
    /\ UNCHANGED <<Rests, proc, queue, registry, service, mover, unsettled>>

\* abort_after_navigation_failure: close, then HostHandle::shutdown, which
\* asks, waits for two seconds at most and then forces.
Abort(w) ==
    /\ worker[w].pc = "abort" /\ GateIsFree
    /\ fence' = Closed
    /\ IF handle.kind = "owned"
       THEN /\ proc' = [proc EXCEPT ![handle.child].asked = TRUE]
            /\ Goto(w, "stop")
            /\ UNCHANGED handle
       ELSE Goto(w, "done") /\ handle' = NoHandle /\ UNCHANGED proc
    /\ UNCHANGED <<app, ui, slot, quit, queue, registry, service, mover, unsettled, faults>>

Stop(w) ==
    /\ worker[w].pc = "stop"
    /\ ForceStop(handle.child)
    /\ handle' = IF Settled(handle.child) THEN NoHandle ELSE handle
    /\ Goto(w, "done")
    /\ UNCHANGED <<app, ui, fence, slot, quit, queue, registry, service, mover, unsettled>>

WorkerStep(w) ==
    \/ Probe(w) \/ Spawn(w) \/ Wait(w) \/ Undo(w) \/ Over(w)
    \/ Finish(w) \/ Drop(w) \/ Navigate(w) \/ Abort(w) \/ Stop(w)

(***************************************************************************)
(* The exit.                                                               *)
(***************************************************************************)

\* request_exit: the first one after a clean-up may go, the others start one
\* unless there is one: close, cancel_workers, and a thread, if it starts.
Ask(goes, event) ==
    IF quit.ready
    THEN goes /\ UNCHANGED <<fence, worker, faults>>
    ELSE /\ UNCHANGED app
         /\ IF quit.pc # "none"
            THEN quit' = [quit EXCEPT !.event = event] /\ UNCHANGED <<fence, worker, faults>>
            ELSE /\ fence' = Closed
                 /\ worker' = Cancelled(slot)
                 /\ \/ quit' = [quit EXCEPT !.event = event, !.pc = "workers"]
                       /\ UNCHANGED faults
                    \/ quit' = [quit EXCEPT !.event = event] /\ Fault

\* The tray's menu, or the end of the window.
RequestExit ==
    /\ ui.pc = "idle"
    /\ Ask(quit' = [quit EXCEPT !.ready = FALSE, !.event = TRUE] /\ UNCHANGED app, quit.event)
    /\ UNCHANGED <<ui, slot, handle, proc, queue, registry, service, mover, unsettled>>

\* RunEvent::ExitRequested: only here the process ends.
ExitRequested ==
    /\ quit.event /\ ui.pc = "idle"
    /\ Ask(app' = "exited" /\ quit' = [quit EXCEPT !.ready = FALSE, !.event = FALSE], FALSE)
    /\ UNCHANGED <<ui, slot, handle, proc, queue, registry, service, mover, unsettled>>

\* Another attempt after 25 ms, or the end of the 120.
Again == \E pc \in {"workers", "none"} : quit' = [quit EXCEPT !.pc = pc]

\* shutdown_for_exit_attempt: what it closes and cancels first is closed and
\* cancelled since request_exit.
LookAtWorkers ==
    /\ quit.pc = "workers"
    /\ IF Finished(slot)
       THEN slot' = Nobody /\ quit' = [quit EXCEPT !.pc = "reaper"]
       ELSE Again /\ UNCHANGED slot
    /\ UNCHANGED <<app, ui, fence, worker, handle, reaperVars>>

\* Mutant: what the reaper still has is not asked for.
AllSettled_Unseen == TRUE

AllSettled == unsettled = 0

LookAtReaper ==
    /\ quit.pc = "reaper"
    /\ IF AllSettled THEN quit' = [quit EXCEPT !.pc = "host"] ELSE Again
    /\ UNCHANGED <<app, ui, fence, worker, slot, handle, reaperVars>>

\* exit_ready, not exit_in_progress, and the event.
Leave ==
    /\ quit' = [pc |-> "none", ready |-> TRUE, event |-> TRUE]
    /\ handle' = NoHandle

\* force_stop on the way out; it is repeated until everybody is gone.
ForceOut(h) ==
    /\ ForceStop(h.child)
    /\ IF Settled(h.child) THEN Leave
       ELSE Again /\ handle' = [h EXCEPT !.forced = TRUE]

Asked(h) ==
    /\ proc' = [proc EXCEPT ![h.child].asked = TRUE]
    /\ handle' = [h EXCEPT !.asked = TRUE]
    /\ Again
    /\ UNCHANGED faults

\* Mutant: a sidecar that does not listen is asked for ever.
OutOfPatience_Never(h) == FALSE

OutOfPatience(h) == h.asked /\ h.late

\* shutdown_nonblocking: a sidecar whose leader is gone, or that was forced
\* before or asked two seconds ago, is killed; else it is asked, once, and
\* killed at once when that fails.
ShutDown ==
    /\ quit.pc = "host"
    /\ \/ handle.kind # "owned" /\ Leave /\ UNCHANGED <<proc, faults>>
       \/ /\ handle.kind = "owned"
          /\ IF \/ "leader" \notin proc[handle.child].up
                \/ handle.forced \/ OutOfPatience(handle)
             THEN ForceOut(handle)
             ELSE IF handle.asked
             THEN Again /\ UNCHANGED <<handle, proc, faults>>
             ELSE Asked(handle) \/ ForceOut(handle)
    /\ UNCHANGED <<app, ui, fence, worker, slot, queue, registry, service, mover, unsettled>>

\* GRACEFUL_SHUTDOWN_TIMEOUT passes.
TimePasses ==
    /\ handle.asked /\ ~handle.late
    /\ handle' = [handle EXCEPT !.late = TRUE]
    /\ UNCHANGED <<app, ui, fence, worker, slot, quit, reaperVars>>

Exit == LookAtWorkers \/ LookAtReaper \/ ShutDown

Running == app = "running"

Next ==
    \/ /\ Running
       /\ \/ \E w \in Workers, kind \in Kinds : Begin(w, kind)
          \/ Register \/ Install \/ CloseWindow
          \/ \E w \in Workers : WorkerStep(w)
          \/ RequestExit \/ ExitRequested \/ Exit \/ TimePasses
          \/ (ReaperStep \/ \E s \in Services : Dies(s)) /\ UNCHANGED desktopVars
    \/ \E c \in Workers : Exits(c) /\ UNCHANGED desktopVars

\* Threads go on, killed processes end, time passes, and whoever wants to quit
\* says so until it happens, but not each time between the end of a clean-up
\* and the event it posted.
Fairness ==
    /\ WF_vars(Running /\ (Register \/ Install))
    /\ \A w \in Workers :
        /\ WF_vars(Running /\ WorkerStep(w))
        /\ WF_vars(proc[w].killed /\ Exits(w) /\ UNCHANGED desktopVars)
    /\ WF_vars(Running /\ Exit)
    /\ WF_vars(Running /\ TimePasses)
    /\ WF_vars(Running /\ RequestExit)
    /\ WF_vars(Running /\ ExitRequested)
    /\ SF_vars(Running /\ quit.ready /\ ExitRequested)
    /\ \A t \in Movers : WF_vars(Running /\ (AskService(t) \/ Pop(t) \/ Send(t))
                                 /\ UNCHANGED desktopVars)
    /\ \A s \in Services, c \in Workers : WF_vars(Running /\ Reap(s, c) /\ UNCHANGED desktopVars)

Spec == Init /\ [][Next]_vars /\ Fairness

(***************************************************************************)
(* Properties.                                                             *)
(***************************************************************************)
\* The desktop process leaves no sidecar behind: it ends only when no process
\* of a group it started is left, whatever attempt was cancelled, whichever
\* thread handed the sidecar over, and even if the reaper died holding it.
NoOrphan == app = "exited" => \A c \in Workers : Gone(c)

\* The threads and places that own a sidecar.
Keepers(c) ==
    {<<"worker", w>> : w \in {v \in {c} : worker[v].pc \in {"wait", "undo", "drop"}
                                     \/ (worker[v].pc = "finish" /\ worker[v].result = "owned")}}
    \cup {<<"handle", x>> : x \in {y \in {c} : handle.child = y}}
    \cup {<<"queue", x>> : x \in queue \cap {c}}
    \cup {<<"mover", t>> : t \in {u \in Movers : mover[u].hand = c}}
    \cup {<<"service", s>> : s \in {r \in Services : c \in service[r].holds}}

\* Every sidecar that is not gone is owned by exactly one thread, slot or
\* queue, from its start to its end: nobody stops it twice, and it is not
\* forgotten on the way from one owner to the next.  The counter the exit waits
\* for counts just those on the reaper's side; the ones a reaper thread held
\* when it ended stay counted, so that the process then does not end.
OneKeeper ==
    /\ \A c \in Workers : ~Gone(c) => Cardinality(Keepers(c)) = 1
    /\ unsettled = Cardinality({c \in Workers :
                       \E k \in Keepers(c) : k[1] \in {"queue", "mover", "service"}})

Role(k) == IF k[1] \in {"worker", "handle"} THEN k[1] ELSE "reaper"

Custody == INSTANCE SidecarCustody WITH
               Sidecars <- Workers,
               open <- Running,
               fresh <- {c \in Workers : worker[c].pc \in {"none", "probe", "spawn"}},
               alive <- {c \in Workers : ~Gone(c)},
               owner <- [c \in Workers |-> {Role(k) : k \in Keepers(c)}],
               pending <- unsettled

\* Seen from outside the shell keeps custody: a sidecar goes from its thread to
\* the handle or to the reaper and no way back, nobody lets go of one of which
\* a process runs, a host in the handle is not replaced by another, and the
\* shell is left only when it has none.
ImplementsCustody == Custody!Spec

\* A worker whose navigation failed waits for the gate of the main thread,
\* which waits for that worker to end.
Jammed == ui.pc = "install" /\ slot # Nobody /\ worker[slot].pc = "abort"

\* Whoever wants to quit can: unless a reaper died or the threads are jammed,
\* the process ends, whatever state the attempts are in.
QuitEnds ==
    <>(app = "exited" \/ Jammed \/ \E s \in Services : service[s].state = "ended")
=============================================================================
