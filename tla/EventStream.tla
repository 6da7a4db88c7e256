---------------------------- MODULE EventStream ----------------------------
(***************************************************************************)
(* The event log of a board and one SSE connection that follows it.  The   *)
(* events of the board are numbered in the order of their ids; the server  *)
(* keeps no memory of its clients, a client says after which event it      *)
(* wants to go on.                                                         *)
(***************************************************************************)
EXTENDS Integers, Sequences

CONSTANTS
    MaxEvents,      \* bound on the events of the log
    PageLimit       \* events of one page of list_events

ASSUME StreamAssumption == MaxEvents \in Nat /\ PageLimit \in Nat \ {0}

VARIABLES
    log,        \* number of events committed
    conn        \* the connection: the server's cursor and what it has yet to send

streamVars == <<log, conn>>

\* "dead": broken, and this end does not know.
NoConn == [pc |-> "none", cursor |-> 0, pending |-> <<>>]

Opened(after) == [pc |-> "open", cursor |-> after, pending |-> <<>>]

CommitEvent == log < MaxEvents /\ log' = log + 1 /\ UNCHANGED conn

\* Mutant: "id >= after".
Page_Inclusive(after) ==
    LET n == IF log - after < PageLimit THEN log - after ELSE PageLimit
    IN  [i \in 1..n |-> after + i - 1]

\* list_events: the first events after a cursor, in order.
Page(after) ==
    LET n == IF log - after < PageLimit THEN log - after ELSE PageLimit
    IN  [i \in 1..n |-> after + i]

\* Mutant: the cursor of a poll goes to the end of the log.
Polled_ToTheEnd(c) == [c EXCEPT !.pending = Page(c.cursor), !.cursor = log]

\* A poll takes a page and moves the cursor to its last event.
Polled(c) == [c EXCEPT !.pending = Page(c.cursor), !.cursor = @ + Len(Page(c.cursor))]

\* A poll that the heartbeat's deadline cancels has changed nothing.
PollLog ==
    /\ conn.pc = "open" /\ conn.pending = <<>> /\ conn.cursor < log
    /\ conn' = Polled(conn)
    /\ UNCHANGED log

\* next_frame: the oldest event that waits.
SendEvent ==
    /\ conn.pc = "open" /\ conn.pending # <<>>
    /\ conn' = [conn EXCEPT !.pending = Tail(@)]
    /\ UNCHANGED log

\* The body ends, by a failed poll, a shutdown or the network; what was queued
\* to be sent is lost.
Break ==
    /\ conn.pc = "open"
    /\ conn' = [conn EXCEPT !.pc = "dead", !.pending = <<>>]
    /\ UNCHANGED log

StreamTypeOK ==
    /\ log \in 0..MaxEvents
    /\ conn \in [pc : {"none", "open", "dead"}, cursor : 0..MaxEvents, pending : Seq(1..MaxEvents)]
=============================================================================
