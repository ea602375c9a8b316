------------------------------- MODULE Stream -------------------------------
(***************************************************************************)
(* What the write path of an agent promises to the goroutines that push    *)
(* messages to a client: messages are accepted one at a time into a log,   *)
(* the client receives the log in order, without loss or repetition, and   *)
(* when the connection breaks what it has received is a prefix of the log. *)
(***************************************************************************)
EXTENDS Naturals, Sequences

CONSTANT Message

VARIABLES
    log,      \* the messages accepted so far, oldest first
    wire,     \* the messages handed to the connection so far
    broken    \* the stream has stopped for good

vars == <<log, wire, broken>>

Accepted == {log[i] : i \in 1..Len(log)}

Init ==
    /\ log = <<>>
    /\ wire = <<>>
    /\ broken = FALSE

\* A message is accepted at most once.  A broken stream still accepts: the
\* caller is not told that nobody will read.
Accept(m) ==
    /\ m \notin Accepted
    /\ log' = Append(log, m)
    /\ UNCHANGED <<wire, broken>>

\* The connection takes the next messages of the log, at least one.
Deliver(n) ==
    /\ ~broken
    /\ Len(wire) < n
    /\ wire' = SubSeq(log, 1, n)
    /\ UNCHANGED <<log, broken>>

\* The stream stops; the last write may have been taken in part.
Break(n) ==
    /\ ~broken
    /\ broken' = TRUE
    /\ Len(wire) <= n
    /\ wire' = SubSeq(log, 1, n)
    /\ UNCHANGED log

Next ==
    \/ \E m \in Message : Accept(m)
    \/ \E n \in 1..Len(log) : Deliver(n)
    \/ \E n \in 0..Len(log) : Break(n)

Spec == Init /\ [][Next]_vars

\* Every accepted message is delivered unless the stream breaks: the liveness
\* half of the promise, stated without ENABLED so that it can be checked under
\* a refinement mapping.
Delivery ==
    \A m \in Message :
        m \in Accepted ~> broken \/ m \in {wire[i] : i \in 1..Len(wire)}
=============================================================================
