------------------------------- MODULE Intake --------------------------------
(***************************************************************************)
(* What the read path of an agent promises to the backend: frames are let  *)
(* in in the order in which they were read, each at most once and before   *)
(* the next one is read, never more than Places of them at a time, one     *)
(* that has been served is not started again, and once the intake is cut   *)
(* off, only the frame that has been read before may still be let in.      *)
(***************************************************************************)
EXTENDS Naturals, FiniteSets

CONSTANTS
    Last,     \* number of the last frame that the client can send
    Places    \* how many frames may be under way at a time

VARIABLES
    read,     \* number of frames that have been read
    running,  \* the frames under way
    served,   \* the frames whose goroutine has ended
    limit     \* frames with a higher number are not let in

vars == <<read, running, served, limit>>

Init ==
    /\ read = 0
    /\ running = {}
    /\ served = {}
    /\ limit = Last

\* The client's next frame arrives.
Read ==
    /\ read < Last
    /\ read' = read + 1
    /\ UNCHANGED <<running, served, limit>>

\* The frame that was read last is let in; a frame that is not, never will be.
Start ==
    /\ read \in 1..limit
    /\ read \notin running \cup served
    /\ Cardinality(running) < Places
    /\ running' = running \cup {read}
    /\ UNCHANGED <<read, served, limit>>

\* A frame has been dealt with, however that went.
Finish(f) ==
    /\ f \in running
    /\ running' = running \ {f}
    /\ served' = served \cup {f}
    /\ UNCHANGED <<read, limit>>

\* From now on nothing that is read is let in; this is never taken back.
CutOff ==
    /\ read <= limit
    /\ limit' = read
    /\ UNCHANGED <<read, running, served>>

Next ==
    \/ Read
    \/ Start
    \/ \E f \in 1..Last : Finish(f)
    \/ CutOff

Spec == Init /\ [][Next]_vars
=============================================================================
