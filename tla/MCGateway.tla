----------------------------- MODULE MCGateway ------------------------------
(***************************************************************************)
(* Instance of Gateway for TLC.  Connections are interchangeable in the    *)
(* specification and in every property, so they are numbered in the order  *)
(* in which they are accepted.                                             *)
(***************************************************************************)
EXTENDS Gateway

ThreeConns == 1..3

AcceptedInOrder ==
    \A c \in Conn : phase'[c] # "none" => \A d \in 1..(c - 1) : phase'[d] # "none"

OrderedSpec == Init /\ [][Next /\ AcceptedInOrder]_vars /\ Fairness
=============================================================================
