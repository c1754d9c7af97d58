-------------------------- MODULE MCARSTHeartbeat --------------------------
(* Two threads that may report a reply, for TLC. *)
EXTENDS ARSTHeartbeat

CONSTANTS a, b

FirstEvent == [t \in {a, b} |-> 0]
=============================================================================
