--------------------------- MODULE MCARSTPevents ---------------------------
(* Who sets which event, for TLC. *)
EXTENDS ARSTPevents, TLC

CONSTANTS a, b

FirstEvent == [t \in {a, b} |-> 0]
EachItsOwn == (a :> 0) @@ (b :> 1)
=============================================================================
