--------------------------- MODULE MCARSTWebConns ---------------------------
(* Instances of ARSTWebConns for TLC.                                      *)
EXTENDS ARSTWebConns, TLC

OneName == <<"BITMEX">>
TwoNames == <<"BITMEX", "BITMEXFUND">>

(* An object is like any other until main constructs it.                  *)
ObjectSymmetry == Permutations(Servers)
=============================================================================
