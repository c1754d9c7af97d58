------------------------- MODULE MCARSTSetTickNumber -------------------------
(* An instance of ARSTSetTickNumber for TLC.                               *)
EXTENDS ARSTSetTickNumber

Hosts == {"tm0-hq", "tm0-ir", "elsewhere"}

(* Days whose digits are alike.                                           *)
Days == <<<<1, 1>>, <<1, 11>>, <<11, 1>>>>
=============================================================================
