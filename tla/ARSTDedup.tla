------------------------------ MODULE ARSTDedup ------------------------------
(***************************************************************************)
(* What the queue reader promises the clients about repeated quotes: a     *)
(* line is sent exactly if its key is none of the last `remembered` keys   *)
(* sent.  Every key sent is remembered, and when the oldest are forgotten, *)
(* Window keys are left.                                                   *)
(***************************************************************************)
EXTENDS Integers, Sequences

CONSTANTS Key, Window

VARIABLES
  published,   (* the keys sent, in order                                  *)
  remembered,  (* how many of the last ones are remembered                 *)
  last         (* the key of the last line, and whether it was sent        *)

vars == <<published, remembered, last>>

(* The keys at the last n places of q.                                    *)
LastKeys(q, n) == {q[k] : k \in {x \in 1..Len(q) : x > Len(q) - n}}

Init ==
  /\ published = <<>>
  /\ remembered = 0
  /\ last = <<>>

Send(key) ==
  /\ key \notin LastKeys(published, remembered)
  /\ published' = Append(published, key)
  /\ remembered' = remembered + 1
  /\ last' = <<key, TRUE>>

Repeat(key) ==
  /\ key \in LastKeys(published, remembered)
  /\ remembered' = remembered \/ remembered' \in Window..remembered
  /\ last' = <<key, FALSE>>
  /\ UNCHANGED published

Next == \E key \in Key : Send(key) \/ Repeat(key)

Spec == Init /\ [][Next]_vars
=============================================================================
