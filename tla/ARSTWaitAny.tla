----------------------------- MODULE ARSTWaitAny -----------------------------
(***************************************************************************)
(* What auto-reset events promise a thread that waits for any of them: an  *)
(* event that is set stays set until one wait takes it, a wait takes at    *)
(* most one event, and reports the one it took.                            *)
(***************************************************************************)
EXTENDS Integers

CONSTANTS Event, NoEvent

VARIABLES
  State,      (* the events that are set and not taken                     *)
  waiting,    (* a wait is under way                                       *)
  taken,      (* the event it has taken, NoEvent if none yet               *)
  waitIndex   (* what the last wait reported                               *)

vars == <<State, waiting, taken, waitIndex>>

Init ==
  /\ State = [e \in Event |-> FALSE]
  /\ waiting = FALSE
  /\ taken = NoEvent
  /\ waitIndex = NoEvent

Set(e) ==
  /\ State' = [State EXCEPT ![e] = TRUE]
  /\ UNCHANGED <<waiting, taken, waitIndex>>

Wait ==
  /\ ~waiting
  /\ waiting' = TRUE
  /\ UNCHANGED <<State, taken, waitIndex>>

Take(e) ==
  /\ waiting
  /\ taken = NoEvent
  /\ State[e]
  /\ State' = [State EXCEPT ![e] = FALSE]
  /\ taken' = e
  /\ UNCHANGED <<waiting, waitIndex>>

(* The wait ends, with an event or without.                               *)
Return ==
  /\ waiting
  /\ waiting' = FALSE
  /\ waitIndex' = taken
  /\ taken' = NoEvent
  /\ UNCHANGED State

Next == Wait \/ Return \/ \E e \in Event : Set(e) \/ Take(e)

Spec == Init /\ [][Next]_vars
=============================================================================
