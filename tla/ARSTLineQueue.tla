---------------------------- MODULE ARSTLineQueue ----------------------------
(***************************************************************************)
(* What the queues between the upstream readers and the queue readers      *)
(* promise, without the buffer the lines go through: a line is put into    *)
(* its queue once or lost, what is in a queue is taken in order, and a     *)
(* line that nobody else wrote over is put as it was given.                *)
(***************************************************************************)
EXTENDS Integers, Sequences

CONSTANTS
  Sender,  (* threads that put lines into queues                           *)
  Dao,     (* queues, each with the thread that takes from it              *)
  Line

VARIABLES
  stage,       (* of each sender: "idle", "writing" or "handed" over       *)
  line,        (* the line it has, or had last                             *)
  to,          (* the queue it is for                                      *)
  overlapped,  (* senders whose line another one may have written over     *)
  whole,       (* FALSE where the line handed over is not what was given   *)
  queue,
  received     (* what was last taken from each queue                      *)

vars == <<stage, line, to, overlapped, whole, queue, received>>

Init ==
  /\ stage = [s \in Sender |-> "idle"]
  /\ line \in [Sender -> Line]
  /\ to \in [Sender -> Dao]
  /\ overlapped = {}
  /\ whole = [s \in Sender |-> TRUE]
  /\ queue = [d \in Dao |-> <<>>]
  /\ received \in [Dao -> [line : Line, whole : {TRUE}]]

Give(s, l, d) ==
  LET others == {t \in Sender : stage[t] = "writing" /\ to[t] = d} IN
  /\ stage[s] = "idle"
  /\ stage' = [stage EXCEPT ![s] = "writing"]
  /\ line' = [line EXCEPT ![s] = l]
  /\ to' = [to EXCEPT ![s] = d]
  /\ overlapped' = IF others = {} THEN overlapped \ {s} ELSE overlapped \cup others \cup {s}
  /\ UNCHANGED <<whole, queue, received>>

HandOver(s) ==
  /\ stage[s] = "writing"
  /\ stage' = [stage EXCEPT ![s] = "handed"]
  /\ \/ UNCHANGED whole
     \/ s \in overlapped /\ whole' = [whole EXCEPT ![s] = FALSE]
  /\ UNCHANGED <<line, to, overlapped, queue, received>>

Returns(s) ==
  /\ stage[s] = "handed"
  /\ stage' = [stage EXCEPT ![s] = "idle"]
  /\ whole' = [whole EXCEPT ![s] = TRUE]
  /\ UNCHANGED <<line, to, overlapped, received>>

Put(s) ==
  /\ Returns(s)
  /\ queue' = [queue EXCEPT ![to[s]] = Append(@, [line |-> line[s], whole |-> whole[s]])]

Lose(s) == Returns(s) /\ UNCHANGED queue

Take(d) ==
  /\ queue[d] # <<>>
  /\ queue' = [queue EXCEPT ![d] = Tail(@)]
  /\ received' = [received EXCEPT ![d] = Head(queue[d])]
  /\ UNCHANGED <<stage, line, to, overlapped, whole>>

(* A queue is removed, with all that is in it.                            *)
Remove(d) ==
  /\ queue' = [queue EXCEPT ![d] = <<>>]
  /\ UNCHANGED <<stage, line, to, overlapped, whole, received>>

Next ==
  \/ \E s \in Sender : \/ \E l \in Line, d \in Dao : Give(s, l, d)
                       \/ HandOver(s)
                       \/ Put(s)
                       \/ Lose(s)
  \/ \E d \in Dao : Take(d) \/ Remove(d)

Spec == Init /\ [][Next]_vars
=============================================================================
