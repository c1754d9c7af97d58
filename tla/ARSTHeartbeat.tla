---------------------------- MODULE ARSTHeartbeat ----------------------------
(***************************************************************************)
(* The heartbeat thread, ARSTHeartbeat::Run, on the events of ARSTPevents: *)
(* event 0 is the reply event, set by the callers of TriggerGetReplyEvent. *)
(* Event 1 would terminate the thread; it is set by the destructor only,   *)
(* and no heartbeat that runs is ever destroyed.                           *)
(***************************************************************************)
EXTENDS ARSTPevents

CONSTANTS
  m_nTimeInterval,  (* seconds                                             *)
  IDLE_INCREMENT,   (* seconds of one wait, WAIT_INTERVAL_MS               *)
  EXTRA_GRACE       (* seconds                                             *)

ASSUME HeartbeatAssumption ==
  /\ m_nTimeInterval \in Nat
  /\ IDLE_INCREMENT \in Nat \ {0}
  /\ EXTRA_GRACE \in Nat
  /\ Count = 2
  /\ \A t \in Setters : Target[t] = 0
  /\ Bounded = {TRUE}

VARIABLES
  m_nIdleTime,
  requests     (* history: calls of OnHeartbeatRequest since the last reply *)

heartbeatVars == <<vars, m_nIdleTime, requests>>

HeartbeatTypeOK ==
  /\ TypeOK
  /\ m_nIdleTime \in 0..(m_nTimeInterval + EXTRA_GRACE + IDLE_INCREMENT)
  /\ requests \in Nat

HeartbeatInit ==
  /\ Init
  /\ m_nIdleTime = 0
  /\ requests = 0

-----------------------------------------------------------------------------
Returned(r) == waiter = "returned" /\ result = r

(* The caller's part of waiter: what Run does next.                       *)
Then(place) ==
  /\ waiter' = place
  /\ UNCHANGED <<eventVars, wfmoVars, wfmo, i, result, waitIndex, bounded, setter>>

(* m_nIdleTime after one more wait in which nothing happened.             *)
Idle == m_nIdleTime + IDLE_INCREMENT

(* Mutant: the time waited is not added up.                               *)
KeepWaitingForgets ==
  /\ Returned("WAIT_TIMEOUT")
  /\ Idle < m_nTimeInterval
  /\ Then("idle")
  /\ UNCHANGED <<m_nIdleTime, requests>>

KeepWaiting ==
  /\ Returned("WAIT_TIMEOUT")
  /\ Idle < m_nTimeInterval
  /\ m_nIdleTime' = Idle
  /\ Then("idle")
  /\ UNCHANGED requests

(* Mutant: no grace after the interval.                                   *)
OnHeartbeatLostAtOnce ==
  /\ Returned("WAIT_TIMEOUT")
  /\ Idle > m_nTimeInterval
  /\ m_nIdleTime' = Idle
  /\ Then("done")
  /\ UNCHANGED requests

(* The callback asks the peer for a sign of life.                         *)
OnHeartbeatRequest ==
  /\ Returned("WAIT_TIMEOUT")
  /\ Idle \in m_nTimeInterval..(m_nTimeInterval + EXTRA_GRACE)
  /\ m_nIdleTime' = Idle
  /\ requests' = requests + 1
  /\ Then("idle")

(* Mutant: the thread goes on after the loss.                             *)
OnHeartbeatLostGoesOn ==
  /\ Returned("WAIT_TIMEOUT")
  /\ Idle > m_nTimeInterval + EXTRA_GRACE
  /\ m_nIdleTime' = Idle
  /\ Then("idle")
  /\ UNCHANGED requests

(* The callback is told of the loss and the thread ends.                  *)
OnHeartbeatLost ==
  /\ Returned("WAIT_TIMEOUT")
  /\ Idle > m_nTimeInterval + EXTRA_GRACE
  /\ m_nIdleTime' = Idle
  /\ Then("done")
  /\ UNCHANGED requests

Reply ==
  /\ Returned("0")
  /\ waitIndex = 0
  /\ m_nIdleTime' = 0
  /\ requests' = 0
  /\ Then("idle")

RunStep ==
  \/ KeepWaiting
  \/ OnHeartbeatRequest
  \/ OnHeartbeatLost
  \/ Reply

(* A step of the events below the heartbeat.                              *)
Quietly(step) == step /\ UNCHANGED <<m_nIdleTime, requests>>

HeartbeatNext ==
  \/ Quietly(EventsNext)
  \/ RunStep

HeartbeatSpec == HeartbeatInit /\ [][HeartbeatNext]_heartbeatVars

(* As in ARSTPevents.                                                     *)
HeartbeatFairSpec ==
  /\ HeartbeatSpec
  /\ WF_heartbeatVars(RunStep \/ Quietly(WaitStep))
  /\ SF_heartbeatVars(Quietly(TimedOut))
  /\ \A t \in Setters : /\ WF_heartbeatVars(Quietly(SetStep(t)))
                        /\ SF_heartbeatVars(Quietly(LockFront(t)))

-----------------------------------------------------------------------------
(* HEARTBEAT_UNEXPECTED_INDEX_ERROR is never reported: a wait that ends    *)
(* without a timeout ends with an event, spurious wake-ups included.       *)
NoUnexpectedIndex == Returned("0") => waitIndex = 0

(* Nobody is declared lost who was not asked once for every IDLE_INCREMENT *)
(* of the grace, whatever the interval, after the last reply.              *)
AskedBeforeLost == waiter = "done" => requests >= EXTRA_GRACE \div IDLE_INCREMENT

(* Once no more replies come, the loss is reported, whichever set was under *)
(* way or left over when they ended.                                       *)
SilenceIsNoticed == []<>(\E t \in Setters : setter[t] # "idle") \/ <>(waiter = "done")

(* The heading of ARSTHeartbeat.cpp: "idle <= interval: continue", so the   *)
(* peer is asked only after more than the interval.                        *)
AskedAfterInterval == [][OnHeartbeatRequest => m_nIdleTime' > m_nTimeInterval]_heartbeatVars

(* The heading of ARSTHeartbeat.cpp: "index == 0: a reply was received,     *)
(* idle = 0".                                                              *)
ReplyResetsIdle ==
  [][waiter = "returned" /\ waiter' # "returned" /\ waitIndex = 0
       => m_nIdleTime' = 0]_heartbeatVars
=============================================================================
