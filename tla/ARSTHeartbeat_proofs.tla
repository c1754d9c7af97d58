------------------------ MODULE ARSTHeartbeat_proofs ------------------------
(* Proofs about ARSTHeartbeat, for any interval, grace and threads that    *)
(* report replies.  IInv, the invariant of the events below, is that of    *)
(* ARSTPevents_proofs.                                                     *)
EXTENDS ARSTHeartbeat, ARSTPevents_proofs

(* Only event 0 is ever set, and so reported.                             *)
ReplyInv ==
  /\ ~State[1]
  /\ \A v \in Waits : FiredEvent[v] \in {0, NoEvent}
  /\ NoUnexpectedIndex

(* What a SetEvent has fired and has still to signal is kept in memory by  *)
(* the wait itself, or by event 1: no event sets that one, and the next    *)
(* wait cannot come to it before the SetEvent has released the mutex of    *)
(* event 0.                                                                *)
SignalInv ==
  /\ waiter \in {"check", "sleep", "relock"} => i = Count
  /\ wfmo # NoWait /\ i = Count => 1 \in Registered(wfmo)
  /\ \A t \in Setters : setter[t] = "signal" =>
       \/ wfmo # NoWait /\ front(t) = wfmo /\ i = Count
       \/ 1 \in Registered(front(t)) /\ (wfmo # NoWait => waiter = "register" /\ i = 0)

(* The peer has been asked for every wait of the grace so far.            *)
GraceInv ==
  /\ m_nIdleTime \in Nat
  /\ requests \in Nat
  /\ m_nIdleTime <= m_nTimeInterval + EXTRA_GRACE + IDLE_INCREMENT
  /\ waiter # "done" =>
       /\ m_nIdleTime <= m_nTimeInterval + EXTRA_GRACE
       /\ m_nIdleTime <= m_nTimeInterval + requests * IDLE_INCREMENT
  /\ AskedBeforeLost

HeartbeatInv == IInv /\ ReplyInv /\ SignalInv /\ GraceInv

-----------------------------------------------------------------------------
LEMMA TwoEvents ==
  /\ Event = {0, 1} /\ Count = 2 /\ NoEvent \notin Event
  /\ \A t \in Setters : Target[t] = 0
BY HeartbeatAssumption DEF Event, NoEvent

LEMMA HeartbeatInitInv == HeartbeatInit => HeartbeatInv
<1> SUFFICES ASSUME HeartbeatInit
             PROVE  HeartbeatInv
  OBVIOUS
<1>1. IInv
  BY InitIInv DEF HeartbeatInit
<1>2. ReplyInv
  BY TwoEvents DEF HeartbeatInit, Init, ReplyInv, NoUnexpectedIndex, Returned
<1>3. SignalInv
  BY DEF HeartbeatInit, Init, SignalInv
<1>4. GraceInv
  BY HeartbeatAssumption DEF HeartbeatInit, Init, GraceInv, AskedBeforeLost
<1> QED
  BY <1>1, <1>2, <1>3, <1>4 DEF HeartbeatInv

-----------------------------------------------------------------------------
(* Steps of the events.                                                   *)

LEMMA EventsReplyInv ==
  ASSUME HeartbeatInv, EventsNext
  PROVE  ReplyInv'
<1> USE TwoEvents DEF HeartbeatInv, IInv, TypeOK, ReplyInv, NoUnexpectedIndex, Returned
<1>1. CASE BeginWait
  BY <1>1 DEF BeginWait, eventVars
<1>2. CASE TakeEvent
  <2>1. i \in Event /\ wfmo \in Waits
    BY <1>2, IsWaiting DEF TakeEvent, RefInv, NotYetRegistered
  <2>2. i = 0
    BY <1>2, <2>1 DEF TakeEvent
  <2> QED
    BY <1>2, <2>1, <2>2 DEF TakeEvent
<1>3. CASE FinishWait
  <2>1. wfmo \in Waits /\ (result = "0" => FiredEvent[wfmo] # NoEvent)
    BY <1>3, IsWaiting DEF FinishWait, WaitInv
  <2> QED
    BY <1>3, <2>1 DEF FinishWait, eventVars
<1>4. CASE RegisterWait \/ CheckDone \/ WokenBySignal \/ TimedOut \/ WokenSpuriously \/ Relock
  BY <1>4 DEF RegisterWait, CheckDone, WokenBySignal, TimedOut, WokenSpuriously, Awake, Relock,
              eventVars
<1>5. ASSUME NEW t \in Setters, LockEvent(t) \/ SetStep(t)
      PROVE  ReplyInv'
  <2>1. CASE Fire(t)
    <3>1. front(t) = wfmo /\ wfmo \in Waits
      BY <2>1, FiredSleeps
    <3> QED
      BY <2>1, <3>1 DEF Fire, waiterVars
  <2>2. CASE LockEvent(t) \/ LeaveSet(t) \/ LockFront(t) \/ SkipExpired(t) \/ Signal(t)
    BY <2>2 DEF LockEvent, LeaveSet, LockFront, SkipExpired, Signal, eventVars, wfmoVars,
                waiterVars
  <2> QED
    BY <1>5, <2>1, <2>2 DEF SetStep
<1> QED
  BY <1>1, <1>2, <1>3, <1>4, <1>5 DEF EventsNext, WaitStep

(* While a SetEvent is under way, the mutex of event 0 is held, and no     *)
(* other is.                                                               *)
LEMMA OneSetEvent ==
  ASSUME HeartbeatInv, NEW t \in Setters, setter[t] # "idle"
  PROVE  /\ eventMutex[0] # "free"
         /\ \A u \in Setters \ {t} : setter[u] = "idle"
<1>1. Target[t] \in Event /\ Target[t] = 0 /\ t # "free"
  BY PeventsAssumption, TwoEvents
<1> QED
  BY <1>1, TwoEvents, OneSetterEach DEF HeartbeatInv, IInv, MutexInv

LEMMA WaiterSignalInv ==
  ASSUME HeartbeatInv, WaitStep \/ WokenSpuriously
  PROVE  SignalInv'
<1> USE TwoEvents DEF HeartbeatInv, IInv
<1>1. CASE BeginWait
  <2>1. /\ \A v : Registered(v)' = Registered(v)
        /\ \A t \in Setters : front(t)' = front(t)
    BY <1>1 DEF BeginWait, Registered, front, eventVars
  <2>2. /\ wfmo = NoWait /\ waiter' = "register" /\ i' = 0
        /\ UNCHANGED setter
    BY <1>1 DEF BeginWait, WaitInv
  <2> QED
    BY <2>1, <2>2 DEF SignalInv
<1>2. CASE TakeEvent
  <2>1. i \in Event
    BY <1>2 DEF TakeEvent, RefInv, NotYetRegistered
  <2>2. i = 0 /\ eventMutex[0] = "free"
    BY <1>2, <2>1 DEF TakeEvent, ReplyInv
  <2>3. \A t \in Setters : setter[t] = "idle"
    BY <2>2, OneSetEvent
  <2> QED
    BY <1>2, <2>2, <2>3 DEF TakeEvent, SignalInv
<1>3. CASE RegisterWait
  <2>1. /\ i \in Event /\ eventMutex[i] = "free" /\ wfmo \in Waits
        /\ \A v \in Waits : v = wfmo => i \in Registered(v)'
    BY <1>3, RegisterWaitRegisters
  <2>2. \A t \in Setters : setter[t] # "signal"
    <3>1. CASE i = 0
      BY <2>1, <3>1, OneSetEvent
    <3>2. CASE i = 1
      BY <1>3, <2>1, <3>2, PeventsAssumption DEF RegisterWait, SignalInv
    <3> QED
      BY <2>1, <3>1, <3>2
  <2>3. /\ i' = i + 1 /\ waiter' = IF i + 1 = Count THEN "check" ELSE "register"
        /\ UNCHANGED <<wfmo, setter>>
    BY <1>3 DEF RegisterWait
  <2>4. i' = Count => 1 \in Registered(wfmo)'
    <3>1. i' = Count => \A v \in Waits : v = wfmo => 1 \in Registered(v)'
      BY <2>1, <2>3
    <3> QED
      BY <2>1, <2>3, <3>1
  <2> QED
    BY <2>1, <2>2, <2>3, <2>4 DEF SignalInv
<1>4. CASE FinishWait
  <2>1. /\ \A v : Registered(v)' = Registered(v)
        /\ \A t \in Setters : front(t)' = front(t)
    BY <1>4 DEF FinishWait, Registered, front, eventVars
  <2>2. wfmo' = NoWait /\ waiter = "finish" /\ waiter' = "returned" /\ UNCHANGED setter
    BY <1>4 DEF FinishWait
  <2> QED
    BY <2>1, <2>2 DEF SignalInv
<1>5. CASE CheckDone \/ WokenBySignal \/ TimedOut \/ WokenSpuriously \/ Relock
  <2>1. /\ waiter \in {"check", "sleep", "relock"}
        /\ waiter' \in {"check", "sleep", "relock", "finish"}
        /\ UNCHANGED <<RegisteredWaits, wfmo, i, setter>>
    BY <1>5 DEF CheckDone, WokenBySignal, TimedOut, WokenSpuriously, Awake, Relock, eventVars
  <2>2. /\ \A v : Registered(v)' = Registered(v)
        /\ \A t \in Setters : front(t)' = front(t)
    BY <2>1 DEF Registered, front
  <2> QED
    BY <2>1, <2>2 DEF SignalInv
<1> QED
  BY <1>1, <1>2, <1>3, <1>4, <1>5 DEF WaitStep

LEMMA SetterSignalInv ==
  ASSUME HeartbeatInv, NEW t \in Setters, LockEvent(t) \/ SetStep(t)
  PROVE  SignalInv'
<1> USE TwoEvents DEF HeartbeatInv, IInv
<1>0. UNCHANGED waiterVars /\ \A u \in Setters \ {t} : setter'[u] = setter[u]
  BY DEF LockEvent, SetStep, LeaveSet, LockFront, SkipExpired, Fire, Signal, GotoSet, TypeOK
<1>1. CASE SkipExpired(t) \/ Signal(t)
  <2>1. /\ setter[t] \in {"locked", "signal"} /\ setter'[t] # "signal"
        /\ RegisteredWaits' = [RegisteredWaits EXCEPT ![Target[t]] = Tail(@)]
    BY <1>1 DEF SkipExpired, Signal, GotoSet, TypeOK
  <2>2. \A v \in Waits : 1 \in Registered(v) => 1 \in Registered(v)'
    <3>1. \A v \in Waits : Registered(v)' = IF v = front(t) THEN Registered(v) \ {Target[t]}
                                            ELSE Registered(v)
      BY <1>0, <2>1, FrontIsDropped
    <3>2. Target[t] # 1
      OBVIOUS
    <3> QED
      BY <3>1, <3>2
  <2>3. \A u \in Setters : setter'[u] # "signal"
    BY <1>0, <2>1, OneSetEvent
  <2>4. wfmo \in Waits /\ 1 \in Registered(wfmo) => 1 \in Registered(wfmo)'
    BY <1>0, <2>2 DEF waiterVars, Registered
  <2> QED
    BY <1>0, <2>3, <2>4 DEF SignalInv, waiterVars, TypeOK
<1>2. CASE Fire(t)
  <2>1. front(t) = wfmo /\ wfmo \in Waits /\ waiter \in {"sleep", "relock"}
    BY <1>2, FiredSleeps
  <2>2. UNCHANGED RegisteredWaits /\ setter[t] = "locked"
    BY <1>2 DEF Fire
  <2>3. front(t)' = wfmo /\ wfmo # NoWait /\ i = Count
    BY <2>1, <2>2, PeventsAssumption DEF front, SignalInv
  <2>4. \A u \in Setters \ {t} : setter'[u] = "idle"
    BY <1>0, <2>2, OneSetEvent
  <2>5. 1 \in Registered(wfmo)'
    BY <1>0, <2>2, <2>3 DEF SignalInv, waiterVars, Registered
  <2> QED
    BY <1>0, <2>3, <2>4, <2>5 DEF SignalInv, waiterVars
<1>3. CASE LockEvent(t) \/ LeaveSet(t) \/ LockFront(t)
  <2>1. UNCHANGED RegisteredWaits /\ setter'[t] # "signal"
    BY <1>3 DEF LockEvent, LeaveSet, LockFront, GotoSet, TypeOK, eventVars
  <2>2. \A v : Registered(v)' = Registered(v)
    BY <2>1 DEF Registered
  <2>3. \A u \in Setters : front(u)' = front(u)
    BY <2>1 DEF front
  <2> QED
    BY <1>0, <2>1, <2>2, <2>3 DEF SignalInv, waiterVars
<1> QED
  BY <1>1, <1>2, <1>3 DEF SetStep

LEMMA EventsGraceInv ==
  ASSUME HeartbeatInv, Quietly(EventsNext)
  PROVE  GraceInv'
<1>1. waiter' = "done" <=> waiter = "done"
  BY DEF Quietly, EventsNext, WaitStep, BeginWait, TakeEvent, RegisterWait, CheckDone,
         WokenBySignal, TimedOut, WokenSpuriously, Awake, Relock, FinishWait, LockEvent, SetStep,
         LeaveSet, LockFront, SkipExpired, Fire, Signal, waiterVars
<1> QED
  BY <1>1 DEF HeartbeatInv, GraceInv, AskedBeforeLost, Quietly

-----------------------------------------------------------------------------
(* Steps of Run.                                                          *)

LEMMA RunKeepsEvents ==
  ASSUME HeartbeatInv, RunStep
  PROVE  IInv' /\ ReplyInv' /\ SignalInv'
<1>1. /\ waiter = "returned" /\ waiter' \in {"idle", "done"}
      /\ UNCHANGED <<eventVars, wfmoVars, wfmo, i, result, waitIndex, bounded, setter>>
  BY DEF RunStep, KeepWaiting, OnHeartbeatRequest, OnHeartbeatLost, Reply, Returned, Then
<1>2. IInv'
  BY <1>1, CallerIInv DEF HeartbeatInv
<1>3. ReplyInv'
  BY <1>1 DEF HeartbeatInv, ReplyInv, NoUnexpectedIndex, Returned, eventVars, wfmoVars
<1>4. SignalInv'
  <2>1. /\ \A v : Registered(v)' = Registered(v)
        /\ \A t \in Setters : front(t)' = front(t)
        /\ wfmo = NoWait
    BY <1>1 DEF Registered, front, eventVars, HeartbeatInv, IInv, WaitInv
  <2> QED
    BY <1>1, <2>1 DEF HeartbeatInv, SignalInv
<1> QED
  BY <1>2, <1>3, <1>4

(* More than the grace has passed only if there was a request for each     *)
(* whole wait of it.                                                       *)
LEMMA WaitsOfGrace ==
  ASSUME NEW r \in Nat, NEW G \in Nat, NEW d \in Nat \ {0}, G < r * d + d
  PROVE  r >= G \div d
<1>1. G \div d \in Int /\ (G \div d) * d <= G
  OBVIOUS
<1>2. ASSUME NEW q \in Int, q * d <= G, q > r
      PROVE  FALSE
  <2>1. (q - r) * d >= d
    <3>1. q - r >= 1 /\ q - r \in Int
      BY <1>2
    <3> QED
      BY <3>1
  <2>2. q * d = r * d + (q - r) * d
    OBVIOUS
  <2> QED
    BY <1>2, <2>1, <2>2
<1> QED
  BY <1>1, <1>2

LEMMA RunGraceInv ==
  ASSUME HeartbeatInv, RunStep
  PROVE  GraceInv'
<1> USE HeartbeatAssumption DEF HeartbeatInv, GraceInv, AskedBeforeLost, Then, Returned
<1>1. requests * IDLE_INCREMENT \in Nat
  OBVIOUS
<1>2. CASE KeepWaiting
  BY <1>1, <1>2 DEF KeepWaiting, Idle
<1>3. CASE OnHeartbeatRequest
  <2>1. (requests + 1) * IDLE_INCREMENT = requests * IDLE_INCREMENT + IDLE_INCREMENT
    OBVIOUS
  <2> QED
    BY <1>1, <1>3, <2>1 DEF OnHeartbeatRequest, Idle
<1>4. CASE OnHeartbeatLost
  <2>1. EXTRA_GRACE < requests * IDLE_INCREMENT + IDLE_INCREMENT
    BY <1>1, <1>4 DEF OnHeartbeatLost, Idle
  <2>2. requests >= EXTRA_GRACE \div IDLE_INCREMENT
    BY <2>1, WaitsOfGrace
  <2> QED
    BY <1>1, <1>4, <2>2 DEF OnHeartbeatLost, Idle
<1>5. CASE Reply
  BY <1>5 DEF Reply
<1> QED
  BY <1>2, <1>3, <1>4, <1>5 DEF RunStep

-----------------------------------------------------------------------------
LEMMA AlwaysHeartbeatInv == HeartbeatSpec => []HeartbeatInv
<1>1. HeartbeatInv /\ [HeartbeatNext]_heartbeatVars => HeartbeatInv'
  <2> SUFFICES ASSUME HeartbeatInv, [HeartbeatNext]_heartbeatVars
               PROVE  HeartbeatInv'
    OBVIOUS
  <2>1. CASE Quietly(EventsNext)
    <3>1. EventsNext
      BY <2>1 DEF Quietly
    <3>2. IInv'
      BY <3>1, EventsNextIInv DEF HeartbeatInv
    <3>3. SignalInv'
      BY <3>1, WaiterSignalInv, SetterSignalInv DEF EventsNext
    <3> QED
      BY <2>1, <3>1, <3>2, <3>3, EventsReplyInv, EventsGraceInv DEF HeartbeatInv
  <2>2. CASE RunStep
    BY <2>2, RunKeepsEvents, RunGraceInv DEF HeartbeatInv
  <2>3. CASE UNCHANGED heartbeatVars
    <3>1. UNCHANGED vars /\ UNCHANGED <<m_nIdleTime, requests>>
      BY <2>3 DEF heartbeatVars
    <3>2. IInv'
      BY <3>1, StutterIInv DEF HeartbeatInv
    <3>3. /\ \A v : Registered(v)' = Registered(v)
          /\ \A t \in Setters : front(t)' = front(t)
      BY <3>1 DEF Registered, front, vars, eventVars
    <3>4. ReplyInv' /\ SignalInv' /\ GraceInv'
      BY <3>1, <3>3 DEF HeartbeatInv, ReplyInv, NoUnexpectedIndex, Returned, SignalInv, GraceInv,
                        AskedBeforeLost, vars, eventVars, wfmoVars, waiterVars
    <3> QED
      BY <3>2, <3>4 DEF HeartbeatInv
  <2> QED
    BY <2>1, <2>2, <2>3 DEF HeartbeatNext
<1> QED
  BY <1>1, HeartbeatInitInv, PTL DEF HeartbeatSpec

(* m_nIdleTime never runs past one wait after the grace.                  *)
THEOREM HeartbeatTypeCorrect == HeartbeatSpec => []HeartbeatTypeOK
<1>1. HeartbeatInv => HeartbeatTypeOK
  BY HeartbeatAssumption DEF HeartbeatInv, IInv, GraceInv, HeartbeatTypeOK
<1> QED
  BY <1>1, AlwaysHeartbeatInv, PTL

(* HEARTBEAT_UNEXPECTED_INDEX_ERROR is never reported.                    *)
THEOREM IndexIsExpected == HeartbeatSpec => []NoUnexpectedIndex
<1>1. HeartbeatInv => NoUnexpectedIndex
  BY DEF HeartbeatInv, ReplyInv
<1> QED
  BY <1>1, AlwaysHeartbeatInv, PTL

(* OnHeartbeatLost is called only after a request for each wait of the     *)
(* grace.                                                                  *)
THEOREM LostWasAsked == HeartbeatSpec => []AskedBeforeLost
<1>1. HeartbeatInv => AskedBeforeLost
  BY DEF HeartbeatInv, GraceInv
<1> QED
  BY <1>1, AlwaysHeartbeatInv, PTL

(* A wfmo that is allocated, because its wait or event 1 still counts.    *)
LEMMA SignalledIsAllocated ==
  ASSUME HeartbeatInv, NEW t \in Setters, setter[t] # "idle", RegisteredWaits[Target[t]] # <<>>
  PROVE  front(t) \in allocated
<1> USE DEF HeartbeatInv, IInv, RefInv
<1>1. front(t) \in Waits
  BY FrontIsRegistered
<1>2. RefCount[front(t)] \in Nat \ {0}
  <2>1. CASE setter[t] \in {"scan", "locked"}
    BY <2>1, LockedIsCounted
  <2>2. CASE setter[t] = "signal" /\ front(t) = wfmo
    BY <1>1, <2>2, Counted
  <2>3. CASE 1 \in Registered(front(t))
    <3>1. \A u \in Signalling(front(t)) : Target[u] # 1
      BY TwoEvents DEF Signalling
    <3> QED
      BY <1>1, <2>3, <3>1, Counted
  <2> QED
    BY <2>1, <2>2, <2>3 DEF SignalInv, TypeOK, SetterAt
<1> QED
  BY <1>1, <1>2 DEF AllocatedIsCounted

(* SetEvent, as TriggerGetReplyEvent's callers use it, never touches a     *)
(* wfmo that has been freed.                                               *)
THEOREM FreedWaitUnused == HeartbeatSpec => []NoUseOfFreedWait
<1>1. HeartbeatInv => NoUseOfFreedWait
  BY SignalledIsAllocated DEF NoUseOfFreedWait
<1> QED
  BY <1>1, AlwaysHeartbeatInv, PTL

(* What the heartbeat waits on keeps the promise of ARSTWaitAny too: no     *)
(* reply that was reported is lost or taken twice by its events.           *)
THEOREM HeartbeatImplementsWaitAny == HeartbeatSpec => ImplementsWaitAny
<1>1. HeartbeatInit => WaitAny!Init
  BY InitImplements DEF HeartbeatInit
<1>2. HeartbeatInv /\ [HeartbeatNext]_heartbeatVars => [WaitAny!Next]_(WaitAny!vars)
  <2> SUFFICES ASSUME HeartbeatInv, [HeartbeatNext]_heartbeatVars
               PROVE  [WaitAny!Next]_(WaitAny!vars)
    OBVIOUS
  <2>1. CASE Quietly(EventsNext)
    BY <2>1, WaiterImplements, SetterImplements DEF Quietly, EventsNext, HeartbeatInv
  <2>2. CASE RunStep \/ UNCHANGED heartbeatVars
    BY <2>2 DEF RunStep, KeepWaiting, OnHeartbeatRequest, OnHeartbeatLost, Reply, Then,
                heartbeatVars, vars, eventVars, wfmoVars, waiterVars, WaitAny!vars
  <2> QED
    BY <2>1, <2>2 DEF HeartbeatNext
<1> QED
  BY <1>1, <1>2, AlwaysHeartbeatInv, PTL DEF HeartbeatSpec, ImplementsWaitAny, WaitAny!Spec
=============================================================================
