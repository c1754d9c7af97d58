----------------------------- MODULE ARSTPevents -----------------------------
(***************************************************************************)
(* The auto-reset events of neosmart pevents, as the heartbeat and the     *)
(* request thread use them: one thread calls WaitForMultipleEvents on all  *)
(* the events of an object, for any of them (waitAll is false), again and  *)
(* again; others call SetEvent.                                            *)
(*                                                                         *)
(* A wait has a structure of its own (wfmo), with a mutex and a count of   *)
(* references, that stays registered with an event after the wait is over  *)
(* and is freed by whoever drops the last reference: the wait, a SetEvent  *)
(* or the clean-up of a later wait.  A step is what a thread does between  *)
(* two points where it can block or another thread can see the difference. *)
(***************************************************************************)
EXTENDS Integers, Sequences, FiniteSets

CONSTANTS
  Count,         (* the number of events                                   *)
  Setters,       (* threads that call SetEvent                             *)
  Target,        (* the event each of them sets                            *)
  Waits,         (* addresses of wfmo structures                           *)
  NoWait,        (* NULL                                                   *)
  Bounded        (* whether milliseconds is not -1: what callers choose     *)

NoEvent == -1
Event == 0..(Count - 1)

ASSUME PeventsAssumption ==
  /\ Count \in Nat \ {0}
  /\ Target \in [Setters -> Event]
  /\ NoWait \notin Waits
  /\ {"free", "waiter"} \cap Setters = {}
  /\ Bounded \in SUBSET BOOLEAN \ {{}}

VARIABLES
  State,            (* of each event                                       *)
  RegisteredWaits,  (* of each event, a deque                              *)
  eventMutex,       (* holder of each event's mutex                        *)
  allocated,        (* wfmo structures that are not freed                  *)
  RefCount,         (* of each wfmo                                        *)
  FiredEvent,       (* of each wfmo                                        *)
  StillWaiting,     (* of each wfmo                                        *)
  waiterMutex,      (* holder of each wfmo's mutex                         *)
  signalled,        (* wfmo whose condition variable has been signalled    *)
  waiter,           (* where the waiting thread is                         *)
  wfmo,             (* the structure of its present wait                   *)
  bounded,          (* whether the present wait has a time limit           *)
  i,                (* the event WaitForMultipleEvents has come to         *)
  result,           (* what the last wait on the condition gave            *)
  waitIndex,        (* what WaitForMultipleEvents returned                 *)
  setter            (* where each setter is                                *)

eventVars == <<State, RegisteredWaits, eventMutex>>
wfmoVars == <<allocated, RefCount, FiredEvent, StillWaiting, waiterMutex, signalled>>
waiterVars == <<waiter, wfmo, bounded, i, result, waitIndex>>
vars == <<eventVars, wfmoVars, waiterVars, setter>>

(* "idle": between two waits; "register": about to lock events[i]->Mutex;  *)
(* "check": at the test of done; "sleep": in pthread_cond_(timed)wait;     *)
(* "relock": woken, to get its mutex back; "finish": out of the loop;      *)
(* "returned": back in the caller; "done": the caller waits no more.       *)
WaiterAt == {"idle", "register", "check", "sleep", "relock", "finish", "returned", "done"}

(* "scan": holds the event's mutex; "locked": also that of the first       *)
(* registered wait; "signal": has fired it, and is to signal it.           *)
SetterAt == {"idle", "scan", "locked", "signal"}

TypeOK ==
  /\ State \in [Event -> BOOLEAN]
  /\ RegisteredWaits \in [Event -> Seq(Waits)]
  /\ eventMutex \in [Event -> Setters \cup {"free"}]
  /\ allocated \subseteq Waits
  /\ RefCount \in [Waits -> Nat]
  /\ FiredEvent \in [Waits -> Event \cup {NoEvent}]
  /\ StillWaiting \in [Waits -> BOOLEAN]
  /\ waiterMutex \in [Waits -> Setters \cup {"free", "waiter"}]
  /\ signalled \subseteq Waits
  /\ waiter \in WaiterAt
  /\ wfmo \in Waits \cup {NoWait}
  /\ bounded \in BOOLEAN
  /\ i \in 0..Count
  /\ result \in {"0", "WAIT_TIMEOUT"}
  /\ waitIndex \in Event \cup {NoEvent}
  /\ setter \in [Setters -> SetterAt]

Init ==
  /\ State = [e \in Event |-> FALSE]
  /\ RegisteredWaits = [e \in Event |-> <<>>]
  /\ eventMutex = [e \in Event |-> "free"]
  /\ allocated = {}
  /\ RefCount = [v \in Waits |-> 0]
  /\ FiredEvent = [v \in Waits |-> NoEvent]
  /\ StillWaiting = [v \in Waits |-> FALSE]
  /\ waiterMutex = [v \in Waits |-> "free"]
  /\ signalled = {}
  /\ waiter = "idle"
  /\ wfmo = NoWait
  /\ bounded \in Bounded
  /\ i = 0
  /\ result = "0"
  /\ waitIndex = NoEvent
  /\ setter = [t \in Setters |-> "idle"]

Registered(v) == {e \in Event : \E k \in 1..Len(RegisteredWaits[e]) : RegisteredWaits[e][k] = v}

(* Drop one reference to each wfmo of vs; the last one frees it.          *)
Release(vs) ==
  /\ RefCount' = [v \in Waits |-> IF v \in vs THEN RefCount[v] - 1 ELSE RefCount[v]]
  /\ allocated' = allocated \ {v \in vs : RefCount[v] = 1}

-----------------------------------------------------------------------------
(* WaitForMultipleEvents.                                                 *)

(* new neosmart_wfmo_t_, and its mutex is locked at once.                 *)
BeginWait ==
  /\ waiter = "idle"
  /\ \E v \in Waits \ allocated :
       /\ Registered(v) = {}
       /\ allocated' = allocated \cup {v}
       /\ RefCount' = [RefCount EXCEPT ![v] = 1]
       /\ FiredEvent' = [FiredEvent EXCEPT ![v] = NoEvent]
       /\ StillWaiting' = [StillWaiting EXCEPT ![v] = TRUE]
       /\ waiterMutex' = [waiterMutex EXCEPT ![v] = "waiter"]
       /\ wfmo' = v
       /\ signalled' = signalled \ {v}
  /\ bounded' \in Bounded
  /\ i' = 0
  /\ result' = "0"
  /\ waiter' = "register"
  /\ UNCHANGED <<eventVars, waitIndex, setter>>

(* The waits RemoveExpiredWaitHelper removes: their mutex is not held, and *)
(* they are over.                                                          *)
Expired(e) ==
  {v \in Waits : e \in Registered(v) /\ waiterMutex[v] = "free" /\ ~StillWaiting[v]}

(* The deque without them, in its order: what is left at place j was at a  *)
(* place with j - 1 others left before it.                                 *)
KeptPlaces(e) ==
  {k \in 1..Len(RegisteredWaits[e]) : RegisteredWaits[e][k] \notin Expired(e)}

Rank(k, places) == Cardinality({m \in places : m <= k})

Kept(e) ==
  [j \in 1..Cardinality(KeptPlaces(e)) |->
     RegisteredWaits[e][CHOOSE k \in KeptPlaces(e) : Rank(k, KeptPlaces(e)) = j]]

(* A turn of the loop over the events that finds one set: expired waits    *)
(* are removed, the event is taken, and the wait is over.                  *)
TakeEvent ==
  /\ waiter = "register"
  /\ eventMutex[i] = "free"
  /\ State[i]
  /\ Release(Expired(i))
  /\ RegisteredWaits' = [RegisteredWaits EXCEPT ![i] = Kept(i)]
  /\ State' = [State EXCEPT ![i] = FALSE]
  /\ FiredEvent' = [FiredEvent EXCEPT ![wfmo] = i]
  /\ waiter' = "finish"
  /\ UNCHANGED <<eventMutex, StillWaiting, waiterMutex, signalled, wfmo, i, result,
                 waitIndex, bounded, setter>>

(* Mutant: the reference the event gets is not counted.                   *)
RegisterUncounted ==
  /\ waiter = "register"
  /\ eventMutex[i] = "free"
  /\ ~State[i]
  /\ Release(Expired(i))
  /\ RegisteredWaits' = [RegisteredWaits EXCEPT ![i] = Append(Kept(i), wfmo)]
  /\ i' = i + 1
  /\ waiter' = IF i + 1 = Count THEN "check" ELSE "register"
  /\ UNCHANGED <<State, eventMutex, FiredEvent, StillWaiting, waiterMutex, signalled,
                 wfmo, result, waitIndex, bounded, setter>>

(* A turn that does not: expired waits are removed, this one is added.    *)
RegisterWait ==
  /\ waiter = "register"
  /\ eventMutex[i] = "free"
  /\ ~State[i]
  /\ RefCount' = [v \in Waits |-> CASE v \in Expired(i) -> RefCount[v] - 1
                                   [] v = wfmo -> RefCount[v] + 1
                                   [] OTHER -> RefCount[v]]
  /\ allocated' = allocated \ {v \in Expired(i) : RefCount[v] = 1}
  /\ RegisteredWaits' = [RegisteredWaits EXCEPT ![i] = Append(Kept(i), wfmo)]
  /\ i' = i + 1
  /\ waiter' = IF i + 1 = Count THEN "check" ELSE "register"
  /\ UNCHANGED <<State, eventMutex, FiredEvent, StillWaiting, waiterMutex, signalled,
                 wfmo, result, waitIndex, bounded, setter>>

(* The wait loop: go on if an event has fired, give the mutex up and sleep *)
(* if not.                                                                 *)
CheckDone ==
  /\ waiter = "check"
  /\ IF FiredEvent[wfmo] # NoEvent
     THEN waiter' = "finish" /\ UNCHANGED waiterMutex
     ELSE waiter' = "sleep" /\ waiterMutex' = [waiterMutex EXCEPT ![wfmo] = "free"]
  /\ UNCHANGED <<eventVars, allocated, RefCount, FiredEvent, StillWaiting, signalled,
                 wfmo, i, result, waitIndex, bounded, setter>>

Awake(r) ==
  /\ waiter = "sleep"
  /\ waiter' = "relock"
  /\ result' = r
  /\ signalled' = signalled \ {wfmo}
  /\ UNCHANGED <<eventVars, allocated, RefCount, FiredEvent, StillWaiting, waiterMutex,
                 wfmo, i, waitIndex, bounded, setter>>

WokenBySignal == wfmo \in signalled /\ Awake("0")
WokenSpuriously == wfmo \notin signalled /\ Awake("0")
TimedOut == bounded /\ Awake("WAIT_TIMEOUT")

(* Mutant: every wake-up is taken for an event.                           *)
RelockTrusts ==
  /\ waiter = "relock"
  /\ waiterMutex[wfmo] = "free"
  /\ waiterMutex' = [waiterMutex EXCEPT ![wfmo] = "waiter"]
  /\ waiter' = "finish"
  /\ UNCHANGED <<eventVars, allocated, RefCount, FiredEvent, StillWaiting, signalled,
                 wfmo, i, result, waitIndex, bounded, setter>>

(* The condition variable gives the mutex back.  After a timeout the loop  *)
(* is left without another look at FiredEvent.                             *)
Relock ==
  /\ waiter = "relock"
  /\ waiterMutex[wfmo] = "free"
  /\ waiterMutex' = [waiterMutex EXCEPT ![wfmo] = "waiter"]
  /\ waiter' = IF result = "WAIT_TIMEOUT" THEN "finish" ELSE "check"
  /\ UNCHANGED <<eventVars, allocated, RefCount, FiredEvent, StillWaiting, signalled,
                 wfmo, i, result, waitIndex, bounded, setter>>

(* Mutant: the structure's own reference is not dropped.                  *)
FinishKeepsReference ==
  /\ waiter = "finish"
  /\ waitIndex' = FiredEvent[wfmo]
  /\ StillWaiting' = [StillWaiting EXCEPT ![wfmo] = FALSE]
  /\ waiterMutex' = [waiterMutex EXCEPT ![wfmo] = "free"]
  /\ wfmo' = NoWait
  /\ waiter' = "returned"
  /\ UNCHANGED <<eventVars, allocated, RefCount, FiredEvent, signalled, i, result, bounded, setter>>

(* Mutant: the mutex is not unlocked if others still refer to the wait.   *)
FinishKeepsLock ==
  /\ waiter = "finish"
  /\ waitIndex' = FiredEvent[wfmo]
  /\ StillWaiting' = [StillWaiting EXCEPT ![wfmo] = FALSE]
  /\ Release({wfmo})
  /\ wfmo' = NoWait
  /\ waiter' = "returned"
  /\ UNCHANGED <<eventVars, FiredEvent, waiterMutex, signalled, i, result, bounded, setter>>

(* The end of WaitForMultipleEvents: the event that fired is reported even *)
(* if the result is a timeout.                                             *)
FinishWait ==
  /\ waiter = "finish"
  /\ waitIndex' = FiredEvent[wfmo]
  /\ StillWaiting' = [StillWaiting EXCEPT ![wfmo] = FALSE]
  /\ waiterMutex' = [waiterMutex EXCEPT ![wfmo] = "free"]
  /\ Release({wfmo})
  /\ wfmo' = NoWait
  /\ waiter' = "returned"
  /\ UNCHANGED <<eventVars, FiredEvent, signalled, i, result, bounded, setter>>

(* The caller has looked at the result and is to wait again.              *)
WaitAgain ==
  /\ waiter = "returned"
  /\ waiter' = "idle"
  /\ UNCHANGED <<eventVars, wfmoVars, wfmo, i, result, waitIndex, bounded, setter>>

-----------------------------------------------------------------------------
(* SetEvent.                                                              *)

front(t) == Head(RegisteredWaits[Target[t]])

GotoSet(t, place) == setter' = [setter EXCEPT ![t] = place]

(* The event's mutex is locked and the event set.                         *)
LockEvent(t) ==
  /\ setter[t] = "idle"
  /\ eventMutex[Target[t]] = "free"
  /\ eventMutex' = [eventMutex EXCEPT ![Target[t]] = t]
  /\ State' = [State EXCEPT ![Target[t]] = TRUE]
  /\ GotoSet(t, "scan")
  /\ UNCHANGED <<RegisteredWaits, wfmoVars, waiterVars>>

(* No wait is registered: the event stays set.                            *)
LeaveSet(t) ==
  /\ setter[t] = "scan"
  /\ RegisteredWaits[Target[t]] = <<>>
  /\ eventMutex' = [eventMutex EXCEPT ![Target[t]] = "free"]
  /\ GotoSet(t, "idle")
  /\ UNCHANGED <<State, RegisteredWaits, wfmoVars, waiterVars>>

LockFront(t) ==
  /\ setter[t] = "scan"
  /\ RegisteredWaits[Target[t]] # <<>>
  /\ waiterMutex[front(t)] = "free"
  /\ waiterMutex' = [waiterMutex EXCEPT ![front(t)] = t]
  /\ GotoSet(t, "locked")
  /\ UNCHANGED <<eventVars, allocated, RefCount, FiredEvent, StillWaiting, signalled,
                 waiterVars>>

(* A wait that is over is dropped, and the next one looked at.            *)
SkipExpired(t) ==
  /\ setter[t] = "locked"
  /\ ~StillWaiting[front(t)]
  /\ Release({front(t)})
  /\ waiterMutex' = [waiterMutex EXCEPT ![front(t)] = "free"]
  /\ RegisteredWaits' = [RegisteredWaits EXCEPT ![Target[t]] = Tail(@)]
  /\ GotoSet(t, "scan")
  /\ UNCHANGED <<State, eventMutex, FiredEvent, StillWaiting, signalled, waiterVars>>

(* Mutant: the wait is not marked as over when an event fires.            *)
FireStaysOpen(t) ==
  /\ setter[t] = "locked"
  /\ StillWaiting[front(t)]
  /\ Release({front(t)})
  /\ State' = [State EXCEPT ![Target[t]] = FALSE]
  /\ FiredEvent' = [FiredEvent EXCEPT ![front(t)] = Target[t]]
  /\ waiterMutex' = [waiterMutex EXCEPT ![front(t)] = "free"]
  /\ GotoSet(t, "signal")
  /\ UNCHANGED <<RegisteredWaits, eventMutex, StillWaiting, signalled, waiterVars>>

(* The event is handed to the wait and reset; the wait's mutex is unlocked *)
(* before its condition variable is signalled.                             *)
Fire(t) ==
  /\ setter[t] = "locked"
  /\ StillWaiting[front(t)]
  /\ Release({front(t)})
  /\ State' = [State EXCEPT ![Target[t]] = FALSE]
  /\ FiredEvent' = [FiredEvent EXCEPT ![front(t)] = Target[t]]
  /\ StillWaiting' = [StillWaiting EXCEPT ![front(t)] = FALSE]
  /\ waiterMutex' = [waiterMutex EXCEPT ![front(t)] = "free"]
  /\ GotoSet(t, "signal")
  /\ UNCHANGED <<RegisteredWaits, eventMutex, signalled, waiterVars>>

(* Mutant: SetEvent returns without the signal.                           *)
SignalForgotten(t) ==
  /\ setter[t] = "signal"
  /\ RegisteredWaits' = [RegisteredWaits EXCEPT ![Target[t]] = Tail(@)]
  /\ eventMutex' = [eventMutex EXCEPT ![Target[t]] = "free"]
  /\ GotoSet(t, "idle")
  /\ UNCHANGED <<State, wfmoVars, waiterVars>>

(* The condition variable of the wait is signalled, the wait no longer     *)
(* registered, and the event's mutex released.                             *)
Signal(t) ==
  /\ setter[t] = "signal"
  /\ signalled' = IF waiter = "sleep" /\ wfmo = front(t) THEN signalled \cup {wfmo}
                  ELSE signalled
  /\ RegisteredWaits' = [RegisteredWaits EXCEPT ![Target[t]] = Tail(@)]
  /\ eventMutex' = [eventMutex EXCEPT ![Target[t]] = "free"]
  /\ GotoSet(t, "idle")
  /\ UNCHANGED <<State, allocated, RefCount, FiredEvent, StillWaiting, waiterMutex,
                 waiterVars>>

(* RemoveExpiredWaitHelper and SetEvent free a wait with its mutex locked;  *)
(* a signal to a wait that has been freed is undefined, and has no effect   *)
(* here.  NoUseOfFreedWait says where it cannot happen.                     *)

-----------------------------------------------------------------------------
WaitStep ==
  \/ BeginWait
  \/ TakeEvent
  \/ RegisterWait
  \/ CheckDone
  \/ WokenBySignal
  \/ TimedOut
  \/ Relock
  \/ FinishWait

(* SetEvent once it has been called.                                      *)
SetStep(t) ==
  \/ LeaveSet(t)
  \/ LockFront(t)
  \/ SkipExpired(t)
  \/ Fire(t)
  \/ Signal(t)

EventsNext ==
  \/ WaitStep
  \/ WokenSpuriously
  \/ \E t \in Setters : LockEvent(t) \/ SetStep(t)

Next == EventsNext \/ WaitAgain

Spec == Init /\ [][Next]_vars

(* The scheduler runs every thread that can run, and a signalled condition *)
(* variable wakes its waiter.  Nothing makes a thread call SetEvent or a   *)
(* wait end spuriously; a wait might do so again and again, hence strong   *)
(* fairness: a bounded wait times out (its deadline is computed once), and *)
(* SetEvent obtains the mutex that is free in each of the sleeps between.  *)
FairSpec ==
  /\ Spec
  /\ WF_vars(WaitStep \/ WaitAgain) /\ SF_vars(TimedOut)
  /\ \A t \in Setters : WF_vars(SetStep(t)) /\ SF_vars(LockFront(t))

-----------------------------------------------------------------------------
(* Mutexes, references and registered waits together do what ARSTWaitAny   *)
(* promises: no event that was set is lost or taken twice, and the one     *)
(* reported is the one taken.                                              *)
WaitAny == INSTANCE ARSTWaitAny WITH
  waiting <- wfmo # NoWait,
  taken <- IF wfmo = NoWait THEN NoEvent ELSE FiredEvent[wfmo]

ImplementsWaitAny == WaitAny!Spec

(* The setters that have dropped the reference of an event to v, and have  *)
(* still to signal it and remove it.                                       *)
Signalling(v) == {t \in Setters : setter[t] = "signal" /\ front(t) = v}

(* RefCount is the number of those who still have v to let go of: its wait *)
(* and the events it is registered with.                                   *)
RefCountExact ==
  \A v \in Waits :
    RefCount[v] + Cardinality(Signalling(v))
      = Cardinality(Registered(v)) + (IF v = wfmo THEN 1 ELSE 0)

(* A wait that is over is freed in the end: none stays allocated that no    *)
(* event and no wait refers to.                                            *)
NoLeak == \A v \in allocated : v = wfmo \/ Registered(v) # {}

(* SetEvent never locks, reads or signals a wait that has been freed.  True *)
(* where all setters set one event, as TriggerGetReplyEvent's callers do:   *)
(* the mutex of that event keeps the next wait, which would drop the last   *)
(* reference, out until the signal has been sent.                           *)
NoUseOfFreedWait ==
  \A t \in Setters :
    setter[t] # "idle" /\ RegisteredWaits[Target[t]] # <<>> => front(t) \in allocated

(* No wake-up is lost: a wait that an event was handed to returns, also     *)
(* where the wait itself is not bounded (ARSTRequest).                     *)
FiredWaitReturns ==
  \A v \in Waits :
    wfmo = v /\ FiredEvent[v] # NoEvent ~> waiter = "returned"

(* The mutexes of an event and of a wait are locked in one order by        *)
(* WaitForMultipleEvents and in the other by SetEvent; nobody waits for     *)
(* ever all the same.                                                      *)
SetEventReturns == \A t \in Setters : setter[t] # "idle" ~> setter[t] = "idle"
=============================================================================
