------------------------- MODULE ARSTPevents_proofs -------------------------
(* Proofs about ARSTPevents, for any events, setters and waits.            *)
EXTENDS ARSTPevents, TLAPS, FunctionTheorems, FiniteSetTheorems, SequenceTheorems

(* Who holds which mutex, and that an event is set while its SetEvent      *)
(* looks for a wait.                                                       *)
MutexInv ==
  /\ \A t \in Setters : setter[t] # "idle" <=> eventMutex[Target[t]] = t
  /\ \A e \in Event : eventMutex[e] # "free" => Target[eventMutex[e]] = e
  /\ \A t \in Setters : setter[t] \in {"locked", "signal"} => RegisteredWaits[Target[t]] # <<>>
  /\ \A t \in Setters : setter[t] = "locked" => waiterMutex[front(t)] = t
  /\ \A v \in Waits, t \in Setters :
       waiterMutex[v] = t => setter[t] = "locked" /\ front(t) = v
  /\ \A v \in Waits :
       waiterMutex[v] = "waiter" <=> v = wfmo /\ waiter \in {"register", "check", "finish"}
  /\ \A t \in Setters : setter[t] \in {"scan", "locked"} => State[Target[t]]

(* Only the wait in progress can be fired, and it has an event if it has   *)
(* been fired or has taken one.                                            *)
WaitInv ==
  /\ wfmo = NoWait <=> waiter \in {"idle", "returned", "done"}
  /\ \A v \in Waits : StillWaiting[v] => v = wfmo
  /\ waiter = "register" => FiredEvent[wfmo] = NoEvent /\ StillWaiting[wfmo]
  /\ waiter \in {"check", "sleep", "relock"} =>
       (StillWaiting[wfmo] <=> FiredEvent[wfmo] = NoEvent)
  /\ waiter = "finish" /\ result = "0" => FiredEvent[wfmo] # NoEvent

(* Each wait is registered with an event once at most, and the present one *)
(* not yet with those it has still to come to.                             *)
OnceEach ==
  \A e \in Event : \A j, k \in 1..Len(RegisteredWaits[e]) :
    RegisteredWaits[e][j] = RegisteredWaits[e][k] => j = k

NotYetRegistered ==
  waiter = "register" => i \in Event /\ \A e \in Registered(wfmo) : e < i

AllocatedIsCounted == \A v \in Waits : v \in allocated <=> RefCount[v] # 0

RefInv == OnceEach /\ NotYetRegistered /\ AllocatedIsCounted /\ RefCountExact

IInv == TypeOK /\ MutexInv /\ WaitInv /\ RefInv

-----------------------------------------------------------------------------
(* What is left of a deque from which waits are removed.                  *)

LEMMA RankOrders ==
  ASSUME NEW K \in SUBSET Nat, IsFiniteSet(K), NEW k \in K, NEW l \in K, k < l
  PROVE  Rank(k, K) < Rank(l, K)
<1> DEFINE A == {m \in K : m <= k}
           B == {m \in K : m <= l}
<1>1. A \subseteq B /\ l \in B /\ l \notin A
  <2>1. \A m \in K : m \in Int
    OBVIOUS
  <2>2. \A m \in K : m <= k => m <= l
    BY <2>1
  <2>3. l <= l /\ ~(l <= k)
    BY <2>1
  <2> QED
    BY <2>2, <2>3
<1>2. IsFiniteSet(B)
  BY FS_Subset
<1>3. Cardinality(A) <= Cardinality(B) /\ (Cardinality(B) = Cardinality(A) => B = A)
  BY <1>1, <1>2, FS_Subset
<1>4. Cardinality(A) \in Nat /\ Cardinality(B) \in Nat
  BY <1>1, <1>2, FS_Subset, FS_CardinalityType
<1>5. A # B
  BY <1>1
<1> QED
  BY <1>3, <1>4, <1>5 DEF Rank

LEMMA RankRange ==
  ASSUME NEW K \in SUBSET Nat, IsFiniteSet(K), NEW k \in K
  PROVE  Rank(k, K) \in 1..Cardinality(K)
<1> DEFINE A == {m \in K : m <= k}
<1>1. A \subseteq K /\ k \in A
  OBVIOUS
<1>2. IsFiniteSet(A) /\ Cardinality(A) <= Cardinality(K)
  BY <1>1, FS_Subset
<1>3. Cardinality(A) \in Nat /\ Cardinality(K) \in Nat
  BY <1>2, FS_CardinalityType
<1>4. Cardinality(A) # 0
  BY <1>1, <1>2, FS_EmptySet
<1> QED
  BY <1>2, <1>3, <1>4 DEF Rank

LEMMA RankInjective ==
  ASSUME NEW K \in SUBSET Nat, IsFiniteSet(K), NEW k \in K, NEW l \in K,
         Rank(k, K) = Rank(l, K)
  PROVE  k = l
<1>1. Rank(k, K) \in Int /\ k \in Nat /\ l \in Nat
  BY RankRange
<1>2. ~(k < l)
  BY <1>1, RankOrders
<1>3. ~(l < k)
  BY <1>1, RankOrders
<1> QED
  BY <1>1, <1>2, <1>3

LEMMA RankIsPlace ==
  ASSUME NEW K \in SUBSET Nat, IsFiniteSet(K), NEW j \in 1..Cardinality(K)
  PROVE  \E k \in K : Rank(k, K) = j
<1> DEFINE r == [k \in K |-> Rank(k, K)]
           T == 1..Cardinality(K)
<1>1. Cardinality(K) \in Nat
  BY FS_CardinalityType
<1>2. r \in [K -> T]
  BY RankRange
<1>3. \A k, l \in K : r[k] = r[l] => k = l
  BY RankInjective
<1>4. r \in Injection(K, T)
  BY <1>2, <1>3 DEF Injection, IsInjective
<1>5. IsFiniteSet(T) /\ Cardinality(T) = Cardinality(K)
  BY <1>1, FS_Interval
<1>6. r \in Surjection(K, T)
  BY <1>4, <1>5, FS_Injection
<1> QED
  BY <1>6 DEF Surjection

(* What is removed is gone, and all the rest is kept.                     *)
LEMMA KeptIsRest ==
  ASSUME TypeOK, OnceEach, NEW e \in Event
  PROVE  /\ Kept(e) \in Seq(Waits)
         /\ \A j, k \in 1..Len(Kept(e)) : Kept(e)[j] = Kept(e)[k] => j = k
         /\ \A v \in Waits : (\E j \in 1..Len(Kept(e)) : Kept(e)[j] = v)
                               <=> e \in Registered(v) /\ v \notin Expired(e)
<1> DEFINE W == RegisteredWaits[e]
           K == KeptPlaces(e)
           n == Cardinality(K)
           place(j) == CHOOSE k \in K : Rank(k, K) = j
<1>1. W \in Seq(Waits) /\ Len(W) \in Nat
  BY DEF TypeOK
<1>2. K \in SUBSET Nat /\ K \subseteq 1..Len(W)
  BY <1>1 DEF KeptPlaces
<1>3. IsFiniteSet(K)
  <2>1. IsFiniteSet(1..Len(W))
    BY <1>1, FS_Interval
  <2> QED
    BY <1>2, <2>1, FS_Subset
<1>4. n \in Nat
  BY <1>3, FS_CardinalityType
<1>5. \A j \in 1..n : place(j) \in K /\ Rank(place(j), K) = j
  BY <1>2, <1>3, RankIsPlace
<1>6. \A j \in 1..n : place(j) \in 1..Len(W) /\ W[place(j)] \in Waits
  BY <1>1, <1>2, <1>5, ElementOfSeq
<1>7. Kept(e) = [j \in 1..n |-> W[place(j)]]
  BY DEF Kept
<1> HIDE DEF place, n, K
<1>8. Kept(e) \in [1..n -> Waits]
  BY <1>6, <1>7
<1>9. Kept(e) \in Seq(Waits) /\ Len(Kept(e)) = n
  BY <1>4, <1>8
<1>10. ASSUME NEW j \in 1..n, NEW k \in 1..n, Kept(e)[j] = Kept(e)[k]
       PROVE  j = k
  <2>1. place(j) = place(k)
    BY <1>6, <1>7, <1>10 DEF OnceEach
  <2> QED
    BY <2>1, <1>5
<1>11. ASSUME NEW v \in Waits, NEW j \in 1..n, Kept(e)[j] = v
       PROVE  e \in Registered(v) /\ v \notin Expired(e)
  <2>1. v = W[place(j)] /\ place(j) \in KeptPlaces(e) /\ place(j) \in 1..Len(W)
    BY <1>5, <1>6, <1>7, <1>11 DEF K
  <2> QED
    BY <2>1 DEF Registered, KeptPlaces
<1>12. ASSUME NEW v \in Waits, e \in Registered(v), v \notin Expired(e)
       PROVE  \E j \in 1..n : Kept(e)[j] = v
  <2>1. PICK k \in 1..Len(W) : W[k] = v
    BY <1>12 DEF Registered
  <2>2. k \in K
    BY <1>12, <2>1 DEF KeptPlaces, K
  <2>3. Rank(k, K) \in 1..n
    BY <1>2, <1>3, <2>2, RankRange DEF n
  <2>4. place(Rank(k, K)) = k
    <3>1. place(Rank(k, K)) \in K /\ Rank(place(Rank(k, K)), K) = Rank(k, K)
      BY <1>5, <2>3
    <3> QED
      BY <1>2, <1>3, <2>2, <3>1, RankInjective
  <2> QED
    BY <1>7, <2>1, <2>3, <2>4
<1> QED
  BY <1>9, <1>10, <1>11, <1>12

-----------------------------------------------------------------------------
(* The waits at the front of deques.                                      *)

LEMMA FrontIsRegistered ==
  ASSUME TypeOK, NEW t \in Setters, RegisteredWaits[Target[t]] # <<>>
  PROVE  /\ Target[t] \in Event
         /\ front(t) \in Waits
         /\ Target[t] \in Registered(front(t))
<1>1. Target[t] \in Event
  BY PeventsAssumption
<1>2. RegisteredWaits[Target[t]] \in Seq(Waits)
  BY <1>1 DEF TypeOK
<1>3. /\ Len(RegisteredWaits[Target[t]]) \in Nat \ {0}
      /\ front(t) = RegisteredWaits[Target[t]][1]
  BY <1>2, EmptySeq DEF front
<1> QED
  BY <1>1, <1>2, <1>3, ElementOfSeq DEF Registered

(* Setters that are in SetEvent at the same time set different events.    *)
LEMMA OneSetterEach ==
  ASSUME TypeOK, MutexInv, NEW t \in Setters, NEW u \in Setters,
         setter[t] # "idle", setter[u] # "idle", Target[t] = Target[u]
  PROVE  t = u
BY DEF MutexInv

LEMMA RegisteredFinite ==
  ASSUME NEW v
  PROVE  IsFiniteSet(Registered(v)) /\ Cardinality(Registered(v)) \in Nat
<1>1. Registered(v) \in SUBSET Event
  BY DEF Registered
<1>2. IsFiniteSet(Event)
  BY PeventsAssumption, FS_Interval DEF Event
<1> QED
  BY <1>1, <1>2, FS_Subset, FS_CardinalityType

(* Every event whose SetEvent is to signal v still has v registered.      *)
LEMMA SignallingInto ==
  ASSUME TypeOK, MutexInv, NEW v \in Waits, NEW R \in SUBSET Registered(v),
         \A t \in Signalling(v) : Target[t] \in R
  PROVE  /\ IsFiniteSet(Signalling(v))
         /\ Cardinality(Signalling(v)) \in Nat
         /\ Cardinality(Signalling(v)) <= Cardinality(R)
<1> DEFINE f == [t \in Signalling(v) |-> Target[t]]
<1>1. f \in [Signalling(v) -> R]
  OBVIOUS
<1>2. \A t, u \in Signalling(v) : f[t] = f[u] => t = u
  BY OneSetterEach DEF Signalling
<1>3. f \in Injection(Signalling(v), R)
  BY <1>1, <1>2 DEF Injection, IsInjective
<1>4. IsFiniteSet(R)
  BY RegisteredFinite, FS_Subset
<1> QED
  BY <1>3, <1>4, FS_Injection, FS_CardinalityType

LEMMA SignallingRegistered ==
  ASSUME TypeOK, MutexInv, NEW v \in Waits
  PROVE  /\ IsFiniteSet(Signalling(v))
         /\ Cardinality(Signalling(v)) \in Nat
         /\ Cardinality(Signalling(v)) <= Cardinality(Registered(v))
<1>1. \A t \in Signalling(v) : Target[t] \in Registered(v)
  BY FrontIsRegistered DEF Signalling, MutexInv
<1> QED
  BY <1>1, SignallingInto

(* The wait in progress, and one that an event has registered and is not   *)
(* signalling, have a reference.                                           *)
LEMMA Counted ==
  ASSUME TypeOK, MutexInv, RefCountExact, NEW v \in Waits,
         \/ v = wfmo
         \/ \E e \in Registered(v) : \A t \in Signalling(v) : Target[t] # e
  PROVE  RefCount[v] \in Nat \ {0}
<1> DEFINE reg == Cardinality(Registered(v))
           sig == Cardinality(Signalling(v))
<1>1. reg \in Nat /\ sig \in Nat /\ sig <= reg
  BY RegisteredFinite, SignallingRegistered
<1>2. RefCount[v] \in Nat /\ RefCount[v] + sig = reg + (IF v = wfmo THEN 1 ELSE 0)
  BY DEF TypeOK, RefCountExact
<1>3. CASE v = wfmo
  BY <1>1, <1>2, <1>3
<1>4. ASSUME v # wfmo, NEW e \in Registered(v), \A t \in Signalling(v) : Target[t] # e
      PROVE  RefCount[v] # 0
  <2>1. \A t \in Signalling(v) : Target[t] \in Registered(v) \ {e}
    BY <1>4, FrontIsRegistered DEF Signalling, MutexInv
  <2>2. sig <= Cardinality(Registered(v) \ {e})
    BY <2>1, SignallingInto
  <2>3. Cardinality(Registered(v) \ {e}) = reg - 1
    BY <1>4, RegisteredFinite, FS_RemoveElement
  <2> QED
    BY <1>1, <1>2, <1>4, <2>2, <2>3
<1> QED
  BY <1>2, <1>3, <1>4

(* A wait that a setter has locked, or that is expired when its event's    *)
(* mutex is free, has one.                                                 *)
LEMMA LockedIsCounted ==
  ASSUME TypeOK, MutexInv, RefCountExact, NEW t \in Setters, setter[t] \in {"scan", "locked"},
         RegisteredWaits[Target[t]] # <<>>
  PROVE  front(t) \in Waits /\ RefCount[front(t)] \in Nat \ {0}
<1>1. front(t) \in Waits /\ Target[t] \in Registered(front(t))
  BY FrontIsRegistered
<1>2. \A u \in Signalling(front(t)) : Target[u] # Target[t]
  BY OneSetterEach DEF Signalling
<1> QED
  BY <1>1, <1>2, Counted

LEMMA ExpiredIsCounted ==
  ASSUME TypeOK, MutexInv, RefCountExact, NEW e \in Event, eventMutex[e] = "free",
         NEW v \in Expired(e)
  PROVE  v \in Waits /\ RefCount[v] \in Nat \ {0}
<1>1. v \in Waits /\ e \in Registered(v)
  BY DEF Expired
<1>2. \A u \in Signalling(v) : Target[u] # e
  BY PeventsAssumption DEF Signalling, MutexInv
<1> QED
  BY <1>1, <1>2, Counted

-----------------------------------------------------------------------------
(* Type correctness.                                                      *)

LEMMA InitIInv == Init => IInv
<1> SUFFICES ASSUME Init
             PROVE  IInv
  OBVIOUS
<1>1. TypeOK
  BY PeventsAssumption DEF Init, TypeOK, WaiterAt, SetterAt
<1>2. MutexInv
  BY PeventsAssumption DEF Init, MutexInv
<1>3. WaitInv
  BY DEF Init, WaitInv
<1>4. \A v \in Waits : Registered(v) = {} /\ Signalling(v) = {}
  BY DEF Init, Registered, Signalling
<1>5. RefCountExact
  BY <1>4, PeventsAssumption, FS_EmptySet DEF Init, RefCountExact
<1>6. OnceEach /\ NotYetRegistered /\ AllocatedIsCounted
  BY DEF Init, OnceEach, NotYetRegistered, AllocatedIsCounted
<1> QED
  BY <1>1, <1>2, <1>3, <1>5, <1>6 DEF IInv, RefInv

LEMMA IsWaiting ==
  ASSUME TypeOK, WaitInv, waiter \in {"register", "check", "sleep", "relock", "finish"}
  PROVE  wfmo \in Waits
BY DEF TypeOK, WaitInv

LEMMA WaiterTypeOK ==
  ASSUME IInv, WaitStep \/ WokenSpuriously
  PROVE  TypeOK'
<1> USE DEF IInv
<1>1. CASE BeginWait
  BY <1>1, PeventsAssumption DEF BeginWait, TypeOK, eventVars, WaiterAt
<1>2. CASE TakeEvent
  <2>1. i \in Event /\ wfmo \in Waits
    BY <1>2, IsWaiting DEF TakeEvent, RefInv, NotYetRegistered
  <2>2. Kept(i) \in Seq(Waits)
    BY <2>1, KeptIsRest DEF RefInv
  <2>3. RefCount' \in [Waits -> Nat]
    BY <1>2, <2>1, ExpiredIsCounted DEF TakeEvent, Release, TypeOK, RefInv
  <2>4. RegisteredWaits' \in [Event -> Seq(Waits)]
    BY <1>2, <2>1, <2>2 DEF TakeEvent, TypeOK
  <2> QED
    BY <1>2, <2>1, <2>3, <2>4 DEF TakeEvent, Release, TypeOK, WaiterAt
<1>3. CASE RegisterWait
  <2>1. i \in Event /\ wfmo \in Waits
    BY <1>3, IsWaiting DEF RegisterWait, RefInv, NotYetRegistered
  <2>2. Kept(i) \in Seq(Waits)
    BY <2>1, KeptIsRest DEF RefInv
  <2>3. RefCount' \in [Waits -> Nat]
    BY <1>3, <2>1, ExpiredIsCounted DEF RegisterWait, TypeOK, RefInv
  <2>4. RegisteredWaits' \in [Event -> Seq(Waits)]
    <3>1. Append(Kept(i), wfmo) \in Seq(Waits)
      BY <2>1, <2>2
    <3> QED
      BY <1>3, <2>1, <3>1 DEF RegisterWait, TypeOK
  <2>5. i' \in 0..Count
    BY <1>3, <2>1, PeventsAssumption DEF RegisterWait, Event
  <2> QED
    BY <1>3, <2>1, <2>3, <2>4, <2>5 DEF RegisterWait, TypeOK, WaiterAt
<1>4. CASE CheckDone
  BY <1>4 DEF CheckDone, TypeOK, WaiterAt, eventVars
<1>5. ASSUME NEW r \in {"0", "WAIT_TIMEOUT"}, Awake(r)
      PROVE  TypeOK'
  BY <1>5 DEF Awake, TypeOK, WaiterAt, eventVars
<1>6. CASE Relock
  BY <1>6 DEF Relock, TypeOK, WaiterAt, eventVars
<1>7. CASE FinishWait
  <2>1. wfmo \in Waits /\ RefCount[wfmo] \in Nat \ {0}
    BY <1>7, IsWaiting, Counted DEF FinishWait, RefInv
  <2>2. RefCount' \in [Waits -> Nat]
    BY <1>7, <2>1 DEF FinishWait, Release, TypeOK
  <2>3. FiredEvent[wfmo] \in Event \cup {NoEvent}
    BY <2>1 DEF TypeOK
  <2> QED
    BY <1>7, <2>2, <2>3 DEF FinishWait, Release, TypeOK, WaiterAt, eventVars
<1> QED
  BY <1>1, <1>2, <1>3, <1>4, <1>5, <1>6, <1>7
  DEF WaitStep, WokenBySignal, WokenSpuriously, TimedOut

LEMMA SetterTypeOK ==
  ASSUME IInv, NEW t \in Setters, LockEvent(t) \/ SetStep(t)
  PROVE  TypeOK'
<1> USE DEF IInv
<1>0. Target[t] \in Event
  BY PeventsAssumption
<1>1. CASE LockEvent(t)
  BY <1>0, <1>1 DEF LockEvent, GotoSet, TypeOK, SetterAt, wfmoVars, waiterVars
<1>2. CASE LeaveSet(t)
  BY <1>0, <1>2 DEF LeaveSet, GotoSet, TypeOK, SetterAt, wfmoVars, waiterVars
<1>3. CASE LockFront(t)
  BY <1>0, <1>3 DEF LockFront, GotoSet, TypeOK, SetterAt, eventVars, waiterVars
<1>4. ASSUME setter[t] = "locked"
      PROVE  /\ front(t) \in Waits /\ RefCount[front(t)] \in Nat \ {0}
             /\ Tail(RegisteredWaits[Target[t]]) \in Seq(Waits)
  <2>1. RegisteredWaits[Target[t]] \in Seq(Waits) /\ RegisteredWaits[Target[t]] # <<>>
    BY <1>0, <1>4 DEF TypeOK, MutexInv
  <2> QED
    BY <1>4, <2>1, LockedIsCounted DEF RefInv
<1>5. CASE SkipExpired(t)
  <2>1. RefCount' \in [Waits -> Nat]
    BY <1>4, <1>5 DEF SkipExpired, Release, TypeOK
  <2>2. RegisteredWaits' \in [Event -> Seq(Waits)]
    BY <1>0, <1>4, <1>5 DEF SkipExpired, TypeOK
  <2> QED
    BY <1>5, <2>1, <2>2 DEF SkipExpired, Release, GotoSet, TypeOK, SetterAt, waiterVars
<1>6. CASE Fire(t)
  <2>1. RefCount' \in [Waits -> Nat]
    BY <1>4, <1>6 DEF Fire, Release, TypeOK
  <2> QED
    BY <1>0, <1>6, <2>1 DEF Fire, Release, GotoSet, TypeOK, SetterAt, waiterVars
<1>7. CASE Signal(t)
  <2>1. RegisteredWaits[Target[t]] \in Seq(Waits) /\ RegisteredWaits[Target[t]] # <<>>
    BY <1>0, <1>7 DEF Signal, TypeOK, MutexInv
  <2>2. RegisteredWaits' \in [Event -> Seq(Waits)]
    BY <1>0, <1>7, <2>1 DEF Signal, TypeOK
  <2>3. signalled' \subseteq Waits
    BY <1>7, IsWaiting DEF Signal, TypeOK
  <2> QED
    BY <1>7, <2>2, <2>3 DEF Signal, GotoSet, TypeOK, SetterAt, waiterVars
<1> QED
  BY <1>1, <1>2, <1>3, <1>5, <1>6, <1>7 DEF SetStep

-----------------------------------------------------------------------------
(* Mutexes.                                                               *)

LEMMA WaiterMutexInv ==
  ASSUME IInv, WaitStep \/ WokenSpuriously
  PROVE  MutexInv'
<1> USE DEF IInv
<1>1. CASE BeginWait
  <2>1. PICK v \in Waits \ allocated :
          /\ Registered(v) = {}
          /\ waiterMutex' = [waiterMutex EXCEPT ![v] = "waiter"]
          /\ wfmo' = v
    BY <1>1 DEF BeginWait
  <2>2. \A t \in Setters : setter[t] = "locked" => front(t) # v
    BY <2>1, FrontIsRegistered DEF MutexInv
  <2>3. \A u \in Waits : waiterMutex[u] # "waiter"
    BY <1>1, IsWaiting DEF BeginWait, MutexInv
  <2>4. /\ waiter' = "register"
        /\ UNCHANGED <<State, RegisteredWaits, eventMutex, setter>>
    BY <1>1 DEF BeginWait, eventVars
  <2>5. \A u \in Waits : waiterMutex'[u] = IF u = v THEN "waiter" ELSE waiterMutex[u]
    BY <2>1 DEF TypeOK
  <2>6. \A t \in Setters : setter[t] = "locked" => front(t) \in Waits
    BY FrontIsRegistered DEF MutexInv
  <2> QED
    BY <2>1, <2>2, <2>3, <2>4, <2>5, <2>6, PeventsAssumption DEF MutexInv, front
<1>2. CASE TakeEvent \/ RegisterWait
  <2>1. i \in Event /\ eventMutex[i] = "free" /\ waiter = "register"
    BY <1>2 DEF TakeEvent, RegisterWait, RefInv, NotYetRegistered
  <2>2. \A t \in Setters : setter[t] # "idle" => Target[t] \in Event \ {i}
    BY <2>1, PeventsAssumption DEF MutexInv
  <2>3. \A e \in Event \ {i} : RegisteredWaits'[e] = RegisteredWaits[e] /\ State'[e] = State[e]
    BY <1>2, <2>1 DEF TakeEvent, RegisterWait, TypeOK
  <2>4. \A t \in Setters : setter[t] # "idle" =>
          /\ front(t)' = front(t)
          /\ State'[Target[t]] = State[Target[t]]
          /\ RegisteredWaits'[Target[t]] = RegisteredWaits[Target[t]]
    BY <2>2, <2>3 DEF front
  <2>5. UNCHANGED <<eventMutex, setter, waiterMutex, wfmo>>
    BY <1>2 DEF TakeEvent, RegisterWait
  <2>6. waiter' \in {"register", "check", "finish"}
    BY <1>2 DEF TakeEvent, RegisterWait
  <2> QED
    BY <2>1, <2>4, <2>5, <2>6 DEF MutexInv
<1>3. ASSUME UNCHANGED <<eventVars, setter>>,
             wfmo \in Waits, wfmo' \in {wfmo, NoWait},
             \/ /\ waiterMutex' = waiterMutex
                /\ wfmo' = wfmo
                /\ waiter \in {"register", "check", "finish"}
                     <=> waiter' \in {"register", "check", "finish"}
             \/ /\ waiterMutex[wfmo] = "free"
                /\ waiterMutex' = [waiterMutex EXCEPT ![wfmo] = "waiter"]
                /\ wfmo' = wfmo
                /\ waiter' \in {"register", "check", "finish"}
             \/ /\ waiterMutex[wfmo] = "waiter"
                /\ waiterMutex' = [waiterMutex EXCEPT ![wfmo] = "free"]
                /\ waiter' \notin {"register", "check", "finish"}
      PROVE  MutexInv'
  <2>1. \A t \in Setters : front(t)' = front(t)
    BY <1>3 DEF front, eventVars
  <2>2. \A t \in Setters : setter[t] = "locked" => waiterMutex[front(t)] = t /\ front(t) \in Waits
    BY FrontIsRegistered DEF MutexInv
  <2>3. UNCHANGED <<State, RegisteredWaits, eventMutex, setter>>
    BY <1>3 DEF eventVars
  <2>4. \A v \in Waits : v # wfmo => waiterMutex'[v] = waiterMutex[v]
    BY <1>3 DEF TypeOK
  <2>5. \A t \in Setters : setter[t] = "locked" => waiterMutex'[front(t)] = t
    BY <1>3, <2>2, <2>4, PeventsAssumption DEF TypeOK
  <2>6. \A v \in Waits, t \in Setters : waiterMutex'[v] = t => waiterMutex[v] = t
    BY <1>3, <2>4, PeventsAssumption DEF TypeOK
  <2>7. \A v \in Waits : waiterMutex'[v] = "waiter" <=>
          v = wfmo' /\ waiter' \in {"register", "check", "finish"}
    BY <1>3, <2>4, PeventsAssumption DEF TypeOK, MutexInv
  <2> QED
    BY <2>1, <2>3, <2>5, <2>6, <2>7 DEF MutexInv
<1>4. ASSUME waiter \in {"check", "sleep", "relock", "finish"}
      PROVE  /\ wfmo \in Waits
             /\ waiter \in {"check", "finish"} => waiterMutex[wfmo] = "waiter"
  BY <1>4, IsWaiting DEF MutexInv
<1>5. CASE CheckDone
  BY <1>3, <1>4, <1>5 DEF CheckDone
<1>6. CASE WokenBySignal \/ TimedOut \/ WokenSpuriously
  BY <1>3, <1>4, <1>6 DEF WokenBySignal, TimedOut, WokenSpuriously, Awake
<1>7. CASE Relock
  BY <1>3, <1>4, <1>7 DEF Relock
<1>8. CASE FinishWait
  BY <1>3, <1>4, <1>8 DEF FinishWait
<1> QED
  BY <1>1, <1>2, <1>5, <1>6, <1>7, <1>8 DEF WaitStep

LEMMA SetterMutexInv ==
  ASSUME IInv, NEW t \in Setters, LockEvent(t) \/ SetStep(t)
  PROVE  MutexInv'
<1> USE DEF IInv
<1>0. Target[t] \in Event /\ t # "free" /\ t # "waiter"
  BY PeventsAssumption
<1>1. \A u \in Setters : u # t /\ setter[u] # "idle" /\ (setter[t] # "idle" \/ LockEvent(t))
        => Target[u] \in Event /\ Target[u] # Target[t]
  BY <1>0, PeventsAssumption DEF MutexInv, LockEvent
<1>2. \A u \in Setters \ {t} : setter'[u] = setter[u]
  BY DEF LockEvent, SetStep, LeaveSet, LockFront, SkipExpired, Fire, Signal, GotoSet, TypeOK
<1>3. UNCHANGED <<wfmo, waiter>>
  BY DEF LockEvent, SetStep, LeaveSet, LockFront, SkipExpired, Fire, Signal, waiterVars
<1>4. \A u \in Setters : setter[u] = "locked" => waiterMutex[front(u)] = u /\ front(u) \in Waits
  BY FrontIsRegistered DEF MutexInv
<1>5. CASE LockEvent(t)
  <2>1. /\ eventMutex' = [eventMutex EXCEPT ![Target[t]] = t]
        /\ State' = [State EXCEPT ![Target[t]] = TRUE]
        /\ eventMutex[Target[t]] = "free" /\ setter[t] = "idle" /\ setter'[t] = "scan"
        /\ UNCHANGED <<RegisteredWaits, waiterMutex>>
    BY <1>5 DEF LockEvent, GotoSet, wfmoVars, TypeOK
  <2>2. \A e \in Event : eventMutex'[e] = IF e = Target[t] THEN t ELSE eventMutex[e]
    BY <2>1 DEF TypeOK
  <2>3. \A e \in Event : State'[e] = IF e = Target[t] THEN TRUE ELSE State[e]
    BY <2>1 DEF TypeOK
  <2>4. \A u \in Setters : front(u)' = front(u)
    BY <2>1 DEF front
  <2>5. \A u \in Setters : setter'[u] # "idle" <=> eventMutex'[Target[u]] = u
    BY <1>0, <1>1, <1>2, <1>5, <2>1, <2>2, PeventsAssumption DEF MutexInv
  <2>6. \A e \in Event : eventMutex'[e] # "free" => Target[eventMutex'[e]] = e
    BY <2>2 DEF MutexInv
  <2>7. \A u \in Setters : setter'[u] \in {"locked", "signal"} => u # t /\ setter'[u] = setter[u]
    BY <1>2, <2>1
  <2>8. \A u \in Setters : setter'[u] \in {"scan", "locked"} => State'[Target[u]]
    <3>1. \A u \in Setters \ {t} : setter'[u] \in {"scan", "locked"} => State[Target[u]]
      BY <1>2 DEF MutexInv
    <3> QED
      BY <2>3, <3>1, PeventsAssumption
  <2>9. \A v \in Waits, u \in Setters : waiterMutex[v] = u => u # t
    BY <2>1 DEF MutexInv
  <2> QED
    BY <1>2, <1>3, <2>1, <2>4, <2>5, <2>6, <2>7, <2>8, <2>9 DEF MutexInv
<1>6. CASE LeaveSet(t)
  <2>1. /\ eventMutex' = [eventMutex EXCEPT ![Target[t]] = "free"]
        /\ setter[t] = "scan" /\ setter'[t] = "idle"
        /\ UNCHANGED <<State, RegisteredWaits, waiterMutex>>
    BY <1>6 DEF LeaveSet, GotoSet, wfmoVars, TypeOK
  <2>2. \A e \in Event : eventMutex'[e] = IF e = Target[t] THEN "free" ELSE eventMutex[e]
    BY <2>1 DEF TypeOK
  <2>3. \A u \in Setters : front(u)' = front(u)
    BY <2>1 DEF front
  <2>4. \A u \in Setters : setter'[u] # "idle" <=> eventMutex'[Target[u]] = u
    BY <1>0, <1>1, <1>2, <2>1, <2>2, PeventsAssumption DEF MutexInv
  <2> QED
    BY <1>0, <1>2, <1>3, <2>1, <2>2, <2>3, <2>4, PeventsAssumption DEF MutexInv
<1>7. CASE LockFront(t)
  <2>1. /\ setter[t] = "scan" /\ setter'[t] = "locked"
        /\ RegisteredWaits[Target[t]] # <<>>
        /\ waiterMutex[front(t)] = "free"
        /\ waiterMutex' = [waiterMutex EXCEPT ![front(t)] = t]
        /\ UNCHANGED <<State, RegisteredWaits, eventMutex>>
    BY <1>7 DEF LockFront, GotoSet, eventVars, TypeOK
  <2>2. front(t) \in Waits
    BY <2>1, FrontIsRegistered
  <2>3. \A v \in Waits : waiterMutex'[v] = IF v = front(t) THEN t ELSE waiterMutex[v]
    BY <2>1 DEF TypeOK
  <2>4. \A u \in Setters : front(u)' = front(u)
    BY <2>1 DEF front
  <2>5. \A u \in Setters : setter'[u] = "locked" => waiterMutex'[front(u)] = u
    BY <1>0, <1>2, <1>4, <2>1, <2>2, <2>3, PeventsAssumption
  <2>6. \A v \in Waits, u \in Setters :
          waiterMutex'[v] = u => setter'[u] = "locked" /\ front(u) = v
    BY <1>0, <1>2, <2>1, <2>3 DEF MutexInv
  <2>7. \A v \in Waits : waiterMutex'[v] = "waiter" <=> waiterMutex[v] = "waiter"
    BY <1>0, <2>1, <2>3
  <2>8. \A u \in Setters : setter'[u] # "idle" <=> setter[u] # "idle"
    BY <1>2, <2>1
  <2>9. \A u \in Setters : setter'[u] \in {"scan", "locked"} => State[Target[u]]
    BY <1>2, <2>1 DEF MutexInv
  <2>10. \A u \in Setters : setter'[u] \in {"locked", "signal"} => RegisteredWaits[Target[u]] # <<>>
    BY <1>2, <2>1 DEF MutexInv
  <2> QED
    BY <1>3, <2>1, <2>4, <2>5, <2>6, <2>7, <2>8, <2>9, <2>10 DEF MutexInv
<1>8. CASE SkipExpired(t) \/ Fire(t)
  <2>1. /\ setter[t] = "locked" /\ setter'[t] \in {"scan", "signal"}
        /\ waiterMutex' = [waiterMutex EXCEPT ![front(t)] = "free"]
        /\ eventMutex' = eventMutex
    BY <1>8 DEF SkipExpired, Fire, GotoSet, TypeOK
  <2>2. front(t) \in Waits /\ waiterMutex[front(t)] = t
    BY <1>4, <2>1
  <2>3. \A v \in Waits : waiterMutex'[v] = IF v = front(t) THEN "free" ELSE waiterMutex[v]
    BY <2>1 DEF TypeOK
  <2>4. \A e \in Event \ {Target[t]} : RegisteredWaits'[e] = RegisteredWaits[e] /\ State'[e] = State[e]
    BY <1>0, <1>8 DEF SkipExpired, Fire, TypeOK
  <2>5. \A u \in Setters \ {t} : setter[u] # "idle" =>
          /\ front(u)' = front(u)
          /\ State'[Target[u]] = State[Target[u]]
          /\ RegisteredWaits'[Target[u]] = RegisteredWaits[Target[u]]
    BY <1>1, <2>1, <2>4 DEF front
  <2>6. /\ setter'[t] = "scan" => State'[Target[t]]
        /\ setter'[t] = "signal" => RegisteredWaits'[Target[t]] # <<>>
    BY <1>0, <1>8, <2>1 DEF SkipExpired, Fire, MutexInv, GotoSet, TypeOK
  <2>7. \A u \in Setters : setter'[u] # "idle" <=> eventMutex'[Target[u]] = u
    BY <1>2, <2>1 DEF MutexInv
  <2>8. \A u \in Setters : setter'[u] = "locked" => waiterMutex'[front(u)'] = u
    BY <1>0, <1>2, <1>4, <2>1, <2>2, <2>3, <2>5
  <2>9. \A v \in Waits, u \in Setters :
          waiterMutex'[v] = u => setter'[u] = "locked" /\ front(u)' = v
    <3> SUFFICES ASSUME NEW v \in Waits, NEW u \in Setters, waiterMutex'[v] = u
                 PROVE  setter'[u] = "locked" /\ front(u)' = v
      OBVIOUS
    <3>1. v # front(t) /\ waiterMutex[v] = u
      BY <2>3, PeventsAssumption
    <3>2. setter[u] = "locked" /\ front(u) = v
      BY <3>1 DEF MutexInv
    <3> QED
      BY <1>2, <2>5, <3>1, <3>2
  <2>10. \A v \in Waits : waiterMutex'[v] = "waiter" <=> waiterMutex[v] = "waiter"
    BY <1>0, <2>2, <2>3
  <2>11. \A u \in Setters : setter'[u] \in {"scan", "locked"} => State'[Target[u]]
    BY <1>2, <2>1, <2>5, <2>6 DEF MutexInv
  <2>12. \A u \in Setters : setter'[u] \in {"locked", "signal"} => RegisteredWaits'[Target[u]] # <<>>
    BY <1>2, <2>1, <2>5, <2>6 DEF MutexInv
  <2> QED
    BY <1>3, <2>1, <2>7, <2>8, <2>9, <2>10, <2>11, <2>12 DEF MutexInv
<1>9. CASE Signal(t)
  <2>1. /\ setter[t] = "signal" /\ setter'[t] = "idle"
        /\ eventMutex' = [eventMutex EXCEPT ![Target[t]] = "free"]
        /\ RegisteredWaits' = [RegisteredWaits EXCEPT ![Target[t]] = Tail(@)]
        /\ UNCHANGED <<State, waiterMutex>>
    BY <1>9 DEF Signal, GotoSet, TypeOK
  <2>2. \A e \in Event : eventMutex'[e] = IF e = Target[t] THEN "free" ELSE eventMutex[e]
    BY <2>1 DEF TypeOK
  <2>3. \A e \in Event \ {Target[t]} : RegisteredWaits'[e] = RegisteredWaits[e]
    BY <2>1 DEF TypeOK
  <2>4. \A u \in Setters \ {t} : setter[u] # "idle" =>
          front(u)' = front(u) /\ RegisteredWaits'[Target[u]] = RegisteredWaits[Target[u]]
    BY <1>1, <2>1, <2>3 DEF front
  <2>5. \A u \in Setters : setter'[u] # "idle" <=> eventMutex'[Target[u]] = u
    BY <1>0, <1>1, <1>2, <2>1, <2>2, PeventsAssumption DEF MutexInv
  <2>6. \A v \in Waits, u \in Setters : waiterMutex[v] = u => u # t /\ setter[u] = "locked"
    BY <2>1 DEF MutexInv
  <2>7. \A e \in Event : eventMutex'[e] # "free" => Target[eventMutex'[e]] = e
    BY <2>2 DEF MutexInv
  <2> QED
    BY <1>0, <1>2, <1>3, <2>1, <2>4, <2>5, <2>6, <2>7 DEF MutexInv
<1> QED
  BY <1>5, <1>6, <1>7, <1>8, <1>9 DEF SetStep

-----------------------------------------------------------------------------
(* The wait in progress.                                                  *)

LEMMA NoEventIsNone == NoEvent \notin Event
BY PeventsAssumption DEF NoEvent, Event

LEMMA WaiterWaitInv ==
  ASSUME IInv, WaitStep \/ WokenSpuriously
  PROVE  WaitInv'
<1> USE DEF IInv
<1>1. CASE BeginWait
  BY <1>1, PeventsAssumption DEF BeginWait, WaitInv, TypeOK
<1>2. CASE TakeEvent
  <2>1. i \in Event /\ wfmo \in Waits
    BY <1>2, IsWaiting DEF TakeEvent, RefInv, NotYetRegistered
  <2>2. FiredEvent'[wfmo] # NoEvent
    BY <1>2, <2>1, NoEventIsNone DEF TakeEvent, TypeOK
  <2> QED
    BY <1>2, <2>1, <2>2 DEF TakeEvent, WaitInv
<1>3. CASE RegisterWait
  BY <1>3 DEF RegisterWait, WaitInv
<1>4. CASE CheckDone
  BY <1>4 DEF CheckDone, WaitInv
<1>5. ASSUME NEW r, Awake(r)
      PROVE  WaitInv'
  BY <1>5 DEF Awake, WaitInv
<1>6. CASE Relock
  BY <1>6 DEF Relock, WaitInv
<1>7. CASE FinishWait
  <2>1. wfmo \in Waits
    BY <1>7, IsWaiting DEF FinishWait
  <2>2. \A v \in Waits : ~StillWaiting'[v]
    BY <1>7, <2>1 DEF FinishWait, WaitInv, TypeOK
  <2> QED
    BY <1>7, <2>2 DEF FinishWait, WaitInv
<1> QED
  BY <1>1, <1>2, <1>3, <1>4, <1>5, <1>6, <1>7
  DEF WaitStep, WokenBySignal, WokenSpuriously, TimedOut

(* An event is handed to a wait only while it sleeps, or wakes up.        *)
LEMMA FiredSleeps ==
  ASSUME IInv, NEW t \in Setters, Fire(t)
  PROVE  front(t) = wfmo /\ wfmo \in Waits /\ waiter \in {"sleep", "relock"}
<1>1. /\ setter[t] = "locked" /\ StillWaiting[front(t)]
      /\ RegisteredWaits[Target[t]] # <<>> /\ waiterMutex[front(t)] = t
  BY DEF Fire, IInv, MutexInv
<1>2. front(t) \in Waits
  BY <1>1, FrontIsRegistered DEF IInv
<1>3. front(t) = wfmo
  BY <1>1, <1>2 DEF IInv, WaitInv
<1>4. waiterMutex[wfmo] # "waiter"
  BY <1>1, <1>3, PeventsAssumption
<1>5. waiter \in {"register", "check", "sleep", "relock", "finish"}
  BY <1>2, <1>3, PeventsAssumption DEF IInv, WaitInv, TypeOK, WaiterAt
<1> QED
  BY <1>2, <1>3, <1>4, <1>5 DEF IInv, MutexInv

LEMMA SetterWaitInv ==
  ASSUME IInv, NEW t \in Setters, LockEvent(t) \/ SetStep(t)
  PROVE  WaitInv'
<1>1. CASE Fire(t)
  <2>1. front(t) = wfmo /\ wfmo \in Waits /\ waiter \in {"sleep", "relock"}
    BY <1>1, FiredSleeps
  <2>2. FiredEvent'[wfmo] # NoEvent /\ ~StillWaiting'[wfmo]
    BY <1>1, <2>1, NoEventIsNone, PeventsAssumption DEF Fire, IInv, TypeOK
  <2>3. \A v \in Waits : StillWaiting'[v] => StillWaiting[v]
    BY <1>1, <2>1 DEF Fire, IInv, TypeOK
  <2>4. UNCHANGED waiterVars
    BY <1>1 DEF Fire
  <2> QED
    BY <2>1, <2>2, <2>3, <2>4 DEF IInv, WaitInv, waiterVars
<1>2. CASE ~Fire(t)
  <2>1. UNCHANGED <<FiredEvent, StillWaiting, waiterVars>>
    BY <1>2 DEF LockEvent, SetStep, LeaveSet, LockFront, SkipExpired, Signal, wfmoVars
  <2> QED
    BY <2>1 DEF IInv, WaitInv, waiterVars
<1> QED
  BY <1>1, <1>2

-----------------------------------------------------------------------------
(* References.                                                            *)

(* Steps that neither register a wait nor count.                          *)
LEMMA NothingCounted ==
  ASSUME IInv, UNCHANGED <<RegisteredWaits, RefCount, allocated, wfmo, i>>,
         waiter' = "register" <=> waiter = "register",
         \A t \in Setters : setter'[t] = "signal" <=> setter[t] = "signal"
  PROVE  RefInv'
<1>1. \A v : Registered(v)' = Registered(v)
  BY DEF Registered
<1>2. \A v : Signalling(v)' = Signalling(v)
  BY DEF Signalling, front
<1> QED
  BY <1>1, <1>2 DEF IInv, RefInv, OnceEach, NotYetRegistered, AllocatedIsCounted, RefCountExact

LEMMA BeginWaitRefInv ==
  ASSUME IInv, BeginWait
  PROVE  RefInv'
<1>1. PICK v \in Waits \ allocated :
        /\ Registered(v) = {}
        /\ allocated' = allocated \cup {v}
        /\ RefCount' = [RefCount EXCEPT ![v] = 1]
        /\ wfmo' = v
  BY DEF BeginWait
<1>2. /\ wfmo = NoWait /\ i' = 0 /\ waiter' = "register"
      /\ UNCHANGED <<RegisteredWaits, setter>>
  BY DEF BeginWait, IInv, WaitInv, eventVars
<1>3. \A u : Registered(u)' = Registered(u)
  BY <1>2 DEF Registered
<1>4. \A u : Signalling(u)' = Signalling(u)
  BY <1>2 DEF Signalling, front
<1>5. Signalling(v) = {}
  BY <1>1, FrontIsRegistered DEF IInv, MutexInv, Signalling
<1>6. \A u \in Waits : RefCount'[u] = IF u = v THEN 1 ELSE RefCount[u]
  BY <1>1 DEF IInv, TypeOK
<1>7. RefCountExact'
  <2> SUFFICES ASSUME NEW u \in Waits
               PROVE  RefCount'[u] + Cardinality(Signalling(u))
                        = Cardinality(Registered(u)) + (IF u = v THEN 1 ELSE 0)
    BY <1>1, <1>3, <1>4 DEF RefCountExact
  <2>1. CASE u = v
    BY <1>1, <1>5, <1>6, <2>1, FS_EmptySet
  <2>2. CASE u # v
    BY <1>2, <1>6, <2>2, PeventsAssumption DEF IInv, RefInv, RefCountExact
  <2> QED
    BY <2>1, <2>2
<1>8. AllocatedIsCounted'
  BY <1>1, <1>6 DEF IInv, RefInv, AllocatedIsCounted
<1>9. OnceEach'
  BY <1>2 DEF IInv, RefInv, OnceEach
<1>10. NotYetRegistered'
  BY <1>1, <1>2, <1>3, PeventsAssumption DEF NotYetRegistered, Event
<1> QED
  BY <1>7, <1>8, <1>9, <1>10 DEF RefInv

(* The clean-up of a deque whose mutex is free, alone and with a wait that *)
(* is added.                                                               *)
LEMMA TakeEventRefInv ==
  ASSUME IInv, TakeEvent
  PROVE  RefInv'
<1> USE DEF IInv
<1>1. i \in Event /\ eventMutex[i] = "free" /\ wfmo \in Waits
  BY IsWaiting DEF TakeEvent, RefInv, NotYetRegistered
<1>2. /\ Kept(i) \in Seq(Waits)
      /\ \A j, k \in 1..Len(Kept(i)) : Kept(i)[j] = Kept(i)[k] => j = k
      /\ \A v \in Waits : (\E j \in 1..Len(Kept(i)) : Kept(i)[j] = v)
                            <=> i \in Registered(v) /\ v \notin Expired(i)
  BY <1>1, KeptIsRest DEF RefInv
<1>3. \A e \in Event : RegisteredWaits'[e] = IF e = i THEN Kept(i) ELSE RegisteredWaits[e]
  BY <1>1 DEF TakeEvent, TypeOK
<1>4. \A v \in Waits : Registered(v)' = IF v \in Expired(i) THEN Registered(v) \ {i} ELSE Registered(v)
  <2> SUFFICES ASSUME NEW v \in Waits, NEW e \in Event
               PROVE  e \in Registered(v)'
                        <=> e \in Registered(v) /\ ~(v \in Expired(i) /\ e = i)
    BY DEF Registered
  <2>1. CASE e = i
    <3>1. i \in Registered(v)' <=> \E j \in 1..Len(Kept(i)) : Kept(i)[j] = v
      BY <1>1, <1>3 DEF Registered
    <3> QED
      BY <1>2, <2>1, <3>1
  <2>2. CASE e # i
    BY <1>3, <2>2 DEF Registered
  <2> QED
    BY <2>1, <2>2
<1>5. \A v : Signalling(v)' = Signalling(v)
  <2>1. \A t \in Setters : setter[t] = "signal" => Target[t] \in Event /\ Target[t] # i
    BY <1>1, PeventsAssumption DEF MutexInv
  <2>2. \A t \in Setters : setter[t] = "signal" => front(t)' = front(t)
    BY <1>3, <2>1 DEF front
  <2> QED
    BY <2>2 DEF Signalling, TakeEvent
<1>6. \A v \in Waits : RefCount'[v] = IF v \in Expired(i) THEN RefCount[v] - 1 ELSE RefCount[v]
  BY DEF TakeEvent, Release
<1>7. \A v \in Expired(i) : RefCount[v] \in Nat \ {0}
  BY <1>1, ExpiredIsCounted DEF RefInv
<1>8. RefCountExact'
  <2> SUFFICES ASSUME NEW v \in Waits
               PROVE  RefCount'[v] + Cardinality(Signalling(v))
                        = Cardinality(Registered(v)') + (IF v = wfmo THEN 1 ELSE 0)
    BY <1>5 DEF RefCountExact, TakeEvent
  <2>1. RefCount[v] + Cardinality(Signalling(v))
          = Cardinality(Registered(v)) + (IF v = wfmo THEN 1 ELSE 0)
    BY DEF RefInv, RefCountExact
  <2>2. CASE v \in Expired(i)
    <3>1. i \in Registered(v)
      BY <2>2 DEF Expired
    <3>2. Cardinality(Registered(v)') = Cardinality(Registered(v)) - 1
      BY <1>4, <2>2, <3>1, RegisteredFinite, FS_RemoveElement
    <3>3. Cardinality(Signalling(v)) \in Nat /\ Cardinality(Registered(v)) \in Nat
      BY SignallingRegistered, RegisteredFinite
    <3> QED
      BY <1>6, <1>7, <2>1, <2>2, <3>2, <3>3
  <2>3. CASE v \notin Expired(i)
    BY <1>4, <1>6, <2>1, <2>3
  <2> QED
    BY <2>2, <2>3
<1>9. AllocatedIsCounted'
  BY <1>6, <1>7 DEF TakeEvent, Release, RefInv, AllocatedIsCounted, TypeOK
<1>10. OnceEach'
  BY <1>2, <1>3 DEF RefInv, OnceEach
<1>11. NotYetRegistered'
  BY DEF TakeEvent, NotYetRegistered
<1> QED
  BY <1>8, <1>9, <1>10, <1>11 DEF RefInv

(* The wait is registered with the event it has come to, the expired ones  *)
(* are no longer.                                                          *)
LEMMA RegisterWaitRegisters ==
  ASSUME IInv, RegisterWait
  PROVE  /\ i \in Event /\ eventMutex[i] = "free" /\ wfmo \in Waits
         /\ OnceEach'
         /\ i \notin Registered(wfmo) /\ wfmo \notin Expired(i)
         /\ \A v \in Waits : Registered(v)' =
              IF v = wfmo THEN Registered(v) \cup {i}
              ELSE IF v \in Expired(i) THEN Registered(v) \ {i} ELSE Registered(v)
         /\ \A t \in Setters : setter[t] = "signal" => front(t)' = front(t)
<1> USE DEF IInv
<1>1. i \in Event /\ eventMutex[i] = "free" /\ wfmo \in Waits
  BY IsWaiting DEF RegisterWait, RefInv, NotYetRegistered
<1>2. /\ Kept(i) \in Seq(Waits)
      /\ \A j, k \in 1..Len(Kept(i)) : Kept(i)[j] = Kept(i)[k] => j = k
      /\ \A v \in Waits : (\E j \in 1..Len(Kept(i)) : Kept(i)[j] = v)
                            <=> i \in Registered(v) /\ v \notin Expired(i)
  BY <1>1, KeptIsRest DEF RefInv
<1>3. \A e \in Event :
        RegisteredWaits'[e] = IF e = i THEN Append(Kept(i), wfmo) ELSE RegisteredWaits[e]
  BY <1>1 DEF RegisterWait, TypeOK
<1>4. i \notin Registered(wfmo) /\ wfmo \notin Expired(i)
  <2>1. waiter = "register" /\ i \in Int
    BY <1>1, PeventsAssumption DEF RegisterWait, Event
  <2>2. \A e \in Registered(wfmo) : e < i
    BY <2>1 DEF RefInv, NotYetRegistered
  <2>3. i \notin Registered(wfmo)
    BY <2>1, <2>2
  <2> QED
    BY <2>3 DEF Expired
<1> DEFINE W == Append(Kept(i), wfmo)
           n == Len(Kept(i))
<1>5. /\ n \in Nat /\ Len(W) = n + 1
      /\ \A j \in 1..n : W[j] = Kept(i)[j]
      /\ W[n + 1] = wfmo
  BY <1>1, <1>2
<1>6. \A j \in 1..n : Kept(i)[j] # wfmo
  BY <1>1, <1>2, <1>4
<1>7. \A j, k \in 1..(n + 1) : W[j] = W[k] => j = k
  <2>1. \A j \in 1..(n + 1) : j \in 1..n \/ j = n + 1
    BY <1>5
  <2> QED
    BY <1>2, <1>5, <1>6, <2>1
<1>8. \A v \in Waits : (\E j \in 1..(n + 1) : W[j] = v)
                         <=> v = wfmo \/ (i \in Registered(v) /\ v \notin Expired(i))
  <2>1. \A j \in 1..(n + 1) : j \in 1..n \/ j = n + 1
    BY <1>5
  <2>2. \A j \in 1..n : j \in 1..(n + 1)
    BY <1>5
  <2>3. n + 1 \in 1..(n + 1)
    BY <1>5
  <2> QED
    BY <1>2, <1>5, <2>1, <2>2, <2>3
<1> HIDE DEF W, n
<1>9. \A v \in Waits : Registered(v)' =
        IF v = wfmo THEN Registered(v) \cup {i}
        ELSE IF v \in Expired(i) THEN Registered(v) \ {i} ELSE Registered(v)
  <2> SUFFICES ASSUME NEW v \in Waits, NEW e \in Event
               PROVE  e \in Registered(v)' <=>
                        \/ v = wfmo /\ e = i
                        \/ e \in Registered(v) /\ (v = wfmo \/ ~(v \in Expired(i) /\ e = i))
    BY <1>1 DEF Registered
  <2>1. CASE e = i
    <3>1. i \in Registered(v)' <=> \E j \in 1..Len(W) : W[j] = v
      BY <1>1, <1>3 DEF Registered, W
    <3> QED
      BY <1>4, <1>5, <1>8, <2>1, <3>1
  <2>2. CASE e # i
    BY <1>3, <2>2 DEF Registered
  <2> QED
    BY <2>1, <2>2
<1>10. OnceEach'
  <2>1. \A j, k \in 1..Len(W) : W[j] = W[k] => j = k
    BY <1>5, <1>7
  <2> QED
    BY <1>3, <2>1 DEF RefInv, OnceEach, W
<1>11. \A t \in Setters : setter[t] = "signal" => front(t)' = front(t)
  <2>1. \A t \in Setters : setter[t] = "signal" => Target[t] \in Event /\ Target[t] # i
    BY <1>1, PeventsAssumption DEF MutexInv
  <2> QED
    BY <1>3, <2>1 DEF front
<1> QED
  BY <1>1, <1>4, <1>9, <1>10, <1>11

LEMMA RegisterWaitRefInv ==
  ASSUME IInv, RegisterWait
  PROVE  RefInv'
<1> USE DEF IInv
<1>1. /\ i \in Event /\ eventMutex[i] = "free" /\ wfmo \in Waits
      /\ OnceEach'
      /\ i \notin Registered(wfmo) /\ wfmo \notin Expired(i)
      /\ \A v \in Waits : Registered(v)' =
           IF v = wfmo THEN Registered(v) \cup {i}
           ELSE IF v \in Expired(i) THEN Registered(v) \ {i} ELSE Registered(v)
      /\ \A t \in Setters : setter[t] = "signal" => front(t)' = front(t)
  BY RegisterWaitRegisters
<1>2. \A v : Signalling(v)' = Signalling(v)
  BY <1>1 DEF Signalling, RegisterWait
<1>3. \A v \in Waits : RefCount'[v] = IF v \in Expired(i) THEN RefCount[v] - 1
                                       ELSE IF v = wfmo THEN RefCount[v] + 1 ELSE RefCount[v]
  BY <1>1 DEF RegisterWait
<1>4. \A v \in Expired(i) : RefCount[v] \in Nat \ {0}
  BY <1>1, ExpiredIsCounted DEF RefInv
<1>5. RefCountExact'
  <2> SUFFICES ASSUME NEW v \in Waits
               PROVE  RefCount'[v] + Cardinality(Signalling(v))
                        = Cardinality(Registered(v)') + (IF v = wfmo THEN 1 ELSE 0)
    BY <1>2 DEF RefCountExact, RegisterWait
  <2>1. RefCount[v] + Cardinality(Signalling(v))
          = Cardinality(Registered(v)) + (IF v = wfmo THEN 1 ELSE 0)
    BY DEF RefInv, RefCountExact
  <2>2. /\ Cardinality(Signalling(v)) \in Nat /\ Cardinality(Registered(v)) \in Nat
        /\ RefCount[v] \in Nat
    BY SignallingRegistered, RegisteredFinite DEF TypeOK
  <2>3. CASE v \in Expired(i)
    <3>1. i \in Registered(v) /\ v # wfmo
      BY <1>1, <2>3 DEF Expired
    <3>2. Cardinality(Registered(v)') = Cardinality(Registered(v)) - 1
      BY <1>1, <2>3, <3>1, RegisteredFinite, FS_RemoveElement
    <3> QED
      BY <1>3, <2>1, <2>2, <2>3, <3>1, <3>2
  <2>4. CASE v = wfmo
    <3>1. Cardinality(Registered(v)') = Cardinality(Registered(v)) + 1
      BY <1>1, <2>4, RegisteredFinite, FS_AddElement
    <3> QED
      BY <1>1, <1>3, <2>1, <2>2, <2>4, <3>1
  <2>5. CASE v \notin Expired(i) /\ v # wfmo
    BY <1>1, <1>3, <2>1, <2>5
  <2> QED
    BY <2>3, <2>4, <2>5
<1>6. AllocatedIsCounted'
  <2>1. RefCount[wfmo] \in Nat \ {0}
    BY <1>1, Counted DEF RefInv
  <2>2. allocated' = allocated \ {v \in Expired(i) : RefCount[v] = 1}
    BY DEF RegisterWait
  <2>3. \A v \in Waits : v \in allocated <=> RefCount[v] # 0
    BY DEF RefInv, AllocatedIsCounted
  <2>4. \A v \in Waits : RefCount[v] \in Nat
    BY DEF TypeOK
  <2> QED
    BY <1>1, <1>3, <1>4, <2>1, <2>2, <2>3, <2>4 DEF AllocatedIsCounted
<1>7. NotYetRegistered'
  <2> SUFFICES ASSUME waiter' = "register"
               PROVE  i' \in Event /\ \A e \in Registered(wfmo)' : e < i'
    BY DEF RegisterWait, NotYetRegistered
  <2>1. i' = i + 1 /\ i + 1 # Count /\ i \in Nat /\ i < Count
    BY <1>1, PeventsAssumption DEF RegisterWait, Event
  <2>2. \A e \in Registered(wfmo) : e < i /\ e \in Int
    BY DEF RegisterWait, RefInv, NotYetRegistered, Registered, Event
  <2>3. Registered(wfmo)' = Registered(wfmo) \cup {i}
    <3>1. \A v \in Waits : v = wfmo => Registered(v)' = Registered(v) \cup {i}
      BY <1>1
    <3> QED
      BY <1>1, <3>1 DEF RegisterWait
  <2> QED
    BY <2>1, <2>2, <2>3, PeventsAssumption DEF Event
<1> QED
  BY <1>1, <1>5, <1>6, <1>7 DEF RefInv

LEMMA FinishWaitRefInv ==
  ASSUME IInv, FinishWait
  PROVE  RefInv'
<1> USE DEF IInv
<1>1. wfmo \in Waits /\ RefCount[wfmo] \in Nat \ {0}
  BY IsWaiting, Counted DEF FinishWait, RefInv
<1>2. /\ wfmo' = NoWait /\ wfmo # NoWait
      /\ UNCHANGED <<RegisteredWaits, setter>>
      /\ waiter' = "returned"
      /\ allocated' = allocated \ {v \in {wfmo} : RefCount[v] = 1}
  BY <1>1, PeventsAssumption DEF FinishWait, Release, eventVars
<1>3. \A v : Registered(v)' = Registered(v)
  BY <1>2 DEF Registered
<1>4. \A v : Signalling(v)' = Signalling(v)
  BY <1>2 DEF Signalling, front
<1>5. \A v \in Waits : RefCount'[v] = IF v = wfmo THEN RefCount[v] - 1 ELSE RefCount[v]
  BY DEF FinishWait, Release
<1>6. RefCountExact'
  <2> SUFFICES ASSUME NEW v \in Waits
               PROVE  RefCount'[v] + Cardinality(Signalling(v)) = Cardinality(Registered(v)) + 0
    BY <1>2, <1>3, <1>4, PeventsAssumption DEF RefCountExact
  <2>1. RefCount[v] + Cardinality(Signalling(v))
          = Cardinality(Registered(v)) + (IF v = wfmo THEN 1 ELSE 0)
    BY DEF RefInv, RefCountExact
  <2>2. /\ Cardinality(Signalling(v)) \in Nat /\ Cardinality(Registered(v)) \in Nat
        /\ RefCount[v] \in Nat
    BY SignallingRegistered, RegisteredFinite DEF TypeOK
  <2> QED
    BY <1>5, <2>1, <2>2
<1>7. AllocatedIsCounted'
  BY <1>1, <1>2, <1>5 DEF RefInv, AllocatedIsCounted, TypeOK
<1>8. OnceEach' /\ NotYetRegistered'
  BY <1>2 DEF RefInv, OnceEach, NotYetRegistered
<1> QED
  BY <1>6, <1>7, <1>8 DEF RefInv

LEMMA WaiterRefInv ==
  ASSUME IInv, WaitStep \/ WokenSpuriously
  PROVE  RefInv'
<1>1. CASE BeginWait
  BY <1>1, BeginWaitRefInv
<1>2. CASE TakeEvent
  BY <1>2, TakeEventRefInv
<1>3. CASE RegisterWait
  BY <1>3, RegisterWaitRefInv
<1>4. CASE FinishWait
  BY <1>4, FinishWaitRefInv
<1>5. CASE CheckDone \/ WokenBySignal \/ TimedOut \/ WokenSpuriously \/ Relock
  <2>1. /\ UNCHANGED <<RegisteredWaits, RefCount, allocated, wfmo, i, setter>>
        /\ waiter # "register" /\ waiter' # "register"
    BY <1>5 DEF CheckDone, WokenBySignal, TimedOut, WokenSpuriously, Awake, Relock, eventVars
  <2> QED
    BY <2>1, NothingCounted
<1> QED
  BY <1>1, <1>2, <1>3, <1>4, <1>5 DEF WaitStep

(* A deque without its first wait.                                        *)
LEMMA FrontIsDropped ==
  ASSUME IInv, NEW t \in Setters, setter[t] \in {"locked", "signal"},
         RegisteredWaits' = [RegisteredWaits EXCEPT ![Target[t]] = Tail(@)],
         \A u \in Setters \ {t} : setter'[u] = setter[u]
  PROVE  /\ OnceEach'
         /\ front(t) \in Waits
         /\ Target[t] \in Registered(front(t))
         /\ \A v \in Waits : Registered(v)' = IF v = front(t) THEN Registered(v) \ {Target[t]}
                                              ELSE Registered(v)
         /\ \A u \in Setters \ {t} : setter[u] # "idle" => front(u)' = front(u)
<1> USE DEF IInv
<1> DEFINE T == Target[t]
           W == RegisteredWaits[T]
<1>1. T \in Event /\ W \in Seq(Waits) /\ W # <<>>
  BY PeventsAssumption DEF TypeOK, MutexInv
<1>2. front(t) \in Waits /\ T \in Registered(front(t))
  BY <1>1, FrontIsRegistered
<1>3. /\ Len(W) \in Nat \ {0} /\ front(t) = W[1]
      /\ Len(Tail(W)) = Len(W) - 1
      /\ \A j \in 1..(Len(W) - 1) : Tail(W)[j] = W[j + 1]
  BY <1>1, EmptySeq, HeadTailProperties DEF front
<1>4. \A e \in Event : RegisteredWaits'[e] = IF e = T THEN Tail(W) ELSE RegisteredWaits[e]
  BY <1>1 DEF TypeOK
<1>5. \A j, k \in 1..Len(W) : W[j] = W[k] => j = k
  BY <1>1 DEF RefInv, OnceEach
<1> HIDE DEF W
<1>6. OnceEach'
  <2>1. \A j, k \in 1..Len(Tail(W)) : Tail(W)[j] = Tail(W)[k] => j = k
    <3> SUFFICES ASSUME NEW j \in 1..(Len(W) - 1), NEW k \in 1..(Len(W) - 1),
                        W[j + 1] = W[k + 1]
                 PROVE  j = k
      BY <1>3
    <3>1. j + 1 \in 1..Len(W) /\ k + 1 \in 1..Len(W)
      BY <1>3
    <3>2. j + 1 = k + 1
      BY <1>5, <3>1
    <3> QED
      BY <1>3, <3>2
  <2>2. ASSUME NEW e \in Event
        PROVE  \A j, k \in 1..Len(RegisteredWaits'[e]) :
                 RegisteredWaits'[e][j] = RegisteredWaits'[e][k] => j = k
    <3>1. CASE e = T
      <4>1. RegisteredWaits'[e] = Tail(W)
        BY <1>4, <3>1
      <4>2. SUFFICES ASSUME NEW j \in 1..Len(RegisteredWaits'[e]),
                            NEW k \in 1..Len(RegisteredWaits'[e]),
                            RegisteredWaits'[e][j] = RegisteredWaits'[e][k]
                     PROVE  j = k
        OBVIOUS
      <4>3. j \in 1..Len(Tail(W)) /\ k \in 1..Len(Tail(W))
        BY <4>1
      <4>4. Tail(W)[j] = Tail(W)[k]
        BY <4>1, <4>2
      <4> QED
        BY <2>1, <4>3, <4>4
    <3>2. CASE e # T
      <4>1. RegisteredWaits'[e] = RegisteredWaits[e]
        BY <1>4, <3>2
      <4> QED
        BY <4>1 DEF RefInv, OnceEach
    <3> QED
      BY <3>1, <3>2
  <2> QED
    BY <2>2 DEF OnceEach
<1>7. ASSUME NEW v \in Waits
      PROVE  Registered(v)' = IF v = front(t) THEN Registered(v) \ {T} ELSE Registered(v)
  <2> SUFFICES ASSUME NEW e \in Event
               PROVE  e \in Registered(v)' <=> e \in Registered(v) /\ ~(v = front(t) /\ e = T)
    BY DEF Registered
  <2>1. CASE e = T
    <3>1. e \in Registered(v)' <=> \E j \in 1..(Len(W) - 1) : W[j + 1] = v
      <4>1. RegisteredWaits'[e] = Tail(W)
        BY <1>4, <2>1
      <4>2. e \in Registered(v)' <=> \E j \in 1..Len(Tail(W)) : Tail(W)[j] = v
        BY <4>1 DEF Registered
      <4> QED
        BY <1>3, <4>2
    <3>2. e \in Registered(v) <=> \E j \in 1..Len(W) : W[j] = v
      BY <2>1 DEF Registered, W
    <3>3. ASSUME NEW j \in 1..(Len(W) - 1), W[j + 1] = v
          PROVE  e \in Registered(v) /\ v # front(t)
      <4>1. j + 1 \in 1..Len(W) /\ 1 \in 1..Len(W) /\ j + 1 # 1
        BY <1>3
      <4> QED
        BY <1>3, <1>5, <3>2, <3>3, <4>1
    <3>4. ASSUME e \in Registered(v), v # front(t)
          PROVE  \E j \in 1..(Len(W) - 1) : W[j + 1] = v
      <4>1. PICK k \in 1..Len(W) : W[k] = v
        BY <3>2, <3>4
      <4>2. k # 1 /\ k - 1 \in 1..(Len(W) - 1) /\ (k - 1) + 1 = k
        BY <1>3, <3>4, <4>1
      <4> QED
        BY <4>1, <4>2
    <3> QED
      BY <2>1, <3>1, <3>3, <3>4
  <2>2. CASE e # T
    BY <1>4, <2>2 DEF Registered
  <2> QED
    BY <2>1, <2>2
<1>8. ASSUME NEW u \in Setters \ {t}, setter[u] # "idle"
      PROVE  front(u)' = front(u)
  <2>1. Target[u] \in Event /\ Target[u] # T
    BY <1>8, OneSetterEach, PeventsAssumption
  <2> QED
    BY <1>4, <2>1 DEF front
<1> QED
  BY <1>2, <1>6, <1>7, <1>8

LEMMA SkipExpiredRefInv ==
  ASSUME IInv, NEW t \in Setters, SkipExpired(t)
  PROVE  RefInv'
<1> USE DEF IInv
<1>1. /\ setter[t] = "locked" /\ setter'[t] = "scan"
      /\ \A u \in Setters \ {t} : setter'[u] = setter[u]
      /\ UNCHANGED <<wfmo, waiter, i>>
      /\ RegisteredWaits' = [RegisteredWaits EXCEPT ![Target[t]] = Tail(@)]
      /\ allocated' = allocated \ {v \in {front(t)} : RefCount[v] = 1}
  BY DEF SkipExpired, Release, GotoSet, TypeOK, waiterVars
<1>2. /\ OnceEach'
      /\ front(t) \in Waits
      /\ Target[t] \in Registered(front(t))
      /\ \A v \in Waits : Registered(v)' = IF v = front(t) THEN Registered(v) \ {Target[t]}
                                           ELSE Registered(v)
      /\ \A u \in Setters \ {t} : setter[u] # "idle" => front(u)' = front(u)
  BY <1>1, FrontIsDropped
<1>3. RefCount[front(t)] \in Nat \ {0}
  BY <1>1, LockedIsCounted DEF RefInv, MutexInv
<1>4. \A v \in Waits : RefCount'[v] = IF v = front(t) THEN RefCount[v] - 1 ELSE RefCount[v]
  BY DEF SkipExpired, Release
<1>5. \A v : Signalling(v)' = Signalling(v)
  BY <1>1, <1>2 DEF Signalling
<1>6. RefCountExact'
  <2> SUFFICES ASSUME NEW v \in Waits
               PROVE  RefCount'[v] + Cardinality(Signalling(v))
                        = Cardinality(Registered(v)') + (IF v = wfmo THEN 1 ELSE 0)
    BY <1>1, <1>5 DEF RefCountExact
  <2>1. RefCount[v] + Cardinality(Signalling(v))
          = Cardinality(Registered(v)) + (IF v = wfmo THEN 1 ELSE 0)
    BY DEF RefInv, RefCountExact
  <2>2. /\ Cardinality(Signalling(v)) \in Nat /\ Cardinality(Registered(v)) \in Nat
        /\ RefCount[v] \in Nat
    BY SignallingRegistered, RegisteredFinite DEF TypeOK
  <2>3. CASE v = front(t)
    <3>1. Cardinality(Registered(v)') = Cardinality(Registered(v)) - 1
      BY <1>2, <2>3, RegisteredFinite, FS_RemoveElement
    <3> QED
      BY <1>3, <1>4, <2>1, <2>2, <2>3, <3>1
  <2>4. CASE v # front(t)
    BY <1>2, <1>4, <2>1, <2>4
  <2> QED
    BY <2>3, <2>4
<1>7. AllocatedIsCounted'
  BY <1>1, <1>2, <1>3, <1>4 DEF RefInv, AllocatedIsCounted, TypeOK
<1>8. NotYetRegistered'
  <2>1. wfmo \in Waits => Registered(wfmo)' \subseteq Registered(wfmo)
    <3>1. \A v \in Waits : Registered(v)' \subseteq Registered(v)
      BY <1>2
    <3> QED
      BY <1>1, <3>1 DEF Registered
  <2> QED
    BY <1>1, <2>1, IsWaiting DEF RefInv, NotYetRegistered
<1> QED
  BY <1>2, <1>6, <1>7, <1>8 DEF RefInv

LEMMA FireRefInv ==
  ASSUME IInv, NEW t \in Setters, Fire(t)
  PROVE  RefInv'
<1> USE DEF IInv
<1>1. /\ setter[t] = "locked" /\ setter'[t] = "signal"
      /\ \A u \in Setters \ {t} : setter'[u] = setter[u]
      /\ UNCHANGED <<wfmo, waiter, i, RegisteredWaits>>
      /\ allocated' = allocated \ {v \in {front(t)} : RefCount[v] = 1}
  BY DEF Fire, Release, GotoSet, TypeOK, waiterVars
<1>2. front(t) \in Waits /\ RefCount[front(t)] \in Nat \ {0}
  BY <1>1, LockedIsCounted DEF RefInv, MutexInv
<1>3. \A v : Registered(v)' = Registered(v)
  BY <1>1 DEF Registered
<1>4. \A v : Signalling(v)' = IF v = front(t) THEN Signalling(v) \cup {t} ELSE Signalling(v)
  BY <1>1 DEF Signalling, front
<1>5. t \notin Signalling(front(t))
  BY <1>1 DEF Signalling
<1>6. \A v \in Waits : RefCount'[v] = IF v = front(t) THEN RefCount[v] - 1 ELSE RefCount[v]
  BY DEF Fire, Release
<1>7. RefCountExact'
  <2> SUFFICES ASSUME NEW v \in Waits
               PROVE  RefCount'[v] + Cardinality(Signalling(v)')
                        = Cardinality(Registered(v)) + (IF v = wfmo THEN 1 ELSE 0)
    BY <1>1, <1>3 DEF RefCountExact
  <2>1. RefCount[v] + Cardinality(Signalling(v))
          = Cardinality(Registered(v)) + (IF v = wfmo THEN 1 ELSE 0)
    BY DEF RefInv, RefCountExact
  <2>2. /\ Cardinality(Signalling(v)) \in Nat /\ Cardinality(Registered(v)) \in Nat
        /\ RefCount[v] \in Nat
    BY SignallingRegistered, RegisteredFinite DEF TypeOK
  <2>3. CASE v = front(t)
    <3>1. Cardinality(Signalling(v)') = Cardinality(Signalling(v)) + 1
      BY <1>4, <1>5, <2>3, SignallingRegistered, FS_AddElement
    <3> QED
      BY <1>2, <1>6, <2>1, <2>2, <2>3, <3>1
  <2>4. CASE v # front(t)
    BY <1>4, <1>6, <2>1, <2>4
  <2> QED
    BY <2>3, <2>4
<1>8. AllocatedIsCounted'
  BY <1>1, <1>2, <1>6 DEF RefInv, AllocatedIsCounted, TypeOK
<1>9. OnceEach' /\ NotYetRegistered'
  BY <1>1, <1>3 DEF RefInv, OnceEach, NotYetRegistered
<1> QED
  BY <1>7, <1>8, <1>9 DEF RefInv

LEMMA SignalRefInv ==
  ASSUME IInv, NEW t \in Setters, Signal(t)
  PROVE  RefInv'
<1> USE DEF IInv
<1>1. /\ setter[t] = "signal" /\ setter'[t] = "idle"
      /\ \A u \in Setters \ {t} : setter'[u] = setter[u]
      /\ UNCHANGED <<wfmo, waiter, i, RefCount, allocated>>
      /\ RegisteredWaits' = [RegisteredWaits EXCEPT ![Target[t]] = Tail(@)]
  BY DEF Signal, GotoSet, TypeOK, waiterVars
<1>2. /\ OnceEach'
      /\ front(t) \in Waits
      /\ Target[t] \in Registered(front(t))
      /\ \A v \in Waits : Registered(v)' = IF v = front(t) THEN Registered(v) \ {Target[t]}
                                           ELSE Registered(v)
      /\ \A u \in Setters \ {t} : setter[u] # "idle" => front(u)' = front(u)
  BY <1>1, FrontIsDropped
<1>3. \A v : Signalling(v)' = IF v = front(t) THEN Signalling(v) \ {t} ELSE Signalling(v)
  BY <1>1, <1>2 DEF Signalling
<1>4. t \in Signalling(front(t))
  BY <1>1 DEF Signalling
<1>5. RefCountExact'
  <2> SUFFICES ASSUME NEW v \in Waits
               PROVE  RefCount[v] + Cardinality(Signalling(v)')
                        = Cardinality(Registered(v)') + (IF v = wfmo THEN 1 ELSE 0)
    BY <1>1 DEF RefCountExact
  <2>1. RefCount[v] + Cardinality(Signalling(v))
          = Cardinality(Registered(v)) + (IF v = wfmo THEN 1 ELSE 0)
    BY DEF RefInv, RefCountExact
  <2>2. /\ Cardinality(Signalling(v)) \in Nat /\ Cardinality(Registered(v)) \in Nat
        /\ RefCount[v] \in Nat
    BY SignallingRegistered, RegisteredFinite DEF TypeOK
  <2>3. CASE v = front(t)
    <3>1. Cardinality(Registered(v)') = Cardinality(Registered(v)) - 1
      BY <1>2, <2>3, RegisteredFinite, FS_RemoveElement
    <3>2. Cardinality(Signalling(v)') = Cardinality(Signalling(v)) - 1
      BY <1>3, <1>4, <2>3, SignallingRegistered, FS_RemoveElement
    <3> QED
      BY <2>1, <2>2, <3>1, <3>2
  <2>4. CASE v # front(t)
    BY <1>2, <1>3, <2>1, <2>4
  <2> QED
    BY <2>3, <2>4
<1>6. AllocatedIsCounted'
  BY <1>1 DEF RefInv, AllocatedIsCounted
<1>7. NotYetRegistered'
  <2>1. wfmo \in Waits => Registered(wfmo)' \subseteq Registered(wfmo)
    <3>1. \A v \in Waits : Registered(v)' \subseteq Registered(v)
      BY <1>2
    <3> QED
      BY <1>1, <3>1 DEF Registered
  <2> QED
    BY <1>1, <2>1, IsWaiting DEF RefInv, NotYetRegistered
<1> QED
  BY <1>2, <1>5, <1>6, <1>7 DEF RefInv

LEMMA SetterRefInv ==
  ASSUME IInv, NEW t \in Setters, LockEvent(t) \/ SetStep(t)
  PROVE  RefInv'
<1>1. CASE SkipExpired(t)
  BY <1>1, SkipExpiredRefInv
<1>2. CASE Fire(t)
  BY <1>2, FireRefInv
<1>3. CASE Signal(t)
  BY <1>3, SignalRefInv
<1>4. CASE LockEvent(t) \/ LeaveSet(t) \/ LockFront(t)
  <2>1. /\ UNCHANGED <<RegisteredWaits, RefCount, allocated, wfmo, i, waiter>>
        /\ setter[t] # "signal" /\ setter'[t] # "signal"
        /\ \A u \in Setters \ {t} : setter'[u] = setter[u]
    BY <1>4 DEF LockEvent, LeaveSet, LockFront, GotoSet, eventVars, wfmoVars, waiterVars,
                IInv, TypeOK
  <2> QED
    BY <2>1, NothingCounted
<1> QED
  BY <1>1, <1>2, <1>3, <1>4 DEF SetStep

-----------------------------------------------------------------------------
(* The inductive invariant.                                               *)

LEMMA EventsNextIInv ==
  ASSUME IInv, EventsNext
  PROVE  IInv'
<1>1. CASE WaitStep \/ WokenSpuriously
  BY <1>1, WaiterTypeOK, WaiterMutexInv, WaiterWaitInv, WaiterRefInv DEF IInv
<1>2. ASSUME NEW t \in Setters, LockEvent(t) \/ SetStep(t)
      PROVE  IInv'
  BY <1>2, SetterTypeOK, SetterMutexInv, SetterWaitInv, SetterRefInv DEF IInv
<1> QED
  BY <1>1, <1>2 DEF EventsNext

(* What the caller does between two waits leaves the events alone.        *)
LEMMA CallerIInv ==
  ASSUME IInv, waiter = "returned", waiter' \in {"idle", "done"},
         UNCHANGED <<eventVars, wfmoVars, wfmo, i, result, waitIndex, bounded, setter>>
  PROVE  IInv'
<1>1. TypeOK'
  BY DEF IInv, TypeOK, WaiterAt, eventVars, wfmoVars
<1>2. MutexInv'
  BY DEF IInv, MutexInv, front, eventVars, wfmoVars
<1>3. WaitInv'
  BY DEF IInv, WaitInv, eventVars, wfmoVars
<1>4. RefInv'
  BY NothingCounted DEF eventVars, wfmoVars
<1> QED
  BY <1>1, <1>2, <1>3, <1>4 DEF IInv

LEMMA StutterIInv ==
  ASSUME IInv, UNCHANGED vars
  PROVE  IInv'
<1>1. RefInv'
  BY NothingCounted DEF vars, eventVars, wfmoVars, waiterVars
<1> QED
  BY <1>1 DEF IInv, TypeOK, MutexInv, WaitInv, front, vars, eventVars, wfmoVars, waiterVars

LEMMA AlwaysIInv == Spec => []IInv
<1>1. IInv /\ [Next]_vars => IInv'
  <2> SUFFICES ASSUME IInv, [Next]_vars
               PROVE  IInv'
    OBVIOUS
  <2>1. CASE EventsNext
    BY <2>1, EventsNextIInv
  <2>2. CASE WaitAgain
    BY <2>2, CallerIInv DEF WaitAgain
  <2>3. CASE UNCHANGED vars
    BY <2>3, StutterIInv
  <2> QED
    BY <2>1, <2>2, <2>3 DEF Next
<1> QED
  BY <1>1, InitIInv, PTL DEF Spec

(* Every variable of WaitForMultipleEvents and SetEvent keeps its type.   *)
THEOREM PeventsTypeCorrect == Spec => []TypeOK
<1>1. IInv => TypeOK
  BY DEF IInv
<1> QED
  BY <1>1, AlwaysIInv, PTL

(* RefCount of a wfmo is the number of those who have still to let go of   *)
(* it, so that it is freed by the last of them and by nobody before.       *)
THEOREM ReferencesExact == Spec => []RefCountExact
<1>1. IInv => RefCountExact
  BY DEF IInv, RefInv
<1> QED
  BY <1>1, AlwaysIInv, PTL

LEMMA IInvNoLeak == IInv => NoLeak
<1> SUFFICES ASSUME IInv, NEW v \in allocated, v # wfmo, Registered(v) = {}
             PROVE  FALSE
  BY DEF NoLeak
<1>1. v \in Waits /\ RefCount[v] \in Nat \ {0}
  BY DEF IInv, TypeOK, RefInv, AllocatedIsCounted
<1>2. RefCount[v] + Cardinality(Signalling(v)) = Cardinality(Registered(v)) + 0
  BY <1>1 DEF IInv, RefInv, RefCountExact
<1>3. Cardinality(Registered(v)) = 0
  BY FS_EmptySet
<1>4. Cardinality(Signalling(v)) \in Nat
  BY <1>1, SignallingRegistered DEF IInv
<1> QED
  BY <1>1, <1>2, <1>3, <1>4

(* A wfmo that no event and no wait refers to has been freed.             *)
THEOREM NothingLeaks == Spec => []NoLeak
BY IInvNoLeak, AlwaysIInv, PTL

-----------------------------------------------------------------------------
(* The refinement of ARSTWaitAny: LockEvent sets the event, BeginWait      *)
(* begins the wait, TakeEvent and Fire take an event, FinishWait returns   *)
(* it, and all the rest stutters.                                          *)


LEMMA InitImplements == Init => WaitAny!Init
BY DEF Init, WaitAny!Init

LEMMA WaiterImplements ==
  ASSUME IInv, WaitStep \/ WokenSpuriously
  PROVE  [WaitAny!Next]_(WaitAny!vars)
<1> USE DEF IInv, TypeOK, WaitInv
<1>1. CASE BeginWait
  <2>1. WaitAny!Wait
    BY <1>1, PeventsAssumption DEF BeginWait, WaitAny!Wait, eventVars
  <2> QED
    BY <2>1 DEF WaitAny!Next
<1>2. CASE TakeEvent
  <2>1. i \in Event
    BY <1>2 DEF TakeEvent, RefInv, NotYetRegistered
  <2>2. WaitAny!Take(i)
    BY <1>2, <2>1, IsWaiting DEF TakeEvent, WaitAny!Take
  <2> QED
    BY <2>1, <2>2 DEF WaitAny!Next
<1>3. CASE FinishWait
  <2>1. WaitAny!Return
    BY <1>3 DEF FinishWait, WaitAny!Return, eventVars
  <2> QED
    BY <2>1 DEF WaitAny!Next
<1>4. CASE RegisterWait \/ CheckDone \/ WokenBySignal \/ TimedOut \/ Relock \/ WokenSpuriously
  BY <1>4 DEF RegisterWait, CheckDone, WokenBySignal, TimedOut, Awake, Relock, WokenSpuriously,
              WaitAny!vars, eventVars
<1> QED
  BY <1>1, <1>2, <1>3, <1>4 DEF WaitStep

LEMMA SetterImplements ==
  ASSUME IInv, NEW t \in Setters, LockEvent(t) \/ SetStep(t)
  PROVE  [WaitAny!Next]_(WaitAny!vars)
<1>0. Target[t] \in Event
  BY PeventsAssumption
<1>1. CASE LockEvent(t)
  <2>1. WaitAny!Set(Target[t])
    BY <1>1 DEF LockEvent, WaitAny!Set, wfmoVars, waiterVars
  <2> QED
    BY <1>0, <2>1 DEF WaitAny!Next
<1>2. CASE Fire(t)
  <2>1. front(t) = wfmo /\ wfmo \in Waits /\ waiter \in {"sleep", "relock"}
    BY <1>2, FiredSleeps
  <2>2. FiredEvent[wfmo] = NoEvent /\ wfmo # NoWait
    BY <1>2, <2>1, PeventsAssumption DEF Fire, IInv, WaitInv
  <2>3. State[Target[t]]
    BY <1>2 DEF Fire, IInv, MutexInv
  <2>4. /\ State' = [State EXCEPT ![Target[t]] = FALSE]
        /\ FiredEvent'[wfmo] = Target[t]
        /\ UNCHANGED <<wfmo, waitIndex>>
    BY <1>2, <2>1 DEF Fire, IInv, TypeOK, waiterVars
  <2>5. WaitAny!Take(Target[t])
    BY <2>2, <2>3, <2>4 DEF WaitAny!Take
  <2> QED
    BY <1>0, <2>5 DEF WaitAny!Next
<1>3. CASE LeaveSet(t) \/ LockFront(t) \/ SkipExpired(t) \/ Signal(t)
  BY <1>3 DEF LeaveSet, LockFront, SkipExpired, Signal, WaitAny!vars, eventVars, wfmoVars,
              waiterVars
<1> QED
  BY <1>1, <1>2, <1>3 DEF SetStep

(* Mutexes, references and registered waits together implement ARSTWaitAny: *)
(* no event that was set is lost or taken twice, and a wait reports the     *)
(* event it took.                                                           *)
THEOREM PeventsImplementsWaitAny == Spec => ImplementsWaitAny
<1>1. IInv /\ [Next]_vars => [WaitAny!Next]_(WaitAny!vars)
  <2> SUFFICES ASSUME IInv, [Next]_vars
               PROVE  [WaitAny!Next]_(WaitAny!vars)
    OBVIOUS
  <2>1. CASE EventsNext
    BY <2>1, WaiterImplements, SetterImplements DEF EventsNext
  <2>2. CASE WaitAgain \/ UNCHANGED vars
    BY <2>2 DEF WaitAgain, vars, eventVars, wfmoVars, waiterVars, WaitAny!vars
  <2> QED
    BY <2>1, <2>2 DEF Next
<1> QED
  BY <1>1, InitImplements, AlwaysIInv, PTL DEF Spec, ImplementsWaitAny, WaitAny!Spec
=============================================================================
