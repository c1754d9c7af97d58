------------------------ MODULE ARSTWebConns_proofs ------------------------
(* Proofs about ARSTWebConns, for every set of objects, every configuration *)
(* and every heartbeat interval.                                           *)
EXTENDS ARSTWebConns, TLAPS

LEMMA InitIInv == Init => IInv
<1> SUFFICES ASSUME Init
             PROVE  IInv
  OBVIOUS
<1>1. Len(ServerName) \in Nat
  BY PoolAssumption
<1>2. main = "startup" /\ i = 0 /\ j = 1 /\ pServer = NoServer
  BY DEF Init
<1>3. m_vServerPool = [p \in Places |-> NoServer]
  BY DEF Init
<1>4. m_strName \in [Servers -> Name]
  <2>1. m_strName = [s \in Servers |-> ""]
    BY DEF Init
  <2> QED
    BY <2>1 DEF Name
<1>5. /\ m_nRunning \in [Servers -> {0, 1}]
      /\ m_nIdleTime \in [Servers -> Nat]
      /\ lateLines \in [Servers -> Nat]
      /\ \A s \in Servers : lateLines[s] = 0
  <2>1. /\ m_nRunning = [s \in Servers |-> 0]
        /\ m_nIdleTime = [s \in Servers |-> 0]
        /\ lateLines = [s \in Servers |-> 0]
    BY DEF Init
  <2> QED
    BY <2>1
<1>6. TypeOK
  <2>1. WebConnTypeOK
    BY <1>5 DEF Init, WebConnTypeOK, Status, ReaderAt, HeartbeatAt
  <2>2. i \in 0..Len(ServerName) + 1 /\ j \in 1..Len(ServerName) + 1
    BY <1>1, <1>2
  <2>3. m_vServerPool \in [Places -> Servers \cup {NoServer}]
    BY <1>3
  <2> QED
    BY <1>2, <1>4, <2>1, <2>2, <2>3 DEF TypeOK, MainAt
<1>7. \A s \in Servers : ObjectInv(s)
  <2> SUFFICES ASSUME NEW s \in Servers
               PROVE  ObjectInv(s)
    OBVIOUS
  <2>1. /\ m_ssServerStatus[s] = "ssNone" /\ statusLock[s] = "free"
        /\ reader[s] = "none" /\ heartbeat[s] = "none"
    BY DEF Init
  <2> QED
    BY <1>5, <2>1 DEF ObjectInv
<1>8. MainInv
  <2>1. \A p \in Places : m_vServerPool[p] = NoServer /\ p >= 1
    BY <1>1, <1>3 DEF Places
  <2> QED
    BY <1>2, <2>1 DEF MainInv
<1> QED
  BY <1>6, <1>7, <1>8 DEF IInv

(* A step of an object's threads preserves IInv: one case per action.      *)
LEMMA ServerStepIInv ==
  ASSUME IInv, NEW s \in Servers, ServerStep(s), UNCHANGED poolVars
  PROVE  IInv'
<1> USE HeartbeatAssumption DEF IInv, TypeOK, WebConnTypeOK, poolVars, processVars
<1>1. CASE RunPrologue(s)
  <2>1. TypeOK'
    BY <1>1 DEF RunPrologue, SetStatus, Goto, objectVars, Status, ReaderAt, HeartbeatAt
  <2>2. \A t \in Servers : ObjectInv(t)'
    BY <1>1 DEF RunPrologue, SetStatus, Goto, objectVars, ObjectInv, Status, ReaderAt, HeartbeatAt
  <2>3. MainInv'
    BY <1>1 DEF RunPrologue, SetStatus, Goto, objectVars, MainInv, ObjectInv, Places
  <2> QED
    BY <2>1, <2>2, <2>3
<1>2. CASE LeaveLoop(s)
  <2>1. TypeOK'
    BY <1>2 DEF LeaveLoop, Goto, objectVars, Status, ReaderAt, HeartbeatAt
  <2>2. \A t \in Servers : ObjectInv(t)'
    BY <1>2 DEF LeaveLoop, Goto, objectVars, ObjectInv, Status, ReaderAt, HeartbeatAt
  <2>3. MainInv'
    BY <1>2 DEF LeaveLoop, Goto, objectVars, MainInv, ObjectInv, Places
  <2> QED
    BY <2>1, <2>2, <2>3
<1>3. CASE EnterLoop(s)
  <2>1. TypeOK'
    BY <1>3 DEF EnterLoop, Goto, objectVars, Status, ReaderAt, HeartbeatAt
  <2>2. \A t \in Servers : ObjectInv(t)'
    BY <1>3 DEF EnterLoop, Goto, objectVars, ObjectInv, Status, ReaderAt, HeartbeatAt
  <2>3. MainInv'
    BY <1>3 DEF EnterLoop, Goto, objectVars, MainInv, ObjectInv, Places
  <2> QED
    BY <2>1, <2>2, <2>3
<1>4. CASE LockForRecv(s)
  <2>1. TypeOK'
    BY <1>4 DEF LockForRecv, Goto, objectVars, Status, ReaderAt, HeartbeatAt
  <2>2. \A t \in Servers : ObjectInv(t)'
    BY <1>4 DEF LockForRecv, Goto, objectVars, ObjectInv, Status, ReaderAt, HeartbeatAt
  <2>3. MainInv'
    BY <1>4 DEF LockForRecv, Goto, objectVars, MainInv, ObjectInv, Places
  <2> QED
    BY <2>1, <2>2, <2>3
<1>5. CASE RecvByte(s)
  <2>1. TypeOK'
    BY <1>5 DEF RecvByte, Receiving, TriggerGetReplyEvent, objectVars, Status, ReaderAt, HeartbeatAt
  <2>2. \A t \in Servers : ObjectInv(t)'
    BY <1>5 DEF RecvByte, Receiving, TriggerGetReplyEvent, objectVars, ObjectInv, Status, ReaderAt, HeartbeatAt
  <2>3. MainInv'
    BY <1>5 DEF RecvByte, Receiving, TriggerGetReplyEvent, objectVars, MainInv, ObjectInv, Places
  <2> QED
    BY <2>1, <2>2, <2>3
<1>6. CASE RecvLine(s)
  <2>1. TypeOK'
    BY <1>6 DEF RecvLine, Receiving, TriggerGetReplyEvent, Goto, objectVars, Status, ReaderAt, HeartbeatAt
  <2>2. \A t \in Servers : ObjectInv(t)'
    BY <1>6 DEF RecvLine, Receiving, TriggerGetReplyEvent, Goto, objectVars, ObjectInv, Status, ReaderAt, HeartbeatAt
  <2>3. MainInv'
    BY <1>6 DEF RecvLine, Receiving, TriggerGetReplyEvent, Goto, objectVars, MainInv, ObjectInv, Places
  <2> QED
    BY <2>1, <2>2, <2>3
<1>7. CASE RecvFailed(s)
  <2>1. TypeOK'
    BY <1>7 DEF RecvFailed, Close, Receiving, Goto, objectVars, Status, ReaderAt, HeartbeatAt
  <2>2. \A t \in Servers : ObjectInv(t)'
    BY <1>7 DEF RecvFailed, Close, Receiving, Goto, objectVars, ObjectInv, Status, ReaderAt, HeartbeatAt
  <2>3. MainInv'
    BY <1>7 DEF RecvFailed, Close, Receiving, Goto, objectVars, MainInv, ObjectInv, Places
  <2> QED
    BY <2>1, <2>2, <2>3
<1>8. CASE Park(s)
  <2>1. TypeOK'
    BY <1>8 DEF Park, SetStatus, Goto, objectVars, Status, ReaderAt, HeartbeatAt
  <2>2. \A t \in Servers : ObjectInv(t)'
    BY <1>8 DEF Park, SetStatus, Goto, objectVars, ObjectInv, Status, ReaderAt, HeartbeatAt
  <2>3. MainInv'
    BY <1>8 DEF Park, SetStatus, Goto, objectVars, MainInv, ObjectInv, Places
  <2> QED
    BY <2>1, <2>2, <2>3
<1>9. CASE SendData(s)
  <2>1. TypeOK'
    BY <1>9 DEF SendData, Goto, objectVars, Status, ReaderAt, HeartbeatAt
  <2>2. \A t \in Servers : ObjectInv(t)'
    BY <1>9 DEF SendData, Goto, objectVars, ObjectInv, Status, ReaderAt, HeartbeatAt
  <2>3. MainInv'
    BY <1>9 DEF SendData, Goto, objectVars, MainInv, ObjectInv, Places
  <2> QED
    BY <2>1, <2>2, <2>3
<1>10. CASE AssertFailsOnNoDAO(s)
  <2>1. TypeOK'
    BY <1>10 DEF AssertFailsOnNoDAO, objectVars, Status, ReaderAt, HeartbeatAt
  <2>2. \A t \in Servers : ObjectInv(t)'
    BY <1>10 DEF AssertFailsOnNoDAO, objectVars, ObjectInv, Status, ReaderAt, HeartbeatAt
  <2>3. MainInv'
    BY <1>10 DEF AssertFailsOnNoDAO, objectVars, MainInv, ObjectInv, Places
  <2> QED
    BY <2>1, <2>2, <2>3
<1>11. CASE HeartbeatReply(s)
  <2>1. TypeOK'
    BY <1>11 DEF HeartbeatReply, objectVars, Status, ReaderAt, HeartbeatAt
  <2>2. \A t \in Servers : ObjectInv(t)'
    BY <1>11 DEF HeartbeatReply, objectVars, ObjectInv, Status, ReaderAt, HeartbeatAt
  <2>3. MainInv'
    BY <1>11 DEF HeartbeatReply, objectVars, MainInv, ObjectInv, Places
  <2> QED
    BY <2>1, <2>2, <2>3
<1>12. CASE HeartbeatTimeout(s)
  <2>1. TypeOK'
    BY <1>12 DEF HeartbeatTimeout, objectVars, Status, ReaderAt, HeartbeatAt
  <2>2. \A t \in Servers : ObjectInv(t)'
    BY <1>12 DEF HeartbeatTimeout, objectVars, ObjectInv, Status, ReaderAt, HeartbeatAt
  <2>3. MainInv'
    BY <1>12 DEF HeartbeatTimeout, objectVars, MainInv, ObjectInv, Places
  <2> QED
    BY <2>1, <2>2, <2>3
<1>13. CASE HeartbeatLost(s)
  <2>1. TypeOK'
    BY <1>13 DEF HeartbeatLost, SetStatus, objectVars, Status, ReaderAt, HeartbeatAt
  <2>2. \A t \in Servers : ObjectInv(t)'
    BY <1>13 DEF HeartbeatLost, SetStatus, objectVars, ObjectInv, Status, ReaderAt, HeartbeatAt
  <2>3. MainInv'
    BY <1>13 DEF HeartbeatLost, SetStatus, objectVars, MainInv, ObjectInv, Places
  <2> QED
    BY <2>1, <2>2, <2>3
<1>14. CASE PeerGone(s)
  <2>1. TypeOK'
    BY <1>14 DEF PeerGone, objectVars, Status, ReaderAt, HeartbeatAt
  <2>2. \A t \in Servers : ObjectInv(t)'
    BY <1>14 DEF PeerGone, objectVars, ObjectInv, Status, ReaderAt, HeartbeatAt
  <2>3. MainInv'
    BY <1>14 DEF PeerGone, objectVars, MainInv, ObjectInv, Places
  <2> QED
    BY <2>1, <2>2, <2>3
<1> QED
  BY <1>1, <1>2, <1>3, <1>4, <1>5, <1>6, <1>7, <1>8, <1>9, <1>10, <1>11, <1>12, <1>13, <1>14
     DEF ServerStep, ReaderStep, HeartbeatWait

LEMMA NewServerTypeOK ==
  ASSUME TypeOK, NEW s \in Servers, NEW name \in Name, NewServer(s, name)
  PROVE  TypeOK'
<1> USE DEF TypeOK, WebConnTypeOK, NewServer, processVars
<1>1. /\ m_ssServerStatus' \in [Servers -> Status]
      /\ statusLock' \in [Servers -> {"free", "reader"}]
      /\ m_nRunning' \in [Servers -> {0, 1}]
      /\ reader' \in [Servers -> ReaderAt]
      /\ heartbeat' \in [Servers -> HeartbeatAt]
  BY DEF Status, ReaderAt, HeartbeatAt
<1>2. /\ socketStatus' \in [Servers -> {"cssNone", "cssConnecting", "cssConnected",
                                       "cssDisconnect"}]
      /\ peer' \in [Servers -> {"none", "up", "gone"}]
      /\ m_nIdleTime' \in [Servers -> Nat]
      /\ replyEvent' \in [Servers -> BOOLEAN]
      /\ lateLines' \in [Servers -> Nat]
  OBVIOUS
<1>3. /\ m_strName' \in [Servers -> Name]
      /\ main' \in MainAt
      /\ pServer' \in Servers \cup {NoServer}
  BY DEF MainAt
<1> QED
  BY <1>1, <1>2, <1>3

(* A step of the main thread preserves IInv.                              *)
LEMMA MainStepIInv ==
  ASSUME IInv, MainStep
  PROVE  IInv'
<1> USE HeartbeatAssumption, PoolAssumption
    DEF IInv, TypeOK, WebConnTypeOK, objectVars, poolVars, processVars
<1>a. Len(ServerName) \in Nat
  BY PoolAssumption
<1>1. CASE AddFreeServer
  <2>1. TypeOK'
    <3>1. PICK s \in Servers : NewServer(s, ServerName[j])
      BY <1>1 DEF AddFreeServer
    <3>2. ServerName[j] \in Name
      BY <1>1 DEF AddFreeServer, Name
    <3> QED
      BY <3>1, <3>2, NewServerTypeOK
  <2>2. \A t \in Servers : ObjectInv(t)'
    BY <1>1 DEF AddFreeServer, NewServer, Inert, MainInv, ObjectInv
  <2>3. MainInv'
    BY <1>a, <1>1 DEF AddFreeServer, NewServer, Inert, MainInv, ObjectInv, Places
  <2> QED
    BY <2>1, <2>2, <2>3
<1>2. CASE StartUpServersReturns
  <2>1. TypeOK'
    BY <1>a, <1>2 DEF StartUpServersReturns, MainInv, Places, Status, ReaderAt, MainAt
  <2>2. \A t \in Servers : ObjectInv(t)'
    BY <1>2 DEF StartUpServersReturns, MainInv, ObjectInv
  <2>3. MainInv'
    BY <1>a, <1>2 DEF StartUpServersReturns, MainInv, ObjectInv, Places
  <2> QED
    BY <2>1, <2>2, <2>3
<1>3. CASE StartUpDAOs
  <2>1. TypeOK'
    BY <1>a, <1>3 DEF StartUpDAOs, MainInv, Places, Status, ReaderAt, MainAt
  <2>2. \A t \in Servers : ObjectInv(t)'
    BY <1>3 DEF StartUpDAOs, MainInv, ObjectInv
  <2>3. MainInv'
    BY <1>a, <1>3 DEF StartUpDAOs, MainInv, ObjectInv, Places
  <2> QED
    BY <2>1, <2>2, <2>3
<1>4. CASE ConnectStartsThread
  <2>1. TypeOK'
    BY <1>a, <1>4 DEF ConnectStartsThread, MainInv, Places, Status, ReaderAt, MainAt
  <2>2. \A t \in Servers : ObjectInv(t)'
    BY <1>4 DEF ConnectStartsThread, MainInv, ObjectInv
  <2>3. MainInv'
    BY <1>a, <1>4 DEF ConnectStartsThread, MainInv, ObjectInv, Places
  <2> QED
    BY <2>1, <2>2, <2>3
<1>5. CASE StartReturns
  <2>1. TypeOK'
    BY <1>a, <1>5 DEF StartReturns, StoreServer, MainInv, Places, Status, ReaderAt, MainAt
  <2>2. \A t \in Servers : ObjectInv(t)'
    BY <1>5 DEF StartReturns, StoreServer, MainInv, ObjectInv
  <2>3. MainInv'
    BY <1>a, <1>5 DEF StartReturns, StoreServer, MainInv, ObjectInv, Places
  <2> QED
    BY <2>1, <2>2, <2>3
<1>6. CASE ConnectWithoutThread
  <2>1. TypeOK'
    BY <1>a, <1>6 DEF ConnectWithoutThread, StoreServer, MainInv, Places, Status, ReaderAt, MainAt
  <2>2. \A t \in Servers : ObjectInv(t)'
    BY <1>6 DEF ConnectWithoutThread, StoreServer, MainInv, ObjectInv
  <2>3. MainInv'
    BY <1>a, <1>6 DEF ConnectWithoutThread, StoreServer, MainInv, ObjectInv, Places
  <2> QED
    BY <2>1, <2>2, <2>3
<1>7. CASE ConnectFails
  <2>1. TypeOK'
    BY <1>a, <1>7 DEF ConnectFails, StoreServer, SetStatus, MainInv, Places, Status, ReaderAt, MainAt
  <2>2. \A t \in Servers : ObjectInv(t)'
    BY <1>7 DEF ConnectFails, StoreServer, SetStatus, MainInv, ObjectInv
  <2>3. MainInv'
    BY <1>a, <1>7 DEF ConnectFails, StoreServer, SetStatus, MainInv, ObjectInv, Places
  <2> QED
    BY <2>1, <2>2, <2>3
<1>8. CASE ResolveFails
  <2>1. TypeOK'
    BY <1>a, <1>8 DEF ResolveFails, MainInv, Places, Status, ReaderAt, MainAt
  <2>2. \A t \in Servers : ObjectInv(t)'
    BY <1>8 DEF ResolveFails, MainInv, ObjectInv
  <2>3. MainInv'
    BY <1>a, <1>8 DEF ResolveFails, MainInv, ObjectInv, Places
  <2> QED
    BY <2>1, <2>2, <2>3
<1>9. CASE FindBroken
  <2>1. TypeOK'
    BY <1>a, <1>9 DEF FindBroken, MainInv, Places, Status, ReaderAt, MainAt
  <2>2. \A t \in Servers : ObjectInv(t)'
    BY <1>9 DEF FindBroken, MainInv, ObjectInv
  <2>3. MainInv'
    BY <1>a, <1>9 DEF FindBroken, MainInv, ObjectInv, Places
  <2> QED
    BY <2>1, <2>2, <2>3
<1>10. CASE PollNext
  <2>1. TypeOK'
    BY <1>a, <1>10 DEF PollNext, MainInv, Places, Status, ReaderAt, MainAt
  <2>2. \A t \in Servers : ObjectInv(t)'
    BY <1>10 DEF PollNext, MainInv, ObjectInv
  <2>3. MainInv'
    BY <1>a, <1>10 DEF PollNext, MainInv, ObjectInv, Places
  <2> QED
    BY <2>1, <2>2, <2>3
<1>11. CASE Reconnect
  <2>1. TypeOK'
    <3>1. PICK s \in Servers : NewServer(s, ServerName[j])
      BY <1>11 DEF Reconnect
    <3>2. ServerName[j] \in Name
      BY <1>11 DEF Reconnect, Name
    <3> QED
      BY <3>1, <3>2, NewServerTypeOK
  <2>2. \A t \in Servers : ObjectInv(t)'
    BY <1>11 DEF Reconnect, NewServer, Inert, SameName, MainInv, ObjectInv
  <2>3. MainInv'
    BY <1>a, <1>11 DEF Reconnect, NewServer, Inert, SameName, MainInv, ObjectInv, Places
  <2> QED
    BY <2>1, <2>2, <2>3
<1>12. CASE ScanNext
  <2>1. TypeOK'
    BY <1>a, <1>12 DEF ScanNext, MainInv, Places, Status, ReaderAt, MainAt
  <2>2. \A t \in Servers : ObjectInv(t)'
    BY <1>12 DEF ScanNext, MainInv, ObjectInv
  <2>3. MainInv'
    BY <1>a, <1>12 DEF ScanNext, MainInv, ObjectInv, Places
  <2> QED
    BY <2>1, <2>2, <2>3
<1>13. CASE ScanDone
  <2>1. TypeOK'
    BY <1>a, <1>13 DEF ScanDone, MainInv, Places, Status, ReaderAt, MainAt
  <2>2. \A t \in Servers : ObjectInv(t)'
    BY <1>13 DEF ScanDone, MainInv, ObjectInv
  <2>3. MainInv'
    BY <1>a, <1>13 DEF ScanDone, MainInv, ObjectInv, Places
  <2> QED
    BY <2>1, <2>2, <2>3
<1> QED
  BY <1>1, <1>2, <1>3, <1>4, <1>5, <1>6, <1>7, <1>8, <1>9, <1>10, <1>11, <1>12, <1>13
     DEF MainStep

LEMMA NextIInv == IInv /\ [Next]_vars => IInv'
<1> SUFFICES ASSUME IInv, [Next]_vars
             PROVE  IInv'
  OBVIOUS
<1>1. CASE MainStep
  BY <1>1, MainStepIInv
<1>2. ASSUME NEW s \in Servers, ServerStep(s), UNCHANGED poolVars
      PROVE  IInv'
  BY <1>2, ServerStepIInv
<1>3. CASE UNCHANGED vars
  BY <1>3 DEF vars, objectVars, processVars, poolVars, IInv, TypeOK, WebConnTypeOK,
              ObjectInv, MainInv
<1> QED
  BY <1>1, <1>2, <1>3 DEF Next

LEMMA AlwaysIInv == Spec => []IInv
BY InitIInv, NextIInv, PTL DEF Spec

(* Every variable keeps its type; in particular the places of the pool and *)
(* of the configuration that CheckClientVector counts stay in range.       *)
THEOREM TypeCorrect == Spec => []TypeOK
BY AlwaysIInv, PTL DEF IInv

(* The status lock is only ever kept by a reader that is in recv() on a    *)
(* connection it has not seen fail: no other path leaves it locked.        *)
THEOREM LockNotLeaked == Spec => []StatusLockNotLeaked
<1>1. IInv => StatusLockNotLeaked
  BY DEF IInv, TypeOK, WebConnTypeOK, Status, ObjectInv, StatusLockNotLeaked, Receiving
<1> QED
  BY <1>1, AlwaysIInv, PTL

(* A connection delivers at most one line after it was marked broken.     *)
THEOREM LateLineOnce == Spec => []AtMostOneLateLine
<1>1. IInv => AtMostOneLateLine
  BY DEF IInv, ObjectInv, AtMostOneLateLine
<1> QED
  BY <1>1, AlwaysIInv, PTL

-----------------------------------------------------------------------------
(* What is broken stays broken until its memory is used for a new object,  *)
(* which is never an object of the pool.                                   *)
LEMMA BreakdownIsFinal ==
  ASSUME IInv, [Next]_vars, NEW t \in Servers,
         m_ssServerStatus[t] = "ssBreakdown", InPool(t) \/ pServer' # t
  PROVE  m_ssServerStatus'[t] = "ssBreakdown"
<1> USE DEF IInv, TypeOK, WebConnTypeOK
<1>1. ASSUME NEW s \in Servers, ServerStep(s)
      PROVE  m_ssServerStatus'[t] = "ssBreakdown"
  <2>1. CASE RunPrologue(s)
    BY <2>1 DEF RunPrologue, SetStatus, ObjectInv
  <2>2. CASE Park(s) \/ HeartbeatLost(s)
    BY <2>2 DEF Park, HeartbeatLost, SetStatus
  <2>3. CASE UNCHANGED m_ssServerStatus
    BY <2>3
  <2> QED
    BY <1>1, <2>1, <2>2, <2>3
       DEF ServerStep, ReaderStep, HeartbeatWait, LeaveLoop, EnterLoop, LockForRecv,
           RecvFailed, Close, SendData, AssertFailsOnNoDAO, RecvByte, RecvLine,
           HeartbeatReply, HeartbeatTimeout, PeerGone, objectVars
<1>2. CASE MainStep
  <2>1. ASSUME NEW s \in Servers, NEW name, NewServer(s, name)
        PROVE  m_ssServerStatus'[t] = "ssBreakdown"
    BY <2>1 DEF NewServer, Inert
  <2>2. CASE ConnectFails
    BY <2>2 DEF ConnectFails, SetStatus
  <2>3. CASE UNCHANGED m_ssServerStatus
    BY <2>3
  <2> QED
    BY <1>2, <2>1, <2>2, <2>3
       DEF MainStep, AddFreeServer, Reconnect, StartUpServersReturns, StartUpDAOs,
           ConnectStartsThread, StartReturns, ConnectWithoutThread, ResolveFails,
           FindBroken, PollNext, ScanNext, ScanDone, objectVars
<1>3. CASE UNCHANGED vars
  BY <1>3 DEF vars, objectVars
<1> QED
  BY <1>1, <1>2, <1>3 DEF Next

(* The object of place i, once the pool is filled, is one of the pool's.   *)
LEMMA PlaceHoldsObject ==
  ASSUME IInv, i > 0, i \in Places
  PROVE  m_vServerPool[i] \in Servers /\ InPool(m_vServerPool[i])
BY DEF IInv, TypeOK, MainInv, InPool

(* The three steps in which an object is put into a place of the pool.     *)
Stores == main \in {"connect", "started"} /\ StoreServer

(* A place of the pool changes only there.                                *)
LEMMA PoolSteps ==
  ASSUME [Next]_vars, ~Stores
  PROVE  UNCHANGED m_vServerPool
<1>1. ASSUME NEW s \in Servers, NEW name, NewServer(s, name)
      PROVE  UNCHANGED m_vServerPool
  BY <1>1 DEF NewServer
<1> QED
  BY <1>1 DEF Stores, Next, vars, poolVars, MainStep, AddFreeServer, Reconnect,
           StartUpServersReturns, StartUpDAOs, ConnectStartsThread, StartReturns,
           ConnectWithoutThread, ConnectFails, ResolveFails, FindBroken, PollNext,
           ScanNext, ScanDone

(* With distinct names, a place is given a new object only while the one   *)
(* it holds is broken.                                                     *)
LEMMA ReplaceInvStep ==
  ASSUME DistinctNames, IInv, ReplaceInv, [Next]_vars
  PROVE  ReplaceInv'
<1> USE PoolAssumption DEF IInv, TypeOK, WebConnTypeOK
<1>1. ASSUME NEW s \in Servers, UNCHANGED poolVars
      PROVE  ReplaceInv'
  <2>1. ASSUME i > 0, i \in Places, m_ssServerStatus[m_vServerPool[i]] = "ssBreakdown"
        PROVE  m_ssServerStatus'[m_vServerPool[i]] = "ssBreakdown"
    BY <2>1, PlaceHoldsObject, BreakdownIsFinal
  <2>2. main = "scan" \/ pServer # NoServer => i \in 0..Len(ServerName) + 1
                                             /\ (i > 0 => i \in Places)
    BY DEF MainInv, Places
  <2>3. i \in Places => i > 0
    BY DEF Places
  <2> QED
    BY <1>1, <2>1, <2>2, <2>3 DEF ReplaceInv, SameName, MainInv, poolVars
<1>2. ASSUME Stores, UNCHANGED m_strName
      PROVE  ReplaceInv'
  <2>1. CASE i = 0
    BY <1>2, <2>1 DEF Stores, StoreServer, ReplaceInv
  <2>2. CASE i # 0
    <3>1. /\ pServer \in Servers /\ j \in Places /\ i \in Places
          /\ m_strName[pServer] = ServerName[j]
      BY <1>2, <2>2 DEF Stores, MainInv, Places
    <3>2. /\ main' = "scan" /\ pServer' = NoServer /\ i' = i /\ j' = j + 1
          /\ m_vServerPool'[i] = pServer
      BY <1>2, <2>2, <3>1 DEF Stores, StoreServer
    <3>3. ASSUME NEW c \in Places, c >= j + 1
          PROVE  ServerName[c] # ServerName[j]
      BY <3>1, <3>3 DEF DistinctNames, Places
    <3> QED
      BY <1>2, <3>1, <3>2, <3>3 DEF ReplaceInv, SameName
  <2> QED
    BY <2>1, <2>2
<1>3. CASE ConnectStartsThread
  BY <1>3 DEF ConnectStartsThread, ReplaceInv
<1>4. CASE AddFreeServer
  BY <1>4 DEF AddFreeServer, NewServer, ReplaceInv, MainInv
<1>5. CASE FindBroken
  BY <1>5 DEF FindBroken, ReplaceInv, MainInv, objectVars
<1>6. CASE Reconnect
  <2>1. PICK s \in Servers : NewServer(s, ServerName[j])
    BY <1>6 DEF Reconnect
  <2>2. i \in Places /\ i > 0
    BY <1>6 DEF Reconnect, MainInv, Places
  <2>3. m_ssServerStatus[m_vServerPool[i]] = "ssBreakdown"
    BY <1>6, <2>2 DEF Reconnect, ReplaceInv, Places
  <2>4. m_ssServerStatus'[m_vServerPool[i]] = "ssBreakdown"
    BY <2>2, <2>3, PlaceHoldsObject, BreakdownIsFinal
  <2> QED
    BY <2>1, <2>4 DEF NewServer, ReplaceInv
<1>7. CASE ScanNext
  <2>1. \A c \in Places : c >= j + 1 => c >= j
    BY DEF Places
  <2>2. pServer = NoServer
    BY <1>7 DEF ScanNext, MainInv
  <2>3. \A c : SameName(c)' <=> SameName(c)
    BY <1>7 DEF ScanNext, SameName
  <2> QED
    BY <1>7, <2>1, <2>2, <2>3 DEF ScanNext, ReplaceInv, objectVars
<1>8. CASE StartUpServersReturns \/ StartUpDAOs \/ PollNext \/ ScanDone
  BY <1>8 DEF StartUpServersReturns, StartUpDAOs, PollNext, ScanDone, ReplaceInv, MainInv
<1>9. CASE ResolveFails \/ UNCHANGED vars
  BY <1>9 DEF ResolveFails, vars, objectVars, poolVars, ReplaceInv, SameName
<1>10. CASE StartReturns \/ ConnectWithoutThread \/ ConnectFails
  <2>1. Stores /\ UNCHANGED m_strName
    BY <1>10 DEF StartReturns, ConnectWithoutThread, ConnectFails, Stores, StoreServer
  <2> QED
    BY <1>2, <2>1
<1> QED
  BY <1>1, <1>3, <1>4, <1>5, <1>6, <1>7, <1>8, <1>9, <1>10 DEF Next, MainStep

(* Main can replace only what is broken.                                  *)
LEMMA StoresReplaceBroken ==
  ASSUME IInv, ReplaceInv, Stores,
         NEW p \in Places, m_vServerPool'[p] # m_vServerPool[p],
         m_vServerPool[p] # NoServer
  PROVE  m_ssServerStatus[m_vServerPool[p]] = "ssBreakdown"
<1> USE DEF IInv, TypeOK
<1>1. pServer # NoServer
  BY DEF Stores, MainInv
<1>2. CASE i = 0
  <2>1. p = j
    BY <1>2 DEF Stores, StoreServer
  <2>2. p >= j
    BY <2>1, PoolAssumption DEF Places
  <2> QED
    BY <1>2, <2>2 DEF MainInv
<1>3. CASE i # 0
  <2>1. p = i /\ i > 0
    BY <1>3, PoolAssumption DEF Stores, StoreServer
  <2> QED
    BY <1>1, <2>1 DEF ReplaceInv
<1> QED
  BY <1>2, <1>3

LEMMA NoOrphanStep ==
  ASSUME IInv, ReplaceInv, NoOrphan, [Next]_vars
  PROVE  NoOrphan'
<1> SUFFICES ASSUME NEW t \in Servers,
                    socketStatus'[t] # "cssNone", ~InPool(t)', pServer' # t
             PROVE  m_ssServerStatus'[t] = "ssBreakdown"
  BY DEF NoOrphan
<1> USE PoolAssumption DEF IInv, TypeOK, WebConnTypeOK
<1>1. SUFFICES m_ssServerStatus[t] = "ssBreakdown"
  BY <1>1, BreakdownIsFinal
<1>2. CASE Stores
  <2>1. t # pServer
    <3>1. pServer \in Servers /\ j \in Places /\ i \in 0..Len(ServerName)
      BY <1>2 DEF Stores, MainInv
    <3>2. PICK q \in Places : m_vServerPool'[q] = pServer
      <4> DEFINE p == IF i = 0 THEN j ELSE i
      <4>1. p \in Places /\ m_vServerPool'[p] = pServer
        BY <1>2, <3>1 DEF Stores, StoreServer, Places
      <4> QED
        BY <4>1
    <3>3. m_vServerPool'[q] # t
      BY DEF InPool
    <3> QED
      BY <3>2, <3>3
  <2>2. CASE InPool(t)
    <3>1. PICK p \in Places : m_vServerPool[p] = t
      BY <2>2 DEF InPool
    <3>2. m_vServerPool'[p] # t
      BY <3>1 DEF InPool
    <3> QED
      BY <1>2, <3>1, <3>2, StoresReplaceBroken
  <2>3. CASE ~InPool(t)
    <3>1. socketStatus[t] # "cssNone"
      BY <1>2, <2>1 DEF Stores, StoreServer, Next, vars, poolVars, MainStep, AddFreeServer,
         Reconnect, NewServer, StartUpServersReturns, StartUpDAOs, ConnectStartsThread,
         StartReturns, ConnectWithoutThread, ConnectFails, ResolveFails, FindBroken,
         PollNext, ScanNext, ScanDone, MainInv
    <3> QED
      BY <2>1, <2>3, <3>1 DEF NoOrphan
  <2> QED
    BY <2>2, <2>3
<1>3. CASE ~Stores
  <2>1. ~InPool(t)
    BY <1>3, PoolSteps DEF InPool
  <2>2. socketStatus[t] # "cssNone" /\ pServer # t
    <3>1. ASSUME NEW s \in Servers, ServerStep(s), UNCHANGED poolVars
          PROVE  socketStatus[t] # "cssNone" /\ pServer # t
      BY <3>1 DEF poolVars, ServerStep, ReaderStep, HeartbeatWait, RunPrologue,
           LeaveLoop, EnterLoop, LockForRecv, RecvFailed, Close, Receiving, Park, SendData,
           AssertFailsOnNoDAO, RecvByte, RecvLine, HeartbeatReply, HeartbeatTimeout,
           HeartbeatLost, PeerGone, objectVars
    <3>2. ASSUME NEW s \in Servers, NEW name, NewServer(s, name), pServer = NoServer
          PROVE  socketStatus[t] # "cssNone" /\ pServer # t
      BY <3>2 DEF NewServer
    <3>3. CASE AddFreeServer \/ Reconnect
      BY <3>2, <3>3 DEF AddFreeServer, Reconnect, MainInv
    <3>4. CASE ConnectStartsThread
      BY <3>4 DEF ConnectStartsThread
    <3>5. CASE \/ StartUpServersReturns \/ StartUpDAOs \/ ResolveFails \/ FindBroken
               \/ PollNext \/ ScanNext \/ ScanDone \/ UNCHANGED vars
      BY <3>5 DEF StartUpServersReturns, StartUpDAOs, ResolveFails, FindBroken, PollNext,
           ScanNext, ScanDone, vars, objectVars, poolVars
    <3>6. ~StartReturns /\ ~ConnectWithoutThread /\ ~ConnectFails
      BY <1>3 DEF Stores, StartReturns, ConnectWithoutThread, ConnectFails
    <3> QED
      BY <3>1, <3>3, <3>4, <3>5, <3>6 DEF Next, MainStep
  <2> QED
    BY <2>1, <2>2 DEF NoOrphan
<1> QED
  BY <1>2, <1>3

LEMMA AlwaysPoolInv ==
  ASSUME DistinctNames
  PROVE  Spec => [](IInv /\ ReplaceInv /\ NoOrphan)
<1>1. Init => ReplaceInv /\ NoOrphan
  BY DEF Init, ReplaceInv, NoOrphan
<1>2. IInv /\ ReplaceInv /\ NoOrphan /\ [Next]_vars => (IInv /\ ReplaceInv /\ NoOrphan)'
  BY NextIInv, ReplaceInvStep, NoOrphanStep
<1> QED
  BY <1>1, <1>2, InitIInv, PTL DEF Spec

(* Where the configuration names no server twice, an object that has been  *)
(* constructed stays in its place of the pool until it has broken down.    *)
THEOREM WorkingStaysInPool ==
  ASSUME DistinctNames
  PROVE  Spec => []NoOrphan
BY AlwaysPoolInv, PTL

(* The status CheckClientVector saw before it slept is still the status of *)
(* the object it replaces, the connect() of the new one included.          *)
THEOREM OnlyBrokenReplaced ==
  ASSUME DistinctNames
  PROVE  Spec => ReplacedIsBroken
<1> DEFINE Replaced(p) == m_vServerPool'[p] # m_vServerPool[p] /\ m_vServerPool[p] # NoServer
           Broken(p) == m_ssServerStatus[m_vServerPool[p]] = "ssBreakdown"
<1>1. IInv /\ ReplaceInv /\ [Next]_vars
        => [\A p \in Places : Replaced(p) => Broken(p)]_vars
  <2> SUFFICES ASSUME IInv, ReplaceInv, [Next]_vars, NEW p \in Places, Replaced(p)
               PROVE  Broken(p)
    OBVIOUS
  <2>1. Stores
    BY PoolSteps
  <2> QED
    BY <2>1, StoresReplaceBroken
<1> QED
  BY <1>1, AlwaysPoolInv, PTL DEF Spec, ReplacedIsBroken

-----------------------------------------------------------------------------
(* Where every thread that is created starts, WatchInv is inductive too.   *)
LEMMA WatchInvServerStep ==
  ASSUME ~CreateMayFail, IInv, WatchInv,
         NEW s \in Servers, ServerStep(s), UNCHANGED poolVars
  PROVE  WatchInv'
<1> USE DEF IInv, TypeOK, WebConnTypeOK, poolVars, WatchInv, InPool
<1>1. CASE RunPrologue(s)
  BY <1>1 DEF RunPrologue, SetStatus, Goto
<1>2. ASSUME NEW place \in ReaderAt \ {"none"},
             Goto(s, place), reader[s] \notin {"none", "run"},
             UNCHANGED <<m_ssServerStatus, heartbeat>>
      PROVE  WatchInv'
  BY <1>2 DEF Goto
<1>3. CASE LeaveLoop(s)
  BY <1>2, <1>3 DEF LeaveLoop, ReaderAt
<1>4. CASE EnterLoop(s)
  BY <1>2, <1>4 DEF EnterLoop, ReaderAt
<1>5. CASE LockForRecv(s)
  BY <1>2, <1>5 DEF LockForRecv, ReaderAt
<1>6. CASE RecvLine(s)
  BY <1>2, <1>6 DEF RecvLine, Receiving, ReaderAt
<1>7. CASE RecvFailed(s)
  BY <1>2, <1>7 DEF RecvFailed, Close, Receiving, ReaderAt
<1>8. CASE SendData(s)
  BY <1>2, <1>8 DEF SendData, ReaderAt
<1>9. CASE RecvByte(s)
  BY <1>9 DEF RecvByte
<1>10. CASE Park(s)
  BY <1>10 DEF Park, SetStatus, Goto
<1>11. CASE HeartbeatLost(s)
  BY <1>11 DEF HeartbeatLost, SetStatus
<1>12. CASE HeartbeatReply(s)
  BY <1>12 DEF HeartbeatReply
<1>13. CASE HeartbeatTimeout(s)
  BY <1>13 DEF HeartbeatTimeout
<1>14. CASE AssertFailsOnNoDAO(s)
  BY <1>14 DEF AssertFailsOnNoDAO, objectVars
<1>15. CASE PeerGone(s)
  BY <1>15 DEF PeerGone
<1> QED
  BY <1>1, <1>3, <1>4, <1>5, <1>6, <1>7, <1>8, <1>9, <1>10, <1>11, <1>12, <1>13,
     <1>14, <1>15
     DEF ServerStep, ReaderStep, HeartbeatWait

LEMMA WatchInvMainStep ==
  ASSUME ~CreateMayFail, IInv, WatchInv, MainStep
  PROVE  WatchInv'
<1> USE PoolAssumption DEF IInv, TypeOK, WebConnTypeOK, WatchInv, InPool
<1>1. ASSUME NEW s \in Servers, NEW name, NewServer(s, name)
      PROVE  WatchInv'
  BY <1>1 DEF NewServer, Inert
<1>2. CASE ConnectStartsThread
  BY <1>2 DEF ConnectStartsThread, MainInv
<1>3. CASE StartReturns
  BY <1>3 DEF StartReturns, StoreServer, MainInv
<1>4. CASE ConnectWithoutThread
  BY <1>4 DEF ConnectWithoutThread
<1>5. CASE ConnectFails
  BY <1>5 DEF ConnectFails, SetStatus, StoreServer
<1>6. CASE UNCHANGED <<m_ssServerStatus, reader, heartbeat, m_vServerPool>>
  BY <1>6
<1> QED
  BY <1>1, <1>2, <1>3, <1>4, <1>5, <1>6
     DEF MainStep, AddFreeServer, Reconnect, StartUpServersReturns, StartUpDAOs,
         ResolveFails, FindBroken, PollNext, ScanNext, ScanDone, objectVars, poolVars

(* If pthread_create does not fail, every connection of the pool that is   *)
(* not marked broken is watched by a heartbeat, or about to be: the races  *)
(* of Start() and of connect() leave none behind unnoticed.                *)
THEOREM EveryConnectionWatched ==
  ASSUME ~CreateMayFail
  PROVE  Spec => []Watched
<1>1. Init => WatchInv
  <2> SUFFICES ASSUME Init, NEW s \in Servers
               PROVE  reader[s] = "none" /\ ~InPool(s)
    BY DEF WatchInv
  <2>1. reader = [t \in Servers |-> "none"]
    BY DEF Init
  <2>2. m_vServerPool = [p \in Places |-> NoServer]
    BY DEF Init
  <2> QED
    BY <2>1, <2>2, PoolAssumption DEF InPool
<1>2. IInv /\ WatchInv /\ [Next]_vars => WatchInv'
  <2> SUFFICES ASSUME IInv, WatchInv, [Next]_vars
               PROVE  WatchInv'
    OBVIOUS
  <2>1. CASE UNCHANGED vars
    BY <2>1 DEF vars, objectVars, poolVars, WatchInv, InPool
  <2> QED
    BY <2>1, WatchInvServerStep, WatchInvMainStep DEF Next
<1>3. WatchInv => Watched
  BY DEF WatchInv, Watched
<1> QED
  BY <1>1, <1>2, <1>3, AlwaysIInv, PTL DEF Spec
=============================================================================
