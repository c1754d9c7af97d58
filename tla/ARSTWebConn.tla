---------------------------- MODULE ARSTWebConn ----------------------------
(***************************************************************************)
(* One upstream quote connection: an ARSTServer object with its socket,    *)
(* its reader thread (ARSTServer::Run) and its heartbeat thread            *)
(* (ARSTHeartbeat::Run with ARSTServer as the callback).                   *)
(*                                                                         *)
(* The reader holds m_pmtxServerStatusLock while it is blocked in recv(),  *)
(* and every SetStatus takes the same lock: that is the interaction this   *)
(* module is about.  The main thread that creates the objects and replaces *)
(* the broken ones is in module ARSTWebConns.                              *)
(***************************************************************************)
EXTENDS Integers

CONSTANTS
  Servers,         (* identities of ARSTServer objects                     *)
  TimeInterval,    (* HEARTBEAT_TIME_INTERVAL, seconds                     *)
  IDLE_INCREMENT,  (* seconds one timed-out wait adds to the idle time     *)
  EXTRA_GRACE,     (* seconds of grace before the heartbeat is lost        *)
  CreateMayFail    (* whether pthread_create may fail                      *)

ASSUME HeartbeatAssumption ==
  /\ TimeInterval \in Nat
  /\ EXTRA_GRACE \in Nat
  /\ IDLE_INCREMENT \in Nat \ {0}
  /\ CreateMayFail \in BOOLEAN

VARIABLES
  m_ssServerStatus,  (* status of each object                              *)
  statusLock,        (* holder of m_pmtxServerStatusLock                   *)
  m_nRunning,        (* ARSTThread::m_nRunning of the reader thread        *)
  reader,            (* where the reader thread is                         *)
  socketStatus,      (* m_cssClientSocketStatus                            *)
  peer,              (* the exchange's end of the connection               *)
  heartbeat,         (* where the heartbeat thread is                      *)
  m_nIdleTime,       (* idle seconds the heartbeat has counted             *)
  replyEvent,        (* the heartbeat's reply event is signalled           *)
  lateLines,         (* history: lines sent after the object was broken    *)
  daosUp,            (* StartUpDAOs has run                                *)
  crashed            (* the process has been killed                        *)

objectVars == <<m_ssServerStatus, statusLock, m_nRunning, reader, socketStatus,
                peer, heartbeat, m_nIdleTime, replyEvent, lateLines>>
processVars == <<daosUp, crashed>>

Status == {"ssNone", "ssFree", "ssInuse", "ssBreakdown", "ssReconnecting"}

(* "none": not created; "run": entered Run; "loop": at the loop test;     *)
(* "lock": about to take the status lock; "recv": in RecvAll, holding it; *)
(* "send": in SendData; "failed": RecvAll returned false; "parked": in    *)
(* while(1) sleep; "exited": left the loop.                               *)
ReaderAt == {"none", "run", "loop", "lock", "recv", "send", "failed", "parked",
             "exited"}

(* "lost": in OnHeartbeatLost, which has to take the status lock.         *)
HeartbeatAt == {"none", "waiting", "lost", "done"}

WebConnTypeOK ==
  /\ m_ssServerStatus \in [Servers -> Status]
  /\ statusLock \in [Servers -> {"free", "reader"}]
  /\ m_nRunning \in [Servers -> {0, 1}]
  /\ reader \in [Servers -> ReaderAt]
  /\ socketStatus \in
       [Servers -> {"cssNone", "cssConnecting", "cssConnected", "cssDisconnect"}]
  /\ peer \in [Servers -> {"none", "up", "gone"}]
  /\ heartbeat \in [Servers -> HeartbeatAt]
  /\ m_nIdleTime \in [Servers -> Nat]
  /\ replyEvent \in [Servers -> BOOLEAN]
  /\ lateLines \in [Servers -> Nat]
  /\ daosUp \in BOOLEAN
  /\ crashed \in BOOLEAN

-----------------------------------------------------------------------------
(* The status and its lock.                                               *)

(* SetStatus blocks while the reader is inside RecvAll; it keeps the lock  *)
(* for one assignment only, so acquire, write and release are one step.   *)
SetStatus(s, ss) ==
  /\ statusLock[s] = "free"
  /\ m_ssServerStatus' = [m_ssServerStatus EXCEPT ![s] = ss]

(* SetEvent on the reply event of the object's heartbeat.                 *)
TriggerGetReplyEvent(s) == replyEvent' = [replyEvent EXCEPT ![s] = TRUE]

Goto(s, place) == reader' = [reader EXCEPT ![s] = place]

-----------------------------------------------------------------------------
(* The reader thread, ARSTServer::Run.                                    *)

(* Run creates the heartbeat, starts its thread, creates the ARSTRequest   *)
(* (whose thread waits for an event nobody sets, and is left out) and sets *)
(* ssFree.  One step: the first wait of the heartbeat lasts seconds, and   *)
(* until it ends nobody else writes the status.  The result of Start() is  *)
(* ignored, so a failed pthread_create leaves the object with no watchdog. *)
RunPrologue(s) ==
  /\ reader[s] = "run"
  /\ SetStatus(s, "ssFree")
  /\ \/ heartbeat' = [heartbeat EXCEPT ![s] = "waiting"]
     \/ CreateMayFail /\ UNCHANGED heartbeat
  /\ m_nIdleTime' = [m_nIdleTime EXCEPT ![s] = 0]
  /\ replyEvent' = [replyEvent EXCEPT ![s] = FALSE]
  /\ Goto(s, "loop")
  /\ UNCHANGED <<statusLock, m_nRunning, socketStatus, peer, lateLines, processVars>>

(* while(IsTerminated()): the thread leaves if m_nRunning is not 1 yet,    *)
(* which Start() sets only after pthread_create has returned.              *)
LeaveLoop(s) ==
  /\ reader[s] = "loop"
  /\ m_nRunning[s] # 1
  /\ Goto(s, "exited")
  /\ UNCHANGED <<m_ssServerStatus, statusLock, m_nRunning, socketStatus, peer,
                 heartbeat, m_nIdleTime, replyEvent, lateLines, processVars>>

(* Mutant: the loop does not look at the status before it reads again.    *)
EnterLoopAnyStatus(s) ==
  /\ reader[s] = "loop"
  /\ m_nRunning[s] = 1
  /\ Goto(s, "lock")
  /\ UNCHANGED <<m_ssServerStatus, statusLock, m_nRunning, socketStatus, peer,
                 heartbeat, m_nIdleTime, replyEvent, lateLines, processVars>>

(* The status is read without the lock; with any other status the thread   *)
(* goes round the loop and changes nothing.                                *)
EnterLoop(s) ==
  /\ reader[s] = "loop"
  /\ m_nRunning[s] = 1
  /\ m_ssServerStatus[s] \in {"ssFree", "ssInuse"}
  /\ Goto(s, "lock")
  /\ UNCHANGED <<m_ssServerStatus, statusLock, m_nRunning, socketStatus, peer,
                 heartbeat, m_nIdleTime, replyEvent, lateLines, processVars>>

LockForRecv(s) ==
  /\ reader[s] = "lock"
  /\ statusLock[s] = "free"
  /\ statusLock' = [statusLock EXCEPT ![s] = "reader"]
  /\ Goto(s, "recv")
  /\ UNCHANGED <<m_ssServerStatus, m_nRunning, socketStatus, peer, heartbeat,
                 m_nIdleTime, replyEvent, lateLines, processVars>>

Receiving(s) == reader[s] = "recv" /\ socketStatus[s] = "cssConnected"

(* A byte that is not a newline, with room left in the buffer.            *)
RecvByte(s) ==
  /\ Receiving(s)
  /\ peer[s] = "up"
  /\ TriggerGetReplyEvent(s)
  /\ UNCHANGED <<m_ssServerStatus, statusLock, m_nRunning, reader, socketStatus,
                 peer, heartbeat, m_nIdleTime, lateLines, processVars>>

(* The newline, or the byte that fills the BUFFERSIZE bytes of the buffer: *)
(* the lock is released and what was read goes to the queue.  Only the     *)
(* latter resets the heartbeat.                                            *)
RecvLine(s) ==
  /\ Receiving(s)
  /\ peer[s] = "up"
  /\ statusLock' = [statusLock EXCEPT ![s] = "free"]
  /\ Goto(s, "send")
  /\ TriggerGetReplyEvent(s) \/ UNCHANGED replyEvent
  /\ UNCHANGED <<m_ssServerStatus, m_nRunning, socketStatus, peer, heartbeat,
                 m_nIdleTime, lateLines, processVars>>

(* The socket is shut down, its descriptor and its addresses are freed.   *)
Close(s) == socketStatus' = [socketStatus EXCEPT ![s] = "cssDisconnect"]

(* Mutant: the failure path returns without releasing the status lock.    *)
RecvFailedKeepsLock(s) ==
  /\ Receiving(s)
  /\ peer[s] = "gone"
  /\ Close(s)
  /\ Goto(s, "failed")
  /\ UNCHANGED <<m_ssServerStatus, statusLock, m_nRunning, peer, heartbeat,
                 m_nIdleTime, replyEvent, lateLines, processVars>>

(* recv() returned 0, upon which Recv closes the socket, or -1, upon which *)
(* it does not.  The bytes of an unfinished line are dropped.              *)
RecvFailed(s) ==
  /\ Receiving(s)
  /\ peer[s] = "gone"
  /\ Close(s) \/ UNCHANGED socketStatus
  /\ statusLock' = [statusLock EXCEPT ![s] = "free"]
  /\ Goto(s, "failed")
  /\ UNCHANGED <<m_ssServerStatus, m_nRunning, peer, heartbeat, m_nIdleTime,
                 replyEvent, lateLines, processVars>>

(* SetStatus(ssBreakdown); while(1) {sleep(1);}                           *)
Park(s) ==
  /\ reader[s] = "failed"
  /\ SetStatus(s, "ssBreakdown")
  /\ Goto(s, "parked")
  /\ UNCHANGED <<statusLock, m_nRunning, socketStatus, peer, heartbeat,
                 m_nIdleTime, replyEvent, lateLines, processVars>>

(* Mutant: a line that was passed on marks the object free again.         *)
SendDataMarksFree(s) ==
  /\ reader[s] = "send"
  /\ daosUp
  /\ SetStatus(s, "ssFree")
  /\ Goto(s, "loop")
  /\ UNCHANGED <<statusLock, m_nRunning, socketStatus, peer, heartbeat,
                 m_nIdleTime, replyEvent, lateLines, processVars>>

(* GetDAO() and SendData.  GetDAO is ARSTQueueDAOManager's: it has a DAO to *)
(* give once StartUpDAOs has run, and assert(pQueueDAO) aborts otherwise.   *)
SendData(s) ==
  /\ reader[s] = "send"
  /\ daosUp
  /\ Goto(s, "loop")
  /\ lateLines' = [lateLines EXCEPT
                     ![s] = IF m_ssServerStatus[s] = "ssBreakdown" THEN @ + 1 ELSE @]
  /\ UNCHANGED <<m_ssServerStatus, statusLock, m_nRunning, socketStatus, peer,
                 heartbeat, m_nIdleTime, replyEvent, processVars>>

AssertFailsOnNoDAO(s) ==
  /\ reader[s] = "send"
  /\ ~daosUp
  /\ crashed' = TRUE
  /\ UNCHANGED <<objectVars, daosUp>>

-----------------------------------------------------------------------------
(* The heartbeat thread, ARSTHeartbeat::Run.                              *)

HeartbeatReply(s) ==
  /\ heartbeat[s] = "waiting"
  /\ replyEvent[s]
  /\ m_nIdleTime' = [m_nIdleTime EXCEPT ![s] = 0]
  /\ replyEvent' = [replyEvent EXCEPT ![s] = FALSE]
  /\ UNCHANGED <<m_ssServerStatus, statusLock, m_nRunning, reader, socketStatus,
                 peer, heartbeat, lateLines, processVars>>

(* A wait of WAIT_INTERVAL_MS ended with ETIMEDOUT.  If the event was set   *)
(* after the deadline but before the waiter had its mutex back, the event   *)
(* is consumed and the wait still reports a timeout.  OnHeartbeatRequest is *)
(* empty in ARSTServer, so the two first ranges of idle time do the same.   *)
HeartbeatTimeout(s) ==
  LET idle == m_nIdleTime[s] + IDLE_INCREMENT IN
  /\ heartbeat[s] = "waiting"
  /\ m_nIdleTime' = [m_nIdleTime EXCEPT ![s] = idle]
  /\ replyEvent' = [replyEvent EXCEPT ![s] = FALSE]
  /\ heartbeat' = [heartbeat EXCEPT
                     ![s] = IF idle <= TimeInterval + EXTRA_GRACE THEN @ ELSE "lost"]
  /\ UNCHANGED <<m_ssServerStatus, statusLock, m_nRunning, reader, socketStatus,
                 peer, lateLines, processVars>>

(* Mutant: OnHeartbeatLost only logs.                                     *)
HeartbeatLostOnlyLogs(s) ==
  /\ heartbeat[s] = "lost"
  /\ heartbeat' = [heartbeat EXCEPT ![s] = "done"]
  /\ UNCHANGED <<m_ssServerStatus, statusLock, m_nRunning, reader, socketStatus,
                 peer, m_nIdleTime, replyEvent, lateLines, processVars>>

(* OnHeartbeatLost: SetStatus(ssBreakdown), then the thread ends.         *)
HeartbeatLost(s) ==
  /\ heartbeat[s] = "lost"
  /\ SetStatus(s, "ssBreakdown")
  /\ heartbeat' = [heartbeat EXCEPT ![s] = "done"]
  /\ UNCHANGED <<statusLock, m_nRunning, reader, socketStatus, peer, m_nIdleTime,
                 replyEvent, lateLines, processVars>>

-----------------------------------------------------------------------------
(* The exchange closes or loses the connection; it may also stay connected *)
(* and send nothing, which is RecvByte and RecvLine not happening.          *)
PeerGone(s) ==
  /\ peer[s] = "up"
  /\ peer' = [peer EXCEPT ![s] = "gone"]
  /\ UNCHANGED <<m_ssServerStatus, statusLock, m_nRunning, reader, socketStatus,
                 heartbeat, m_nIdleTime, replyEvent, lateLines, processVars>>

(* Steps of the reader that wait neither for the exchange to send nor for  *)
(* room in a queue.                                                        *)
ReaderStep(s) ==
  \/ RunPrologue(s)
  \/ LeaveLoop(s)
  \/ EnterLoop(s)
  \/ LockForRecv(s)
  \/ RecvFailed(s)
  \/ Park(s)
  \/ AssertFailsOnNoDAO(s)

HeartbeatWait(s) == HeartbeatReply(s) \/ HeartbeatTimeout(s)

ServerStep(s) ==
  \/ ReaderStep(s)
  \/ RecvByte(s)
  \/ RecvLine(s)
  \/ SendData(s)
  \/ HeartbeatWait(s)
  \/ HeartbeatLost(s)
  \/ PeerGone(s)
=============================================================================
