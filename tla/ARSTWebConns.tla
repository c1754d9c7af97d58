---------------------------- MODULE ARSTWebConns ----------------------------
(***************************************************************************)
(* The pool of upstream connections, ARSTServers, and the main thread that *)
(* fills it at start-up and then polls it for broken connections to        *)
(* replace (StartUpServers, CheckClientVector and the loop of main).       *)
(*                                                                         *)
(* A replaced ARSTServer is never deleted: its threads and its socket stay *)
(* behind.  The identity of a left-behind object that can take no further  *)
(* step is used again for a new object, which keeps the state space finite *)
(* without bounding the number of reconnections.                           *)
(***************************************************************************)
EXTENDS ARSTWebConn, Sequences

CONSTANTS
  ServerName,  (* vServerInfo: the name of each configured server          *)
  NoServer     (* NULL                                                     *)

ASSUME PoolAssumption ==
  /\ ServerName \in Seq(STRING)
  /\ NoServer \notin Servers

VARIABLES
  m_vServerPool,  (* the object in each place of the pool                  *)
  m_strName,      (* the name an object was created with                   *)
  main,           (* where the main thread is                              *)
  i,              (* CheckClientVector's place in the pool, 0 at start-up  *)
  j,              (* the place in the configuration                        *)
  pServer         (* the object being constructed                          *)

poolVars == <<m_vServerPool, m_strName, main, i, j, pServer>>
vars == <<objectVars, processVars, poolVars>>

Places == 1..Len(ServerName)
Name == {ServerName[c] : c \in Places} \cup {""}

(* "startup": in StartUpServers; "connect": in Connect, from the           *)
(* constructor; "started": pthread_create has returned and m_nRunning is   *)
(* not set yet; "daos": before StartUpDAOs; "poll": at place i of the      *)
(* pool; "scan": looking at configuration j for the name of a broken one.  *)
MainAt == {"startup", "connect", "started", "daos", "poll", "scan"}

TypeOK ==
  /\ WebConnTypeOK
  /\ m_vServerPool \in [Places -> Servers \cup {NoServer}]
  /\ m_strName \in [Servers -> Name]
  /\ main \in MainAt
  /\ i \in 0..Len(ServerName) + 1
  /\ j \in 1..Len(ServerName) + 1
  /\ pServer \in Servers \cup {NoServer}

InPool(s) == \E p \in Places : m_vServerPool[p] = s

(* No thread of s will ever change anything again.                        *)
Inert(s) ==
  /\ ~InPool(s)
  /\ pServer # s
  /\ heartbeat[s] \in {"none", "done"}
  /\ \/ reader[s] \in {"none", "parked", "exited"}
     \/ reader[s] = "loop" /\ m_nRunning[s] = 1 /\ m_ssServerStatus[s] = "ssBreakdown"

-----------------------------------------------------------------------------
Init ==
  /\ m_ssServerStatus = [s \in Servers |-> "ssNone"]
  /\ statusLock = [s \in Servers |-> "free"]
  /\ m_nRunning = [s \in Servers |-> 0]
  /\ reader = [s \in Servers |-> "none"]
  /\ socketStatus = [s \in Servers |-> "cssNone"]
  /\ peer = [s \in Servers |-> "none"]
  /\ heartbeat = [s \in Servers |-> "none"]
  /\ m_nIdleTime = [s \in Servers |-> 0]
  /\ replyEvent = [s \in Servers |-> FALSE]
  /\ lateLines = [s \in Servers |-> 0]
  /\ daosUp = FALSE
  /\ crashed = FALSE
  /\ m_vServerPool = [p \in Places |-> NoServer]
  /\ m_strName = [s \in Servers |-> ""]
  /\ main = "startup"
  /\ i = 0
  /\ j = 1
  /\ pServer = NoServer

-----------------------------------------------------------------------------
(* The constructor of ARSTServer, up to the call of connect().            *)
NewServer(s, name) ==
  /\ Inert(s)
  /\ m_ssServerStatus' = [m_ssServerStatus EXCEPT ![s] = "ssNone"]
  /\ statusLock' = [statusLock EXCEPT ![s] = "free"]
  /\ m_nRunning' = [m_nRunning EXCEPT ![s] = 0]
  /\ reader' = [reader EXCEPT ![s] = "none"]
  /\ socketStatus' = [socketStatus EXCEPT ![s] = "cssConnecting"]
  /\ peer' = [peer EXCEPT ![s] = "none"]
  /\ heartbeat' = [heartbeat EXCEPT ![s] = "none"]
  /\ m_nIdleTime' = [m_nIdleTime EXCEPT ![s] = 0]
  /\ replyEvent' = [replyEvent EXCEPT ![s] = FALSE]
  /\ lateLines' = [lateLines EXCEPT ![s] = 0]
  /\ m_strName' = [m_strName EXCEPT ![s] = name]
  /\ pServer' = s
  /\ main' = "connect"
  /\ UNCHANGED <<processVars, m_vServerPool, i, j>>

(* The constructor returns: push_back at start-up, an assignment to the    *)
(* place being polled afterwards.                                          *)
StoreServer ==
  /\ m_vServerPool' = [m_vServerPool EXCEPT ![IF i = 0 THEN j ELSE i] = pServer]
  /\ main' = IF i = 0 THEN "startup" ELSE "scan"
  /\ j' = j + 1
  /\ pServer' = NoServer
  /\ UNCHANGED <<m_strName, i>>

(* connect() succeeded and OnConnect called Start: the thread exists, but  *)
(* Start has not yet set m_nRunning.                                       *)
ConnectStartsThread ==
  /\ main = "connect"
  /\ socketStatus' = [socketStatus EXCEPT ![pServer] = "cssConnected"]
  /\ peer' = [peer EXCEPT ![pServer] = "up"]
  /\ reader' = [reader EXCEPT ![pServer] = "run"]
  /\ main' = "started"
  /\ UNCHANGED <<m_ssServerStatus, statusLock, m_nRunning, heartbeat, m_nIdleTime,
                 replyEvent, lateLines, processVars, m_vServerPool, m_strName, i, j,
                 pServer>>

StartReturns ==
  /\ main = "started"
  /\ m_nRunning' = [m_nRunning EXCEPT ![pServer] = 1]
  /\ StoreServer
  /\ UNCHANGED <<m_ssServerStatus, statusLock, reader, socketStatus, peer, heartbeat,
                 m_nIdleTime, replyEvent, lateLines, processVars>>

(* connect() succeeded and pthread_create failed; nobody looks at the      *)
(* result of Start, so the object stays in ssNone.                         *)
ConnectWithoutThread ==
  /\ main = "connect"
  /\ CreateMayFail
  /\ socketStatus' = [socketStatus EXCEPT ![pServer] = "cssConnected"]
  /\ peer' = [peer EXCEPT ![pServer] = "up"]
  /\ StoreServer
  /\ UNCHANGED <<m_ssServerStatus, statusLock, m_nRunning, reader, heartbeat,
                 m_nIdleTime, replyEvent, lateLines, processVars>>

(* Mutant: a failed connect() does not mark the object broken.            *)
ConnectFailsSilently ==
  /\ main = "connect"
  /\ socketStatus' = [socketStatus EXCEPT ![pServer] = "cssDisconnect"]
  /\ StoreServer
  /\ UNCHANGED <<m_ssServerStatus, statusLock, m_nRunning, reader, peer, heartbeat,
                 m_nIdleTime, replyEvent, lateLines, processVars>>

(* connect() failed: OnDisconnect sets ssBreakdown.                       *)
ConnectFails ==
  /\ main = "connect"
  /\ socketStatus' = [socketStatus EXCEPT ![pServer] = "cssDisconnect"]
  /\ SetStatus(pServer, "ssBreakdown")
  /\ StoreServer
  /\ UNCHANGED <<statusLock, m_nRunning, reader, peer, heartbeat, m_nIdleTime,
                 replyEvent, lateLines, processVars>>

(* getaddrinfo failed: its result is not looked at, and m_AddrRes is NULL  *)
(* when socket() is given its fields.                                      *)
ResolveFails ==
  /\ main = "connect"
  /\ crashed' = TRUE
  /\ UNCHANGED <<objectVars, poolVars, daosUp>>

-----------------------------------------------------------------------------
(* StartUpServers: one object for each configured server.                 *)
AddFreeServer ==
  /\ main = "startup"
  /\ j \in Places
  /\ \E s \in Servers : NewServer(s, ServerName[j])

StartUpServersReturns ==
  /\ main = "startup"
  /\ j \notin Places
  /\ main' = "daos"
  /\ UNCHANGED <<objectVars, processVars, m_vServerPool, m_strName, i, j, pServer>>

(* main starts the DAOs only after the servers.                           *)
StartUpDAOs ==
  /\ main = "daos"
  /\ daosUp' = TRUE
  /\ main' = "poll"
  /\ i' = 1
  /\ UNCHANGED <<objectVars, crashed, m_vServerPool, m_strName, j, pServer>>

(* Mutant: any object that is not free is taken for a broken one.         *)
FindNotFree ==
  /\ main = "poll"
  /\ i \in Places
  /\ m_ssServerStatus[m_vServerPool[i]] # "ssFree"
  /\ main' = "scan"
  /\ j' = 1
  /\ UNCHANGED <<objectVars, processVars, m_vServerPool, m_strName, i, pServer>>

(* CheckClientVector at a broken connection (after sleep(5)).             *)
FindBroken ==
  /\ main = "poll"
  /\ i \in Places
  /\ m_ssServerStatus[m_vServerPool[i]] = "ssBreakdown"
  /\ main' = "scan"
  /\ j' = 1
  /\ UNCHANGED <<objectVars, processVars, m_vServerPool, m_strName, i, pServer>>

(* CheckClientVector at a connection that is not broken; after the last    *)
(* one, sleep(1) and start again.                                          *)
PollNext ==
  /\ main = "poll"
  /\ \/ /\ i \in Places
        /\ m_ssServerStatus[m_vServerPool[i]] # "ssBreakdown"
        /\ i' = i + 1
     \/ /\ i \notin Places
        /\ i' = 1
  /\ UNCHANGED <<objectVars, processVars, m_vServerPool, m_strName, main, j, pServer>>

SameName(c) ==
  /\ ServerName[c] # "BITMEXFUND"
  /\ ServerName[c] = m_strName[m_vServerPool[i]]

(* The body of the loop over the configuration.                           *)
Reconnect ==
  /\ main = "scan"
  /\ j \in Places
  /\ SameName(j)
  /\ \E s \in Servers : NewServer(s, ServerName[j])

ScanNext ==
  /\ main = "scan"
  /\ j \in Places
  /\ ~SameName(j)
  /\ j' = j + 1
  /\ UNCHANGED <<objectVars, processVars, m_vServerPool, m_strName, main, i, pServer>>

(* Mutant: the counter of the pool advances twice.                        *)
ScanDoneSkips ==
  /\ main = "scan"
  /\ j \notin Places
  /\ main' = "poll"
  /\ i' = i + 2
  /\ UNCHANGED <<objectVars, processVars, m_vServerPool, m_strName, j, pServer>>

(* The place has been looked after; the next one is polled.               *)
ScanDone ==
  /\ main = "scan"
  /\ j \notin Places
  /\ main' = "poll"
  /\ i' = i + 1
  /\ UNCHANGED <<objectVars, processVars, m_vServerPool, m_strName, j, pServer>>

MainStep ==
  \/ AddFreeServer
  \/ StartUpServersReturns
  \/ StartUpDAOs
  \/ ConnectStartsThread
  \/ StartReturns
  \/ ConnectWithoutThread
  \/ ConnectFails
  \/ ResolveFails
  \/ FindBroken
  \/ PollNext
  \/ Reconnect
  \/ ScanNext
  \/ ScanDone

(* Nothing happens after the process is killed.                           *)
Next ==
  /\ ~crashed
  /\ \/ MainStep
     \/ \E s \in Servers : ServerStep(s) /\ UNCHANGED poolVars

Spec == Init /\ [][Next]_vars

-----------------------------------------------------------------------------
(* Fairness.  The scheduler runs every thread that can run; connect() and  *)
(* sleep() return; a wait of the heartbeat ends after at most five seconds. *)
(* Nothing makes the exchange send a byte or close the connection, or a     *)
(* queue take the line a reader is sending.                                *)
Of(s, Step(_)) == ~crashed /\ Step(s) /\ UNCHANGED poolVars

FairSpec ==
  /\ Spec
  /\ WF_vars(~crashed /\ MainStep)
  /\ \A s \in Servers : /\ WF_vars(Of(s, ReaderStep))
                        /\ WF_vars(Of(s, HeartbeatWait))
                        /\ WF_vars(Of(s, HeartbeatLost))

(* The stronger assumption that whoever waits for a status lock that is     *)
(* released again and again obtains it.                                    *)
LockFairSpec == FairSpec /\ \A s \in Servers : SF_vars(Of(s, HeartbeatLost))

-----------------------------------------------------------------------------
(* A reader that gave up on its connection, parked or left its loop does   *)
(* not hold the status lock: whoever waits for the lock waits for a reader *)
(* that is in recv() on a connection it has not seen fail.                 *)
StatusLockNotLeaked ==
  \A s \in Servers : statusLock[s] = "reader" =>
                      Receiving(s) /\ m_nRunning[s] = 1 /\ m_ssServerStatus[s] # "ssNone"

(* A connection that broke down while its reader was on the way to recv()  *)
(* can still deliver what it reads next, but only once: its replacement is *)
(* never accompanied by a second stream of quotes from the old object.     *)
AtMostOneLateLine == \A s \in Servers : lateLines[s] <= 1

(* No object falls out of the pool while it still works: one that has been *)
(* constructed and is in no place of the pool has broken down.             *)
NoOrphan ==
  \A s \in Servers : socketStatus[s] # "cssNone" /\ ~InPool(s) /\ pServer # s
                      => m_ssServerStatus[s] = "ssBreakdown"

(* Every connection of the pool that is not marked broken has somebody who *)
(* will notice that it is: its heartbeat, or a reader that has not started *)
(* it yet.  (Where pthread_create does not fail.)                          *)
Watched ==
  \A s \in Servers : InPool(s) /\ m_ssServerStatus[s] # "ssBreakdown"
                      => heartbeat[s] \in {"waiting", "lost"} \/ reader[s] = "run"

(* CheckClientVector reads a status, sleeps five seconds, and then replaces *)
(* the object without looking again; the object it replaces is still broken *)
(* then, because nothing repairs an object that broke down.                *)
ReplacedIsBroken ==
  [][\A p \in Places : m_vServerPool'[p] # m_vServerPool[p] /\ m_vServerPool[p] # NoServer
                        => m_ssServerStatus[m_vServerPool[p]] = "ssBreakdown"]_vars

(* A place of the pool whose connection has failed, whose reader has ended  *)
(* or whose object is broken.  An object that pthread_create has left       *)
(* without a reader or a heartbeat is only counted once it is broken.       *)
Unserved(p) ==
  LET s == m_vServerPool[p] IN
  /\ s # NoServer
  /\ \/ m_ssServerStatus[s] = "ssBreakdown"
     \/ heartbeat[s] # "none" /\ (peer[s] = "gone" \/ reader[s] = "exited")

(* The model, which has finitely many objects, has none for the next new.  *)
NoObjectLeft == main = "scan" /\ \A s \in Servers : ~Inert(s)

(* A connection the exchange closes, or whose reader left its loop at the  *)
(* start, is replaced by a new one, unless the process dies: even if its   *)
(* reader waits for ever for room in a queue.                              *)
ServiceRestored ==
  \A p \in Places : \A s \in Servers :
    m_vServerPool[p] = s /\ Unserved(p) /\ ServerName[p] # "BITMEXFUND"
      ~> m_vServerPool[p] # s \/ crashed \/ NoObjectLeft

(* ARSTHeartbeat.cpp, "idle > interval+10": a connection that has been idle *)
(* that long is broken down, so that it can be replaced.                   *)
LostIsActedOn ==
  \A s \in Servers : heartbeat[s] = "lost"
                      ~> m_ssServerStatus[s] = "ssBreakdown" \/ crashed

(* assert(pQueueDAO) in ARSTServer::Run: a reader that has a line finds a   *)
(* queue to pass it to.                                                    *)
LineFindsQueue == \A s \in Servers : reader[s] = "send" => daosUp

-----------------------------------------------------------------------------
(* The invariant the proofs use.                                          *)

(* What the threads of one object have agreed on: the reader holds the     *)
(* lock exactly while it receives, has seen Start() return before it       *)
(* receives, and reads nothing more after a late line.                     *)
ObjectInv(s) ==
  /\ statusLock[s] = "reader" <=> reader[s] = "recv"
  /\ reader[s] \in {"lock", "recv", "send", "failed", "parked"} => m_nRunning[s] = 1
  /\ reader[s] \in {"run", "loop", "lock", "recv", "send"}
       => socketStatus[s] = "cssConnected"
  /\ reader[s] = "none" => m_ssServerStatus[s] \in {"ssNone", "ssBreakdown"}
  /\ reader[s] = "parked" => m_ssServerStatus[s] = "ssBreakdown"
  /\ reader[s] = "run" => m_ssServerStatus[s] = "ssNone"
  /\ reader[s] \notin {"none", "run"} => m_ssServerStatus[s] \in {"ssFree", "ssBreakdown"}
  /\ reader[s] \in {"none", "run"} => heartbeat[s] = "none"
  /\ heartbeat[s] = "done" => m_ssServerStatus[s] = "ssBreakdown"
  /\ lateLines[s] <= 1
  /\ lateLines[s] = 1 => /\ reader[s] \in {"loop", "exited"}
                        /\ m_ssServerStatus[s] = "ssBreakdown"

(* Where the main thread is, what it is constructing, and how far the pool *)
(* is filled.                                                              *)
MainInv ==
  /\ main \in {"startup", "daos"} => i = 0
  /\ main = "daos" => j \notin Places
  /\ main = "poll" => i > 0
  /\ main = "scan" => i \in Places
  /\ i = 0 => \A p \in Places : m_vServerPool[p] = NoServer <=> p >= j
  /\ i > 0 => \A p \in Places : m_vServerPool[p] # NoServer
  /\ main \in {"connect", "started"} <=> pServer # NoServer
  /\ pServer # NoServer => j \in Places /\ i <= Len(ServerName)
                          /\ m_strName[pServer] = ServerName[j]
  /\ main = "connect" => reader[pServer] = "none" /\ m_ssServerStatus[pServer] = "ssNone"
  /\ main = "started" => reader[pServer] \in {"run", "loop", "exited"}
  /\ pServer # NoServer => m_nRunning[pServer] = 0

IInv == TypeOK /\ (\A s \in Servers : ObjectInv(s)) /\ MainInv

(* The names in the configuration tell the servers apart, which nothing in *)
(* the code checks.                                                        *)
DistinctNames == \A a, b \in Places : ServerName[a] = ServerName[b] => a = b

(* Main replaces the object of place i at most once, and a broken one.     *)
ReplaceInv ==
  /\ main = "scan" => \/ m_ssServerStatus[m_vServerPool[i]] = "ssBreakdown"
                      \/ \A c \in Places : c >= j => ~SameName(c)
  /\ pServer # NoServer /\ i > 0 => m_ssServerStatus[m_vServerPool[i]] = "ssBreakdown"

WatchInv ==
  \A s \in Servers : m_ssServerStatus[s] # "ssBreakdown" =>
    /\ reader[s] # "none" => heartbeat[s] \in {"waiting", "lost"} \/ reader[s] = "run"
    /\ InPool(s) => reader[s] # "none"
=============================================================================
