----------------------------- MODULE ARSTClients -----------------------------
(***************************************************************************)
(* The clients of the quote server: the vector ARSTClients::m_vClient and  *)
(* the three kinds of threads that use it.  The accept thread appends to   *)
(* it (ARSTClients::Run), main erases from it (CheckClientVector), both    *)
(* under m_pmtxClientVectorLock; the queue readers walk it to send a line  *)
(* to every client (ARSTQueueDAO::Run) and take no lock, nor does main     *)
(* while it looks for clients to erase.                                    *)
(*                                                                         *)
(* An iterator is an index; it is stale once push_back has moved the       *)
(* elements to a larger buffer.  What the code does with a stale iterator, *)
(* a destroyed object or an element that is being moved is undefined: the  *)
(* process may go on as if the memory were intact where it still is, or    *)
(* end in the state undefined, about which nothing more is said.           *)
(***************************************************************************)
EXTENDS Integers, Sequences, FiniteSets

CONSTANTS
  Client,    (* addresses of ARSTClient objects                            *)
  Socket,    (* descriptors the kernel can give to accepted connections    *)
  Dao,       (* queue readers                                              *)
  NoClient,  (* NULL                                                       *)
  NoSocket   (* -1, what accept() returns when it fails                    *)

ASSUME ClientsAssumption ==
  /\ NoClient \notin Client
  /\ NoSocket \notin Socket

VARIABLES
  m_vClient,
  capacity,   (* of the vector's buffer                                    *)
  alive,      (* objects constructed and not destroyed                     *)
  status,     (* m_csClientStatus of each object                           *)
  nSocket,    (* m_ClientAddrInfo.nSocket of each object                   *)
  owner,      (* the connection a descriptor stands for                    *)
  peer,       (* whether the kernel still takes data for a connection      *)
  part,       (* connections whose stream ends within a line               *)
  accepted,   (* the object the accept thread is about to push             *)
  main,       (* where main is                                             *)
  mainIter,   (* its iterator                                              *)
  dao,        (* where each queue reader is                                *)
  iter,       (* its iterator                                              *)
  pClient,    (* the object it has taken from the vector                   *)
  stale,      (* threads whose iterator points into a freed buffer         *)
  present,    (* history: clients in the vector when the walk began, less  *)
              (* those a later one of which could be passed over           *)
  served,     (* history: clients sent this reader's present line          *)
  undefined

vectorVars == <<m_vClient, capacity, stale, present>>
clientVars == <<alive, status, nSocket, owner, peer, part>>
daoVars == <<dao, iter, pClient, served>>
vars == <<vectorVars, clientVars, daoVars, accepted, main, mainIter, undefined>>

(* "get": waits for a line; "walk": at the loop test; "send": in SendAll;  *)
(* "failed": SendAll has set csOffline, and is to log the client's address; *)
(* "trigger": about to set the reply event of the client's heartbeat.      *)
DaoAt == {"get", "walk", "send", "failed", "trigger"}

(* Main's iterator, unlike a reader's, never passes the end.               *)
TypeOK ==
  /\ m_vClient \in Seq(Client)
  /\ capacity \in Nat
  /\ alive \subseteq Client
  /\ status \in [Client -> {"csNone", "csOffline"}]
  /\ nSocket \in [Client -> Socket \cup {NoSocket}]
  /\ owner \in [Socket -> Client \cup {NoClient}]
  /\ peer \in [Client -> {"up", "gone"}]
  /\ part \subseteq Client
  /\ accepted \in Client \cup {NoClient}
  /\ main \in {"rest", "walk", "erase"}
  /\ mainIter \in 1..(Len(m_vClient) + 1)
  /\ dao \in [Dao -> DaoAt]
  /\ iter \in [Dao -> Nat \ {0}]
  /\ pClient \in [Dao -> Client \cup {NoClient}]
  /\ stale \subseteq Dao \cup {"main"}
  /\ present \in [Dao -> SUBSET Client]
  /\ served \in [Dao -> SUBSET Client]
  /\ undefined \in BOOLEAN

Init ==
  /\ m_vClient = <<>>
  /\ capacity = 0
  /\ alive = {}
  /\ status = [c \in Client |-> "csNone"]
  /\ nSocket = [c \in Client |-> NoSocket]
  /\ owner = [f \in Socket |-> NoClient]
  /\ peer = [c \in Client |-> "up"]
  /\ part = {}
  /\ accepted = NoClient
  /\ main = "rest"
  /\ mainIter = 1
  /\ dao = [d \in Dao |-> "get"]
  /\ iter = [d \in Dao |-> 1]
  /\ pClient = [d \in Dao |-> NoClient]
  /\ stale = {}
  /\ present = [d \in Dao |-> {}]
  /\ served = [d \in Dao |-> {}]
  /\ undefined = FALSE

InVector == {m_vClient[k] : k \in 1..Len(m_vClient)}

BecomesUndefined ==
  /\ undefined' = TRUE
  /\ UNCHANGED <<vectorVars, clientVars, daoVars, accepted, main, mainIter>>

-----------------------------------------------------------------------------
(* The accept thread.                                                     *)

(* The constructor of ARSTClient; the heartbeat it creates is not started. *)
NewClient(c, f) ==
  /\ accepted = NoClient
  /\ c \notin alive
  /\ \A d \in Dao : pClient[d] # c      (* or else UseOfDestroyed is enabled *)
  /\ alive' = alive \cup {c}
  /\ nSocket' = [nSocket EXCEPT ![c] = f]
  /\ accepted' = c
  /\ UNCHANGED <<vectorVars, status, peer, part, daoVars, main, mainIter, undefined>>

(* accept() returns a descriptor that is free.                            *)
Accept ==
  \E c \in Client, f \in Socket :
    /\ owner[f] = NoClient
    /\ NewClient(c, f)
    /\ owner' = [owner EXCEPT ![f] = c]

(* accept() fails, and its -1 becomes a client all the same.              *)
AcceptFails == \E c \in Client : NewClient(c, NoSocket) /\ UNCHANGED owner

Walking == {d \in Dao : dao[d] # "get"} \cup (IF main = "rest" THEN {} ELSE {"main"})

(* push_back under the lock; a full buffer is replaced by one twice as     *)
(* large, and every iterator into the old one is stale.                    *)
PushBackClientToVector ==
  /\ accepted # NoClient
  /\ m_vClient' = Append(m_vClient, accepted)
  /\ IF Len(m_vClient) < capacity
     THEN UNCHANGED <<capacity, stale>>
     ELSE /\ capacity' = IF capacity = 0 THEN 1 ELSE 2 * capacity
          /\ stale' = stale \cup Walking
  /\ accepted' = NoClient
  /\ UNCHANGED <<clientVars, daoVars, main, mainIter, present, undefined>>

-----------------------------------------------------------------------------
(* main: CheckClientVector.  Nobody else holds a shared_ptr to a client,   *)
(* so unique() is true.                                                    *)

CheckClientVector ==
  /\ main = "rest"
  /\ main' = "walk"
  /\ UNCHANGED <<vectorVars, clientVars, daoVars, accepted, mainIter, undefined>>

CheckEnd ==
  /\ main = "walk"
  /\ "main" \notin stale
  /\ mainIter = Len(m_vClient) + 1
  /\ main' = "rest"
  /\ mainIter' = 1
  /\ UNCHANGED <<vectorVars, clientVars, daoVars, accepted, undefined>>

CheckNext ==
  /\ main = "walk"
  /\ "main" \notin stale
  /\ mainIter <= Len(m_vClient)
  /\ status[m_vClient[mainIter]] # "csOffline"
  /\ mainIter' = mainIter + 1
  /\ UNCHANGED <<vectorVars, clientVars, daoVars, accepted, main, undefined>>

(* Mutant: the status of the client is not looked at.                     *)
ShutdownAnyClient ==
  /\ main = "walk"
  /\ "main" \notin stale
  /\ mainIter <= Len(m_vClient)
  /\ owner' = [f \in Socket |-> IF f = nSocket[m_vClient[mainIter]] THEN NoClient ELSE owner[f]]
  /\ main' = "erase"
  /\ UNCHANGED <<vectorVars, alive, status, nSocket, peer, part, daoVars, accepted,
                 mainIter, undefined>>

(* Mutant: the descriptor is left open.                                   *)
ShutdownNothing ==
  /\ main = "walk"
  /\ "main" \notin stale
  /\ mainIter <= Len(m_vClient)
  /\ status[m_vClient[mainIter]] = "csOffline"
  /\ main' = "erase"
  /\ UNCHANGED <<vectorVars, clientVars, daoVars, accepted, mainIter, undefined>>

(* close() of the client's descriptor, which the next accept() may return. *)
ShutdownClient ==
  /\ main = "walk"
  /\ "main" \notin stale
  /\ mainIter <= Len(m_vClient)
  /\ status[m_vClient[mainIter]] = "csOffline"
  /\ owner' = [f \in Socket |-> IF f = nSocket[m_vClient[mainIter]] THEN NoClient ELSE owner[f]]
  /\ main' = "erase"
  /\ UNCHANGED <<vectorVars, alive, status, nSocket, peer, part, daoVars, accepted,
                 mainIter, undefined>>

(* The fields of a destroyed object, which nobody may read.               *)
Destroy(c) ==
  /\ alive' = alive \ {c}
  /\ status' = [status EXCEPT ![c] = "csNone"]
  /\ nSocket' = [nSocket EXCEPT ![c] = NoSocket]
  /\ peer' = [peer EXCEPT ![c] = "up"]
  /\ part' = part \ {c}

Without(k) == SubSeq(m_vClient, 1, k - 1) \o SubSeq(m_vClient, k + 1, Len(m_vClient))

(* The place the reader looks at next.                                     *)
NextPlace(d) == IF dao[d] = "walk" THEN iter[d] ELSE iter[d] + 1

(* The clients after place k move down one place, and a reader that is to  *)
(* look behind k does not see the one that leaves the place it looks at.   *)
PassedOver(d, k) ==
  {m_vClient[k]} \cup
  {m_vClient[j] : j \in {j \in 1..Len(m_vClient) :
                           dao[d] # "get" /\ k < j /\ j = NextPlace(d)}}

(* Mutant: the loop goes on behind the client that has moved down.        *)
EraseAndStep ==
  /\ main = "erase"
  /\ "main" \notin stale
  /\ m_vClient' = Without(mainIter)
  /\ Destroy(m_vClient[mainIter])
  /\ present' = [d \in Dao |-> present[d] \ PassedOver(d, mainIter)]
  /\ main' = "walk"
  /\ mainIter' = mainIter + 1
  /\ UNCHANGED <<capacity, stale, owner, daoVars, accepted, undefined>>

(* erase() under the lock destroys the object.  Its destructor detaches    *)
(* and then cancels the client's thread, which may have ended, or may look *)
(* at the object once more: see UseOfThread.                               *)
EraseClientFromVector ==
  /\ main = "erase"
  /\ "main" \notin stale
  /\ m_vClient' = Without(mainIter)
  /\ Destroy(m_vClient[mainIter])
  /\ present' = [d \in Dao |-> present[d] \ PassedOver(d, mainIter)]
  /\ main' = "walk"
  /\ UNCHANGED <<capacity, stale, owner, daoVars, accepted, mainIter, undefined>>

(* Undefined: pthread_cancel of a thread that has ended and is detached, or *)
(* the client's thread reading the status of the destroyed object.         *)
UseOfThread == main = "erase" /\ BecomesUndefined

(* Undefined: main's iterator points into a freed buffer.                 *)
MainIteratorStale == main # "rest" /\ "main" \in stale /\ BecomesUndefined

-----------------------------------------------------------------------------
(* A queue reader sends a line.                                           *)

BeginWalk(d) ==
  /\ dao[d] = "get"
  /\ dao' = [dao EXCEPT ![d] = "walk"]
  /\ present' = [present EXCEPT ![d] = InVector]
  /\ UNCHANGED <<m_vClient, capacity, stale, clientVars, iter, pClient, served, accepted,
                 main, mainIter, undefined>>

At(d) == m_vClient[iter[d]]

InRange(d) == dao[d] = "walk" /\ d \notin stale /\ iter[d] <= Len(m_vClient)

EndWalk(d) ==
  /\ dao[d] = "walk"
  /\ d \notin stale
  /\ iter[d] = Len(m_vClient) + 1
  /\ dao' = [dao EXCEPT ![d] = "get"]
  /\ iter' = [iter EXCEPT ![d] = 1]
  /\ served' = [served EXCEPT ![d] = {}]
  /\ present' = [present EXCEPT ![d] = {}]
  /\ UNCHANGED <<m_vClient, capacity, stale, clientVars, pClient, accepted, main, mainIter,
                 undefined>>

SkipOffline(d) ==
  /\ InRange(d)
  /\ status[At(d)] = "csOffline"
  /\ iter' = [iter EXCEPT ![d] = @ + 1]
  /\ UNCHANGED <<vectorVars, clientVars, dao, pClient, served, accepted, main, mainIter,
                 undefined>>

(* Mutant: clients that are offline are sent to.                          *)
TakeAnyClient(d) ==
  /\ InRange(d)
  /\ pClient' = [pClient EXCEPT ![d] = At(d)]
  /\ dao' = [dao EXCEPT ![d] = "send"]
  /\ UNCHANGED <<vectorVars, clientVars, iter, served, accepted, main, mainIter,
                 undefined>>

TakeClient(d) ==
  /\ InRange(d)
  /\ status[At(d)] # "csOffline"
  /\ pClient' = [pClient EXCEPT ![d] = At(d)]
  /\ dao' = [dao EXCEPT ![d] = "send"]
  /\ UNCHANGED <<vectorVars, clientVars, iter, served, accepted, main, mainIter,
                 undefined>>

(* The connection send() writes to, if there is one that takes data.      *)
Receiver(c) ==
  IF nSocket[c] = NoSocket \/ owner[nSocket[c]] = NoClient THEN {}
  ELSE {o \in {owner[nSocket[c]]} : peer[o] = "up"}

(* send() took part of the line, and the loop of SendAll goes on with the  *)
(* rest of it.                                                             *)
SendPart(d) ==
  /\ dao[d] = "send"
  /\ pClient[d] \in alive
  /\ Receiver(pClient[d]) # {}
  /\ part' = part \cup Receiver(pClient[d])
  /\ UNCHANGED <<vectorVars, alive, status, nSocket, owner, peer, daoVars, accepted, main,
                 mainIter, undefined>>

(* send() took all of what was left.                                      *)
SendAll(d) ==
  /\ dao[d] = "send"
  /\ pClient[d] \in alive
  /\ Receiver(pClient[d]) # {}
  /\ part' = part \ Receiver(pClient[d])
  /\ served' = [served EXCEPT ![d] = @ \cup Receiver(pClient[d])]
  /\ dao' = [dao EXCEPT ![d] = "trigger"]
  /\ UNCHANGED <<vectorVars, alive, status, nSocket, owner, peer, iter, pClient, accepted,
                 main, mainIter, undefined>>

(* Mutant: a client that has been sent part of the line stays in service. *)
SendFailsOnlyAtOnce(d) ==
  /\ dao[d] = "send"
  /\ pClient[d] \in alive
  /\ Receiver(pClient[d]) = {}
  /\ status' = [status EXCEPT ![pClient[d]] = IF pClient[d] \in part THEN @ ELSE "csOffline"]
  /\ dao' = [dao EXCEPT ![d] = "failed"]
  /\ UNCHANGED <<vectorVars, alive, nSocket, owner, peer, part, iter, pClient, served,
                 accepted, main, mainIter, undefined>>

(* send() fails at once, or after part of the line.                       *)
SendFails(d) ==
  /\ dao[d] = "send"
  /\ pClient[d] \in alive
  /\ Receiver(pClient[d]) = {}
  /\ status' = [status EXCEPT ![pClient[d]] = "csOffline"]
  /\ dao' = [dao EXCEPT ![d] = "failed"]
  /\ UNCHANGED <<vectorVars, alive, nSocket, owner, peer, part, iter, pClient, served,
                 accepted, main, mainIter, undefined>>

(* Mutant: the iterator is not advanced after a client that was sent to.  *)
NextClientStays(d) ==
  /\ dao[d] \in {"trigger", "failed"}
  /\ dao' = [dao EXCEPT ![d] = "walk"]
  /\ pClient' = [pClient EXCEPT ![d] = NoClient]
  /\ UNCHANGED <<vectorVars, clientVars, iter, served, accepted, main, mainIter, undefined>>

(* Mutant: the iterator is advanced twice after a failure.                *)
NextClientSkips(d) ==
  /\ dao[d] \in {"trigger", "failed"}
  /\ iter' = [iter EXCEPT ![d] = IF dao[d] = "failed" THEN @ + 2 ELSE @ + 1]
  /\ dao' = [dao EXCEPT ![d] = "walk"]
  /\ pClient' = [pClient EXCEPT ![d] = NoClient]
  /\ UNCHANGED <<vectorVars, clientVars, served, accepted, main, mainIter, undefined>>

(* The reply event is set (nobody waits for it), or the failure logged.   *)
NextClient(d) ==
  /\ dao[d] \in {"trigger", "failed"}
  /\ iter' = [iter EXCEPT ![d] = @ + 1]
  /\ dao' = [dao EXCEPT ![d] = "walk"]
  /\ pClient' = [pClient EXCEPT ![d] = NoClient]
  /\ UNCHANGED <<vectorVars, clientVars, served, accepted, main, mainIter, undefined>>

(* Undefined: the reader uses an object main has destroyed; it follows an  *)
(* iterator into a freed buffer, or past the end, which erase() has moved  *)
(* down; it reads an element erase() is moving.                            *)
UseOfDestroyed(d) == pClient[d] \notin alive \cup {NoClient} /\ BecomesUndefined

IteratorInvalid(d) ==
  /\ dao[d] = "walk"
  /\ d \in stale \/ iter[d] > Len(m_vClient) + 1 \/ main = "erase"
  /\ BecomesUndefined

-----------------------------------------------------------------------------
(* The kernel learns that the client has gone.                            *)
PeerGone(c) ==
  /\ c \in alive
  /\ nSocket[c] # NoSocket
  /\ peer[c] = "up"
  /\ peer' = [peer EXCEPT ![c] = "gone"]
  /\ UNCHANGED <<vectorVars, alive, status, nSocket, owner, part, daoVars, accepted, main,
                 mainIter, undefined>>

MainStep ==
  \/ CheckClientVector
  \/ CheckEnd
  \/ CheckNext
  \/ ShutdownClient
  \/ EraseClientFromVector
  \/ UseOfThread
  \/ MainIteratorStale

DaoStep(d) ==
  \/ BeginWalk(d)
  \/ EndWalk(d)
  \/ SkipOffline(d)
  \/ TakeClient(d)
  \/ SendPart(d)
  \/ SendAll(d)
  \/ SendFails(d)
  \/ NextClient(d)
  \/ UseOfDestroyed(d)
  \/ IteratorInvalid(d)

Next ==
  /\ ~undefined
  /\ \/ Accept
     \/ AcceptFails
     \/ PushBackClientToVector
     \/ MainStep
     \/ \E d \in Dao : DaoStep(d)
     \/ \E c \in Client : PeerGone(c)

Spec == Init /\ [][Next]_vars

-----------------------------------------------------------------------------
(* A descriptor that is closed and given out again is not used by the      *)
(* client it belonged to: no two clients that may be sent to share one,    *)
(* though the old object can still be in the vector when the new client is *)
(* accepted.                                                               *)
OneOwner ==
  \A c, o \in alive :
    /\ nSocket[c] # NoSocket
    /\ nSocket[c] = nSocket[o]
    /\ status[c] # "csOffline"
    /\ status[o] # "csOffline"
    => c = o

(* The descriptor of a client is closed before its object is destroyed.    *)
NoDescriptorLeak == \A f \in Socket : owner[f] \in alive \cup {NoClient}

(* main closes nobody's connection but that of the client it erases.      *)
ClosesItsOwn ==
  [][\A f \in Socket : owner[f] # NoClient /\ owner'[f] = NoClient
       => owner[f] = m_vClient[mainIter] /\ status[owner[f]] = "csOffline"]_vars

(* With one queue reader: what SendAll is called on has not been destroyed, *)
(* and its descriptor is its own.                                          *)
SentToItsOwn ==
  \A d \in Dao : dao[d] \in {"send", "trigger"} =>
    /\ pClient[d] \in alive
    /\ nSocket[pClient[d]] # NoSocket => owner[nSocket[pClient[d]]] = pClient[d]

(* A stream that ends within a line is being continued by the reader that  *)
(* began the line, or nothing more is sent on it: no client is sent the    *)
(* beginning of one line and then another line.                            *)
WholeLines ==
  \A c \in part : status[c] = "csOffline" \/ \E d \in Dao : dao[d] = "send" /\ pClient[d] = c

(* Whatever is pushed and erased meanwhile, no client is sent a line twice. *)
NoLineTwice ==
  [][\A d \in Dao : SendAll(d) => Receiver(pClient[d]) \cap served[d] = {}]_vars

(* Every client that was in the vector when the walk began and can be sent *)
(* to has been sent the line when it ends, except the one next to a client *)
(* that was erased while the reader was there or behind it.                *)
NobodyElseMissed ==
  \A d \in Dao :
    dao[d] = "walk" /\ d \notin stale /\ iter[d] = Len(m_vClient) + 1
      => \A c \in present[d] : c \in served[d] \/ status[c] = "csOffline"

(* A client whose connection is gone, or that never had one because        *)
(* accept() failed, does not stay in the vector for ever, unless clients   *)
(* keep coming: main's look at the vector ends when it reaches an end that *)
(* the accept thread moves.                                                *)
GoneIsReaped ==
  \A c \in Client :
    c \in alive /\ (peer[c] = "gone" \/ nSocket[c] = NoSocket)
      ~> c \notin alive \/ accepted # NoClient \/ undefined
=============================================================================
