------------------------------ MODULE ARSTQueue ------------------------------
(***************************************************************************)
(* The System V message queues between the upstream readers and the queue  *)
(* readers: ARSTQueueDAO::SendData and ARSTQueue::SendMessage, called by   *)
(* the reader thread of every upstream connection, and the GetMessage of   *)
(* ARSTQueueDAO::Run.  All senders to a queue go through the one           *)
(* ARSTQueueMessage of its ARSTQueue, and no lock is taken: while a line   *)
(* is cleared for and copied into it, another sender may do the same.      *)
(*                                                                         *)
(* A text is a sequence of cells; the cell of a line says of which line it *)
(* is a piece, NUL is a zero byte.  Whether the send key and the receive   *)
(* key of a DAO are one key is up to the configuration and the queue       *)
(* manager, which are not in the repository; here they are.                *)
(***************************************************************************)
EXTENDS Integers, Sequences, FiniteSets, SequencesExt

CONSTANTS
  Sender,      (* reader threads of upstream connections                   *)
  Dao,         (* queue readers, each with its queue                       *)
  NUL,
  BUFSIZE,     (* cells of ARSTQueueMessage.uncaMessageBuf                 *)
  BUFFERSIZE,  (* cells of a reader's buffer: the longest line             *)
  msg_qbytes,  (* cells the kernel keeps in a queue                        *)
  MaxLines,    (* bound: lines a sender sends                              *)
  MaxTotal     (* bound: lines all senders send                            *)

(* A line has its newline at least, and no zero byte.                     *)
Line == [from : Sender, no : 0..MaxLines, size : 1..BUFFERSIZE]

ASSUME QueueAssumption ==
  /\ BUFSIZE \in Nat
  /\ BUFFERSIZE \in 1..BUFSIZE
  /\ msg_qbytes \in Nat /\ msg_qbytes >= BUFFERSIZE
  /\ MaxLines \in Nat
  /\ MaxTotal \in Nat
  /\ NUL \notin Line

VARIABLES
  sender,          (* where each sender is                                 *)
  line,            (* the line it sends, or sent last                      *)
  dao,             (* what GetDAO gave it                                  *)
  todo,            (* cells its memset or memcpy has still to write        *)
  shared,          (* history: lines sent while another sender was in the  *)
                   (* same buffer                                          *)
  m_QueueMessage,  (* the buffer of each queue's senders                   *)
  message,         (* what each sender's msgsnd has copied                 *)
  exists,          (* queues that are there                                *)
  queue,           (* what is in them                                      *)
  received,        (* history: the last message of each reader, as Entry   *)
  seen,            (* history: lines of which each reader received a piece *)
  exited           (* the process has ended                                *)

senderVars == <<sender, line, dao, todo, shared, m_QueueMessage, message>>
readerVars == <<queue, received, seen>>
vars == <<senderVars, readerVars, exists, exited>>

Message == [line : Line, text : Seq(Line \cup {NUL})]

(* "clear", "copy": in memset and memcpy; "msgsnd": in the kernel, which   *)
(* has copied the message.                                                 *)
TypeOK ==
  /\ sender \in [Sender -> {"idle", "clear", "copy", "msgsnd"}]
  /\ line \in [Sender -> Line]
  /\ dao \in [Sender -> Dao]
  /\ todo \in [Sender -> SUBSET (1..BUFSIZE)]
  /\ shared \subseteq Line
  /\ m_QueueMessage \in [Dao -> [1..BUFSIZE -> Line \cup {NUL}]]
  /\ message \in [Sender -> Message]
  /\ exists \subseteq Dao
  /\ queue \in [Dao -> Seq(Message)]
  /\ received \in [Dao -> [line : Line, whole : BOOLEAN]]
  /\ seen \in [Dao -> SUBSET Line]
  /\ exited \in BOOLEAN

TextOf(l) == [k \in 1..l.size |-> l]

Whole(m) == m.text = TextOf(m.line)

(* A message as far as the readers care.                                  *)
Entry(m) == [line |-> m.line, whole |-> Whole(m)]

NoLine(s) == [from |-> s, no |-> 0, size |-> 1]
NoMessage(s) == [line |-> NoLine(s), text |-> TextOf(NoLine(s))]

(* The constructors.  msgget may fail, and its result is not looked at.   *)
Init ==
  /\ sender = [s \in Sender |-> "idle"]
  /\ line = [s \in Sender |-> NoLine(s)]
  /\ dao \in {[s \in Sender |-> d] : d \in Dao}
  /\ todo = [s \in Sender |-> {}]
  /\ shared = {}
  /\ m_QueueMessage = [d \in Dao |-> [k \in 1..BUFSIZE |-> NUL]]
  /\ message = [s \in Sender |-> NoMessage(s)]
  /\ exists \in SUBSET Dao
  /\ queue = [d \in Dao |-> <<>>]
  /\ received \in {[d \in Dao |-> Entry(NoMessage(s))] : s \in Sender}
  /\ seen = [d \in Dao |-> {}]
  /\ exited = FALSE

-----------------------------------------------------------------------------
(* A sender.                                                              *)

Goto(s, place) == sender' = [sender EXCEPT ![s] = place]

Writing(d) == {s \in Sender : sender[s] \in {"clear", "copy"} /\ dao[s] = d}

(* ARSTServer::Run has a line, GetDAO gives it any queue.                  *)
SendData(s) ==
  /\ sender[s] = "idle"
  /\ line[s].no < MaxLines
  /\ SumFunction([t \in Sender |-> line[t].no]) < MaxTotal
  /\ \E n \in 1..BUFFERSIZE, d \in Dao :
       /\ line' = [line EXCEPT ![s] = [from |-> s, no |-> @.no + 1, size |-> n]]
       /\ dao' = [dao EXCEPT ![s] = d]
       /\ shared' = IF Writing(d) = {} THEN shared
                    ELSE shared \cup {line'[t] : t \in Writing(d) \cup {s}}
  /\ todo' = [todo EXCEPT ![s] = 1..BUFSIZE]
  /\ Goto(s, "clear")
  /\ UNCHANGED <<m_QueueMessage, message, readerVars, exists, exited>>

(* Senders whose line another one may have written over.                  *)
Overlapped == {s \in Sender : line[s] \in shared}

(* Writes cell by cell, in no particular order.                           *)
Write(s, k, x) == m_QueueMessage' = [m_QueueMessage EXCEPT ![dao[s]][k] = x]

(* Mutant: memcpy of nSize + 1 bytes.                                     *)
CopiedTooMany(s) == 1..(line[s].size + 1)

(* Mutant: memcpy of nSize - 1 bytes.                                     *)
CopiedTooFew(s) == 1..(line[s].size - 1)

Copied(s) == 1..line[s].size

Memset(s) ==
  /\ sender[s] = "clear"
  /\ \E k \in todo[s] :
       /\ Write(s, k, NUL)
       /\ \/ /\ todo[s] # {k}
             /\ todo' = [todo EXCEPT ![s] = @ \ {k}]
             /\ UNCHANGED sender
          \/ /\ todo[s] = {k}
             /\ todo' = [todo EXCEPT ![s] = Copied(s)]
             /\ Goto(s, "copy")
  /\ UNCHANGED <<line, dao, shared, message, readerVars, exists, exited>>

Memcpy(s) ==
  /\ sender[s] = "copy"
  /\ \E k \in todo[s] :
       /\ Write(s, k, line[s])
       /\ todo' = [todo EXCEPT ![s] = @ \ {k}]
  /\ UNCHANGED <<sender, line, dao, shared, message, readerVars, exists, exited>>

(* Mutant: msgsnd of BUFSIZE bytes.                                       *)
SentWholeBuffer(s) == 1..BUFSIZE

Sent(s) == 1..line[s].size

(* msgsnd of nSize bytes copies them before it waits for room.            *)
Msgsnd(s) ==
  /\ sender[s] = "copy"
  /\ todo[s] = {}
  /\ message' = [message EXCEPT ![s] =
                   [line |-> line[s],
                    text |-> [k \in Sent(s) |-> m_QueueMessage[dao[s]][k]]]]
  /\ Goto(s, "msgsnd")
  /\ UNCHANGED <<line, dao, todo, shared, m_QueueMessage, readerVars, exists, exited>>

(* The bytes of a queue.                                                  *)
Bytes(q) == FoldLeft(LAMBDA n, m : n + Len(m.text), 0, q)

HasRoom(d, m) == Bytes(queue[d]) + Len(m.text) <= msg_qbytes

MsgsndReturns(s) ==
  /\ Goto(s, "idle")
  /\ message' = [message EXCEPT ![s] = NoMessage(s)]
  /\ UNCHANGED <<line, dao, todo, shared, m_QueueMessage>>

(* Mutant: the send is repeated although it has succeeded.                *)
EnqueueAgain(s) ==
  /\ sender[s] = "msgsnd"
  /\ dao[s] \in exists
  /\ HasRoom(dao[s], message[s])
  /\ queue' = [queue EXCEPT ![dao[s]] = Append(@, message[s])]
  /\ UNCHANGED <<senderVars, received, seen, exists, exited>>

(* There is room in the queue.                                            *)
Enqueue(s) ==
  /\ sender[s] = "msgsnd"
  /\ dao[s] \in exists
  /\ HasRoom(dao[s], message[s])
  /\ queue' = [queue EXCEPT ![dao[s]] = Append(@, message[s])]
  /\ MsgsndReturns(s)
  /\ UNCHANGED <<received, seen, exists, exited>>

(* There is no such queue, or no longer: -1, which nobody looks at.       *)
MsgsndFails(s) ==
  /\ sender[s] = "msgsnd"
  /\ dao[s] \notin exists
  /\ MsgsndReturns(s)
  /\ UNCHANGED <<readerVars, exists, exited>>

-----------------------------------------------------------------------------
(* The reader of a queue.                                                 *)

(* strcpy of a message into a zeroed buffer: up to the first NUL.          *)
BeforeNUL(text) == {k \in DOMAIN text : \A j \in 1..k : text[j] # NUL}

Piece(text) == SubSeq(text, 1, Cardinality(BeforeNUL(text)))

(* The lines of which a text has a piece.                                 *)
Lines(text) == {text[k] : k \in DOMAIN text} \ {NUL}

(* Mutant: the message is received and stays in the queue.                *)
GetMessageCopies(d) ==
  /\ queue[d] # <<>>
  /\ received' = [received EXCEPT ![d] =
                    Entry([Head(queue[d]) EXCEPT !.text = Piece(@)])]
  /\ seen' = [seen EXCEPT ![d] = @ \cup Lines(Piece(Head(queue[d]).text))]
  /\ UNCHANGED <<senderVars, queue, exists, exited>>

GetMessage(d) ==
  /\ queue[d] # <<>>
  /\ queue' = [queue EXCEPT ![d] = Tail(@)]
  /\ received' = [received EXCEPT ![d] =
                    Entry([Head(queue[d]) EXCEPT !.text = Piece(@)])]
  /\ seen' = [seen EXCEPT ![d] = @ \cup Lines(Piece(Head(queue[d]).text))]
  /\ UNCHANGED <<senderVars, exists, exited>>

(* msgrcv fails: exit(-1).                                                *)
GetMessageFails(d) ==
  /\ d \notin exists
  /\ exited' = TRUE
  /\ UNCHANGED <<senderVars, readerVars, exists>>

(* The queue is removed from outside the process.                         *)
Ipcrm(d) ==
  /\ d \in exists
  /\ exists' = exists \ {d}
  /\ queue' = [queue EXCEPT ![d] = <<>>]
  /\ UNCHANGED <<senderVars, received, seen, exited>>

SenderStep(s) ==
  \/ Memset(s)
  \/ Memcpy(s)
  \/ Msgsnd(s)
  \/ MsgsndFails(s)

ReaderStep(d) == GetMessage(d) \/ GetMessageFails(d)

Next ==
  /\ ~exited
  /\ \/ \E s \in Sender : SendData(s) \/ SenderStep(s) \/ Enqueue(s)
     \/ \E d \in Dao : ReaderStep(d) \/ Ipcrm(d)

Spec == Init /\ [][Next]_vars

(* The threads run, a reader always comes back for the next message, and a *)
(* sender that waits for room is not passed over for ever by the others.   *)
FairSpec ==
  /\ Spec
  /\ \A s \in Sender : WF_vars(~exited /\ SenderStep(s)) /\ SF_vars(~exited /\ Enqueue(s))
  /\ \A d \in Dao : WF_vars(~exited /\ ReaderStep(d))

-----------------------------------------------------------------------------
(* A line that no other sender wrote over leaves for the kernel whole,     *)
(* although all share the buffer and what was in it was longer or shorter. *)
WholeIfAlone ==
  \A s \in Sender : sender[s] = "msgsnd" /\ s \notin Overlapped => Whole(message[s])

(* Whatever else is mixed up in the buffer, all that a queue's reader gets *)
(* of a line which no other sender wrote over comes in one message, after  *)
(* every piece, in whosever message, of earlier lines of its sender.       *)
(* Nothing is said of lines that went through different queues.            *)
InOrder ==
  \A d \in Dao : \A a \in DOMAIN queue[d] :
    \A l \in Lines(queue[d][a].text) \ shared :
      \A k \in seen[d] \cup UNION {Lines(queue[d][b].text) : b \in 1..(a - 1)} :
        k.from = l.from => k.no < l.no

(* The queues keep the promise of ARSTLineQueue.                          *)
Stage(place) ==
  CASE place = "idle" -> "idle"
    [] place \in {"clear", "copy"} -> "writing"
    [] place = "msgsnd" -> "handed"

Entries(q) == [k \in DOMAIN q |-> Entry(q[k])]

LineQueue == INSTANCE ARSTLineQueue WITH
  stage <- [s \in Sender |-> Stage(sender[s])],
  to <- dao,
  whole <- [s \in Sender |-> Whole(message[s])],
  overlapped <- Overlapped,
  queue <- [d \in Dao |-> Entries(queue[d])]

ImplementsLineQueue == LineQueue!Spec

(* A full queue holds a sender up, and with it the reading of its upstream *)
(* connection, but not for ever, even if the queue is removed meanwhile.   *)
SendReturns == \A s \in Sender : sender[s] = "msgsnd" ~> sender[s] = "idle" \/ exited
=============================================================================
