-------------------------- MODULE ARSTQueue_proofs --------------------------
(* Proofs about ARSTQueue, for any senders, queues and sizes.              *)
EXTENDS ARSTQueue, TLAPS, SequenceTheorems, FiniteSetTheorems

(* Two that write into one buffer at the same time are overlapped, and a   *)
(* sender that is not has in the buffer what it has copied.                *)
WriterInv ==
  /\ \A s, t \in Sender :
       s # t /\ s \in Writing(dao[s]) /\ t \in Writing(dao[s]) => s \in Overlapped
  /\ \A s \in Sender : sender[s] = "copy" /\ s \notin Overlapped =>
       \A k \in 1..line[s].size : k \notin todo[s] => m_QueueMessage[dao[s]][k] = line[s]

(* What a message is while it is with the kernel.                         *)
MessageInv ==
  /\ \A s \in Sender : sender[s] # "msgsnd" => message[s] = NoMessage(s)
  /\ \A s \in Sender : sender[s] = "msgsnd" =>
       /\ message[s].line = line[s]
       /\ Len(message[s].text) = line[s].size
       /\ s \notin Overlapped => Whole(message[s])
  /\ \A d \in Dao : \A a \in DOMAIN queue[d] :
       Len(queue[d][a].text) = queue[d][a].line.size

(* A line that was given to its sender: the one it has, or an older one.   *)
Known(k) == k.no < line[k.from].no \/ k = line[k.from]

LineInv ==
  /\ \A s \in Sender : line[s].from = s
  /\ \A k \in shared : Known(k)

(* Where a sender has cleared or copied there is nothing but zeroes, its   *)
(* own line, and lines that were sent while another sender was in the same *)
(* buffer; and so in the text it hands to the kernel.                      *)
TextInv ==
  /\ \A s \in Sender, k \in 1..BUFSIZE :
       sender[s] = "copy" \/ (sender[s] = "clear" /\ k \notin todo[s]) =>
         m_QueueMessage[dao[s]][k] \in shared \cup {line[s], NUL}
  /\ \A s \in Sender : sender[s] = "msgsnd" => Lines(message[s].text) \subseteq shared \cup {line[s]}

(* All that is in a queue or was received from it.                        *)
Given(d) == seen[d] \cup UNION {Lines(queue[d][a].text) : a \in DOMAIN queue[d]}

(* While a line that no other sender wrote over is on its way, nobody has  *)
(* a piece of it.                                                          *)
OrderInv ==
  /\ \A d \in Dao : \A k \in Given(d) :
       Known(k) /\ (sender[k.from] = "idle" \/ k \in shared \/ k # line[k.from])
  /\ InOrder

-----------------------------------------------------------------------------
(* Lines, texts and messages.                                             *)

LEMMA TextOfLine ==
  ASSUME NEW l \in Line
  PROVE  /\ TextOf(l) \in Seq(Line \cup {NUL})
         /\ Len(TextOf(l)) = l.size
         /\ l.size \in Nat \ {0}
         /\ \A k \in 1..l.size : TextOf(l)[k] = l
<1>1. l.size \in Nat \ {0}
  BY QueueAssumption DEF Line
<1>2. TextOf(l) \in Seq(Line \cup {NUL})
  BY <1>1, IsASeq DEF TextOf
<1>3. Len(TextOf(l)) = l.size
  BY <1>1, <1>2, LenProperties DEF TextOf
<1> QED
  BY <1>1, <1>2, <1>3 DEF TextOf

LEMMA NoMessageIsMessage ==
  ASSUME NEW s \in Sender
  PROVE  /\ NoLine(s) \in Line /\ NoMessage(s) \in Message /\ Whole(NoMessage(s))
<1>1. NoLine(s) \in Line
  BY QueueAssumption DEF NoLine, Line
<1> QED
  BY <1>1, TextOfLine DEF NoMessage, Message, Whole

(* strcpy neither makes a piece of a line whole nor the other way round.   *)
LEMMA PieceOfWhole ==
  ASSUME NEW m \in Message, Len(m.text) = m.line.size
  PROVE  Piece(m.text) = TextOf(m.line) <=> m.text = TextOf(m.line)
<1> DEFINE n == Len(m.text)
           T == Line \cup {NUL}
           before == BeforeNUL(m.text)
<1>1. m.line \in Line /\ m.text \in Seq(T) /\ n \in Nat \ {0} /\ DOMAIN m.text = 1..n
  BY TextOfLine, LenProperties DEF Message
<1>2. /\ TextOf(m.line) \in Seq(T) /\ Len(TextOf(m.line)) = n
      /\ \A k \in 1..n : TextOf(m.line)[k] = m.line
  BY <1>1, TextOfLine
<1>3. m.line # NUL
  BY <1>1, QueueAssumption
<1>4. CASE \A k \in 1..n : m.text[k] # NUL
  <2>1. before = 1..n
    BY <1>1, <1>4 DEF BeforeNUL
  <2>2. Cardinality(before) = n
    BY <1>1, <2>1, FS_Interval
  <2>3. SubSeq(m.text, 1, n) = m.text
    BY <1>1, SubSeqFull
  <2> QED
    BY <2>2, <2>3 DEF Piece
<1>5. ASSUME NEW k \in 1..n, m.text[k] = NUL
      PROVE  Piece(m.text) # TextOf(m.line) /\ m.text # TextOf(m.line)
  <2>1. before \subseteq 1..(k - 1)
    BY <1>1, <1>5 DEF BeforeNUL
  <2>2. IsFiniteSet(1..(k - 1)) /\ Cardinality(1..(k - 1)) = k - 1
    <3> DEFINE p == k - 1
    <3>1. p \in Nat
      BY <1>1
    <3> HIDE DEF p
    <3>2. IsFiniteSet(1..p) /\ Cardinality(1..p) = IF 1 > p THEN 0 ELSE p - 1 + 1
      BY <3>1, FS_Interval
    <3>3. IsFiniteSet(1..p) /\ Cardinality(1..p) = p
      BY <3>1, <3>2
    <3> QED
      BY <3>3 DEF p
  <2>3. Cardinality(before) \in Nat /\ Cardinality(before) <= k - 1
    BY <2>1, <2>2, FS_Subset, FS_CardinalityType
  <2>4. Len(Piece(m.text)) = Cardinality(before)
    <3> DEFINE c == Cardinality(before)
    <3>1. c \in Nat /\ c < n
      BY <1>1, <2>3
    <3>2. \A j \in 1..c : m.text[j] \in T
      BY <1>1, <3>1, ElementOfSeq
    <3>3. Len(SubSeq(m.text, 1, c)) = IF 1 <= c THEN c - 1 + 1 ELSE 0
      BY <3>1, <3>2, SubSeqProperties
    <3> QED
      BY <3>1, <3>3 DEF Piece
  <2> QED
    <3>1. Len(Piece(m.text)) # n
      BY <1>1, <2>3, <2>4
    <3>2. TextOf(m.line)[k] # NUL
      BY <1>2, <1>3
    <3> QED
      BY <1>2, <1>5, <3>1, <3>2
<1> QED
  BY <1>4, <1>5

(* A piece of a text has nothing that the text has not.                   *)
LEMMA LinesOfPiece ==
  ASSUME NEW text \in Seq(Line \cup {NUL})
  PROVE  Lines(Piece(text)) \subseteq Lines(text) /\ Lines(text) \subseteq Line
<1> DEFINE n == Len(text)
           c == Cardinality(BeforeNUL(text))
<1>1. n \in Nat /\ DOMAIN text = 1..n /\ \A k \in 1..n : text[k] \in Line \cup {NUL}
  BY LenProperties, ElementOfSeq
<1>2. c \in Nat /\ c <= n
  <2>1. BeforeNUL(text) \subseteq 1..n
    BY <1>1 DEF BeforeNUL
  <2>2. IsFiniteSet(1..n) /\ Cardinality(1..n) = n
    BY <1>1, FS_Interval
  <2> QED
    BY <2>1, <2>2, FS_Subset, FS_CardinalityType
<1>3. DOMAIN Piece(text) = 1..c /\ \A k \in 1..c : Piece(text)[k] = text[k]
  <2>1. \A k \in 1..c : text[k] \in Line \cup {NUL}
    BY <1>1, <1>2
  <2>2. /\ SubSeq(text, 1, c) \in Seq(Line \cup {NUL})
        /\ Len(SubSeq(text, 1, c)) = c
        /\ \A k \in 1..c : SubSeq(text, 1, c)[k] = text[k]
    BY <1>2, <2>1, SubSeqProperties
  <2> QED
    BY <2>2, LenProperties DEF Piece
<1> QED
  BY <1>1, <1>2, <1>3 DEF Lines

-----------------------------------------------------------------------------
(* Type correctness.                                                      *)

LEMMA InitTypeOK == Init => TypeOK
<1> SUFFICES ASSUME Init
             PROVE  TypeOK
  OBVIOUS
<1>1. /\ line \in [Sender -> Line] /\ message \in [Sender -> Message]
  BY NoMessageIsMessage DEF Init
<1>2. /\ sender \in [Sender -> {"idle", "clear", "copy", "msgsnd"}]
      /\ dao \in [Sender -> Dao]
      /\ todo \in [Sender -> SUBSET (1..BUFSIZE)]
      /\ shared \subseteq Line
      /\ exists \subseteq Dao
      /\ exited \in BOOLEAN
  BY DEF Init
<1>3. m_QueueMessage \in [Dao -> [1..BUFSIZE -> Line \cup {NUL}]]
  BY DEF Init
<1>4. queue \in [Dao -> Seq(Message)]
  BY EmptySeq DEF Init
<1>5. seen \in [Dao -> SUBSET Line]
  BY DEF Init
<1>6. received \in [Dao -> [line : Line, whole : BOOLEAN]]
  <2>1. PICK s \in Sender : received = [d \in Dao |-> Entry(NoMessage(s))]
    BY DEF Init
  <2>2. NoMessage(s).line \in Line /\ Whole(NoMessage(s)) \in BOOLEAN
    BY NoMessageIsMessage DEF Message, Whole
  <2>3. Entry(NoMessage(s)) \in [line : Line, whole : BOOLEAN]
    BY <2>2 DEF Entry
  <2> QED
    BY <2>1, <2>3
<1> QED
  BY <1>1, <1>2, <1>3, <1>4, <1>5, <1>6 DEF TypeOK

LEMMA SendDataTypeOK ==
  ASSUME TypeOK, NEW s \in Sender, SendData(s)
  PROVE  TypeOK'
<1>1. PICK n \in 1..BUFFERSIZE, d \in Dao :
        /\ line' = [line EXCEPT ![s] = [from |-> s, no |-> line[s].no + 1, size |-> n]]
        /\ dao' = [dao EXCEPT ![s] = d]
        /\ shared' = IF Writing(d) = {} THEN shared
                     ELSE shared \cup {line'[t] : t \in Writing(d) \cup {s}}
  BY DEF SendData
<1>2. line[s].no + 1 \in 0..MaxLines
  <2>1. line[s] \in Line /\ line[s].no < MaxLines
    BY DEF SendData, TypeOK
  <2> QED
    BY <2>1, QueueAssumption DEF Line
<1>3. line' \in [Sender -> Line]
  <2>1. [from |-> s, no |-> line[s].no + 1, size |-> n] \in Line
    BY <1>2 DEF Line
  <2> QED
    BY <1>1, <2>1 DEF TypeOK
<1>4. shared' \subseteq Line
  <2>1. \A t \in Writing(d) \cup {s} : line'[t] \in Line
    BY <1>3 DEF Writing
  <2> QED
    BY <1>1, <2>1 DEF TypeOK
<1> QED
  BY <1>1, <1>3, <1>4 DEF SendData, Goto, TypeOK, readerVars

LEMMA SenderTypeOK ==
  ASSUME TypeOK, NEW s \in Sender, SenderStep(s) \/ Enqueue(s)
  PROVE  TypeOK'
<1>0. line[s] \in Line /\ line[s].size \in 1..BUFFERSIZE /\ line[s].size \in 1..BUFSIZE
  <2>1. line[s] \in Line
    BY DEF TypeOK
  <2> QED
    BY <2>1, QueueAssumption DEF Line
<1>1. CASE Memset(s)
  <2>1. PICK k \in todo[s] :
          /\ Write(s, k, NUL)
          /\ \/ todo' = [todo EXCEPT ![s] = @ \ {k}] /\ UNCHANGED sender
             \/ todo' = [todo EXCEPT ![s] = Copied(s)] /\ Goto(s, "copy")
    BY <1>1 DEF Memset
  <2>2. Copied(s) \subseteq 1..BUFSIZE
    BY <1>0, QueueAssumption DEF Copied
  <2>3. todo' \in [Sender -> SUBSET (1..BUFSIZE)]
    BY <2>1, <2>2 DEF TypeOK
  <2>4. m_QueueMessage' \in [Dao -> [1..BUFSIZE -> Line \cup {NUL}]]
    BY <2>1 DEF TypeOK, Write
  <2>5. sender' \in [Sender -> {"idle", "clear", "copy", "msgsnd"}]
    BY <2>1 DEF TypeOK, Goto
  <2> QED
    BY <1>1, <2>3, <2>4, <2>5 DEF Memset, TypeOK, readerVars
<1>2. CASE Memcpy(s)
  <2>1. PICK k \in todo[s] : Write(s, k, line[s]) /\ todo' = [todo EXCEPT ![s] = @ \ {k}]
    BY <1>2 DEF Memcpy
  <2>2. todo' \in [Sender -> SUBSET (1..BUFSIZE)]
    BY <2>1 DEF TypeOK
  <2>3. m_QueueMessage' \in [Dao -> [1..BUFSIZE -> Line \cup {NUL}]]
    BY <1>0, <2>1 DEF TypeOK, Write
  <2> QED
    BY <1>2, <2>2, <2>3 DEF Memcpy, TypeOK, readerVars
<1>3. CASE Msgsnd(s)
  <2> DEFINE text == [k \in Sent(s) |-> m_QueueMessage[dao[s]][k]]
  <2>1. text \in Seq(Line \cup {NUL})
    <3>1. \A k \in 1..line[s].size : m_QueueMessage[dao[s]][k] \in Line \cup {NUL}
      BY <1>0, QueueAssumption DEF TypeOK
    <3>2. line[s].size \in Nat
      BY <1>0
    <3> QED
      BY <3>1, <3>2, IsASeq DEF Sent
  <2>2. [line |-> line[s], text |-> text] \in Message
    BY <1>0, <2>1 DEF Message
  <2> QED
    BY <1>3, <2>2 DEF Msgsnd, Goto, TypeOK, readerVars
<1>4. CASE MsgsndFails(s)
  BY <1>4, NoMessageIsMessage DEF MsgsndFails, MsgsndReturns, Goto, TypeOK, readerVars
<1>5. CASE Enqueue(s)
  <2>1. queue' \in [Dao -> Seq(Message)]
    BY <1>5 DEF Enqueue, TypeOK
  <2> QED
    BY <1>5, <2>1, NoMessageIsMessage DEF Enqueue, MsgsndReturns, Goto, TypeOK
<1> QED
  BY <1>1, <1>2, <1>3, <1>4, <1>5 DEF SenderStep

LEMMA ReaderTypeOK ==
  ASSUME TypeOK, NEW d \in Dao, ReaderStep(d) \/ Ipcrm(d)
  PROVE  TypeOK'
<1>1. CASE GetMessage(d)
  <2> DEFINE m == Head(queue[d])
  <2>1. queue[d] \in Seq(Message) /\ queue[d] # <<>>
    BY <1>1 DEF TypeOK, GetMessage
  <2>2. m \in Message /\ Tail(queue[d]) \in Seq(Message)
    BY <2>1, HeadTailProperties
  <2>3. m.line \in Line /\ m.line.from \in Sender /\ m.line.no \in 0..MaxLines
    BY <2>2 DEF Message, Line
  <2>4. queue' \in [Dao -> Seq(Message)]
    BY <1>1, <2>2 DEF GetMessage, TypeOK
  <2>5. Entry([m EXCEPT !.text = Piece(@)]) \in [line : Line, whole : BOOLEAN]
    BY <2>2, <2>3 DEF Entry, Whole, Message
  <2>6. received' \in [Dao -> [line : Line, whole : BOOLEAN]]
    BY <1>1, <2>5 DEF GetMessage, TypeOK
  <2>7. seen' \in [Dao -> SUBSET Line]
    <3>1. Lines(Piece(m.text)) \subseteq Line
      BY <2>2, LinesOfPiece DEF Message
    <3> QED
      BY <1>1, <3>1 DEF GetMessage, TypeOK
  <2> QED
    BY <1>1, <2>4, <2>6, <2>7 DEF GetMessage, TypeOK, senderVars
<1>2. CASE GetMessageFails(d)
  BY <1>2 DEF GetMessageFails, TypeOK, senderVars, readerVars
<1>3. CASE Ipcrm(d)
  <2>1. queue' \in [Dao -> Seq(Message)]
    BY <1>3, EmptySeq DEF Ipcrm, TypeOK
  <2> QED
    BY <1>3, <2>1 DEF Ipcrm, TypeOK, senderVars
<1> QED
  BY <1>1, <1>2, <1>3 DEF ReaderStep

LEMMA NextTypeOK == TypeOK /\ [Next]_vars => TypeOK'
<1>1. TypeOK /\ UNCHANGED vars => TypeOK'
  BY DEF TypeOK, vars, senderVars, readerVars
<1> QED
  BY <1>1, SendDataTypeOK, SenderTypeOK, ReaderTypeOK DEF Next

(* Whatever the senders write over each other, what the queues hold are    *)
(* messages of the declared sizes.                                         *)
THEOREM QueueTypeCorrect == Spec => []TypeOK
BY InitTypeOK, NextTypeOK, PTL DEF Spec

-----------------------------------------------------------------------------
(* The shared buffer.                                                     *)

(* A new line is shared with those that write where it is written to, and  *)
(* with nobody if there are none.                                          *)
LEMMA SendDataShares ==
  ASSUME TypeOK, LineInv, NEW s \in Sender, SendData(s)
  PROVE  \E n \in 1..BUFFERSIZE, d \in Dao :
           /\ line' = [line EXCEPT ![s] = [from |-> s, no |-> line[s].no + 1, size |-> n]]
           /\ dao' = [dao EXCEPT ![s] = d]
           /\ Overlapped' = IF Writing(d) = {} THEN Overlapped \ {s}
                            ELSE Overlapped \cup Writing(d) \cup {s}
<1>1. PICK n \in 1..BUFFERSIZE, d \in Dao :
        /\ line' = [line EXCEPT ![s] = [from |-> s, no |-> line[s].no + 1, size |-> n]]
        /\ dao' = [dao EXCEPT ![s] = d]
        /\ shared' = IF Writing(d) = {} THEN shared
                     ELSE shared \cup {line'[t] : t \in Writing(d) \cup {s}}
  BY DEF SendData
<1>2. /\ line'[s].from = s /\ line'[s].no = line[s].no + 1
      /\ \A t \in Sender : t # s => line'[t] = line[t]
  BY <1>1 DEF TypeOK
<1>3. \A t \in Sender : line'[t].from = t
  BY <1>2 DEF LineInv
<1>4. line'[s] \notin shared
  <2>1. line[s].no \in Nat
    <3>1. line[s] \in Line
      BY DEF TypeOK
    <3> QED
      BY <3>1 DEF Line
  <2>2. ASSUME line'[s] \in shared
        PROVE  FALSE
    <3>1. line'[s].no < line[s].no \/ line'[s] = line[s]
      BY <1>2, <2>2 DEF LineInv, Known
    <3> QED
      BY <1>2, <2>1, <3>1
  <2> QED
    BY <2>2
<1>5. s \notin Writing(d) /\ Writing(d) \subseteq Sender
  BY DEF SendData, Writing
<1>6. Overlapped' = {t \in Sender : line'[t] \in shared'}
  BY DEF Overlapped
<1>7. CASE Writing(d) = {}
  <2>1. \A t \in Sender : line'[t] \in shared' <=> t # s /\ line[t] \in shared
    BY <1>1, <1>2, <1>4, <1>7
  <2>2. Overlapped' = Overlapped \ {s}
    BY <1>6, <2>1 DEF Overlapped
  <2> QED
    BY <1>1, <1>7, <2>2
<1>8. CASE Writing(d) # {}
  <2>1. \A t \in Sender : line'[t] \in {line'[u] : u \in Writing(d) \cup {s}}
                            <=> t \in Writing(d) \cup {s}
    BY <1>3, <1>5
  <2>2. \A t \in Sender : line'[t] \in shared'
                            <=> line[t] \in shared \/ t \in Writing(d) \cup {s}
    BY <1>1, <1>2, <1>4, <1>8, <2>1
  <2>3. Overlapped' = Overlapped \cup Writing(d) \cup {s}
    BY <1>5, <1>6, <2>2 DEF Overlapped
  <2> QED
    BY <1>1, <1>8, <2>3
<1> QED
  BY <1>7, <1>8

LEMMA SendDataKeepsWriterInv ==
  ASSUME TypeOK, LineInv, WriterInv, NEW s \in Sender, SendData(s)
  PROVE  WriterInv'
<1>1. PICK d \in Dao :
        /\ dao' = [dao EXCEPT ![s] = d]
        /\ Overlapped' = IF Writing(d) = {} THEN Overlapped \ {s}
                         ELSE Overlapped \cup Writing(d) \cup {s}
  BY SendDataShares
<1>2. /\ sender' = [sender EXCEPT ![s] = "clear"]
      /\ todo' = [todo EXCEPT ![s] = 1..BUFSIZE]
      /\ m_QueueMessage' = m_QueueMessage
      /\ \A t \in Sender : t # s => line'[t] = line[t]
      /\ sender[s] = "idle"
  BY DEF SendData, Goto, TypeOK
<1>3. \A t \in Sender : t # s => sender'[t] = sender[t] /\ dao'[t] = dao[t] /\ todo'[t] = todo[t]
  BY <1>1, <1>2 DEF TypeOK
<1>4. sender'[s] = "clear" /\ dao'[s] = d
  BY <1>1, <1>2 DEF TypeOK
<1>5. \A t \in Sender : t # s /\ t \in Overlapped => t \in Overlapped'
  BY <1>1
<1>6. ASSUME NEW t \in Sender, NEW u \in Sender,
             t # u, (t \in Writing(dao[t]) /\ u \in Writing(dao[t]))'
      PROVE  t \in Overlapped'
  <2>1. /\ sender'[t] \in {"clear", "copy"} /\ sender'[u] \in {"clear", "copy"}
        /\ dao'[u] = dao'[t]
    BY <1>6 DEF Writing
  <2>2. CASE t = s
    <3>1. u \in Writing(d)
      BY <1>3, <1>4, <1>6, <2>1, <2>2 DEF Writing
    <3> QED
      BY <1>1, <2>2, <3>1
  <2>3. CASE u = s
    <3>1. t \in Writing(d)
      BY <1>3, <1>4, <1>6, <2>1, <2>3 DEF Writing
    <3> QED
      BY <1>1, <3>1
  <2>4. CASE t # s /\ u # s
    <3>1. t \in Writing(dao[t]) /\ u \in Writing(dao[t])
      BY <1>3, <2>1, <2>4 DEF Writing
    <3> QED
      BY <1>5, <1>6, <2>4, <3>1 DEF WriterInv
  <2> QED
    BY <2>2, <2>3, <2>4
<1>7. ASSUME NEW t \in Sender, sender'[t] = "copy", t \notin Overlapped',
             NEW k \in 1..line'[t].size, k \notin todo'[t]
      PROVE  m_QueueMessage'[dao'[t]][k] = line'[t]
  BY <1>2, <1>3, <1>4, <1>5, <1>7 DEF WriterInv
<1> QED
  BY <1>6, <1>7 DEF WriterInv

(* A write into a buffer is seen by its writer and by overlapped senders.  *)
LEMMA OthersAreNotDisturbed ==
  ASSUME TypeOK, WriterInv, NEW s \in Sender, sender[s] \in {"clear", "copy"},
         NEW k \in 1..BUFSIZE, NEW x, Write(s, k, x),
         NEW t \in Sender, t # s, sender[t] = "copy", t \notin Overlapped
  PROVE  m_QueueMessage'[dao[t]] = m_QueueMessage[dao[t]]
<1>1. dao[t] # dao[s]
  BY DEF WriterInv, Writing
<1> QED
  BY <1>1 DEF Write, TypeOK

LEMMA SenderKeepsWriterInv ==
  ASSUME TypeOK, WriterInv, NEW s \in Sender, SenderStep(s) \/ Enqueue(s)
  PROVE  WriterInv'
<1>1. line' = line /\ dao' = dao /\ Overlapped' = Overlapped
  BY DEF SenderStep, Memset, Memcpy, Msgsnd, MsgsndFails, Enqueue, MsgsndReturns, Overlapped
<1>2. \A t \in Sender : t # s => sender'[t] = sender[t] /\ todo'[t] = todo[t]
  BY DEF SenderStep, Memset, Memcpy, Msgsnd, MsgsndFails, Enqueue, MsgsndReturns, Goto, TypeOK
<1>3. sender'[s] \in {"clear", "copy"} => sender[s] \in {"clear", "copy"}
  BY DEF SenderStep, Memset, Memcpy, Msgsnd, MsgsndFails, Enqueue, MsgsndReturns, Goto, TypeOK
<1>4. ASSUME NEW t \in Sender, NEW u \in Sender,
             t # u, (t \in Writing(dao[t]) /\ u \in Writing(dao[t]))'
      PROVE  t \in Overlapped'
  <2>1. t \in Writing(dao[t]) /\ u \in Writing(dao[t])
    BY <1>1, <1>2, <1>3, <1>4 DEF Writing
  <2> QED
    BY <1>1, <1>4, <2>1 DEF WriterInv
<1>5. ASSUME NEW t \in Sender, sender'[t] = "copy", t \notin Overlapped,
             NEW k \in 1..line[t].size, k \notin todo'[t]
      PROVE  m_QueueMessage'[dao[t]][k] = line[t]
  <2>1. k \in 1..BUFSIZE
    <3>1. line[t] \in Line
      BY DEF TypeOK
    <3> QED
      BY <3>1, QueueAssumption DEF Line
  <2>2. CASE t # s
    <3>1. m_QueueMessage'[dao[t]] = m_QueueMessage[dao[t]]
      <4>1. CASE Memset(s)
        <5>1. PICK j \in todo[s] : Write(s, j, NUL)
          BY <4>1 DEF Memset
        <5>2. j \in 1..BUFSIZE
          BY DEF TypeOK
        <5> QED
          BY <1>2, <1>5, <2>2, <4>1, <5>1, <5>2, OthersAreNotDisturbed DEF Memset
      <4>2. CASE Memcpy(s)
        <5>1. PICK j \in todo[s] : Write(s, j, line[s])
          BY <4>2 DEF Memcpy
        <5>2. j \in 1..BUFSIZE
          BY DEF TypeOK
        <5> QED
          BY <1>2, <1>5, <2>2, <4>2, <5>1, <5>2, OthersAreNotDisturbed DEF Memcpy
      <4>3. CASE Msgsnd(s) \/ MsgsndFails(s) \/ Enqueue(s)
        BY <4>3 DEF Msgsnd, MsgsndFails, Enqueue, MsgsndReturns
      <4> QED
        BY <4>1, <4>2, <4>3 DEF SenderStep
    <3> QED
      BY <1>2, <1>5, <2>2, <3>1 DEF WriterInv
  <2>3. CASE t = s
    <3>1. CASE Memset(s)
      <4>1. todo'[s] = Copied(s)
        BY <1>5, <2>3, <3>1 DEF Memset, TypeOK
      <4> QED
        BY <1>5, <2>3, <4>1 DEF Copied
    <3>2. CASE Memcpy(s)
      <4>1. PICK j \in todo[s] :
              Write(s, j, line[s]) /\ todo' = [todo EXCEPT ![s] = @ \ {j}]
        BY <3>2 DEF Memcpy
      <4>2. todo'[s] = todo[s] \ {j} /\ dao[s] \in Dao /\ sender[s] = "copy"
        BY <3>2, <4>1 DEF TypeOK, Memcpy
      <4>3. CASE k = j
        BY <2>1, <2>3, <4>1, <4>2, <4>3 DEF Write, TypeOK
      <4>4. CASE k # j
        <5>1. m_QueueMessage[dao[s]][k] = line[s]
          BY <1>5, <2>3, <4>2, <4>4 DEF WriterInv
        <5> QED
          BY <2>1, <2>3, <4>1, <4>2, <4>4, <5>1 DEF Write, TypeOK
      <4> QED
        BY <4>3, <4>4
    <3>3. CASE Msgsnd(s) \/ MsgsndFails(s) \/ Enqueue(s)
      BY <1>5, <2>3, <3>3 DEF Msgsnd, MsgsndFails, Enqueue, MsgsndReturns, Goto, TypeOK
    <3> QED
      BY <3>1, <3>2, <3>3 DEF SenderStep
  <2> QED
    BY <2>2, <2>3
<1> QED
  BY <1>1, <1>4, <1>5 DEF WriterInv

-----------------------------------------------------------------------------
(* Messages.                                                              *)

LEMMA SendDataKeepsMessageInv ==
  ASSUME TypeOK, LineInv, MessageInv, NEW s \in Sender, SendData(s)
  PROVE  MessageInv'
<1>1. /\ message' = message /\ queue' = queue
      /\ sender[s] = "idle" /\ sender' = [sender EXCEPT ![s] = "clear"]
      /\ \A t \in Sender : t # s => line'[t] = line[t]
      /\ \A t \in Sender : t # s /\ t \in Overlapped => t \in Overlapped'
  <2>1. PICK d \in Dao : Overlapped' = IF Writing(d) = {} THEN Overlapped \ {s}
                                       ELSE Overlapped \cup Writing(d) \cup {s}
    BY SendDataShares
  <2> QED
    BY <2>1 DEF SendData, Goto, TypeOK, readerVars
<1>2. sender'[s] = "clear" /\ \A t \in Sender : t # s => sender'[t] = sender[t]
  BY <1>1 DEF TypeOK
<1>3. \A t \in Sender : sender'[t] # "msgsnd" => message'[t] = NoMessage(t)
  BY <1>1, <1>2 DEF MessageInv
<1>4. \A t \in Sender : sender'[t] = "msgsnd" =>
        /\ message'[t].line = line'[t]
        /\ Len(message'[t].text) = line'[t].size
        /\ t \notin Overlapped' => Whole(message[t])
  BY <1>1, <1>2 DEF MessageInv
<1> QED
  BY <1>1, <1>3, <1>4 DEF MessageInv, NoMessage, NoLine, Whole, TextOf

LEMMA SenderKeepsMessageInv ==
  ASSUME TypeOK, WriterInv, MessageInv, NEW s \in Sender, SenderStep(s) \/ Enqueue(s)
  PROVE  MessageInv'
<1>1. line' = line /\ Overlapped' = Overlapped
  BY DEF SenderStep, Memset, Memcpy, Msgsnd, MsgsndFails, Enqueue, MsgsndReturns, Overlapped
<1>2. CASE Memset(s) \/ Memcpy(s)
  <2>1. /\ message' = message /\ queue' = queue
        /\ \A t \in Sender : sender'[t] = "msgsnd" <=> sender[t] = "msgsnd"
    BY <1>2 DEF Memset, Memcpy, Goto, TypeOK, readerVars
  <2> QED
    BY <1>1, <2>1 DEF MessageInv, NoMessage, NoLine, Whole, TextOf
<1>3. CASE Msgsnd(s)
  <2> DEFINE text == [k \in Sent(s) |-> m_QueueMessage[dao[s]][k]]
             m == [line |-> line[s], text |-> text]
  <2>1. /\ message' = [message EXCEPT ![s] = m] /\ queue' = queue
        /\ sender' = [sender EXCEPT ![s] = "msgsnd"]
        /\ sender[s] = "copy" /\ todo[s] = {}
    BY <1>3 DEF Msgsnd, Goto, readerVars
  <2>2. line[s] \in Line /\ line[s].size \in Nat
    <3>1. line[s] \in Line
      BY DEF TypeOK
    <3> QED
      BY <3>1, TextOfLine
  <2>3. Len(text) = line[s].size
    <3>1. \A k \in 1..line[s].size : m_QueueMessage[dao[s]][k] \in Line \cup {NUL}
      <4>1. line[s].size \in 1..BUFFERSIZE
        BY <2>2 DEF Line
      <4>2. 1..line[s].size \subseteq 1..BUFSIZE
        BY <4>1, QueueAssumption
      <4>3. m_QueueMessage[dao[s]] \in [1..BUFSIZE -> Line \cup {NUL}]
        BY DEF TypeOK
      <4> QED
        BY <4>2, <4>3
    <3>2. text \in Seq(Line \cup {NUL})
      BY <2>2, <3>1, IsASeq DEF Sent
    <3> QED
      BY <2>2, <3>2, LenProperties DEF Sent
  <2>4. s \notin Overlapped => Whole(m)
    BY <2>1 DEF WriterInv, Whole, TextOf, Sent
  <2>5. /\ message'[s] = m /\ sender'[s] = "msgsnd"
        /\ \A t \in Sender : t # s => message'[t] = message[t] /\ sender'[t] = sender[t]
    BY <2>1 DEF TypeOK
  <2>6. \A t \in Sender : sender'[t] # "msgsnd" => message'[t] = NoMessage(t)
    BY <2>5 DEF MessageInv
  <2>7. \A t \in Sender : sender'[t] = "msgsnd" =>
          /\ message'[t].line = line[t]
          /\ Len(message'[t].text) = line[t].size
          /\ t \notin Overlapped => message'[t].text = TextOf(message'[t].line)
    BY <2>3, <2>4, <2>5 DEF MessageInv, Whole
  <2> QED
    BY <1>1, <2>1, <2>6, <2>7 DEF MessageInv, NoMessage, NoLine, Whole, TextOf
<1>4. CASE MsgsndFails(s) \/ Enqueue(s)
  <2>1. /\ message' = [message EXCEPT ![s] = NoMessage(s)]
        /\ sender' = [sender EXCEPT ![s] = "idle"]
        /\ sender[s] = "msgsnd"
    BY <1>4 DEF MsgsndFails, Enqueue, MsgsndReturns, Goto
  <2>2. /\ message'[s] = NoMessage(s) /\ sender'[s] = "idle"
        /\ \A t \in Sender : t # s => message'[t] = message[t] /\ sender'[t] = sender[t]
    BY <2>1 DEF TypeOK
  <2>3. \A t \in Sender : sender'[t] # "msgsnd" => message'[t] = NoMessage(t)
    BY <2>2 DEF MessageInv
  <2>4. \A t \in Sender : sender'[t] = "msgsnd" =>
          /\ message'[t].line = line[t]
          /\ Len(message'[t].text) = line[t].size
          /\ t \notin Overlapped => message'[t].text = TextOf(message'[t].line)
    BY <2>2 DEF MessageInv, Whole
  <2>5. \A d \in Dao : \A a \in DOMAIN queue'[d] :
          Len(queue'[d][a].text) = queue'[d][a].line.size
    <3>1. CASE MsgsndFails(s)
      BY <3>1 DEF MsgsndFails, MessageInv, readerVars
    <3>2. CASE Enqueue(s)
      <4>1. queue' = [queue EXCEPT ![dao[s]] = Append(queue[dao[s]], message[s])]
        BY <3>2 DEF Enqueue
      <4>2. SUFFICES ASSUME NEW a \in DOMAIN Append(queue[dao[s]], message[s])
                     PROVE  Len(Append(queue[dao[s]], message[s])[a].text)
                              = Append(queue[dao[s]], message[s])[a].line.size
        BY <4>1 DEF TypeOK, MessageInv
      <4> DEFINE q == queue[dao[s]]
      <4>3. q \in Seq(Message) /\ message[s] \in Message /\ dao[s] \in Dao
        BY DEF TypeOK
      <4>4. CASE a \in 1..Len(q)
        <5>1. Append(q, message[s])[a] = q[a] /\ a \in DOMAIN q
          BY <4>3, <4>4
        <5> QED
          BY <4>3, <5>1 DEF MessageInv
      <4>5. CASE a = Len(q) + 1
        <5>1. Append(q, message[s])[a] = message[s]
          BY <4>3, <4>5
        <5> QED
          BY <2>1, <5>1 DEF MessageInv
      <4>6. a \in 1..(Len(q) + 1)
        BY <4>2, <4>3
      <4> QED
        BY <4>3, <4>4, <4>5, <4>6
    <3> QED
      BY <1>4, <3>1, <3>2
  <2> QED
    BY <1>1, <2>3, <2>4, <2>5 DEF MessageInv, NoMessage, NoLine, Whole, TextOf
<1> QED
  BY <1>2, <1>3, <1>4 DEF SenderStep

LEMMA TailIsOlderQueue ==
  ASSUME NEW q \in Seq(Message), q # <<>>
  PROVE  /\ \A a \in DOMAIN Tail(q) : a + 1 \in DOMAIN q /\ Tail(q)[a] = q[a + 1]
         /\ 1 \in DOMAIN q /\ Head(q) = q[1]
<1>1. Len(q) \in Nat \ {0} /\ Tail(q) \in Seq(Message) /\ Len(Tail(q)) = Len(q) - 1
  BY EmptySeq, HeadTailProperties
<1> QED
  BY <1>1, HeadTailProperties

LEMMA ReaderKeepsMessageInv ==
  ASSUME TypeOK, MessageInv, NEW d \in Dao, ReaderStep(d) \/ Ipcrm(d)
  PROVE  MessageInv'
<1>1. /\ line' = line /\ Overlapped' = Overlapped /\ sender' = sender /\ message' = message
  BY DEF ReaderStep, GetMessage, GetMessageFails, Ipcrm, senderVars, Overlapped
<1>2. \A c \in Dao : \A a \in DOMAIN queue'[c] :
        Len(queue'[c][a].text) = queue'[c][a].line.size
  <2>1. CASE GetMessage(d)
    <3>1. queue' = [queue EXCEPT ![d] = Tail(queue[d])] /\ queue[d] # <<>>
      BY <2>1 DEF GetMessage
    <3>2. \A a \in DOMAIN Tail(queue[d]) :
            a + 1 \in DOMAIN queue[d] /\ Tail(queue[d])[a] = queue[d][a + 1]
      BY <3>1, TailIsOlderQueue DEF TypeOK
    <3> QED
      BY <3>1, <3>2 DEF MessageInv, TypeOK
  <2>2. CASE GetMessageFails(d)
    BY <2>2 DEF GetMessageFails, readerVars, MessageInv
  <2>3. CASE Ipcrm(d)
    BY <2>3 DEF Ipcrm, MessageInv, TypeOK
  <2> QED
    BY <2>1, <2>2, <2>3 DEF ReaderStep
<1> QED
  BY <1>1, <1>2 DEF MessageInv, NoMessage, NoLine, Whole, TextOf

-----------------------------------------------------------------------------
(* Lines and texts.                                                       *)

LEMMA SendDataKeepsLineInv ==
  ASSUME TypeOK, LineInv, NEW s \in Sender, SendData(s)
  PROVE  /\ LineInv'
         /\ \A k \in Line : Known(k) => Known(k)' /\ (k.from = s => k.no < line'[s].no)
<1>1. PICK n \in 1..BUFFERSIZE, d \in Dao :
        /\ line' = [line EXCEPT ![s] = [from |-> s, no |-> line[s].no + 1, size |-> n]]
        /\ shared' = IF Writing(d) = {} THEN shared
                     ELSE shared \cup {line'[t] : t \in Writing(d) \cup {s}}
  BY DEF SendData
<1>2. /\ line'[s].from = s /\ line'[s].no = line[s].no + 1
      /\ \A t \in Sender : t # s => line'[t] = line[t]
  BY <1>1 DEF TypeOK
<1>3. \A t \in Sender : line'[t].from = t
  BY <1>2 DEF LineInv
<1>4. ASSUME NEW k \in Line, Known(k)
      PROVE  Known(k)' /\ (k.from = s => k.no < line'[s].no)
  <2>1. k.from \in Sender /\ k.no \in Nat /\ line[s].no \in Nat
    <3>1. line[s] \in Line
      BY DEF TypeOK
    <3> QED
      BY <3>1 DEF Line
  <2>2. CASE k.from = s
    <3>1. k.no < line'[s].no
      BY <1>2, <1>4, <2>1, <2>2 DEF Known
    <3> QED
      BY <2>2, <3>1 DEF Known
  <2>3. CASE k.from # s
    BY <1>2, <1>4, <2>1, <2>3 DEF Known
  <2> QED
    BY <2>2, <2>3
<1>5. \A k \in shared' : Known(k)'
  <2>1. \A k \in shared : Known(k)'
    BY <1>4 DEF LineInv, TypeOK
  <2>2. \A t \in Sender : line'[t] = line'[line'[t].from]
    BY <1>3
  <2>3. ASSUME NEW k, k \in {line'[t] : t \in Writing(d) \cup {s}}
        PROVE  Known(k)'
    BY <2>2, <2>3 DEF Known, Writing
  <2> QED
    BY <1>1, <2>1, <2>3
<1> QED
  BY <1>3, <1>4, <1>5 DEF LineInv

LEMMA OthersKeepLineInv ==
  ASSUME LineInv,
         \/ \E s \in Sender : SenderStep(s) \/ Enqueue(s)
         \/ \E d \in Dao : ReaderStep(d) \/ Ipcrm(d)
         \/ UNCHANGED vars
  PROVE  LineInv' /\ line' = line /\ shared' = shared
<1>1. line' = line /\ shared' = shared
  BY DEF SenderStep, Memset, Memcpy, Msgsnd, MsgsndFails, Enqueue, MsgsndReturns, ReaderStep,
         GetMessage, GetMessageFails, Ipcrm, vars, senderVars
<1> QED
  BY <1>1 DEF LineInv, Known

LEMMA SendDataKeepsTextInv ==
  ASSUME TypeOK, TextInv, NEW s \in Sender, SendData(s)
  PROVE  TextInv'
<1>1. /\ sender' = [sender EXCEPT ![s] = "clear"]
      /\ todo' = [todo EXCEPT ![s] = 1..BUFSIZE]
      /\ m_QueueMessage' = m_QueueMessage /\ message' = message
      /\ shared \subseteq shared'
      /\ \A t \in Sender : t # s => line'[t] = line[t] /\ dao'[t] = dao[t]
  BY DEF SendData, Goto, TypeOK
<1>2. /\ sender'[s] = "clear" /\ todo'[s] = 1..BUFSIZE
      /\ \A t \in Sender : t # s => sender'[t] = sender[t] /\ todo'[t] = todo[t]
  BY <1>1 DEF TypeOK
<1> QED
  BY <1>1, <1>2 DEF TextInv

(* A write into a buffer is of a shared line or of zeroes, unless it is    *)
(* one's own.                                                              *)
LEMMA WriteKeepsCell ==
  ASSUME TypeOK, WriterInv, NEW s \in Sender, s \in Writing(dao[s]),
         NEW j \in 1..BUFSIZE, NEW x \in {line[s], NUL}, Write(s, j, x),
         NEW t \in Sender, t \in Writing(dao[t]), NEW k \in 1..BUFSIZE
  PROVE  \/ m_QueueMessage'[dao[t]][k] = m_QueueMessage[dao[t]][k] /\ (t # s \/ k # j)
         \/ m_QueueMessage'[dao[t]][k] \in shared \cup {line[t], NUL}
<1>1. dao[s] \in Dao /\ dao[t] \in Dao
  BY DEF TypeOK
<1>2. m_QueueMessage'[dao[t]][k]
        = IF dao[t] = dao[s] /\ k = j THEN x ELSE m_QueueMessage[dao[t]][k]
  BY <1>1 DEF Write, TypeOK
<1>3. t # s /\ dao[t] = dao[s] => line[s] \in shared
  BY DEF WriterInv, Overlapped
<1> QED
  BY <1>2, <1>3

LEMMA SenderKeepsTextInv ==
  ASSUME TypeOK, WriterInv, TextInv, NEW s \in Sender, SenderStep(s) \/ Enqueue(s)
  PROVE  TextInv'
<1>1. line' = line /\ dao' = dao /\ shared' = shared
  BY DEF SenderStep, Memset, Memcpy, Msgsnd, MsgsndFails, Enqueue, MsgsndReturns
<1>2. \A t \in Sender : t # s => sender'[t] = sender[t] /\ todo'[t] = todo[t]
  BY DEF SenderStep, Memset, Memcpy, Msgsnd, MsgsndFails, Enqueue, MsgsndReturns, Goto, TypeOK
<1>3. CASE Memset(s) \/ Memcpy(s)
  <2>1. PICK j \in todo[s], x \in {line[s], NUL} :
          /\ Write(s, j, x)
          /\ sender'[s] = "clear" => sender[s] = "clear" /\ todo'[s] = todo[s] \ {j}
          /\ sender'[s] = "copy" => sender[s] = "copy" \/ (sender[s] = "clear" /\ todo[s] = {j})
    BY <1>3 DEF Memset, Memcpy, Goto, TypeOK
  <2>2. j \in 1..BUFSIZE /\ s \in Writing(dao[s])
    BY <1>3 DEF TypeOK, Writing, Memset, Memcpy
  <2>3. ASSUME NEW t \in Sender, NEW k \in 1..BUFSIZE,
               sender'[t] = "copy" \/ (sender'[t] = "clear" /\ k \notin todo'[t])
        PROVE  m_QueueMessage'[dao[t]][k] \in shared \cup {line[t], NUL}
    <3>1. t \in Writing(dao[t])
      BY <1>2, <2>2, <2>3 DEF Writing
    <3>2. CASE m_QueueMessage'[dao[t]][k] = m_QueueMessage[dao[t]][k] /\ (t # s \/ k # j)
      <4>1. sender[t] = "copy" \/ (sender[t] = "clear" /\ k \notin todo[t])
        BY <1>2, <2>1, <2>3, <3>2
      <4> QED
        BY <3>2, <4>1 DEF TextInv
    <3> QED
      BY <2>1, <2>2, <3>1, <3>2, WriteKeepsCell
  <2>4. /\ message' = message
        /\ \A t \in Sender : sender'[t] = "msgsnd" => sender[t] = "msgsnd"
    BY <1>3 DEF Memset, Memcpy, Goto, TypeOK
  <2> QED
    BY <1>1, <2>3, <2>4 DEF TextInv
<1>4. CASE Msgsnd(s)
  <2> DEFINE text == [k \in Sent(s) |-> m_QueueMessage[dao[s]][k]]
  <2>1. /\ sender[s] = "copy" /\ sender'[s] = "msgsnd"
        /\ m_QueueMessage' = m_QueueMessage
        /\ message'[s].text = text
        /\ \A t \in Sender : t # s => message'[t] = message[t]
    BY <1>4 DEF Msgsnd, Goto, TypeOK
  <2>2. Sent(s) \subseteq 1..BUFSIZE
    <3>1. line[s] \in Line
      BY DEF TypeOK
    <3> QED
      BY <3>1, QueueAssumption DEF Sent, Line
  <2>3. Lines(message'[s].text) \subseteq shared \cup {line[s]}
    <3>1. \A k \in Sent(s) : text[k] \in shared \cup {line[s], NUL}
      BY <2>1, <2>2 DEF TextInv
    <3> QED
      BY <2>1, <3>1 DEF Lines
  <2>4. \A t \in Sender : sender'[t] = "msgsnd" => Lines(message'[t].text) \subseteq shared \cup {line[t]}
    BY <1>2, <2>1, <2>3 DEF TextInv
  <2>5. \A t \in Sender : sender'[t] \in {"copy", "clear"} =>
          sender'[t] = sender[t] /\ todo'[t] = todo[t]
    BY <1>2, <2>1
  <2> QED
    BY <1>1, <2>1, <2>4, <2>5 DEF TextInv, Lines
<1>5. CASE MsgsndFails(s) \/ Enqueue(s)
  <2>1. /\ sender'[s] = "idle" /\ m_QueueMessage' = m_QueueMessage
        /\ \A t \in Sender : t # s => message'[t] = message[t]
    BY <1>5 DEF MsgsndFails, Enqueue, MsgsndReturns, Goto, TypeOK
  <2>2. \A t \in Sender : sender'[t] = "msgsnd" => Lines(message'[t].text) \subseteq shared \cup {line[t]}
    BY <1>2, <2>1 DEF TextInv
  <2>3. \A t \in Sender : sender'[t] \in {"copy", "clear"} =>
          sender'[t] = sender[t] /\ todo'[t] = todo[t]
    BY <1>2, <2>1
  <2> QED
    BY <1>1, <2>1, <2>2, <2>3 DEF TextInv, Lines
<1> QED
  BY <1>3, <1>4, <1>5 DEF SenderStep

-----------------------------------------------------------------------------
(* The order of lines.                                                    *)

(* What the queues, their readers and msgsnd have are pieces of lines.     *)
LEMMA GivenAreLines ==
  ASSUME TypeOK
  PROVE  /\ \A d \in Dao : Given(d) \subseteq Line
         /\ \A s \in Sender : Lines(message[s].text) \subseteq Line
<1>1. ASSUME NEW d \in Dao, NEW a \in DOMAIN queue[d]
      PROVE  Lines(queue[d][a].text) \subseteq Line
  <2>1. queue[d][a] \in Message
    BY LenProperties, ElementOfSeq DEF TypeOK
  <2> QED
    BY <2>1, LinesOfPiece DEF Message
<1>2. \A s \in Sender : Lines(message[s].text) \subseteq Line
  BY LinesOfPiece DEF TypeOK, Message
<1> QED
  BY <1>1, <1>2 DEF Given, TypeOK

LEMMA SendDataKeepsOrderInv ==
  ASSUME TypeOK, LineInv, OrderInv, NEW s \in Sender, SendData(s)
  PROVE  OrderInv'
<1>1. /\ queue' = queue /\ seen' = seen /\ shared \subseteq shared'
      /\ \A t \in Sender : t # s => line'[t] = line[t] /\ sender'[t] = sender[t]
  BY DEF SendData, Goto, readerVars, TypeOK
<1>2. ASSUME NEW d \in Dao, NEW k \in Given(d)
      PROVE  Known(k)' /\ (sender'[k.from] = "idle" \/ k \in shared' \/ k # line'[k.from])
  <2>1. k \in Line /\ k.from \in Sender /\ k.no \in Int
    BY GivenAreLines DEF Line
  <2>2. Known(k) /\ (sender[k.from] = "idle" \/ k \in shared \/ k # line[k.from])
    BY DEF OrderInv
  <2>3. Known(k)' /\ (k.from = s => k.no < line'[s].no)
    BY <2>1, <2>2, SendDataKeepsLineInv
  <2> QED
    BY <1>1, <2>1, <2>2, <2>3
<1>3. \A d \in Dao : Given(d)' = Given(d)
  BY <1>1 DEF Given, Lines
<1>4. InOrder'
  BY <1>1 DEF OrderInv, InOrder, Lines
<1> QED
  BY <1>2, <1>3, <1>4 DEF OrderInv

LEMMA EnqueueKeepsOrderInv ==
  ASSUME TypeOK, LineInv, TextInv, OrderInv, NEW s \in Sender, Enqueue(s)
  PROVE  OrderInv'
<1>0. PICK c \in Dao : c = dao[s]
  BY DEF TypeOK
<1> DEFINE m == message[s]
           q == queue[c]
<1>1. /\ line' = line /\ seen' = seen /\ shared' = shared
      /\ sender[s] = "msgsnd" /\ sender'[s] = "idle"
      /\ \A t \in Sender : t # s => sender'[t] = sender[t]
      /\ queue' = [queue EXCEPT ![c] = Append(q, m)]
  BY <1>0 DEF Enqueue, MsgsndReturns, Goto, TypeOK
<1>2. /\ c \in Dao /\ m \in Message /\ q \in Seq(Message) /\ line[s].from = s
      /\ Lines(m.text) \subseteq shared \cup {line[s]}
  BY <1>1 DEF TypeOK, LineInv, TextInv
<1>3. /\ queue'[c] = Append(q, m)
      /\ \A d \in Dao : d # c => queue'[d] = queue[d]
      /\ Len(q) \in Nat /\ DOMAIN queue'[c] = 1..(Len(q) + 1) /\ DOMAIN q = 1..Len(q)
      /\ \A a \in 1..Len(q) : queue'[c][a] = q[a]
      /\ queue'[c][Len(q) + 1] = m
  BY <1>1, <1>2 DEF TypeOK
<1>4. /\ \A d \in Dao : d # c => Given(d)' = Given(d)
      /\ Given(c)' = Given(c) \cup Lines(m.text)
  <2>1. \A d \in Dao : Given(d)' = seen[d] \cup UNION {Lines(queue'[d][a].text) : a \in DOMAIN queue'[d]}
    BY <1>1 DEF Given, Lines
  <2>2. UNION {Lines(queue'[c][a].text) : a \in DOMAIN queue'[c]}
          = (UNION {Lines(q[a].text) : a \in DOMAIN q}) \cup Lines(m.text)
    <3> DEFINE old == UNION {Lines(q[a].text) : a \in DOMAIN q}
               new == UNION {Lines(queue'[c][a].text) : a \in DOMAIN queue'[c]}
    <3>1. new \subseteq old \cup Lines(m.text)
      <4>1. SUFFICES ASSUME NEW a \in DOMAIN queue'[c]
                     PROVE  Lines(queue'[c][a].text) \subseteq old \cup Lines(m.text)
        OBVIOUS
      <4>2. CASE a \in 1..Len(q)
        BY <1>3, <4>2
      <4>3. CASE a = Len(q) + 1
        BY <1>3, <4>3
      <4> QED
        BY <1>3, <4>2, <4>3
    <3>2. old \subseteq new
      <4>1. \A a \in DOMAIN q : a \in DOMAIN queue'[c] /\ queue'[c][a] = q[a]
        BY <1>3
      <4> QED
        BY <4>1
    <3>3. Lines(m.text) \subseteq new
      <4>1. Len(q) + 1 \in DOMAIN queue'[c] /\ queue'[c][Len(q) + 1] = m
        BY <1>3
      <4> QED
        BY <4>1
    <3> HIDE DEF old, new
    <3>4. new = old \cup Lines(m.text)
      BY <3>1, <3>2, <3>3
    <3> QED
      BY <3>4 DEF old, new
  <2>3. Given(c)' = Given(c) \cup Lines(m.text)
    <3>1. Given(c) = seen[c] \cup UNION {Lines(q[a].text) : a \in DOMAIN q}
      BY DEF Given
    <3>2. Given(c)' = seen[c] \cup UNION {Lines(queue'[c][a].text) : a \in DOMAIN queue'[c]}
      BY <1>2, <2>1
    <3> HIDE DEF m, q
    <3> QED
      BY <2>2, <3>1, <3>2
  <2>4. \A d \in Dao : d # c => Given(d)' = Given(d)
    BY <1>3, <2>1 DEF Given
  <2> QED
    BY <2>3, <2>4
<1>5. ASSUME NEW d \in Dao, NEW k \in Given(d)'
      PROVE  Known(k)' /\ (sender'[k.from] = "idle" \/ k \in shared' \/ k # line'[k.from])
  <2>1. k \in Given(d) \/ k \in shared \/ k = line[s]
    <3>1. k \in Given(d) \/ k \in Lines(m.text)
      <4>1. CASE d = c
        <5>1. k \in Given(c) \cup Lines(m.text)
          BY <1>4, <1>5, <4>1
        <5> QED
          BY <4>1, <5>1
      <4>2. CASE d # c
        BY <1>4, <1>5, <4>2
      <4> QED
        BY <4>1, <4>2
    <3> QED
      BY <1>2, <3>1
  <2>2. CASE k \in Given(d)
    <3>1. Known(k) /\ (sender[k.from] = "idle" \/ k \in shared \/ k # line[k.from])
      BY <2>2 DEF OrderInv
    <3>2. k.from \in Sender
      BY <2>2, GivenAreLines DEF Line
    <3> QED
      BY <1>1, <3>1, <3>2 DEF Known
  <2>3. CASE k \in shared \/ k = line[s]
    BY <1>1, <1>2, <2>3 DEF LineInv, Known
  <2> QED
    BY <2>1, <2>2, <2>3
<1>6. InOrder'
  <2>1. SUFFICES ASSUME NEW d \in Dao, NEW a \in DOMAIN queue'[d],
                        NEW l \in Lines(queue'[d][a].text) \ shared,
                        NEW k \in seen[d] \cup UNION {Lines(queue'[d][b].text) : b \in 1..(a - 1)},
                        k.from = l.from
                 PROVE  k.no < l.no
    BY <1>1 DEF InOrder, Lines
  <2>2. CASE d # c
    BY <1>3, <2>1, <2>2 DEF OrderInv, InOrder
  <2>3. CASE d = c /\ a \in 1..Len(q)
    <3>1. \A b \in 1..(a - 1) : queue'[d][b] = q[b]
      <4>1. \A b \in 1..(a - 1) : b \in 1..Len(q)
        BY <1>3, <2>3
      <4> QED
        BY <1>3, <2>3, <4>1
    <3>2. queue'[d][a] = q[a] /\ a \in DOMAIN q
      BY <1>3, <2>3
    <3>3. k \in seen[d] \cup UNION {Lines(q[b].text) : b \in 1..(a - 1)}
      BY <2>1, <3>1
    <3> QED
      BY <2>1, <2>3, <3>2, <3>3 DEF OrderInv, InOrder
  <2>4. CASE d = c /\ a = Len(q) + 1
    <3>1. l = line[s] /\ l \notin shared
      BY <1>2, <1>3, <2>1, <2>4
    <3>2. k \in Given(c)
      <4>1. \A b \in 1..(a - 1) : b \in DOMAIN q /\ queue'[d][b] = q[b]
        BY <1>3, <2>4
      <4> QED
        BY <2>1, <2>4, <4>1 DEF Given
    <3>3. Known(k) /\ (k \in shared \/ k # line[k.from])
      BY <1>1, <1>2, <2>1, <3>1, <3>2 DEF OrderInv
    <3> QED
      BY <1>2, <2>1, <3>1, <3>3 DEF Known
  <2> QED
    BY <1>3, <2>2, <2>3, <2>4
<1> QED
  BY <1>5, <1>6 DEF OrderInv

LEMMA GetMessageKeepsOrderInv ==
  ASSUME TypeOK, OrderInv, NEW c \in Dao, GetMessage(c)
  PROVE  OrderInv'
<1> DEFINE q == queue[c]
           new == Lines(Piece(Head(q).text))
<1>1. /\ line' = line /\ sender' = sender /\ shared' = shared
      /\ queue' = [queue EXCEPT ![c] = Tail(q)] /\ q # <<>>
      /\ seen' = [seen EXCEPT ![c] = seen[c] \cup new]
  BY DEF GetMessage, senderVars
<1>2. /\ q \in Seq(Message)
      /\ \A a \in DOMAIN Tail(q) : a + 1 \in DOMAIN q /\ Tail(q)[a] = q[a + 1]
      /\ 1 \in DOMAIN q /\ Head(q) = q[1]
  BY <1>1, TailIsOlderQueue DEF TypeOK
<1>3. new \subseteq Lines(q[1].text)
  <2>1. q[1] \in Message
    BY <1>2, LenProperties, ElementOfSeq
  <2> QED
    BY <1>2, <2>1, LinesOfPiece DEF Message
<1>4. /\ queue'[c] = Tail(q) /\ seen'[c] = seen[c] \cup new
      /\ \A d \in Dao : d # c => queue'[d] = queue[d] /\ seen'[d] = seen[d]
  BY <1>1 DEF TypeOK
<1>5. \A d \in Dao : Given(d)' \subseteq Given(d)
  <2>1. \A d \in Dao :
          Given(d)' = seen'[d] \cup UNION {Lines(queue'[d][a].text) : a \in DOMAIN queue'[d]}
    BY DEF Given, Lines
  <2>2. UNION {Lines(Tail(q)[a].text) : a \in DOMAIN Tail(q)}
          \subseteq UNION {Lines(q[a].text) : a \in DOMAIN q}
    BY <1>2
  <2>3. Lines(q[1].text) \subseteq UNION {Lines(q[a].text) : a \in DOMAIN q}
    BY <1>2
  <2>4. Given(c)' \subseteq Given(c)
    BY <1>3, <1>4, <2>1, <2>2, <2>3 DEF Given
  <2>5. \A d \in Dao : d # c => Given(d)' = Given(d)
    BY <1>4, <2>1 DEF Given
  <2> QED
    BY <2>4, <2>5
<1>6. \A d \in Dao : \A k \in Given(d)' :
        Known(k)' /\ (sender'[k.from] = "idle" \/ k \in shared' \/ k # line'[k.from])
  BY <1>1, <1>5 DEF OrderInv, Known
<1>7. InOrder'
  <2>1. SUFFICES ASSUME NEW d \in Dao, NEW a \in DOMAIN queue'[d],
                        NEW l \in Lines(queue'[d][a].text) \ shared,
                        NEW k \in seen'[d] \cup UNION {Lines(queue'[d][b].text) : b \in 1..(a - 1)},
                        k.from = l.from
                 PROVE  k.no < l.no
    BY <1>1 DEF InOrder, Lines
  <2>2. CASE d # c
    BY <1>4, <2>1, <2>2 DEF OrderInv, InOrder
  <2>3. CASE d = c
    <3>1. a \in DOMAIN Tail(q) /\ a + 1 \in DOMAIN q /\ queue'[c][a] = q[a + 1]
      BY <1>2, <1>4, <2>3
    <3>2. a \in Nat \ {0} /\ DOMAIN Tail(q) = 1..Len(Tail(q)) /\ Len(Tail(q)) \in Nat
          /\ a <= Len(Tail(q))
      <4>1. Tail(q) \in Seq(Message)
        BY <1>1, <1>2, HeadTailProperties
      <4> QED
        BY <3>1, <4>1, LenProperties
    <3>3. \A b \in 1..(a - 1) : b + 1 \in 1..a /\ queue'[c][b] = q[b + 1]
      BY <1>2, <1>4, <3>2
    <3>4. k \in seen[c] \cup UNION {Lines(q[b].text) : b \in 1..a}
      <4>1. CASE k \in seen[c] \cup new
        <5>1. 1 \in 1..a
          BY <3>2
        <5> QED
          BY <1>3, <4>1, <5>1
      <4>2. CASE k \notin seen'[c]
        <5>1. PICK b \in 1..(a - 1) : k \in Lines(queue'[c][b].text)
          BY <2>1, <2>3, <4>2
        <5> QED
          BY <3>3, <5>1
      <4> QED
        BY <1>4, <4>1, <4>2
    <3>5. (a + 1) - 1 = a
      BY <3>2
    <3> QED
      BY <2>1, <2>3, <3>1, <3>4, <3>5 DEF OrderInv, InOrder
  <2> QED
    BY <2>2, <2>3
<1> QED
  BY <1>6, <1>7 DEF OrderInv

LEMMA OthersKeepOrderInv ==
  ASSUME TypeOK, OrderInv,
         \/ \E s \in Sender : SenderStep(s)
         \/ \E d \in Dao : GetMessageFails(d) \/ Ipcrm(d)
         \/ UNCHANGED vars
  PROVE  OrderInv'
<1>1. /\ line' = line /\ seen' = seen /\ shared' = shared
      /\ \A t \in Sender : sender[t] = "idle" => sender'[t] = "idle"
  BY DEF SenderStep, Memset, Memcpy, Msgsnd, MsgsndFails, MsgsndReturns, GetMessageFails, Ipcrm,
         Goto, TypeOK, vars, senderVars, readerVars
<1>2. \A d \in Dao : queue'[d] = queue[d] \/ queue'[d] = <<>>
  BY DEF SenderStep, Memset, Memcpy, Msgsnd, MsgsndFails, MsgsndReturns, GetMessageFails, Ipcrm,
         TypeOK, vars, senderVars, readerVars
<1>3. \A d \in Dao : \A a \in DOMAIN queue'[d] : queue'[d] = queue[d] /\ a \in DOMAIN queue[d]
  BY <1>2
<1>4. \A d \in Dao : Given(d)' \subseteq Given(d)
  <2>1. \A d \in Dao :
          Given(d)' = seen[d] \cup UNION {Lines(queue'[d][a].text) : a \in DOMAIN queue'[d]}
    BY <1>1 DEF Given, Lines
  <2> QED
    BY <1>3, <2>1 DEF Given
<1>5. \A d \in Dao : \A k \in Given(d)' :
        Known(k)' /\ (sender'[k.from] = "idle" \/ k \in shared' \/ k # line'[k.from])
  <2>1. \A d \in Dao : \A k \in Given(d) : k.from \in Sender
    BY GivenAreLines DEF Line
  <2> QED
    BY <1>1, <1>4, <2>1 DEF OrderInv, Known
<1>6. InOrder'
  BY <1>1, <1>3 DEF OrderInv, InOrder, Lines
<1> QED
  BY <1>5, <1>6 DEF OrderInv

-----------------------------------------------------------------------------
(* The invariant.                                                         *)

IInv == TypeOK /\ WriterInv /\ MessageInv /\ LineInv /\ TextInv /\ OrderInv

LEMMA InitIInv == Init => IInv
<1> SUFFICES ASSUME Init
             PROVE  IInv
  OBVIOUS
<1>1. TypeOK
  BY InitTypeOK
<1>2. WriterInv
  BY DEF Init, WriterInv, Writing
<1>3. MessageInv
  BY DEF Init, MessageInv
<1>4. LineInv /\ TextInv
  BY DEF Init, NoLine, LineInv, TextInv
<1>5. OrderInv
  <2>1. \A d \in Dao : queue[d] = <<>> /\ seen[d] = {}
    BY DEF Init
  <2> QED
    BY <2>1 DEF OrderInv, Given, InOrder
<1> QED
  BY <1>1, <1>2, <1>3, <1>4, <1>5 DEF IInv

LEMMA NextKeepsIInv == IInv /\ [Next]_vars => IInv'
<1> SUFFICES ASSUME IInv, [Next]_vars
             PROVE  IInv'
  OBVIOUS
<1> USE DEF IInv
<1>1. TypeOK'
  BY NextTypeOK
<1>2. ASSUME NEW s \in Sender, SendData(s)
      PROVE  IInv'
  BY <1>1, <1>2, SendDataKeepsWriterInv, SendDataKeepsMessageInv, SendDataKeepsLineInv,
     SendDataKeepsTextInv, SendDataKeepsOrderInv
<1>3. ASSUME NEW s \in Sender, SenderStep(s)
      PROVE  IInv'
  BY <1>1, <1>3, SenderKeepsWriterInv, SenderKeepsMessageInv, OthersKeepLineInv,
     SenderKeepsTextInv, OthersKeepOrderInv
<1>4. ASSUME NEW s \in Sender, Enqueue(s)
      PROVE  IInv'
  BY <1>1, <1>4, SenderKeepsWriterInv, SenderKeepsMessageInv, OthersKeepLineInv,
     SenderKeepsTextInv, EnqueueKeepsOrderInv
<1>5. ASSUME NEW d \in Dao, ReaderStep(d) \/ Ipcrm(d)
      PROVE  IInv'
  <2>1. WriterInv'
    <3>1. /\ sender' = sender /\ line' = line /\ dao' = dao /\ todo' = todo
          /\ Overlapped' = Overlapped /\ m_QueueMessage' = m_QueueMessage
      BY <1>5 DEF ReaderStep, GetMessage, GetMessageFails, Ipcrm, senderVars, Overlapped
    <3> QED
      BY <3>1 DEF WriterInv, Writing
  <2>2. TextInv'
    BY <1>5 DEF ReaderStep, GetMessage, GetMessageFails, Ipcrm, senderVars, TextInv
  <2> QED
    BY <1>1, <1>5, <2>1, <2>2, ReaderKeepsMessageInv, OthersKeepLineInv, GetMessageKeepsOrderInv,
       OthersKeepOrderInv DEF ReaderStep
<1>6. CASE UNCHANGED vars
  <2>1. WriterInv' /\ MessageInv'
    BY <1>6 DEF vars, senderVars, readerVars, WriterInv, Writing, Overlapped, MessageInv,
                NoMessage, NoLine, Whole, TextOf
  <2>2. TextInv'
    BY <1>6 DEF vars, senderVars, TextInv
  <2> QED
    BY <1>1, <1>6, <2>1, <2>2, OthersKeepLineInv, OthersKeepOrderInv
<1> QED
  BY <1>2, <1>3, <1>4, <1>5, <1>6 DEF Next

LEMMA AlwaysIInv == Spec => []IInv
BY InitIInv, NextKeepsIInv, PTL DEF Spec

(* A line that no other sender wrote over leaves whole, whatever else is   *)
(* written into the other buffers and was in this one before.              *)
THEOREM AloneIsWhole == Spec => []WholeIfAlone
<1>1. IInv => WholeIfAlone
  BY DEF IInv, MessageInv, WholeIfAlone
<1> QED
  BY <1>1, AlwaysIInv, PTL

(* Whatever the senders write over each other, all that a queue's reader   *)
(* gets of a line no other sender wrote over comes in one message, after   *)
(* every piece of earlier lines of its sender.                             *)
THEOREM QueueKeepsOrder == Spec => []InOrder
<1>1. IInv => InOrder
  BY DEF IInv, OrderInv
<1> QED
  BY <1>1, AlwaysIInv, PTL

-----------------------------------------------------------------------------
(* The refinement.                                                        *)

LEMMA InitImplements == Init => LineQueue!Init
<1> SUFFICES ASSUME Init
             PROVE  LineQueue!Init
  OBVIOUS
<1>1. TypeOK
  BY InitTypeOK
<1>2. \A s \in Sender : sender[s] = "idle" /\ message[s] = NoMessage(s) /\ Whole(message[s])
  BY NoMessageIsMessage DEF Init
<1>3. [d \in Dao |-> Entries(queue[d])] = [d \in Dao |-> <<>>]
  <2>1. Entries(<<>>) = <<>>
    BY DEF Entries
  <2> QED
    BY <2>1 DEF Init
<1>4. received \in [Dao -> [line : Line, whole : {TRUE}]]
  <2>1. PICK s \in Sender : received = [d \in Dao |-> Entry(NoMessage(s))]
    BY DEF Init
  <2>2. NoMessage(s).line \in Line /\ Whole(NoMessage(s)) = TRUE
    BY NoMessageIsMessage DEF Message, Whole
  <2>3. Entry(NoMessage(s)) \in [line : Line, whole : {TRUE}]
    BY <2>2 DEF Entry
  <2> QED
    BY <2>1, <2>3
<1>5. line \in [Sender -> Line] /\ dao \in [Sender -> Dao] /\ Overlapped = {}
  BY <1>1 DEF TypeOK, Init, Overlapped
<1> QED
  BY <1>2, <1>3, <1>4, <1>5 DEF LineQueue!Init, Stage

(* The abstract variables, as the instance LineQueue has them.            *)
Stages == [s \in Sender |-> Stage(sender[s])]
WholeOf == [s \in Sender |-> Whole(message[s])]
Queues == [d \in Dao |-> Entries(queue[d])]

LEMMA StagesNext == Stages' = [s \in Sender |-> Stage(sender'[s])]
BY DEF Stages, Stage

LEMMA StageMoves ==
  ASSUME TypeOK, NEW s \in Sender, NEW place, sender' = [sender EXCEPT ![s] = place]
  PROVE  Stages' = [Stages EXCEPT ![s] = Stage(place)]
<1>1. \A t \in Sender : sender'[t] = IF t = s THEN place ELSE sender[t]
  BY DEF TypeOK
<1>2. \A t \in Sender : Stage(sender'[t]) = IF t = s THEN Stage(place) ELSE Stages[t]
  BY <1>1 DEF Stages
<1> QED
  BY <1>2, StagesNext DEF Stages

LEMMA SendDataIsGive ==
  ASSUME TypeOK, LineInv, NEW s \in Sender, SendData(s)
  PROVE  \E l \in Line, d \in Dao : LineQueue!Give(s, l, d)
<1>1. PICK n \in 1..BUFFERSIZE, d \in Dao :
        /\ line' = [line EXCEPT ![s] = [from |-> s, no |-> line[s].no + 1, size |-> n]]
        /\ dao' = [dao EXCEPT ![s] = d]
        /\ Overlapped' = IF Writing(d) = {} THEN Overlapped \ {s}
                         ELSE Overlapped \cup Writing(d) \cup {s}
  BY SendDataShares
<1> DEFINE l == [from |-> s, no |-> line[s].no + 1, size |-> n]
<1>2. l \in Line
  <2>1. line[s] \in Line /\ line[s].no < MaxLines
    BY DEF SendData, TypeOK
  <2>2. line[s].no + 1 \in 0..MaxLines
    BY <2>1, QueueAssumption DEF Line
  <2> QED
    BY <2>2 DEF Line
<1>3. {t \in Sender : Stages[t] = "writing" /\ dao[t] = d} = Writing(d)
  BY DEF Writing, Stages, Stage, TypeOK
<1>4. Stages[s] = "idle" /\ Stages' = [Stages EXCEPT ![s] = "writing"]
  BY StageMoves DEF SendData, Goto, Stages, Stage
<1>5. message' = message /\ queue' = queue /\ received' = received
  BY DEF SendData, readerVars
<1>6. WholeOf' = WholeOf /\ Queues' = Queues
  BY <1>5 DEF WholeOf, Queues, Entries, Entry, Whole, TextOf
<1>7. LineQueue!Give(s, l, d)
  BY <1>1, <1>3, <1>4, <1>5, <1>6 DEF LineQueue!Give, Stages, WholeOf, Queues
<1> QED
  BY <1>2, <1>7

LEMMA MsgsndIsHandOver ==
  ASSUME IInv, IInv', NEW s \in Sender, Msgsnd(s)
  PROVE  LineQueue!HandOver(s)
<1>1. /\ sender[s] = "copy" /\ sender' = [sender EXCEPT ![s] = "msgsnd"]
      /\ \A t \in Sender : t # s => message'[t] = message[t]
      /\ line' = line /\ dao' = dao /\ Overlapped' = Overlapped
      /\ queue' = queue /\ received' = received
  BY DEF Msgsnd, Goto, readerVars, IInv, TypeOK, Overlapped
<1>2. sender'[s] = "msgsnd" /\ \A t \in Sender : t # s => sender'[t] = sender[t]
  BY <1>1 DEF IInv, TypeOK
<1>3. Stages[s] = "writing" /\ Stages' = [Stages EXCEPT ![s] = "handed"]
  BY <1>1, StageMoves DEF IInv, Stages, Stage
<1>4. Whole(message[s]) /\ (s \notin Overlapped => Whole(message'[s]))
  BY <1>1, <1>2, NoMessageIsMessage DEF IInv, MessageInv, Whole, TextOf
<1>5. WholeOf' = WholeOf \/ (s \in Overlapped /\ WholeOf' = [WholeOf EXCEPT ![s] = FALSE])
  <2>1. WholeOf' = [t \in Sender |-> Whole(message'[t])]
    BY DEF WholeOf, Whole, TextOf
  <2>2. CASE Whole(message'[s])
    <3>1. \A t \in Sender : Whole(message'[t]) = Whole(message[t])
      BY <1>1, <1>4, <2>2 DEF Whole
    <3> QED
      BY <2>1, <3>1 DEF WholeOf
  <2>3. CASE ~Whole(message'[s])
    <3>1. Whole(message'[s]) = FALSE
      BY <2>3 DEF Whole
    <3>2. \A t \in Sender : t # s => Whole(message'[t]) = Whole(message[t])
      BY <1>1
    <3> QED
      BY <1>4, <2>1, <2>3, <3>1, <3>2 DEF WholeOf
  <2> QED
    BY <2>2, <2>3
<1>6. Queues' = Queues
  BY <1>1 DEF Queues, Entries, Entry, Whole, TextOf
<1> QED
  BY <1>1, <1>3, <1>5, <1>6 DEF LineQueue!HandOver, Stages, WholeOf, Queues

(* msgsnd returns, and the sender can have the next line.                  *)
LEMMA MsgsndReturnsIsReturns ==
  ASSUME IInv, IInv', NEW s \in Sender, sender[s] = "msgsnd", MsgsndReturns(s),
         received' = received
  PROVE  LineQueue!Returns(s)
<1>1. /\ sender' = [sender EXCEPT ![s] = "idle"]
      /\ message' = [message EXCEPT ![s] = NoMessage(s)]
      /\ line' = line /\ dao' = dao /\ Overlapped' = Overlapped
  BY DEF MsgsndReturns, Goto, Overlapped
<1>2. Stages[s] = "handed" /\ Stages' = [Stages EXCEPT ![s] = "idle"]
  BY <1>1, StageMoves DEF IInv, Stages, Stage
<1>3. WholeOf' = [WholeOf EXCEPT ![s] = TRUE]
  <2>1. WholeOf' = [t \in Sender |-> Whole(message'[t])]
    BY DEF WholeOf, Whole, TextOf
  <2>2. Whole(message'[s]) = TRUE
    BY <1>1, NoMessageIsMessage DEF IInv, TypeOK, Whole
  <2>3. \A t \in Sender : t # s => Whole(message'[t]) = Whole(message[t])
    BY <1>1 DEF IInv, TypeOK
  <2> QED
    BY <2>1, <2>2, <2>3 DEF WholeOf
<1> QED
  BY <1>1, <1>2, <1>3 DEF LineQueue!Returns, Stages, WholeOf

LEMMA EntriesOfAppend ==
  ASSUME NEW q \in Seq(Message), NEW m \in Message
  PROVE  Entries(Append(q, m)) = Append(Entries(q), Entry(m))
<1> DEFINE E == [line : Line, whole : BOOLEAN]
<1>1. \A x \in Message : Entry(x) \in E
  BY DEF Entry, Whole, Message
<1>2. Len(q) \in Nat /\ DOMAIN q = 1..Len(q) /\ \A k \in 1..Len(q) : q[k] \in Message
  BY LenProperties, ElementOfSeq
<1>3. Entries(q) \in Seq(E) /\ Len(Entries(q)) = Len(q)
  <2>1. Entries(q) \in Seq(E)
    BY <1>1, <1>2, IsASeq DEF Entries
  <2> QED
    BY <1>2, <2>1, LenProperties DEF Entries
<1>4. /\ Append(q, m) \in Seq(Message) /\ Len(Append(q, m)) = Len(q) + 1
      /\ \A k \in 1..Len(q) : Append(q, m)[k] = q[k]
      /\ Append(q, m)[Len(q) + 1] = m
  BY <1>2
<1>5. Entries(Append(q, m)) \in Seq(E) /\ Len(Entries(Append(q, m))) = Len(q) + 1
  <2>1. DOMAIN Append(q, m) = 1..(Len(q) + 1)
    BY <1>4, LenProperties
  <2>2. \A k \in 1..(Len(q) + 1) : Append(q, m)[k] \in Message
    BY <1>4, ElementOfSeq
  <2>3. Entries(Append(q, m)) \in Seq(E)
    BY <1>1, <1>2, <2>1, <2>2, IsASeq DEF Entries
  <2> QED
    BY <1>2, <2>1, <2>3, LenProperties DEF Entries
<1>6. /\ Append(Entries(q), Entry(m)) \in Seq(E)
      /\ Len(Append(Entries(q), Entry(m))) = Len(q) + 1
  BY <1>1, <1>3
<1>7. \A k \in 1..(Len(q) + 1) :
        Entries(Append(q, m))[k] = Append(Entries(q), Entry(m))[k]
  <2>1. DOMAIN Append(q, m) = 1..(Len(q) + 1)
    BY <1>4, LenProperties
  <2>2. ASSUME NEW k \in 1..Len(q)
        PROVE  Entries(Append(q, m))[k] = Append(Entries(q), Entry(m))[k]
    <3>1. Append(Entries(q), Entry(m))[k] = Entries(q)[k]
      BY <1>1, <1>3
    <3>2. Entries(q)[k] = Entry(q[k])
      BY <1>2 DEF Entries
    <3>3. Entries(Append(q, m))[k] = Entry(q[k])
      BY <1>2, <1>4, <2>1 DEF Entries
    <3> QED
      BY <3>1, <3>2, <3>3
  <2>3. Entries(Append(q, m))[Len(q) + 1] = Append(Entries(q), Entry(m))[Len(q) + 1]
    <3>1. Append(Entries(q), Entry(m))[Len(q) + 1] = Entry(m)
      BY <1>1, <1>3
    <3>2. Entries(Append(q, m))[Len(q) + 1] = Entry(m)
      BY <1>2, <1>4, <2>1 DEF Entries
    <3> QED
      BY <3>1, <3>2
  <2>4. \A k \in 1..(Len(q) + 1) : k \in 1..Len(q) \/ k = Len(q) + 1
    BY <1>2
  <2> QED
    BY <2>2, <2>3, <2>4
<1> QED
  BY <1>5, <1>6, <1>7, SeqEqual

LEMMA EnqueueIsPut ==
  ASSUME IInv, IInv', NEW s \in Sender, Enqueue(s)
  PROVE  LineQueue!Put(s)
<1> DEFINE c == dao[s]
           m == message[s]
<1>1. /\ sender[s] = "msgsnd" /\ MsgsndReturns(s) /\ received' = received
      /\ queue' = [queue EXCEPT ![c] = Append(queue[c], m)]
  BY DEF Enqueue
<1>2. c \in Dao /\ m \in Message /\ queue[c] \in Seq(Message)
  BY DEF IInv, TypeOK
<1>3. LineQueue!Returns(s)
  BY <1>1, MsgsndReturnsIsReturns
<1>4. Entry(m) = [line |-> line[s], whole |-> WholeOf[s]]
  BY <1>1 DEF IInv, MessageInv, Entry, WholeOf
<1>5. Queues' = [Queues EXCEPT ![c] = Append(Queues[c], Entry(m))]
  <2>1. Queues' = [d \in Dao |-> Entries(queue'[d])]
    BY DEF Queues, Entries, Entry, Whole, TextOf
  <2>2. \A d \in Dao : queue'[d] = IF d = c THEN Append(queue[c], m) ELSE queue[d]
    BY <1>1 DEF IInv, TypeOK
  <2>3. Entries(Append(queue[c], m)) = Append(Entries(queue[c]), Entry(m))
    BY <1>2, EntriesOfAppend
  <2> QED
    BY <1>2, <2>1, <2>2, <2>3 DEF Queues
<1> QED
  BY <1>3, <1>4, <1>5 DEF LineQueue!Put, Queues, WholeOf

LEMMA EntriesOfTail ==
  ASSUME NEW q \in Seq(Message), q # <<>>
  PROVE  /\ Entries(q) # <<>>
         /\ Entries(Tail(q)) = Tail(Entries(q))
         /\ Head(Entries(q)) = Entry(Head(q))
<1> DEFINE E == [line : Line, whole : BOOLEAN]
           r == Tail(q)
<1>1. \A x \in Message : Entry(x) \in E
  BY DEF Entry, Whole, Message
<1>2. /\ Len(q) \in Nat \ {0} /\ DOMAIN q = 1..Len(q)
      /\ \A k \in 1..Len(q) : q[k] \in Message
  BY EmptySeq, LenProperties, ElementOfSeq
<1>3. /\ r \in Seq(Message) /\ Len(r) = Len(q) - 1 /\ DOMAIN r = 1..(Len(q) - 1)
      /\ \A k \in 1..(Len(q) - 1) : r[k] = q[k + 1] /\ r[k] \in Message
  <2>1. r \in Seq(Message) /\ Len(r) = Len(q) - 1 /\ \A k \in 1..Len(r) : r[k] = q[k + 1]
    BY HeadTailProperties
  <2> QED
    BY <2>1, LenProperties, ElementOfSeq
<1>4. Entries(q) \in Seq(E) /\ Len(Entries(q)) = Len(q)
  <2>1. Entries(q) \in Seq(E)
    BY <1>1, <1>2, IsASeq DEF Entries
  <2> QED
    BY <1>2, <2>1, LenProperties DEF Entries
<1>5. Entries(r) \in Seq(E) /\ Len(Entries(r)) = Len(q) - 1
  <2>1. Len(q) - 1 \in Nat
    BY <1>2
  <2>2. Entries(r) \in Seq(E)
    BY <1>1, <1>3, <2>1, IsASeq DEF Entries
  <2> QED
    BY <1>3, <2>1, <2>2, LenProperties DEF Entries
<1>6. Entries(q) # <<>>
  BY <1>2, <1>4, EmptySeq
<1>7. /\ Tail(Entries(q)) \in Seq(E) /\ Len(Tail(Entries(q))) = Len(q) - 1
      /\ \A k \in 1..(Len(q) - 1) : Tail(Entries(q))[k] = Entries(q)[k + 1]
  BY <1>4, <1>6, HeadTailProperties
<1>8. ASSUME NEW k \in 1..(Len(q) - 1)
      PROVE  Entries(r)[k] = Tail(Entries(q))[k]
  <2>1. k + 1 \in 1..Len(q)
    BY <1>2
  <2>2. Entries(q)[k + 1] = Entry(q[k + 1])
    BY <1>2, <2>1 DEF Entries
  <2>3. Entries(r)[k] = Entry(r[k])
    BY <1>3 DEF Entries
  <2> QED
    BY <1>3, <1>7, <2>2, <2>3
<1>9. Head(Entries(q)) = Entry(Head(q))
  <2>1. 1 \in 1..Len(q)
    BY <1>2
  <2>2. Head(q) = q[1] /\ Head(Entries(q)) = Entries(q)[1]
    BY <1>4, <1>6
  <2> QED
    BY <1>2, <2>1, <2>2 DEF Entries
<1>10. Entries(r) = Tail(Entries(q))
  BY <1>5, <1>7, <1>8, SeqEqual
<1> QED
  BY <1>6, <1>9, <1>10

LEMMA GetMessageIsTake ==
  ASSUME IInv, NEW d \in Dao, GetMessage(d)
  PROVE  LineQueue!Take(d)
<1> DEFINE m == Head(queue[d])
<1>1. /\ queue[d] # <<>> /\ queue[d] \in Seq(Message)
      /\ queue' = [queue EXCEPT ![d] = Tail(queue[d])]
      /\ received' = [received EXCEPT ![d] = Entry([m EXCEPT !.text = Piece(m.text)])]
      /\ sender' = sender /\ line' = line /\ dao' = dao /\ Overlapped' = Overlapped
      /\ message' = message
  BY DEF GetMessage, senderVars, IInv, TypeOK, Overlapped
<1>2. m \in Message /\ Len(m.text) = m.line.size
  <2>1. 1 \in DOMAIN queue[d] /\ m = queue[d][1]
    BY <1>1, TailIsOlderQueue
  <2> QED
    BY <1>1, <2>1, HeadTailProperties DEF IInv, MessageInv
<1>3. Entry([m EXCEPT !.text = Piece(m.text)]) = Entry(m)
  <2> DEFINE p == [m EXCEPT !.text = Piece(m.text)]
  <2>1. p.line = m.line /\ p.text = Piece(m.text)
    BY <1>2 DEF Message
  <2>2. Whole(p) = Whole(m)
    BY <1>2, <2>1, PieceOfWhole DEF Whole
  <2> QED
    BY <2>1, <2>2 DEF Entry
<1>4. /\ Queues[d] # <<>> /\ Head(Queues[d]) = Entry(m)
      /\ Entries(Tail(queue[d])) = Tail(Queues[d])
  BY <1>1, EntriesOfTail DEF Queues
<1>5. Queues' = [Queues EXCEPT ![d] = Tail(Queues[d])]
  <2>1. Queues' = [c \in Dao |-> Entries(queue'[c])]
    BY DEF Queues, Entries, Entry, Whole, TextOf
  <2>2. \A c \in Dao : queue'[c] = IF c = d THEN Tail(queue[d]) ELSE queue[c]
    BY <1>1 DEF IInv, TypeOK
  <2> QED
    BY <1>4, <2>1, <2>2 DEF Queues
<1>6. Stages' = Stages /\ WholeOf' = WholeOf
  BY <1>1 DEF Stages, Stage, WholeOf, Whole, TextOf
<1>7. received' = [received EXCEPT ![d] = Head(Queues[d])]
  BY <1>1, <1>3, <1>4
<1> QED
  BY <1>1, <1>4, <1>5, <1>6, <1>7 DEF LineQueue!Take, Stages, WholeOf, Queues

LEMMA IpcrmIsRemove ==
  ASSUME IInv, NEW d \in Dao, Ipcrm(d)
  PROVE  LineQueue!Remove(d)
<1>1. /\ queue' = [queue EXCEPT ![d] = <<>>] /\ received' = received
      /\ sender' = sender /\ line' = line /\ dao' = dao /\ Overlapped' = Overlapped
      /\ message' = message
  BY DEF Ipcrm, senderVars, Overlapped
<1>2. Queues' = [Queues EXCEPT ![d] = <<>>]
  <2>1. Queues' = [c \in Dao |-> Entries(queue'[c])]
    BY DEF Queues, Entries, Entry, Whole, TextOf
  <2>2. \A c \in Dao : queue'[c] = IF c = d THEN <<>> ELSE queue[c]
    BY <1>1 DEF IInv, TypeOK
  <2>3. Entries(<<>>) = <<>>
    BY DEF Entries
  <2> QED
    BY <2>1, <2>2, <2>3 DEF Queues
<1>3. Stages' = Stages /\ WholeOf' = WholeOf
  BY <1>1 DEF Stages, Stage, WholeOf, Whole, TextOf
<1> QED
  BY <1>1, <1>2, <1>3 DEF LineQueue!Remove, Stages, WholeOf, Queues

(* The cells written on the way, and the end of the process.              *)
LEMMA OthersStutter ==
  ASSUME IInv,
         \/ \E s \in Sender : Memset(s) \/ Memcpy(s)
         \/ \E d \in Dao : GetMessageFails(d)
         \/ UNCHANGED vars
  PROVE  UNCHANGED LineQueue!vars
<1>1. /\ line' = line /\ dao' = dao /\ Overlapped' = Overlapped /\ message' = message
      /\ queue' = queue /\ received' = received
  BY DEF Memset, Memcpy, GetMessageFails, vars, senderVars, readerVars, Overlapped
<1>2. \A s \in Sender : Stage(sender'[s]) = Stage(sender[s])
  BY DEF Memset, Memcpy, GetMessageFails, vars, senderVars, Goto, IInv, TypeOK, Stage
<1>3. Stages' = Stages
  BY <1>2, StagesNext DEF Stages
<1>4. WholeOf' = WholeOf /\ Queues' = Queues
  BY <1>1 DEF WholeOf, Queues, Entries, Entry, Whole, TextOf
<1> QED
  BY <1>1, <1>3, <1>4 DEF LineQueue!vars, Stages, WholeOf, Queues

LEMMA NextImplements == IInv /\ IInv' /\ [Next]_vars => [LineQueue!Next]_(LineQueue!vars)
<1> SUFFICES ASSUME IInv, IInv', [Next]_vars
             PROVE  [LineQueue!Next]_(LineQueue!vars)
  OBVIOUS
<1>1. ASSUME NEW s \in Sender, SendData(s)
      PROVE  LineQueue!Next
  BY <1>1, SendDataIsGive DEF LineQueue!Next, IInv
<1>2. ASSUME NEW s \in Sender, Msgsnd(s)
      PROVE  LineQueue!Next
  BY <1>2, MsgsndIsHandOver DEF LineQueue!Next
<1>3. ASSUME NEW s \in Sender, MsgsndFails(s)
      PROVE  LineQueue!Next
  <2>1. LineQueue!Returns(s) /\ Queues' = Queues
    BY <1>3, MsgsndReturnsIsReturns
       DEF MsgsndFails, readerVars, Queues, Entries, Entry, Whole, TextOf
  <2> QED
    BY <2>1 DEF LineQueue!Next, LineQueue!Lose, Queues
<1>4. ASSUME NEW s \in Sender, Enqueue(s)
      PROVE  LineQueue!Next
  BY <1>4, EnqueueIsPut DEF LineQueue!Next
<1>5. ASSUME NEW d \in Dao, GetMessage(d) \/ Ipcrm(d)
      PROVE  LineQueue!Next
  BY <1>5, GetMessageIsTake, IpcrmIsRemove DEF LineQueue!Next
<1> QED
  BY <1>1, <1>2, <1>3, <1>4, <1>5, OthersStutter DEF Next, SenderStep, ReaderStep

(* The shared buffer and the kernel's queue keep the promise of            *)
(* ARSTLineQueue: a line is put once or lost, and as it was given unless   *)
(* another sender wrote at the same time; what is in a queue is taken in   *)
(* order, and the copy up to the first NUL tells no more and no less.      *)
THEOREM QueueImplementsLineQueue == Spec => ImplementsLineQueue
<1>1. IInv /\ IInv' /\ [Next]_vars => [LineQueue!Next]_(LineQueue!vars)
  BY NextImplements
<1> QED
  BY <1>1, InitImplements, AlwaysIInv, PTL DEF Spec, ImplementsLineQueue, LineQueue!Spec
=============================================================================
