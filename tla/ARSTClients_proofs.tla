------------------------- MODULE ARSTClients_proofs -------------------------
(* Proofs about ARSTClients, for any clients, descriptors and, where it is *)
(* not said otherwise, any number of queue readers.                        *)
EXTENDS ARSTClients, TLAPS, SequenceTheorems

(* Every object is in the vector once, or about to be pushed, and what     *)
(* main erases is offline.                                                 *)
VectorInv ==
  /\ \A j, k \in 1..Len(m_vClient) : m_vClient[j] = m_vClient[k] => j = k
  /\ alive = InVector \cup ({accepted} \ {NoClient})
  /\ accepted \notin InVector
  /\ main = "erase" =>
       mainIter <= Len(m_vClient) /\ status[m_vClient[mainIter]] = "csOffline"

(* A descriptor is that of the object it stands for, but for the one main  *)
(* has closed, which may have been given out again before the erase().     *)
OwnerInv ==
  /\ \A f \in Socket : owner[f] # NoClient => owner[f] \in alive /\ nSocket[owner[f]] = f
  /\ \A c \in alive :
       nSocket[c] # NoSocket /\ owner[nSocket[c]] # c => main = "erase" /\ c = m_vClient[mainIter]
  /\ main = "erase" => \A f \in Socket : owner[f] # m_vClient[mainIter]

(* A client of the present walk that the reader has come past is dealt     *)
(* with, wherever erase() has moved it.                                    *)
Walked(d) ==
  /\ dao[d] = "get" => iter[d] = 1 /\ served[d] = {} /\ present[d] = {}
  /\ \A c \in present[d] : c \in InVector
  /\ \A k \in 1..Len(m_vClient) :
       m_vClient[k] \in present[d] /\ k < NextPlace(d) =>
         \/ m_vClient[k] \in served[d]
         \/ status[m_vClient[k]] = "csOffline"
         \/ dao[d] = "send" /\ pClient[d] = m_vClient[k]

WalkInv == \A d \in Dao : Walked(d)

ClientsInv == TypeOK /\ VectorInv /\ OwnerInv /\ WalkInv

OneReader == \A d, e \in Dao : d = e

(* The clients a reader has come past.                                    *)
Seen(d) == {m_vClient[k] : k \in {k \in 1..Len(m_vClient) : k < NextPlace(d)}}

(* With one reader nobody else finds that a client is offline: those it    *)
(* has sent to stay in the vector until its walk ends.                     *)
SeenInv ==
  \A d \in Dao :
    /\ dao[d] \in {"send", "trigger"} =>
         pClient[d] \in Seen(d) /\ status[pClient[d]] # "csOffline"
    /\ dao[d] = "send" => pClient[d] \notin served[d]
    /\ \A c \in served[d] : c \in Seen(d) /\ status[c] # "csOffline"

OneReaderInv == ClientsInv /\ SeenInv /\ WholeLines

-----------------------------------------------------------------------------
(* The vector without one element.                                        *)

LEMMA WithoutProperties ==
  ASSUME m_vClient \in Seq(Client), NEW k \in 1..Len(m_vClient)
  PROVE  /\ Without(k) \in Seq(Client)
         /\ Len(Without(k)) = Len(m_vClient) - 1
         /\ \A j \in 1..(Len(m_vClient) - 1) :
              Without(k)[j] = IF j < k THEN m_vClient[j] ELSE m_vClient[j + 1]
<1> DEFINE n == Len(m_vClient)
           A == SubSeq(m_vClient, 1, k - 1)
           B == SubSeq(m_vClient, k + 1, n)
<1>1. n \in Nat /\ k \in 1..n
  OBVIOUS
<1>2. A \in Seq(Client) /\ Len(A) = k - 1 /\ \A j \in 1..(k - 1) : A[j] = m_vClient[j]
  BY SubSeqProperties
<1>3. B \in Seq(Client) /\ Len(B) = n - k /\ \A j \in 1..(n - k) : B[j] = m_vClient[k + j]
  BY SubSeqProperties
<1>0. Without(k) = A \o B
  BY DEF Without
<1> HIDE DEF A, B, n
<1>4. /\ A \o B \in Seq(Client)
      /\ Len(A \o B) = Len(A) + Len(B)
      /\ \A j \in 1..(Len(A) + Len(B)) : (A \o B)[j] = IF j <= Len(A) THEN A[j] ELSE B[j - Len(A)]
  BY <1>2, <1>3, ConcatProperties
<1>5. ASSUME NEW j \in 1..(n - 1)
      PROVE  (A \o B)[j] = IF j < k THEN m_vClient[j] ELSE m_vClient[j + 1]
  <2>1. CASE j < k
    BY <1>1, <1>2, <1>3, <1>4, <2>1
  <2>2. CASE ~(j < k)
    <3>1. j - (k - 1) \in 1..(n - k) /\ k + (j - (k - 1)) = j + 1
      BY <1>1, <2>2
    <3>2. j \in 1..(Len(A) + Len(B)) /\ ~(j <= Len(A)) /\ j - Len(A) = j - (k - 1)
      BY <1>1, <1>2, <1>3, <2>2
    <3>3. (A \o B)[j] = B[j - (k - 1)]
      BY <1>4, <3>2
    <3> QED
      BY <1>3, <2>2, <3>1, <3>3
  <2> QED
    BY <2>1, <2>2
<1>6. Len(A \o B) = n - 1
  BY <1>1, <1>2, <1>3, <1>4
<1> QED
  BY <1>0, <1>4, <1>5, <1>6 DEF n

-----------------------------------------------------------------------------
LEMMA InitClientsInv == Init => ClientsInv
<1> SUFFICES ASSUME Init
             PROVE  ClientsInv
  OBVIOUS
<1>1. Len(m_vClient) = 0
  BY DEF Init
<1>2. TypeOK
  <2>1. m_vClient \in Seq(Client) /\ mainIter \in 1..(Len(m_vClient) + 1) /\ capacity \in Nat
    BY <1>1 DEF Init
  <2>2. iter \in [Dao -> Nat \ {0}] /\ dao \in [Dao -> DaoAt]
    BY DEF Init, DaoAt
  <2> QED
    BY <2>1, <2>2 DEF Init, TypeOK
<1>3. VectorInv
  BY <1>1 DEF Init, VectorInv, InVector
<1>4. OwnerInv
  BY DEF Init, OwnerInv
<1>5. WalkInv
  BY <1>1 DEF Init, WalkInv, Walked
<1> QED
  BY <1>2, <1>3, <1>4, <1>5 DEF ClientsInv

LEMMA ReceiverType ==
  ASSUME TypeOK, NEW c \in Client
  PROVE  Receiver(c) \subseteq Client
BY DEF TypeOK, Receiver

LEMMA MainTypeOKStep ==
  ASSUME TypeOK, VectorInv, MainStep
  PROVE  TypeOK'
<1> USE DEF TypeOK, vectorVars, clientVars, daoVars
<1>1. CASE CheckClientVector
  BY <1>1 DEF CheckClientVector
<1>2. CASE CheckEnd
  BY <1>2 DEF CheckEnd
<1>3. CASE CheckNext
  BY <1>3 DEF CheckNext
<1>4. CASE ShutdownClient
  BY <1>4 DEF ShutdownClient
<1>5. CASE EraseClientFromVector
  <2>1. mainIter \in 1..Len(m_vClient)
    BY <1>5 DEF EraseClientFromVector, VectorInv
  <2>2. /\ Without(mainIter) \in Seq(Client)
        /\ Len(Without(mainIter)) = Len(m_vClient) - 1
    BY <2>1, WithoutProperties
  <2>3. m_vClient' \in Seq(Client) /\ mainIter' \in 1..(Len(m_vClient') + 1)
    BY <1>5, <2>1, <2>2 DEF EraseClientFromVector
  <2>4. present' \in [Dao -> SUBSET Client]
    BY <1>5 DEF EraseClientFromVector
  <2> QED
    BY <1>5, <2>3, <2>4 DEF EraseClientFromVector, Destroy
<1>6. CASE UseOfThread \/ MainIteratorStale
  BY <1>6 DEF UseOfThread, MainIteratorStale, BecomesUndefined
<1> QED
  BY <1>1, <1>2, <1>3, <1>4, <1>5, <1>6 DEF MainStep

LEMMA DaoTypeOKStep ==
  ASSUME TypeOK, NEW d \in Dao, DaoStep(d)
  PROVE  TypeOK'
<1> USE DEF TypeOK, vectorVars, clientVars, daoVars, DaoAt
<1>1. CASE BeginWalk(d)
  BY <1>1 DEF BeginWalk, InVector
<1>2. CASE EndWalk(d)
  BY <1>2 DEF EndWalk
<1>3. CASE SkipOffline(d)
  BY <1>3 DEF SkipOffline
<1>4. CASE TakeClient(d)
  BY <1>4 DEF TakeClient, InRange, At
<1>5. CASE SendPart(d)
  <2>1. Receiver(pClient[d]) \subseteq Client
    BY <1>5, ReceiverType DEF SendPart
  <2> QED
    BY <1>5, <2>1 DEF SendPart
<1>6. CASE SendAll(d)
  <2>1. Receiver(pClient[d]) \subseteq Client
    BY <1>6, ReceiverType DEF SendAll
  <2> QED
    BY <1>6, <2>1 DEF SendAll
<1>7. CASE SendFails(d)
  BY <1>7 DEF SendFails
<1>8. CASE NextClient(d)
  BY <1>8 DEF NextClient
<1>9. CASE UseOfDestroyed(d) \/ IteratorInvalid(d)
  BY <1>9 DEF UseOfDestroyed, IteratorInvalid, BecomesUndefined
<1> QED
  BY <1>1, <1>2, <1>3, <1>4, <1>5, <1>6, <1>7, <1>8, <1>9 DEF DaoStep

LEMMA AcceptTypeOKStep ==
  ASSUME TypeOK, \/ Accept \/ AcceptFails \/ PushBackClientToVector
                 \/ \E c \in Client : PeerGone(c)
  PROVE  TypeOK'
<1> USE DEF TypeOK, vectorVars, clientVars, daoVars
<1>1. CASE Accept
  BY <1>1 DEF Accept, NewClient
<1>2. CASE AcceptFails
  BY <1>2 DEF AcceptFails, NewClient
<1>3. CASE PushBackClientToVector
  <2>1. accepted \in Client
    BY <1>3 DEF PushBackClientToVector
  <2>2. m_vClient' \in Seq(Client) /\ Len(m_vClient') = Len(m_vClient) + 1
    BY <1>3, <2>1 DEF PushBackClientToVector
  <2>3. mainIter' \in 1..(Len(m_vClient') + 1)
    BY <1>3, <2>2 DEF PushBackClientToVector
  <2>4. capacity' \in Nat /\ stale' \subseteq Dao \cup {"main"}
    BY <1>3 DEF PushBackClientToVector, Walking
  <2> QED
    BY <1>3, <2>2, <2>3, <2>4 DEF PushBackClientToVector
<1>4. ASSUME NEW c \in Client, PeerGone(c)
      PROVE  TypeOK'
  BY <1>4 DEF PeerGone
<1> QED
  BY <1>1, <1>2, <1>3, <1>4

(* Where push_back and erase() leave the clients.                         *)
LEMMA PushBackPlaces ==
  ASSUME TypeOK, PushBackClientToVector
  PROVE  /\ accepted \in Client
         /\ Len(m_vClient') = Len(m_vClient) + 1
         /\ \A j \in 1..Len(m_vClient) : m_vClient'[j] = m_vClient[j]
         /\ m_vClient'[Len(m_vClient) + 1] = accepted
         /\ InVector' = InVector \cup {accepted}
<1>1. /\ accepted \in Client
      /\ Len(m_vClient') = Len(m_vClient) + 1
      /\ \A j \in 1..Len(m_vClient) : m_vClient'[j] = m_vClient[j]
      /\ m_vClient'[Len(m_vClient) + 1] = accepted
  BY DEF PushBackClientToVector, TypeOK
<1>2. Len(m_vClient) \in Nat
  BY DEF TypeOK
<1>3. \A j \in 1..(Len(m_vClient) + 1) : j \in 1..Len(m_vClient) \/ j = Len(m_vClient) + 1
  BY <1>2
<1>4. \A j : j \in 1..Len(m_vClient) => j \in 1..(Len(m_vClient) + 1)
  BY <1>2
<1>5. Len(m_vClient) + 1 \in 1..(Len(m_vClient) + 1)
  BY <1>2
<1>6. InVector' = InVector \cup {accepted}
  BY <1>1, <1>3, <1>4, <1>5 DEF InVector
<1> QED
  BY <1>1, <1>6

LEMMA ErasePlaces ==
  ASSUME TypeOK, VectorInv, EraseClientFromVector
  PROVE  /\ mainIter \in 1..Len(m_vClient)
         /\ Len(m_vClient') = Len(m_vClient) - 1
         /\ \A j \in 1..Len(m_vClient') :
              m_vClient'[j] = IF j < mainIter THEN m_vClient[j] ELSE m_vClient[j + 1]
         /\ \A j \in 1..Len(m_vClient) \ {mainIter} :
              LET l == IF j < mainIter THEN j ELSE j - 1
              IN  l \in 1..Len(m_vClient') /\ m_vClient'[l] = m_vClient[j]
         /\ InVector' = InVector \ {m_vClient[mainIter]}
<1>1. mainIter \in 1..Len(m_vClient) /\ Len(m_vClient) \in Nat /\ mainIter \in Nat
  BY DEF EraseClientFromVector, VectorInv, TypeOK
<1>2. /\ Len(m_vClient') = Len(m_vClient) - 1
      /\ \A j \in 1..Len(m_vClient') :
           m_vClient'[j] = IF j < mainIter THEN m_vClient[j] ELSE m_vClient[j + 1]
  BY <1>1, WithoutProperties DEF EraseClientFromVector, TypeOK
<1>3. ASSUME NEW j \in 1..Len(m_vClient) \ {mainIter},
             NEW l, l = IF j < mainIter THEN j ELSE j - 1
      PROVE  l \in 1..Len(m_vClient') /\ m_vClient'[l] = m_vClient[j]
  <2>1. CASE j < mainIter
    <3>1. l = j /\ j \in 1..Len(m_vClient')
      BY <1>1, <1>2, <1>3, <2>1
    <3> QED
      BY <1>2, <2>1, <3>1
  <2>2. CASE ~(j < mainIter)
    <3>1. l = j - 1 /\ l \in 1..Len(m_vClient') /\ ~(l < mainIter) /\ l + 1 = j
      BY <1>1, <1>2, <1>3, <2>2
    <3> QED
      BY <1>2, <3>1
  <2> QED
    BY <2>1, <2>2
<1>4. ASSUME NEW j \in 1..Len(m_vClient')
      PROVE  \E k \in 1..Len(m_vClient) \ {mainIter} : m_vClient'[j] = m_vClient[k]
  <2>1. CASE j < mainIter
    <3>1. j \in 1..Len(m_vClient) \ {mainIter}
      BY <1>1, <1>2, <2>1
    <3> QED
      BY <1>2, <2>1, <3>1
  <2>2. CASE ~(j < mainIter)
    <3>1. j + 1 \in 1..Len(m_vClient) \ {mainIter}
      BY <1>1, <1>2, <2>2
    <3> QED
      BY <1>2, <2>2, <3>1
  <2> QED
    BY <2>1, <2>2
<1>5. \A k \in 1..Len(m_vClient) \ {mainIter} : m_vClient[k] # m_vClient[mainIter]
  BY <1>1 DEF VectorInv
<1>6. \A k \in 1..Len(m_vClient) \ {mainIter} : \E l \in 1..Len(m_vClient') : m_vClient'[l] = m_vClient[k]
  BY <1>3
<1>7. InVector' = InVector \ {m_vClient[mainIter]}
  <2>1. ASSUME NEW c \in InVector'
        PROVE  c \in InVector /\ c # m_vClient[mainIter]
    <3>1. PICK j \in 1..Len(m_vClient') : c = m_vClient'[j]
      BY <2>1 DEF InVector
    <3>2. PICK k \in 1..Len(m_vClient) \ {mainIter} : m_vClient'[j] = m_vClient[k]
      BY <1>4
    <3> QED
      BY <1>5, <3>1, <3>2 DEF InVector
  <2>2. ASSUME NEW c \in InVector, c # m_vClient[mainIter]
        PROVE  c \in InVector'
    <3>1. PICK k \in 1..Len(m_vClient) \ {mainIter} : c = m_vClient[k]
      BY <2>2 DEF InVector
    <3>2. PICK l \in 1..Len(m_vClient') : m_vClient'[l] = m_vClient[k]
      BY <1>6
    <3> QED
      BY <3>1, <3>2 DEF InVector
  <2> QED
    BY <2>1, <2>2
<1> QED
  BY <1>1, <1>2, <1>3, <1>7

(* Steps that neither add nor remove a client nor begin an erase().       *)
LEMMA QuietVectorInv ==
  ASSUME TypeOK, VectorInv, UNCHANGED <<m_vClient, alive, accepted>>,
         main' = "erase" => main = "erase" /\ mainIter' = mainIter,
         \A c \in Client : status[c] = "csOffline" => status'[c] = "csOffline"
  PROVE  VectorInv'
<1>1. InVector' = InVector
  BY DEF InVector
<1>2. main = "erase" => m_vClient[mainIter] \in Client
  BY DEF TypeOK, VectorInv
<1> QED
  BY <1>1, <1>2 DEF VectorInv

LEMMA DaoKeepsVector ==
  ASSUME TypeOK, NEW d \in Dao, DaoStep(d)
  PROVE  /\ UNCHANGED <<m_vClient, capacity, stale, alive, nSocket, owner, peer, accepted, main,
                        mainIter>>
         /\ \A c \in Client : status[c] = "csOffline" => status'[c] = "csOffline"
BY DEF TypeOK, DaoStep, BeginWalk, EndWalk, SkipOffline, TakeClient, SendPart, SendAll, SendFails,
       NextClient, UseOfDestroyed, IteratorInvalid, BecomesUndefined, vectorVars, clientVars, daoVars

LEMMA NextVectorInv ==
  ASSUME TypeOK, VectorInv, Next
  PROVE  VectorInv'
<1>1. CASE Accept \/ AcceptFails
  <2>1. PICK c \in Client :
          /\ c \notin alive /\ alive' = alive \cup {c} /\ accepted = NoClient /\ accepted' = c
          /\ UNCHANGED <<m_vClient, status, main, mainIter>>
    BY <1>1 DEF Accept, AcceptFails, NewClient, vectorVars
  <2>2. InVector' = InVector
    BY <2>1 DEF InVector
  <2> QED
    BY <2>1, <2>2, ClientsAssumption DEF VectorInv
<1>2. CASE PushBackClientToVector
  <2>1. /\ accepted \in Client
        /\ Len(m_vClient') = Len(m_vClient) + 1
        /\ \A j \in 1..Len(m_vClient) : m_vClient'[j] = m_vClient[j]
        /\ m_vClient'[Len(m_vClient) + 1] = accepted
        /\ InVector' = InVector \cup {accepted}
    BY <1>2, PushBackPlaces
  <2>2. accepted' = NoClient /\ UNCHANGED <<alive, status, main, mainIter>>
    BY <1>2 DEF PushBackClientToVector, clientVars
  <2>3. Len(m_vClient) \in Nat /\ InVector \subseteq Client
    BY DEF TypeOK, InVector
  <2>4. \A j \in 1..Len(m_vClient') : j \in 1..Len(m_vClient) \/ j = Len(m_vClient) + 1
    BY <2>1, <2>3
  <2>5. \A j \in 1..Len(m_vClient) : m_vClient[j] # accepted
    BY DEF VectorInv, InVector
  <2>6. \A j, k \in 1..Len(m_vClient') : m_vClient'[j] = m_vClient'[k] => j = k
    BY <2>1, <2>4, <2>5 DEF VectorInv
  <2>7. main' = "erase" =>
          mainIter' <= Len(m_vClient') /\ status'[m_vClient'[mainIter']] = "csOffline"
    <3> SUFFICES ASSUME main = "erase"
                 PROVE  mainIter <= Len(m_vClient') /\ status[m_vClient'[mainIter]] = "csOffline"
      BY <2>2
    <3>1. mainIter \in 1..Len(m_vClient)
      BY DEF VectorInv, TypeOK
    <3> QED
      BY <2>1, <2>3, <3>1 DEF VectorInv
  <2> QED
    BY <2>1, <2>2, <2>3, <2>6, <2>7, ClientsAssumption DEF VectorInv
<1>3. CASE EraseClientFromVector
  <2>1. /\ mainIter \in 1..Len(m_vClient)
        /\ Len(m_vClient') = Len(m_vClient) - 1
        /\ \A j \in 1..Len(m_vClient') :
             m_vClient'[j] = IF j < mainIter THEN m_vClient[j] ELSE m_vClient[j + 1]
        /\ InVector' = InVector \ {m_vClient[mainIter]}
    BY <1>3, ErasePlaces
  <2>2. /\ main' = "walk" /\ alive' = alive \ {m_vClient[mainIter]} /\ UNCHANGED accepted
    BY <1>3 DEF EraseClientFromVector, Destroy
  <2>3. ASSUME NEW j \in 1..Len(m_vClient'), NEW k \in 1..Len(m_vClient'),
               m_vClient'[j] = m_vClient'[k]
        PROVE  j = k
    <3>1. DEFINE up(n) == IF n < mainIter THEN n ELSE n + 1
    <3>2. Len(m_vClient) \in Nat
      BY DEF TypeOK
    <3>3. /\ up(j) \in 1..Len(m_vClient) /\ m_vClient'[j] = m_vClient[up(j)]
          /\ up(k) \in 1..Len(m_vClient) /\ m_vClient'[k] = m_vClient[up(k)]
      BY <2>1, <3>2
    <3>4. up(j) = up(k)
      BY <2>3, <3>3 DEF VectorInv
    <3> QED
      BY <2>1, <3>2, <3>4
  <2>4. m_vClient[mainIter] \in InVector
    BY <2>1 DEF InVector
  <2> QED
    BY <2>1, <2>2, <2>3, <2>4 DEF VectorInv
<1>4. CASE ShutdownClient
  <2>1. InVector' = InVector
    BY <1>4 DEF ShutdownClient, InVector, vectorVars
  <2> QED
    BY <1>4, <2>1 DEF ShutdownClient, VectorInv, vectorVars
<1>5. CASE CheckClientVector \/ CheckEnd \/ CheckNext \/ UseOfThread \/ MainIteratorStale
  <2>1. /\ UNCHANGED <<m_vClient, alive, accepted, status>>
        /\ main' = "erase" => main = "erase" /\ mainIter' = mainIter
    BY <1>5 DEF CheckClientVector, CheckEnd, CheckNext, UseOfThread, MainIteratorStale,
                BecomesUndefined, vectorVars, clientVars
  <2> QED
    BY <2>1, QuietVectorInv
<1>6. ASSUME NEW d \in Dao, DaoStep(d)
      PROVE  VectorInv'
  BY <1>6, DaoKeepsVector, QuietVectorInv
<1>7. ASSUME NEW c \in Client, PeerGone(c)
      PROVE  VectorInv'
  BY <1>7, QuietVectorInv DEF PeerGone, vectorVars
<1> QED
  BY <1>1, <1>2, <1>3, <1>4, <1>5, <1>6, <1>7 DEF Next, MainStep

-----------------------------------------------------------------------------
(* Descriptors.                                                           *)

(* Steps that open and close no descriptor.                               *)
LEMMA QuietOwnerInv ==
  ASSUME TypeOK, VectorInv, OwnerInv, UNCHANGED <<alive, nSocket, owner, main>>,
         main = "erase" => m_vClient'[mainIter'] = m_vClient[mainIter]
  PROVE  OwnerInv'
BY DEF OwnerInv

LEMMA NextOwnerInv ==
  ASSUME TypeOK, VectorInv, OwnerInv, Next
  PROVE  OwnerInv'
<1>0. main = "erase" => mainIter \in 1..Len(m_vClient) /\ m_vClient[mainIter] \in alive
  BY DEF TypeOK, VectorInv, InVector
<1>1. CASE Accept \/ AcceptFails
  <2>1. PICK c \in Client, f \in Socket \cup {NoSocket} :
          /\ c \notin alive /\ alive' = alive \cup {c}
          /\ nSocket' = [nSocket EXCEPT ![c] = f]
          /\ UNCHANGED <<m_vClient, main, mainIter>>
          /\ \/ f = NoSocket /\ UNCHANGED owner
             \/ f \in Socket /\ owner[f] = NoClient /\ owner' = [owner EXCEPT ![f] = c]
    BY <1>1 DEF Accept, AcceptFails, NewClient, vectorVars
  <2>2. main = "erase" => \A g \in Socket : owner'[g] # m_vClient[mainIter]
    BY <1>0, <2>1 DEF TypeOK, OwnerInv
  <2>3. \A g \in Socket : owner'[g] # NoClient =>
           owner'[g] \in alive' /\ nSocket'[owner'[g]] = g
    <3> SUFFICES ASSUME NEW g \in Socket, owner'[g] # NoClient
                 PROVE  owner'[g] \in alive' /\ nSocket'[owner'[g]] = g
      OBVIOUS
    <3>1. CASE owner'[g] = owner[g]
      <4>1. owner[g] \in alive /\ nSocket[owner[g]] = g
        BY <3>1 DEF OwnerInv
      <4> QED
        BY <2>1, <3>1, <4>1 DEF TypeOK
    <3>2. CASE owner'[g] # owner[g]
      BY <2>1, <3>2, ClientsAssumption DEF TypeOK
    <3> QED
      BY <3>1, <3>2
  <2>4. ASSUME NEW o \in alive', nSocket'[o] # NoSocket, owner'[nSocket'[o]] # o
        PROVE  main' = "erase" /\ o = m_vClient'[mainIter']
    <3>1. o # c
      BY <2>1, <2>4, ClientsAssumption DEF TypeOK
    <3>2. o \in alive /\ nSocket'[o] = nSocket[o] /\ nSocket[o] \in Socket
      BY <2>1, <2>4, <3>1 DEF TypeOK
    <3>3. owner[nSocket[o]] # o
      BY <2>1, <2>4, <3>1, <3>2, ClientsAssumption DEF TypeOK
    <3> QED
      BY <2>1, <2>4, <3>2, <3>3 DEF OwnerInv
  <2> QED
    BY <2>1, <2>2, <2>3, <2>4 DEF OwnerInv
<1>2. CASE PushBackClientToVector
  <2>1. /\ UNCHANGED <<alive, nSocket, owner, main, mainIter>>
        /\ \A j \in 1..Len(m_vClient) : m_vClient'[j] = m_vClient[j]
    BY <1>2, PushBackPlaces DEF PushBackClientToVector, clientVars
  <2> QED
    BY <1>0, <2>1, QuietOwnerInv
<1>3. CASE ShutdownClient
  <2> DEFINE c == m_vClient[mainIter]
  <2>1. /\ main = "walk" /\ main' = "erase" /\ mainIter \in 1..Len(m_vClient)
        /\ owner' = [f \in Socket |-> IF f = nSocket[c] THEN NoClient ELSE owner[f]]
        /\ UNCHANGED <<m_vClient, mainIter, alive, nSocket>>
    BY <1>3 DEF ShutdownClient, vectorVars, TypeOK
  <2>2. c \in alive /\ c # NoClient
    BY <2>1, ClientsAssumption DEF VectorInv, InVector, TypeOK
  <2>3. \A f \in Socket : owner'[f] # NoClient => owner'[f] = owner[f] /\ f # nSocket[c]
    BY <2>1
  <2>4. \A f \in Socket : owner'[f] # c
    BY <2>2, <2>3 DEF OwnerInv
  <2>5. ASSUME NEW o \in alive, nSocket[o] # NoSocket, owner'[nSocket[o]] # o
        PROVE  o = c
    <3>1. nSocket[o] \in Socket /\ owner[nSocket[o]] = o
      BY <2>1, <2>5 DEF TypeOK, OwnerInv
    <3>2. nSocket[o] = nSocket[c]
      BY <2>1, <2>5, <3>1
    <3>3. owner[nSocket[c]] = c
      BY <2>1, <2>2, <2>5, <3>2 DEF OwnerInv
    <3> QED
      BY <3>1, <3>2, <3>3
  <2> QED
    BY <2>1, <2>3, <2>4, <2>5 DEF OwnerInv
<1>4. CASE EraseClientFromVector
  <2> DEFINE c == m_vClient[mainIter]
  <2>1. /\ main = "erase" /\ main' = "walk"
        /\ alive' = alive \ {c}
        /\ nSocket' = [nSocket EXCEPT ![c] = NoSocket]
        /\ UNCHANGED owner
    BY <1>4 DEF EraseClientFromVector, Destroy
  <2>2. \A o \in Client : o # c => nSocket'[o] = nSocket[o]
    BY <2>1 DEF TypeOK
  <2>3. \A f \in Socket : owner[f] # c
    BY <2>1 DEF OwnerInv
  <2> QED
    BY <2>1, <2>2, <2>3 DEF OwnerInv, TypeOK
<1>5. CASE CheckClientVector \/ CheckEnd \/ CheckNext \/ UseOfThread \/ MainIteratorStale
  <2>1. /\ UNCHANGED <<m_vClient, alive, nSocket, owner>>
        /\ main = "erase" <=> main' = "erase"
        /\ main = "erase" => mainIter' = mainIter
    BY <1>5 DEF CheckClientVector, CheckEnd, CheckNext, UseOfThread, MainIteratorStale,
                BecomesUndefined, vectorVars, clientVars
  <2> QED
    BY <2>1 DEF OwnerInv
<1>6. ASSUME NEW d \in Dao, DaoStep(d)
      PROVE  OwnerInv'
  BY <1>6, DaoKeepsVector, QuietOwnerInv
<1>7. ASSUME NEW c \in Client, PeerGone(c)
      PROVE  OwnerInv'
  BY <1>7, QuietOwnerInv DEF PeerGone, vectorVars
<1> QED
  BY <1>1, <1>2, <1>3, <1>4, <1>5, <1>6, <1>7 DEF Next, MainStep

-----------------------------------------------------------------------------
(* Walks.                                                                 *)

LEMMA QuietWalked ==
  ASSUME TypeOK, NEW d \in Dao, Walked(d),
         UNCHANGED <<m_vClient, dao[d], iter[d], pClient[d], served[d], present[d]>>,
         \A c \in Client : status[c] = "csOffline" => status'[c] = "csOffline"
  PROVE  Walked(d)'
<1>1. InVector' = InVector /\ NextPlace(d)' = NextPlace(d)
  BY DEF InVector, NextPlace
<1>2. \A k \in 1..Len(m_vClient) : m_vClient[k] \in Client
  BY DEF TypeOK
<1> QED
  BY <1>1, <1>2 DEF Walked

(* What goes on at the reader's own place.                                *)
LEMMA DaoStepWalked ==
  ASSUME ClientsInv, NEW d \in Dao, DaoStep(d)
  PROVE  Walked(d)'
<1> USE DEF ClientsInv, TypeOK, WalkInv
<1>0. Walked(d)
  OBVIOUS
<1>a. \A k \in 1..Len(m_vClient) : k \in Nat /\ m_vClient[k] \in Client
  OBVIOUS
<1>b. InVector' = InVector /\ UNCHANGED m_vClient
  BY DaoKeepsVector DEF InVector
<1>1. CASE BeginWalk(d)
  <2>1. dao'[d] = "walk" /\ present'[d] = InVector /\ iter'[d] = 1
    BY <1>0, <1>1 DEF BeginWalk, Walked
  <2>2. NextPlace(d)' = 1
    BY <2>1 DEF NextPlace
  <2> QED
    BY <1>b, <2>1, <2>2 DEF Walked
<1>2. CASE EndWalk(d)
  <2>1. dao'[d] = "get" /\ present'[d] = {} /\ iter'[d] = 1 /\ served'[d] = {}
    BY <1>2 DEF EndWalk
  <2> QED
    BY <2>1 DEF Walked
<1>3. CASE SkipOffline(d)
  <2>1. /\ dao[d] = "walk" /\ dao'[d] = "walk" /\ iter'[d] = iter[d] + 1
        /\ status[m_vClient[iter[d]]] = "csOffline"
        /\ UNCHANGED <<present, served, status>>
    BY <1>3 DEF SkipOffline, InRange, At, vectorVars, clientVars
  <2>2. NextPlace(d) = iter[d] /\ NextPlace(d)' = iter[d] + 1
    BY <2>1 DEF NextPlace
  <2>3. \A k \in 1..Len(m_vClient) : k < iter[d] + 1 => k < iter[d] \/ k = iter[d]
    OBVIOUS
  <2>4. ASSUME NEW k \in 1..Len(m_vClient), m_vClient[k] \in present[d], k < iter[d] + 1
        PROVE  \/ m_vClient[k] \in served[d]
               \/ status[m_vClient[k]] = "csOffline"
    <3>1. CASE k < iter[d]
      BY <1>0, <2>1, <2>2, <2>4, <3>1 DEF Walked
    <3> QED
      BY <2>1, <2>3, <2>4, <3>1
  <2> QED
    BY <1>0, <1>b, <2>1, <2>2, <2>4 DEF Walked
<1>4. CASE TakeClient(d)
  <2>1. /\ dao[d] = "walk" /\ dao'[d] = "send" /\ pClient'[d] = m_vClient[iter[d]]
        /\ UNCHANGED <<present, served, status, iter>>
    BY <1>4 DEF TakeClient, InRange, At, vectorVars, clientVars
  <2>2. NextPlace(d) = iter[d] /\ NextPlace(d)' = iter[d] + 1
    BY <2>1 DEF NextPlace
  <2>3. \A k \in 1..Len(m_vClient) : k < iter[d] + 1 => k < iter[d] \/ k = iter[d]
    OBVIOUS
  <2> QED
    BY <1>0, <1>b, <2>1, <2>2, <2>3 DEF Walked
<1>5. CASE SendPart(d)
  BY <1>0, <1>5, QuietWalked DEF SendPart, vectorVars, daoVars
<1>6. CASE SendAll(d)
  <2>1. /\ dao[d] = "send" /\ dao'[d] = "trigger"
        /\ pClient[d] \in alive /\ Receiver(pClient[d]) # {}
        /\ served'[d] = served[d] \cup Receiver(pClient[d])
        /\ UNCHANGED <<present, status, iter, pClient>>
    BY <1>6 DEF SendAll, vectorVars
  <2>2. NextPlace(d)' = NextPlace(d)
    BY <2>1 DEF NextPlace
  <2>3. pClient[d] \in served'[d] \/ status[pClient[d]] = "csOffline"
    <3>1. nSocket[pClient[d]] # NoSocket /\ Receiver(pClient[d]) \subseteq {owner[nSocket[pClient[d]]]}
      BY <2>1 DEF Receiver
    <3>2. CASE owner[nSocket[pClient[d]]] = pClient[d]
      BY <2>1, <3>1, <3>2
    <3>3. CASE owner[nSocket[pClient[d]]] # pClient[d]
      BY <2>1, <3>1, <3>3 DEF OwnerInv, VectorInv
    <3> QED
      BY <3>2, <3>3
  <2> QED
    BY <1>0, <1>b, <2>1, <2>2, <2>3 DEF Walked
<1>7. CASE SendFails(d)
  <2>1. /\ dao[d] = "send" /\ dao'[d] = "failed"
        /\ pClient[d] \in Client
        /\ status' = [status EXCEPT ![pClient[d]] = "csOffline"]
        /\ UNCHANGED <<present, served, iter, pClient>>
    BY <1>7 DEF SendFails, vectorVars
  <2>2. NextPlace(d)' = NextPlace(d)
    BY <2>1 DEF NextPlace
  <2> QED
    BY <1>0, <1>a, <1>b, <2>1, <2>2 DEF Walked
<1>8. CASE NextClient(d)
  <2>1. /\ dao[d] \in {"trigger", "failed"} /\ dao'[d] = "walk" /\ iter'[d] = iter[d] + 1
        /\ UNCHANGED <<present, served, status>>
    BY <1>8 DEF NextClient, vectorVars, clientVars
  <2>2. NextPlace(d)' = NextPlace(d)
    BY <2>1 DEF NextPlace
  <2> QED
    BY <1>0, <1>b, <2>1, <2>2 DEF Walked
<1>9. CASE UseOfDestroyed(d) \/ IteratorInvalid(d)
  BY <1>0, <1>9, QuietWalked DEF UseOfDestroyed, IteratorInvalid, BecomesUndefined, vectorVars,
                                 clientVars, daoVars
<1> QED
  BY <1>1, <1>2, <1>3, <1>4, <1>5, <1>6, <1>7, <1>8, <1>9 DEF DaoStep

(* One reader's step leaves the others where they are.                    *)
LEMMA DaoKeepsOthers ==
  ASSUME TypeOK, NEW d \in Dao, DaoStep(d), NEW e \in Dao \ {d}
  PROVE  UNCHANGED <<dao[e], iter[e], pClient[e], served[e], present[e]>>
BY DEF TypeOK, DaoStep, BeginWalk, EndWalk, SkipOffline, TakeClient, SendPart, SendAll, SendFails,
       NextClient, UseOfDestroyed, IteratorInvalid, BecomesUndefined, vectorVars, daoVars

(* The client that moves down to the reader's back is no longer counted   *)
(* among those it owes the line; all others stay on their side of it.     *)
LEMMA EraseWalked ==
  ASSUME ClientsInv, EraseClientFromVector, NEW d \in Dao
  PROVE  Walked(d)'
<1> USE DEF ClientsInv, WalkInv
<1> DEFINE c == m_vClient[mainIter]
<1>1. /\ mainIter \in 1..Len(m_vClient)
      /\ Len(m_vClient') = Len(m_vClient) - 1
      /\ \A j \in 1..Len(m_vClient') :
           m_vClient'[j] = IF j < mainIter THEN m_vClient[j] ELSE m_vClient[j + 1]
      /\ InVector' = InVector \ {c}
  BY ErasePlaces
<1>2. /\ \A o \in Client : o # c => status'[o] = status[o]
      /\ present'[d] = present[d] \ PassedOver(d, mainIter)
      /\ UNCHANGED <<dao, iter, pClient, served>>
  BY DEF EraseClientFromVector, Destroy, TypeOK, daoVars
<1>3. NextPlace(d)' = NextPlace(d) /\ NextPlace(d) \in Nat
  BY <1>2 DEF NextPlace, TypeOK
<1>4. c \in PassedOver(d, mainIter)
  BY DEF PassedOver
<1>5. Len(m_vClient) \in Nat /\ m_vClient \in Seq(Client)
  BY DEF TypeOK
<1>6. ASSUME NEW j \in 1..Len(m_vClient'), m_vClient'[j] \in present'[d], j < NextPlace(d)
      PROVE  \/ m_vClient'[j] \in served[d]
             \/ status'[m_vClient'[j]] = "csOffline"
             \/ dao[d] = "send" /\ pClient[d] = m_vClient'[j]
  <2>1. PICK k \in 1..Len(m_vClient) : /\ m_vClient'[j] = m_vClient[k]
                                        /\ k = IF j < mainIter THEN j ELSE j + 1
    BY <1>1, <1>5
  <2>2. /\ m_vClient[k] \in Client /\ m_vClient[k] # c
        /\ m_vClient[k] \in present[d] /\ m_vClient[k] \notin PassedOver(d, mainIter)
    BY <1>2, <1>4, <1>5, <1>6, <2>1
  <2>3. dao[d] # "get"
    BY <2>2 DEF Walked
  <2>4. ~(mainIter < k /\ k = NextPlace(d))
    BY <2>2, <2>3 DEF PassedOver
  <2>5. k < NextPlace(d)
    BY <1>1, <1>3, <1>5, <1>6, <2>1, <2>4
  <2>6. \/ m_vClient[k] \in served[d]
        \/ status[m_vClient[k]] = "csOffline"
        \/ dao[d] = "send" /\ pClient[d] = m_vClient[k]
    BY <2>2, <2>5 DEF Walked
  <2> QED
    BY <1>2, <2>1, <2>2, <2>6
<1>7. \A o \in present'[d] : o \in InVector'
  BY <1>1, <1>2, <1>4 DEF Walked
<1>8. dao'[d] = "get" => iter'[d] = 1 /\ served'[d] = {} /\ present'[d] = {}
  BY <1>2 DEF Walked
<1> QED
  BY <1>2, <1>3, <1>6, <1>7, <1>8 DEF Walked

LEMMA NextWalkInv ==
  ASSUME ClientsInv, Next
  PROVE  WalkInv'
<1> SUFFICES ASSUME NEW d \in Dao
             PROVE  Walked(d)'
  BY DEF WalkInv
<1>0. TypeOK /\ Walked(d)
  BY DEF ClientsInv, WalkInv
<1>1. CASE PushBackClientToVector
  <2>1. /\ accepted \in Client
        /\ Len(m_vClient') = Len(m_vClient) + 1
        /\ \A j \in 1..Len(m_vClient) : m_vClient'[j] = m_vClient[j]
        /\ m_vClient'[Len(m_vClient) + 1] = accepted
        /\ InVector' = InVector \cup {accepted}
    BY <1>0, <1>1, PushBackPlaces
  <2>2. UNCHANGED <<dao, iter, pClient, served, present, status>>
    BY <1>1 DEF PushBackClientToVector, clientVars, daoVars
  <2>3. NextPlace(d)' = NextPlace(d)
    BY <2>2 DEF NextPlace
  <2>4. \A j \in 1..Len(m_vClient') : j \in 1..Len(m_vClient) \/ j = Len(m_vClient) + 1
    BY <1>0, <2>1 DEF TypeOK
  <2>5. accepted \notin present[d]
    BY <1>0 DEF ClientsInv, VectorInv, Walked
  <2> QED
    BY <1>0, <2>1, <2>2, <2>3, <2>4, <2>5 DEF Walked
<1>2. CASE EraseClientFromVector
  BY <1>2, EraseWalked
<1>3. ASSUME NEW e \in Dao, DaoStep(e)
      PROVE  Walked(d)'
  <2>1. CASE e = d
    BY <1>3, <2>1, DaoStepWalked
  <2>2. CASE e # d
    BY <1>0, <1>3, <2>2, DaoKeepsOthers, DaoKeepsVector, QuietWalked
  <2> QED
    BY <2>1, <2>2
<1>4. CASE \/ Accept \/ AcceptFails \/ CheckClientVector \/ CheckEnd \/ CheckNext
           \/ ShutdownClient \/ UseOfThread \/ MainIteratorStale
           \/ \E c \in Client : PeerGone(c)
  <2>1. UNCHANGED <<m_vClient, dao, iter, pClient, served, present, status>>
    BY <1>4 DEF Accept, AcceptFails, NewClient, CheckClientVector, CheckEnd, CheckNext,
                ShutdownClient, UseOfThread, MainIteratorStale, BecomesUndefined, PeerGone,
                vectorVars, clientVars, daoVars
  <2> QED
    BY <1>0, <2>1, QuietWalked
<1> QED
  BY <1>1, <1>2, <1>3, <1>4 DEF Next, MainStep

LEMMA AlwaysClientsInv == Spec => []ClientsInv
<1>1. ClientsInv /\ [Next]_vars => ClientsInv'
  <2> SUFFICES ASSUME ClientsInv, [Next]_vars
               PROVE  ClientsInv'
    OBVIOUS
  <2>1. CASE Next
    <3>1. TypeOK'
      BY <2>1, MainTypeOKStep, DaoTypeOKStep, AcceptTypeOKStep DEF ClientsInv, Next
    <3> QED
      BY <2>1, <3>1, NextVectorInv, NextOwnerInv, NextWalkInv DEF ClientsInv
  <2>2. CASE UNCHANGED vars
    <3>1. InVector' = InVector /\ \A d \in Dao : NextPlace(d)' = NextPlace(d)
      BY <2>2 DEF vars, vectorVars, daoVars, InVector, NextPlace
    <3>2. UNCHANGED <<vectorVars, clientVars, daoVars, accepted, main, mainIter, undefined>>
      BY <2>2 DEF vars
    <3>3. TypeOK' /\ VectorInv' /\ OwnerInv'
      BY <3>1, <3>2 DEF ClientsInv, TypeOK, VectorInv, OwnerInv, vectorVars, clientVars, daoVars
    <3>4. WalkInv'
      BY <3>1, <3>2 DEF ClientsInv, WalkInv, Walked, vectorVars, clientVars, daoVars
    <3> QED
      BY <3>3, <3>4 DEF ClientsInv
  <2> QED
    BY <2>1, <2>2
<1> QED
  BY <1>1, InitClientsInv, PTL DEF Spec

(* Every variable keeps its type; main's iterator never passes the end of  *)
(* the vector.                                                             *)
THEOREM ClientsTypeCorrect == Spec => []TypeOK
<1>1. ClientsInv => TypeOK
  BY DEF ClientsInv
<1> QED
  BY <1>1, AlwaysClientsInv, PTL

(* No two clients in service share a descriptor, whenever accept() gives    *)
(* out again one that main has closed.                                     *)
THEOREM DescriptorsHaveOneOwner == Spec => []OneOwner
<1>1. ClientsInv => OneOwner
  <2> SUFFICES ASSUME ClientsInv, NEW c \in alive, NEW o \in alive, nSocket[c] # NoSocket,
                      nSocket[c] = nSocket[o], status[c] # "csOffline", status[o] # "csOffline"
               PROVE  c = o
    BY DEF OneOwner
  <2>1. owner[nSocket[c]] = c
    BY DEF ClientsInv, OwnerInv, VectorInv
  <2>2. owner[nSocket[o]] = o
    BY DEF ClientsInv, OwnerInv, VectorInv
  <2> QED
    BY <2>1, <2>2
<1> QED
  BY <1>1, AlwaysClientsInv, PTL

(* The descriptor of a client is closed before its object is destroyed.    *)
THEOREM DescriptorsAreClosed == Spec => []NoDescriptorLeak
<1>1. ClientsInv => NoDescriptorLeak
  BY DEF ClientsInv, OwnerInv, NoDescriptorLeak
<1> QED
  BY <1>1, AlwaysClientsInv, PTL

(* main closes nobody's connection but that of the client it erases.       *)
THEOREM MainClosesItsOwn == Spec => ClosesItsOwn
<1> DEFINE Closes == \A f \in Socket : owner[f] # NoClient /\ owner'[f] = NoClient
                       => owner[f] = m_vClient[mainIter] /\ status[owner[f]] = "csOffline"
<1>1. ClientsInv /\ [Next]_vars => [Closes]_vars
  <2> SUFFICES ASSUME ClientsInv, Next, NEW f \in Socket, owner[f] # NoClient, owner'[f] = NoClient
               PROVE  owner[f] = m_vClient[mainIter] /\ status[owner[f]] = "csOffline"
    OBVIOUS
  <2>1. ShutdownClient
    <3>1. CASE \/ Accept \/ AcceptFails \/ PushBackClientToVector \/ CheckClientVector
               \/ CheckEnd \/ CheckNext \/ EraseClientFromVector \/ UseOfThread
               \/ MainIteratorStale \/ (\E c \in Client : PeerGone(c))
               \/ (\E d \in Dao : DaoStep(d))
      <4>1. CASE Accept
        BY <4>1, ClientsAssumption DEF Accept, ClientsInv, TypeOK
      <4>2. CASE \E d \in Dao : DaoStep(d)
        BY <4>2, DaoKeepsVector DEF ClientsInv
      <4>3. CASE \/ AcceptFails \/ PushBackClientToVector \/ CheckClientVector
                 \/ CheckEnd \/ CheckNext \/ EraseClientFromVector \/ UseOfThread
                 \/ MainIteratorStale \/ \E c \in Client : PeerGone(c)
        BY <4>3 DEF AcceptFails, PushBackClientToVector, CheckClientVector, CheckEnd, CheckNext,
                    EraseClientFromVector, UseOfThread, MainIteratorStale, BecomesUndefined,
                    PeerGone, clientVars
      <4> QED
        BY <3>1, <4>1, <4>2, <4>3
    <3> QED
      BY <3>1 DEF Next, MainStep
  <2>2. /\ main = "walk" /\ f = nSocket[m_vClient[mainIter]]
        /\ status[m_vClient[mainIter]] = "csOffline"
        /\ m_vClient[mainIter] \in alive
    BY <2>1 DEF ShutdownClient, ClientsInv, TypeOK, VectorInv, InVector
  <2>3. owner[f] = m_vClient[mainIter]
    BY <2>2, ClientsAssumption DEF ClientsInv, OwnerInv
  <2> QED
    BY <2>2, <2>3
<1> QED
  BY <1>1, AlwaysClientsInv, PTL DEF Spec, ClosesItsOwn

(* Whatever main erases during a walk, and however many readers there are: *)
(* who was there when it began and was not next to a client erased behind  *)
(* the reader has been sent the line at its end, or is offline.            *)
THEOREM NobodyIsMissed == Spec => []NobodyElseMissed
<1>1. ClientsInv => NobodyElseMissed
  <2> SUFFICES ASSUME ClientsInv, NEW d \in Dao, dao[d] = "walk", iter[d] = Len(m_vClient) + 1,
                      NEW c \in present[d]
               PROVE  c \in served[d] \/ status[c] = "csOffline"
    BY DEF NobodyElseMissed
  <2>1. Walked(d) /\ NextPlace(d) = Len(m_vClient) + 1 /\ Len(m_vClient) \in Nat
    BY DEF ClientsInv, WalkInv, NextPlace, TypeOK
  <2>2. PICK k \in 1..Len(m_vClient) : c = m_vClient[k]
    BY <2>1 DEF Walked, InVector
  <2>3. k < NextPlace(d)
    BY <2>1
  <2> QED
    BY <2>1, <2>2, <2>3 DEF Walked
<1> QED
  BY <1>1, AlwaysClientsInv, PTL

-----------------------------------------------------------------------------
(* With one queue reader.                                                 *)

LEMMA InitSeenInv == Init => SeenInv /\ WholeLines
BY DEF Init, SeenInv, WholeLines

(* What the one reader sends to is what it has taken from the vector.     *)
LEMMA ReceiverIsTaken ==
  ASSUME ClientsInv, SeenInv, NEW d \in Dao, dao[d] \in {"send", "trigger"}
  PROVE  /\ pClient[d] \in alive /\ pClient[d] \in InVector
         /\ nSocket[pClient[d]] # NoSocket => owner[nSocket[pClient[d]]] = pClient[d]
         /\ Receiver(pClient[d]) \subseteq {pClient[d]}
<1>1. pClient[d] \in InVector /\ status[pClient[d]] # "csOffline"
  BY DEF SeenInv, Seen, InVector
<1>2. pClient[d] \in alive
  BY <1>1 DEF ClientsInv, VectorInv
<1>3. nSocket[pClient[d]] # NoSocket => owner[nSocket[pClient[d]]] = pClient[d]
  BY <1>1, <1>2 DEF ClientsInv, OwnerInv, VectorInv
<1> QED
  BY <1>1, <1>2, <1>3 DEF Receiver

(* The clause of SeenInv for one reader.                                  *)
LEMMA SeenOf ==
  ASSUME SeenInv, NEW d \in Dao
  PROVE  /\ dao[d] \in {"send", "trigger"} =>
              pClient[d] \in Seen(d) /\ status[pClient[d]] # "csOffline"
         /\ dao[d] = "send" => pClient[d] \notin served[d]
         /\ \A c \in served[d] : c \in Seen(d) /\ status[c] # "csOffline"
BY DEF SeenInv

LEMMA DaoSeenInv ==
  ASSUME OneReader, ClientsInv, SeenInv, NEW d \in Dao, DaoStep(d)
  PROVE  SeenInv'
<1> USE DEF ClientsInv, TypeOK
<1> SUFFICES /\ dao'[d] \in {"send", "trigger"} =>
                  pClient'[d] \in Seen(d)' /\ status'[pClient'[d]] # "csOffline"
             /\ dao'[d] = "send" => pClient'[d] \notin served'[d]
             /\ \A c \in served'[d] : c \in Seen(d)' /\ status'[c] # "csOffline"
  BY DEF SeenInv, OneReader
<1>0. /\ dao[d] \in {"send", "trigger"} =>
           pClient[d] \in Seen(d) /\ status[pClient[d]] # "csOffline"
      /\ dao[d] = "send" => pClient[d] \notin served[d]
      /\ \A c \in served[d] : c \in Seen(d) /\ status[c] # "csOffline"
  BY SeenOf
<1>a. UNCHANGED m_vClient
  BY DaoKeepsVector
<1>b. ASSUME NextPlace(d)' = NextPlace(d)
      PROVE  Seen(d)' = Seen(d)
  BY <1>a, <1>b DEF Seen
<1>1. CASE BeginWalk(d)
  <2>1. dao[d] = "get" /\ dao'[d] = "walk" /\ UNCHANGED <<served, status>>
    BY <1>1 DEF BeginWalk, clientVars
  <2>2. served[d] = {}
    BY <2>1 DEF WalkInv, Walked
  <2> QED
    BY <2>1, <2>2
<1>2. CASE EndWalk(d)
  BY <1>2 DEF EndWalk
<1>3. CASE SkipOffline(d) \/ TakeClient(d)
  <2>1. /\ dao[d] = "walk" /\ iter[d] <= Len(m_vClient)
        /\ UNCHANGED <<served, status>>
        /\ \/ dao'[d] = "walk" /\ iter'[d] = iter[d] + 1
           \/ /\ dao'[d] = "send" /\ iter'[d] = iter[d]
              /\ pClient'[d] = m_vClient[iter[d]] /\ status[m_vClient[iter[d]]] # "csOffline"
    BY <1>3 DEF SkipOffline, TakeClient, InRange, At, vectorVars, clientVars
  <2>2. NextPlace(d) = iter[d] /\ NextPlace(d)' = iter[d] + 1
    BY <2>1 DEF NextPlace
  <2>3. Seen(d) \subseteq Seen(d)'
    BY <1>a, <2>2 DEF Seen
  <2>4. iter[d] \in 1..Len(m_vClient) /\ m_vClient[iter[d]] \in Seen(d)'
    BY <1>a, <2>1, <2>2 DEF Seen
  <2>5. m_vClient[iter[d]] \notin Seen(d)
    BY <2>2, <2>4 DEF Seen, VectorInv
  <2> QED
    BY <1>0, <2>1, <2>3, <2>4, <2>5
<1>4. CASE SendPart(d)
  <2>1. UNCHANGED <<dao, iter, pClient, served, status>>
    BY <1>4 DEF SendPart, daoVars
  <2> QED
    BY <1>0, <1>b, <2>1 DEF NextPlace
<1>5. CASE SendAll(d)
  <2>1. /\ dao[d] = "send" /\ dao'[d] = "trigger"
        /\ served'[d] = served[d] \cup Receiver(pClient[d])
        /\ UNCHANGED <<iter, pClient, status>>
    BY <1>5 DEF SendAll
  <2>2. Seen(d)' = Seen(d)
    BY <1>b, <2>1 DEF NextPlace
  <2>3. Receiver(pClient[d]) \subseteq {pClient[d]}
    BY <2>1, ReceiverIsTaken
  <2> QED
    BY <1>0, <2>1, <2>2, <2>3
<1>6. CASE SendFails(d)
  <2>1. /\ dao[d] = "send" /\ dao'[d] = "failed"
        /\ status' = [status EXCEPT ![pClient[d]] = "csOffline"]
        /\ UNCHANGED <<iter, pClient, served>>
    BY <1>6 DEF SendFails
  <2>2. Seen(d)' = Seen(d)
    BY <1>b, <2>1 DEF NextPlace
  <2> QED
    BY <1>0, <2>1, <2>2
<1>7. CASE NextClient(d)
  <2>1. /\ dao[d] \in {"trigger", "failed"} /\ dao'[d] = "walk" /\ iter'[d] = iter[d] + 1
        /\ UNCHANGED <<served, status>>
    BY <1>7 DEF NextClient, clientVars
  <2>2. Seen(d)' = Seen(d)
    BY <1>b, <2>1 DEF NextPlace
  <2> QED
    BY <1>0, <2>1, <2>2
<1>8. CASE UseOfDestroyed(d) \/ IteratorInvalid(d)
  <2>1. UNCHANGED <<dao, iter, pClient, served, status>>
    BY <1>8 DEF UseOfDestroyed, IteratorInvalid, BecomesUndefined, clientVars, daoVars
  <2> QED
    BY <1>0, <1>b, <2>1 DEF NextPlace
<1> QED
  BY <1>1, <1>2, <1>3, <1>4, <1>5, <1>6, <1>7, <1>8 DEF DaoStep

(* erase() leaves those the reader has come past behind it.               *)
LEMMA OthersSeenInv ==
  ASSUME ClientsInv, SeenInv,
         \/ Accept \/ AcceptFails \/ PushBackClientToVector \/ MainStep
         \/ \E c \in Client : PeerGone(c)
  PROVE  SeenInv'
<1> USE DEF ClientsInv
<1>0. Len(m_vClient) \in Nat /\ \A d \in Dao : NextPlace(d) \in Nat
  BY DEF TypeOK, NextPlace
<1>1. CASE PushBackClientToVector
  <2>1. /\ Len(m_vClient') = Len(m_vClient) + 1
        /\ \A j \in 1..Len(m_vClient) : m_vClient'[j] = m_vClient[j]
    BY <1>1, PushBackPlaces
  <2>2. UNCHANGED <<dao, iter, pClient, served, status>>
    BY <1>1 DEF PushBackClientToVector, clientVars, daoVars
  <2>3. ASSUME NEW d \in Dao
        PROVE  Seen(d) \subseteq Seen(d)'
    <3>1. NextPlace(d)' = NextPlace(d)
      BY <2>2 DEF NextPlace
    <3>2. \A j \in 1..Len(m_vClient) : j \in 1..Len(m_vClient')
      BY <1>0, <2>1
    <3> QED
      BY <2>1, <3>1, <3>2 DEF Seen
  <2> QED
    BY <2>2, <2>3 DEF SeenInv
<1>2. CASE EraseClientFromVector
  <2> DEFINE c == m_vClient[mainIter]
  <2>1. /\ mainIter \in 1..Len(m_vClient)
        /\ \A j \in 1..Len(m_vClient) \ {mainIter} :
             LET l == IF j < mainIter THEN j ELSE j - 1
             IN  l \in 1..Len(m_vClient') /\ m_vClient'[l] = m_vClient[j]
    BY <1>2, ErasePlaces
  <2>2. /\ status[c] = "csOffline"
        /\ status' = [status EXCEPT ![c] = "csNone"]
        /\ UNCHANGED <<dao, iter, pClient, served>>
    BY <1>2 DEF EraseClientFromVector, Destroy, daoVars, VectorInv
  <2>3. ASSUME NEW d \in Dao, NEW o \in Seen(d), o # c
        PROVE  o \in Seen(d)'
    <3>1. PICK j \in 1..Len(m_vClient) \ {mainIter} : o = m_vClient[j] /\ j < NextPlace(d)
      BY <2>3 DEF Seen
    <3>2. PICK l \in 1..Len(m_vClient') : m_vClient'[l] = o /\ (l = j \/ l = j - 1)
      BY <2>1, <3>1
    <3>3. l < NextPlace(d) /\ NextPlace(d)' = NextPlace(d)
      BY <1>0, <2>2, <3>1, <3>2 DEF NextPlace
    <3> QED
      BY <3>2, <3>3 DEF Seen
  <2> QED
    BY <2>2, <2>3 DEF SeenInv, TypeOK
<1>3. CASE \/ Accept \/ AcceptFails \/ CheckClientVector \/ CheckEnd \/ CheckNext
           \/ ShutdownClient \/ UseOfThread \/ MainIteratorStale
           \/ \E c \in Client : PeerGone(c)
  <2>1. UNCHANGED <<m_vClient, dao, iter, pClient, served, status>>
    BY <1>3 DEF Accept, AcceptFails, NewClient, CheckClientVector, CheckEnd, CheckNext,
                ShutdownClient, UseOfThread, MainIteratorStale, BecomesUndefined, PeerGone,
                vectorVars, clientVars, daoVars
  <2>2. \A d : Seen(d)' = Seen(d)
    BY <2>1 DEF Seen, NextPlace
  <2> QED
    BY <2>1, <2>2 DEF SeenInv
<1> QED
  BY <1>1, <1>2, <1>3 DEF MainStep

LEMMA NextWholeLines ==
  ASSUME OneReader, ClientsInv, SeenInv, WholeLines, Next
  PROVE  WholeLines'
<1> USE DEF ClientsInv, TypeOK
<1>1. ASSUME NEW d \in Dao, DaoStep(d)
      PROVE  WholeLines'
  <2>0. \A c \in part : status[c] = "csOffline" \/ (dao[d] = "send" /\ pClient[d] = c)
    BY DEF WholeLines, OneReader
  <2>1. CASE SendPart(d)
    <3>1. /\ dao[d] = "send" /\ part' = part \cup Receiver(pClient[d])
          /\ UNCHANGED <<status, dao, pClient>>
      BY <2>1 DEF SendPart, daoVars
    <3>2. Receiver(pClient[d]) \subseteq {pClient[d]}
      BY <3>1, ReceiverIsTaken
    <3> QED
      BY <2>0, <3>1, <3>2 DEF WholeLines
  <2>2. CASE SendAll(d)
    <3>1. /\ dao[d] = "send" /\ part' = part \ Receiver(pClient[d]) /\ Receiver(pClient[d]) # {}
          /\ UNCHANGED status
      BY <2>2 DEF SendAll
    <3>2. Receiver(pClient[d]) = {pClient[d]}
      BY <3>1, ReceiverIsTaken
    <3> QED
      BY <2>0, <3>1, <3>2 DEF WholeLines
  <2>3. CASE SendFails(d)
    BY <2>0, <2>3 DEF SendFails, WholeLines
  <2>4. CASE \/ BeginWalk(d) \/ EndWalk(d) \/ SkipOffline(d) \/ TakeClient(d) \/ NextClient(d)
             \/ UseOfDestroyed(d) \/ IteratorInvalid(d)
    <3>1. /\ UNCHANGED <<part, status>>
          /\ dao[d] = "send" => dao'[d] = "send" /\ pClient'[d] = pClient[d]
      BY <2>4 DEF BeginWalk, EndWalk, SkipOffline, TakeClient, NextClient, UseOfDestroyed,
                  IteratorInvalid, BecomesUndefined, InRange, clientVars, daoVars
    <3> QED
      BY <2>0, <3>1 DEF WholeLines
  <2> QED
    BY <1>1, <2>1, <2>2, <2>3, <2>4 DEF DaoStep
<1>2. CASE EraseClientFromVector
  <2>1. /\ part' = part \ {m_vClient[mainIter]}
        /\ status' = [status EXCEPT ![m_vClient[mainIter]] = "csNone"]
        /\ UNCHANGED <<dao, pClient>>
    BY <1>2 DEF EraseClientFromVector, Destroy, daoVars
  <2> QED
    BY <2>1 DEF WholeLines
<1>3. CASE \/ Accept \/ AcceptFails \/ PushBackClientToVector \/ CheckClientVector \/ CheckEnd
           \/ CheckNext \/ ShutdownClient \/ UseOfThread \/ MainIteratorStale
           \/ \E c \in Client : PeerGone(c)
  <2>1. UNCHANGED <<part, status, dao, pClient>>
    BY <1>3 DEF Accept, AcceptFails, NewClient, PushBackClientToVector, CheckClientVector,
                CheckEnd, CheckNext, ShutdownClient, UseOfThread, MainIteratorStale,
                BecomesUndefined, PeerGone, clientVars, daoVars
  <2> QED
    BY <2>1 DEF WholeLines
<1> QED
  BY <1>1, <1>2, <1>3 DEF Next, MainStep

LEMMA AlwaysOneReaderInv ==
  ASSUME OneReader
  PROVE  Spec => []OneReaderInv
<1>1. Init => OneReaderInv
  BY InitClientsInv, InitSeenInv DEF OneReaderInv
<1>2. ClientsInv /\ OneReaderInv /\ ClientsInv' /\ [Next]_vars => OneReaderInv'
  <2> SUFFICES ASSUME OneReaderInv, ClientsInv', [Next]_vars
               PROVE  SeenInv' /\ WholeLines'
    BY DEF OneReaderInv
  <2>1. CASE Next
    BY <2>1, DaoSeenInv, OthersSeenInv, NextWholeLines DEF OneReaderInv, Next
  <2>2. CASE UNCHANGED vars
    <3>1. UNCHANGED <<m_vClient, dao, iter, pClient, served, status, part>>
      BY <2>2 DEF vars, vectorVars, clientVars, daoVars
    <3>2. \A d : Seen(d)' = Seen(d)
      BY <3>1 DEF Seen, NextPlace
    <3> QED
      BY <3>1, <3>2 DEF OneReaderInv, SeenInv, WholeLines
  <2> QED
    BY <2>1, <2>2
<1> QED
  BY <1>1, <1>2, AlwaysClientsInv, PTL DEF Spec

(* With one queue reader, the object SendAll is called on is there, and    *)
(* its descriptor is its own.                                              *)
THEOREM LinesGoToTheirClient ==
  ASSUME OneReader
  PROVE  Spec => []SentToItsOwn
<1>1. OneReaderInv => SentToItsOwn
  BY ReceiverIsTaken DEF OneReaderInv, SentToItsOwn
<1> QED
  BY <1>1, AlwaysOneReaderInv, PTL

(* With one queue reader, no client is sent the beginning of one line and  *)
(* then another line.                                                      *)
THEOREM LinesStayWhole ==
  ASSUME OneReader
  PROVE  Spec => []WholeLines
<1>1. OneReaderInv => WholeLines
  BY DEF OneReaderInv
<1> QED
  BY <1>1, AlwaysOneReaderInv, PTL

(* With one queue reader, no client is sent a line twice, wherever it is    *)
(* moved to by the erasures of a walk.                                     *)
THEOREM LinesGoOnce ==
  ASSUME OneReader
  PROVE  Spec => NoLineTwice
<1>1. OneReaderInv => \A d \in Dao : SendAll(d) => Receiver(pClient[d]) \cap served[d] = {}
  <2> SUFFICES ASSUME OneReaderInv, NEW d \in Dao, SendAll(d)
               PROVE  Receiver(pClient[d]) \cap served[d] = {}
    OBVIOUS
  <2>1. dao[d] = "send"
    BY DEF SendAll
  <2> QED
    BY <2>1, ReceiverIsTaken, SeenOf DEF OneReaderInv
<1> QED
  BY <1>1, AlwaysOneReaderInv, PTL DEF NoLineTwice
=============================================================================
