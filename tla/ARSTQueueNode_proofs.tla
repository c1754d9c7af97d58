------------------------ MODULE ARSTQueueNode_proofs ------------------------
(* Proofs about ARSTQueueNode, for every set of lines, queue size and chunk. *)
EXTENDS ARSTQueueNode, TLAPS, SequenceTheorems

(* What is erased leaves a suffix that is long enough.                    *)
LEMMA ErasedKeepsWindow ==
  ASSUME NEW n \in Nat, NEW e \in 0..n, IsErased(e, n)
  PROVE  n - e = n \/ n - e >= Window
BY QueueAssumption DEF IsErased, Window

(* A key that is not remembered is none of the last Window keys sent.     *)
LEMMA ForgottenIsOld ==
  ASSUME TypeOK, RemembersTheNewest, RemembersEnough,
         NEW key, ~Remembered(key),
         NEW k \in 1..Len(published), k > Len(published) - Window
  PROVE  published[k] # key
<1> DEFINE n == Len(published)
           l == Len(QueueLocal)
<1>1. n \in Nat /\ l \in Nat /\ Window \in Int
  BY QueueAssumption DEF TypeOK, Window
<1>2. k > n - l
  BY <1>1 DEF RemembersEnough
<1>3. k - n + l \in 1..l
  BY <1>1, <1>2
<1>4. QueueLocal[k - n + l] = published[n - l + (k - n + l)]
  BY <1>3 DEF RemembersTheNewest
<1>5. n - l + (k - n + l) = k
  BY <1>1
<1> QED
  BY <1>3, <1>4, <1>5 DEF Remembered

IInv == TypeOK /\ RemembersTheNewest /\ RemembersEnough /\ NoRecentRepeat

LEMMA InitIInv == Init => IInv
BY DEF Init, IInv, TypeOK, RemembersTheNewest, RemembersEnough, NoRecentRepeat

LEMMA PublishKeepsIInv ==
  ASSUME IInv, NEW key \in Key, Publish(key), UNCHANGED running
  PROVE  IInv'
<1> DEFINE n == Len(published)
           l == Len(QueueLocal)
<1> USE DEF IInv
<1>1. /\ n \in Nat /\ l \in Nat /\ Window \in Int
      /\ QueueLocal \in Seq(Key) /\ published \in Seq(Key)
  BY QueueAssumption DEF TypeOK, Window
<1>2. /\ Len(published') = n + 1
      /\ published'[n + 1] = key
      /\ \A k \in 1..n : published'[k] = published[k]
      /\ Len(QueueLocal') = l + 1
      /\ QueueLocal'[l + 1] = key
      /\ \A k \in 1..l : QueueLocal'[k] = QueueLocal[k]
  BY <1>1 DEF Publish
<1>3. TypeOK'
  <2>1. last' \in Key \X BOOLEAN
    BY DEF Publish
  <2>2. QueueLocal' \in Seq(Key) /\ published' \in Seq(Key) /\ running' \in BOOLEAN
    BY <1>1 DEF Publish, TypeOK
  <2> QED
    BY <2>1, <2>2 DEF TypeOK
<1>4. RemembersTheNewest'
  <2>1. l <= n
    BY DEF RemembersTheNewest
  <2>2. ASSUME NEW k \in 1..l + 1
        PROVE  QueueLocal'[k] = published'[(n + 1) - (l + 1) + k]
    <3>1. CASE k = l + 1
      <4>1. (n + 1) - (l + 1) + k = n + 1
        BY <1>1, <3>1
      <4> QED
        BY <1>2, <3>1, <4>1
    <3>2. CASE k \in 1..l
      <4>1. (n + 1) - (l + 1) + k = n - l + k /\ n - l + k \in 1..n
        BY <1>1, <2>1, <3>2
      <4>2. QueueLocal[k] = published[n - l + k]
        BY <3>2 DEF RemembersTheNewest
      <4> QED
        BY <1>2, <3>2, <4>1, <4>2
    <3> QED
      BY <1>1, <3>1, <3>2
  <2> QED
    BY <1>1, <1>2, <2>1, <2>2 DEF RemembersTheNewest
<1>5. RemembersEnough'
  BY <1>1, <1>2 DEF RemembersEnough
<1>6. NoRecentRepeat'
  <2>1. SUFFICES ASSUME NEW a \in 1..n + 1, NEW b \in 1..n + 1,
                        a < b, b - a <= Window
                 PROVE  published'[a] # published'[b]
    BY <1>2 DEF NoRecentRepeat
  <2>2. CASE b = n + 1
    <3>1. a \in 1..n /\ a > n - Window
      BY <1>1, <2>1, <2>2
    <3>2. published[a] # key
      BY <3>1, ForgottenIsOld DEF Publish
    <3> QED
      BY <1>2, <2>2, <3>1, <3>2
  <2>3. CASE b \in 1..n
    <3>1. a \in 1..n
      BY <1>1, <2>1, <2>3
    <3>2. published[a] # published[b]
      BY <2>1, <2>3, <3>1 DEF NoRecentRepeat
    <3> QED
      BY <1>2, <2>3, <3>1, <3>2
  <2> QED
    BY <1>1, <2>2, <2>3
<1> QED
  BY <1>3, <1>4, <1>5, <1>6

LEMMA DropKeepsIInv ==
  ASSUME IInv, NEW key \in Key, Drop(key), UNCHANGED running
  PROVE  IInv'
<1> DEFINE n == Len(published)
           l == Len(QueueLocal)
<1> USE DEF IInv
<1>1. /\ n \in Nat /\ l \in Nat /\ Window \in Int
      /\ QueueLocal \in Seq(Key) /\ published \in Seq(Key)
  BY QueueAssumption DEF TypeOK, Window
<1>2. PICK e \in 0..l : /\ IsErased(e, l)
                        /\ QueueLocal' = SubSeq(QueueLocal, e + 1, l)
  BY DEF Drop
<1>3. published' = published /\ last' = <<key, FALSE>>
  BY DEF Drop
<1>4. /\ QueueLocal' \in Seq(Key)
      /\ Len(QueueLocal') = l - e
      /\ \A k \in 1..l - e : QueueLocal'[k] = QueueLocal[e + k]
  <2>1. e + 1 \in 1..l + 1
    BY <1>1
  <2> QED
    BY <1>1, <1>2, <2>1, SubSeqProperties
<1>5. TypeOK'
  BY <1>1, <1>3, <1>4 DEF TypeOK
<1>6. RemembersTheNewest'
  <2>1. l <= n
    BY DEF RemembersTheNewest
  <2>2. ASSUME NEW k \in 1..l - e
        PROVE  QueueLocal'[k] = published[n - (l - e) + k]
    <3>1. e + k \in 1..l /\ n - l + (e + k) = n - (l - e) + k
      BY <1>1
    <3>2. QueueLocal[e + k] = published[n - l + (e + k)]
      BY <3>1 DEF RemembersTheNewest
    <3> QED
      BY <1>4, <3>1, <3>2
  <2> QED
    BY <1>1, <1>3, <1>4, <2>1, <2>2 DEF RemembersTheNewest
<1>7. RemembersEnough'
  <2>1. l - e = l \/ l - e >= Window
    BY <1>1, <1>2, ErasedKeepsWindow
  <2> QED
    BY <1>1, <1>3, <1>4, <2>1 DEF RemembersEnough
<1>8. NoRecentRepeat'
  BY <1>3 DEF NoRecentRepeat
<1> QED
  BY <1>5, <1>6, <1>7, <1>8

LEMMA NextKeepsIInv == IInv /\ [Next]_vars => IInv'
<1> SUFFICES ASSUME IInv, [Next]_vars
             PROVE  IInv'
  OBVIOUS
<1>1. ASSUME NEW m \in Message, GetMessage(m)
      PROVE  IInv'
  <2>1. hash_string(m) \in Key
    BY DEF Key
  <2> QED
    BY <1>1, <2>1, PublishKeepsIInv, DropKeepsIInv DEF GetMessage
<1>2. CASE ExitOnError
  BY <1>2 DEF ExitOnError, IInv, TypeOK, RemembersTheNewest, RemembersEnough,
              NoRecentRepeat
<1>3. CASE UNCHANGED vars
  BY <1>3 DEF vars, IInv, TypeOK, RemembersTheNewest, RemembersEnough, NoRecentRepeat
<1> QED
  BY <1>1, <1>2, <1>3 DEF Next

LEMMA AlwaysIInv == Spec => []IInv
BY InitIInv, NextKeepsIInv, PTL DEF Spec

(* QueueLocal holds keys only, whatever lines come.                       *)
THEOREM QueueNodeTypeCorrect == Spec => []TypeOK
BY AlwaysIInv, PTL DEF IInv

(* Every key remembered was sent, and nothing newer is forgotten before    *)
(* something older.                                                        *)
THEOREM QueueRemembersTheNewest == Spec => []RemembersTheNewest
BY AlwaysIInv, PTL DEF IInv

(* The same price, volume and time are not sent twice within Window + 1    *)
(* lines: with the 1000 and 250 of the code, within 502 lines.             *)
THEOREM QueueNoRecentRepeat == Spec => []NoRecentRepeat
BY AlwaysIInv, PTL DEF IInv

(* A line that is not sent repeats one that was sent.                     *)
THEOREM QueueDroppedWasSent == Spec => DroppedWasSent
<1> DEFINE Dropped(m) == GetMessage(m) /\ UNCHANGED published
           Sent(m) == \E k \in 1..Len(published) : published[k] = hash_string(m)
<1>1. IInv /\ [Next]_vars => [\A m \in Message : Dropped(m) => Sent(m)]_vars
  <2> SUFFICES ASSUME IInv, NEW m \in Message, Dropped(m)
               PROVE  Sent(m)
    OBVIOUS
  <2>1. Remembered(hash_string(m))
    <3>1. Append(published, hash_string(m)) # published
      <4>1. published \in Seq(Key) /\ hash_string(m) \in Key
        BY DEF IInv, TypeOK, Key
      <4>2. Len(Append(published, hash_string(m))) = Len(published) + 1
        BY <4>1
      <4> QED
        BY <4>1, <4>2
    <3> QED
      BY <3>1 DEF GetMessage, Publish, Drop
  <2>2. PICK k \in 1..Len(QueueLocal) : QueueLocal[k] = hash_string(m)
    BY <2>1 DEF Remembered
  <2>3. Len(published) - Len(QueueLocal) + k \in 1..Len(published)
    <3>1. Len(published) \in Nat /\ Len(QueueLocal) \in Nat
      BY DEF IInv, TypeOK
    <3> QED
      BY <3>1 DEF IInv, RemembersTheNewest
  <2> QED
    BY <2>2, <2>3 DEF IInv, RemembersTheNewest
<1> QED
  BY <1>1, AlwaysIInv, PTL DEF Spec, DroppedWasSent

(* The last keys sent, as many as QueueLocal has, are those it has.       *)
LEMMA LastKeysAreRemembered ==
  ASSUME TypeOK, RemembersTheNewest, NEW key
  PROVE  key \in Dedup!LastKeys(published, Len(QueueLocal)) <=> Remembered(key)
<1> DEFINE n == Len(published)
           l == Len(QueueLocal)
<1>1. n \in Nat /\ l \in Nat /\ l <= n
  BY DEF TypeOK, RemembersTheNewest
<1>2. ASSUME NEW k \in 1..l
      PROVE  n - l + k \in 1..n /\ n - l + k > n - l /\ QueueLocal[k] = published[n - l + k]
  BY <1>1 DEF RemembersTheNewest
<1>3. ASSUME NEW k \in 1..n, k > n - l
      PROVE  k - n + l \in 1..l /\ QueueLocal[k - n + l] = published[k]
  <2>1. k - n + l \in 1..l /\ n - l + (k - n + l) = k
    BY <1>1, <1>3
  <2> QED
    BY <2>1 DEF RemembersTheNewest
<1>4. ASSUME Remembered(key)
      PROVE  key \in Dedup!LastKeys(published, l)
  <2>1. PICK k \in 1..l : QueueLocal[k] = key
    BY <1>4 DEF Remembered
  <2> QED
    BY <1>2, <2>1 DEF Dedup!LastKeys
<1>5. ASSUME key \in Dedup!LastKeys(published, l)
      PROVE  Remembered(key)
  <2>1. PICK k \in 1..n : k > n - l /\ published[k] = key
    BY <1>5 DEF Dedup!LastKeys
  <2> QED
    BY <1>3, <2>1 DEF Remembered
<1> QED
  BY <1>4, <1>5

LEMMA PublishIsSend ==
  ASSUME IInv, NEW key, Publish(key)
  PROVE  Dedup!Send(key)
<1>1. key \notin Dedup!LastKeys(published, Len(QueueLocal))
  BY LastKeysAreRemembered DEF IInv, Publish
<1>2. Len(QueueLocal') = Len(QueueLocal) + 1
  BY DEF IInv, TypeOK, Publish
<1> QED
  BY <1>1, <1>2 DEF Publish, Dedup!Send

LEMMA DropIsRepeat ==
  ASSUME IInv, NEW key, Drop(key)
  PROVE  Dedup!Repeat(key)
<1> DEFINE l == Len(QueueLocal)
<1>1. key \in Dedup!LastKeys(published, l)
  BY LastKeysAreRemembered DEF IInv, Drop
<1>2. PICK e \in 0..l : /\ IsErased(e, l)
                        /\ QueueLocal' = SubSeq(QueueLocal, e + 1, l)
  BY DEF Drop
<1>3. l \in Nat /\ QueueLocal \in Seq(Key) /\ Window \in Int
  BY QueueAssumption DEF IInv, TypeOK, Window
<1>4. Len(QueueLocal') = l - e
  <2>1. e + 1 \in 1..l + 1
    BY <1>3
  <2> QED
    BY <1>2, <1>3, <2>1, SubSeqProperties
<1>5. l - e = l \/ l - e >= Window
  BY <1>2, <1>3, ErasedKeepsWindow
<1>6. Len(QueueLocal') = l \/ Len(QueueLocal') \in Window..l
  BY <1>3, <1>4, <1>5
<1> QED
  BY <1>1, <1>6 DEF Drop, Dedup!Repeat

(* The queue reader implements ARSTDedup: with the last keys sent, as many *)
(* as QueueLocal has, as the only memory, a line is a Send if its key is   *)
(* none of them and a Repeat if it is, and QueueLocal never shrinks below  *)
(* Window.                                                                 *)
THEOREM QueueImplementsDedup == Spec => ImplementsDedup
<1>1. Init => Dedup!Init
  BY DEF Init, Dedup!Init
<1>2. IInv /\ [Next]_vars => [Dedup!Next]_(Dedup!vars)
  <2> SUFFICES ASSUME IInv, [Next]_vars
               PROVE  [Dedup!Next]_(Dedup!vars)
    OBVIOUS
  <2>1. ASSUME NEW m \in Message, GetMessage(m)
        PROVE  Dedup!Next
    <3>1. hash_string(m) \in Key
      BY DEF Key
    <3> QED
      BY <2>1, <3>1, PublishIsSend, DropIsRepeat DEF GetMessage, Dedup!Next
  <2>2. CASE ExitOnError \/ UNCHANGED vars
    BY <2>2 DEF ExitOnError, vars, Dedup!vars
  <2> QED
    BY <2>1, <2>2 DEF Next
<1> QED
  BY <1>1, <1>2, AlwaysIInv, PTL DEF Spec, ImplementsDedup, Dedup!Spec
=============================================================================
