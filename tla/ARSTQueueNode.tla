--------------------------- MODULE ARSTQueueNode ---------------------------
(***************************************************************************)
(* The reader of the quote queue, ARSTQueueDAO::Run: it takes one line     *)
(* after the other, drops the line if its price, volume and time are among *)
(* those of the lines it remembers in QueueLocal, and sends it to the      *)
(* clients otherwise.  QueueLocal is trimmed only when a line is dropped.  *)
(*                                                                         *)
(* One DAO; what sending to the clients does is not part of this module.   *)
(***************************************************************************)
EXTENDS Integers, Sequences

CONSTANTS
  Message,         (* lines: sequences of fields, sequences of characters  *)
  PRICE_POS, VOLUME_POS, EPOCH_POS,  (* places, the first field being 0    *)
  QUEUELOCALSIZE,
  TRIM,            (* the 250 that one erase() removes                     *)
  MaxPublished     (* bound of the model: lines sent                       *)

(* What is kept after a trim: QUEUELOCALSIZE / 4 * 3.                     *)
Threshold == (QUEUELOCALSIZE \div 4) * 3

(* erase(begin(), begin()+250) needs 250 elements in the smallest vector   *)
(* that is trimmed.                                                        *)
ASSUME QueueAssumption ==
  /\ Threshold \in Nat
  /\ TRIM \in Nat \ {0}
  /\ TRIM <= Threshold + 1
  /\ MaxPublished \in Nat

VARIABLES
  QueueLocal,  (* the keys remembered, oldest first                        *)
  published,   (* history: the keys of the lines sent to the clients       *)
  last,        (* history: the key of the last line, and whether it was    *)
               (* sent                                                     *)
  running      (* the process has not called exit(-1)                      *)

vars == <<QueueLocal, published, last, running>>

-----------------------------------------------------------------------------
(* strtok: two commas in a row are one delimiter, so an empty field is not *)
(* there and the fields after it move up.                                  *)
Tokens(m) == SelectSeq(m, LAMBDA field : field # <<>>)

Token(m, pos) == IF pos < Len(Tokens(m)) THEN Tokens(m)[pos + 1] ELSE <<>>

(* The characters of three fields in the order of the line, with nothing   *)
(* between them; the name of the instrument is not among them.             *)
hash_string(m) ==
  Token(m, PRICE_POS) \o Token(m, VOLUME_POS) \o Token(m, EPOCH_POS)

Key == {hash_string(m) : m \in Message}

(* Mutant: find() looks in a copy of QueueLocal that is never trimmed.    *)
RememberedEver(key) == \E k \in 1..Len(published) : published[k] = key

Remembered(key) == \E k \in 1..Len(QueueLocal) : QueueLocal[k] = key

TypeOK ==
  /\ QueueLocal \in Seq(Key)
  /\ published \in Seq(Key)
  /\ last \in {<<>>} \cup (Key \X BOOLEAN)
  /\ running \in BOOLEAN

Init ==
  /\ QueueLocal = <<>>
  /\ published = <<>>
  /\ last = <<>>
  /\ running = TRUE

(* Mutant: the line is remembered but stays in the merge buffer.          *)
PublishLater(key) ==
  /\ ~Remembered(key)
  /\ Len(published) < MaxPublished
  /\ QueueLocal' = Append(QueueLocal, key)
  /\ published' = IF Len(QueueLocal) % 2 = 0 THEN published ELSE Append(published, key)
  /\ last' = <<key, TRUE>>

(* Mutant: hash_string is not cleared after a line.                       *)
PublishUncleared(key) ==
  /\ ~Remembered(key)
  /\ Len(published) < MaxPublished
  /\ QueueLocal' = Append(QueueLocal, IF QueueLocal = <<>> THEN key
                                      ELSE QueueLocal[Len(QueueLocal)] \o key)
  /\ published' = Append(published, key)
  /\ last' = <<key, TRUE>>

(* find() failed: push_back, and the line goes to every client.           *)
Publish(key) ==
  /\ ~Remembered(key)
  /\ Len(published) < MaxPublished
  /\ QueueLocal' = Append(QueueLocal, key)
  /\ published' = Append(published, key)
  /\ last' = <<key, TRUE>>

(* Mutant: one chunk more is erased.                                      *)
ForgetTooMuch(key) ==
  /\ Remembered(key)
  /\ QueueLocal' = IF Len(QueueLocal) <= Threshold THEN QueueLocal
                   ELSE SubSeq(QueueLocal, 2 * TRIM + 1, Len(QueueLocal))
  /\ last' = <<key, FALSE>>
  /\ UNCHANGED published

(* Mutant: the newest keys are erased.                                    *)
ForgetNewest(key) ==
  /\ Remembered(key)
  /\ QueueLocal' = IF Len(QueueLocal) <= Threshold THEN QueueLocal
                   ELSE SubSeq(QueueLocal, 1, Threshold)
  /\ last' = <<key, FALSE>>
  /\ UNCHANGED published

(* The number of keys erased from n: whole chunks, and none once no more   *)
(* than Threshold are left.                                                *)
IsErased(e, n) ==
  /\ e % TRIM = 0
  /\ n - e <= Threshold
  /\ e > 0 => n - e + TRIM > Threshold

(* find() succeeded: the line is dropped and QueueLocal trimmed.          *)
Drop(key) ==
  /\ Remembered(key)
  /\ \E e \in 0..Len(QueueLocal) :
       /\ IsErased(e, Len(QueueLocal))
       /\ QueueLocal' = SubSeq(QueueLocal, e + 1, Len(QueueLocal))
  /\ last' = <<key, FALSE>>
  /\ UNCHANGED published

GetMessage(m) ==
  /\ running
  /\ Publish(hash_string(m)) \/ Drop(hash_string(m))
  /\ UNCHANGED running

(* GetMessage returned an error.                                          *)
ExitOnError ==
  /\ running
  /\ running' = FALSE
  /\ UNCHANGED <<QueueLocal, published, last>>

Next ==
  \/ \E m \in Message : GetMessage(m)
  \/ ExitOnError

Spec == Init /\ [][Next]_vars

-----------------------------------------------------------------------------
(* However many keys QueueLocal has forgotten, it has the last Window.     *)
Window == Threshold - TRIM + 1

Dedup == INSTANCE ARSTDedup WITH remembered <- Len(QueueLocal)

(* The queue reader keeps the promise of ARSTDedup: whether a line is sent *)
(* depends on nothing but the last keys sent, as many as QueueLocal has.   *)
(* So a key it has forgotten is sent again, and no other is.               *)
ImplementsDedup == Dedup!Spec

(* QueueLocal is the newest part of what was sent: every key it remembers  *)
(* was sent, in this order, and what it forgets is the oldest.             *)
RemembersTheNewest ==
  /\ Len(QueueLocal) <= Len(published)
  /\ \A k \in 1..Len(QueueLocal) :
       QueueLocal[k] = published[Len(published) - Len(QueueLocal) + k]

(* Trimming never forgets one of the last Window keys.                    *)
RemembersEnough == Len(QueueLocal) = Len(published) \/ Len(QueueLocal) >= Window

(* Whatever is dropped and trimmed in between, the same price, volume and  *)
(* time are not sent twice within Window + 1 lines sent.                   *)
NoRecentRepeat ==
  \A a, b \in 1..Len(published) :
    a < b /\ b - a <= Window => published[a] # published[b]

(* A line that is not sent carries a key that was sent before.            *)
DroppedWasSent ==
  [][\A m \in Message : GetMessage(m) /\ UNCHANGED published
       => \E k \in 1..Len(published) : published[k] = hash_string(m)]_vars
=============================================================================
