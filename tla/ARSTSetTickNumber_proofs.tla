---------------------- MODULE ARSTSetTickNumber_proofs ----------------------
(* Proofs about ARSTSetTickNumber, for any hosts, days and scripts.        *)
EXTENDS ARSTSetTickNumber, TLAPS, SequenceTheorems

(* A tool that is to store has made sure that its segment is there, and so *)
(* has every service that was given a number.                              *)
SegmentInv ==
  /\ \A r \in running : r.service \in Service
  /\ \A r \in running : r.stage = "store" => SERIALKEY(r.service) \in DOMAIN memory
  /\ DOMAIN given \subseteq Service
  /\ \A sm \in DOMAIN given : SERIALKEY(sm) \in DOMAIN memory
  /\ KeyHoldsItsNumber

LEMMA KeysDiffer ==
  ASSUME NEW a \in Service, NEW b \in Service, SERIALKEY(a) = SERIALKEY(b)
  PROVE  a = b
<1>1. PICK a1 \in {"Trade", "Quote"}, a2 \in {"BTC", "TSE"} : a = <<a1, a2>>
  BY DEF Service
<1>2. PICK b1 \in {"Trade", "Quote"}, b2 \in {"BTC", "TSE"} : b = <<b1, b2>>
  BY DEF Service
<1> QED
  BY <1>1, <1>2 DEF SERIALKEY

LEMMA InitSegmentInv == Init => SegmentInv
BY DEF Init, SegmentInv, KeyHoldsItsNumber

LEMMA ShmgetKeepsSegmentInv ==
  ASSUME SegmentInv, NEW r \in running, Shmget(r)
  PROVE  SegmentInv'
<1> DEFINE key == SERIALKEY(r.service)
<1>1. /\ key \in DOMAIN memory'
      /\ DOMAIN memory \subseteq DOMAIN memory'
      /\ \A k \in DOMAIN memory : memory'[k] = memory[k]
  BY DEF Shmget
<1>2. [r EXCEPT !.stage = "store"].service = r.service
  OBVIOUS
<1>3. ASSUME NEW q \in running'
      PROVE  /\ q.service \in Service
             /\ q.stage = "store" => SERIALKEY(q.service) \in DOMAIN memory'
  <2>1. CASE q \in running
    BY <1>1, <2>1 DEF SegmentInv
  <2>2. CASE q = [r EXCEPT !.stage = "store"]
    BY <1>1, <1>2, <2>2 DEF SegmentInv
  <2> QED
    BY <2>1, <2>2 DEF Shmget
<1> QED
  BY <1>1, <1>3 DEF Shmget, SegmentInv, KeyHoldsItsNumber

LEMMA SetTickNumberKeepsSegmentInv ==
  ASSUME SegmentInv, NEW r \in running, SetTickNumber(r)
  PROVE  SegmentInv'
<1> DEFINE key == SERIALKEY(r.service)
<1>1. r.service \in Service /\ key \in DOMAIN memory /\ running' \subseteq running
  BY DEF SetTickNumber, SegmentInv
<1>2. CASE ~HasSerialLength(r.num)
  BY <1>1, <1>2 DEF SetTickNumber, SegmentInv, KeyHoldsItsNumber
<1>3. CASE HasSerialLength(r.num)
  <2>1. /\ memory' = [memory EXCEPT ![key] = r.num]
        /\ given' = [sm \in DOMAIN given \cup {r.service} |->
                       IF sm = r.service THEN r.num ELSE given[sm]]
    BY <1>3 DEF SetTickNumber
  <2>2. /\ DOMAIN memory' = DOMAIN memory
        /\ memory'[key] = r.num
        /\ \A k \in DOMAIN memory : k # key => memory'[k] = memory[k]
    BY <1>1, <2>1
  <2>3. /\ DOMAIN given' = {r.service} \cup DOMAIN given
        /\ given'[r.service] = r.num
        /\ \A sm \in DOMAIN given : sm # r.service => given'[sm] = given[sm]
    BY <2>1
  <2>4. ASSUME NEW sm \in DOMAIN given'
        PROVE  SERIALKEY(sm) \in DOMAIN memory' /\ memory'[SERIALKEY(sm)] = given'[sm]
    <3>1. CASE sm = r.service
      BY <1>1, <2>2, <2>3, <3>1
    <3>2. CASE sm # r.service
      <4>1. sm \in DOMAIN given /\ sm \in Service
        BY <2>3, <3>2 DEF SegmentInv
      <4>2. SERIALKEY(sm) # key
        BY <1>1, <3>2, <4>1, KeysDiffer
      <4> QED
        BY <2>2, <2>3, <3>2, <4>1, <4>2 DEF SegmentInv, KeyHoldsItsNumber
    <3> QED
      BY <3>1, <3>2
  <2> QED
    BY <1>1, <2>2, <2>3, <2>4 DEF SegmentInv, KeyHoldsItsNumber
<1> QED
  BY <1>2, <1>3

LEMMA NextKeepsSegmentInv == SegmentInv /\ [Next]_vars => SegmentInv'
<1> SUFFICES ASSUME SegmentInv, [Next]_vars
             PROVE  SegmentInv'
  OBVIOUS
<1>1. CASE NextDay
  BY <1>1 DEF NextDay, SegmentInv, KeyHoldsItsNumber
<1>2. ASSUME NEW sm \in Service, SetSharedMemory(sm)
      PROVE  SegmentInv'
  BY <1>2 DEF SetSharedMemory, SegmentInv, KeyHoldsItsNumber
<1>3. ASSUME NEW r \in running, Shmget(r)
      PROVE  SegmentInv'
  BY <1>3, ShmgetKeepsSegmentInv
<1>4. ASSUME NEW r \in running, ShmgetFails(r)
      PROVE  SegmentInv'
  BY <1>4 DEF ShmgetFails, SegmentInv, KeyHoldsItsNumber
<1>5. ASSUME NEW r \in running, SetTickNumber(r)
      PROVE  SegmentInv'
  BY <1>5, SetTickNumberKeepsSegmentInv
<1>6. CASE UNCHANGED vars
  BY <1>6 DEF vars, SegmentInv, KeyHoldsItsNumber
<1> QED
  BY <1>1, <1>2, <1>3, <1>4, <1>5, <1>6 DEF Next

(* A service finds under its key the number it was last given, however     *)
(* many scripts run at the same time: the keys differ, and a tool stores   *)
(* only where its shmget has left a segment.                               *)
THEOREM ServiceFindsItsNumber == Spec => []KeyHoldsItsNumber
<1>1. SegmentInv => KeyHoldsItsNumber
  BY DEF SegmentInv
<1> QED
  BY <1>1, InitSegmentInv, NextKeepsSegmentInv, PTL DEF Spec

-----------------------------------------------------------------------------
(* What the script makes of a host and a day.                             *)

(* The blocks of two hosts are farther apart than those of two days.      *)
LEMMA BasesAreApart ==
  ASSUME NEW g, NEW h, BaseOf(g) # BaseOf(h)
  PROVE  /\ BaseOf(g) \in Nat /\ BaseOf(h) \in Nat
         /\ BaseOf(g) >= BaseOf(h) + 100000 \/ BaseOf(h) >= BaseOf(g) + 100000
BY DEF BaseOf

LEMMA DateCodesDiffer ==
  ASSUME NEW d \in (1..12) \X (1..31), NEW e \in (1..12) \X (1..31),
         DateCode(d) = DateCode(e)
  PROVE  d = e
<1>1. PICK m \in 1..12, n \in 1..31 : d = <<m, n>>
  OBVIOUS
<1>2. PICK p \in 1..12, q \in 1..31 : e = <<p, q>>
  OBVIOUS
<1>3. 100 * m + n = 100 * p + q
  BY <1>1, <1>2 DEF DateCode
<1>4. m = p /\ n = q
  BY <1>3
<1> QED
  BY <1>1, <1>2, <1>4

LEMMA DateCodeRange ==
  ASSUME NEW d \in (1..12) \X (1..31)
  PROVE  DateCode(d) \in 101..1231
<1>1. PICK m \in 1..12, n \in 1..31 : d = <<m, n>>
  OBVIOUS
<1> QED
  BY <1>1 DEF DateCode

(* A number is that of one host's number and one day of the year.         *)
LEMMA NumbersDiffer ==
  ASSUME NEW g, NEW h, NEW d \in (1..12) \X (1..31), NEW e \in (1..12) \X (1..31),
         NUM(g, d) = NUM(h, e)
  PROVE  BaseOf(g) = BaseOf(h) /\ d = e
<1>1. PICK x \in 101..1231 : x = DateCode(d)
  BY DateCodeRange
<1>2. PICK y \in 101..1231 : y = DateCode(e)
  BY DateCodeRange
<1>3. PICK a \in Nat : a = BaseOf(g)
  BY DEF BaseOf
<1>4. PICK b \in Nat : b = BaseOf(h)
  BY DEF BaseOf
<1>5. a + x = b + y
  BY <1>1, <1>2, <1>3, <1>4 DEF NUM
<1>6. a = b \/ a >= b + 100000 \/ b >= a + 100000
  BY <1>3, <1>4, BasesAreApart
<1>7. a = b /\ x = y
  BY <1>5, <1>6
<1>8. BaseOf(g) = BaseOf(h)
  BY <1>3, <1>4, <1>7
<1>9. DateCode(d) = DateCode(e)
  BY <1>1, <1>2, <1>7
<1>10. d = e
  BY <1>9, DateCodesDiffer
<1> QED
  BY <1>8, <1>10

-----------------------------------------------------------------------------
(* The blocks that are given out.                                         *)

Blocks == {NUM(host, Date[d]) : d \in 1..today}

(* Whatever a script has on its way, or has stored, it made on this host   *)
(* on one of the days so far.                                              *)
BlockInv ==
  /\ today \in DOMAIN Date
  /\ \A r \in running : r.num \in Blocks
  /\ \A sm \in DOMAIN given : given[sm] \in Blocks

LEMMA DaysAreCounted == DOMAIN Date = 1..Len(Date) /\ Len(Date) \in Nat \ {0}
BY TickAssumption, LenProperties, EmptySeq

LEMMA NextKeepsBlockInv == BlockInv /\ [Next]_vars => BlockInv'
<1> SUFFICES ASSUME BlockInv, [Next]_vars
             PROVE  BlockInv'
  OBVIOUS
<1>1. CASE NextDay
  <2>1. /\ today' \in DOMAIN Date /\ 1..today \subseteq 1..today'
        /\ host' = host /\ running' = running /\ given' = given
    BY <1>1, DaysAreCounted DEF NextDay, BlockInv
  <2>2. Blocks \subseteq Blocks'
    BY <2>1 DEF Blocks, NUM, BaseOf
  <2> QED
    BY <2>1, <2>2 DEF BlockInv
<1>2. ASSUME NEW sm \in Service, SetSharedMemory(sm)
      PROVE  BlockInv'
  <2> DEFINE r == [service |-> sm, num |-> NUM(host, Date[today]), stage |-> "shmget"]
  <2>1. /\ running' = running \cup {r}
        /\ host' = host /\ today' = today /\ given' = given
    BY <1>2 DEF SetSharedMemory
  <2>2. Blocks' = Blocks
    BY <2>1 DEF Blocks, NUM, BaseOf
  <2>3. r.num \in Blocks
    BY DaysAreCounted DEF Blocks, BlockInv
  <2> QED
    BY <2>1, <2>2, <2>3 DEF BlockInv
<1>3. ASSUME NEW r \in running, Shmget(r) \/ ShmgetFails(r) \/ SetTickNumber(r)
      PROVE  BlockInv'
  <2>1. host' = host /\ today' = today
    BY <1>3 DEF Shmget, ShmgetFails, SetTickNumber
  <2>2. Blocks' = Blocks
    BY <2>1 DEF Blocks, NUM, BaseOf
  <2>3. \A q \in running' : q.num \in Blocks
    <3>1. running' \subseteq running \cup {[r EXCEPT !.stage = "store"]}
      BY <1>3 DEF Shmget, ShmgetFails, SetTickNumber
    <3>2. [r EXCEPT !.stage = "store"].num = r.num
      OBVIOUS
    <3> QED
      BY <3>1, <3>2 DEF BlockInv
  <2>4. \A sm \in DOMAIN given' : given'[sm] \in Blocks
    <3>1. CASE given' = given
      BY <3>1 DEF BlockInv
    <3>2. CASE given' = [sm \in DOMAIN given \cup {r.service} |->
                           IF sm = r.service THEN r.num ELSE given[sm]]
      BY <3>2 DEF BlockInv
    <3> QED
      BY <1>3, <3>1, <3>2 DEF Shmget, ShmgetFails, SetTickNumber
  <2> QED
    BY <2>1, <2>2, <2>3, <2>4 DEF BlockInv
<1>4. CASE UNCHANGED vars
  BY <1>4 DEF vars, BlockInv, Blocks, NUM, BaseOf
<1> QED
  BY <1>1, <1>2, <1>3, <1>4 DEF Next

(* What the services have was made on this host on one of the days so far, *)
(* and on no other day of the year is it made again, nor on a host with    *)
(* another number.  Hosts with one number share their blocks.              *)
THEOREM DaysHaveTheirBlocks == Spec => []BlockOfOneDay
<1>1. Init => BlockInv
  BY DaysAreCounted DEF Init, BlockInv
<1>2. BlockInv => BlockOfOneDay
  <2> SUFFICES ASSUME BlockInv, NEW sm \in DOMAIN given
               PROVE  \E d \in 1..today :
                        /\ given[sm] = NUM(host, Date[d])
                        /\ \A h \in Host, e \in DOMAIN Date :
                             given[sm] = NUM(h, Date[e]) => BaseOf(h) = BaseOf(host) /\ e = d
    BY DEF BlockOfOneDay
  <2>1. PICK d \in 1..today : given[sm] = NUM(host, Date[d])
    BY DEF BlockInv, Blocks
  <2>2. d \in DOMAIN Date
    BY DaysAreCounted DEF BlockInv
  <2>3. ASSUME NEW h \in Host, NEW e \in DOMAIN Date, given[sm] = NUM(h, Date[e])
        PROVE  BaseOf(h) = BaseOf(host) /\ e = d
    <3>1. Date[d] \in (1..12) \X (1..31) /\ Date[e] \in (1..12) \X (1..31)
      BY <2>2, TickAssumption
    <3>2. NUM(host, Date[d]) = NUM(h, Date[e])
      BY <2>1, <2>3
    <3>3. BaseOf(host) = BaseOf(h) /\ Date[d] = Date[e]
      BY <3>1, <3>2, NumbersDiffer
    <3> QED
      BY <2>2, <3>3, TickAssumption
  <2> QED
    BY <2>1, <2>3
<1> QED
  BY <1>1, <1>2, NextKeepsBlockInv, PTL DEF Spec
=============================================================================
