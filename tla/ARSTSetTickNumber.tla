------------------------- MODULE ARSTSetTickNumber -------------------------
(***************************************************************************)
(* The daily tick number of a service: script/set_sharedmemory.sh makes a  *)
(* 13-digit number from the host and the date, and ARSTSetShareNumber      *)
(* (ARST_SHRMEM) stores it in a shared memory segment, where the service   *)
(* finds the first of the numbers it gives to its ticks that day.          *)
(*                                                                         *)
(* All numbers the script makes are multiples of SHIFT_BIT and are written *)
(* here as that multiple: the day's block of SHIFT_BIT tick numbers.       *)
(***************************************************************************)
EXTENDS Integers, Sequences, FiniteSets

CONSTANTS
  Host,        (* hosts the script runs on                                 *)
  Date,        (* the days, in order: a sequence of <<month, day>>         *)
  MaxRunning   (* bound: scripts that run at the same time                 *)

(* The days are days of one year, each once.                              *)
ASSUME TickAssumption ==
  /\ Date \in Seq((1..12) \X (1..31)) /\ Date # <<>>
  /\ \A d, e \in DOMAIN Date : Date[d] = Date[e] => d = e

VARIABLES
  host,     (* this host                                                   *)
  today,    (* index of the day in Date                                    *)
  running,  (* scripts between their checks and their end                  *)
  memory,   (* the segments that exist, by key                             *)
  given     (* history: the block last stored for each service and market  *)

vars == <<host, today, running, memory, given>>

Service == {"Trade", "Quote"} \X {"BTC", "TSE"}

(* Mutant: two services with one key.                                     *)
SharedKey(sm) == IF sm[2] = "BTC" THEN 11 ELSE 21

SERIALKEY(sm) ==
  CASE sm = <<"Trade", "BTC">> -> 11
    [] sm = <<"Trade", "TSE">> -> 21
    [] sm = <<"Quote", "BTC">> -> 51
    [] sm = <<"Quote", "TSE">> -> 61

(* The numbers of the hosts, in units of SHIFT_BIT = 100000.              *)
BaseOf(h) ==
  CASE h \in {"server-debug", "tm0-hq"} -> 10200000
    [] h = "tm1-hq" -> 10300000
    [] h = "tm2-hq" -> 10400000
    [] h = "tm0-ir" -> 80000000
    [] h = "tm1-ir" -> 80100000
    [] h = "tm2-ir" -> 80200000
    [] h = "tm1-hk" -> 80300000
    [] h = "tm2-hk" -> 80500000
    [] OTHER -> 99900000

(* Mutant: date +"%-m%-d", with no leading zero for the day.              *)
DateCodeUnpadded(date) ==
  IF date[2] < 10 THEN 10 * date[1] + date[2] ELSE 100 * date[1] + date[2]

(* date +"%-m%d": the month, and the day in two digits.                   *)
DateCode(date) == 100 * date[1] + date[2]

NUM(h, date) == BaseOf(h) + DateCode(date)

(* strlen of the number's text is SERIAL_NUM_KEY = 13.                    *)
HasSerialLength(num) == num \in 10000000..99999999

Init ==
  /\ host \in Host
  /\ today = 1
  /\ running = {}
  /\ memory = << >>
  /\ given = << >>

NextDay ==
  /\ today < Len(Date)
  /\ today' = today + 1
  /\ UNCHANGED <<host, running, memory, given>>

(* The script with a service and a market it knows.                       *)
SetSharedMemory(sm) ==
  /\ Cardinality(running) < MaxRunning
  /\ running' = running \cup
       {[service |-> sm, num |-> NUM(host, Date[today]), stage |-> "shmget"]}
  /\ UNCHANGED <<host, today, memory, given>>

(* The constructor of ARSTSharedMemory: a segment that was not there is 0. *)
Shmget(r) ==
  /\ r.stage = "shmget"
  /\ LET key == SERIALKEY(r.service) IN
     memory' = [k \in DOMAIN memory \cup {key} |->
                  IF k \in DOMAIN memory THEN memory[k] ELSE 0]
  /\ running' = (running \ {r}) \cup {[r EXCEPT !.stage = "store"]}
  /\ UNCHANGED <<host, today, given>>

(* shmget or shmat fails and the exception ends the tool; the script says  *)
(* that the number is set all the same.                                    *)
ShmgetFails(r) ==
  /\ r.stage = "shmget"
  /\ running' = running \ {r}
  /\ UNCHANGED <<host, today, memory, given>>

(* main of the tool; a number of another length is refused.               *)
SetTickNumber(r) ==
  /\ r.stage = "store"
  /\ running' = running \ {r}
  /\ IF HasSerialLength(r.num)
     THEN /\ memory' = [memory EXCEPT ![SERIALKEY(r.service)] = r.num]
          /\ given' = [sm \in DOMAIN given \cup {r.service} |->
                         IF sm = r.service THEN r.num ELSE given[sm]]
     ELSE UNCHANGED <<memory, given>>
  /\ UNCHANGED <<host, today>>

Next ==
  \/ NextDay
  \/ \E sm \in Service : SetSharedMemory(sm)
  \/ \E r \in running : Shmget(r) \/ ShmgetFails(r) \/ SetTickNumber(r)

Spec == Init /\ [][Next]_vars

-----------------------------------------------------------------------------
(* Whatever other scripts run at the same time, a service finds under its  *)
(* key the number that was last given to it.                               *)
KeyHoldsItsNumber ==
  \A sm \in DOMAIN given : memory[SERIALKEY(sm)] = given[sm]

(* A block that a service has was made on one of the days so far, and it   *)
(* tells which: on no other day of the year does the script make the same  *)
(* one, neither on this host nor on a host with another number.  Hosts     *)
(* with one number (server-debug and tm0-hq, and all that the script does  *)
(* not know) make the same blocks.                                         *)
BlockOfOneDay ==
  \A sm \in DOMAIN given : \E d \in 1..today :
    /\ given[sm] = NUM(host, Date[d])
    /\ \A h \in Host, e \in DOMAIN Date :
         given[sm] = NUM(h, Date[e]) => BaseOf(h) = BaseOf(host) /\ e = d
=============================================================================
