---------------------------- MODULE ResultArchive ----------------------------
(***************************************************************************)
(* What the receiving side promises, without buffers, blocks, directories  *)
(* or programs: datagrams are numbered as they arrive, and every number     *)
(* gets one result, once: lines of that datagram and of no other, from the  *)
(* first record on, and one line more that is not to be relied on.  How     *)
(* many of them it does not promise.  Collector implements it               *)
(* (ImplementsArchive, ArrivalsFinish) while nothing fails.                 *)
(***************************************************************************)
EXTENDS Integers, Sequences, FiniteSets

CONSTANTS
  Datagrams,   \* what may arrive
  Names,       \* numbers for arrivals, from 0
  BatchSize,   \* records in a datagram
  Stack        \* a line made of no record

VARIABLES
  origin,      \* origin[n]: the arrival with number n; 0 if there is none yet
  finished,    \* the numbers that have their result
  outcome      \* outcome[n]: the lines of the result

avars == <<origin, finished, outcome>>

AInit ==
  /\ origin = [n \in Names |-> 0]
  /\ finished = {}
  /\ outcome = [n \in Names |-> << >>]

Arrived == {n \in Names : origin[n] # 0}

Arrive ==
  /\ Cardinality(Arrived) \in Names
  /\ \E d \in Datagrams : origin' = [origin EXCEPT ![Cardinality(Arrived)] = d]
  /\ UNCHANGED <<finished, outcome>>

(* The line after the lines of the first k records of datagram d: the last of  *)
(* them again, or the beginning of record k + 1 over it.                     *)
LastLines(d, k) ==
  LET held == IF k = 0 THEN Stack ELSE <<d, k>>
  IN  {held} \cup (IF k < BatchSize THEN {<<d, k + 1, held[1], held[2]>>} ELSE {})

ResultOf(d, k, last) == [s \in 1..(k + 1) |-> IF s > k THEN last ELSE <<d, s>>]

Finish(n) ==
  /\ n \in Arrived \ finished
  /\ finished' = finished \cup {n}
  /\ \E k \in 0..BatchSize : \E last \in LastLines(origin[n], k) :
       outcome' = [outcome EXCEPT ![n] = ResultOf(origin[n], k, last)]
  /\ UNCHANGED origin

ANext == Arrive \/ \E n \in Names : Finish(n)

ASpec == AInit /\ [][ANext]_avars

(* The promise beyond ASpec: every arrival gets its result. *)
EveryArrivalFinishes == \A n \in Names : origin[n] # 0 ~> n \in finished
=============================================================================
