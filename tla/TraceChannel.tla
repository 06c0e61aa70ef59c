---------------------------- MODULE TraceChannel ----------------------------
(***************************************************************************)
(* What the trace path of the module promises, without handler, offsets or *)
(* socket: two lanes collect records, a full lane is delivered as one      *)
(* batch and is then empty, and a branch that finds no room is counted.    *)
(* The promise of a lane depends on the word that releases it: one that    *)
(* releases the other lane too promises less.  TraceBuffers implements it  *)
(* in every layout of its flags (TraceBuffers!ImplementsChannel).          *)
(***************************************************************************)
EXTENDS Integers, Sequences

CONSTANTS
  BatchSize,   \* records in a full lane
  Records,     \* what can be recorded
  Unfinished,  \* what a place holds where no record has been finished
  Word         \* Word[i]: the lanes that the release of lane i releases

VARIABLES
  lane,        \* lane[i]: the records collected since lane i was last delivered
  delivered,   \* the batches delivered so far
  missed       \* the branches that found no room

cvars == <<lane, delivered, missed>>

Lanes == {1, 2}

IsFull(i) == Len(lane[i]) = BatchSize

CInit ==
  /\ lane = [i \in Lanes |-> << >>]
  /\ delivered = << >>
  /\ missed = 0

(* A branch is recorded at the end of a lane that still has room. *)
Record(i) ==
  /\ ~IsFull(i)
  /\ \E r \in Records : lane' = [lane EXCEPT ![i] = Append(lane[i], r)]
  /\ UNCHANGED <<delivered, missed>>

(* A branch is given up only while the second lane is full.  The first lane *)
(* was full when it was looked at, and may have been delivered since.       *)
Miss ==
  /\ IsFull(2)
  /\ missed' = missed + 1
  /\ UNCHANGED <<lane, delivered>>

(* A lane released by itself is delivered whole, never in part, and starts  *)
(* again empty.                                                             *)
Deliver(i) ==
  /\ Word[i] = {i}
  /\ IsFull(i)
  /\ delivered' = Append(delivered, lane[i])
  /\ lane' = [lane EXCEPT ![i] = << >>]
  /\ UNCHANGED missed

(* A lane released with another is delivered as it comes: what leaves has   *)
(* the size of a batch and no more is said of it, and every full lane the   *)
(* word covers is emptied, delivered or not.                                *)
DeliverShared(i) ==
  /\ Word[i] # {i}
  /\ \E batch \in [1..BatchSize -> Records \cup {Unfinished}] :
       delivered' = Append(delivered, batch)
  /\ lane' = [j \in Lanes |-> IF j \in Word[i] /\ IsFull(j) THEN << >> ELSE lane[j]]
  /\ UNCHANGED missed

CNext ==
  \/ \E i \in Lanes : Record(i) \/ Deliver(i) \/ DeliverShared(i)
  \/ Miss

CSpec == CInit /\ [][CNext]_cvars
=============================================================================
