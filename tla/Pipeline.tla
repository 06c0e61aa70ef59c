------------------------------ MODULE Pipeline ------------------------------
(***************************************************************************)
(* The whole system: the trace path of the module, as the channel it        *)
(* implements, the network, and the receiving side.  A branch is the moment *)
(* it was taken; a line <<d, s>> of a result is record s of datagram d.     *)
(***************************************************************************)
EXTENDS Integers, Sequences, FiniteSets

CONSTANTS
  MaxBranches,  \* bound on the branches of the guest
  NDatagrams, BatchSize, MaxChunks, MaxCopies    \* as in Collector

ASSUME PipelineAssumption ==
  /\ MaxBranches \in Nat /\ NDatagrams \in Nat
  /\ BatchSize \in Nat \ {0} /\ MaxChunks \in Nat \ {0} /\ MaxCopies \in Nat \ {0}

VARIABLES
  lane, delivered, missed,                       \* of TraceChannel
  nsent, size, copies, net, rpc, recvline, len, count, dir, content, origin,
  closed, failed, reused, faults, cpc, todo, read, ready, bin, tail, result,  \* of Collector
  clock,      \* branches taken so far
  thread,     \* sendthread: "tests" the flags, has "sent" a lane, or has "ended"
  shipping,   \* the lane it has sent and not yet released, or 0
  batch       \* history: batch[d] are the records datagram d was made from

source == <<lane, delivered, missed, clock>>
sender == <<thread, shipping, batch>>
receiver == <<nsent, size, copies, net, rpc, recvline, len, count, dir, content, origin,
              closed, failed, reused, faults, cpc, todo, read, ready, bin, tail, result>>

(* The trace path where each flag is alone in its word. *)
Module == INSTANCE TraceChannel WITH
  Records <- 1..MaxBranches, Unfinished <- 0, Word <- <<{1}, {2}>>
Receiver == INSTANCE Collector WITH MaxFailures <- 0, MaxRestarts <- 0

vars == <<source, sender, receiver>>

Init ==
  /\ Module!CInit /\ Receiver!Init
  /\ clock = 0
  /\ thread = "tests"
  /\ shipping = 0
  /\ batch = [d \in 1..NDatagrams |-> << >>]
-----------------------------------------------------------------------------
(* Mutation: the flag of a lane is not tested, and its offset has wrapped. *)
BranchUntested ==
  /\ clock < MaxBranches
  /\ clock' = clock + 1
  /\ \E i \in Module!Lanes :
       \/ Module!Record(i) /\ lane'[i] = Append(lane[i], clock')
       \/ /\ Module!IsFull(i)
          /\ lane' = [lane EXCEPT ![i][1] = clock']
          /\ UNCHANGED <<delivered, missed>>
  /\ UNCHANGED <<sender, receiver>>

(* A branch of the guest is recorded with its own time, or missed. *)
Branch ==
  /\ clock < MaxBranches
  /\ clock' = clock + 1
  /\ \/ \E i \in Module!Lanes :
          Module!Record(i) /\ lane'[i] = Append(lane[i], clock')
     \/ Module!Miss
  /\ UNCHANGED <<sender, receiver>>

(* sendthread compresses a full lane and sends it.  The lane is its own until *)
(* it clears the flag: a datagram can have become a file by then.             *)
Ship(i) ==
  /\ thread = "tests" /\ Module!IsFull(i)
  /\ Receiver!Send
  /\ batch' = [batch EXCEPT ![nsent + 1] = lane[i]]
  /\ thread' = "sent" /\ shipping' = i
  /\ UNCHANGED source

(* Mutation: after an error the thread goes on, as if the lane were still to do. *)
ShipFailsRetries(i) ==
  /\ thread = "tests" /\ Module!IsFull(i)
  /\ Receiver!Send
  /\ batch' = [batch EXCEPT ![nsent + 1] = lane[i]]
  /\ UNCHANGED <<source, thread, shipping>>

(* A send that fails, before or after the datagram has left, ends the thread; *)
(* the lane stays full.                                                       *)
ShipFails(i) ==
  /\ thread = "tests" /\ Module!IsFull(i)
  /\ \/ Receiver!Send /\ batch' = [batch EXCEPT ![nsent + 1] = lane[i]]
     \/ UNCHANGED <<batch, receiver>>
  /\ thread' = "ended"
  /\ UNCHANGED <<source, shipping>>

Release ==
  /\ thread = "sent"
  /\ Module!Deliver(shipping)
  /\ thread' = "tests" /\ shipping' = 0
  /\ UNCHANGED <<clock, batch, receiver>>

(* The network and the two programs of the receiver go on by themselves. *)
Receive ==
  /\ \/ \E d \in Receiver!Datagrams : Receiver!Duplicate(d) \/ Receiver!Lose(d)
     \/ Receiver!ServerStep \/ Receiver!ScriptStep
  /\ UNCHANGED <<source, sender>>

Next ==
  \/ Branch
  \/ \E i \in Module!Lanes : Ship(i) \/ ShipFails(i)
  \/ Release
  \/ Receive

Spec == Init /\ [][Next]_vars
-----------------------------------------------------------------------------
Lines(n) == 1..(Len(result[n]) - 1)    \* the last line is a repeated or a torn one
TimeOf(line) == batch[line[1]][line[2]]

(* From the interrupted guest to the text file: the lines of a result are     *)
(* branches in the order they were taken, although lanes, datagrams and files *)
(* overtake one another.                                                      *)
ResultsInOrder ==
  \A n \in Receiver!Names : \A s, t \in Lines(n) :
    s < t => TimeOf(result[n][s]) < TimeOf(result[n][t])

(* Every branch is in one place: missed, waiting in a lane, or in one datagram *)
(* (a lane that has been sent and not released is still full).  Two results    *)
(* share a branch only when the network duplicated the datagram.              *)
Waiting == UNION {{lane[i][s] : s \in DOMAIN lane[i]} : i \in Module!Lanes \ {shipping}}
Sent == UNION {{batch[d][s] : s \in DOMAIN batch[d]} : d \in 1..nsent}

EachBranchOnce ==
  /\ thread # "ended" =>
       /\ Waiting \cap Sent = {}
       /\ missed + Cardinality(Waiting) + Cardinality(Sent) = clock
  /\ \A n, m \in Receiver!Names : n # m /\ origin[n] # origin[m] =>
       \A s \in Lines(n), t \in Lines(m) : TimeOf(result[n][s]) # TimeOf(result[m][t])
=============================================================================
