--------------------------- MODULE PipelineProofs ---------------------------
(***************************************************************************)
(* Theorems about the whole system, for every number of branches and of    *)
(* datagrams, every size of a batch and of a compressed datagram, and any  *)
(* number of copies.  The receiving side is taken from CollectorProofs: a   *)
(* step of Pipeline's receiver is a step there, and keeps its invariants.   *)
(***************************************************************************)
EXTENDS Pipeline, FiniteSetTheorems, TLAPS

(* RP: what CollectorProofs shows of the receiver. *)
RP == INSTANCE CollectorProofs WITH MaxFailures <- 0, MaxRestarts <- 0

LEMMA SystemBounds ==
  /\ NDatagrams \in Nat /\ BatchSize \in Nat \ {0} /\ RP!CollectorAssumption
  /\ Receiver!Datagrams = 1..NDatagrams /\ RP!Datagrams = 1..NDatagrams
  /\ Receiver!Names = RP!Names /\ Receiver!NFiles = RP!NFiles /\ Receiver!Name = RP!Name
  /\ Module!Lanes = {1, 2}
BY PipelineAssumption
   DEF RP!CollectorAssumption, Receiver!Datagrams, RP!Datagrams, Receiver!NFiles, RP!NFiles,
       Receiver!Names, RP!Names, Receiver!Name, RP!Name, Module!Lanes
-----------------------------------------------------------------------------
(***************************************************************************)
(* The two instances of Collector say the same.                            *)
(***************************************************************************)
LEMMA SameInit == Receiver!Init => RP!Init
BY SystemBounds DEF Receiver!Init, RP!Init, Receiver!Block, RP!Block, Receiver!Nothing, RP!Nothing

LEMMA SameSend == Receiver!Send => RP!Send
BY SystemBounds DEF Receiver!Send, RP!Send, RP!server, Receiver!server, RP!files, Receiver!files,
                    RP!script, Receiver!script

LEMMA SameNetwork ==
  (\E d \in Receiver!Datagrams : Receiver!Duplicate(d) \/ Receiver!Lose(d))
    => \E d \in RP!Datagrams : RP!Duplicate(d) \/ RP!Lose(d)
BY SystemBounds
   DEF Receiver!Duplicate, RP!Duplicate, Receiver!Lose, RP!Lose, RP!server, Receiver!server,
       RP!files, Receiver!files, RP!script, Receiver!script

LEMMA SameServer == Receiver!ServerStep => RP!ServerStep
BY SystemBounds
   DEF Receiver!ServerStep, RP!ServerStep, Receiver!Receive, RP!Receive, Receiver!OpenFile,
       RP!OpenFile, Receiver!WriteFile, RP!WriteFile, Receiver!CloseFile, RP!CloseFile,
       Receiver!Written, RP!Written, RP!network, Receiver!network, RP!script, Receiver!script,
       Receiver!Block, RP!Block, Receiver!Taken, RP!Taken

LEMMA SameScript == Receiver!ScriptStep => RP!ScriptStep
<1> USE SystemBounds
    DEF RP!network, Receiver!network, RP!server, Receiver!server, RP!files, Receiver!files
<1>1. Receiver!List => RP!List
  BY DEF RP!List, Receiver!List
<1>2. RP!Complete = Receiver!Complete /\ RP!More = Receiver!More
  BY DEF RP!Complete, Receiver!Complete, RP!More, Receiver!More, RP!IsStream, Receiver!IsStream,
         RP!Source, Receiver!Source, RP!Stream, Receiver!Stream, RP!Block, Receiver!Block
<1>3. Receiver!ReadFile => RP!ReadFile
  BY <1>2 DEF RP!ReadFile, Receiver!ReadFile
<1>4. Receiver!Inflate => RP!Inflate
  BY <1>2 DEF RP!Inflate, Receiver!Inflate, RP!Source, Receiver!Source, RP!Block, Receiver!Block,
              RP!Records, Receiver!Records, RP!Record, Receiver!Record, RP!Noise, Receiver!Noise,
              RP!Nothing, Receiver!Nothing
<1>5. Receiver!ChangeFormat => RP!ChangeFormat
  BY DEF RP!ChangeFormat, Receiver!ChangeFormat, RP!Lines, Receiver!Lines, RP!Stack,
         Receiver!Stack, RP!Nothing, Receiver!Nothing, RP!Torn, Receiver!Torn, RP!Last,
         Receiver!Last
<1>6. Receiver!RemoveFile => RP!RemoveFile
  BY DEF RP!RemoveFile, Receiver!RemoveFile
<1> QED
  BY <1>1, <1>3, <1>4, <1>5, <1>6 DEF RP!ScriptStep, Receiver!ScriptStep
-----------------------------------------------------------------------------
(***************************************************************************)
(* Nothing fails and nothing is restarted, so every line of a result is the *)
(* record at that place of the datagram its file was received for.          *)
(***************************************************************************)
ReceiverInv ==
  /\ RP!TypeInv /\ RP!NumberInv /\ RP!FilesInv
  /\ failed = {} /\ reused = {} /\ faults.restarts = 0

LEMMA ReceiverInit == Init => ReceiverInv
BY SameInit, SystemBounds, RP!TypeInit, RP!NumberInit, RP!FilesInit
   DEF Init, ReceiverInv, Receiver!Init

LEMMA ReceiverSend == ASSUME ReceiverInv, Receiver!Send PROVE ReceiverInv'
<1>1. RP!Send
  BY SameSend
<1>2. RP!TypeInv' /\ RP!NumberInv' /\ RP!FilesInv'
  BY <1>1, SystemBounds, RP!TypeNetwork, RP!NumberNetwork, RP!FilesNetwork DEF ReceiverInv
<1> QED  BY <1>1, <1>2 DEF ReceiverInv, RP!Send, RP!files

ReceiverStep ==
  \/ \E d \in Receiver!Datagrams : Receiver!Duplicate(d) \/ Receiver!Lose(d)
  \/ Receiver!ServerStep \/ Receiver!ScriptStep

LEMMA ReceiverKeeps == ASSUME ReceiverInv, ReceiverStep PROVE ReceiverInv' /\ nsent' = nsent
<1>1. CASE \E d \in Receiver!Datagrams : Receiver!Duplicate(d) \/ Receiver!Lose(d)
  <2>1. \E d \in RP!Datagrams : RP!Duplicate(d) \/ RP!Lose(d)
    BY <1>1, SameNetwork
  <2>2. RP!TypeInv' /\ RP!NumberInv' /\ RP!FilesInv'
    BY <2>1, SystemBounds, RP!TypeNetwork, RP!NumberNetwork, RP!FilesNetwork DEF ReceiverInv
  <2> QED  BY <2>1, <2>2 DEF ReceiverInv, RP!Duplicate, RP!Lose, RP!files
<1>2. CASE Receiver!ServerStep
  <2>1. RP!ServerStep
    BY <1>2, SameServer
  <2>2. RP!TypeInv'
    BY <2>1, SystemBounds, RP!TypeServer DEF ReceiverInv
  <2>3. ASSUME NEW d \in RP!Datagrams, RP!Receive(d)
        PROVE  /\ RP!NumberInv' /\ RP!FilesInv' /\ nsent' = nsent
               /\ failed' = {} /\ reused' = {} /\ faults' = faults
    <3>1. RP!NumberInv' /\ RP!FilesInv'
      BY <2>3, SystemBounds, RP!NumberReceive, RP!FilesReceive DEF ReceiverInv
    <3>2. RP!Taken = {}
      BY DEF ReceiverInv, RP!Taken
    <3> QED  BY <2>3, <3>1, <3>2 DEF ReceiverInv, RP!Receive
  <2>4. ASSUME RP!OpenFile \/ RP!WriteFile \/ RP!CloseFile
        PROVE  /\ RP!NumberInv' /\ RP!FilesInv' /\ nsent' = nsent
               /\ failed' = {} /\ reused' = {} /\ faults' = faults
    <3>1. RP!NumberInv' /\ RP!FilesInv'
      BY <2>4, SystemBounds, RP!NumberServer, RP!FilesServer DEF ReceiverInv
    <3> QED  BY <2>4, <3>1 DEF ReceiverInv, RP!OpenFile, RP!WriteFile, RP!CloseFile, RP!network
  <2> QED  BY <2>1, <2>2, <2>3, <2>4 DEF ReceiverInv, RP!ServerStep
<1>3. CASE Receiver!ScriptStep
  <2>1. RP!ScriptStep
    BY <1>3, SameScript
  <2>2. RP!TypeInv' /\ RP!NumberInv' /\ RP!FilesInv'
    BY <2>1, SystemBounds, RP!TypeScript, RP!NumberScript, RP!FilesScript DEF ReceiverInv
  <2>3. UNCHANGED <<nsent, failed, reused, faults>>
    BY <2>1 DEF RP!ScriptStep, RP!List, RP!ReadFile, RP!Inflate, RP!ChangeFormat, RP!RemoveFile,
                RP!files, RP!network
  <2> QED  BY <2>2, <2>3 DEF ReceiverInv
<1> QED  BY <1>1, <1>2, <1>3 DEF ReceiverStep

LEMMA ReceiverStays == ASSUME ReceiverInv, UNCHANGED receiver PROVE ReceiverInv'
<1>1. UNCHANGED <<RP!network, RP!server, RP!files, faults, RP!script>>
  BY DEF receiver, RP!network, RP!server, RP!files, RP!script
<1>2. RP!TypeInv'
  BY DEF receiver, ReceiverInv, RP!TypeInv, RP!NetTypes, RP!ServerTypes, RP!FileTypes,
         RP!ScriptTypes
<1>3. RP!NumberInv'
  BY <1>1 DEF RP!network, RP!server, RP!files, RP!script, ReceiverInv, RP!NumberInv, RP!Touched,
              RP!Active
<1>4. RP!FilesInv'
  <2>1. \A n, e : RP!FileInv(n, e)' <=> RP!FileInv(n, e)
    BY <1>1 DEF RP!network, RP!server, RP!files, RP!script, RP!FileInv, RP!BinOf, RP!ResultLines,
                RP!Archive!LastLines, RP!Active, RP!Begins,
                RP!BufferBegins, RP!Extent, RP!Name
  <2>2. \A e : RP!BufferBegins(e)' <=> RP!BufferBegins(e)
    BY <1>1 DEF RP!network, RP!server, RP!BufferBegins, RP!Extent
  <2> QED  BY <1>1, <2>1, <2>2 DEF ReceiverInv, RP!FilesInv, RP!network, RP!files
<1> QED  BY <1>1, <1>2, <1>3, <1>4 DEF ReceiverInv, RP!files

(* Line s of the result for file n is record s of datagram origin[n]. *)
LEMMA LineOf ==
  ASSUME ReceiverInv, NEW n \in Receiver!Names, NEW s \in Lines(n)
  PROVE  /\ origin[n] \in 1..nsent /\ origin[n] \in 1..NDatagrams /\ s \in 1..BatchSize
         /\ result[n][s] = <<origin[n], s>>
<1>1. n \in RP!Names /\ result[n] \in Seq(RP!Line) /\ s \in 1..Len(result[n])
  BY SystemBounds DEF ReceiverInv, RP!TypeInv, RP!ScriptTypes, Lines
<1>2. PICK d : RP!FileInv(n, d)
  BY <1>1 DEF ReceiverInv, RP!FilesInv
<1>3. d = origin[n] /\ result[n][s] = <<d, s>>
  BY <1>2 DEF ReceiverInv, RP!FileInv, RP!ResultLines, RP!Record, Lines
<1>4. s \in 0..BatchSize
  BY <1>1, <1>3 DEF RP!Line
<1>5. origin[n] # 0
  <2>1. result[n] # << >>
    BY <1>1
  <2> QED  BY <1>1, <2>1 DEF ReceiverInv, RP!NumberInv, RP!Touched
<1>6. origin[n] \in 0..NDatagrams /\ origin[n] <= nsent /\ nsent \in Nat
  BY <1>1 DEF ReceiverInv, RP!TypeInv, RP!NetTypes, RP!FileTypes, RP!NumberInv
<1> QED  BY <1>1, <1>3, <1>4, <1>5, <1>6, SystemBounds
-----------------------------------------------------------------------------
(***************************************************************************)
(* The sender.  The branches of a lane or of a batch, which both are        *)
(* sequences of the moments they were taken.                               *)
(***************************************************************************)
Times(q) == {q[s] : s \in DOMAIN q}
Rising(q) == \A s, t \in DOMAIN q : s < t => q[s] < q[t]

(* Lanes l hold different branches, in the order they were taken, up to c. *)
LanesAre(l, c) ==
  /\ c \in Nat
  /\ l \in [{1, 2} -> Seq(Nat)]
  /\ \A i \in {1, 2} : Rising(l[i]) /\ Len(l[i]) <= BatchSize /\ Times(l[i]) \subseteq 1..c
  /\ Times(l[1]) \cap Times(l[2]) = {}

(* So do the batches: one for each of the n datagrams sent, as long as a lane. *)
BatchesAre(b, n, c) ==
  /\ b \in [1..NDatagrams -> Seq(Nat)]
  /\ \A d \in 1..NDatagrams :
       /\ Rising(b[d]) /\ Times(b[d]) \subseteq 1..c
       /\ Len(b[d]) = IF d <= n THEN BatchSize ELSE 0
  /\ \A d, e \in 1..NDatagrams : d # e => Times(b[d]) \cap Times(b[e]) = {}

(* No lane but the one that is being sent holds what was sent. *)
Apart(l, i, b) ==
  \A j \in {1, 2} \ {i}, d \in 1..NDatagrams : Times(l[j]) \cap Times(b[d]) = {}

LaneInv == LanesAre(lane, clock)
BatchInv == BatchesAre(batch, nsent, clock)

(* The lane that has been sent is the last batch; no other lane holds what was  *)
(* sent, as long as the thread runs.                                          *)
ThreadInv ==
  /\ missed \in Nat
  /\ thread \in {"tests", "sent", "ended"}
  /\ thread = "sent" => shipping \in {1, 2} /\ nsent >= 1 /\ lane[shipping] = batch[nsent]
  /\ thread # "sent" => shipping = 0
  /\ thread # "ended" => Apart(lane, shipping, batch)

CountInv ==
  thread # "ended" => missed + Cardinality(Waiting) + Cardinality(Sent) = clock

SenderInv == LaneInv /\ BatchInv /\ ThreadInv /\ CountInv

LEMMA InNextState ==
  /\ LaneInv' <=> LanesAre(lane', clock')
  /\ BatchInv' <=> BatchesAre(batch', nsent', clock')
  /\ Apart(lane, shipping, batch)' <=> Apart(lane', shipping', batch')
<1>1. LaneInv' <=> LanesAre(lane', clock')
  BY DEF LaneInv, LanesAre, Times, Rising
<1>2. BatchInv' <=> BatchesAre(batch', nsent', clock')
  BY DEF BatchInv, BatchesAre, Times, Rising
<1>3. Apart(lane, shipping, batch)' <=> Apart(lane', shipping', batch')
  BY DEF Apart, Times
<1> QED  BY <1>1, <1>2, <1>3

PipelineInv == ReceiverInv /\ SenderInv

LEMMA NoTimes == Times(<< >>) = {} /\ Rising(<< >>)
BY DEF Times, Rising

(* A branch taken later than those of q, put at its end. *)
LEMMA TimesAppend ==
  ASSUME NEW q \in Seq(Nat), NEW t \in Nat, Times(q) \subseteq 1..t
  PROVE  /\ Append(q, t + 1) \in Seq(Nat)
         /\ Len(Append(q, t + 1)) = Len(q) + 1
         /\ Times(Append(q, t + 1)) = Times(q) \cup {t + 1}
         /\ Rising(q) => Rising(Append(q, t + 1))
<1> DEFINE r == Append(q, t + 1)
<1>1. /\ r \in Seq(Nat) /\ Len(r) = Len(q) + 1 /\ Len(q) \in Nat
      /\ DOMAIN q = 1..Len(q) /\ DOMAIN r = 1..(Len(q) + 1)
      /\ r[Len(q) + 1] = t + 1
      /\ \A s \in 1..Len(q) : r[s] = q[s]
  OBVIOUS
<1> HIDE DEF r
<1>2. \A s \in DOMAIN q : q[s] \in 1..t
  BY DEF Times
<1>3. Times(r) = Times(q) \cup {t + 1}
  <2>1. ASSUME NEW s \in DOMAIN r PROVE r[s] \in Times(q) \cup {t + 1}
    BY <1>1 DEF Times
  <2>2. ASSUME NEW s \in DOMAIN q PROVE q[s] \in Times(r)
    <3>1. s \in DOMAIN r /\ r[s] = q[s]
      BY <1>1
    <3> QED  BY <3>1 DEF Times
  <2>3. t + 1 \in Times(r)
    <3>1. Len(q) + 1 \in DOMAIN r
      BY <1>1
    <3> QED  BY <1>1, <3>1 DEF Times
  <2> QED  BY <2>1, <2>2, <2>3 DEF Times
<1>4. ASSUME Rising(q), NEW s \in DOMAIN r, NEW u \in DOMAIN r, s < u PROVE r[s] < r[u]
  <2>1. s \in DOMAIN q /\ r[s] = q[s]
    BY <1>1, <1>4
  <2>2. CASE u = Len(q) + 1
    BY <1>1, <1>2, <2>1, <2>2
  <2>3. CASE u # Len(q) + 1
    <3>1. u \in DOMAIN q /\ r[u] = q[u]
      BY <1>1, <2>3
    <3> QED  BY <1>4, <2>1, <3>1 DEF Rising
  <2> QED  BY <2>2, <2>3
<1>5. Rising(q) => Rising(r)
  BY <1>4 DEF Rising
<1> QED  BY <1>1, <1>3, <1>5 DEF r

LEMMA WaitingIs ==
  /\ Waiting = UNION {Times(lane[i]) : i \in {1, 2} \ {shipping}}
  /\ Sent = UNION {Times(batch[d]) : d \in 1..nsent}
BY DEF Waiting, Sent, Times, Module!Lanes

LEMMA SentBound == ASSUME ReceiverInv PROVE nsent \in Nat /\ nsent <= NDatagrams
BY SystemBounds DEF ReceiverInv, RP!TypeInv, RP!NetTypes

(* What waits and what was sent are branches of the past, finitely many. *)
LEMMA PastBranches ==
  ASSUME PipelineInv
  PROVE  /\ Waiting \subseteq 1..clock /\ Sent \subseteq 1..clock
         /\ IsFiniteSet(Waiting) /\ IsFiniteSet(Sent)
         /\ Cardinality(Waiting) \in Nat /\ Cardinality(Sent) \in Nat
<1>1. Waiting \subseteq 1..clock
  BY WaitingIs DEF PipelineInv, SenderInv, LaneInv, LanesAre
<1>2. Sent \subseteq 1..clock
  <2>1. \A d \in 1..nsent : d \in 1..NDatagrams
    BY SentBound, SystemBounds DEF PipelineInv
  <2> QED  BY <2>1, WaitingIs DEF PipelineInv, SenderInv, BatchInv, BatchesAre
<1>3. IsFiniteSet(1..clock)
  BY FS_Interval DEF PipelineInv, SenderInv, LaneInv, LanesAre
<1>4. IsFiniteSet(Waiting) /\ IsFiniteSet(Sent)
  BY <1>1, <1>2, <1>3, FS_Subset
<1> QED  BY <1>1, <1>2, <1>4, FS_CardinalityType

(* While the thread runs, nothing that was sent still waits. *)
LEMMA SentApart ==
  ASSUME PipelineInv, thread # "ended"
  PROVE  Waiting \cap Sent = {}
<1>1. \A d \in 1..nsent : d \in 1..NDatagrams
  BY SentBound, SystemBounds DEF PipelineInv
<1> QED  BY <1>1, WaitingIs DEF PipelineInv, SenderInv, ThreadInv, Apart

(* Finite sets that have nothing in common. *)
LEMMA Disjoint ==
  ASSUME NEW A, NEW B, IsFiniteSet(A), IsFiniteSet(B), A \cap B = {}
  PROVE  /\ IsFiniteSet(A \cup B)
         /\ Cardinality(A \cup B) = Cardinality(A) + Cardinality(B)
<1>1. /\ IsFiniteSet(A \cup B)
      /\ Cardinality(A \cup B) = Cardinality(A) + Cardinality(B) - Cardinality(A \cap B)
  BY FS_Union
<1>2. Cardinality(A \cap B) = 0
  BY FS_EmptySet
<1>3. Cardinality(A) \in Nat /\ Cardinality(B) \in Nat
  BY FS_CardinalityType
<1> QED  BY <1>1, <1>2, <1>3
-----------------------------------------------------------------------------
LEMMA SenderInit == ASSUME Init PROVE SenderInv
<1>1. /\ lane = [i \in {1, 2} |-> << >>] /\ missed = 0 /\ clock = 0 /\ nsent = 0
      /\ thread = "tests" /\ shipping = 0 /\ batch = [d \in 1..NDatagrams |-> << >>]
  BY SystemBounds DEF Init, Module!CInit, Receiver!Init
<1>2. \A i \in {1, 2} : lane[i] = << >> /\ Times(lane[i]) = {} /\ Rising(lane[i])
  BY <1>1, NoTimes
<1>3. \A d \in 1..NDatagrams : batch[d] = << >> /\ Times(batch[d]) = {} /\ Rising(batch[d])
  BY <1>1, NoTimes
<1>4. LaneInv
  BY <1>1, <1>2, SystemBounds DEF LaneInv, LanesAre
<1>5. BatchInv
  <2>1. Len(<< >>) = 0 /\ << >> \in Seq(Nat)
    OBVIOUS
  <2> QED  BY <1>1, <1>3, <2>1 DEF BatchInv, BatchesAre
<1>6. ThreadInv
  BY <1>1, <1>2 DEF ThreadInv, Apart
<1>7. CountInv
  <2>1. Waiting = {} /\ Sent = {}
    BY <1>1, <1>2, WaitingIs
  <2> QED  BY <1>1, <2>1, FS_EmptySet DEF CountInv
<1> QED  BY <1>4, <1>5, <1>6, <1>7 DEF SenderInv

(* The lane that has been sent is full. *)
LEMMA ShippingFull ==
  ASSUME PipelineInv, thread = "sent"
  PROVE  /\ shipping \in {1, 2} /\ Len(lane[shipping]) = BatchSize
         /\ nsent \in 1..NDatagrams /\ lane[shipping] = batch[nsent]
<1>1. /\ shipping \in {1, 2} /\ nsent >= 1 /\ lane[shipping] = batch[nsent]
      /\ nsent \in Nat /\ nsent <= NDatagrams
  BY SentBound DEF PipelineInv, SenderInv, ThreadInv, Apart
<1>2. nsent \in 1..NDatagrams
  BY <1>1, SystemBounds
<1>3. Len(batch[nsent]) = BatchSize
  BY <1>1, <1>2 DEF PipelineInv, SenderInv, BatchInv, BatchesAre
<1> QED  BY <1>1, <1>2, <1>3

LEMMA SenderRecord ==
  ASSUME PipelineInv, NEW i \in {1, 2}, Module!Record(i), clock' = clock + 1,
         lane'[i] = Append(lane[i], clock'), UNCHANGED <<sender, receiver>>
  PROVE  SenderInv'
<1>1. /\ clock \in Nat /\ lane \in [{1, 2} -> Seq(Nat)]
      /\ \A j \in {1, 2} : /\ Rising(lane[j]) /\ Len(lane[j]) <= BatchSize
                           /\ Times(lane[j]) \subseteq 1..clock
      /\ Times(lane[1]) \cap Times(lane[2]) = {}
  BY DEF PipelineInv, SenderInv, LaneInv, LanesAre
<1>2. /\ lane' = [lane EXCEPT ![i] = Append(lane[i], clock + 1)]
      /\ Len(lane[i]) # BatchSize /\ missed' = missed
  <2>1. PICK r : lane' = [lane EXCEPT ![i] = Append(lane[i], r)]
    BY DEF Module!Record
  <2>2. lane'[i] = Append(lane[i], r)
    BY <1>1, <2>1
  <2> QED  BY <2>1, <2>2 DEF Module!Record, Module!IsFull
<1>3. UNCHANGED <<thread, shipping, batch, nsent>>
  BY DEF sender, receiver
<1>4. /\ lane'[i] \in Seq(Nat) /\ Len(lane'[i]) = Len(lane[i]) + 1 /\ Rising(lane'[i])
      /\ Times(lane'[i]) = Times(lane[i]) \cup {clock + 1}
  <2>1. lane'[i] = Append(lane[i], clock + 1)
    OBVIOUS
  <2>2. lane[i] \in Seq(Nat) /\ Times(lane[i]) \subseteq 1..clock /\ Rising(lane[i])
    BY <1>1
  <2> QED  BY <1>1, <2>1, <2>2, TimesAppend, Zenon
<1>5. \A j \in {1, 2} \ {i} : lane'[j] = lane[j]
  BY <1>1, <1>2
<1>6. LaneInv'
  <2>1. lane' \in [{1, 2} -> Seq(Nat)]
    BY <1>1, <1>2, <1>4
  <2>2. Len(lane'[i]) <= BatchSize
    BY <1>1, <1>2, <1>4, SystemBounds
  <2>3. \A j \in {1, 2} : /\ Rising(lane'[j]) /\ Len(lane'[j]) <= BatchSize
                          /\ Times(lane'[j]) \subseteq 1..(clock + 1)
    <3>1. 1..clock \cup {clock + 1} \subseteq 1..(clock + 1)
      BY <1>1
    <3>2. Times(lane'[i]) \subseteq 1..(clock + 1)
      BY <1>1, <1>4, <3>1, Zenon
    <3>3. ASSUME NEW j \in {1, 2} \ {i}
          PROVE  /\ Rising(lane'[j]) /\ Len(lane'[j]) <= BatchSize
                 /\ Times(lane'[j]) \subseteq 1..(clock + 1)
      BY <1>1, <1>5, <3>1, Zenon
    <3> QED  BY <1>4, <2>2, <3>2, <3>3, Zenon
  <2>4. Times(lane'[1]) \cap Times(lane'[2]) = {}
    <3>1. clock + 1 \notin 1..clock
      BY <1>1
    <3>2. clock + 1 \notin Times(lane[1]) /\ clock + 1 \notin Times(lane[2])
      BY <1>1, <3>1, Zenon
    <3>3. Times(lane'[1]) \cap Times(lane'[2]) \subseteq
            (Times(lane[1]) \cap Times(lane[2])) \cup
            ({clock + 1} \cap (Times(lane[1]) \cup Times(lane[2])))
      <4>1. CASE i = 1
        <5>1. lane'[2] = lane[2]
          BY <1>5, <4>1
        <5>2. Times(lane'[1]) = Times(lane[1]) \cup {clock + 1}
          BY <1>4, <4>1, Zenon
        <5> QED  BY <5>1, <5>2, Zenon
      <4>2. CASE i = 2
        <5>1. lane'[1] = lane[1]
          BY <1>5, <4>2
        <5>2. Times(lane'[2]) = Times(lane[2]) \cup {clock + 1}
          BY <1>4, <4>2, Zenon
        <5> QED  BY <5>1, <5>2, Zenon
      <4> QED  BY <4>1, <4>2
    <3> QED  BY <1>1, <3>2, <3>3, Zenon
  <2>5. LanesAre(lane', clock')
    BY <1>1, <2>1, <2>3, <2>4 DEF LanesAre
  <2> QED  BY <2>5, InNextState
<1>7. BatchInv'
  <2>1. 1..clock \subseteq 1..clock'
    BY <1>1
  <2>2. BatchesAre(batch, nsent, clock')
    BY <2>1 DEF PipelineInv, SenderInv, BatchInv, BatchesAre
  <2> QED  BY <1>3, <2>2, InNextState
<1>8. thread # "ended" => i # shipping
  <2>1. thread = "sent" => i # shipping
    BY <1>2, ShippingFull
  <2> QED  BY <2>1 DEF PipelineInv, SenderInv, ThreadInv, Apart
<1>9. ThreadInv'
  <2>1. thread = "sent" => lane'[shipping] = lane[shipping]
    BY <1>5, <1>8, ShippingFull
  <2>2. ASSUME thread # "ended", NEW j \in {1, 2} \ {shipping}, NEW d \in 1..NDatagrams
        PROVE  Times(lane'[j]) \cap Times(batch[d]) = {}
    <3>1. Times(lane[j]) \cap Times(batch[d]) = {} /\ Times(batch[d]) \subseteq 1..clock
      BY <2>2 DEF PipelineInv, SenderInv, ThreadInv, Apart, BatchInv, BatchesAre
    <3>2. clock + 1 \notin 1..clock
      BY <1>1
    <3> QED  BY <1>4, <1>5, <3>1, <3>2
  <2>3. thread # "ended" => Apart(lane', shipping', batch')
    BY <1>3, <2>2 DEF Apart
  <2> QED  BY <1>2, <1>3, <2>1, <2>3, InNextState DEF PipelineInv, SenderInv, ThreadInv
<1>10. CountInv'
  <2>1. SUFFICES ASSUME thread # "ended"
                 PROVE  missed' + Cardinality(Waiting') + Cardinality(Sent') = clock'
    BY <1>3 DEF CountInv
  <2>2. Sent' = Sent
    BY <1>3 DEF Sent
  <2>3. Waiting' = Waiting \cup {clock + 1}
    <3>1. Waiting' = UNION {Times(lane'[j]) : j \in {1, 2} \ {shipping}}
      BY <1>3 DEF Waiting, Times, Module!Lanes
    <3>2. ASSUME NEW t \in Waiting' PROVE t \in Waiting \cup {clock + 1}
      <4>1. PICK j \in {1, 2} \ {shipping} : t \in Times(lane'[j])
        BY <3>1, <3>2
      <4>2. CASE j = i
        <5>1. t \in Times(lane[i]) \cup {clock + 1}
          BY <1>4, <4>1, <4>2, Zenon
        <5> QED  BY <1>8, <2>1, <5>1, WaitingIs, Zenon
      <4>3. CASE j # i
        <5>1. t \in Times(lane[j])
          BY <1>5, <4>1, <4>3, Zenon
        <5> QED  BY <5>1, WaitingIs, Zenon
      <4> QED  BY <4>2, <4>3
    <3>3. ASSUME NEW t \in Waiting PROVE t \in Waiting'
      <4>1. PICK j \in {1, 2} \ {shipping} : t \in Times(lane[j])
        BY <3>3, WaitingIs
      <4>2. t \in Times(lane'[j])
        <5>1. CASE j = i
          BY <1>4, <4>1, <5>1, Zenon
        <5>2. CASE j # i
          BY <1>5, <4>1, <5>2, Zenon
        <5> QED  BY <5>1, <5>2
      <4> QED  BY <3>1, <4>2, Zenon
    <3>4. clock + 1 \in Waiting'
      <4>1. clock + 1 \in Times(lane'[i]) /\ i \in {1, 2} \ {shipping}
        BY <1>4, <1>8, <2>1, Zenon
      <4> QED  BY <3>1, <4>1, Zenon
    <3> QED  BY <3>2, <3>3, <3>4, Zenon
  <2>4. /\ IsFiniteSet({clock + 1}) /\ Cardinality({clock + 1}) = 1
        /\ Waiting \cap {clock + 1} = {}
    <3>1. clock + 1 \notin 1..clock
      BY <1>1
    <3>2. clock + 1 \notin Waiting
      BY <3>1, PastBranches, Zenon
    <3> QED  BY <3>2, FS_Singleton, Zenon
  <2>5. Cardinality(Waiting') = Cardinality(Waiting) + 1
    BY <2>3, <2>4, PastBranches, Disjoint
  <2>6. missed + Cardinality(Waiting) + Cardinality(Sent) = clock
    BY <2>1 DEF PipelineInv, SenderInv, CountInv
  <2>7. /\ missed \in Nat /\ Cardinality(Waiting) \in Nat /\ Cardinality(Sent) \in Nat
        /\ Cardinality(Sent') = Cardinality(Sent)
    BY <2>2, PastBranches DEF PipelineInv, SenderInv, ThreadInv
  <2> QED  BY <1>1, <1>2, <2>5, <2>6, <2>7
<1> QED  BY <1>6, <1>7, <1>9, <1>10 DEF SenderInv

LEMMA SenderMiss ==
  ASSUME PipelineInv, Module!Miss, clock' = clock + 1, UNCHANGED <<sender, receiver>>
  PROVE  SenderInv'
<1>1. UNCHANGED <<lane, thread, shipping, batch, nsent>> /\ missed' = missed + 1
  BY DEF Module!Miss, sender, receiver
<1>2. clock \in Nat /\ missed \in Nat /\ 1..clock \subseteq 1..clock'
  BY DEF PipelineInv, SenderInv, LaneInv, LanesAre, ThreadInv
<1>3. LaneInv' /\ BatchInv' /\ ThreadInv'
  <2>1. LanesAre(lane, clock') /\ BatchesAre(batch, nsent, clock')
    BY <1>2 DEF PipelineInv, SenderInv, LaneInv, LanesAre, BatchInv, BatchesAre
  <2> QED  BY <1>1, <1>2, <2>1, InNextState DEF PipelineInv, SenderInv, ThreadInv
<1>4. CountInv'
  <2>1. Waiting' = Waiting /\ Sent' = Sent
    BY <1>1 DEF Waiting, Sent, Module!Lanes
  <2> QED
    BY <1>1, <1>2, <2>1, PastBranches DEF PipelineInv, SenderInv, CountInv
<1> QED  BY <1>3, <1>4 DEF SenderInv

(* A full lane becomes the next batch, whatever the thread does afterwards. *)
LEMMA SenderSend ==
  ASSUME PipelineInv, NEW i \in {1, 2}, thread = "tests", Module!IsFull(i), Receiver!Send,
         batch' = [batch EXCEPT ![nsent + 1] = lane[i]], UNCHANGED source,
         \/ thread' = "sent" /\ shipping' = i
         \/ thread' = "ended" /\ shipping' = shipping
  PROVE  SenderInv'
<1>1. /\ nsent \in Nat /\ nsent + 1 \in 1..NDatagrams /\ nsent' = nsent + 1
  BY SentBound, SystemBounds DEF Receiver!Send, PipelineInv
<1>2. UNCHANGED <<lane, missed, clock>> /\ Len(lane[i]) = BatchSize
  BY DEF source, Module!IsFull
<1>3. /\ LanesAre(lane, clock) /\ shipping = 0
      /\ \A j \in {1, 2} \ {i} : Times(lane[j]) \cap Times(lane[i]) = {}
  <2>1. LanesAre(lane, clock) /\ shipping = 0
    BY DEF PipelineInv, SenderInv, ThreadInv, LaneInv
  <2>2. Times(lane[1]) \cap Times(lane[2]) = {}
    BY <2>1 DEF LanesAre
  <2>3. ASSUME NEW j \in {1, 2} \ {i} PROVE Times(lane[j]) \cap Times(lane[i]) = {}
    <3>1. (i = 1 /\ j = 2) \/ (i = 2 /\ j = 1)
      OBVIOUS
    <3> QED  BY <2>2, <3>1, Zenon
  <2> QED  BY <2>1, <2>3
<1>4. LaneInv'
  BY <1>2, <1>3, InNextState
<1>5. /\ batch'[nsent + 1] = lane[i]
      /\ \A d \in 1..NDatagrams : d # nsent + 1 => batch'[d] = batch[d]
      /\ batch' \in [1..NDatagrams -> Seq(Nat)]
  BY <1>1, <1>3 DEF PipelineInv, SenderInv, BatchInv, BatchesAre, LaneInv, LanesAre
<1>6. \A d \in 1..NDatagrams : Times(lane[i]) \cap Times(batch[d]) = {}
  BY <1>3 DEF PipelineInv, SenderInv, ThreadInv, Apart
<1>7. BatchInv'
  <2>1. ASSUME NEW d \in 1..NDatagrams
        PROVE  /\ Rising(batch'[d]) /\ Times(batch'[d]) \subseteq 1..clock
               /\ Len(batch'[d]) = IF d <= nsent + 1 THEN BatchSize ELSE 0
    <3>1. CASE d = nsent + 1
      BY <1>1, <1>2, <1>3, <1>5, <3>1 DEF LaneInv, LanesAre
    <3>2. CASE d # nsent + 1
      <4>1. batch'[d] = batch[d] /\ (d <= nsent + 1 <=> d <= nsent)
        BY <1>1, <1>5, <3>2
      <4> QED  BY <4>1 DEF PipelineInv, SenderInv, BatchInv, BatchesAre
    <3> QED  BY <3>1, <3>2
  <2>2. ASSUME NEW d \in 1..NDatagrams, NEW e \in 1..NDatagrams, d # e
        PROVE  Times(batch'[d]) \cap Times(batch'[e]) = {}
    <3>1. Times(batch[d]) \cap Times(batch[e]) = {}
      BY <2>2 DEF PipelineInv, SenderInv, BatchInv, BatchesAre
    <3> QED  BY <1>5, <1>6, <2>2, <3>1
  <2>3. BatchesAre(batch', nsent', clock')
    BY <1>1, <1>2, <1>5, <2>1, <2>2 DEF BatchesAre
  <2> QED  BY <2>3, InNextState
<1>8. ThreadInv'
  <2>1. thread' = "sent" => lane'[shipping'] = batch'[nsent'] /\ shipping' \in {1, 2}
    BY <1>1, <1>2, <1>5
  <2>2. ASSUME thread' # "ended", NEW j \in {1, 2} \ {i}, NEW d \in 1..NDatagrams
        PROVE  Times(lane[j]) \cap Times(batch'[d]) = {}
    <3>1. Times(lane[j]) \cap Times(batch[d]) = {} /\ Times(lane[j]) \cap Times(lane[i]) = {}
      BY <1>3 DEF PipelineInv, SenderInv, ThreadInv, Apart
    <3> QED  BY <1>5, <3>1
  <2>3. thread' # "ended" => Apart(lane', shipping', batch')
    BY <1>2, <2>2 DEF Apart
  <2> QED  BY <1>1, <1>2, <1>3, <2>1, <2>3, InNextState DEF PipelineInv, SenderInv, ThreadInv
<1>9. CountInv'
  <2>1. SUFFICES ASSUME thread' # "ended"
                 PROVE  missed + Cardinality(Waiting') + Cardinality(Sent') = clock
    BY <1>2 DEF CountInv
  <2>2. Waiting = Waiting' \cup Times(lane[i]) /\ Waiting' \cap Times(lane[i]) = {}
    <3>1. Waiting' = UNION {Times(lane[j]) : j \in {1, 2} \ {i}}
      BY <1>2, <2>1 DEF Waiting, Times, Module!Lanes
    <3>2. \A t : t \in Waiting <=> \E j \in {1, 2} : t \in Times(lane[j])
      BY <1>3, WaitingIs
    <3>3. \A t : t \in Waiting' <=> \E j \in {1, 2} \ {i} : t \in Times(lane[j])
      BY <3>1
    <3>4. \A t : t \in Waiting <=> t \in Waiting' \/ t \in Times(lane[i])
      BY <3>2, <3>3, Zenon
    <3>5. \A t : t \in Waiting' => t \notin Times(lane[i])
      BY <1>3, <3>3, Zenon
    <3> QED  BY <3>4, <3>5, Zenon
  <2>3. Sent' = Sent \cup Times(lane[i]) /\ Sent \cap Times(lane[i]) = {}
    <3>1. Sent' = UNION {Times(batch'[d]) : d \in 1..(nsent + 1)}
      BY <1>1 DEF Sent, Times
    <3>2. \A d \in 1..nsent : d \in 1..NDatagrams /\ d # nsent + 1 /\ d \in 1..(nsent + 1)
      BY <1>1, SystemBounds
    <3>3. \A d \in 1..(nsent + 1) : d \in 1..nsent \/ d = nsent + 1
      BY <1>1
    <3>4. nsent + 1 \in 1..(nsent + 1)
      BY <1>1
    <3> QED  BY <1>5, <1>6, <3>1, <3>2, <3>3, <3>4, WaitingIs
  <2>4. IsFiniteSet(Times(lane[i])) /\ IsFiniteSet(Waiting')
    <3>1. Times(lane[i]) \subseteq Waiting /\ Waiting' \subseteq Waiting
      BY <2>2
    <3> QED  BY <3>1, PastBranches, FS_Subset
  <2>5. Cardinality(Waiting) = Cardinality(Waiting') + Cardinality(Times(lane[i]))
    BY <2>2, <2>4, Disjoint
  <2>6. Cardinality(Sent') = Cardinality(Sent) + Cardinality(Times(lane[i]))
    BY <2>3, <2>4, PastBranches, Disjoint
  <2>7. missed + Cardinality(Waiting) + Cardinality(Sent) = clock
    BY DEF PipelineInv, SenderInv, CountInv
  <2>8. /\ Cardinality(Waiting') \in Nat /\ Cardinality(Times(lane[i])) \in Nat
        /\ missed \in Nat
    BY <2>4, FS_CardinalityType DEF PipelineInv, SenderInv, ThreadInv
  <2> QED  BY <2>5, <2>6, <2>7, <2>8, PastBranches
<1> QED  BY <1>4, <1>7, <1>8, <1>9 DEF SenderInv

(* A lane is released when it is in the last batch: nothing is forgotten. *)
LEMMA SenderRelease == ASSUME PipelineInv, Release PROVE SenderInv'
<1>1. /\ thread = "sent" /\ thread' = "tests" /\ shipping' = 0
      /\ UNCHANGED <<clock, batch, nsent, missed>>
      /\ lane' = [lane EXCEPT ![shipping] = << >>]
  BY DEF Release, Module!Deliver, receiver
<1>2. shipping \in {1, 2} /\ LaneInv
  BY <1>1, ShippingFull DEF PipelineInv, SenderInv
<1>3. /\ lane'[shipping] = << >> /\ Times(lane'[shipping]) = {} /\ Rising(lane'[shipping])
      /\ \A j \in {1, 2} \ {shipping} : lane'[j] = lane[j]
      /\ lane' \in [{1, 2} -> Seq(Nat)] /\ Len(<< >>) = 0
  BY <1>1, <1>2, NoTimes DEF LaneInv, LanesAre
<1>4. LaneInv'
  <2>1. \A j \in {1, 2} : /\ Rising(lane'[j]) /\ Len(lane'[j]) <= BatchSize
                          /\ Times(lane'[j]) \subseteq 1..clock
    BY <1>2, <1>3, SystemBounds DEF LaneInv, LanesAre
  <2>2. Times(lane'[1]) \cap Times(lane'[2]) = {}
    BY <1>2, <1>3
  <2>3. LanesAre(lane', clock')
    BY <1>1, <1>2, <1>3, <2>1, <2>2 DEF LaneInv, LanesAre
  <2> QED  BY <2>3, InNextState
<1>5. BatchInv'
  BY <1>1, InNextState DEF PipelineInv, SenderInv, BatchInv
<1>6. ThreadInv'
  <2>1. \A j \in {1, 2}, d \in 1..NDatagrams : Times(lane'[j]) \cap Times(batch[d]) = {}
    BY <1>1, <1>3 DEF PipelineInv, SenderInv, ThreadInv, Apart
  <2>2. Apart(lane', shipping', batch')
    BY <1>1, <2>1 DEF Apart
  <2> QED  BY <1>1, <2>2, InNextState DEF PipelineInv, SenderInv, ThreadInv
<1>7. CountInv'
  <2>1. Waiting' = UNION {Times(lane'[j]) : j \in {1, 2}}
    BY <1>1 DEF Waiting, Times, Module!Lanes
  <2>2. Waiting' = Waiting /\ Sent' = Sent
    BY <1>1, <1>2, <1>3, <2>1, WaitingIs DEF Sent
  <2> QED  BY <1>1, <2>2 DEF PipelineInv, SenderInv, CountInv
<1> QED  BY <1>4, <1>5, <1>6, <1>7 DEF SenderInv

(* Nothing the sender knows of changes: the receiver goes on, or nobody does. *)
LEMMA SenderStays ==
  ASSUME SenderInv, UNCHANGED <<source, shipping, batch, nsent>>,
         thread' = thread \/ (thread' = "ended" /\ thread # "sent")
  PROVE  SenderInv'
<1>1. Waiting' = Waiting /\ Sent' = Sent
  BY DEF source, Waiting, Sent, Module!Lanes
<1> QED
  BY <1>1, InNextState DEF SenderInv, source, LaneInv, BatchInv, ThreadInv, CountInv

LEMMA PipelineInvariant == Spec => []PipelineInv
<1>1. Init => PipelineInv
  BY ReceiverInit, SenderInit DEF PipelineInv
<1>2. PipelineInv /\ [Next]_vars => PipelineInv'
  <2>1. SUFFICES ASSUME PipelineInv, [Next]_vars PROVE PipelineInv'
    OBVIOUS
  <2>2. ReceiverInv /\ SenderInv
    BY <2>1 DEF PipelineInv
  <2>3. CASE Branch
    <3>1. SenderInv'
      BY <2>1, <2>3, SenderRecord, SenderMiss, SystemBounds DEF Branch
    <3> QED  BY <2>2, <2>3, <3>1, ReceiverStays DEF Branch, PipelineInv
  <2>4. ASSUME NEW i \in Module!Lanes, Ship(i) PROVE PipelineInv'
    BY <2>1, <2>2, <2>4, SystemBounds, SenderSend, ReceiverSend DEF Ship, PipelineInv
  <2>5. ASSUME NEW i \in Module!Lanes, ShipFails(i) PROVE PipelineInv'
    <3>1. CASE UNCHANGED <<batch, receiver>>
      <4>1. UNCHANGED <<source, shipping, batch, nsent>> /\ thread' = "ended" /\ thread # "sent"
        BY <2>5, <3>1 DEF ShipFails, receiver
      <4> QED  BY <2>2, <3>1, <4>1, SenderStays, ReceiverStays DEF PipelineInv
    <3>2. CASE Receiver!Send /\ batch' = [batch EXCEPT ![nsent + 1] = lane[i]]
      BY <2>1, <2>2, <2>5, <3>2, SystemBounds, SenderSend, ReceiverSend DEF ShipFails, PipelineInv
    <3> QED  BY <2>5, <3>1, <3>2 DEF ShipFails
  <2>6. CASE Release
    BY <2>1, <2>2, <2>6, SenderRelease, ReceiverStays DEF Release, PipelineInv
  <2>7. CASE Receive
    <3>1. ReceiverInv' /\ nsent' = nsent
      BY <2>2, <2>7, ReceiverKeeps DEF Receive, ReceiverStep
    <3> QED  BY <2>2, <2>7, <3>1, SenderStays DEF Receive, PipelineInv, sender
  <2>8. CASE UNCHANGED vars
    BY <2>2, <2>8, SenderStays, ReceiverStays DEF vars, PipelineInv, sender, receiver
  <2> QED  BY <2>1, <2>3, <2>4, <2>5, <2>6, <2>7, <2>8 DEF Next
<1> QED  BY <1>1, <1>2, PTL DEF Spec
-----------------------------------------------------------------------------
LEMMA LineTime ==
  ASSUME PipelineInv, NEW n \in Receiver!Names, NEW s \in Lines(n)
  PROVE  /\ TimeOf(result[n][s]) = batch[origin[n]][s]
         /\ origin[n] \in 1..NDatagrams /\ s \in DOMAIN batch[origin[n]] /\ s \in Nat
         /\ TimeOf(result[n][s]) \in Times(batch[origin[n]])
<1>1. /\ origin[n] \in 1..nsent /\ origin[n] \in 1..NDatagrams /\ s \in 1..BatchSize
      /\ result[n][s] = <<origin[n], s>>
  BY LineOf DEF PipelineInv
<1>2. TimeOf(result[n][s]) = batch[origin[n]][s]
  BY <1>1 DEF TimeOf
<1>3. batch[origin[n]] \in Seq(Nat) /\ Len(batch[origin[n]]) = BatchSize
  <2>1. origin[n] <= nsent
    BY <1>1
  <2> QED  BY <1>1, <2>1 DEF PipelineInv, SenderInv, BatchInv, BatchesAre
<1>4. s \in DOMAIN batch[origin[n]]
  BY <1>1, <1>3
<1>5. batch[origin[n]][s] \in Times(batch[origin[n]])
  BY <1>4 DEF Times
<1> QED  BY <1>1, <1>2, <1>4, <1>5

(* From the interrupted guest to the text file: the lines of a result are     *)
(* branches in the order they were taken (handle_debug_exception to           *)
(* changeFormat).                                                            *)
THEOREM WholeSystemInOrder == Spec => []ResultsInOrder
<1>1. ASSUME PipelineInv PROVE ResultsInOrder
  <2>1. SUFFICES ASSUME NEW n \in Receiver!Names, NEW s \in Lines(n), NEW t \in Lines(n), s < t
                 PROVE  TimeOf(result[n][s]) < TimeOf(result[n][t])
    BY DEF ResultsInOrder
  <2>2. Rising(batch[origin[n]])
    BY <1>1, LineTime DEF PipelineInv, SenderInv, BatchInv, BatchesAre
  <2> QED  BY <1>1, <2>1, <2>2, LineTime DEF Rising
<1> QED  BY <1>1, PipelineInvariant, PTL

(* Every branch is in one place: missed, waiting in a lane, or in one datagram; *)
(* results for two datagrams share none.                                      *)
THEOREM WholeSystemAccounts == Spec => []EachBranchOnce
<1>1. ASSUME PipelineInv PROVE EachBranchOnce
  <2>1. thread # "ended" => Waiting \cap Sent = {}
    BY <1>1, SentApart
  <2>2. thread # "ended" => missed + Cardinality(Waiting) + Cardinality(Sent) = clock
    BY <1>1 DEF PipelineInv, SenderInv, CountInv
  <2>3. ASSUME NEW n \in Receiver!Names, NEW m \in Receiver!Names, origin[n] # origin[m],
               NEW s \in Lines(n), NEW t \in Lines(m)
        PROVE  TimeOf(result[n][s]) # TimeOf(result[m][t])
    <3>1. Times(batch[origin[n]]) \cap Times(batch[origin[m]]) = {}
      BY <1>1, <2>3, LineTime DEF PipelineInv, SenderInv, BatchInv, BatchesAre
    <3> QED  BY <1>1, <2>3, <3>1, LineTime
  <2> QED  BY <2>1, <2>2, <2>3 DEF EachBranchOnce
<1> QED  BY <1>1, PipelineInvariant, PTL
=============================================================================
