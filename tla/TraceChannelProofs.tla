------------------------- MODULE TraceChannelProofs -------------------------
(***************************************************************************)
(* TraceBuffers keeps the promises of TraceChannel, sends the batches of a  *)
(* buffer in order, and counts every traced branch; for every value of the  *)
(* constants and wherever the flags lie.                                   *)
(***************************************************************************)
EXTENDS TraceBuffersProofs, FiniteSetTheorems

LaneMap == [i \in Buffers |-> Content(i)]
DeliveredMap == [k \in 1..DeliveredCount |-> sent[k].records]

BoundInv == Now <= MaxExits

LEMMA BoundInvariant == Spec => []BoundInv
<1>1. Init => BoundInv
  BY BoundAssumption DEF Init, BoundInv, Now
<1>2. TypeInv /\ BoundInv /\ [Next]_vars => BoundInv'
  <2>1. SUFFICES ASSUME TypeInv, BoundInv, [Next]_vars PROVE BoundInv'
    OBVIOUS
  <2>2. ASSUME NEW f \in Forms, DebugExit(f) PROVE BoundInv'
    BY <2>1, <2>2, BoundAssumption DEF DebugExit, BoundInv, Now, TypeInv, TypeOK
  <2>3. CASE UNCHANGED exits
    BY <2>1, <2>3 DEF BoundInv, Now
  <2> QED  BY <2>1, <2>2, <2>3 DEF Next, vars, handler, HandlerStep, TestFirst,
     TestSecond, Choose, CopyBegin, CopyEnd, Publish, SenderStep, SenderTest,
     CompressEntry, SendDatagram, SendError, SenderClear, SenderWake
<1> QED  BY <1>1, <1>2, TypeInvariant, PTL DEF Spec

(* A slot, and a record that the thread has read, is unfinished or the       *)
(* record of an exit that has happened.                                     *)
Filled(e) == e = Torn \/ e.time \in 1..Now

SlotInv ==
  /\ \A i \in Buffers : \A s \in Slots : Filled(m_buffer[i][s])
  /\ \A s \in 1..Len(out_buf) : Filled(out_buf[s])

LEMMA SlotStep ==
  ASSUME TypeInv, FillInv, SlotInv, [Next]_vars
  PROVE  SlotInv'
<1>1. CASE CopyEnd
  <2>1. UNCHANGED <<exits, out_buf>> /\ Filled(EntryAt(Now))
    BY <1>1 DEF CopyEnd, thread, Filled, EntryAt, FillInv
  <2>2. \A i \in Buffers : \A s \in Slots :
          m_buffer'[i][s] = m_buffer[i][s] \/ m_buffer'[i][s] = EntryAt(Now)
    BY <1>1 DEF CopyEnd, TypeInv, TypeOK
  <2>3. \A i \in Buffers : \A s \in Slots : Filled(m_buffer'[i][s])
    BY <2>1, <2>2 DEF SlotInv
  <2> QED  BY <2>1, <2>3 DEF SlotInv, Filled, Now
<1>2. CASE CopyBegin
  <2>1. UNCHANGED <<exits, out_buf>> /\ Filled(Torn)
    BY <1>2 DEF CopyBegin, thread, Filled
  <2>2. \A i \in Buffers : \A s \in Slots :
          m_buffer'[i][s] = m_buffer[i][s] \/ m_buffer'[i][s] = Torn
    BY <1>2 DEF CopyBegin, TypeInv, TypeOK
  <2>3. \A i \in Buffers : \A s \in Slots : Filled(m_buffer'[i][s])
    BY <2>1, <2>2 DEF SlotInv
  <2> QED  BY <2>1, <2>3 DEF SlotInv, Filled, Now
<1>3. CASE CompressEntry
  <2>1. UNCHANGED <<exits, m_buffer>>
    BY <1>3 DEF CompressEntry, shared, handler
  <2>2. Len(out_buf) + 1 \in Slots /\ sbuf \in Buffers
    BY <1>3, BatchArithmetic, SizeAssumption
       DEF ReadInv, CompressEntry, Slots, TypeInv, TypeOK
  <2>3. m_buffer[sbuf][Len(out_buf) + 1] \in Entry
    BY <2>2 DEF TypeInv, TypeOK
  <2>4. \A s \in 1..Len(out_buf') : \/ s \in 1..Len(out_buf) /\ out_buf'[s] = out_buf[s]
                                   \/ out_buf'[s] = m_buffer[sbuf][Len(out_buf) + 1]
    BY <1>3, <2>3 DEF CompressEntry, TypeInv, TypeOK
  <2>5. \A s \in 1..Len(out_buf') : Filled(out_buf'[s])
    BY <2>2, <2>4 DEF SlotInv
  <2> QED  BY <2>1, <2>5 DEF SlotInv, Filled, Now
<1>4. ASSUME NEW f \in Forms, DebugExit(f) PROVE SlotInv'
  <2>1. UNCHANGED <<m_buffer, out_buf>> /\ Now' = Now + 1 /\ Now \in Nat
    BY <1>4 DEF DebugExit, shared, thread, Now, TypeInv, TypeOK
  <2>2. \A e : Filled(e) => Filled(e)'
    BY <2>1 DEF Filled
  <2> QED  BY <2>1, <2>2 DEF SlotInv
<1>5. CASE UNCHANGED <<m_buffer, exits>> /\ (out_buf' = << >> \/ UNCHANGED out_buf)
  BY <1>5 DEF SlotInv, Filled, Now
<1> QED
  BY <1>1, <1>2, <1>3, <1>4, <1>5 DEF Next, vars, shared, handler, thread, HandlerStep,
     TestFirst, TestSecond, Choose, Publish, SenderStep, SenderTest, SendDatagram,
     SendError, SenderClear, SenderWake

LEMMA SlotInvariant == Spec => []SlotInv
<1>1. Init => SlotInv
  BY DEF Init, SlotInv, Filled
<1> QED  BY <1>1, SlotStep, TypeInvariant, FillInvariant, PTL DEF Spec

LEMMA ContentFacts ==
  ASSUME TypeInv, OffsetInv, NEW i \in Buffers
  PROVE  /\ Held(i) \in 0..BatchSize
         /\ Content(i) \in Seq(Entry)
         /\ Len(Content(i)) = Held(i)
<1>1. Held(i) \in 0..BatchSize /\ Held(i) \in Nat
  BY HeldFacts, BatchArithmetic
<1>2. \A s \in 1..Held(i) : m_buffer[i][s] \in Entry
  BY <1>1, BatchArithmetic, SizeAssumption DEF TypeInv, TypeOK, Slots
<1> QED  BY <1>1, <1>2 DEF Content

LEMMA InitMaps == ASSUME Init PROVE Channel!CInit
<1>1. \A i \in Buffers : Content(i) = << >>
  <2>1. \A i \in Buffers : Held(i) = 0
    BY SizeAssumption DEF Init, Held
  <2> QED  BY <2>1 DEF Content
<1>2. DeliveredMap = << >>
  BY DEF Init, DeliveredMap, DeliveredCount
<1> QED  BY <1>1, <1>2 DEF Init, Channel!CInit, Channel!Lanes, Buffers, DeliveredMap

(* A published record is the abstract Record step. *)
LEMMA PublishMaps ==
  ASSUME TypeInv, OffsetInv, ExclusionInv, FillInv, BoundInv, Publish
  PROVE  Channel!Record(target)
<1>1. target \in Buffers /\ state[target] = 0
  BY DEF ExclusionInv, Writing, Publish, TypeInv, TypeOK
<1>2. UNCHANGED <<m_buffer, exits, target, MissCount, sent, spc>>
  BY DEF Publish, thread
<1>3. \A i \in Buffers : i # target => Content(i)' = Content(i)
  BY <1>1, <1>2 DEF Publish, Content, Held, TypeInv, TypeOK
<1>4. Held(target) \in Nat /\ Held(target) < BatchSize
  BY <1>1, HeldFacts, BatchArithmetic
<1>5. Held(target)' = Held(target) + 1
  <2>1. Held(target)' = IF NextFlag(target) = 1 THEN BatchSize
                                               ELSE NextPos(pos[target]) \div EntrySize
    BY <1>1, <1>2 DEF Held, Publish, TypeInv, TypeOK
  <2>2. NextFlag(target) \in {0, 1}
    BY <1>1 DEF NextFlag
  <2> QED  BY <1>1, <1>4, <2>1, <2>2, HeldFacts
<1>6. m_buffer[target][Held(target) + 1] = EntryAt(Now)
  BY <1>1, HeldFacts DEF FillInv, Publish
<1>7. EntryAt(Now) \in [time : 1..MaxExits, call_ret_flag : {0, 1}]
  BY BoundAssumption DEF EntryAt, FillInv, BoundInv, Publish, Now, TypeInv, TypeOK
<1>8. Content(target)' = Append(Content(target), EntryAt(Now))
  BY <1>1, <1>2, <1>4, <1>5, <1>6, ContentFacts DEF Content
<1>9. LaneMap' = [LaneMap EXCEPT ![target] = Append(LaneMap[target], EntryAt(Now))]
  BY <1>1, <1>2, <1>3, <1>8 DEF LaneMap
<1>10. Len(LaneMap[target]) # BatchSize
  BY <1>1, <1>4, ContentFacts DEF LaneMap
<1>11. UNCHANGED <<DeliveredMap, MissCount>>
  BY <1>2 DEF DeliveredMap, DeliveredCount
<1> QED  BY <1>7, <1>9, <1>10, <1>11
         DEF Channel!Record, Channel!IsFull, LaneMap, DeliveredMap

(* A counted miss is the abstract Miss step. *)
LEMMA MissMaps ==
  ASSUME TypeInv, OffsetInv, TestSecond, MissCount' # MissCount
  PROVE  Channel!Miss
<1>1. state[2] = 1 /\ MissCount' = MissCount + 1
  BY DEF TestSecond, Choose, TypeInv, TypeOK, Buffers
<1>2. UNCHANGED <<m_buffer, pos, state, spc, sent>>
  BY DEF TestSecond, Choose, shared, thread
<1>3. Len(LaneMap[2]) = BatchSize
  BY <1>1, ContentFacts DEF LaneMap, Held, Buffers
<1>4. UNCHANGED <<LaneMap, DeliveredMap>>
  BY <1>2 DEF LaneMap, DeliveredMap, DeliveredCount, Content, Held
<1> QED  BY <1>1, <1>3, <1>4 DEF Channel!Miss, Channel!IsFull, LaneMap, DeliveredMap

(* The release of a sent buffer is the abstract Deliver step where its flag   *)
(* is alone, and the abstract DeliverShared step where it is not.           *)
LEMMA LanesAfterClear ==
  ASSUME TypeInv, OffsetInv, FillInv, SenderClear, NEW i \in Buffers
  PROVE  /\ Len(LaneMap[i]) = BatchSize <=> state[i] = 1
         /\ LaneMap'[i] = IF i \in WordFlags[sbuf] /\ state[i] = 1
                          THEN << >> ELSE LaneMap[i]
<1>1. Len(Content(i)) = BatchSize <=> state[i] = 1
  <2>1. state[i] \in {0, 1}
    BY DEF TypeInv, TypeOK
  <2>2. CASE state[i] = 1
    BY <2>2, ContentFacts DEF Held
  <2>3. CASE state[i] = 0
    BY <2>3, ContentFacts, HeldFacts, BatchArithmetic
  <2> QED  BY <2>1, <2>2, <2>3
<1>2. UNCHANGED m_buffer
  BY DEF SenderClear
<1>3. CASE i \in WordFlags[sbuf] /\ state[i] = 1
  <2>1. Held(i)' = 0
    BY <1>3, FlagsAfterClear
  <2>2. Content(i)' = << >>
    BY <2>1 DEF Content
  <2> QED  BY <1>1, <1>3, <2>2 DEF LaneMap
<1>4. CASE ~(i \in WordFlags[sbuf] /\ state[i] = 1)
  <2>1. Held(i)' = Held(i)
    BY <1>4, FlagsAfterClear
  <2>2. Content(i)' = Content(i)
    BY <1>2, <2>1 DEF Content
  <2> QED  BY <1>1, <1>4, <2>2 DEF LaneMap
<1> QED  BY <1>3, <1>4

LEMMA DeliveredAfterClear ==
  ASSUME TypeInv, ShipInv, SenderClear
  PROVE  DeliveredMap' = Append(DeliveredMap, out_buf)
<1>1. UNCHANGED sent /\ spc = "clear" /\ spc' # "clear"
  BY DEF SenderClear, MoveOn
<1>2. sent # << >> /\ sent[Len(sent)].records = out_buf
  BY <1>1 DEF ShipInv
<1>3. Len(sent) \in Nat \ {0}
  BY <1>2 DEF TypeInv, TypeOK
<1>4. DeliveredMap = [k \in 1..(Len(sent) - 1) |-> sent[k].records]
  BY <1>1 DEF DeliveredMap, DeliveredCount
<1>5. DeliveredMap' = [k \in 1..Len(sent) |-> sent[k].records]
  BY <1>1 DEF DeliveredMap, DeliveredCount
<1>6. \A k \in 1..Len(sent) : sent[k].records \in Seq(Entry)
  <2>1. \A k \in 1..Len(sent) : sent[k] \in Batch
    BY DEF TypeInv, TypeOK
  <2> QED  BY <2>1 DEF Batch
<1> QED  BY <1>2, <1>3, <1>4, <1>5, <1>6

LEMMA ClearMaps ==
  ASSUME TypeInv, OffsetInv, ExclusionInv, ShipInv, FillInv, SlotInv, BoundInv, SenderClear
  PROVE  \E i \in Channel!Lanes : Channel!Deliver(i) \/ Channel!DeliverShared(i)
<1>1. sbuf \in Buffers /\ spc = "clear" /\ UNCHANGED MissCount
  BY DEF SenderClear, handler, TypeInv, TypeOK
<1>2. DeliveredMap' = Append(DeliveredMap, out_buf)
  BY DeliveredAfterClear
<1>3. ASSUME NEW i \in Buffers, i = sbuf, WordFlags[i] = {i} PROVE Channel!Deliver(i)
  <2>1. state[sbuf] = 1
    BY <1>1, <1>3 DEF ExclusionInv, Shipping, Alone
  <2>2. Len(LaneMap[sbuf]) = BatchSize
    BY <1>1, <2>1, LanesAfterClear
  <2>3. LaneMap' = [LaneMap EXCEPT ![sbuf] = << >>]
    <3>1. \A j \in Buffers : LaneMap'[j] = IF j = sbuf THEN << >> ELSE LaneMap[j]
      BY <1>3, <2>1, LanesAfterClear
    <3> QED  BY <1>1, <3>1 DEF LaneMap
  <2>4. out_buf = LaneMap[sbuf]
    <3>1. out_buf = [s \in 1..Len(out_buf) |-> out_buf[s]]
      BY DEF TypeInv, TypeOK
    <3>2. Held(sbuf) = BatchSize /\ Len(out_buf) = BatchSize
      BY <1>1, <2>1 DEF Held, ShipInv
    <3>3. \A s \in 1..BatchSize : out_buf[s] = m_buffer[sbuf][s]
      BY <1>1, <1>3, <3>2 DEF ShipInv, Alone
    <3>4. out_buf = Content(sbuf)
      BY <3>1, <3>2, <3>3 DEF Content
    <3> QED  BY <1>1, <3>4 DEF LaneMap
  <2> QED  BY <1>1, <1>2, <1>3, <2>2, <2>3, <2>4
           DEF Channel!Deliver, Channel!IsFull, LaneMap, DeliveredMap
<1>4. ASSUME NEW i \in Buffers, i = sbuf, WordFlags[i] # {i} PROVE Channel!DeliverShared(i)
  <2> DEFINE R == [time : 1..MaxExits, call_ret_flag : {0, 1}]
  <2>1. out_buf \in [1..BatchSize -> R \cup {Torn}]
    <3>1. Len(out_buf) = BatchSize /\ out_buf \in [1..Len(out_buf) -> Entry]
      BY <1>1 DEF ShipInv, TypeInv, TypeOK
    <3>2. \A s \in 1..BatchSize : out_buf[s] \in R \cup {Torn}
      <4>1. SUFFICES ASSUME NEW s \in 1..BatchSize, out_buf[s] # Torn PROVE out_buf[s] \in R
        OBVIOUS
      <4>2. out_buf[s] \in Entry /\ out_buf[s].time \in 1..Now
        BY <3>1, <4>1 DEF SlotInv, Filled
      <4>3. out_buf[s].time \in 1..MaxExits
        BY <4>2, BoundAssumption DEF BoundInv, Now, TypeInv, TypeOK
      <4> QED  BY <4>2, <4>3 DEF Entry
    <3> QED  BY <3>1, <3>2
  <2>2. LaneMap' = [j \in Channel!Lanes |->
                     IF j \in WordFlags[sbuf] /\ Len(LaneMap[j]) = BatchSize
                     THEN << >> ELSE LaneMap[j]]
    <3>1. \A j \in Buffers : LaneMap'[j] = IF j \in WordFlags[sbuf] /\ Len(LaneMap[j]) = BatchSize
                                           THEN << >> ELSE LaneMap[j]
      BY LanesAfterClear
    <3>2. LaneMap' = [j \in Buffers |-> LaneMap'[j]]
      BY DEF LaneMap
    <3> QED  BY <3>1, <3>2 DEF Channel!Lanes, Buffers
  <2> QED  BY <1>1, <1>2, <1>4, <2>1, <2>2
           DEF Channel!DeliverShared, Channel!IsFull, LaneMap, DeliveredMap
<1> QED  BY <1>1, <1>3, <1>4 DEF Channel!Lanes, Buffers

(* Every other step leaves lanes, deliveries and count as they are. *)
LEMMA OtherStutters ==
  ASSUME TypeInv, OffsetInv, ExclusionInv, FillInv, [Next]_vars,
         ~Publish, ~SenderClear, MissCount' = MissCount
  PROVE  UNCHANGED <<LaneMap, DeliveredMap, MissCount>>
<1>1. CASE SendDatagram
  <2>1. UNCHANGED <<m_buffer, pos, state>>
    BY <1>1 DEF SendDatagram, shared
  <2>2. UNCHANGED DeliveredMap
    <3>1. Len(sent) \in Nat /\ [buf |-> sbuf, records |-> out_buf] \in Batch
      BY DEF TypeInv, TypeOK, Batch
    <3>2. DeliveredCount = Len(sent) /\ DeliveredCount' = Len(sent)
      BY <1>1, <3>1 DEF SendDatagram, DeliveredCount, TypeInv, TypeOK
    <3>3. \A k \in 1..Len(sent) : sent'[k] = sent[k]
      BY <1>1, <3>1 DEF SendDatagram, TypeInv, TypeOK
    <3> QED  BY <3>2, <3>3 DEF DeliveredMap
  <2> QED  BY <2>1, <2>2 DEF LaneMap, Content, Held
<1>2. CASE CopyBegin \/ CopyEnd
  <2>1. UNCHANGED <<pos, state, sent, spc, target>>
    BY <1>2 DEF CopyBegin, CopyEnd, thread
  <2>2. target \in Buffers /\ state[target] = 0
    BY <1>2 DEF ExclusionInv, Writing, CopyBegin, CopyEnd, TypeInv, TypeOK
  <2>3. \A i \in Buffers : \A s \in 1..Held(i) : m_buffer'[i][s] = m_buffer[i][s]
    <3>1. SUFFICES ASSUME NEW i \in Buffers, NEW s \in 1..Held(i)
                   PROVE  m_buffer'[i][s] = m_buffer[i][s]
      OBVIOUS
    <3>2. Held(i) \in Nat /\ s \in Slots
      BY HeldFacts, BatchArithmetic, SizeAssumption DEF Slots
    <3>3. i = target => s # SlotAt(pos[target])
      BY <2>2, <3>2, HeldFacts
    <3> QED  BY <1>2, <2>2, <3>2, <3>3 DEF CopyBegin, CopyEnd, TypeInv, TypeOK
  <2>4. \A i \in Buffers : Held(i)' = Held(i)
    BY <2>1 DEF Held
  <2> QED  BY <2>1, <2>3, <2>4 DEF LaneMap, DeliveredMap, DeliveredCount, Content
<1>3. CASE UNCHANGED <<m_buffer, pos, state, sent>> /\ (spc = "clear" <=> spc' = "clear")
  BY <1>3 DEF LaneMap, DeliveredMap, DeliveredCount, Content, Held
<1> QED
  BY <1>1, <1>2, <1>3 DEF Next, vars, shared, handler, thread, DebugExit, HandlerStep,
     TestFirst, TestSecond, Choose, SenderStep, SenderTest, MoveOn, CompressEntry,
     SendError, SenderWake

(* Wherever the flags lie, the two buffers, their flags and offsets behave  *)
(* as two lanes that are filled in order; a lane whose flag is alone is      *)
(* delivered whole, and what finds no room is counted.                      *)
THEOREM TraceBuffersImplementChannel == Spec => ImplementsChannel
<1>1. Init => Channel!CInit
  BY InitMaps
<1>2. /\ TypeInv /\ OffsetInv /\ ExclusionInv /\ ShipInv /\ FillInv /\ SlotInv
      /\ BoundInv /\ [Next]_vars
      => [Channel!CNext]_Channel!cvars
  <2>1. SUFFICES ASSUME TypeInv, OffsetInv, ExclusionInv, ShipInv, FillInv, SlotInv,
                        BoundInv, [Next]_vars
                 PROVE  Channel!CNext \/ UNCHANGED Channel!cvars
    OBVIOUS
  <2>2. target \in Channel!Lanes
    BY <2>1 DEF TypeInv, TypeOK, Buffers, Channel!Lanes
  <2>3. CASE Publish
    BY <2>1, <2>2, <2>3, PublishMaps DEF Channel!CNext
  <2>4. CASE SenderClear
    BY <2>1, <2>4, ClearMaps DEF Channel!CNext
  <2>5. CASE MissCount' # MissCount
    <3>1. TestSecond
      BY <2>1, <2>5 DEF Next, vars, handler, DebugExit, HandlerStep, TestFirst, Choose,
         CopyBegin, CopyEnd, Publish, SenderStep, SenderTest, CompressEntry,
         SendDatagram, SendError, SenderClear, SenderWake
    <3> QED  BY <2>1, <2>5, <3>1, MissMaps DEF Channel!CNext
  <2>6. CASE ~Publish /\ ~SenderClear /\ MissCount' = MissCount
    BY <2>1, <2>6, OtherStutters DEF Channel!cvars, LaneMap, DeliveredMap
  <2> QED  BY <2>3, <2>4, <2>5, <2>6
<1> QED
  BY <1>1, <1>2, TypeInvariant, OffsetInvariant, ExclusionInvariant, ShipInvariant,
     FillInvariant, SlotInvariant, BoundInvariant, PTL
     DEF Spec, ImplementsChannel, Channel!CSpec
-----------------------------------------------------------------------------
(* The times of the records buffer i holds. *)
HeldIn(i) == {m_buffer[i][s].time : s \in 1..Held(i)}

(* How each step changes them. *)
LEMMA HeldKept ==
  ASSUME TypeInv, OffsetInv, ExclusionInv,
         CopyBegin \/ CopyEnd \/ UNCHANGED <<m_buffer, pos, state>>
  PROVE  \A i \in Buffers : HeldIn(i)' = HeldIn(i)
<1>1. CASE UNCHANGED <<m_buffer, pos, state>>
  BY <1>1 DEF HeldIn, Held
<1>2. CASE CopyBegin \/ CopyEnd
  <2>1. UNCHANGED <<pos, state>>
    BY <1>2 DEF CopyBegin, CopyEnd
  <2>2. target \in Buffers /\ state[target] = 0
    BY <1>2 DEF ExclusionInv, Writing, CopyBegin, CopyEnd, TypeInv, TypeOK
  <2>3. \A i \in Buffers : \A s \in 1..Held(i) : m_buffer'[i][s] = m_buffer[i][s]
    <3>1. SUFFICES ASSUME NEW i \in Buffers, NEW s \in 1..Held(i)
                   PROVE  m_buffer'[i][s] = m_buffer[i][s]
      OBVIOUS
    <3>2. Held(i) \in Nat /\ s \in Slots
      BY HeldFacts, BatchArithmetic, SizeAssumption DEF Slots
    <3>3. i = target => s # SlotAt(pos[target])
      BY <2>2, <3>2, HeldFacts
    <3> QED  BY <1>2, <2>2, <3>2, <3>3 DEF CopyBegin, CopyEnd, TypeInv, TypeOK
  <2>4. \A i \in Buffers : Held(i)' = Held(i)
    BY <2>1 DEF Held
  <2> QED  BY <2>3, <2>4 DEF HeldIn
<1> QED  BY <1>1, <1>2

LEMMA HeldPublish ==
  ASSUME TypeInv, OffsetInv, ExclusionInv, FillInv, Publish
  PROVE  /\ target \in Buffers
         /\ Now \in TracedTimes
         /\ \A i \in Buffers : HeldIn(i)' = IF i = target THEN HeldIn(i) \cup {Now} ELSE HeldIn(i)
<1>1. target \in Buffers /\ state[target] = 0
  BY DEF ExclusionInv, Writing, Publish, TypeInv, TypeOK
<1>2. UNCHANGED <<m_buffer, exits>> /\ hpc = "publish"
  BY DEF Publish
<1>3. Now \in TracedTimes
  BY <1>2 DEF FillInv, TracedTimes, CurrentForm
<1>4. \A i \in Buffers : i # target => Held(i)' = Held(i)
  BY <1>1 DEF Publish, Held, TypeInv, TypeOK
<1>5. Held(target) \in Nat
  BY <1>1, HeldFacts, BatchArithmetic
<1>6. Held(target)' = Held(target) + 1
  <2>1. Held(target)' = IF NextFlag(target) = 1 THEN BatchSize
                                               ELSE NextPos(pos[target]) \div EntrySize
    BY <1>1 DEF Held, Publish, TypeInv, TypeOK
  <2>2. NextFlag(target) \in {0, 1}
    BY <1>1 DEF NextFlag
  <2> QED  BY <1>1, <1>5, <2>1, <2>2, HeldFacts
<1>7. m_buffer[target][Held(target) + 1].time = Now
  BY <1>1, <1>2, HeldFacts DEF FillInv, EntryAt
<1>8. \A i \in Buffers : i = target => HeldIn(i)' = HeldIn(i) \cup {Now}
  <2>1. 1..(Held(target) + 1) = 1..Held(target) \cup {Held(target) + 1}
    BY <1>5
  <2>2. \A i \in Buffers : i = target =>
          HeldIn(i)' = {m_buffer[i][s].time : s \in 1..(Held(i) + 1)}
    BY <1>2, <1>6 DEF HeldIn, Publish
  <2>3. ASSUME NEW i \in Buffers, i = target
        PROVE  HeldIn(i)' = HeldIn(i) \cup {Now}
    <3>1. \A t : t \in HeldIn(i)' <=>
                 \E s \in 1..Held(i) \cup {Held(i) + 1} : t = m_buffer[i][s].time
      BY <2>1, <2>2, <2>3
    <3>2. \A t : t \in HeldIn(i) <=> \E s \in 1..Held(i) : t = m_buffer[i][s].time
      BY DEF HeldIn
    <3>3. m_buffer[i][Held(i) + 1].time = Now
      BY <1>7, <2>3
    <3> QED  BY <3>1, <3>2, <3>3
  <2> QED  BY <2>3
<1>9. \A i \in Buffers : i # target => HeldIn(i)' = HeldIn(i)
  BY <1>2, <1>4 DEF HeldIn
<1> QED  BY <1>1, <1>3, <1>8, <1>9

(* A datagram of a buffer whose flag is alone holds what its buffer holds,    *)
(* when it is sent and until the buffer is released.                        *)
LEMMA ShippedIsHeld ==
  ASSUME TypeInv, ExclusionInv, ShipInv, spc \in {"send", "clear"}, Alone(sbuf)
  PROVE  TimesOf([buf |-> sbuf, records |-> out_buf]) = HeldIn(sbuf)
<1>1. Held(sbuf) = BatchSize /\ Len(out_buf) = BatchSize
  BY DEF Held, ExclusionInv, Shipping, ShipInv, TypeInv, TypeOK
<1>2. \A s \in 1..BatchSize : out_buf[s] = m_buffer[sbuf][s]
  BY <1>1 DEF ShipInv
<1> QED  BY <1>1, <1>2 DEF TimesOf, HeldIn

LEMMA HeldSend ==
  ASSUME TypeInv, ExclusionInv, ShipInv, SendDatagram
  PROVE  /\ Len(sent') = Len(sent) + 1 /\ Len(sent) \in Nat
         /\ \A k \in 1..Len(sent) : sent'[k] = sent[k]
         /\ sent'[Len(sent) + 1] = [buf |-> sbuf, records |-> out_buf]
         /\ Alone(sbuf) => TimesOf(sent'[Len(sent) + 1]) = HeldIn(sbuf)
<1>1. [buf |-> sbuf, records |-> out_buf] \in Batch
  BY DEF Batch, TypeInv, TypeOK
<1>2. /\ Len(sent') = Len(sent) + 1 /\ Len(sent) \in Nat
      /\ \A k \in 1..Len(sent) : sent'[k] = sent[k]
      /\ sent'[Len(sent) + 1] = [buf |-> sbuf, records |-> out_buf]
  BY <1>1 DEF SendDatagram, TypeInv, TypeOK
<1> QED  BY <1>2, ShippedIsHeld DEF SendDatagram

LEMMA HeldClear ==
  ASSUME TypeInv, FillInv, SenderClear, NEW i \in Buffers
  PROVE  HeldIn(i)' = IF i \in WordFlags[sbuf] /\ state[i] = 1 THEN {} ELSE HeldIn(i)
<1>1. UNCHANGED m_buffer
  BY DEF SenderClear
<1>2. HeldIn(i)' = {m_buffer[i][s].time : s \in 1..Held(i)'}
  BY <1>1 DEF HeldIn
<1>3. CASE i \in WordFlags[sbuf] /\ state[i] = 1
  <2>1. Held(i)' = 0
    BY <1>3, FlagsAfterClear
  <2> QED  BY <1>2, <1>3, <2>1
<1>4. CASE ~(i \in WordFlags[sbuf] /\ state[i] = 1)
  <2>1. Held(i)' = Held(i)
    BY <1>4, FlagsAfterClear
  <2> QED  BY <1>2, <1>4, <2>1 DEF HeldIn
<1> QED  BY <1>3, <1>4

(* Steps of one kind: they change neither buffers nor datagrams.           *)
Quiet == \/ CopyBegin \/ CopyEnd
         \/ UNCHANGED <<m_buffer, pos, state>>

LEMMA StepKinds ==
  ASSUME [Next]_vars
  PROVE  \/ Publish \/ SenderClear \/ SendDatagram
         \/ \E f \in Forms : DebugExit(f)
         \/ /\ Quiet /\ UNCHANGED <<sent, exits, OutPutCount>>
            /\ TestSecond \/ UNCHANGED MissCount
            /\ hpc' # "guest" => hpc # "guest"
BY DEF Next, vars, shared, handler, thread, HandlerStep, TestFirst, TestSecond, Choose,
   CopyBegin, CopyEnd, SenderStep, SenderTest, CompressEntry, SendError, SenderWake, Quiet
-----------------------------------------------------------------------------
(***************************************************************************)
(* Places.  The time t is found with buffer i if it is in a slot of i, in   *)
(* what the thread has read of i, or in a datagram of i.  Only CopyEnd puts *)
(* a time where it was not, and that of the present exit.                  *)
(***************************************************************************)
Found(i, t) ==
  \/ \E s \in Slots : m_buffer[i][s].time = t
  \/ Shipping(i) /\ \E s \in 1..Len(out_buf) : out_buf[s].time = t
  \/ \E k \in 1..Len(sent) : sent[k].buf = i /\ t \in TimesOf(sent[k])

LEMMA FoundStep ==
  ASSUME TypeInv, [Next]_vars, NEW i \in Buffers, NEW t, Found(i, t)'
  PROVE  Found(i, t) \/ t = 0 \/ (CopyEnd /\ i = target /\ t = Now)
<1>1. CASE CopyEnd
  <2>1. UNCHANGED <<spc, sbuf, out_buf, sent>>
    BY <1>1 DEF CopyEnd, thread
  <2>2. \A s \in Slots : \/ m_buffer'[i][s] = m_buffer[i][s]
                         \/ i = target /\ m_buffer'[i][s] = EntryAt(Now)
    BY <1>1 DEF CopyEnd, TypeInv, TypeOK
  <2>3. EntryAt(Now).time = Now
    BY DEF EntryAt
  <2> QED  BY <1>1, <2>1, <2>2, <2>3 DEF Found, Shipping, TimesOf
<1>2. CASE CopyBegin
  <2>1. UNCHANGED <<spc, sbuf, out_buf, sent>>
    BY <1>2 DEF CopyBegin, thread
  <2>2. \A s \in Slots : m_buffer'[i][s] = m_buffer[i][s] \/ m_buffer'[i][s] = Torn
    BY <1>2 DEF CopyBegin, TypeInv, TypeOK
  <2>3. Torn.time = 0
    BY DEF Torn
  <2> QED  BY <2>1, <2>2, <2>3 DEF Found, Shipping, TimesOf
<1>3. CASE CompressEntry
  <2>1. UNCHANGED <<m_buffer, sbuf, sent>> /\ Shipping(sbuf)
    BY <1>3 DEF CompressEntry, shared, Shipping
  <2>2. Len(out_buf) + 1 \in Slots /\ sbuf \in Buffers
    BY <1>3, BatchArithmetic, SizeAssumption
       DEF ReadInv, CompressEntry, Slots, TypeInv, TypeOK
  <2>3. m_buffer[sbuf][Len(out_buf) + 1] \in Entry
    BY <2>2 DEF TypeInv, TypeOK
  <2>4. \A s \in 1..Len(out_buf') : \/ s \in 1..Len(out_buf) /\ out_buf'[s] = out_buf[s]
                                   \/ out_buf'[s] = m_buffer[sbuf][Len(out_buf) + 1]
    BY <1>3, <2>3 DEF CompressEntry, TypeInv, TypeOK
  <2>5. Shipping(i)' => i = sbuf
    BY <2>1 DEF Shipping
  <2> QED  BY <2>1, <2>2, <2>4, <2>5 DEF Found, TimesOf
<1>4. CASE SendDatagram
  <2>1. UNCHANGED <<m_buffer, sbuf, out_buf>> /\ Shipping(sbuf)
    BY <1>4 DEF SendDatagram, shared, Shipping
  <2>2. [buf |-> sbuf, records |-> out_buf] \in Batch
    BY DEF Batch, TypeInv, TypeOK
  <2>3. \A k \in 1..Len(sent') : \/ k \in 1..Len(sent) /\ sent'[k] = sent[k]
                                \/ sent'[k] = [buf |-> sbuf, records |-> out_buf]
    BY <1>4, <2>2 DEF SendDatagram, TypeInv, TypeOK
  <2>4. Shipping(i)' => i = sbuf
    BY <2>1 DEF Shipping
  <2> QED  BY <2>1, <2>3, <2>4 DEF Found, TimesOf
<1>5. CASE UNCHANGED <<m_buffer, sent>> /\
           (out_buf' = << >> \/ UNCHANGED <<spc, sbuf, out_buf>>
              \/ (UNCHANGED out_buf /\ spc' \notin {"compress", "send", "clear"})
              \/ (UNCHANGED <<sbuf, out_buf>> /\ Shipping(sbuf)))
  BY <1>5 DEF Found, Shipping, TimesOf
<1> QED
  BY <1>1, <1>2, <1>3, <1>4, <1>5 DEF Next, vars, shared, handler, thread, DebugExit,
     HandlerStep, TestFirst, TestSecond, Choose, Publish, SenderStep, SenderTest,
     SendError, SenderClear, SenderWake, MoveOn

(* No time is found with both buffers, and the time of the exit being        *)
(* handled is found only when its record has been copied.                   *)
PlaceInv ==
  \A i \in Buffers : \A t : Found(i, t) /\ t # 0 =>
    /\ t \in 1..Now
    /\ t = Now => hpc = "guest" \/ (hpc = "publish" /\ target = i)
    /\ \A j \in Buffers : j # i => ~Found(j, t)

LEMMA PlaceStep ==
  ASSUME TypeInv, FillInv, PlaceInv, [Next]_vars
  PROVE  PlaceInv'
<1>1. SUFFICES ASSUME NEW i \in Buffers, NEW t, Found(i, t)', t # 0
               PROVE  /\ t \in 1..Now'
                      /\ t = Now' => hpc' = "guest" \/ (hpc' = "publish" /\ target' = i)
                      /\ \A j \in Buffers : j # i => ~Found(j, t)'
  BY DEF PlaceInv
<1>2. CASE CopyEnd /\ i = target /\ t = Now
  <2>1. UNCHANGED <<exits, target>> /\ hpc = "copying" /\ hpc' = "publish"
    BY <1>2 DEF CopyEnd
  <2>2. Now' = Now /\ t \in 1..Now
    BY <1>2, <2>1 DEF FillInv, Now
  <2>3. \A j \in Buffers : ~Found(j, t)
    BY <1>1, <1>2, <2>1 DEF PlaceInv
  <2>4. \A j \in Buffers : j # i => ~Found(j, t)'
    BY <1>1, <1>2, <2>3, FoundStep
  <2> QED  BY <1>2, <2>1, <2>2, <2>4
<1>3. CASE Found(i, t)
  <2>1. t \in 1..Now /\ t \in Int /\ \A j \in Buffers : j # i => ~Found(j, t)
    BY <1>1, <1>3 DEF PlaceInv
  <2>2. t = Now => hpc = "guest" \/ (hpc = "publish" /\ target = i)
    BY <1>1, <1>3 DEF PlaceInv
  <2>3. \A j \in Buffers : j # i => ~Found(j, t)'
    <3>1. SUFFICES ASSUME NEW j \in Buffers, j # i, Found(j, t)' PROVE FALSE
      OBVIOUS
    <3>2. CopyEnd /\ j = target /\ t = Now
      BY <1>1, <2>1, <3>1, FoundStep
    <3> QED  BY <2>2, <3>1, <3>2 DEF CopyEnd
  <2>4. CASE UNCHANGED exits
    <3>1. Now' = Now
      BY <2>4 DEF Now
    <3>2. t = Now => hpc' = "guest" \/ (hpc' = "publish" /\ target' = i)
      BY <2>2, <2>4 DEF Next, vars, handler, DebugExit, HandlerStep, TestFirst, TestSecond,
         Choose, CopyBegin, CopyEnd, Publish, SenderStep, SenderTest, CompressEntry,
         SendDatagram, SendError, SenderClear, SenderWake, TypeInv, TypeOK
    <3> QED  BY <2>1, <2>3, <3>1, <3>2
  <2>5. ASSUME NEW f \in Forms, DebugExit(f)
        PROVE  t \in 1..Now' /\ t # Now'
    BY <2>1, <2>5 DEF DebugExit, Now, TypeInv, TypeOK
  <2>6. UNCHANGED exits \/ \E f \in Forms : DebugExit(f)
    BY DEF Next, vars, handler, HandlerStep, TestFirst, TestSecond,
       Choose, CopyBegin, CopyEnd, Publish, SenderStep, SenderTest, CompressEntry,
       SendDatagram, SendError, SenderClear, SenderWake
  <2> QED  BY <2>3, <2>4, <2>5, <2>6
<1> QED  BY <1>1, <1>2, <1>3, FoundStep

LEMMA PlaceInvariant == Spec => []PlaceInv
<1>1. Init => PlaceInv
  BY DEF Init, PlaceInv, Found, Shipping, TimesOf, Torn
<1> QED  BY <1>1, PlaceStep, TypeInvariant, FillInvariant, PTL DEF Spec
-----------------------------------------------------------------------------
(***************************************************************************)
(* Order.  Until its datagram has been sent, what a buffer holds is younger *)
(* than everything sent from it.                                           *)
(***************************************************************************)
Unsent(i) == ~(spc = "clear" /\ sbuf = i)

OrderInv ==
  /\ \A k, l \in 1..Len(sent) :
       k < l /\ sent[k].buf = sent[l].buf /\ Alone(sent[k].buf) =>
         \A t \in TimesOf(sent[k]), u \in TimesOf(sent[l]) : t < u
  /\ \A k \in 1..Len(sent) : Alone(sent[k].buf) =>
       \A t \in TimesOf(sent[k]) :
         /\ t \in 1..Now /\ (hpc # "guest" => t < Now)
         /\ Unsent(sent[k].buf) => \A u \in HeldIn(sent[k].buf) : t < u

(* The same for what the buffers hold, from FillInv. *)
LEMMA HeldTraced ==
  ASSUME FillInv, NEW i \in Buffers, NEW t \in HeldIn(i)
  PROVE  t \in TracedTimes /\ t \in 1..Now /\ (hpc # "guest" => t < Now)
BY DEF FillInv, HeldIn, Genuine, TracedTimes

LEMMA SentBuffers ==
  ASSUME TypeInv PROVE \A k \in 1..Len(sent) : sent[k].buf \in Buffers
<1>1. \A k \in 1..Len(sent) : sent[k] \in Batch
  BY DEF TypeInv, TypeOK
<1> QED  BY <1>1 DEF Batch

(* Nothing is sent, and what the buffers hold is younger or as it was. *)
LEMMA OrderKept ==
  ASSUME TypeInv, OrderInv, UNCHANGED sent, Now' = Now \/ Now' = Now + 1,
         hpc' # "guest" => hpc # "guest" \/ Now' = Now + 1,
         \A i \in Buffers : Unsent(i)' =>
           \A u \in HeldIn(i)' : (Unsent(i) /\ u \in HeldIn(i)) \/ (hpc # "guest" /\ u = Now)
  PROVE  OrderInv'
<1>1. \A b : TimesOf(b)' = TimesOf(b) /\ Alone(b)' = Alone(b)
  BY DEF TimesOf, Alone
<1>2. Now \in Nat
  BY DEF Now, TypeInv, TypeOK
<1>3. ASSUME NEW k \in 1..Len(sent), Alone(sent[k].buf), NEW t \in TimesOf(sent[k])
      PROVE  /\ t \in 1..Now' /\ (hpc' # "guest" => t < Now')
             /\ Unsent(sent[k].buf)' => \A u \in HeldIn(sent[k].buf)' : t < u
  <2>1. t \in 1..Now /\ (hpc # "guest" => t < Now)
    BY <1>3 DEF OrderInv
  <2>2. t \in 1..Now' /\ (hpc' # "guest" => t < Now')
    BY <1>2, <2>1
  <2>3. ASSUME Unsent(sent[k].buf)', NEW u \in HeldIn(sent[k].buf)' PROVE t < u
    BY <1>3, <2>1, <2>3, SentBuffers DEF OrderInv
  <2> QED  BY <2>2, <2>3
<1> QED  BY <1>1, <1>3 DEF OrderInv, Unsent

LEMMA OrderSend ==
  ASSUME TypeInv, ExclusionInv, ShipInv, FillInv, OrderInv, SendDatagram
  PROVE  OrderInv'
<1>1. /\ UNCHANGED <<m_buffer, pos, state, exits, hpc, sbuf>>
      /\ spc = "send" /\ spc' = "clear" /\ sbuf \in Buffers
  BY DEF SendDatagram, shared, handler, TypeInv, TypeOK
<1>2. /\ \A i \in Buffers : HeldIn(i)' = HeldIn(i)
      /\ Now' = Now
      /\ \A i \in Buffers : Unsent(i) /\ (Unsent(i)' <=> i # sbuf)
      /\ \A b : TimesOf(b)' = TimesOf(b) /\ Alone(b)' = Alone(b)
  BY <1>1 DEF HeldIn, Held, Now, Unsent, TimesOf, Alone
<1>3. \A k \in 1..Len(sent') :
        \/ k \in 1..Len(sent) /\ sent'[k] = sent[k]
        \/ /\ k = Len(sent) + 1 /\ sent'[k].buf = sbuf
           /\ Alone(sbuf) => TimesOf(sent'[k]) = HeldIn(sbuf)
  BY HeldSend
<1>4. ASSUME NEW k \in 1..Len(sent'), NEW l \in 1..Len(sent'), k < l,
             sent'[k].buf = sent'[l].buf, Alone(sent'[k].buf),
             NEW t \in TimesOf(sent'[k]), NEW u \in TimesOf(sent'[l])
      PROVE  t < u
  <2>1. k \in 1..Len(sent) /\ sent'[k] = sent[k]
    BY <1>4, HeldSend
  <2>2. CASE l \in 1..Len(sent) /\ sent'[l] = sent[l]
    BY <1>4, <2>1, <2>2 DEF OrderInv
  <2>3. CASE l = Len(sent) + 1 /\ sent'[l].buf = sbuf
    <3>1. sent[k].buf = sbuf /\ u \in HeldIn(sbuf) /\ Unsent(sbuf)
      BY <1>1, <1>2, <1>3, <1>4, <2>1, <2>3, HeldSend
    <3> QED  BY <1>4, <2>1, <3>1 DEF OrderInv
  <2> QED  BY <1>3, <2>2, <2>3
<1>5. ASSUME NEW k \in 1..Len(sent'), Alone(sent'[k].buf), NEW t \in TimesOf(sent'[k])
      PROVE  /\ t \in 1..Now /\ (hpc # "guest" => t < Now)
             /\ sent'[k].buf # sbuf => \A u \in HeldIn(sent'[k].buf) : t < u
  <2>1. CASE k \in 1..Len(sent) /\ sent'[k] = sent[k]
    <3>1. sent[k].buf # sbuf => Unsent(sent[k].buf)
      BY DEF Unsent
    <3> QED  BY <1>5, <2>1, <3>1 DEF OrderInv
  <2>2. CASE sent'[k].buf = sbuf /\ (Alone(sbuf) => TimesOf(sent'[k]) = HeldIn(sbuf))
    BY <1>1, <1>5, <2>2, HeldTraced
  <2> QED  BY <1>3, <2>1, <2>2
<1>6. ASSUME NEW k \in 1..Len(sent'), Alone(sent'[k].buf), NEW t \in TimesOf(sent'[k]),
             Unsent(sent[k].buf)'
      PROVE  \A u \in HeldIn(sent[k].buf)' : t < u
  <2>1. ASSUME NEW i \in Buffers, i = sent'[k].buf
        PROVE  \A u \in HeldIn(i)' : t < u
    <3>1. i # sbuf
      BY <1>1, <1>6, <2>1 DEF Unsent
    <3> QED  BY <1>2, <1>5, <1>6, <2>1, <3>1
  <2>2. sent'[k].buf \in Buffers
    BY <1>1, <1>3, SentBuffers
  <2> QED  BY <2>1, <2>2
<1> QED  BY <1>1, <1>2, <1>4, <1>5, <1>6 DEF OrderInv

LEMMA OrderClear ==
  ASSUME TypeInv, ExclusionInv, FillInv, OrderInv, SenderClear
  PROVE  OrderInv'
<1>1. UNCHANGED <<sent, exits, hpc>> /\ spc = "clear" /\ sbuf \in Buffers
  BY DEF SenderClear, handler, TypeInv, TypeOK
<1>2. Now' = Now /\ \A b : TimesOf(b)' = TimesOf(b) /\ Alone(b)' = Alone(b)
  BY <1>1 DEF Now, TimesOf, Alone
<1>3. ASSUME NEW i \in Buffers, Alone(i), NEW u \in HeldIn(i)'
      PROVE  Unsent(i) /\ u \in HeldIn(i)
  <2>1. ASSUME i = sbuf PROVE FALSE
    <3>1. state[i] = 1 /\ i \in WordFlags[sbuf]
      BY <1>1, <1>3, <2>1 DEF ExclusionInv, Shipping, Alone
    <3>2. HeldIn(i)' = {}
      BY <3>1, HeldClear
    <3> QED  BY <1>3, <3>2
  <2> QED  BY <1>3, <2>1, HeldClear DEF Unsent
<1>4. \A k \in 1..Len(sent) : sent[k].buf \in Buffers
  BY SentBuffers
<1>5. ASSUME NEW k \in 1..Len(sent), Alone(sent[k].buf), NEW t \in TimesOf(sent[k]),
             NEW u \in HeldIn(sent[k].buf)'
      PROVE  t < u
  <2>1. ASSUME NEW i \in Buffers, i = sent[k].buf, u \in HeldIn(i)' PROVE t < u
    BY <1>3, <1>5, <2>1 DEF OrderInv
  <2> QED  BY <1>1, <1>4, <1>5, <2>1
<1>6. ASSUME NEW k \in 1..Len(sent), Alone(sent[k].buf), NEW t \in TimesOf(sent[k])
      PROVE  t \in 1..Now /\ (hpc # "guest" => t < Now)
  BY <1>6 DEF OrderInv
<1> QED  BY <1>1, <1>2, <1>5, <1>6 DEF OrderInv

LEMMA OrderStep ==
  ASSUME TypeInv, OffsetInv, ExclusionInv, ShipInv, FillInv, OrderInv, [Next]_vars
  PROVE  OrderInv'
<1>1. ASSUME NEW f \in Forms, DebugExit(f) PROVE OrderInv'
  <2>1. UNCHANGED <<m_buffer, pos, state, sent, spc, sbuf>> /\ Now' = Now + 1
    BY <1>1 DEF DebugExit, shared, thread, Now, TypeInv, TypeOK
  <2>2. \A i \in Buffers : HeldIn(i)' = HeldIn(i) /\ (Unsent(i)' <=> Unsent(i))
    BY <2>1 DEF HeldIn, Held, Unsent
  <2> QED  BY <2>1, <2>2, OrderKept
<1>2. CASE Publish
  <2>1. UNCHANGED <<sent, exits, spc, sbuf>> /\ hpc = "publish" /\ hpc' = "guest"
    BY <1>2 DEF Publish, thread
  <2>2. Now' = Now /\ \A i \in Buffers : Unsent(i)' <=> Unsent(i)
    BY <2>1 DEF Now, Unsent
  <2>3. \A i \in Buffers : \A u \in HeldIn(i)' : u \in HeldIn(i) \/ u = Now
    BY <1>2, HeldPublish
  <2> QED  BY <2>1, <2>2, <2>3, OrderKept
<1>3. CASE Quiet /\ UNCHANGED <<sent, exits>> /\ (hpc' # "guest" => hpc # "guest")
           /\ ~SenderClear /\ ~SendDatagram
  <2>1. Now' = Now /\ \A i \in Buffers : HeldIn(i)' = HeldIn(i)
    BY <1>3, HeldKept DEF Quiet, Now
  <2>2. spc = "clear" => UNCHANGED <<spc, sbuf>>
    BY <1>3 DEF Next, vars, thread, DebugExit, HandlerStep, TestFirst, TestSecond, Choose,
       CopyBegin, CopyEnd, Publish, SenderStep, SenderTest, CompressEntry, SendDatagram,
       SendError, SenderWake
  <2>3. \A i \in Buffers : Unsent(i)' => Unsent(i)
    BY <2>2 DEF Unsent
  <2> QED  BY <1>3, <2>1, <2>3, OrderKept
<1> QED  BY <1>1, <1>2, <1>3, StepKinds, OrderSend, OrderClear

LEMMA OrderInvariant == Spec => []OrderInv
<1>1. Init => OrderInv
  BY DEF Init, OrderInv
<1> QED  BY <1>1, OrderStep, TypeInvariant, OffsetInvariant, ExclusionInvariant,
            ShipInvariant, FillInvariant, PTL DEF Spec

(* Wherever the flags lie, no record leaves through both buffers; and the     *)
(* batches of a buffer whose flag is alone leave in the order in which they   *)
(* were recorded, no record twice.                                           *)
THEOREM BatchesInOrder == Spec => []BatchOrder
<1>1. TypeInv /\ PlaceInv /\ OrderInv => BatchOrder
  <2>1. SUFFICES ASSUME TypeInv, PlaceInv, OrderInv,
                        NEW k \in 1..Len(sent), NEW l \in 1..Len(sent), k < l
                 PROVE  IF sent[k].buf # sent[l].buf
                        THEN TimesOf(sent[k]) \cap TimesOf(sent[l]) \subseteq {Torn.time}
                        ELSE Alone(sent[k].buf) =>
                               \A t \in TimesOf(sent[k]), u \in TimesOf(sent[l]) : t < u
    BY DEF BatchOrder
  <2>2. ASSUME sent[k].buf # sent[l].buf,
               NEW t \in TimesOf(sent[k]), t \in TimesOf(sent[l])
        PROVE  t = 0
    <3>1. Found(sent[k].buf, t) /\ Found(sent[l].buf, t)
      BY <2>2 DEF Found
    <3> QED  BY <2>1, <2>2, <3>1, SentBuffers DEF PlaceInv
  <2> QED  BY <2>1, <2>2 DEF OrderInv, Torn
<1> QED  BY <1>1, TypeInvariant, PlaceInvariant, OrderInvariant, PTL
-----------------------------------------------------------------------------
(***************************************************************************)
(* Loss.  A step adds to what is kept, unless it clears a word of several   *)
(* flags.                                                                  *)
(***************************************************************************)
LEMMA KeptMembers ==
  \A t : t \in Kept <=> \/ \E k \in 1..Len(sent) : t \in TimesOf(sent[k])
                        \/ \E i \in Buffers : t \in HeldIn(i)
BY DEF Kept, SentTimes, HeldTimes, HeldIn

LEMMA KeptMembersNext ==
  \A t : t \in Kept' <=> \/ \E k \in 1..Len(sent') : t \in TimesOf(sent'[k])
                         \/ \E i \in Buffers : t \in HeldIn(i)'
BY DEF Kept, SentTimes, HeldTimes, HeldIn, TimesOf

LEMMA KeptGrows ==
  ASSUME TypeInv, OffsetInv, ExclusionInv, ShipInv, FillInv, [Next]_vars,
         ~(SenderClear /\ ~Alone(sbuf))
  PROVE  Kept \subseteq Kept'
<1>1. CASE SenderClear
  <2>1. UNCHANGED sent /\ spc = "clear" /\ sbuf \in Buffers
    BY <1>1 DEF SenderClear, TypeInv, TypeOK
  <2>2. sent # << >> /\ sent[Len(sent)] = [buf |-> sbuf, records |-> out_buf]
    BY <2>1 DEF ShipInv
  <2>3. Len(sent) \in 1..Len(sent)
    BY <2>2 DEF TypeInv, TypeOK
  <2>4. TimesOf(sent[Len(sent)]) = HeldIn(sbuf)
    BY <1>1, <2>1, <2>2, ShippedIsHeld
  <2>5. \A i \in Buffers : i # sbuf => HeldIn(i)' = HeldIn(i)
    BY <1>1, HeldClear DEF Alone
  <2> QED  BY <2>1, <2>3, <2>4, <2>5, KeptMembers, KeptMembersNext
<1>2. CASE Publish
  <2>1. UNCHANGED sent
    BY <1>2 DEF Publish, thread
  <2> QED  BY <1>2, <2>1, HeldPublish, KeptMembers, KeptMembersNext
<1>3. CASE SendDatagram
  <2>1. \A i \in Buffers : HeldIn(i)' = HeldIn(i)
    BY <1>3 DEF SendDatagram, shared, HeldIn, Held
  <2>2. \A k \in 1..Len(sent) : k \in 1..Len(sent') /\ sent'[k] = sent[k]
    BY <1>3, HeldSend
  <2> QED  BY <2>1, <2>2, KeptMembers, KeptMembersNext
<1>4. CASE Quiet /\ UNCHANGED sent
  <2>1. \A i \in Buffers : HeldIn(i)' = HeldIn(i)
    BY <1>4, HeldKept DEF Quiet
  <2> QED  BY <1>4, <2>1, KeptMembers, KeptMembersNext
<1>5. ASSUME NEW f \in Forms, DebugExit(f) PROVE Quiet /\ UNCHANGED sent
  BY <1>5 DEF DebugExit, shared, thread, Quiet
<1> QED  BY <1>1, <1>2, <1>3, <1>4, <1>5, StepKinds

(* Wherever the flags lie, a record that was kept is lost only when the       *)
(* thread clears a word that covers the flag of the other buffer too.         *)
THEOREM WideClearIsTheOnlyLoss == Spec => LostOnlyByWideClear
<1>1. TypeInv /\ OffsetInv /\ ExclusionInv /\ ShipInv /\ FillInv /\ [Next]_vars =>
        [Kept \subseteq Kept' \/ (SenderClear /\ ~Alone(sbuf))]_vars
  BY KeptGrows
<1> QED  BY <1>1, TypeInvariant, OffsetInvariant, ExclusionInvariant, ShipInvariant,
            FillInvariant, PTL DEF Spec, LostOnlyByWideClear
-----------------------------------------------------------------------------
(***************************************************************************)
(* Counting.  The settled branches are those recorded, P, and those missed; *)
(* no time outside P is found anywhere, and all of P is still kept if each  *)
(* flag is alone.                                                          *)
(***************************************************************************)
Recorded(P) ==
  /\ Cardinality(P) = OutPutCount
  /\ Cardinality(Settled \ P) = MissCount
  /\ \A i \in Buffers : \A t \in Settled : Found(i, t) => t \in P
  /\ Separate => P \subseteq Kept

CountInv == \E P \in SUBSET Settled : Recorded(P)

LEMMA SettledFinite == ASSUME TypeInv PROVE IsFiniteSet(Settled)
<1>1. IsFiniteSet(1..Now)
  BY FS_Interval DEF Now, TypeInv, TypeOK
<1>2. Settled \in SUBSET (1..Now)
  BY DEF Settled, TracedTimes
<1> QED  BY <1>1, <1>2, FS_Subset

(* Nothing settles. *)
LEMMA CountSame ==
  ASSUME CountInv, Settled' = Settled, UNCHANGED <<MissCount, OutPutCount>>,
         \A i \in Buffers : \A t \in Settled : Found(i, t)' => Found(i, t),
         Separate => Kept \subseteq Kept'
  PROVE  CountInv'
<1>1. PICK P \in SUBSET Settled : Recorded(P)
  BY DEF CountInv
<1>2. /\ Cardinality(P) = OutPutCount' /\ Cardinality(Settled' \ P) = MissCount'
      /\ \A i \in Buffers : \A t \in Settled' : Found(i, t)' => t \in P
      /\ Separate => P \subseteq Kept'
  BY <1>1 DEF Recorded
<1>3. Separate' = Separate
  BY DEF Separate, Alone
<1>4. Recorded(P)'
  BY <1>2, <1>3 DEF Recorded
<1> QED  BY <1>1, <1>4 DEF CountInv

(* One branch settles: it is recorded, ... *)
LEMMA CountRecorded ==
  ASSUME TypeInv, CountInv, NEW n, n \notin Settled, Settled' = Settled \cup {n},
         MissCount' = MissCount, OutPutCount' = OutPutCount + 1,
         \A i \in Buffers : \A t \in Settled : Found(i, t)' => Found(i, t),
         Separate => Kept \subseteq Kept' /\ n \in Kept'
  PROVE  CountInv'
<1>1. PICK P \in SUBSET Settled : Recorded(P)
  BY DEF CountInv
<1>2. IsFiniteSet(P) /\ n \notin P
  BY <1>1, SettledFinite, FS_Subset
<1>3. Cardinality(P \cup {n}) = OutPutCount'
  BY <1>1, <1>2, FS_AddElement DEF Recorded
<1>4. Settled' \ (P \cup {n}) = Settled \ P
  BY <1>1
<1>5. Cardinality(Settled' \ (P \cup {n})) = MissCount'
  BY <1>1, <1>4 DEF Recorded
<1>6. /\ \A i \in Buffers : \A t \in Settled' : Found(i, t)' => t \in P \cup {n}
      /\ Separate => P \cup {n} \subseteq Kept'
  BY <1>1 DEF Recorded
<1>7. Separate' = Separate
  BY DEF Separate, Alone
<1>8. Recorded(P \cup {n})'
  BY <1>3, <1>5, <1>6, <1>7 DEF Recorded
<1>9. P \cup {n} \in SUBSET Settled'
  BY <1>1
<1> QED  BY <1>8, <1>9 DEF CountInv

(* ... or missed. *)
LEMMA CountMissed ==
  ASSUME TypeInv, CountInv, NEW n, n \notin Settled, Settled' = Settled \cup {n},
         MissCount' = MissCount + 1, OutPutCount' = OutPutCount,
         \A i \in Buffers : ~Found(i, n)',
         \A i \in Buffers : \A t \in Settled : Found(i, t)' => Found(i, t),
         Separate => Kept \subseteq Kept'
  PROVE  CountInv'
<1>1. PICK P \in SUBSET Settled : Recorded(P)
  BY DEF CountInv
<1>2. IsFiniteSet(Settled \ P) /\ n \notin Settled \ P
  BY SettledFinite, FS_Subset
<1>3. Settled' \ P = (Settled \ P) \cup {n}
  BY <1>1
<1>4. Cardinality(Settled' \ P) = MissCount'
  BY <1>1, <1>2, <1>3, FS_AddElement DEF Recorded
<1>5. /\ Cardinality(P) = OutPutCount'
      /\ \A i \in Buffers : \A t \in Settled' : Found(i, t)' => t \in P
      /\ Separate => P \subseteq Kept'
  BY <1>1 DEF Recorded
<1>6. Separate' = Separate
  BY DEF Separate, Alone
<1>7. Recorded(P)'
  BY <1>4, <1>5, <1>6 DEF Recorded
<1>8. P \in SUBSET Settled'
  BY <1>1
<1> QED  BY <1>7, <1>8 DEF CountInv

(* While an exit is being handled, its branch is not settled; after it, the  *)
(* branch is, when it is traced.                                            *)
LEMMA NowSettles ==
  ASSUME TypeInv, FillInv, hpc # "guest", hpc' = "guest", UNCHANGED exits
  PROVE  /\ Now \in 1..Now /\ Now \notin Settled
         /\ Settled' = IF Traced(CurrentForm) THEN Settled \cup {Now} ELSE Settled
<1>1. Now \in 1..Now
  BY DEF FillInv
<1>2. Settled = TracedTimes \ {Now} /\ Settled' = TracedTimes
  BY DEF Settled, InFlight, TracedTimes, Now
<1>3. Now \in TracedTimes <=> Traced(CurrentForm)
  BY <1>1 DEF TracedTimes, CurrentForm
<1> QED  BY <1>1, <1>2, <1>3

(* What is found of the settled branches was found before. *)
LEMMA FoundKept ==
  ASSUME TypeInv, [Next]_vars, NEW i \in Buffers, NEW t \in Settled, Found(i, t)'
  PROVE  Found(i, t)
<1>1. t # 0
  BY DEF Settled, TracedTimes
<1>2. CopyEnd => t # Now
  BY DEF Settled, InFlight, CopyEnd
<1> QED  BY <1>1, <1>2, FoundStep

LEMMA SettledSame ==
  ASSUME TypeInv, FillInv, [Next]_vars, ~Publish, ~(TestSecond /\ MissCount' # MissCount)
  PROVE  Settled' = Settled /\ UNCHANGED <<MissCount, OutPutCount>>
<1>1. UNCHANGED <<MissCount, OutPutCount>>
  BY DEF Next, vars, handler, DebugExit, HandlerStep, TestFirst, TestSecond, Choose,
     CopyBegin, CopyEnd, SenderStep, SenderTest, CompressEntry, SendDatagram,
     SendError, SenderClear, SenderWake
<1>2. ASSUME NEW f \in Forms, DebugExit(f) PROVE Settled' = Settled
  <2>1. exits' = Append(exits, f) /\ hpc = "guest" /\ hpc' # "guest"
    BY <1>2 DEF DebugExit
  <2>2. Now' = Now + 1 /\ Now \in Nat /\ \A t \in 1..Now : exits'[t] = exits[t]
    BY <2>1 DEF Now, TypeInv, TypeOK
  <2>3. TracedTimes' \ {Now'} = TracedTimes
    BY <2>2 DEF TracedTimes, Traced
  <2> QED  BY <2>1, <2>3 DEF Settled, InFlight
<1>3. CASE hpc # "guest" /\ hpc' = "guest" /\ UNCHANGED exits
  <2>1. TestFirst \/ TestSecond
    BY <1>3 DEF Next, vars, handler, DebugExit, HandlerStep, CopyBegin, CopyEnd, SenderStep,
       SenderTest, CompressEntry, SendDatagram, SendError, SenderClear, SenderWake
  <2>2. CASE TestFirst
    <3>1. ~Traced(CurrentForm)
      BY <1>3, <2>2 DEF TestFirst, Choose
    <3> QED  BY <1>1, <1>3, <3>1, NowSettles
  <2>3. CASE TestSecond
    <3>1. ~Traced(CurrentForm)
      <4>1. MissCount' = MissCount /\ MissCount \in Nat
        BY <1>1 DEF TypeInv, TypeOK
      <4>2. CASE state[2] = 0 /\ Choose(2)
        BY <1>3, <4>2 DEF Choose
      <4>3. CASE MissCount' = MissCount + (IF Traced(CurrentForm) THEN 1 ELSE 0)
        BY <4>1, <4>3
      <4> QED  BY <2>3, <4>2, <4>3 DEF TestSecond
    <3> QED  BY <1>1, <1>3, <3>1, NowSettles
  <2> QED  BY <2>1, <2>2, <2>3
<1>4. CASE UNCHANGED exits /\ (hpc = "guest" <=> hpc' = "guest")
  BY <1>1, <1>4 DEF Settled, InFlight, TracedTimes, Now
<1>5. \/ \E f \in Forms : DebugExit(f)
      \/ UNCHANGED exits /\ (hpc' # "guest" => hpc # "guest")
  BY DEF Next, vars, handler, HandlerStep, TestFirst, TestSecond, Choose,
     CopyBegin, CopyEnd, Publish, SenderStep, SenderTest, CompressEntry, SendDatagram,
     SendError, SenderClear, SenderWake
<1> QED  BY <1>1, <1>2, <1>3, <1>4, <1>5

LEMMA CountStep ==
  ASSUME TypeInv, OffsetInv, ExclusionInv, ShipInv, FillInv, PlaceInv, CountInv, [Next]_vars
  PROVE  CountInv'
<1>1. \A i \in Buffers : \A t \in Settled : Found(i, t)' => Found(i, t)
  BY FoundKept
<1>2. Separate => Kept \subseteq Kept'
  <2>1. Separate => Alone(sbuf)
    BY DEF Separate, TypeInv, TypeOK
  <2> QED  BY <2>1, KeptGrows
<1>3. CASE Publish
  <2>1. /\ UNCHANGED exits /\ MissCount' = MissCount /\ OutPutCount' = OutPutCount + 1
        /\ hpc = "publish" /\ hpc' = "guest"
    BY <1>3 DEF Publish
  <2>2. Now \notin Settled /\ Settled' = Settled \cup {Now}
    BY <2>1, NowSettles DEF FillInv
  <2>3. Now \in Kept'
    BY <1>3, HeldPublish, KeptMembersNext
  <2> QED  BY <1>1, <1>2, <2>1, <2>2, <2>3, CountRecorded
<1>4. CASE TestSecond /\ MissCount' # MissCount
  <2>1. /\ UNCHANGED exits /\ MissCount' = MissCount + 1 /\ OutPutCount' = OutPutCount
        /\ hpc = "test2" /\ hpc' = "guest" /\ Traced(CurrentForm)
    BY <1>4 DEF TestSecond, Choose, TypeInv, TypeOK
  <2>2. Now \in 1..Now /\ Now \notin Settled /\ Settled' = Settled \cup {Now}
    BY <2>1, NowSettles
  <2>3. \A i \in Buffers : ~Found(i, Now)
    BY <2>1, <2>2 DEF PlaceInv
  <2>4. \A i \in Buffers : \A t : t = Now => ~Found(i, t)'
    BY <2>1, <2>2, <2>3, FoundStep DEF CopyEnd
  <2>5. ASSUME NEW n, n = Now PROVE CountInv'
    <3>1. \A i \in Buffers : ~Found(i, n)'
      BY <2>4, <2>5
    <3> QED  BY <1>1, <1>2, <2>1, <2>2, <2>5, <3>1, CountMissed
  <2> QED  BY <2>5
<1>5. CASE ~Publish /\ ~(TestSecond /\ MissCount' # MissCount)
  BY <1>1, <1>2, <1>5, SettledSame, CountSame
<1> QED  BY <1>3, <1>4, <1>5

LEMMA CountInvariant == Spec => []CountInv
<1>1. Init => CountInv
  <2>1. SUFFICES ASSUME Init PROVE CountInv
    OBVIOUS
  <2>2. Settled = {}
    BY <2>1 DEF Init, Settled, TracedTimes, Now
  <2>3. {} \in SUBSET Settled /\ Recorded({})
    BY <2>1, <2>2, FS_EmptySet DEF Init, Recorded
  <2> QED  BY <2>3 DEF CountInv
<1> QED  BY <1>1, CountStep, TypeInvariant, OffsetInvariant, ExclusionInvariant,
            ShipInvariant, FillInvariant, PlaceInvariant, PTL DEF Spec

(* What is kept is found. *)
LEMMA KeptIsFound ==
  ASSUME TypeInv, OffsetInv, NEW t \in Kept
  PROVE  \E i \in Buffers : Found(i, t)
<1>1. ASSUME NEW k \in 1..Len(sent), t \in TimesOf(sent[k])
      PROVE  \E i \in Buffers : Found(i, t)
  BY <1>1, SentBuffers DEF Found
<1>2. ASSUME NEW i \in Buffers, t \in HeldIn(i) PROVE Found(i, t)
  <2>1. PICK s \in 1..Held(i) : t = m_buffer[i][s].time
    BY <1>2 DEF HeldIn
  <2>2. s \in Slots
    BY HeldFacts, BatchArithmetic, SizeAssumption DEF Slots
  <2> QED  BY <2>1, <2>2 DEF Found
<1> QED  BY <1>1, <1>2, KeptMembers

(* Wherever the flags lie, MissCount and OutPutCount together count every      *)
(* traced branch once and what was counted as missed is nowhere to be found;   *)
(* where each flag is alone every recorded branch is in a buffer or a datagram *)
(* at every moment.                                                           *)
THEOREM CountersAccount == Spec => []Counted
<1>1. TypeInv /\ OffsetInv /\ CountInv => Counted
  <2>1. SUFFICES ASSUME TypeInv, OffsetInv, CountInv PROVE Counted
    OBVIOUS
  <2>2. PICK P \in SUBSET Settled : Recorded(P)
    BY <2>1 DEF CountInv
  <2>3. Settled \cap P = P /\ Settled \cap Kept \subseteq P
    BY <2>1, <2>2, KeptIsFound DEF Recorded
  <2>4. IsFiniteSet(Settled) /\ IsFiniteSet(P)
    BY <2>1, SettledFinite, FS_Subset
  <2>5. MissCount + OutPutCount = Cardinality(Settled)
    <3>1. Cardinality(Settled \ P) = Cardinality(Settled) - Cardinality(P)
      BY <2>3, <2>4, FS_Difference
    <3>2. Cardinality(Settled) \in Nat /\ Cardinality(P) \in Nat
      BY <2>4, FS_CardinalityType
    <3> QED  BY <2>2, <3>1, <3>2 DEF Recorded
  <2>6. MissCount <= Cardinality(Settled \ Kept)
    <3>1. Settled \ P \in SUBSET (Settled \ Kept) /\ IsFiniteSet(Settled \ Kept)
      BY <2>3, <2>4, FS_Difference
    <3> QED  BY <2>2, <3>1, FS_Subset DEF Recorded
  <2>7. Separate => Accounting
    <3>1. Separate => Settled \cap Kept = P /\ Settled \ Kept = Settled \ P
      BY <2>2, <2>3 DEF Recorded
    <3> QED  BY <2>2, <3>1 DEF Recorded, Accounting
  <2> QED  BY <2>5, <2>6, <2>7 DEF Counted
<1> QED  BY <1>1, TypeInvariant, OffsetInvariant, CountInvariant, PTL
=============================================================================
