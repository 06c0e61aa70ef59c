------------------------- MODULE TraceBuffersProofs -------------------------
(***************************************************************************)
(* Theorems about TraceBuffers, for every buffer size, record size, layout *)
(* of the flags, set of instruction forms and bound on the exits.          *)
(***************************************************************************)
EXTENDS TraceBuffers, TLAPS

(* The arithmetic of offsets: the mark is a whole number of records, and   *)
(* no more of them than a buffer is allocated for.                         *)
LEMMA BatchArithmetic ==
  /\ BatchSize \in Nat \ {0}
  /\ FullMark = BatchSize * EntrySize
  /\ BatchSize <= Capacity
<1>1. BatchSize \in Nat /\ FullMark = BatchSize * EntrySize
  BY SizeAssumption, Z3 DEF BatchSize
<1>2. BatchSize # 0
  BY <1>1, SizeAssumption
<1>3. BatchSize <= Capacity
  <2>1. SUFFICES ASSUME BatchSize >= Capacity + 1 PROVE FALSE
    BY <1>1, SizeAssumption
  <2>2. BatchSize * EntrySize >= (Capacity + 1) * EntrySize
    BY <1>1, <2>1, SizeAssumption, Z3
  <2>3. (Capacity + 1) * EntrySize > Capacity * EntrySize
    BY SizeAssumption, Z3
  <2> QED  BY <1>1, <2>2, <2>3, SizeAssumption
<1> QED  BY <1>1, <1>2, <1>3
-----------------------------------------------------------------------------
(* While it compresses, the thread has not yet read a whole batch. *)
ReadInv == spc = "compress" => Len(out_buf) < BatchSize

(* TypeOK needs ReadInv: it is what keeps the thread's reads inside a buffer. *)
TypeInv == TypeOK /\ ReadInv

LEMMA TypeInit == Init => TypeInv
BY BatchArithmetic, SizeAssumption
   DEF Init, TypeInv, TypeOK, ReadInv, Buffers, HandlerPcs, SenderPcs, Entry, Torn

LEMMA TypeHandler ==
  ASSUME TypeInv, (\E f \in Forms : DebugExit(f)) \/ HandlerStep
  PROVE  TypeInv'
<1> USE DEF TypeInv, TypeOK, ReadInv, Buffers, HandlerPcs, shared, handler, thread
<1>1. ASSUME NEW f \in Forms, DebugExit(f) PROVE TypeInv'
  BY <1>1 DEF DebugExit
<1>2. CASE TestFirst
  BY <1>2 DEF TestFirst, Choose
<1>3. CASE TestSecond
  BY <1>3 DEF TestSecond, Choose
<1>4. CASE CopyBegin
  <2>1. m_buffer' \in [Buffers -> [Slots -> Entry]]
    BY <1>4 DEF CopyBegin, Torn, Entry
  <2> QED  BY <1>4, <2>1 DEF CopyBegin
<1>5. CASE CopyEnd
  <2>1. EntryAt(Now) \in Entry
    BY DEF EntryAt, Entry, Now
  <2>2. m_buffer' \in [Buffers -> [Slots -> Entry]]
    BY <1>5, <2>1 DEF CopyEnd
  <2> QED  BY <1>5, <2>2 DEF CopyEnd
<1>6. CASE Publish
  <2>1. NextPos(pos[target]) \in Nat
    BY SizeAssumption DEF NextPos
  <2>2. NextFlag(target) \in {0, 1}
    BY DEF NextFlag
  <2> QED  BY <1>6, <2>1, <2>2 DEF Publish
<1> QED  BY <1>1, <1>2, <1>3, <1>4, <1>5, <1>6 DEF HandlerStep

LEMMA TypeThread == ASSUME TypeInv, SenderStep PROVE TypeInv'
<1> USE DEF TypeInv, TypeOK, ReadInv, Buffers, SenderPcs, shared, handler, thread
<1>1. CASE SenderTest
  BY <1>1, BatchArithmetic DEF SenderTest, MoveOn
<1>2. CASE CompressEntry
  <2>1. Len(out_buf) + 1 \in Slots
    BY <1>2, BatchArithmetic, SizeAssumption DEF CompressEntry, Slots
  <2>2. m_buffer[sbuf][Len(out_buf) + 1] \in Entry
    BY <2>1
  <2>3. out_buf' \in Seq(Entry) /\ Len(out_buf') = Len(out_buf) + 1
    BY <1>2, <2>2 DEF CompressEntry
  <2>4. spc' = "compress" => Len(out_buf') < BatchSize
    BY <1>2, <2>3, BatchArithmetic DEF CompressEntry
  <2> QED  BY <1>2, <2>3, <2>4 DEF CompressEntry
<1>3. CASE SendDatagram
  <2>1. [buf |-> sbuf, records |-> out_buf] \in Batch
    BY DEF Batch
  <2> QED  BY <1>3, <2>1 DEF SendDatagram
<1>4. CASE SendError
  BY <1>4 DEF SendError
<1>5. CASE SenderClear
  BY <1>5 DEF SenderClear, MoveOn
<1>6. CASE SenderWake
  BY <1>6 DEF SenderWake
<1> QED  BY <1>1, <1>2, <1>3, <1>4, <1>5, <1>6 DEF SenderStep

LEMMA TypeStutter == ASSUME TypeInv, UNCHANGED vars PROVE TypeInv'
BY DEF TypeInv, TypeOK, ReadInv, vars, shared, handler, thread, Batch

LEMMA TypeInvariant == Spec => []TypeInv
<1>1. TypeInv /\ [Next]_vars => TypeInv'
  BY TypeHandler, TypeThread, TypeStutter DEF Next
<1> QED  BY TypeInit, <1>1, PTL DEF Spec

(* Every variable keeps its type in every behaviour. *)
THEOREM TypeCorrect == Spec => []TypeOK
<1>1. TypeInv => TypeOK
  BY DEF TypeInv
<1> QED  BY TypeInvariant, <1>1, PTL
-----------------------------------------------------------------------------
(* Each offset is a whole number of records, fewer than a batch: were it    *)
(* not, the test for equality with the mark could be jumped over.           *)
OffsetInv ==
  \A i \in Buffers : \E n \in 0..(BatchSize - 1) : pos[i] = n * EntrySize

LEMMA OffsetArithmetic ==
  ASSUME NEW n \in 0..(BatchSize - 1)
  PROVE  /\ n * EntrySize \in Nat
         /\ (n * EntrySize) \div EntrySize = n
         /\ n * EntrySize + EntrySize = (n + 1) * EntrySize
         /\ n * EntrySize + EntrySize = FullMark <=> n + 1 = BatchSize
         /\ n * EntrySize + EntrySize <= Capacity * EntrySize
<1>1. n \in Nat /\ BatchSize \in Nat /\ n + 1 <= BatchSize
  BY BatchArithmetic
<1>2. n * EntrySize \in Nat
  BY <1>1, SizeAssumption, Z3
<1>3. (n * EntrySize) \div EntrySize = n
  BY <1>1, SizeAssumption, Z3
<1>4. n * EntrySize + EntrySize = (n + 1) * EntrySize
  BY <1>1, SizeAssumption, Z3
<1>5. n * EntrySize + EntrySize = FullMark <=> n + 1 = BatchSize
  BY <1>1, <1>4, BatchArithmetic, SizeAssumption, Z3
<1>6. (n + 1) * EntrySize <= BatchSize * EntrySize
  BY <1>1, SizeAssumption, Z3
<1> HIDE DEF BatchSize
<1>7. n * EntrySize + EntrySize <= Capacity * EntrySize
  BY <1>1, <1>2, <1>4, <1>6, BatchArithmetic, SizeAssumption
<1> QED  BY <1>2, <1>3, <1>4, <1>5, <1>7

LEMMA OffsetInvariant == Spec => []OffsetInv
<1>1. Init => OffsetInv
  <2>1. 0 = 0 * EntrySize /\ 0 \in 0..(BatchSize - 1)
    BY BatchArithmetic, SizeAssumption
  <2> QED  BY <2>1 DEF Init, OffsetInv, Buffers
<1>2. ASSUME TypeInv, OffsetInv, [Next]_vars PROVE OffsetInv'
  <2>1. CASE Publish
    <3>1. PICK n \in 0..(BatchSize - 1) : pos[target] = n * EntrySize
      BY <1>2 DEF TypeInv, TypeOK, OffsetInv
    <3>2. CASE n + 1 = BatchSize
      <4>1. NextPos(pos[target]) = 0 * EntrySize /\ 0 \in 0..(BatchSize - 1)
        BY <3>1, <3>2, OffsetArithmetic, BatchArithmetic, SizeAssumption DEF NextPos
      <4> QED  BY <1>2, <2>1, <4>1 DEF Publish, OffsetInv, TypeInv, TypeOK
    <3>3. CASE n + 1 # BatchSize
      <4>1. /\ NextPos(pos[target]) = (n + 1) * EntrySize
            /\ n + 1 \in 0..(BatchSize - 1)
        BY <3>1, <3>3, OffsetArithmetic, BatchArithmetic, SizeAssumption DEF NextPos
      <4> QED  BY <1>2, <2>1, <4>1 DEF Publish, OffsetInv, TypeInv, TypeOK
    <3> QED  BY <3>2, <3>3
  <2>2. CASE UNCHANGED pos
    BY <1>2, <2>2 DEF OffsetInv
  <2>3. Publish \/ UNCHANGED pos
    BY <1>2 DEF Next, vars, shared, DebugExit, HandlerStep, TestFirst, TestSecond,
       Choose, CopyBegin, CopyEnd, SenderStep, SenderTest, CompressEntry,
       SendDatagram, SendError, SenderClear, SenderWake
  <2> QED  BY <2>1, <2>2, <2>3
<1> QED  BY <1>1, <1>2, TypeInvariant, PTL DEF Spec

(* The handler stays inside its buffer, whatever the layout of the flags.  *)
THEOREM WritesInBounds == Spec => []InBounds
<1>1. OffsetInv => InBounds
  BY OffsetArithmetic DEF OffsetInv, InBounds
<1> QED  BY <1>1, OffsetInvariant, PTL
-----------------------------------------------------------------------------
(***************************************************************************)
(* Exclusion.  Exclusive is not inductive: it follows from what the flag   *)
(* of a buffer says of whoever is in it.  What it says of the handler holds *)
(* in every layout, for only the handler raises a flag; what it says of the *)
(* thread only where no other flag can send the thread into the buffer.    *)
(***************************************************************************)
ExclusionInv ==
  /\ \A i \in Buffers : Writing(i) => state[i] = 0
  /\ \A i \in Buffers : Alone(i) /\ Shipping(i) => state[i] = 1

LEMMA ExclusionStep ==
  ASSUME TypeInv, ExclusionInv, [Next]_vars
  PROVE  ExclusionInv'
<1> USE DEF Alone, TypeInv, TypeOK, ExclusionInv, Writing, Shipping, Buffers,
            shared, handler, thread
<1>1. ASSUME NEW f \in Forms, DebugExit(f) PROVE ExclusionInv'
  BY <1>1 DEF DebugExit
<1>2. CASE TestFirst
  BY <1>2 DEF TestFirst, Choose
<1>3. CASE TestSecond
  BY <1>3 DEF TestSecond, Choose
<1>4. CASE CopyBegin
  BY <1>4 DEF CopyBegin
<1>5. CASE CopyEnd
  BY <1>5 DEF CopyEnd
<1>6. CASE Publish
  BY <1>6 DEF Publish
<1>7. CASE SenderTest
  BY <1>7 DEF SenderTest, MoveOn, WordSet
<1>8. CASE CompressEntry
  BY <1>8 DEF CompressEntry
<1>9. CASE SendDatagram
  BY <1>9 DEF SendDatagram
<1>10. CASE SendError
  BY <1>10 DEF SendError
<1>11. CASE SenderClear
  BY <1>11 DEF SenderClear, MoveOn
<1>12. CASE SenderWake
  BY <1>12 DEF SenderWake
<1>13. CASE UNCHANGED vars
  BY <1>13 DEF vars
<1> QED  BY <1>1, <1>2, <1>3, <1>4, <1>5, <1>6, <1>7, <1>8, <1>9, <1>10, <1>11,
            <1>12, <1>13 DEF Next, HandlerStep, SenderStep

LEMMA ExclusionInvariant == Spec => []ExclusionInv
<1>1. Init => ExclusionInv
  BY DEF Init, ExclusionInv, Writing, Shipping
<1>2. TypeInv /\ ExclusionInv /\ [Next]_vars => ExclusionInv'
  BY ExclusionStep
<1> QED  BY <1>1, <1>2, TypeInvariant, PTL DEF Spec

(* Wherever the flags lie, handler and thread are never both in a buffer    *)
(* whose flag is alone in its word.                                        *)
THEOREM HandlerAndThreadExclude == Spec => []Exclusive
<1>1. ExclusionInv => Exclusive
  BY DEF ExclusionInv, Exclusive
<1> QED  BY <1>1, ExclusionInvariant, PTL
-----------------------------------------------------------------------------
(***************************************************************************)
(* What the thread has compressed is what its buffer holds, if the handler *)
(* is kept out of it.                                                      *)
(***************************************************************************)
ShipInv ==
  /\ Alone(sbuf) /\ spc \in {"compress", "send", "clear"} =>
       \A s \in 1..Len(out_buf) : out_buf[s] = m_buffer[sbuf][s]
  /\ spc \in {"send", "clear"} => Len(out_buf) = BatchSize
  /\ spc = "clear" =>
       /\ sent # << >>
       /\ sent[Len(sent)] = [buf |-> sbuf, records |-> out_buf]

LEMMA ShipStep ==
  ASSUME TypeInv, ExclusionInv, ShipInv, [Next]_vars
  PROVE  ShipInv'
<1> USE DEF TypeInv, TypeOK, ShipInv, Buffers, shared, handler, thread
<1>1. ASSUME NEW f \in Forms, DebugExit(f) PROVE ShipInv'
  BY <1>1 DEF DebugExit
<1>2. CASE TestFirst
  BY <1>2 DEF TestFirst, Choose
<1>3. CASE TestSecond
  BY <1>3 DEF TestSecond, Choose
<1>4. CASE CopyBegin \/ CopyEnd
  <2>1. Alone(sbuf) /\ spc \in {"compress", "send", "clear"} =>
          m_buffer'[sbuf] = m_buffer[sbuf]
    BY <1>4 DEF ExclusionInv, Writing, Shipping, CopyBegin, CopyEnd
  <2> QED  BY <1>4, <2>1 DEF CopyBegin, CopyEnd
<1>5. CASE Publish
  BY <1>5 DEF Publish
<1>6. CASE SenderTest
  BY <1>6 DEF SenderTest, MoveOn
<1>7. CASE CompressEntry
  <2>1. Len(out_buf) + 1 \in Slots
    BY <1>7, BatchArithmetic, SizeAssumption DEF ReadInv, CompressEntry, Slots
  <2>2. m_buffer[sbuf][Len(out_buf) + 1] \in Entry
    BY <2>1
  <2>3. /\ Len(out_buf') = Len(out_buf) + 1 /\ Len(out_buf) \in Nat
        /\ \A s \in 1..Len(out_buf) : out_buf'[s] = out_buf[s]
        /\ out_buf'[Len(out_buf) + 1] = m_buffer[sbuf][Len(out_buf) + 1]
    BY <1>7, <2>2 DEF CompressEntry
  <2>4. UNCHANGED <<m_buffer, sbuf>> /\ spc = "compress"
    BY <1>7 DEF CompressEntry
  <2>5. Alone(sbuf) => \A s \in 1..Len(out_buf') : out_buf'[s] = m_buffer[sbuf][s]
    <3>1. \A s \in 1..Len(out_buf') : s \in 1..Len(out_buf) \/ s = Len(out_buf) + 1
      BY <2>3
    <3>2. Alone(sbuf) => \A s \in 1..Len(out_buf) : out_buf[s] = m_buffer[sbuf][s]
      BY <2>4
    <3> QED  BY <2>3, <3>1, <3>2
  <2> QED  BY <1>7, <2>3, <2>4, <2>5, BatchArithmetic DEF CompressEntry
<1>8. CASE SendDatagram
  <2>1. [buf |-> sbuf, records |-> out_buf] \in Batch
    BY DEF Batch
  <2>2. sent' # << >> /\ sent'[Len(sent')] = [buf |-> sbuf, records |-> out_buf]
    BY <1>8, <2>1 DEF SendDatagram
  <2> QED  BY <1>8, <2>2 DEF SendDatagram
<1>9. CASE SendError
  BY <1>9 DEF SendError
<1>10. CASE SenderClear
  BY <1>10 DEF SenderClear, MoveOn
<1>11. CASE SenderWake
  BY <1>11 DEF SenderWake
<1>12. CASE UNCHANGED vars
  BY <1>12 DEF vars
<1> QED  BY <1>1, <1>2, <1>3, <1>4, <1>5, <1>6, <1>7, <1>8, <1>9, <1>10, <1>11,
            <1>12 DEF Next, HandlerStep, SenderStep

LEMMA ShipInvariant == Spec => []ShipInv
<1>1. Init => ShipInv
  BY DEF Init, ShipInv
<1>2. TypeInv /\ ExclusionInv /\ ShipInv /\ [Next]_vars => ShipInv'
  BY ShipStep
<1> QED  BY <1>1, <1>2, TypeInvariant, ExclusionInvariant, PTL DEF Spec

(* A flag falls when the thread clears a word that covers it, and the last *)
(* datagram came from the buffer at that word.                             *)
LEMMA ClearStep ==
  ASSUME TypeInv, ExclusionInv, ShipInv, [Next]_vars,
         NEW i \in Buffers, state[i] = 1, state'[i] = 0
  PROVE  /\ sent # << >> /\ i \in WordFlags[sent[Len(sent)].buf]
         /\ Alone(sent[Len(sent)].buf) =>
              sent[Len(sent)] = [buf |-> i, records |-> Content(i)]
<1>1. ~Publish
  BY DEF Publish, NextFlag, TypeInv, TypeOK
<1>2. SenderClear
  BY <1>1 DEF Next, vars, shared, DebugExit, HandlerStep, TestFirst, TestSecond,
     Choose, CopyBegin, CopyEnd, SenderStep, SenderTest, CompressEntry,
     SendDatagram, SendError, SenderWake
<1>3. /\ sent # << >>
      /\ sent[Len(sent)] = [buf |-> sbuf, records |-> out_buf]
      /\ i \in WordFlags[sbuf]
  BY <1>2 DEF SenderClear, ShipInv
<1>4. ASSUME Alone(sbuf) PROVE sbuf = i /\ out_buf = Content(i)
  <2>1. sbuf = i
    BY <1>3, <1>4 DEF Alone
  <2>2. out_buf = [s \in 1..Len(out_buf) |-> out_buf[s]]
    BY DEF TypeInv, TypeOK
  <2>3. Len(out_buf) = Held(i) /\ \A s \in 1..Len(out_buf) : out_buf[s] = m_buffer[i][s]
    BY <1>2, <1>4, <2>1 DEF ShipInv, SenderClear, Held
  <2> QED  BY <2>1, <2>2, <2>3 DEF Content
<1> QED  BY <1>3, <1>4

(* A buffer is marked empty only after a datagram: its own, with all it      *)
(* holds, unless the word that was cleared covers another flag.             *)
THEOREM ClearsOnlyWhatWasSent == Spec => ClearedAfterSend
<1>1. TypeInv /\ ExclusionInv /\ ShipInv /\ [Next]_vars =>
        [\A i \in Buffers : state[i] = 1 /\ state'[i] = 0 =>
           /\ sent # << >> /\ i \in WordFlags[sent[Len(sent)].buf]
           /\ Alone(sent[Len(sent)].buf) =>
                sent[Len(sent)] = [buf |-> i, records |-> Content(i)]]_vars
  BY ClearStep
<1> QED  BY <1>1, TypeInvariant, ExclusionInvariant, ShipInvariant, PTL
            DEF Spec, ClearedAfterSend
-----------------------------------------------------------------------------
(***************************************************************************)
(* What a buffer holds: below the offset, finished records in time order.  *)
(***************************************************************************)
FillInv ==
  /\ \A i \in Buffers : state[i] = 1 => pos[i] = 0
  /\ hpc # "guest" => Now \in 1..Now
  /\ hpc \in {"copy", "copying", "publish"} => Traced(CurrentForm)
  /\ hpc = "publish" => m_buffer[target][SlotAt(pos[target])] = EntryAt(Now)
  /\ \A i \in Buffers : \A s \in 1..Held(i) :
       /\ Genuine(m_buffer[i][s])
       /\ hpc # "guest" => m_buffer[i][s].time < Now
  /\ \A i \in Buffers : \A s, u \in 1..Held(i) :
       s < u => m_buffer[i][s].time < m_buffer[i][u].time

LEMMA HeldFacts ==
  ASSUME TypeInv, OffsetInv, NEW i \in Buffers
  PROVE  /\ Held(i) \in 0..BatchSize
         /\ state[i] = 0 => /\ Held(i) < BatchSize
                            /\ SlotAt(pos[i]) = Held(i) + 1
                            /\ SlotAt(pos[i]) \in Slots
                            /\ NextFlag(i) = 1 <=> Held(i) + 1 = BatchSize
                            /\ NextFlag(i) = 0 => NextPos(pos[i]) \div EntrySize = Held(i) + 1
                            /\ NextFlag(i) = 1 => NextPos(pos[i]) = 0
<1>1. PICK n \in 0..(BatchSize - 1) : pos[i] = n * EntrySize
  BY DEF OffsetInv
<1>2. pos[i] \div EntrySize = n
  BY <1>1, OffsetArithmetic
<1>3. state[i] \in {0, 1}
  BY DEF TypeInv, TypeOK
<1>4. Held(i) \in 0..BatchSize
  BY <1>1, <1>2, <1>3, BatchArithmetic DEF Held
<1>5. ASSUME state[i] = 0 PROVE Held(i) = n
  BY <1>2, <1>5 DEF Held
<1>6. ASSUME state[i] = 0
      PROVE  NextFlag(i) = 1 <=> n + 1 = BatchSize
  BY <1>1, <1>6, OffsetArithmetic DEF NextFlag
<1>7. ASSUME n + 1 # BatchSize
      PROVE  NextPos(pos[i]) \div EntrySize = n + 1
  <2>1. n + 1 \in 0..(BatchSize - 1)
    BY <1>7, BatchArithmetic
  <2>2. NextPos(pos[i]) = (n + 1) * EntrySize
    BY <1>1, <1>7, OffsetArithmetic DEF NextPos
  <2> QED  BY <2>1, <2>2, OffsetArithmetic
<1>8. ASSUME n + 1 = BatchSize PROVE NextPos(pos[i]) = 0
  BY <1>1, <1>8, OffsetArithmetic DEF NextPos
<1>9. n < BatchSize /\ n + 1 \in Slots
  BY BatchArithmetic, SizeAssumption DEF Slots
<1>10. NextFlag(i) = 0 => NextFlag(i) # 1
  OBVIOUS
<1> QED  BY <1>1, <1>2, <1>4, <1>5, <1>6, <1>7, <1>8, <1>9, <1>10 DEF SlotAt

(* A record stays genuine as more exits follow. *)
LEMMA GenuineGrows ==
  ASSUME TypeInv, NEW f \in Forms, exits' = Append(exits, f),
         NEW r, Genuine(r)
  PROVE  Genuine(r)' /\ r.time < Now'
BY DEF TypeInv, TypeOK, Genuine, Traced, EntryAt, Now

LEMMA FillExit ==
  ASSUME TypeInv, OffsetInv, FillInv, NEW f \in Forms, DebugExit(f)
  PROVE  FillInv'
<1>1. exits' = Append(exits, f) /\ UNCHANGED <<m_buffer, pos, state>>
  BY DEF DebugExit, shared
<1>2. Now' = Now + 1 /\ Now \in Nat
  BY <1>1 DEF Now, TypeInv, TypeOK
<1>3. \A i \in Buffers : Held(i)' = Held(i)
  BY <1>1 DEF Held
<1>4. \A i \in Buffers : \A s \in 1..Held(i) :
        Genuine(m_buffer[i][s])' /\ m_buffer[i][s].time < Now'
  BY <1>1, GenuineGrows DEF FillInv, Genuine
<1> QED  BY <1>1, <1>2, <1>3, <1>4 DEF FillInv, DebugExit

LEMMA FillCopy ==
  ASSUME TypeInv, OffsetInv, ExclusionInv, FillInv, CopyBegin \/ CopyEnd
  PROVE  FillInv'
<1>1. UNCHANGED <<pos, state, exits, target>>
  BY DEF CopyBegin, CopyEnd
<1>2. target \in Buffers /\ state[target] = 0
  BY DEF ExclusionInv, Writing, CopyBegin, CopyEnd, TypeInv, TypeOK
<1>3. \A i \in Buffers : Held(i)' = Held(i) /\ Held(i) \in Nat
  BY <1>1, HeldFacts, BatchArithmetic DEF Held
<1>4. \A i \in Buffers : \A s \in 1..Held(i) : m_buffer'[i][s] = m_buffer[i][s]
  <2>1. SlotAt(pos[target]) = Held(target) + 1
    BY <1>2, HeldFacts
  <2>2. SUFFICES ASSUME NEW i \in Buffers, NEW s \in 1..Held(i)
                 PROVE  m_buffer'[i][s] = m_buffer[i][s]
    OBVIOUS
  <2>3. s \in Slots
    BY HeldFacts, BatchArithmetic, SizeAssumption DEF Slots
  <2>4. i = target => s # SlotAt(pos[target])
    BY <1>3, <2>1
  <2> QED  BY <1>2, <2>3, <2>4 DEF CopyBegin, CopyEnd, TypeInv, TypeOK
<1>5. \A r : Genuine(r)' <=> Genuine(r)
  BY <1>1 DEF Genuine, Now, EntryAt
<1>6. hpc' = "publish" => m_buffer'[target][SlotAt(pos[target])] = EntryAt(Now)
  BY <1>2, HeldFacts DEF CopyBegin, CopyEnd, TypeInv, TypeOK
<1>7. Now' = Now /\ EntryAt(Now)' = EntryAt(Now) /\ CurrentForm' = CurrentForm
  BY <1>1 DEF Now, EntryAt, CurrentForm
<1>8. /\ hpc \in {"copy", "copying"}
      /\ hpc' \in {"copying", "publish"}
  BY DEF CopyBegin, CopyEnd
<1>9. SlotAt(pos[target])' = SlotAt(pos[target])
  BY <1>1
<1> QED  BY <1>1, <1>3, <1>4, <1>5, <1>6, <1>7, <1>8, <1>9 DEF FillInv

LEMMA FillPublish ==
  ASSUME TypeInv, OffsetInv, ExclusionInv, FillInv, Publish
  PROVE  FillInv'
<1>1. UNCHANGED <<m_buffer, exits, target>> /\ hpc' = "guest" /\ hpc = "publish"
  BY DEF Publish
<1>2. target \in Buffers /\ state[target] = 0
  BY DEF ExclusionInv, Writing, Publish, TypeInv, TypeOK
<1>3. \A r : Genuine(r)' <=> Genuine(r)
  BY <1>1 DEF Genuine, Now, EntryAt
<1>4. \A i \in Buffers : i # target =>
        state'[i] = state[i] /\ pos'[i] = pos[i] /\ Held(i)' = Held(i)
  BY DEF Publish, Held
<1>5. /\ state'[target] = NextFlag(target)
      /\ pos'[target] = NextPos(pos[target])
      /\ NextFlag(target) \in {0, 1}
  BY <1>2 DEF Publish, TypeInv, TypeOK, NextFlag
<1>6. Held(target)' = Held(target) + 1 /\ Held(target) \in Nat
  <2>1. Held(target)' = IF NextFlag(target) = 1 THEN BatchSize
                                               ELSE NextPos(pos[target]) \div EntrySize
    BY <1>1, <1>5 DEF Held
  <2>2. Held(target) \in Nat
    BY <1>2, HeldFacts, BatchArithmetic
  <2>3. CASE NextFlag(target) = 1
    BY <1>2, <2>1, <2>2, <2>3, HeldFacts
  <2>4. CASE NextFlag(target) = 0
    BY <1>2, <2>1, <2>2, <2>4, HeldFacts
  <2> QED  BY <1>5, <2>2, <2>3, <2>4
<1>7. \A i \in Buffers : state'[i] = 1 => pos'[i] = 0
  BY <1>2, <1>4, <1>5, HeldFacts DEF FillInv
<1>8. m_buffer[target][Held(target) + 1] = EntryAt(Now)
  BY <1>1, <1>2, HeldFacts DEF FillInv
<1>9. Genuine(EntryAt(Now)) /\ EntryAt(Now).time = Now
  BY <1>1 DEF FillInv, Genuine, EntryAt, CurrentForm
<1>10. \A i \in Buffers : \A s \in 1..Held(i)' :
         s \in 1..Held(i) \/ (i = target /\ s = Held(target) + 1)
  BY <1>1, <1>4, <1>6
<1>11. \A i \in Buffers : \A s \in 1..Held(i)' : Genuine(m_buffer[i][s])
  BY <1>8, <1>9, <1>10 DEF FillInv
<1>12. \A s \in 1..Held(target) : m_buffer[target][s].time < m_buffer[target][Held(target) + 1].time
  BY <1>1, <1>2, <1>8, <1>9 DEF FillInv
<1>13. \A i \in Buffers : \A s, u \in 1..Held(i)' :
         s < u => m_buffer[i][s].time < m_buffer[i][u].time
  <2>1. SUFFICES ASSUME NEW i \in Buffers, NEW s \in 1..Held(i)', NEW u \in 1..Held(i)', s < u
                 PROVE  m_buffer[i][s].time < m_buffer[i][u].time
    OBVIOUS
  <2>2. CASE u \in 1..Held(i)
    <3>1. s \in 1..Held(i)
      BY <2>1, <2>2, <1>10, <1>6, <1>4
    <3> QED  BY <2>1, <2>2, <3>1 DEF FillInv
  <2>3. CASE i = target /\ u = Held(target) + 1
    <3>1. s \in 1..Held(target)
      BY <1>6, <2>1, <2>3
    <3> QED  BY <1>12, <2>3, <3>1
  <2> QED  BY <1>10, <2>2, <2>3
<1> QED  BY <1>1, <1>3, <1>7, <1>11, <1>13 DEF FillInv

(* Whatever word is cleared, a buffer is as it was, or was full and is       *)
(* empty.                                                                   *)
LEMMA FlagsAfterClear ==
  ASSUME TypeInv, FillInv, SenderClear, NEW i \in Buffers
  PROVE  /\ UNCHANGED <<m_buffer, pos>>
         /\ state'[i] = IF i \in WordFlags[sbuf] THEN 0 ELSE state[i]
         /\ Held(i)' = IF i \in WordFlags[sbuf] /\ state[i] = 1 THEN 0 ELSE Held(i)
<1>1. UNCHANGED <<m_buffer, pos>>
  BY DEF SenderClear
<1>2. state'[i] = (IF i \in WordFlags[sbuf] THEN 0 ELSE state[i]) /\ state[i] \in {0, 1}
  BY DEF SenderClear, TypeInv, TypeOK
<1>3. CASE i \in WordFlags[sbuf] /\ state[i] = 1
  <2>1. pos[i] = 0
    BY <1>3 DEF FillInv
  <2>2. 0 \div EntrySize = 0
    BY SizeAssumption
  <2> QED  BY <1>1, <1>2, <1>3, <2>1, <2>2 DEF Held
<1>4. CASE ~(i \in WordFlags[sbuf] /\ state[i] = 1)
  BY <1>1, <1>2, <1>4 DEF Held
<1> QED  BY <1>1, <1>2, <1>3, <1>4

LEMMA FillClear ==
  ASSUME TypeInv, OffsetInv, FillInv, SenderClear
  PROVE  FillInv'
<1>1. UNCHANGED <<m_buffer, pos, exits, hpc, target>>
  BY DEF SenderClear, handler
<1>2. \A i \in Buffers : Held(i)' = Held(i) \/ Held(i)' = 0
  BY FlagsAfterClear
<1>3. \A r : Genuine(r)' <=> Genuine(r)
  BY <1>1 DEF Genuine, Now, EntryAt
<1>4. /\ Now' = Now /\ EntryAt(Now)' = EntryAt(Now) /\ CurrentForm' = CurrentForm
      /\ SlotAt(pos[target])' = SlotAt(pos[target])
  BY <1>1 DEF Now, EntryAt, CurrentForm
<1>5. \A i \in Buffers : state'[i] = 1 => pos'[i] = 0
  BY <1>1, FlagsAfterClear DEF FillInv
<1>6. \A i \in Buffers : \A s \in 1..Held(i)' : s \in 1..Held(i)
  BY <1>2
<1> QED  BY <1>1, <1>3, <1>4, <1>5, <1>6 DEF FillInv

(* The other steps leave buffers, offsets and flags alone; of these the    *)
(* handler's two tests decide that the current instruction is traced.      *)
LEMMA FillOther ==
  ASSUME TypeInv, FillInv, UNCHANGED <<m_buffer, pos, state, exits>>,
         hpc' \in {"guest", "test2", "copy"} \/ UNCHANGED <<hpc, target>>,
         hpc' # "guest" => hpc # "guest",
         hpc' = "copy" => Traced(CurrentForm)
  PROVE  FillInv'
<1>1. \A i \in Buffers : Held(i)' = Held(i)
  BY DEF Held
<1>2. \A r : Genuine(r)' <=> Genuine(r)
  BY DEF Genuine, Now, EntryAt
<1>3. /\ Now' = Now /\ EntryAt(Now)' = EntryAt(Now) /\ CurrentForm' = CurrentForm
  BY DEF Now, EntryAt, CurrentForm
<1>4. hpc' \in {"copying", "publish"} =>
        hpc' = hpc /\ target' = target /\ SlotAt(pos[target])' = SlotAt(pos[target])
  OBVIOUS
<1> QED  BY <1>1, <1>2, <1>3, <1>4 DEF FillInv

LEMMA FillStep ==
  ASSUME TypeInv, OffsetInv, ExclusionInv, FillInv, [Next]_vars
  PROVE  FillInv'
<1> USE DEF shared, handler, thread
<1>1. CASE TestFirst
  BY <1>1, FillOther DEF TestFirst, Choose, CurrentForm, Now
<1>2. CASE TestSecond
  BY <1>2, FillOther DEF TestSecond, Choose, CurrentForm, Now
<1>3. CASE SenderTest \/ CompressEntry \/ SendDatagram \/ SendError \/ SenderWake
  BY <1>3, FillOther DEF SenderTest, CompressEntry, SendDatagram, SendError,
                        SenderWake, FillInv
<1>4. CASE UNCHANGED vars
  BY <1>4, FillOther DEF vars, FillInv
<1> QED  BY <1>1, <1>2, <1>3, <1>4, FillExit, FillCopy, FillPublish, FillClear
         DEF Next, HandlerStep, SenderStep

LEMMA FillInvariant == Spec => []FillInv
<1>1. Init => FillInv
  BY SizeAssumption DEF Init, FillInv, Held, Buffers
<1>2. TypeInv /\ OffsetInv /\ ExclusionInv /\ FillInv /\ [Next]_vars => FillInv'
  BY FillStep
<1> QED  BY <1>1, <1>2, TypeInvariant, OffsetInvariant, ExclusionInvariant, PTL
         DEF Spec

LEMMA WholeStep ==
  ASSUME TypeInv, ExclusionInv, ShipInv, FillInv, BatchesWhole, [Next]_vars
  PROVE  BatchesWhole'
<1>1. CASE SendDatagram
  <2>2. ASSUME Alone(sbuf) PROVE Whole([buf |-> sbuf, records |-> out_buf])
    <3>1. Held(sbuf) = BatchSize
      BY <1>1, <2>2 DEF SendDatagram, ExclusionInv, Shipping, Held, TypeInv, TypeOK
    <3>2. Len(out_buf) = BatchSize
      BY <1>1 DEF ShipInv, SendDatagram
    <3>3. \A s \in 1..BatchSize : out_buf[s] = m_buffer[sbuf][s]
      BY <1>1, <2>2, <3>2 DEF ShipInv, SendDatagram
    <3> QED  BY <3>1, <3>2, <3>3 DEF Whole, FillInv, TypeInv, TypeOK
  <2>3. UNCHANGED exits
    BY <1>1 DEF SendDatagram, handler
  <2>4. \A b : Whole(b)' <=> Whole(b)
    BY <2>3 DEF Whole, Genuine, Now, EntryAt
  <2>5. /\ Len(sent') = Len(sent) + 1
        /\ \A k \in 1..Len(sent) : sent'[k] = sent[k]
        /\ sent'[Len(sent) + 1] = [buf |-> sbuf, records |-> out_buf]
    <3>1. [buf |-> sbuf, records |-> out_buf] \in Batch
      BY DEF Batch, TypeInv, TypeOK
    <3> QED  BY <1>1, <3>1 DEF SendDatagram, TypeInv, TypeOK
  <2>6. Len(sent) \in Nat
    BY DEF TypeInv, TypeOK
  <2> QED  BY <2>2, <2>4, <2>5, <2>6 DEF BatchesWhole
<1>2. ASSUME NEW f \in Forms, DebugExit(f) PROVE BatchesWhole'
  <2>1. exits' = Append(exits, f) /\ UNCHANGED sent
    BY <1>2 DEF DebugExit, thread
  <2>2. \A r : Genuine(r) => Genuine(r)'
    BY <2>1, GenuineGrows DEF Genuine
  <2>3. \A b : Whole(b) => Whole(b)'
    BY <2>2 DEF Whole
  <2> QED  BY <2>1, <2>3 DEF BatchesWhole
<1>3. CASE UNCHANGED <<sent, exits>>
  BY <1>3 DEF BatchesWhole, Whole, Genuine, Now, EntryAt
<1>4. \/ SendDatagram
      \/ \E f \in Forms : DebugExit(f)
      \/ UNCHANGED <<sent, exits>>
  BY DEF Next, vars, handler, thread, HandlerStep, TestFirst, TestSecond, Choose,
     CopyBegin, CopyEnd, Publish, SenderStep, SenderTest, CompressEntry, SendError,
     SenderClear, SenderWake
<1> QED  BY <1>1, <1>2, <1>3, <1>4

(* Wherever the flags lie, every datagram of a buffer whose flag is alone is *)
(* a full buffer of finished records, each the record of its own exit, in    *)
(* time order.                                                              *)
THEOREM DatagramsAreWhole == Spec => []BatchesWhole
<1>1. Init => BatchesWhole
  BY DEF Init, BatchesWhole
<1>2. TypeInv /\ ExclusionInv /\ ShipInv /\ FillInv /\ BatchesWhole /\ [Next]_vars
        => BatchesWhole'
  BY WholeStep
<1> QED  BY <1>1, <1>2, TypeInvariant, ExclusionInvariant, ShipInvariant,
            FillInvariant, PTL DEF Spec
=============================================================================
