---------------------------- MODULE TraceBuffers ----------------------------
(***************************************************************************)
(* The two trace buffers shared by the debug-exception handler of the      *)
(* virtual machine monitor (vmm.c, HandleDebugException) and the kernel    *)
(* thread that ships full buffers over UDP (vmxice_extract.c, sendthread). *)
(*                                                                         *)
(* The handler runs in a VM exit of the one virtualised processor; the     *)
(* thread runs on that or another processor.  No lock is taken: the flags  *)
(* m_buffer1_state and m_buffer2_state alone decide who may touch a        *)
(* buffer.  One action is one access to what they share.                   *)
(***************************************************************************)
EXTENDS Integers, Sequences, FiniteSets

CONSTANTS
  Capacity,    \* records each buffer is allocated for (4000)
  EntrySize,   \* sizeof(struct output_entry)
  FullMark,    \* 4000*36: the offset at which a buffer is full, and
               \* DATA_PAGE_SIZE, the number of bytes the thread compresses
  WordFlags,   \* WordFlags[i]: the flags that the four-byte word at the
               \* address of flag i covers in the linked module
  Forms,       \* instruction forms the traced program may branch with
  MaxExits     \* bound on the number of debug exits

Buffers == {1, 2}
CallBytes == {"E8", "FF", "9A"}
RetBytes == {"C3", "C2", "CB", "CA"}
Kinds == {"call", "ret", "other"}

ASSUME SizeAssumption ==
  /\ Capacity \in Nat \ {0}
  /\ EntrySize \in Nat \ {0}
  /\ FullMark \in Nat \ {0}
  /\ FullMark % EntrySize = 0
  /\ FullMark <= Capacity * EntrySize

ASSUME LayoutAssumption ==
  /\ WordFlags \in [Buffers -> SUBSET Buffers]
  /\ \A i \in Buffers : i \in WordFlags[i]

ASSUME FormAssumption == Forms \subseteq [byte : STRING, kind : Kinds]

ASSUME BoundAssumption == MaxExits \in Nat

VARIABLES
  m_buffer,    \* m_buffer[i]: the record in each slot of buffer i
  pos,         \* m_buffer1_pos, m_buffer2_pos: byte offsets
  state,       \* m_buffer1_state, m_buffer2_state: 1 means full
  OutPutCount, \* records written since the module was loaded
  MissCount,   \* branches that found both flags set
  exits,       \* history: the instruction behind each debug exit; exit t is
               \* the one whose _TSC reading is t
  hpc,         \* where the handler is
  target,      \* the buffer the handler chose
  spc,         \* where the thread is
  sbuf,        \* the buffer the thread looks at
  out_buf,     \* the records compressed so far
  sent         \* history: the datagrams handed to the socket

shared == <<m_buffer, pos, state>>
handler == <<OutPutCount, MissCount, exits, hpc, target>>
thread == <<spc, sbuf, out_buf, sent>>
vars == <<shared, handler, thread>>

(***************************************************************************)
(* A record keeps what the properties look at: its time and its flag.      *)
(* Torn is what a slot holds that no finished memcpy has written: fresh    *)
(* kmalloc memory, or half a record.  Exit times start at 1.               *)
(***************************************************************************)
Entry == [time : Nat, call_ret_flag : {0, 1}]
Torn == [time |-> 0, call_ret_flag |-> 0]

Slots == 1..Capacity
BatchSize == FullMark \div EntrySize
SlotAt(offset) == (offset \div EntrySize) + 1

Traced(f) == f.byte \in CallBytes \cup RetBytes

Now == Len(exits)
CurrentForm == exits[Now]
EntryAt(t) ==
  [time |-> t, call_ret_flag |-> IF exits[t].byte \in CallBytes THEN 1 ELSE 0]
-----------------------------------------------------------------------------
(* m_bufferInit, and the start of sendthread. *)
Init ==
  /\ m_buffer = [i \in Buffers |-> [s \in Slots |-> Torn]]
  /\ pos = [i \in Buffers |-> 0]
  /\ state = [i \in Buffers |-> 0]
  /\ OutPutCount = 0
  /\ MissCount = 0
  /\ exits = << >>
  /\ hpc = "guest"
  /\ target = 1
  /\ spc = "test"
  /\ sbuf = 1
  /\ out_buf = << >>
  /\ sent = << >>
-----------------------------------------------------------------------------
(***************************************************************************)
(* The handler.  A debug exit reads the time stamp and the last-branch     *)
(* registers; what it stores depends on the first byte of the instruction  *)
(* branched from.                                                          *)
(***************************************************************************)
DebugExit(f) ==
  /\ hpc = "guest"
  /\ Now < MaxExits
  /\ exits' = Append(exits, f)
  /\ hpc' = "test1"
  /\ UNCHANGED <<shared, thread, OutPutCount, MissCount, target>>

(* The buffer whose flag the code finds clear is the one it writes; an      *)
(* instruction that is neither CALL nor RET by its first byte is ignored.   *)
Choose(i) ==
  /\ target' = i
  /\ hpc' = IF Traced(CurrentForm) THEN "copy" ELSE "guest"
  /\ UNCHANGED <<shared, thread, OutPutCount, MissCount, exits>>

(* if (!m_buffer1_state) ... else *)
TestFirst ==
  /\ hpc = "test1"
  /\ \/ state[1] = 0 /\ Choose(1)
     \/ /\ state[1] /= 0
        /\ hpc' = "test2"
        /\ UNCHANGED <<shared, thread, OutPutCount, MissCount, exits, target>>

(* Mutation: a RET that finds no room is not counted. *)
TestSecondCallsOnly ==
  /\ hpc = "test2"
  /\ \/ state[2] = 0 /\ Choose(2)
     \/ /\ state[2] /= 0
        /\ MissCount' = MissCount + (IF CurrentForm.byte \in CallBytes THEN 1 ELSE 0)
        /\ hpc' = "guest"
        /\ UNCHANGED <<shared, thread, OutPutCount, exits, target>>

(* else if (!m_buffer2_state) ... else MissCount++ *)
TestSecond ==
  /\ hpc = "test2"
  /\ \/ state[2] = 0 /\ Choose(2)
     \/ /\ state[2] /= 0
        /\ MissCount' = MissCount + (IF Traced(CurrentForm) THEN 1 ELSE 0)
        /\ hpc' = "guest"
        /\ UNCHANGED <<shared, thread, OutPutCount, exits, target>>

(* The memcpy begins: the slot holds part of a record ... *)
CopyBegin ==
  /\ hpc = "copy"
  /\ m_buffer' = [m_buffer EXCEPT ![target][SlotAt(pos[target])] = Torn]
  /\ hpc' = "copying"
  /\ UNCHANGED <<pos, state, thread, OutPutCount, MissCount, exits, target>>

(* ... and ends: the slot holds the record. *)
CopyEnd ==
  /\ hpc = "copying"
  /\ m_buffer' = [m_buffer EXCEPT ![target][SlotAt(pos[target])] = EntryAt(Now)]
  /\ hpc' = "publish"
  /\ UNCHANGED <<pos, state, thread, OutPutCount, MissCount, exits, target>>

(* Mutations: the offset is not reset; the flag is set one record early. *)
NextPosNoWrap(offset) == offset + EntrySize
NextFlagEarly(i) == IF pos[i] + 2 * EntrySize >= FullMark THEN 1 ELSE state[i]

(* The offset moves on; at the mark it wraps to 0 and the flag is set. *)
NextPos(offset) ==
  IF offset + EntrySize = FullMark THEN 0 ELSE offset + EntrySize

NextFlag(i) ==
  IF pos[i] + EntrySize = FullMark THEN 1 ELSE state[i]

Publish ==
  /\ hpc = "publish"
  /\ pos' = [pos EXCEPT ![target] = NextPos(pos[target])]
  /\ state' = [state EXCEPT ![target] = NextFlag(target)]
  /\ OutPutCount' = OutPutCount + 1
  /\ hpc' = "guest"
  /\ UNCHANGED <<m_buffer, MissCount, exits, target, thread>>

HandlerStep == TestFirst \/ TestSecond \/ CopyBegin \/ CopyEnd \/ Publish
-----------------------------------------------------------------------------
(***************************************************************************)
(* The thread.  It looks at buffer 1, then at buffer 2, then sleeps one    *)
(* jiffy.  id0 and id1 are int pointers to one-byte flags, so a test reads *)
(* and a clear writes every flag of the four-byte word.                    *)
(***************************************************************************)
(* Mutations: a test sees either flag; the look at buffer 2 is skipped; the  *)
(* buffer index is not reset.                                               *)
WordSetEither(i) == \E j \in Buffers : state[j] /= 0

WordSet(i) == \E j \in WordFlags[i] : state[j] /= 0

MoveOnSkipsSecond == sbuf' = 1 /\ spc' = "sleep"
MoveOnNoReset ==
  IF sbuf = 1 THEN sbuf' = 2 /\ spc' = "test"
              ELSE sbuf' = sbuf + 1 /\ spc' = "sleep"

MoveOn ==
  IF sbuf = 1 THEN sbuf' = 2 /\ spc' = "test"
              ELSE sbuf' = 1 /\ spc' = "sleep"

(* The test of the word id0 or id1 points to. *)
SenderTest ==
  /\ spc = "test"
  /\ IF WordSet(sbuf) THEN spc' = "compress" /\ UNCHANGED sbuf ELSE MoveOn
  /\ out_buf' = << >>
  /\ UNCHANGED <<shared, handler, sent>>

(* Mutation: the thread always compresses the first buffer. *)
CompressFirst ==
  /\ spc = "compress"
  /\ out_buf' = Append(out_buf, m_buffer[1][Len(out_buf) + 1])
  /\ spc' = IF Len(out_buf) + 1 = BatchSize THEN "send" ELSE "compress"
  /\ UNCHANGED <<shared, handler, sbuf, sent>>

(* compress2send reads DATA_PAGE_SIZE bytes of the buffer, in order.        *)
CompressEntry ==
  /\ spc = "compress"
  /\ out_buf' = Append(out_buf, m_buffer[sbuf][Len(out_buf) + 1])
  /\ spc' = IF Len(out_buf) + 1 = BatchSize THEN "send" ELSE "compress"
  /\ UNCHANGED <<shared, handler, sbuf, sent>>

(* kernel_send takes the whole datagram ... *)
SendDatagram ==
  /\ spc = "send"
  /\ sent' = Append(sent, [buf |-> sbuf, records |-> out_buf])
  /\ spc' = "clear"
  /\ UNCHANGED <<shared, handler, sbuf, out_buf>>

(* Mutation: the error is ignored and the buffer released. *)
SendErrorIgnored ==
  /\ spc = "send"
  /\ spc' = "clear"
  /\ UNCHANGED <<shared, handler, sbuf, out_buf, sent>>

(* ... or returns -1, and the thread ends.                                  *)
SendError ==
  /\ spc = "send"
  /\ spc' = "out"
  /\ UNCHANGED <<shared, handler, sbuf, out_buf, sent>>

(* Mutation: the flag of a sent buffer is not cleared. *)
SenderNoClear ==
  /\ spc = "clear"
  /\ MoveOn
  /\ UNCHANGED <<shared, handler, out_buf, sent>>

(* Zero is stored through id0 or id1, four bytes wide. *)
SenderClear ==
  /\ spc = "clear"
  /\ state' = [j \in Buffers |-> IF j \in WordFlags[sbuf] THEN 0 ELSE state[j]]
  /\ MoveOn
  /\ UNCHANGED <<m_buffer, pos, handler, out_buf, sent>>

(* schedule_timeout_interruptible(1) *)
SenderWake ==
  /\ spc = "sleep"
  /\ spc' = "test"
  /\ UNCHANGED <<shared, handler, sbuf, out_buf, sent>>

SenderStep ==
  \/ SenderTest \/ CompressEntry \/ SendDatagram \/ SendError
  \/ SenderClear \/ SenderWake
-----------------------------------------------------------------------------
Next == (\E f \in Forms : DebugExit(f)) \/ HandlerStep \/ SenderStep

Spec == Init /\ [][Next]_vars

(* A VM exit runs to its end with interrupts off, and the scheduler runs a  *)
(* runnable thread; nothing makes the guest branch or the socket succeed.   *)
FairSpec == Spec /\ WF_vars(HandlerStep) /\ WF_vars(SenderStep)
-----------------------------------------------------------------------------
(***************************************************************************)
(* Properties.                                                             *)
(***************************************************************************)
(***************************************************************************)
(* Where the linker puts two one-byte flags is not said in the source.  A  *)
(* flag is alone when the four-byte word at its address covers no other:   *)
(* with gcc -O2 flag 1 is and flag 2 is not.  The properties say what they *)
(* promise of a buffer whose flag is alone and what of every buffer.       *)
(***************************************************************************)
Alone(i) == WordFlags[i] = {i}
Separate == \A i \in Buffers : Alone(i)

HandlerPcs == {"guest", "test1", "test2", "copy", "copying", "publish"}
SenderPcs == {"test", "compress", "send", "clear", "sleep", "out"}
Batch == [buf : Buffers, records : Seq(Entry)]

(* Every variable keeps the type its declaration in the code gives it. *)
TypeOK ==
  /\ m_buffer \in [Buffers -> [Slots -> Entry]]
  /\ pos \in [Buffers -> Nat]
  /\ state \in [Buffers -> {0, 1}]
  /\ OutPutCount \in Nat
  /\ MissCount \in Nat
  /\ exits \in Seq(Forms)
  /\ hpc \in HandlerPcs
  /\ target \in Buffers
  /\ spc \in SenderPcs
  /\ sbuf \in Buffers
  /\ out_buf \in Seq(Entry)
  /\ sent \in Seq(Batch)

Writing(i) == hpc \in {"copy", "copying", "publish"} /\ target = i
Shipping(i) == spc \in {"compress", "send", "clear"} /\ sbuf = i

(* The handler never writes past the end of a kmalloc'ed buffer, although  *)
(* it compares the offset with the mark for equality only (vmm.c:429).     *)
InBounds ==
  \A i \in Buffers : pos[i] + EntrySize <= Capacity * EntrySize

(* A flag that is alone excludes handler and thread from each other: while *)
(* the thread compresses, sends and releases the buffer the handler is not *)
(* in it, though each tests the flag long before it uses the buffer.       *)
Exclusive == \A i \in Buffers : Alone(i) => ~(Writing(i) /\ Shipping(i))

(* A record stands for the exit of its time. *)
Genuine(r) == r.time \in 1..Now /\ Traced(exits[r.time]) /\ r = EntryAt(r.time)

Whole(b) ==
  /\ Len(b.records) = BatchSize
  /\ \A s \in 1..BatchSize : Genuine(b.records[s])
  /\ \A s, u \in 1..BatchSize : s < u => b.records[s].time < b.records[u].time

(* Every datagram of a buffer whose flag is alone holds a full buffer of   *)
(* finished records in the order of their time stamps: no half-copied,     *)
(* stale or uninitialised slot is sent.                                    *)
BatchesWhole == \A k \in 1..Len(sent) : Alone(sent[k].buf) => Whole(sent[k])

TimesOf(b) == {b.records[s].time : s \in 1..Len(b.records)}

(* No record leaves through both buffers; and where the flag of a buffer is *)
(* alone its batches leave in the order in which they were recorded, no     *)
(* record twice.  (Batches of different buffers do overlap in time: a       *)
(* partly filled buffer 2 waits while buffer 1 is used.)                    *)
BatchOrder ==
  \A k, l \in 1..Len(sent) : k < l =>
    IF sent[k].buf # sent[l].buf
    THEN TimesOf(sent[k]) \cap TimesOf(sent[l]) \subseteq {Torn.time}
    ELSE Alone(sent[k].buf) =>
           \A t \in TimesOf(sent[k]), u \in TimesOf(sent[l]) : t < u

(* The number of records buffer i holds, and those records in order. *)
Held(i) == IF state[i] = 1 THEN BatchSize ELSE pos[i] \div EntrySize
Content(i) == [s \in 1..Held(i) |-> m_buffer[i][s]]

TracedTimes == {t \in 1..Now : Traced(exits[t])}
SentTimes == UNION {TimesOf(sent[k]) : k \in 1..Len(sent)}
HeldTimes == UNION {{m_buffer[i][s].time : s \in 1..Held(i)} : i \in Buffers}
InFlight == IF hpc = "guest" THEN {} ELSE {Now}

Kept == SentTimes \cup HeldTimes
Settled == TracedTimes \ InFlight

(* MissCount is exactly the number of traced CALLs and RETs that were not  *)
(* sent and are not waiting in a buffer (readme.txt:4), and OutPutCount    *)
(* the number of those that are.                                           *)
Accounting ==
  /\ Cardinality(Settled \ Kept) = MissCount
  /\ Cardinality(Settled \cap Kept) = OutPutCount

(* What is left of this in every layout: the two counters count every       *)
(* traced branch once, no branch counted as missed is ever found, and where *)
(* every flag is alone the counters are exact.                              *)
Counted ==
  /\ MissCount + OutPutCount = Cardinality(Settled)
  /\ MissCount <= Cardinality(Settled \ Kept)
  /\ Separate => Accounting

(* A record that was kept is lost in one way only: the thread clears a word *)
(* that covers another flag too (the store through id1, vmxice_extract.c:179).  *)
LostOnlyByWideClear == [][Kept \subseteq Kept' \/ (SenderClear /\ ~Alone(sbuf))]_vars

(* A flag falls only when a datagram has been sent from a buffer whose word *)
(* covers it; if that buffer's flag is alone, the datagram is the last one  *)
(* sent and holds all the buffer holds.                                     *)
ClearedAfterSend ==
  [][\A i \in Buffers : state[i] = 1 /\ state'[i] = 0 =>
       /\ sent # << >> /\ i \in WordFlags[sent[Len(sent)].buf]
       /\ Alone(sent[Len(sent)].buf) =>
            sent[Len(sent)] = [buf |-> i, records |-> Content(i)]]_vars

(* A full buffer is sent and released, unless the thread has ended.        *)
FullBufferReleased ==
  \A i \in Buffers : state[i] = 1 ~> (state[i] = 0 \/ spc = "out")

(* The flag says CALL or RET as m_buffer.h:57 has it: 1 for a CALL, 0 for  *)
(* a RET.                                                                  *)
FlagTellsKind ==
  \A k \in 1..Len(sent) : \A s \in 1..Len(sent[k].records) :
    LET r == sent[k].records[s]
    IN  exits[r.time].kind = (IF r.call_ret_flag = 1 THEN "call" ELSE "ret")

(* In every layout of the flags the handler and the thread implement the   *)
(* channel: a record is in a lane once it is published, and a batch is     *)
(* delivered when its buffer is released; between the two steps the        *)
(* datagram already sent does not count.                                   *)
DeliveredCount == IF spc = "clear" THEN Len(sent) - 1 ELSE Len(sent)

Channel == INSTANCE TraceChannel WITH
  Records <- [time : 1..MaxExits, call_ret_flag : {0, 1}],
  Unfinished <- Torn,
  Word <- WordFlags,
  lane <- [i \in Buffers |-> Content(i)],
  delivered <- [k \in 1..DeliveredCount |-> sent[k].records],
  missed <- MissCount

ImplementsChannel == Channel!CSpec
=============================================================================
