# mvx_output_resolve: a model of the tracing hypervisor and its receiver

The program is in two halves.

* `src/2vmx-btflbr8.3` is a Linux kernel module for a 32-bit kernel. It puts the
  running system into a virtual machine (Intel VT-x), and has the processor leave
  the guest at every branch of one traced context. The exit handler records each
  CALL and RET in one of two memory buffers. A kernel thread compresses full buffers
  and sends them over UDP.
* `src/recv` and `src/解析` run elsewhere. A server stores each datagram as a file; a
  script decompresses the files, formats the records and removes the files.

The TLA+ modules here model both halves. TLC checks them on small instances, and
TLAPS proves the main results for every value of the constants. Paths below are
relative to `src/2vmx-btflbr8.3` unless they begin with `src`.

## 1. Inventory

| Component | State | Operations | Interacts through |
|---|---|---|---|
| Debug-exception handler (`vmm.c`, `HandleDebugException`) | `m_buffer1/2`, `m_buffer1/2_pos`, `m_buffer1/2_state`, `OutPutCount`, `MissCount` | one record per branch, choice of the buffer, wrap and flag | shared memory with the sender thread, without a lock |
| Sender thread (`vmxice_extract.c`, `sendthread`) | `out_buf`, socket, `id0`, `id1` | test a flag, compress, send, clear the flag, sleep | flags and buffers; UDP |
| Exit dispatch (`vmm.c`, `VmExitHandler` and the `Handle` functions) | `VmmCount`, `HostPDE_va`, VMCS fields of the guest | attach the address space of the guest process, emulate or refuse the instruction | VMCS; page directories of the guest |
| VMX set-up (`vmx.c`, `vmx-x86.asm`) | control regions, VMX operation, VMCS | `SetupVMX`, `SetupVMCS` with its decoders of descriptors and `VmxAdjustControls`, `Virtualize` | processor; GDT of the running kernel |
| Load and unload (`main.c`, `m_buffer.c`, `udp_send_init`) | allocations, `kthreadtask` | `vmxice_init`, `vmxice_exit` | calls all of the above |
| Server (`src/recv/server1.c`) | `recvline`, `count` | receive, open, write, close | UDP; a directory of files |
| Script and formatter (`autofinddir.sh`, `test.c` in `src/解析`) | list of names, `.bin` file, result file | list, `zpipe -d`, `changeFormat`, `rm` | the directory |
| Screen output (`video.c`) | `StartX`, `StartY`, frame buffer | `VideoInit`, `PrintChar`, `PrintStr` | called by handler and sender thread, without a lock |
| Formatting and font (`dbgprint.c`, `font_inc.c`) | none | format a message, bitmap of a character | called by screen output and `printk` |

What is hard here, and what makes each part correct:

* **Trace path.** Two actors use a buffer and nothing but a flag keeps them apart;
  the handler looks at a flag long before it has finished writing, the thread long
  before it has finished reading. Correct means: never both in one buffer, only
  whole buffers of finished records are sent, each record at most once, and a branch
  that leaves no record is counted. The flags are one-byte `bool`s and the thread
  accesses them through `int` pointers, so the placement of the variables by
  compiler and linker matters; in the layout gcc makes, the second buffer and the
  counters do not keep this promise, and the question is what remains.
* **Exit dispatch.** The handler runs on its own page directory and edits that
  directory while it runs on it; other processors, which are not virtualised, change
  the guest's directories meanwhile, and any fault of the handler ends the machine.
  Correct means: it reads the memory of the process that branched, it never takes
  away a kernel slot it may be running on, the guest always gets on, and what can
  bring the machine down is known.
* **VMX set-up.** The guest must go on as if nothing had happened: with the segments
  the kernel had, decoded from its GDT by two functions that use two layouts of the
  same eight bytes, and with controls the processor accepts. An error shows only as
  a VMLAUNCH that fails, or as a guest with another base or limit.
* **Load and unload.** More than twenty steps may fail, in a kernel; a second load
  meets what the first left in the processor; a thread and a guest run beside the
  later steps. Correct means: what is reported is true, the guest runs only with
  everything it needs, and the socket belongs to exactly one owner.
* **Receiver.** The network loses, repeats and reorders; server and script use one
  directory without coordination, both reuse buffers, and what is decoded of a file
  still being written may end at any byte. Correct means: a file holds its datagram,
  a line its record, the one line after the records nothing else than the code's
  last turn can make of them, and every file is handled. `recvfrom` may
  fail and the server may be started again; correct then means that a line
  still is a record of one datagram, unless a file number was used twice.
* **Screen output.** The handler may interrupt a print of the thread at any
  character. Correct means: each row shows its last message alone, and only the
  frame buffer is written.
* **The whole.** Buffers, datagrams and files overtake one another, and a datagram
  can be a text file before its buffer is released. Correct means: the lines of a
  result are branches in the order they were taken, and every branch is counted as
  missed, still waits, or is in one datagram, and in one only.

## 2. Modules

| Module | What it is |
|---|---|
| `TraceChannel` | Abstract specification of the trace path: two lanes fill, are delivered whole, start again; a branch without room is counted. A lane that is released together with the other promises less |
| `TraceBuffers` | Handler and sender thread in detail; `ImplementsChannel` is the refinement |
| `MCTraceBuffers` | Instances of the flag layout and the instruction forms |
| `TraceBuffersProofs` | Theorems about `TraceBuffers`, for every layout of the flags: types, bounds, exclusion, release after sending, whole datagrams |
| `TraceChannelProofs` | The refinement of `TraceChannel`, the order of the datagrams, the only way a record is lost, and the two counters, for every layout |
| `VmExits`, `MCVmExits`, `VmExitsProofs` | Exit dispatch, its instance, its theorems |
| `VmcsSetup`, `MCVmcsSetup`, `VmcsSetupProofs` | Segments and controls in the VMCS and the checks of VMLAUNCH, an instance, theorems |
| `Lifecycle`, `LifecycleProofs` | Load and unload, with the thread and the guest beside them; theorems |
| `ResultArchive` | Abstract specification of the receiving side: arrivals are numbered and each gets one result, once |
| `Collector`, `CollectorProofs` | Sender's datagrams, network, server, script and formatter, with failures and restarts; theorems. `ImplementsArchive` is the refinement |
| `Pipeline`, `PipelineProofs` | `TraceChannel` and `Collector`, composed by the sender thread; theorems about the whole, which take the receiver's invariants from `CollectorProofs` |
| `Screen`, `MCScreen`, `ScreenProofs` | Messages on the frame buffer, an instance, theorems |

`PROJECT.json` maps each definition to the lines it stands for. Definitions whose
comment begins with "Mutation" are not part of any specification: they are variants,
each with one plausible slip, that the properties are tried on.

### TraceBuffers

One action is one access to what handler and thread share. `hpc` follows the
handler: `TestFirst` and `TestSecond` are the two `if`s (vmm.c:403, 478),
`CopyBegin` and `CopyEnd` the two ends of the `memcpy`, `Publish` the offset, the
wrap, the flag and the count. Offset, wrap, flag and count are one step because
nothing the thread does depends on the offset or on `OutPutCount`, and the flag is
the one store it can see. `spc` follows the thread: `SenderTest`, one
`CompressEntry` for each record read, `SendDatagram` or `SendError`, `SenderClear`,
`SenderWake`. A slot that no finished `memcpy` has written is `Torn`; it must never
be sent.

A record keeps its time and its CALL/RET flag; the addresses, the stack pointer and
CR3 are carried along by the same copy and no property tells them apart. `exits` is
a history variable: the instruction behind each exit.

`WordFlags[i]` is the set of flags inside the four bytes at the address of flag `i`.
`SeparateFlags` gives each flag a word of its own. `AdjacentFlags` is what `gcc -m32
-O2 -fno-common` makes of m_buffer.c, with `m_buffer2_state` one byte below
`m_buffer1_state`: the word of flag 2 covers both, the word of flag 1 covers flag 1
and bytes that belong to no flag.

The source does not say where the linker puts the flags, so the properties are
stated for every layout. `Alone(i)` says that the word of flag `i` covers no other
flag; in the layout above this is so for buffer 1 and not for buffer 2. Of a buffer
whose flag is alone, `Exclusive`, `BatchesWhole`, `BatchOrder` and
`ClearedAfterSend` promise all that the code intends; of any buffer, `BatchOrder`
promises that it shares no record with the other's datagrams, and `ClearedAfterSend`
that its flag falls only after a datagram of a buffer whose word covers it.
`Counted` is what is true of the counters in every layout (each traced branch is
counted once, as recorded or as missed, and a missed one is never found), and
`Accounting`, exact counts, where every flag is alone. `LostOnlyByWideClear` names the
one step at which a recorded branch can disappear. The run `trace_linked` checks
those that say something new of the layout gcc makes; the theorems cover all of them
in every layout. `TraceChannel` has the layout as
a constant, too (`Word`): `Deliver` releases a lane by itself and hands out what the
lane holds; `DeliverShared` empties each full lane of its word and hands out
something of the size of a batch.

At this commit m_buffer.h defines a record of 40 bytes, while vmm.c and test.c still
use the members of the former record of 36 bytes (kept there as a comment), so the
module does not build as it stands. The model covers both: 36 and 40 divide
`4000*36`, with 4000 or 3600 records to a full buffer. The serial number and the
parity of the new record are assigned nowhere and are not modelled.

### VmExits

A page directory is a function from slots to page tables; `Attached(p)` is
`AttachProcess`, which copies the user half and fills kernel slots that are still
empty. `Exit` is whatever the VMCS intercepts (`Intercepted`, from SetupVMCS),
`Attach` the beginning of `VmExitHandler`, and there is one action for each group of
handlers that do the same with RIP and the injected event. Tracing is switched on at
one exit, in the context that is running then (vmm.c, `VmmCount == 20`). What a
handler writes into guest registers is left out. A MOV to CR3 moves the guest to any
process, also to one whose directory is out of `AttachProcess`'s reach (`High`,
above 892 MB).

The guest's kernel changes page directories (`MapUser`, `MapKernel`) while the guest
runs and also while an exit is handled, since only one processor is virtualised and
the others go on; `changed` remembers the slots of the running process that were
touched during the exit.

Exception 1 leaves the guest for two reasons. `"branch"` is the trap after a traced
branch: the last-branch record names an address the guest has just fetched from
(`from`). `"debug"` is an exception of the guest's own (a breakpoint register, its
own TF), possible from VMLAUNCH on because the exception bitmap holds it (vmx.c:453);
the record then names an older branch or anything. In both cases
`HandleDebugException` reads the opcode through that address, on the handler's
directory. It finds it if the slot is the guest's and nobody took the page
(`OpcodePresent`); otherwise there may be a page or none. (INT1 goes another way: as
a software exception it is answered like a breakpoint, by nothing.)

`cr4` is GUEST_CR4. SetupVMCS puts VMXE into CR4_GUEST_HOST_MASK and leaves the read
shadow alone, so that the guest reads VMXE as clear and a MOV to CR4 leaves the
guest only when it sets that bit; the handler then stores the operand as it is
(vmm.c:275), bits the processor refuses included (`Cr4Reserved`). `Enterable` is what
VM entry and the MOV to CR4 of `_VmxOff` demand. A VM entry that is refused comes
back as an exit with a reason `VmExitHandler` does nothing about, for ever.

`mode = "dead"` is the end of the machine: such an entry, or a fault of the handler.
`InitVMMIDT` (vmx.c:327-350) points the page fault of the handler's IDT at `_Reboot`
and every other vector at `_BeepOn`. Faults come from the opcode, from an MSR that
does not exist, and from a CR4 the processor refuses.

### VmcsSetup

Here the data is the subject. A word is the set of its bits that are one, a selector
its three parts, and each decoder (`GetSegmentDescriptorBase`,
`GetSegmentDescriptorLimit`, `GetSegmentDescriptorAR`) is the bits it moves.
`SetupVMCS` is one action for each group of fields; `Launch` applies the checks of
the processor on guest segments, host selectors and controls, which are external to
the code and described in their definitions. `HiddenBase`, `HiddenLimit`,
`HiddenRights` are what a segment register holds, by the processor's numbering of
the bits: the reference the decoders are compared with. An operand the processor
does not support is dropped from a control without a word, and the model follows it.

### Lifecycle

`lpc` is the step `vmxice_init` or `vmxice_exit` is at; `InitOrder` and `ExitOrder`
map each step to its successor. A step succeeds, fails as the code handles it, or
faults (`crash`), which ends the behaviour. `vmx` and `current` belong to the
processor and survive a reload, `held` is what the load has allocated.
`GuestFillsBuffer`, `SendBuffer`, `SendFails` and `CompressFails` (the work space of
the compression is used without a look at the pointer) run beside the load from the
moment guest and thread exist.

### Collector

`Send`, `Duplicate` and `Lose` are the network. `Receive` to `CloseFile` are the
body of server1's loop; a file is a sequence of file-system blocks, and `fwrite`
leaves the last one to `fclose`. `ReceiveFails` is a `recvfrom` that returns -1,
which `fwrite` then gets as a length: a file appears with nothing, or with a part of
what the buffer still held. `Restart` starts the server again at any moment: blocks
not yet written are lost and numbers begin at zero, while the directory and the
script go on. `List` is the `ls` whose names one pass of the script works through;
`ReadFile` is zpipe, which reads a file piece by piece while the server may still be
writing it, or writing it anew. `Inflate` gives all records of a whole stream; when
the file is short, an arbitrary beginning of them (`bin`) and perhaps a part of the
next (`tail`), for zpipe writes every byte it could inflate; and anything after that
beginning when the blocks are of two streams. `Lines` is the `while(!feof)` loop of
test.c, which does not look at what `fread` returns: its last turn prints `out_ent`
as it is, the last record a second time, or `Torn`: the beginning of one record over
the rest of the one before. Results keep record identities, not text. `result` is
indexed by file name because the script derives the name of the result from it.
`Names` has a number for every call of `recvfrom` that returns, so the bound in the
guards of `Receive` and `ReceiveFails` never keeps one from happening.

`ResultArchive` promises of a result that it begins with records of its datagram in
their order and has one line more, from `LastLines`: the one before it or the
beginning of the next record over that. `ImplementsArchive` maps a number to finished
when its file has been created and removed again, and `ArrivalsFinish` is what
`ResultArchive` promises beyond its steps: every arrival gets its result. Both are
stated for a server that neither fails nor restarts.

### Pipeline

`Branch`, `Ship`, `ShipFails` and `Release` are steps of `TraceChannel` joined to
`Collector!Send` by the one program that takes part in both, the sender thread:
between `Ship` and `Release` the datagram is under way and the lane still full. All
of the receiver's actions interleave with them. `batch` remembers which records a
datagram was made from. `TraceBuffers` may be replaced by `TraceChannel` here
because it implements it. `Pipeline` takes the channel in the layout where each lane
is released by itself; with adjacent flags the second lane hands out what it never
collected, and neither property of the composition would hold for it. A failed send
is an action here, and in `TraceChannel` merely a lane that is never delivered.

### Screen

`PrintStr` begins a message, `PrintNext` and `FillLine` are one round each of its
two loops, so that another printer may come between two characters. A pixel keeps
which character painted it last; the bitmap and the colours are left out. `Cell` is
the address arithmetic of `PrintChar`, modulo the width of a ULONG (`Word`). The
handler writes the rows of its counters, the thread row 13
(vmxice_extract.c:157-159).

## 3. Runs

| Run | Bounds | Shows |
|---|---|---|
| `trace_buffers` | room for 3 records, 2 to a batch, 7 exits, separate flags, CALL and RET | Flags exclude; datagrams whole, in order, never repeated; exact counts; refinement of `TraceChannel`; a full buffer is released unless the thread has ended |
| `trace_linked` | as above but 5 exits, adjacent flags, other branches, too | What remains in that layout: each branch counted once; loss by the wide clear only; refinement of `TraceChannel`, by which buffer 1 is delivered whole and in order |
| `linked_loses_records` | 6 exits, adjacent flags | **Violation** of `Accounting` |
| `indirect_jump_flagged` | 4 exits, indirect jumps | **Violation** of `FlagTellsKind` |
| `vm_exits` | 3 processes, one out of reach, one slot in each half, one reserved bit of CR4, 3 exits, count modulo 3; the two reachable processes are symmetric | The handler's view of memory, its kernel half, RIP or exception, and what alone brings the machine down |
| `vmcs_setup` | GDT of 7 descriptors, 7 kinds of selector in FS, GS and DS/ES, with and without LDT, 4 processors | The guest keeps its segments; VMLAUNCH succeeds exactly when the decoders can render them |
| `lifecycle` | 2 loads, every processor configuration, every failure | Report, allocations, ownership of the socket |
| `collector` | 2 datagrams of 2 records, up to 2 blocks, 2 copies each | Files, lines, the last one included, refinement of `ResultArchive`, a result for every arrival |
| `collector_faults` | 2 datagrams, one copy each, one failed `recvfrom`, one restart | Lines are records even so, and every file is handled |
| `collector_removes` | 2 datagrams, one copy each, no faults | **Violation** of `RemovedWhenProcessed` |
| `pipeline` | 5 branches, batches of 2, 2 datagrams, 2 copies each | Lines in the order of the branches; every branch in one place |
| `screen` | characters of 2x2 pixels, text area of 4x3, 3 screens, messages of 0 to 3 characters, one row for each of 2 printers | Only the frame buffer is written; a row shows its last message |

Why the bounds are enough. Seven exits fill both buffers (four records), miss a
branch, and fill a buffer again after its release: every buffer is used twice and
the sender can be anywhere in between. A buffer has one slot more than a batch, so
that a write beyond the mark and a write beyond the buffer differ. With two loads
the second meets each state of the processor the first can leave. Two datagrams of
different lengths are what a reused receive buffer, a swapped order or a repeated
datagram needs. One restart makes the server take a number again while the script is
anywhere in its file; one failure finds the buffer empty or with either datagram. In
`vm_exits`, two reachable processes show a stale user half, the third the directory
that cannot be attached; slots of one half are treated alike, so one slot of each is
enough; tracing starts at the second exit, the third can be a traced branch in
whichever process, and the count wraps after it. The run finds each of the causes
`FatalCauses` allows. Five exits in `trace_linked` fill both buffers and leave one
branch more, and the thread can be anywhere between its two tests.
In `pipeline` five branches fill both lanes and leave one that is missed, or
recorded in a lane released meanwhile. In `screen` the longest message fills all but
the last column (in the code it is 70 of 100 characters); one screen has margins and
padded lines, one just fits and one is too small. The descriptors of
`vmcs_setup` have flat and byte limits, bases with bits in all three parts, and
system types.

`screen` is checked for deadlock. `CHECK_DEADLOCK FALSE` is set in the other runs:
the bounds on exits and datagrams let the system come to rest, the sender thread may
end, the processor may leave VMX operation, the machine may go down, and `VmcsSetup`
ends with VMLAUNCH.

What the three violations show:

* `Accounting` with adjacent flags: the thread tests flag 1 and finds it clear; then
  buffer 1 fills and its flag is set; `if (*id1)` (vmxice_extract.c:171) reads flag 1
  with flag 2, so a second buffer that was never filled is compressed and sent; `*id1
  = 0` (vmxice_extract.c:179) drops flag 1. Flag 2 was never set. The records of
  buffer 1 have not been sent, are no longer held (the next branches overwrite them),
  and are not in MissCount, against m_buffer.h:6-7 and readme.txt:4.
* `FlagTellsKind`: an opcode FF is taken for a CALL (vmm.c:407) although FF /4 and
  FF /5 are jumps, against m_buffer.h:57.
* `RemovedWhenProcessed`: the script lists, decodes and removes a file that the
  server has created and not yet closed, against autofinddir.sh:14.

**Fairness.** `TraceBuffers`: a VM exit runs to its end with interrupts off
(`WF(HandlerStep)`), and the scheduler runs the sender thread, which never waits for
more than a jiffy (`WF(SenderStep)`). Nothing makes the guest branch, and weak
fairness of the whole sender step leaves open whether a send succeeds. Strong
fairness is never assumed. `Collector`: the server and the script loop for ever; the
network owes nothing, and nothing has to fail. The other modules state no liveness.
That a load and a print end is proved in another form (`LoadGoesForward`, `PrintGoesForward`).

## 4. Proofs

Assumed of the constants:

* `TraceBuffers`: the record size divides the mark and the mark fits the buffer, which
  is 4000*36 = 144000 in the code (`SizeAssumption`); the word at the address of a
  flag covers at least that flag (`LayoutAssumption`).
* `VmExits`: the halves of a directory are disjoint, and the kernel's page tables are
  the same in all processes.
* `VmcsSetup`: descriptor 0 is null, and a control bit that must be one may be one
  (`SetupAssumption`). `LoadedAssumption` is what the processor itself checked when
  the segment registers were loaded: descriptors of the GDT are present and of a type
  that fits the register, CS, SS and TR are not null, CS and SS have privilege 0. It
  takes for granted that the kernel has not changed a descriptor since.
* `Screen`: the frame buffer lies in the address space, the rows in the text area,
  each row belongs to one printer, and a message is shorter than a row (70 of 100
  characters).
* `Collector`, `Lifecycle` and `Pipeline`: the bounds are numbers, those of sizes and
  copies at least 1.

No theorem about the trace path assumes anything of the layout of the flags: each is
stated for all of them, and says which part of it holds of a buffer whose flag is
alone. `Pipeline` alone is about the layout in which both are.
`CollectorImplementsArchive` says `ASSUME MaxFailures = 0, MaxRestarts = 0`: a file
number used twice has no single arrival to be mapped to.

* **TypeCorrect.** `TypeOK` is not inductive: `CompressEntry` reads slot
  `Len(out_buf) + 1`. `TypeInv` adds `ReadInv`, how much the thread has read at each
  point.
* **WritesInBounds**, for every layout. `OffsetInv`: an offset is a multiple of the
  record size and below the mark. The code compares for equality only, and
  divisibility is what makes it sufficient.
* **HandlerAndThreadExclude.** `ExclusionInv`: the handler, from its test to its
  publication, is in a buffer whose flag is clear, in every layout; the thread, from
  its test to its clear, is in one whose flag is set if that flag is alone, for then
  the word it tested is that flag. A clear through the other word may drop this flag,
  but the thread is then in the other buffer.
* **ClearsOnlyWhatWasSent.** `ShipInv`: what has been compressed of a buffer whose flag
  is alone is its beginning, and what was sent last is what was compressed.
* **DatagramsAreWhole.** `FillInv`, for both buffers: the slots below the offset, or
  all slots of a full buffer, hold the records of their exits in increasing time,
  all earlier than the current exit.
* **TraceBuffersImplementChannel.** A record is in a lane from `Publish` on; a batch
  is delivered at `SenderClear`, by `Deliver` or `DeliverShared` as the word says;
  all other steps stutter. The mapping does not count a datagram that has been sent
  while its buffer has not been released. `SlotInv` gives what a datagram from any
  buffer may be made of.
* **BatchesInOrder.** `PlaceInv`: a time stamp is in one buffer only, and what is in
  a datagram of a buffer was in that buffer; this gives the part about both buffers.
  `OrderInv` adds, for a buffer whose flag is alone, that what it holds and has not
  been sent is younger than all that was sent from it.
* **WideClearIsTheOnlyLoss**, an action property, from the same invariants: a record
  below the offset is overwritten by no step while it is held, and `SenderClear`
  through a word of one flag finds the buffer's content in the last datagram.
* **CountersAccount.** `CountInv`: the settled branches fall into a set `P` of recorded
  ones and the rest, which the two counters count; no branch outside `P` is found in a
  slot, with the thread or in a datagram; and where every flag is alone all of `P` is
  still kept. `Publish` puts the exit into `P`, the end of `TestSecond` leaves it out,
  and by `PlaceInv` no other step makes a time appear where it was not.
* **VmExitsTypeCorrect, HandlerReadsItsProcess, HandlerKeepsItsKernelHalf,
  EveryExitGetsOn.** `TypeOK` contains what carries the others: a kernel slot of any
  directory, the handler's included, is empty or names the table all processes
  share.
* **OnlyTheseAreFatal.** `Cr4Kept`: until VMX operation is left, GUEST_CR4 can be
  entered, for the processor lets the guest change only bits outside the mask and
  the handler is reached only by an operand that sets VMXE; so only a refused bit in
  an operand changes that. `BranchKept`: the slot a traced branch was fetched from is
  there unless another processor touched it, and by `ReadsItsOwnSpace` and `TypeOK`
  the handler then has the same table in it, in either half.
* **GuestSegmentsKept, LostSegmentsNeverRun**, for every GDT and every content of
  the segment registers. `Written` says what each field is from the action that
  writes it on; lemmas compare each decoder with the processor's bit numbers.
* **VmcsSetupTypeCorrect, RenderedSegmentsRun**, from the same invariant. The second
  is the converse of `LostSegmentsNeverRun`: each check of VMLAUNCH on a segment holds
  of a descriptor the processor has accepted before, once it is shown that the
  decoders carry limit, granularity, type, S, DPL, P and the unusable mark over to the
  right bits; and `VmxAdjustControls` sets every bit that must be one and no other
  than may be.
* **LifecycleTypeCorrect, ReportTrue, GuestKeepsBuffers, TaskFollowsThread,
  SocketWithThread, GuestHasEverything, OnlyUncheckedStepsCrash**, for any number of
  loads. `BaseInv` carries all of them: the labels, that past VMXON the processor is
  in VMX operation, and that the guest runs only in a loaded module. `ThreadInv`
  adds that no flag is set before the load is over, which is why the thread cannot
  end before `kthread_run` has stored its result; `SocketInv` who owns the socket at
  each step; `RegionInv` that each region asked for before the current step is held
  (`Rank` numbers the steps); `CheckInv` what the two checks of the processor found.
* **LoadGoesForward.** `Stage` numbers all steps of a load; every `InitStep`, its error
  paths included, goes to a higher one, and thread and guest leave `lpc` alone. So a
  load that is not brought down ends after 25 steps at most.
* **CollectorTypeCorrect, ResultsGenuine, ClosedFilesWhole,
  ClosedFilesBecomeLines**, for any number of datagrams, copies, failures and
  restarts. `NumberInv`: until a restart a number is given once, and a number not
  given has no file and no result. `FilesInv`: receive buffer, file, what zpipe has
  read, `.bin` file and result of a number all begin with one and the same datagram.
  `LengthInv`: what is to be written, and what a closed file holds, is as long as
  the datagram. `ReadyInv` follows a file that was closed when listed through the
  script.

* **CollectorImplementsArchive.** `ArchiveInv`: a number has an arrival exactly when
  it is below `count` or the one the server is at, so that the count of arrivals is
  the next number; the names the script still has to work through are files that
  exist; and before `rm`, the result is that of the beginning of its datagram. The
  arrival is `Receive`, the result is `RemoveFile`, all other steps stutter. Without
  the first conjunct the abstract number would not be known to be new, without the
  second the script might finish a number twice.
* **WholeSystemInOrder, WholeSystemAccounts**, for any number of branches, datagrams
  and copies. Every step of `Pipeline`'s receiver is a step of `Collector`, so
  `NumberInv` and `FilesInv` are taken over: a line of a result is the record at its
  place in the datagram its number arrived with. On the sender's side `LaneInv` and
  `BatchInv` say that lanes and batches are in the order of time, not longer than a
  batch, and share no branch among themselves; `ThreadInv` that only the lane being
  shipped, which is the last batch, shares branches with what was sent; `CountInv` is
  the sum. `EachBranchOnce` alone is not inductive: `Release` would be free to empty a
  lane whose branches are in no datagram, and a batch could be one that was sent
  before.
* **ScreenTypeCorrect.** `PrintInv`: what is left of a message ends before the last
  column of its row, so `PrintStr`'s wrap into the next row is never taken.
* **OnlyFrameWritten.** A cell is a rectangle of pixels; on a screen that holds the
  text area the two subtractions of `VideoInit` do not wrap, and each pixel of the
  rectangle has its line and column inside the frame.
* **MessagesDoNotMix.** Two cells are disjoint. `RowsInv`: a row somebody prints in
  shows the message up to where the print is, any other row its last message or
  nothing, and outside the rows nothing is painted.
* **PrintGoesForward.** Each round of a print advances its column or ends it, and no
  other printer moves it, so a print ends once its printer has run long enough.

Every invariant and every action property of the passing runs, and both refinements,
are stated by a theorem. Only model-checked are the liveness properties
(`FullBufferReleased`, `FilesHandled`, `ArrivalsFinish`): fairness needs ENABLED,
which is outside what the prover supports.

## 5. Observed, without a text that says otherwise

* Records of different buffers overlap in time: a partly filled buffer 2 waits while
  buffer 1 is used again. Only the order within a buffer is promised (`BatchOrder`).
* A breakpoint exception is neither skipped nor injected, so an `int3` in the guest
  is executed again for ever; `GuestGetsOn` names it as the exception.
* A page directory above 892 MB is not attached and the result is ignored
  (vmm.c:689): the opcode byte is then read through an earlier process's user half,
  or, if there is no page in it, the machine reboots (vmx.c:347-349).
* A debug exception of the guest's own is swallowed: nothing is injected. Before
  that the opcode is read at whatever the last-branch record names (vmm.c:407), and
  an address without a page reboots the machine.
* A MOV to CR4 with a bit the processor does not have is stored in GUEST_CR4
  (vmm.c:275) instead of being refused, and the guest is never entered again.
* The trap flag is set in the one context that runs at the 21st exit, and is not
  cleared when VMX operation is left.
* A RET with a prefix (F3 C3) is neither recorded nor counted.
* `vmxice_exit` executes VMCALL whether or not the guest was launched, and never
  stops the sender thread; `udp_send_exit` has no caller. readme.txt:9 says that the
  module cannot be unloaded.
* A failure in `SetupVMX` leaves the processor in VMX operation and frees nothing.
  VMfailValid (ZF) is not looked at, so a second load can go on with the VMCS of the
  first.
* A failed allocation of `out_buf` jumps to a label that releases a socket never
  created; `pCpu` is cleared before it is tested.
* The last line of each result file is printed twice; of a file that was read half
  written, it may be the beginning of one record over the end of another.
* A `recvfrom` that fails still makes a file, which may repeat an earlier datagram
  under a number of its own.
* A server that is started again gives numbers it gave before: results are
  overwritten, and a file read across that moment mixes two datagrams.
* A selector of the LDT, or a null selector with a privilege level, in DS, ES, FS or
  GS makes VMLAUNCH fail: the decoders give rights of zero and no unusable mark.
* A control the processor does not support is dropped without a word (vmx.c:312).
* On a screen below 800 by 560 pixels `StartX` or `StartY` wraps and text is written
  in front of the frame buffer.
* The case of FEATURE_CONTROL in `HandleMsrRead` (vmm.c:126) is never reached: with
  the MSR bitmap clear only MSRs beyond the bitmap's ranges leave the guest.

## 6. Not modelled

* The fields SetupVMCS copies from a register as they are, or sets to a constant: a
  model would repeat the assignments.
* The assembly wrappers of single instructions; the font; `printf` formatting; the
  declarations of the headers but for the descriptor layouts.
* The names `get_funcname` asks `addr2line` for: data that no other part reads.
* Time: the thread's jiffy of sleep is any number of exits. Wrap of `OutPutCount`
  and `MissCount`, which only go to the screen.
* More than one processor in the guest: the module virtualises the one it is loaded
  on.
* `udp_send_exit`, which has no caller.
* The vendored binaries `ser`, `zpipe` and `changeFormat`; `zpipe` is modelled as
  the script uses it.

## 7. Plan

Done: `TraceBuffers` with `TraceChannel`, their theorems and the refinement;
`Collector` with its faults, `ResultArchive`, and the refinement, checked and proved;
`Pipeline`, `Lifecycle`, `VmExits`, `VmcsSetup` and `Screen` with their theorems. A
composition of `VmExits` and `TraceBuffers` was considered and left out: they meet
only in the process whose memory the opcode is read from, which `ReadsItsOwnSpace`
states.

Left:

1. The measures behind `FullBufferReleased`, `FilesHandled` and `ArrivalsFinish`: what
   each step of the sender thread and of the script brings nearer.
2. That `Pipeline` keeps what `TraceChannel` and `ResultArchive` promise, each as a
   refinement of its own.
