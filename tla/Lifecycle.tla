----------------------------- MODULE Lifecycle -----------------------------
(***************************************************************************)
(* Loading and unloading the module: vmxice_init and vmxice_exit (main.c)  *)
(* with the sender's set-up (udp_send_init), SetupVMX, SetupVMCS and       *)
(* Virtualize, any step of which may fail; and the two that run beside     *)
(* them once they exist, the sender thread and the traced guest.           *)
(*                                                                         *)
(* A step that uses what it failed to get, or executes an instruction the  *)
(* processor rejects, faults in the kernel: crash names it, and the model  *)
(* stops there.                                                            *)
(***************************************************************************)
EXTENDS Integers

CONSTANT MaxLoads  \* bound on how often the module is loaded

ASSUME LoadsAssumption == MaxLoads \in Nat

VARIABLES
  cpu,          \* the processor: VT-x present, enabled and locked by the BIOS
  loads,        \* how often the module was loaded
  lpc,          \* the step vmxice_init or vmxice_exit is at
  held,         \* what this load has allocated and not freed
  reported,     \* what vmxice_init printed
  vmx,          \* "off", "root" (after VMXON) or "guest" (after VMLAUNCH)
  current,      \* a VMCS is current on the processor
  thread,       \* the sender thread: "none", "running" or "ended"
  kthreadtask,  \* the variable: is it non-null?
  flagged,      \* a buffer's flag is set
  crash         \* the step that faulted, or "none"

loader == <<lpc, held, reported>>
processor == <<cpu, vmx, current>>
sender == <<thread, kthreadtask>>
vars == <<loads, loader, processor, sender, flagged, crash>>

Sender == {"sock", "tinfo"}
TraceMemory == {"m_buffer1", "m_buffer2"}
Region == {"VMXON_va", "VMCS_va", "IO_Bitmap_A", "IO_Bitmap_B", "MSR_bitmap",
           "Host_Stack", "VMMIDT", "LocalAPIC", "IOAPIC"}

(* InitOrder[s]: the step of vmxice_init after s, among those that can fail or *)
(* matter to others.                                                         *)
InitOrder ==
  [m_bufferInit |-> "VideoInit", VideoInit |-> "out_buf",
   out_buf |-> "sock", sock |-> "bind", bind |-> "connect", connect |-> "tinfo",
   tinfo |-> "kthread_run", kthread_run |-> "kthreadtask", kthreadtask |-> "VTx",
   VTx |-> "VMXEnabled", VMXEnabled |-> "GUEST_CPU",
   GUEST_CPU |-> "VMXON_va", VMXON_va |-> "VmxOn", VmxOn |-> "VMCS_va",
   VMCS_va |-> "IO_Bitmap_A", IO_Bitmap_A |-> "IO_Bitmap_B", IO_Bitmap_B |-> "MSR_bitmap",
   MSR_bitmap |-> "Host_Stack", Host_Stack |-> "VMMIDT", VMMIDT |-> "LocalAPIC",
   LocalAPIC |-> "IOAPIC", IOAPIC |-> "VmClear", VmClear |-> "HostPDE_va",
   HostPDE_va |-> "VmLaunch", VmLaunch |-> "loaded"]

(* Mutation: the buffers are released before the guest is stopped. *)
ExitOrderReleaseFirst ==
  [loaded |-> "m_bufferRelease", m_bufferRelease |-> "StopVirtualization",
   StopVirtualization |-> "absent"]

(* The same for vmxice_exit. *)
ExitOrder ==
  [loaded |-> "StopVirtualization", StopVirtualization |-> "m_bufferRelease",
   m_bufferRelease |-> "absent"]

Init ==
  /\ cpu \in [vtx : BOOLEAN, enabled : BOOLEAN, locked : BOOLEAN]
  /\ loads = 0
  /\ lpc = "absent"
  /\ held = {}
  /\ reported = "none"
  /\ vmx = "off"
  /\ current = FALSE
  /\ thread = "none"
  /\ kthreadtask = FALSE
  /\ flagged = FALSE
  /\ crash = "none"

Crash(s) ==
  /\ crash' = s
  /\ UNCHANGED <<loads, loader, processor, sender, flagged>>

Goto(s) == lpc' = s /\ UNCHANGED <<reported, crash>>
Report(r) == lpc' = "loaded" /\ reported' = r /\ UNCHANGED crash
-----------------------------------------------------------------------------
(* insmod: the module's variables start afresh; the processor's state and    *)
(* whatever an earlier load leaked do not.                                   *)
Load ==
  /\ lpc = "absent" /\ loads < MaxLoads
  /\ thread # "running"
  /\ loads' = loads + 1
  /\ lpc' = "m_bufferInit"
  /\ held' = {}
  /\ reported' = "none"
  /\ thread' = "none"
  /\ kthreadtask' = FALSE
  /\ flagged' = FALSE
  /\ UNCHANGED <<processor, crash>>

(* Mutation: the flags start set. *)
M_bufferInitFull ==
  /\ lpc = "m_bufferInit"
  /\ \E got \in SUBSET TraceMemory : held' = held \cup got
  /\ flagged' = TRUE
  /\ Goto(InitOrder[lpc])
  /\ UNCHANGED <<loads, processor, sender>>

(* m_bufferInit looks at neither pointer kmalloc returns. *)
M_bufferInit ==
  /\ lpc = "m_bufferInit"
  /\ \E got \in SUBSET TraceMemory : held' = held \cup got
  /\ flagged' = FALSE
  /\ Goto(InitOrder[lpc])
  /\ UNCHANGED <<loads, processor, sender>>

(* VideoInit uses registered_fb[0] as it finds it. *)
VideoInit ==
  /\ lpc = "VideoInit"
  /\ \/ Goto(InitOrder[lpc]) /\ UNCHANGED <<loads, held, processor, sender, flagged>>
     \/ Crash(lpc)
-----------------------------------------------------------------------------
(* udp_send_init.  vmxice_init does not look at its result.                  *)
(* With out_buf the error path releases a sock that was never set.           *)
OutBuf ==
  /\ lpc = "out_buf"
  /\ \/ held' = held \cup {lpc} /\ Goto(InitOrder[lpc])
        /\ UNCHANGED <<loads, processor, sender, flagged>>
     \/ Crash(lpc)

(* Mutation: a failure after sock_create_kern leaves the socket.             *)
SendInitFailedKeepsSock ==
  /\ held' = held \ {"tinfo"}
  /\ kthreadtask' = FALSE
  /\ Goto(InitOrder["kthreadtask"])

(* The labels thread_error to create_error. *)
SendInitFailed ==
  /\ held' = held \ Sender
  /\ kthreadtask' = FALSE
  /\ Goto(InitOrder["kthreadtask"])

SendInitStep ==
  /\ lpc \in {"sock", "bind", "connect", "tinfo"}
  /\ \/ /\ held' = held \cup ({lpc} \cap Sender)
        /\ Goto(InitOrder[lpc])
        /\ UNCHANGED kthreadtask
     \/ SendInitFailed
  /\ UNCHANGED <<loads, processor, thread, flagged>>

(* kthread_run wakes the thread before it returns the task ... *)
KthreadRun ==
  /\ lpc = "kthread_run"
  /\ \/ thread' = "running" /\ Goto(InitOrder[lpc]) /\ UNCHANGED <<held, kthreadtask>>
     \/ SendInitFailed /\ UNCHANGED thread
  /\ UNCHANGED <<loads, processor, flagged>>

(* ... to kthreadtask. *)
KthreadAssign ==
  /\ lpc = "kthreadtask"
  /\ kthreadtask' = TRUE
  /\ Goto(InitOrder[lpc])
  /\ UNCHANGED <<loads, held, processor, thread, flagged>>

SendInit == OutBuf \/ SendInitStep \/ KthreadRun \/ KthreadAssign
-----------------------------------------------------------------------------
(* Mutation: the result of the CPUID check is not used. *)
CheckVTxIgnored ==
  /\ lpc = "VTx"
  /\ Goto(InitOrder[lpc])
  /\ UNCHANGED <<loads, held, processor, sender, flagged>>

(* CheckForVirtualizationSupport (CPUID). *)
CheckVTx ==
  /\ lpc = "VTx"
  /\ IF cpu.vtx THEN Goto(InitOrder[lpc]) ELSE Report("unsupported")
  /\ UNCHANGED <<loads, held, processor, sender, flagged>>

(* CheckIfVMXIsEnabled reads an MSR that only a processor with VT-x has.     *)
CheckVMXEnabled ==
  /\ lpc = "VMXEnabled"
  /\ IF ~cpu.vtx
       THEN Crash(lpc)
       ELSE /\ IF cpu.enabled THEN Goto(InitOrder[lpc]) ELSE Report("disabled")
            /\ UNCHANGED <<loads, held, processor, sender, flagged>>

(* StartVirtualization clears pCpu before it looks whether kmalloc failed.   *)
AllocCpu ==
  /\ lpc = "GUEST_CPU"
  /\ \/ held' = held \cup {lpc} /\ Goto(InitOrder[lpc])
        /\ UNCHANGED <<loads, processor, sender, flagged>>
     \/ Crash(lpc)

(* Mutation: SetupVMX does not look whether the VMCS was allocated. *)
AllocRegionUnchecked ==
  /\ lpc \in Region
  /\ \/ held' = held \cup {lpc} /\ Goto(InitOrder[lpc])
     \/ IF lpc = "VMCS_va" THEN Goto(InitOrder[lpc]) /\ UNCHANGED held
                           ELSE Report("failed") /\ UNCHANGED held
  /\ UNCHANGED <<loads, processor, sender, flagged>>

(* SetupVMX: each region is allocated, looked at and filled; what was         *)
(* allocated before a failure is not freed, and VMX is not turned off.       *)
AllocRegion ==
  /\ lpc \in Region
  /\ \/ held' = held \cup {lpc} /\ Goto(InitOrder[lpc])
     \/ Report("failed") /\ UNCHANGED held
  /\ UNCHANGED <<loads, processor, sender, flagged>>

(* VMXON.  In VMX operation already, it fails, by CF without a current VMCS  *)
(* and by ZF with one; only CF is looked at.  With the feature MSR unlocked  *)
(* it faults.                                                                *)
VmxOn ==
  /\ lpc = "VmxOn"
  /\ \/ /\ vmx = "off" /\ cpu.locked
        /\ \/ vmx' = "root" /\ current' = FALSE /\ Goto(InitOrder[lpc])
           \/ Report("failed") /\ UNCHANGED <<vmx, current>>
        /\ UNCHANGED <<cpu, loads, held, sender, flagged>>
     \/ /\ vmx # "off"
        /\ IF current THEN Goto(InitOrder[lpc]) ELSE Report("failed")
        /\ UNCHANGED <<loads, held, processor, sender, flagged>>
     \/ vmx = "off" /\ ~cpu.locked /\ Crash(lpc)

(* SetupVMCS: VMCLEAR and VMPTRLD.  With an earlier VMCS current they fail    *)
(* by ZF, which is not looked at, and the earlier one stays current.         *)
VmClear ==
  /\ lpc = "VmClear"
  /\ \/ current' = TRUE /\ Goto(InitOrder[lpc])
     \/ ~current /\ UNCHANGED current /\ Report("failed")
  /\ UNCHANGED <<cpu, vmx, loads, held, sender, flagged>>

(* HostCr3Init copies the page directory to wherever kmalloc points. *)
HostCr3Init ==
  /\ lpc = "HostPDE_va"
  /\ \/ held' = held \cup {lpc} /\ Goto(InitOrder[lpc])
        /\ UNCHANGED <<loads, processor, sender, flagged>>
     \/ Crash(lpc)

(* Mutation: Virtualize returns true, whatever VMLAUNCH did. *)
VmLaunchTrue ==
  /\ lpc = "VmLaunch"
  /\ \/ vmx' = "guest"
     \/ UNCHANGED vmx
  /\ Report("success")
  /\ UNCHANGED <<cpu, current, loads, held, sender, flagged>>

(* VMLAUNCH.  When it succeeds the guest goes on at _GuestEntryPoint with    *)
(* the 1 that _Return1 left in eax, as if StartVirtualization had returned   *)
(* it; when it fails StartVirtualization returns false.                      *)
VmLaunch ==
  /\ lpc = "VmLaunch"
  /\ \/ vmx' = "guest" /\ Report("success")
     \/ UNCHANGED vmx /\ Report("failed")
  /\ UNCHANGED <<cpu, current, loads, held, sender, flagged>>

StartVirtualization ==
  AllocCpu \/ AllocRegion \/ VmxOn \/ VmClear \/ HostCr3Init \/ VmLaunch
-----------------------------------------------------------------------------
(* rmmod.  The VMCALL is executed whether or not the guest was ever          *)
(* launched: in the guest HandleVmCall leaves VMX operation, in root it      *)
(* fails and is ignored, outside VMX operation it is an invalid opcode.      *)
Unload ==
  /\ lpc = "loaded"
  /\ lpc' = ExitOrder[lpc]
  /\ UNCHANGED <<loads, held, reported, processor, sender, flagged, crash>>

(* Mutation: VMX operation is left, the VMCS is not. *)
StopVirtualizationKeepsCurrent ==
  /\ lpc = "StopVirtualization"
  /\ IF vmx = "off"
       THEN Crash(lpc)
       ELSE /\ vmx' = IF vmx = "guest" THEN "off" ELSE vmx
            /\ Goto(ExitOrder[lpc])
            /\ UNCHANGED <<cpu, current, loads, held, sender, flagged>>

StopVirtualization ==
  /\ lpc = "StopVirtualization"
  /\ IF vmx = "off"
       THEN Crash(lpc)
       ELSE /\ vmx' = IF vmx = "guest" THEN "off" ELSE vmx
            /\ current' = (vmx # "guest" /\ current)
            /\ Goto(ExitOrder[lpc])
            /\ UNCHANGED <<cpu, loads, held, sender, flagged>>

M_bufferRelease ==
  /\ lpc = "m_bufferRelease"
  /\ held' = held \ TraceMemory
  /\ Goto(ExitOrder[lpc])
  /\ UNCHANGED <<loads, processor, sender, flagged>>
-----------------------------------------------------------------------------
(* The traced guest fills a buffer: the handler writes to the first, or, the *)
(* first being full, to the second, allocated or not.                       *)
GuestFillsBuffer ==
  /\ vmx = "guest"
  /\ \/ /\ "m_buffer1" \in held
        /\ flagged' = TRUE
        /\ UNCHANGED <<loads, loader, processor, sender, crash>>
     \/ "m_buffer1" \notin held /\ Crash("HandleDebugException")
     \/ flagged /\ "m_buffer2" \notin held /\ Crash("HandleDebugException")

(* The thread ships a full buffer and clears its flag; or the send fails,    *)
(* and it clears kthreadtask, releases socket and tinfo, and ends.  When the *)
(* module is gone its code and variables are, too.                           *)
SendBuffer ==
  /\ thread = "running" /\ flagged /\ lpc # "absent"
  /\ flagged' = FALSE
  /\ UNCHANGED <<loads, loader, processor, sender, crash>>

SendFails ==
  /\ thread = "running" /\ flagged /\ lpc # "absent"
  /\ thread' = "ended"
  /\ kthreadtask' = FALSE
  /\ held' = held \ Sender
  /\ UNCHANGED <<loads, lpc, reported, processor, flagged, crash>>

(* compress2send uses the work space kmalloc returned without looking at it. *)
CompressFails ==
  thread = "running" /\ flagged /\ lpc # "absent" /\ Crash("compress2send")

ThreadWithoutModule ==
  thread = "running" /\ lpc = "absent" /\ Crash("sendthread")
-----------------------------------------------------------------------------
InitStep ==
  M_bufferInit \/ VideoInit \/ SendInit \/ CheckVTx \/ CheckVMXEnabled
    \/ StartVirtualization

ExitStep == StopVirtualization \/ M_bufferRelease

Next ==
  /\ crash = "none"
  /\ \/ Load \/ InitStep \/ Unload \/ ExitStep
     \/ GuestFillsBuffer \/ SendBuffer \/ SendFails \/ CompressFails
     \/ ThreadWithoutModule

Spec == Init /\ [][Next]_vars
-----------------------------------------------------------------------------
LoaderSteps == DOMAIN InitOrder \cup DOMAIN ExitOrder \cup {"absent"}
Loading == lpc \in DOMAIN InitOrder

(* Every variable keeps its type, and a VMCS is current only in VMX           *)
(* operation: VMXOFF is the one way out (vmx-x86.asm:639).                   *)
TypeOK ==
  /\ cpu \in [vtx : BOOLEAN, enabled : BOOLEAN, locked : BOOLEAN]
  /\ loads \in 0..MaxLoads
  /\ lpc \in LoaderSteps
  /\ held \subseteq Sender \cup TraceMemory \cup Region \cup {"out_buf", "GUEST_CPU", "HostPDE_va"}
  /\ reported \in {"none", "unsupported", "disabled", "failed", "success"}
  /\ vmx \in {"off", "root", "guest"}
  /\ current \in BOOLEAN
  /\ current => vmx # "off"
  /\ thread \in {"none", "running", "ended"}
  /\ kthreadtask \in BOOLEAN
  /\ flagged \in BOOLEAN
  /\ crash \in {"none", "HandleDebugException", "compress2send", "sendthread"}
              \cup LoaderSteps

(* "Virtualize successfully!" is printed (main.c:96-106) exactly when the    *)
(* module goes on in the guest, although StartVirtualization itself returns  *)
(* false on every path.                                                      *)
ReportIsTrue == lpc = "loaded" => (reported = "success" <=> vmx = "guest")

(* The guest never runs without a region the processor or the VM-exit        *)
(* handler uses, whichever step failed.                                      *)
LaunchedWithEverything ==
  vmx = "guest" => Region \cup {"GUEST_CPU", "HostPDE_va"} \subseteq held

(* While the guest is traced no buffer the handler was given is freed.       *)
BuffersOutliveGuest ==
  [][vmx = "guest" => TraceMemory \cap held \subseteq held']_vars

(* Once udp_send_init has returned, kthreadtask says whether the thread      *)
(* exists, although the thread may end, and clear it, at any time: before    *)
(* the guest runs no flag is set, so the thread cannot end before            *)
(* kthread_run's result has been stored over it.                             *)
TaskTracksThread ==
  lpc # "kthreadtask" => (kthreadtask <=> thread = "running")

(* Socket and tinfo live as long as the thread, whichever step failed.       *)
SocketFollowsThread ==
  (lpc \notin {"sock", "bind", "connect", "tinfo", "kthread_run"} /\ crash = "none") =>
    (Sender \subseteq held /\ thread = "running") \/ (Sender \cap held = {} /\ thread # "running")

(* A step whose failure is checked for does not bring the machine down: only *)
(* unchecked allocations, an unlocked feature MSR and, after the load, the   *)
(* unconditional VMCALL, unallocated buffers, the thread's work space and a  *)
(* thread that outlives the module do.                                       *)
CheckedStepsSurvive ==
  /\ crash \in {"none", "VideoInit", "out_buf", "GUEST_CPU", "VmxOn", "HostPDE_va",
                "StopVirtualization", "HandleDebugException", "compress2send", "sendthread"}
  /\ crash = "VmxOn" => cpu.vtx /\ cpu.enabled
  /\ crash = "StopVirtualization" => reported # "success"
=============================================================================
