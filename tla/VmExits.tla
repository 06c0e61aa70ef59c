------------------------------ MODULE VmExits ------------------------------
(***************************************************************************)
(* One virtualised processor: the guest runs until it does something the   *)
(* VMCS intercepts (SetupVMCS, vmx.c), and VmExitHandler (vmm.c) handles   *)
(* it.  The handler runs on a page directory of its own, whose user half   *)
(* AttachProcess makes a copy of the guest process's, so that the opcode   *)
(* of a traced branch can be read through the guest's address.             *)
(***************************************************************************)
EXTENDS Integers, FiniteSets

CONSTANTS
  Processes,     \* address spaces of the guest: values of its CR3
  High,          \* those whose page directory lies above 892 MB
  UserSlots,     \* slots 0 to 767 of a page directory
  KernelSlots,   \* slots 768 to 1023
  Frames,        \* page tables a user slot may name
  KernelTable,   \* KernelTable[k]: the page table all processes share in slot k
  Cr4Features,   \* bits of CR4 other than VMXE that the processor has
  Cr4Reserved,   \* bits of CR4 it refuses
  TraceAt,       \* the exit at which tracing is switched on: 20
  CountMod,      \* VmmCount counts modulo 2^32
  MaxExits       \* bound on the exits

Slots == UserSlots \cup KernelSlots
Absent == 0
NoSlot == -1

ASSUME ExitsAssumption ==
  /\ High \subseteq Processes
  /\ UserSlots \cap KernelSlots = {}
  /\ Frames \subseteq Int \ {Absent}
  /\ KernelTable \in [KernelSlots -> Int \ {Absent}]
  /\ Cr4Reserved \cap ({"VMXE"} \cup Cr4Features) = {}
  /\ MaxExits \in Nat
  /\ CountMod \in Nat \ {0} /\ TraceAt \in 0..(CountMod - 1)

VARIABLES
  dir,       \* dir[p][s]: slot s of the page directory of process p
  cr3,       \* GUEST_CR3
  cr4,       \* the bits set in GUEST_CR4; once VMX is left, in CR4
  host,      \* host[s]: slot s of the handler's page directory, HostPDE_va
  VmmCount,  \* exits handled
  tracing,   \* TF was set in GUEST_RFLAGS, LBR and BTF in GUEST_IA32_DEBUGCTL
  mode,      \* "guest", "exit" (entered), "attached", "off" (VMX left), "dead"
  reason,    \* what the guest did
  from,      \* the slot of the address the last branch record says it branched from
  changed,   \* history: slots of the running process that other processors changed meanwhile
  operand,   \* the register a MOV to CR4 left the guest with
  advanced,  \* RIP was moved past the instruction in this exit
  injected,  \* VM_ENTRY_INTR_INFO_FIELD: the vector to be delivered
  exits      \* history: number of exits

guest == <<dir, cr3, cr4, tracing>>
vmm == <<host, VmmCount>>
event == <<reason, operand, from>>
exit == <<mode, event, changed, advanced, injected, exits>>
vars == <<guest, vmm, exit>>

Cr4Bits == {"VMXE"} \cup Cr4Features \cup Cr4Reserved

Directories == [Slots -> Int]
Entries == {Absent} \cup Frames \cup {KernelTable[k] : k \in KernelSlots}

IsDirectory(d) ==
  /\ \A u \in UserSlots : d[u] \in {Absent} \cup Frames
  /\ \A k \in KernelSlots : d[k] \in {Absent, KernelTable[k]}

(* What leaves the guest whatever the VMCS says, by the handler's own cases. *)
VmxInstructions == {"vmclear", "vmlaunch", "vmptrld", "vmptrst", "vmread",
                    "vmresume", "vmwrite", "vmxoff", "vmxon"}
Always == {"cpuid", "invd", "vmcall_stop", "vmcall_magic", "vmcall_other",
           "mov_to_cr3", "mov_from_cr3", "mov_to_cr4", "task_switch"} \cup VmxInstructions

(* Mutation: the I/O bitmap selects port 0x60 again (vmx.c:436-442). *)
InterceptedIo == Always \cup {"branch", "debug", "breakpoint", "msr_read", "msr_write", "io"}

(* Exceptions 1 and 3 are in the bitmap, page faults are not; both I/O      *)
(* bitmaps and the MSR bitmap are clear, so no port and only MSRs beyond    *)
(* the bitmap's ranges leave the guest.  Exception 1 is the trap after a    *)
(* traced branch, or one of the guest's own: a breakpoint register, its own *)
(* TF.                                                                      *)
Intercepted == Always \cup {"branch", "debug", "breakpoint", "msr_read", "msr_write"}

Init ==
  /\ cr3 \in Processes \ High
  /\ dir \in [Processes -> {d \in [Slots -> Entries] : IsDirectory(d)}]
  /\ host = dir[cr3]    \* HostCr3Init
  /\ \E other \in SUBSET Cr4Features : cr4 = {"VMXE"} \cup other
  /\ VmmCount = 0
  /\ tracing = FALSE
  /\ mode = "guest"
  /\ reason = "none" /\ operand = {} /\ from = NoSlot /\ changed = {}
  /\ advanced = FALSE
  /\ injected = "none"
  /\ exits = 0
-----------------------------------------------------------------------------
(* The guest's kernel changes the user half of a page directory, or what lies *)
(* below it, as it likes, and fills a kernel slot when it is first needed.  It *)
(* does so on this processor, or on one that is not virtualised, which does   *)
(* not stop for an exit of this one.                                         *)
OnThisOrAnother(p, s) ==
  /\ mode \in {"guest", "exit", "attached"}
  /\ changed' = IF mode # "guest" /\ p = cr3 THEN changed \cup {s} ELSE changed
  /\ UNCHANGED <<cr3, cr4, tracing, vmm, mode, event, advanced, injected, exits>>

MapUser(p, u) ==
  /\ OnThisOrAnother(p, u)
  /\ \E f \in {Absent} \cup Frames : dir' = [dir EXCEPT ![p][u] = f]

MapKernel(p, k) ==
  /\ OnThisOrAnother(p, k)
  /\ dir' = [dir EXCEPT ![p][k] = KernelTable[k]]

(* The bits the VMCS keeps for the handler.  The read shadow, which SetupVMCS *)
(* does not write, is zero.                                                  *)
Cr4Owned == {"VMXE"}

(* MOV to CR4 stays in the guest while the operand has the owned bits as the  *)
(* shadow has them; then it changes the others only, or is refused for a bit  *)
(* the processor does not have.                                              *)
SetCr4(v) ==
  /\ mode = "guest"
  /\ v \cap Cr4Owned = {} /\ v \cap Cr4Reserved = {}
  /\ cr4' = (cr4 \cap Cr4Owned) \cup v
  /\ UNCHANGED <<dir, cr3, tracing, vmm, exit>>

(* The slots a last branch record can name: a traced branch was fetched from   *)
(* there; at a debug exception of the guest's own it is an older branch, of   *)
(* any program, or none.                                                     *)
BranchSlots(r) ==
  IF r = "branch" THEN {s \in Slots : dir[cr3][s] # Absent}
  ELSE IF r = "debug" THEN Slots ELSE {NoSlot}

(* An intercepted event leaves the guest.  A branch traps only once tracing  *)
(* is on, and then only while the context that was interrupted runs.         *)
Exit(r) ==
  /\ mode = "guest"
  /\ exits < MaxExits
  /\ r \in Intercepted
  /\ r = "branch" => tracing
  /\ from' \in BranchSlots(r)
  /\ changed' = {}
  /\ operand' \in IF r = "mov_to_cr4" THEN {v \in SUBSET Cr4Bits : v \cap Cr4Owned # {}}
                                       ELSE {{}}
  /\ exits' = exits + 1
  /\ reason' = r
  /\ mode' = "exit"
  /\ advanced' = FALSE
  /\ injected' = "none"
  /\ UNCHANGED <<guest, vmm>>
-----------------------------------------------------------------------------
(* Mutations of AttachProcess: the whole directory is cleared; nothing is.  *)
AttachedClearAll(target) ==
  [s \in Slots |-> dir[target][s]]
AttachedKeepUser(target) ==
  [s \in Slots |-> IF host[s] = Absent THEN dir[target][s] ELSE host[s]]

(* AttachProcess clears the user half (0xC00 bytes) and fills every slot     *)
(* that is zero; a kernel slot that is set stays, whatever the guest has.    *)
Attached(target) ==
  [s \in Slots |->
     IF s \in UserSlots \/ host[s] = Absent THEN dir[target][s] ELSE host[s]]

(* The first part of VmExitHandler: the 21st exit switches tracing on; then  *)
(* the process is attached, unless its directory is not in reach.            *)
Attach ==
  /\ mode = "exit"
  /\ tracing' = (tracing \/ VmmCount = TraceAt)
  /\ host' = IF cr3 \in High THEN host ELSE Attached(cr3)
  /\ mode' = "attached"
  /\ UNCHANGED <<dir, cr3, cr4, VmmCount, event, changed, advanced, injected, exits>>

(* What the processor accepts for GUEST_CR4.  With anything else VM entry comes *)
(* back as an exit of a reason that VmExitHandler answers as any it does not   *)
(* know, and so on for ever.                                                 *)
Enterable(bits) == "VMXE" \in bits /\ bits \cap Cr4Reserved = {}

(* Mutation: the count does not wrap. *)
ResumeNoWrap(adv, inj) ==
  /\ advanced' = adv
  /\ injected' = inj
  /\ VmmCount' = VmmCount + 1
  /\ mode' = IF Enterable(cr4') THEN "guest" ELSE "dead"
  /\ reason' = "none" /\ operand' = {} /\ from' = NoSlot /\ changed' = {}
  /\ UNCHANGED <<host, exits>>

(* The end of VmExitHandler, and VMRESUME. *)
Resume(adv, inj) ==
  /\ advanced' = adv
  /\ injected' = inj
  /\ VmmCount' = (VmmCount + 1) % CountMod
  /\ mode' = IF Enterable(cr4') THEN "guest" ELSE "dead"
  /\ reason' = "none" /\ operand' = {} /\ from' = NoSlot /\ changed' = {}
  /\ UNCHANGED <<host, exits>>

Handling(r) == mode = "attached" /\ reason = r

(* HandleUnimplemented, HandleCpuid, HandleInvd, and the reads of             *)
(* HandleCrAccess: registers change, RIP moves on.                           *)
HandlePlain ==
  /\ \E r \in {"cpuid", "invd", "task_switch", "mov_from_cr3"} : Handling(r)
  /\ UNCHANGED guest
  /\ Resume(TRUE, "none")

(* Mutation: HandleCrAccess clears VMXE, which the guest reads as clear. *)
HandleCrAccessClears ==
  /\ \/ Handling("mov_to_cr3") /\ cr3' \in Processes /\ UNCHANGED cr4
     \/ Handling("mov_to_cr4") /\ cr4' = operand \ {"VMXE"} /\ UNCHANGED cr3
  /\ UNCHANGED <<dir, tracing>>
  /\ Resume(TRUE, "none")

(* HandleCrAccess, MOV to CR3 and to CR4: the operand is stored as it is. *)
HandleCrAccess ==
  /\ \/ Handling("mov_to_cr3") /\ cr3' \in Processes /\ UNCHANGED cr4
     \/ Handling("mov_to_cr4") /\ cr4' = operand /\ UNCHANGED cr3
  /\ UNCHANGED <<dir, tracing>>
  /\ Resume(TRUE, "none")

Dies ==
  mode' = "dead" /\ UNCHANGED <<guest, vmm, event, changed, advanced, injected, exits>>

(* HandleMsrRead and HandleMsrWrite access the guest's MSR themselves; on    *)
(* one that does not exist the handler faults.  Every vector of its IDT ends  *)
(* the machine: a page fault reboots it, the others beep for ever.           *)
HandleMsr ==
  /\ Handling("msr_read") \/ Handling("msr_write")
  /\ \/ UNCHANGED guest /\ Resume(TRUE, "none")
     \/ Dies

(* HandleVmCall: the two halves of SpecCode leave VMX operation.  _VmxOff     *)
(* loads GUEST_CR4 before VMXOFF, where such a CR4 faults as well, and clears *)
(* VMXE after it.  The magic number does nothing, anything else is an invalid *)
(* opcode ...                                                                *)
HandleVmCallStop ==
  /\ Handling("vmcall_stop")
  /\ IF Enterable(cr4)
       THEN /\ mode' = "off"
            /\ cr4' = cr4 \ {"VMXE"}
            /\ UNCHANGED <<dir, cr3, tracing, vmm, event, changed, advanced, injected, exits>>
       ELSE Dies

HandleVmCallMagic ==
  Handling("vmcall_magic") /\ UNCHANGED guest /\ Resume(TRUE, "none")

(* ... as is every other VMX instruction (HandleVmInstruction).              *)
InvalidOpcode == {"vmcall_other"} \cup VmxInstructions

(* Mutation: the instruction is skipped as well. *)
HandleVmInstructionSkips ==
  /\ \E r \in InvalidOpcode : Handling(r)
  /\ UNCHANGED guest
  /\ Resume(TRUE, "UD")

HandleVmInstruction ==
  /\ \E r \in InvalidOpcode : Handling(r)
  /\ UNCHANGED guest
  /\ Resume(FALSE, "UD")

(* HandleDebugException reads the first byte of the branch through the        *)
(* directory the handler runs on (the rest of it is in TraceBuffers).  The    *)
(* page is there if the guest fetched a branch from it, still has it, and the *)
(* handler's slot is the guest's; if it is not there, the handler faults.     *)
OpcodePresent ==
  reason = "branch" /\ from \notin changed /\ host[from] = dir[cr3][from]

(* The exception is a trap, taken after the branch; nothing is injected, so   *)
(* one that was the guest's own is lost to it.                               *)
HandleDebugException ==
  /\ Handling("branch") \/ Handling("debug")
  /\ UNCHANGED guest
  /\ \/ host[from] # Absent /\ Resume(FALSE, "none")
     \/ ~OpcodePresent /\ Dies

(* The rest of HandleException, and the I/O case of VmExitHandler.  For a      *)
(* breakpoint and for I/O, whose handlers are commented out, RIP stays at the *)
(* instruction and nothing is injected.                                      *)
HandleNothing ==
  /\ Handling("breakpoint") \/ Handling("io")
  /\ UNCHANGED guest
  /\ Resume(FALSE, "none")

Handle ==
  \/ HandlePlain \/ HandleCrAccess \/ HandleMsr \/ HandleVmCallStop
  \/ HandleVmCallMagic \/ HandleVmInstruction \/ HandleDebugException \/ HandleNothing
-----------------------------------------------------------------------------
Next ==
  \/ \E p \in Processes : \/ \E u \in UserSlots : MapUser(p, u)
                          \/ \E k \in KernelSlots : MapKernel(p, k)
  \/ \E v \in SUBSET Cr4Bits : SetCr4(v)
  \/ \E r \in Intercepted : Exit(r)
  \/ Attach
  \/ Handle

Spec == Init /\ [][Next]_vars
-----------------------------------------------------------------------------
(* Every variable keeps its type; in particular the handler's directory      *)
(* never names a table that no process of the guest had in that slot.        *)
TypeOK ==
  /\ dir \in [Processes -> Directories]
  /\ \A p \in Processes : IsDirectory(dir[p])
  /\ cr3 \in Processes
  /\ cr4 \in SUBSET Cr4Bits /\ operand \in SUBSET Cr4Bits
  /\ host \in Directories /\ IsDirectory(host)
  /\ VmmCount \in 0..(CountMod - 1)
  /\ tracing \in BOOLEAN
  /\ mode \in {"guest", "exit", "attached", "off", "dead"}
  /\ reason \in {"none"} \cup Intercepted
  /\ from \in Slots \cup {NoSlot}
  /\ changed \subseteq Slots
  /\ advanced \in BOOLEAN
  /\ injected \in {"none", "UD"}
  /\ exits \in 0..MaxExits

(* While an exit is handled, an address of the guest means to the handler     *)
(* what it means to the process that runs: the first byte of a traced branch *)
(* is read from the program that branched, and from no earlier process, for  *)
(* every process whose directory AttachProcess can reach (vmm.c:407, 440),    *)
(* but where another processor changes that directory meanwhile.             *)
ReadsItsOwnSpace ==
  (mode = "attached" /\ cr3 \notin High) =>
    /\ \A u \in UserSlots \ changed : host[u] = dir[cr3][u]
    /\ \A k \in KernelSlots \ changed : dir[cr3][k] \in {Absent, host[k]}

(* AttachProcess edits the directory the handler is running on: no kernel    *)
(* slot of it ever goes away or changes under the handler's feet.            *)
KernelHalfKept ==
  [][\A k \in KernelSlots : host[k] # Absent => host'[k] = host[k]]_vars

(* Until VMX operation is left, the guest can be entered with its CR4, and     *)
(* every MOV to CR4 that reaches the handler has an operand with VMXE.       *)
Cr4Kept ==
  mode \in {"guest", "exit", "attached"} =>
    /\ Enterable(cr4)
    /\ mode # "guest" /\ reason = "mov_to_cr4" => "VMXE" \in operand

(* The page of a traced branch stays, unless another processor takes it. *)
BranchKept ==
  mode \in {"exit", "attached"} /\ reason = "branch" /\ from \notin changed =>
    from \in Slots /\ dir[cr3][from] # Absent

(* What ends the machine: an access to an MSR that does not exist; a MOV to   *)
(* CR4 with a bit the processor refuses, which HandleCrAccess stores unseen   *)
(* (vmm.c:275); a debug exception of the guest's own, at which the branch     *)
(* record names anything; and a traced branch of a process that AttachProcess *)
(* does not reach, or whose page went away meanwhile (vmm.c:407).  Nothing    *)
(* else does: no other traced branch makes the handler fault, whatever was    *)
(* attached before it, no other value of CR4 keeps the guest from being       *)
(* entered, and _VmxOff can load it where one without VMXE faults            *)
(* (vmx-x86.asm:635).                                                        *)
FatalCauses ==
  [][mode' = "dead" /\ mode # "dead" =>
       \/ reason \in {"msr_read", "msr_write", "debug"}
       \/ reason = "mov_to_cr4" /\ operand \cap Cr4Reserved # {}
       \/ reason = "branch" /\ (cr3 \in High \/ from \in changed)]_vars

(* The guest gets on: an instruction that left the guest is either skipped   *)
(* (the handler did its work) or answered with an exception, never both and  *)
(* never neither, but for the debug traps, which are neither, and the        *)
(* breakpoint, which the guest executes again.                               *)
GuestGetsOn ==
  [][mode = "attached" /\ mode' = "guest" =>
       IF reason \in {"branch", "debug", "breakpoint"}
         THEN ~advanced' /\ injected' = "none"
         ELSE advanced' <=> injected' = "none"]_vars
=============================================================================
