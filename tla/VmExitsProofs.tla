--------------------------- MODULE VmExitsProofs ---------------------------
(***************************************************************************)
(* Theorems about VmExits, for every set of processes, every division of   *)
(* the page directory, every bound and every position of the trace switch. *)
(***************************************************************************)
EXTENDS VmExits, TLAPS

(* Filling a handler's directory from one of the guest's gives a directory. *)
LEMMA AttachedIsDirectory ==
  ASSUME TypeOK
  PROVE  Attached(cr3) \in Directories /\ IsDirectory(Attached(cr3))
<1>1. dir[cr3] \in Directories /\ IsDirectory(dir[cr3])
  BY DEF TypeOK
<1>2. host \in Directories /\ IsDirectory(host)
  BY DEF TypeOK
<1> QED
  BY <1>1, <1>2, ExitsAssumption DEF Attached, Directories, IsDirectory, Slots, Absent

(* The end of an exit keeps the types. *)
LEMMA ResumeTypes ==
  ASSUME TypeOK, NEW adv \in BOOLEAN, NEW inj \in {"none", "UD"}, Resume(adv, inj)
  PROVE  /\ host' = host /\ exits' = exits
         /\ reason' = "none" /\ operand' = {} /\ from' = NoSlot /\ changed' = {}
         /\ VmmCount' \in 0..(CountMod - 1)
         /\ mode' \in {"guest", "dead"} /\ advanced' \in BOOLEAN /\ injected' \in {"none", "UD"}
<1>1. VmmCount + 1 \in Nat /\ CountMod \in Nat \ {0}
  BY ExitsAssumption DEF TypeOK
<1>2. (VmmCount + 1) % CountMod \in 0..(CountMod - 1)
  BY <1>1
<1> QED
  BY <1>2 DEF Resume

(* A change of one slot of one directory, by the guest, leaves directories. *)
LEMMA MapTypes ==
  ASSUME TypeOK, NEW p \in Processes, NEW s \in Slots, NEW f \in Int,
         s \in UserSlots => f \in {Absent} \cup Frames,
         s \in KernelSlots => f \in {Absent, KernelTable[s]}
  PROVE  LET d == [dir EXCEPT ![p][s] = f]
         IN  d \in [Processes -> Directories] /\ \A q \in Processes : IsDirectory(d[q])
<1> DEFINE d == [dir EXCEPT ![p][s] = f]
<1>1. dir \in [Processes -> Directories] /\ \A q \in Processes : IsDirectory(dir[q])
  BY DEF TypeOK
<1>2. d \in [Processes -> Directories]
  BY <1>1 DEF Directories
<1>3. ASSUME NEW q \in Processes PROVE IsDirectory(d[q])
  BY <1>1 DEF IsDirectory, Directories, Slots
<1> QED
  BY <1>2, <1>3
-----------------------------------------------------------------------------
LEMMA TypeInit == Init => TypeOK
<1> SUFFICES ASSUME Init PROVE TypeOK
  OBVIOUS
<1>1. Entries \subseteq Int
  <2>1. \A k \in KernelSlots : KernelTable[k] \in Int
    BY ExitsAssumption
  <2>2. Absent \in Int /\ Frames \subseteq Int
    BY ExitsAssumption DEF Absent
  <2> QED
    BY <2>1, <2>2, Zenon DEF Entries
<1>2. /\ dir \in [Processes -> Directories]
      /\ \A p \in Processes : IsDirectory(dir[p])
  BY <1>1 DEF Init, Directories
<1>3. cr3 \in Processes /\ host \in Directories /\ IsDirectory(host)
  BY <1>2 DEF Init
<1>4. cr4 \in SUBSET Cr4Bits /\ operand \in SUBSET Cr4Bits
  BY DEF Init, Cr4Bits
<1>5. 0 \in 0..(CountMod - 1) /\ 0 \in 0..MaxExits
  BY ExitsAssumption
<1> QED
  BY <1>2, <1>3, <1>4, <1>5 DEF Init, TypeOK

LEMMA TypeNext == ASSUME TypeOK, [Next]_vars PROVE TypeOK'
<1> USE DEF guest, vmm, event, exit
<1>1. ASSUME NEW p \in Processes, NEW u \in UserSlots, MapUser(p, u) PROVE TypeOK'
  <2>1. PICK f \in {Absent} \cup Frames : dir' = [dir EXCEPT ![p][u] = f]
    BY <1>1 DEF MapUser
  <2>2. f \in Int /\ u \in Slots /\ u \notin KernelSlots
    BY ExitsAssumption DEF Absent, Slots
  <2>3. /\ dir' \in [Processes -> Directories]
        /\ \A q \in Processes : IsDirectory(dir'[q])
    BY <2>1, <2>2, MapTypes
  <2> QED
    BY <1>1, <2>2, <2>3 DEF MapUser, OnThisOrAnother, TypeOK
<1>2. ASSUME NEW p \in Processes, NEW k \in KernelSlots, MapKernel(p, k) PROVE TypeOK'
  <2>1. KernelTable[k] \in Int /\ k \in Slots /\ k \notin UserSlots
    BY ExitsAssumption DEF Slots
  <2>2. /\ dir' \in [Processes -> Directories]
        /\ \A q \in Processes : IsDirectory(dir'[q])
    BY <1>2, <2>1, MapTypes DEF MapKernel
  <2> QED
    BY <1>2, <2>1, <2>2 DEF MapKernel, OnThisOrAnother, TypeOK
<1>3. ASSUME NEW r \in Intercepted, Exit(r) PROVE TypeOK'
  <2>1. exits' \in 0..MaxExits
    BY <1>3, ExitsAssumption DEF Exit, TypeOK
  <2>2. /\ reason' \in {"none"} \cup Intercepted /\ operand' \in SUBSET Cr4Bits
        /\ from' \in Slots \cup {NoSlot} /\ changed' \subseteq Slots
    BY <1>3 DEF Exit, BranchSlots
  <2> QED
    BY <1>3, <2>1, <2>2 DEF Exit, TypeOK
<1>4. CASE Attach
  <2>1. host' \in Directories /\ IsDirectory(host')
    BY <1>4, AttachedIsDirectory DEF Attach, TypeOK
  <2> QED
    BY <1>4, <2>1 DEF Attach, TypeOK
<1>5. ASSUME NEW adv \in BOOLEAN, NEW inj \in {"none", "UD"}, Resume(adv, inj),
             dir' = dir, cr3' \in Processes, cr4' \in SUBSET Cr4Bits, tracing' = tracing
      PROVE  TypeOK'
  BY <1>5, ResumeTypes DEF TypeOK
<1>6. CASE Handle
  <2>1. CASE HandlePlain
    BY <2>1, <1>5 DEF HandlePlain, TypeOK
  <2>2. CASE HandleCrAccess
    BY <2>2, <1>5 DEF HandleCrAccess, TypeOK
  <2>3. CASE HandleMsr
    <3>1. CASE Resume(TRUE, "none") /\ UNCHANGED guest
      BY <3>1, <1>5 DEF TypeOK
    <3>2. CASE Dies
      BY <3>2 DEF Dies, TypeOK
    <3> QED
      BY <2>3, <3>1, <3>2 DEF HandleMsr
  <2>4. CASE HandleVmCallStop
    BY <2>4 DEF HandleVmCallStop, Dies, TypeOK
  <2>8. CASE HandleDebugException
    <3>1. CASE Resume(FALSE, "none") /\ UNCHANGED guest
      BY <3>1, <1>5 DEF TypeOK
    <3>2. CASE Dies
      BY <3>2 DEF Dies, TypeOK
    <3> QED
      BY <2>8, <3>1, <3>2 DEF HandleDebugException
  <2>5. CASE HandleVmCallMagic
    BY <2>5, <1>5 DEF HandleVmCallMagic, TypeOK
  <2>6. CASE HandleVmInstruction
    BY <2>6, <1>5 DEF HandleVmInstruction, TypeOK
  <2>7. CASE HandleNothing
    BY <2>7, <1>5 DEF HandleNothing, TypeOK
  <2> QED
    BY <1>6, <2>1, <2>2, <2>3, <2>4, <2>5, <2>6, <2>7, <2>8 DEF Handle
<1>7. ASSUME NEW v \in SUBSET Cr4Bits, SetCr4(v) PROVE TypeOK'
  BY <1>7 DEF SetCr4, TypeOK
<1>8. CASE UNCHANGED vars
  BY <1>8 DEF vars, TypeOK
<1> QED
  BY <1>1, <1>2, <1>3, <1>4, <1>6, <1>7, <1>8 DEF Next

(* Every variable keeps its type; the handler's directory is always one that *)
(* the guest's processes could have.                                         *)
THEOREM VmExitsTypeCorrect == Spec => []TypeOK
<1>1. Init => TypeOK
  BY TypeInit
<1>2. TypeOK /\ [Next]_vars => TypeOK'
  BY TypeNext
<1> QED
  BY <1>1, <1>2, PTL DEF Spec
-----------------------------------------------------------------------------
(* AttachProcess establishes ReadsItsOwnSpace: it copies every user slot, and *)
(* what a set kernel slot holds is what every process that has the slot holds. *)
LEMMA AttachReadsItsOwnSpace ==
  ASSUME TypeOK, Attach PROVE ReadsItsOwnSpace'
<1> SUFFICES ASSUME cr3 \notin High PROVE ReadsItsOwnSpace'
  BY DEF Attach, ReadsItsOwnSpace
<1>1. host' = Attached(cr3) /\ dir' = dir /\ cr3' = cr3
  BY DEF Attach
<1>2. \A u \in UserSlots : host'[u] = dir[cr3][u]
  BY <1>1 DEF Attached, Slots
<1>3. ASSUME NEW k \in KernelSlots PROVE dir[cr3][k] \in {Absent, host'[k]}
  <2>1. k \in Slots /\ k \notin UserSlots
    BY ExitsAssumption DEF Slots
  <2>2. host[k] \in {Absent, KernelTable[k]} /\ dir[cr3][k] \in {Absent, KernelTable[k]}
    BY DEF TypeOK, IsDirectory
  <2>3. host'[k] = IF host[k] = Absent THEN dir[cr3][k] ELSE host[k]
    BY <1>1, <2>1 DEF Attached
  <2> QED
    BY <2>2, <2>3
<1> QED
  BY <1>1, <1>2, <1>3 DEF ReadsItsOwnSpace

(* While it handles an exit the handler reads the guest's memory as the      *)
(* process that runs would.  The property is inductive on top of the types:  *)
(* only Attach makes its premise true, and a slot that another processor     *)
(* changes afterwards is excepted.                                           *)
THEOREM HandlerReadsItsProcess == Spec => []ReadsItsOwnSpace
<1>1. Init => ReadsItsOwnSpace
  BY DEF Init, ReadsItsOwnSpace
<1>2. ReadsItsOwnSpace /\ TypeOK /\ [Next]_vars => ReadsItsOwnSpace'
  <2> SUFFICES ASSUME ReadsItsOwnSpace, TypeOK, [Next]_vars PROVE ReadsItsOwnSpace'
    OBVIOUS
  <2>1. CASE Attach
    BY <2>1, AttachReadsItsOwnSpace
  <2>2. ASSUME mode' # "attached" PROVE ReadsItsOwnSpace'
    BY <2>2 DEF ReadsItsOwnSpace
  <2>3. ASSUME NEW p \in Processes, NEW s \in Slots, MapUser(p, s) \/ MapKernel(p, s)
        PROVE  ReadsItsOwnSpace'
    <3>1. /\ mode' = mode /\ cr3' = cr3 /\ host' = host
          /\ \A q \in Processes, t \in Slots : q # p \/ t # s => dir'[q][t] = dir[q][t]
          /\ mode = "attached" => changed' = IF p = cr3 THEN changed \cup {s} ELSE changed
      BY <2>3 DEF MapUser, MapKernel, OnThisOrAnother, vmm, TypeOK, Directories
    <3>2. cr3 \in Processes /\ UserSlots \subseteq Slots /\ KernelSlots \subseteq Slots
      BY DEF TypeOK, Slots
    <3> QED
      BY <3>1, <3>2 DEF ReadsItsOwnSpace
  <2>4. ASSUME NEW r \in Intercepted, Exit(r) PROVE mode' # "attached"
    BY <2>4 DEF Exit
  <2>5. CASE Handle
    BY <2>2, <2>5 DEF Handle, HandlePlain, HandleCrAccess, HandleMsr, HandleVmCallStop,
       HandleVmCallMagic, HandleVmInstruction, HandleDebugException, HandleNothing, Dies, Resume
  <2>6. CASE UNCHANGED vars
    BY <2>6 DEF vars, guest, vmm, exit, ReadsItsOwnSpace
  <2>7. ASSUME NEW v \in SUBSET Cr4Bits, SetCr4(v) PROVE mode' # "attached"
    BY <2>7 DEF SetCr4, exit
  <2> QED
    BY <2>1, <2>2, <2>3, <2>4, <2>5, <2>6, <2>7 DEF Next, Slots
<1> QED
  BY <1>1, <1>2, VmExitsTypeCorrect, PTL DEF Spec

(* One step: AttachProcess writes a kernel slot only while it is zero. *)
LEMMA KernelHalfStep ==
  ASSUME TypeOK, [Next]_vars, NEW k \in KernelSlots, host[k] # Absent
  PROVE  host'[k] = host[k]
<1>1. CASE Attach
  <2>1. k \in Slots /\ k \notin UserSlots
    BY ExitsAssumption DEF Slots
  <2> QED
    BY <1>1, <2>1 DEF Attach, Attached
<1>2. CASE Handle
  BY <1>2 DEF Handle, HandlePlain, HandleCrAccess, HandleMsr, HandleVmCallStop,
     HandleVmCallMagic, HandleVmInstruction, HandleDebugException, HandleNothing, Dies, Resume,
     vmm
<1>3. CASE UNCHANGED vars
  BY <1>3 DEF vars, vmm
<1>4. ASSUME NEW p \in Processes,
             (\E u \in UserSlots : MapUser(p, u)) \/ (\E s \in KernelSlots : MapKernel(p, s))
      PROVE  host' = host
  BY <1>4 DEF MapUser, MapKernel, OnThisOrAnother, vmm
<1>5. ASSUME NEW r \in Intercepted, Exit(r) PROVE host' = host
  BY <1>5 DEF Exit, vmm
<1>6. ASSUME NEW v \in SUBSET Cr4Bits, SetCr4(v) PROVE host' = host
  BY <1>6 DEF SetCr4, vmm
<1> QED
  BY <1>1, <1>2, <1>3, <1>4, <1>5, <1>6 DEF Next

(* No set kernel slot of the handler's own directory is lost or replaced,    *)
(* however many exits AttachProcess is called for.                           *)
THEOREM HandlerKeepsItsKernelHalf == Spec => KernelHalfKept
<1>1. TypeOK /\ [Next]_vars =>
        [\A k \in KernelSlots : host[k] # Absent => host'[k] = host[k]]_vars
  BY KernelHalfStep
<1> QED
  BY <1>1, VmExitsTypeCorrect, PTL DEF Spec, KernelHalfKept
-----------------------------------------------------------------------------
(* One step of a handler.  The types exclude the I/O case, for which the      *)
(* instruction is neither skipped nor faulted.                               *)
LEMMA GetsOnStep ==
  ASSUME TypeOK, Handle, mode' = "guest"
  PROVE  IF reason \in {"branch", "debug", "breakpoint"}
           THEN ~advanced' /\ injected' = "none"
           ELSE advanced' <=> injected' = "none"
<1>1. reason # "io"
  BY DEF TypeOK, Intercepted, Always, VmxInstructions
<1>2. CASE HandlePlain
  BY <1>2 DEF HandlePlain, Handling, Resume
<1>3. CASE HandleCrAccess \/ HandleVmCallMagic
  BY <1>3 DEF HandleCrAccess, HandleVmCallMagic, Handling, Resume
<1>4. CASE HandleMsr
  BY <1>4 DEF HandleMsr, Handling, Resume, Dies
<1>5. CASE HandleVmCallStop
  BY <1>5 DEF HandleVmCallStop, Dies
<1>6. CASE HandleVmInstruction
  BY <1>6 DEF HandleVmInstruction, Handling, Resume, InvalidOpcode, VmxInstructions
<1>7. CASE HandleNothing
  BY <1>1, <1>7 DEF HandleNothing, Handling, Resume
<1>8. CASE HandleDebugException
  BY <1>8 DEF HandleDebugException, Handling, Resume, Dies
<1> QED
  BY <1>2, <1>3, <1>4, <1>5, <1>6, <1>7, <1>8 DEF Handle

(* The handler's cases fit what the VMCS intercepts: every intercepted        *)
(* instruction is skipped or faulted, never both.                            *)
THEOREM EveryExitGetsOn == Spec => GuestGetsOn
<1> DEFINE GetsOn == mode = "attached" /\ mode' = "guest" =>
                       IF reason \in {"branch", "debug", "breakpoint"}
                         THEN ~advanced' /\ injected' = "none"
                         ELSE advanced' <=> injected' = "none"
<1>1. TypeOK /\ [Next]_vars => [GetsOn]_vars
  <2> SUFFICES ASSUME TypeOK, Next, mode = "attached", mode' = "guest" PROVE GetsOn
    OBVIOUS
  <2>1. CASE Handle
    BY <2>1, GetsOnStep
  <2>2. ASSUME NEW p \in Processes PROVE
          /\ \A u \in UserSlots : ~MapUser(p, u)
          /\ \A k \in KernelSlots : ~MapKernel(p, k)
    BY DEF MapUser, MapKernel, OnThisOrAnother
  <2>3. ASSUME NEW r \in Intercepted PROVE ~Exit(r)
    BY DEF Exit
  <2>4. ~Attach /\ \A v \in SUBSET Cr4Bits : ~SetCr4(v)
    BY DEF Attach, SetCr4
  <2> QED
    BY <2>1, <2>2, <2>3, <2>4 DEF Next
<1> QED
  BY <1>1, VmExitsTypeCorrect, PTL DEF Spec, GuestGetsOn
-----------------------------------------------------------------------------
(* One step keeps GUEST_CR4 acceptable: outside the handler the guest cannot  *)
(* reach VMXE and is refused a reserved bit; HandleCrAccess stores an operand *)
(* that left the guest because it has VMXE, and with a reserved bit the guest *)
(* is not entered.                                                           *)
LEMMA Cr4Step ==
  ASSUME Cr4Kept, [Next]_vars PROVE Cr4Kept'
<1> USE DEF guest, vmm, event, exit
<1>1. ASSUME NEW p \in Processes,
             (\E u \in UserSlots : MapUser(p, u)) \/ (\E k \in KernelSlots : MapKernel(p, k))
      PROVE  Cr4Kept'
  BY <1>1 DEF MapUser, MapKernel, OnThisOrAnother, Cr4Kept, Enterable
<1>2. ASSUME NEW v \in SUBSET Cr4Bits, SetCr4(v) PROVE Cr4Kept'
  <2>1. Enterable(cr4) /\ mode = "guest" /\ mode' = mode /\ reason' = reason
    BY <1>2 DEF SetCr4, Cr4Kept
  <2>2. Enterable(cr4')
    BY <1>2, <2>1 DEF SetCr4, Cr4Owned, Enterable
  <2> QED
    BY <2>1, <2>2 DEF Cr4Kept, Enterable
<1>3. ASSUME NEW r \in Intercepted, Exit(r) PROVE Cr4Kept'
  BY <1>3 DEF Exit, Cr4Owned, Cr4Kept, Enterable
<1>4. CASE Attach
  BY <1>4 DEF Attach, Cr4Kept, Enterable
<1>5. CASE Handle
  <2>1. mode' \in {"guest", "exit", "attached"} => mode' = "guest" /\ Enterable(cr4')
    BY <1>5 DEF Handle, HandlePlain, HandleCrAccess, HandleMsr, HandleVmCallStop,
       HandleVmCallMagic, HandleVmInstruction, HandleDebugException, HandleNothing, Dies, Resume
  <2> QED
    BY <2>1 DEF Cr4Kept, Enterable
<1>6. CASE UNCHANGED vars
  BY <1>6 DEF vars, Cr4Kept, Enterable
<1> QED
  BY <1>1, <1>2, <1>3, <1>4, <1>5, <1>6 DEF Next

(* One step keeps the page of a traced branch: only another processor can take *)
(* it before the exit is handled, and that is recorded.                       *)
LEMMA BranchStep ==
  ASSUME TypeOK, BranchKept, [Next]_vars PROVE BranchKept'
<1> USE DEF guest, vmm, event, exit
<1>1. ASSUME NEW p \in Processes, NEW s \in Slots, MapUser(p, s) \/ MapKernel(p, s)
      PROVE  BranchKept'
  <2>1. /\ mode' = mode /\ cr3' = cr3 /\ reason' = reason /\ from' = from
        /\ \A q \in Processes, t \in Slots : q # p \/ t # s => dir'[q][t] = dir[q][t]
        /\ mode # "guest" => changed' = IF p = cr3 THEN changed \cup {s} ELSE changed
    BY <1>1 DEF MapUser, MapKernel, OnThisOrAnother, TypeOK, Directories
  <2>2. cr3 \in Processes
    BY DEF TypeOK
  <2> QED
    BY <2>1, <2>2 DEF BranchKept
<1>2. ASSUME NEW v \in SUBSET Cr4Bits, SetCr4(v) PROVE BranchKept'
  BY <1>2 DEF SetCr4, BranchKept
<1>3. ASSUME NEW r \in Intercepted, Exit(r) PROVE BranchKept'
  BY <1>3 DEF Exit, BranchSlots, BranchKept
<1>4. CASE Attach
  BY <1>4 DEF Attach, BranchKept
<1>5. CASE Handle
  BY <1>5 DEF Handle, HandlePlain, HandleCrAccess, HandleMsr, HandleVmCallStop,
     HandleVmCallMagic, HandleVmInstruction, HandleDebugException, HandleNothing, Dies, Resume,
     BranchKept
<1>6. CASE UNCHANGED vars
  BY <1>6 DEF vars, BranchKept
<1> QED
  BY <1>1, <1>2, <1>3, <1>4, <1>5, <1>6 DEF Next, Slots

LEMMA EventsKept == Spec => [](Cr4Kept /\ BranchKept)
<1>1. Init => Cr4Kept /\ BranchKept
  BY ExitsAssumption DEF Init, Cr4Kept, Enterable, BranchKept
<1>2. TypeOK /\ Cr4Kept /\ BranchKept /\ [Next]_vars => Cr4Kept' /\ BranchKept'
  BY Cr4Step, BranchStep
<1> QED
  BY <1>1, <1>2, VmExitsTypeCorrect, PTL DEF Spec

(* The page a traced branch was fetched from is there for the handler too, if  *)
(* AttachProcess reached the directory and nobody changed it: the slot of the  *)
(* handler's directory is the process's.                                     *)
LEMMA OpcodeReadable ==
  ASSUME TypeOK, ReadsItsOwnSpace, BranchKept,
         mode = "attached", reason = "branch", cr3 \notin High, from \notin changed
  PROVE  OpcodePresent
<1>1. from \in Slots /\ dir[cr3][from] # Absent
  BY DEF BranchKept
<1>2. CASE from \in UserSlots
  BY <1>2 DEF ReadsItsOwnSpace, OpcodePresent
<1>3. CASE from \in KernelSlots
  BY <1>1, <1>3 DEF ReadsItsOwnSpace, OpcodePresent
<1> QED
  BY <1>1, <1>2, <1>3 DEF Slots

(* What ends the machine, and that nothing else does: a traced branch is read  *)
(* without a fault wherever AttachProcess reaches, and GUEST_CR4 is one that   *)
(* VMRESUME and the MOV to CR4 of _VmxOff accept, but for the two operands the *)
(* handler does not look at.                                                  *)
THEOREM OnlyTheseAreFatal == Spec => FatalCauses
<1> DEFINE Known ==
      \/ reason \in {"msr_read", "msr_write", "debug"}
      \/ reason = "mov_to_cr4" /\ operand \cap Cr4Reserved # {}
      \/ reason = "branch" /\ (cr3 \in High \/ from \in changed)
    Fatal == mode' = "dead" /\ mode # "dead" => Known
<1>1. TypeOK /\ ReadsItsOwnSpace /\ Cr4Kept /\ BranchKept /\ [Next]_vars => [Fatal]_vars
  <2> SUFFICES ASSUME TypeOK, ReadsItsOwnSpace, Cr4Kept, BranchKept, Next,
                      mode' = "dead", mode # "dead"
               PROVE  Known
    OBVIOUS
  <2>1. CASE Handle
    <3>1. mode = "attached"
      BY <2>1 DEF Handle, HandlePlain, HandleCrAccess, HandleMsr, HandleVmCallStop,
         HandleVmCallMagic, HandleVmInstruction, HandleDebugException, HandleNothing, Handling
    <3>2. Enterable(cr4) /\ (reason = "mov_to_cr4" => "VMXE" \in operand)
      BY <3>1 DEF Cr4Kept
    <3>3. CASE HandleMsr
      BY <3>3 DEF HandleMsr, Handling
    <3>4. CASE HandleVmCallStop
      BY <3>2, <3>4 DEF HandleVmCallStop
    <3>5. CASE HandleCrAccess
      BY <3>2, <3>5 DEF HandleCrAccess, Handling, Resume, Enterable
    <3>6. CASE HandlePlain \/ HandleVmCallMagic \/ HandleVmInstruction \/ HandleNothing
      <4>1. cr4' = cr4 /\ mode' = IF Enterable(cr4') THEN "guest" ELSE "dead"
        BY <3>6 DEF HandlePlain, HandleVmCallMagic, HandleVmInstruction, HandleNothing, Resume,
           guest
      <4> QED
        BY <3>2, <4>1 DEF Enterable
    <3>7. CASE HandleDebugException
      <4>1. ~OpcodePresent
        <5>1. ASSUME Resume(FALSE, "none"), UNCHANGED guest PROVE FALSE
          BY <3>2, <5>1 DEF Resume, guest, Enterable
        <5> QED
          BY <3>7, <5>1 DEF HandleDebugException
      <4>2. reason \in {"branch", "debug"}
        BY <3>7 DEF HandleDebugException, Handling
      <4> QED
        BY <3>1, <4>1, <4>2, OpcodeReadable
    <3> QED
      BY <2>1, <3>3, <3>4, <3>5, <3>6, <3>7 DEF Handle
  <2>2. ASSUME NEW p \in Processes PROVE
          /\ \A u \in UserSlots : ~MapUser(p, u)
          /\ \A k \in KernelSlots : ~MapKernel(p, k)
    BY DEF MapUser, MapKernel, OnThisOrAnother
  <2>3. ASSUME NEW r \in Intercepted PROVE ~Exit(r)
    BY DEF Exit
  <2>4. ~Attach /\ \A v \in SUBSET Cr4Bits : ~SetCr4(v)
    BY DEF Attach, SetCr4, exit
  <2> QED
    BY <2>1, <2>2, <2>3, <2>4 DEF Next
<1> QED
  BY <1>1, VmExitsTypeCorrect, HandlerReadsItsProcess, EventsKept, PTL DEF Spec, FatalCauses
=============================================================================
