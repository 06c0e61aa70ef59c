------------------------------ MODULE VmcsSetup ------------------------------
(***************************************************************************)
(* What SetupVMCS (vmx.c) writes about segments and controls, and whether  *)
(* the processor accepts it.  A word is the set of its bits that are one;   *)
(* a selector is the record of its three parts.  The registers do not      *)
(* change meanwhile: _StartVirtualization has cleared the interrupt flag.  *)
(***************************************************************************)
EXTENDS Integers

CONSTANTS
  GDT,           \* GDT[i]: the eight bytes of descriptor i, as bits 0 to 63
  Loaded,        \* contents of the segment registers the module may be loaded with
  Capabilities   \* what the four VMX capability MSRs may say

Regs == {"CS", "SS", "DS", "ES", "FS", "GS", "LDTR", "TR"}
HostRegs == Regs \ {"LDTR"}
Selectors == [index : DOMAIN GDT, ti : BOOLEAN, rpl : 0..3]
Null == [index |-> 0, ti |-> FALSE, rpl |-> 0]

Controls == {"pin", "cpu", "exit", "entry"}
Word == 0..31

ASSUME SetupAssumption ==
  /\ DOMAIN GDT \subseteq Nat /\ 0 \in DOMAIN GDT
  /\ \A i \in DOMAIN GDT : GDT[i] \subseteq 0..63
  /\ GDT[0] = {}
  /\ Loaded \subseteq [Regs -> Selectors]
  \* A bit that must be one may be one.
  /\ \A c \in Capabilities :
       \A k \in Controls : c[k].low \subseteq c[k].high /\ c[k].high \subseteq Word

VARIABLES
  reg,      \* the segment registers
  msr,      \* the capability MSRs: low word must be one, high word may be one
  selector, hostSelector, limit, ar, base,   \* fields of the VMCS, per register
  control,  \* the four control fields
  pc        \* the next part of SetupVMCS, or what VMLAUNCH did

fields == <<selector, hostSelector, limit, ar, base, control>>
vars == <<reg, msr, fields, pc>>

(* _VmClear leaves the fields undefined; nothing reads them before the write. *)
Init ==
  /\ reg \in Loaded
  /\ msr \in Capabilities
  /\ selector = [r \in Regs |-> Null] /\ hostSelector = [r \in HostRegs |-> Null]
  /\ limit = [r \in Regs |-> {}] /\ ar = [r \in Regs |-> {}] /\ base = [r \in Regs |-> {}]
  /\ control = [k \in Controls |-> {}]
  /\ pc = "selectors"
-----------------------------------------------------------------------------
Field(w, lo, hi) == {b \in 0..(hi - lo) : b + lo \in w}
Shl(w, n) == {b \in Word : b - n \in w}

(* What the processor itself checked when a register was loaded, on bits 40 to *)
(* 47 of the descriptor: the type in bits 0 to 3 (where it has set `accessed'  *)
(* or `busy'), S in 4, DPL in 5 and 6, P in 7.  The module is loaded at        *)
(* privilege 0, where a null selector cannot be in CS, SS or TR.               *)
ASSUME LoadedAssumption ==
  \A l \in Loaded, r \in Regs : ~l[r].ti =>
    LET access == Field(GDT[l[r].index], 40, 47)
    IN  /\ r \in {"CS", "SS", "TR"} => l[r].index # 0
        /\ r \in {"CS", "SS"} => access \cap {5, 6} = {}
        /\ l[r].index # 0 =>
             /\ 7 \in access
             /\ 4 \in access <=> r \notin {"TR", "LDTR"}
             /\ r = "CS" => {0, 3} \subseteq access
             /\ r = "SS" => access \cap {0, 1, 3} = {0, 1}
             /\ r = "TR" => access \cap 0..3 = {0, 1, 3}
             /\ r = "LDTR" => access \cap 0..3 = {1}
             /\ r \in {"DS", "ES", "FS", "GS"} =>
                  0 \in access /\ (3 \in access => 1 \in access)

(* The fields of SEGMENT_DESCRIPTOR2 (vmx.h). *)
limit0(d) == Field(d, 0, 15)
attr0(d) == Field(d, 40, 47)
limit1attr1(d) == Field(d, 48, 55)

G_BIT == 11    \* attributes.fields.g of a SEGMENT_SELECTOR

(* Mutation: the 0xfff of a scaled limit is not added. *)
ScaledShort(raw) == Shl(raw, 12)

(* The sum has no carry, so it is a union. *)
Scaled(raw) == Shl(raw, 12) \cup 0..11

(* What GetSegmentDescriptorLimit and ...AR find in the SEGMENT_SELECTOR they  *)
(* cleared.  For a selector of the LDT InitializeSegmentSelector returns early *)
(* and they ignore that; the base it computes is not read by anyone.          *)
InitializeSegmentSelector(s) ==
  IF s.ti
    THEN [limit |-> {}, attributes |-> {}]
    ELSE LET d == GDT[s.index]
             raw == limit0(d) \cup Shl(limit1attr1(d) \cap 0..3, 16)
             attributes == attr0(d) \cup Shl(limit1attr1(d) \cap 4..7, 4)
         IN  [limit |-> IF G_BIT \in attributes THEN Scaled(raw) ELSE raw,
              attributes |-> attributes]

GetSegmentDescriptorLimit(s) == InitializeSegmentSelector(s).limit

Unusable(s) == IF s = Null THEN {16} ELSE {}

GetSegmentDescriptorAR(s) ==
  LET attributes == InitializeSegmentSelector(s).attributes
  IN  Field(attributes, 0, 7) \cup Shl(Field(attributes, 8, 15), 12) \cup Unusable(s)

(* Mutation: the middle byte of the base is put in the place of the highest. *)
GetSegmentDescriptorBaseShort(s) ==
  LET d == GDT[s.index]
  IN  Shl(Field(d, 56, 63), 16) \cup Shl(Field(d, 32, 39), 16) \cup Field(d, 16, 31)

(* GetSegmentDescriptorBase decodes the descriptor anew, by the bit fields of  *)
(* SEGMENT_DESCRIPTOR, and looks in the GDT whatever table the selector names. *)
GetSegmentDescriptorBase(s) ==
  LET d == GDT[s.index]
      BaseHi == Field(d, 56, 63)  BaseMid == Field(d, 32, 39)  BaseLo == Field(d, 16, 31)
  IN  Shl(Shl(BaseHi, 8) \cup BaseMid, 16) \cup BaseLo

VmxAdjustControls(ctl, k) == (ctl \cap msr[k].high) \cup msr[k].low

(* CPU_BASED_ACTIVATE_IO_BITMAP and ..._MSR_BITMAP, VM_EXIT_ACK_INTR_ON_EXIT. *)
Wanted == [k \in Controls |-> CASE k = "cpu" -> {25, 28} [] k = "exit" -> {15} [] OTHER -> {}]
-----------------------------------------------------------------------------
(* The parts of SetupVMCS, in its order. *)
Part(here, next) == pc = here /\ pc' = next /\ UNCHANGED <<reg, msr>>

MaskedRpl(s) == [s EXCEPT !.rpl = 0]    \* Mutation: & 0xfffc, as a comment asks (vmx.c:398)
Masked(s) == [s EXCEPT !.ti = FALSE, !.rpl = 0]    \* & 0xfff8

SetSelectors ==
  /\ Part("selectors", "controls")
  /\ selector' = [r \in Regs |-> Masked(reg[r])]
  /\ hostSelector' = [r \in HostRegs |-> Masked(reg[r])]
  /\ UNCHANGED <<limit, ar, base, control>>

SetControls ==
  /\ Part("controls", "limits")
  /\ control' = [k \in Controls |-> VmxAdjustControls(Wanted[k], k)]
  /\ UNCHANGED <<selector, hostSelector, limit, ar, base>>

SetLimits ==
  /\ Part("limits", "rights")
  /\ limit' = [r \in Regs |-> GetSegmentDescriptorLimit(reg[r])]
  /\ UNCHANGED <<selector, hostSelector, ar, base, control>>

SetAccessRights ==
  /\ Part("rights", "bases")
  /\ ar' = [r \in Regs |-> GetSegmentDescriptorAR(reg[r])]
  /\ UNCHANGED <<selector, hostSelector, limit, base, control>>

(* The host's FS, GS and TR get the same values. *)
SetBases ==
  /\ Part("bases", "launch")
  /\ base' = [r \in Regs |-> GetSegmentDescriptorBase(reg[r])]
  /\ UNCHANGED <<selector, hostSelector, limit, ar, control>>

(* VM entry, by the processor's checks on what is modelled here.  AR holds the *)
(* type in bits 0 to 3, S in 4, DPL in 5 and 6, P in 7, G in 15; bit 16 says   *)
(* that the register is unusable, which exempts it.                           *)
Usable(r) == 16 \notin ar[r]
Type(r) == Field(ar[r], 0, 3)
Dpl(r) == Field(ar[r], 5, 6)
Accessed == {0}  Readable == {1}  Expand == {2}  Code == {3}

TypeAccepted(r) ==
  CASE r = "CS" -> 4 \in ar[r] /\ Accessed \cup Code \subseteq Type(r)
    [] r = "SS" -> 4 \in ar[r] /\ Type(r) \ Expand = Accessed \cup Readable
    [] r = "TR" -> 4 \notin ar[r] /\ Type(r) = {0, 1, 3}
    [] r = "LDTR" -> 4 \notin ar[r] /\ Type(r) = {1}
    [] OTHER -> /\ 4 \in ar[r] /\ Accessed \subseteq Type(r)
                /\ Code \subseteq Type(r) => Readable \subseteq Type(r)

LimitAccepted(r) ==
  /\ 15 \in ar[r] => 0..11 \subseteq limit[r]
  /\ 15 \notin ar[r] => limit[r] \cap 20..31 = {}

GuestSegmentsAccepted ==
  /\ Usable("TR") /\ Usable("CS")
  /\ \A r \in Regs : Usable(r) =>
       /\ 7 \in ar[r] /\ TypeAccepted(r) /\ LimitAccepted(r)
       /\ ar[r] \cap (8..11 \cup 17..31) = {}
  /\ Dpl("SS") = {} /\ (2 \notin Type("CS") => Dpl("CS") = Dpl("SS"))
  /\ \A r \in Regs : ~selector[r].ti

HostSelectorsAccepted ==
  /\ \A r \in HostRegs : ~hostSelector[r].ti /\ hostSelector[r].rpl = 0
  /\ \A r \in {"CS", "SS", "TR"} : hostSelector[r].index # 0

ControlsAccepted ==
  \A k \in Controls : msr[k].low \subseteq control[k] /\ control[k] \subseteq msr[k].high

Launch ==
  /\ pc = "launch"
  /\ pc' = IF GuestSegmentsAccepted /\ HostSelectorsAccepted /\ ControlsAccepted
             THEN "guest" ELSE "failed"
  /\ UNCHANGED <<reg, msr, fields>>

Next == SetSelectors \/ SetControls \/ SetLimits \/ SetAccessRights \/ SetBases \/ Launch

Spec == Init /\ [][Next]_vars
-----------------------------------------------------------------------------
(* Every field is a word, or a selector that names the GDT at privilege zero. *)
TypeOK ==
  /\ reg \in Loaded /\ msr \in Capabilities
  /\ \A r \in Regs : selector[r] \in Selectors /\ ~selector[r].ti /\ selector[r].rpl = 0
  /\ \A r \in HostRegs : hostSelector[r] = selector[r]
  /\ {limit, ar, base} \subseteq [Regs -> SUBSET Word]
  /\ control \in [Controls -> SUBSET Word]
  /\ pc \in {"selectors", "controls", "limits", "rights", "bases", "launch", "guest", "failed"}

(* What the decoders cannot render: a selector of the LDT, for which they give *)
(* rights of zero, and a null selector with a privilege level, which           *)
(* `!selector` does not take for null (vmx.c:228, 301).                        *)
Rendered(s) == ~s.ti /\ (s.index = 0 => s.rpl = 0)

(* VMLAUNCH succeeds on every machine state the decoders can render, and on no *)
(* other: neither a limit that contradicts its granularity, nor a control the  *)
(* processor lacks, nor a missing unusable mark ever makes it fail.            *)
OnlyRenderedLaunch == pc = "guest" => \A r \in Regs : Rendered(reg[r])
LaunchesWhenRendered ==
  OnlyRenderedLaunch /\ (pc = "failed" => \E r \in Regs : ~Rendered(reg[r]))

(* What a segment register holds once its selector has been loaded: the parts  *)
(* of the descriptor, found by their bit numbers in the eight bytes.           *)
HiddenBase(d) == {b \in Word : IF b <= 23 THEN b + 16 \in d ELSE b + 32 \in d}
HiddenLimit(d) ==
  LET raw == {b \in 0..19 : IF b <= 15 THEN b \in d ELSE b + 32 \in d}
  IN  IF 55 \in d THEN {b \in Word : b <= 11 \/ b - 12 \in raw} ELSE raw
HiddenRights(d) == {b \in 0..7 \cup 12..15 : b + 40 \in d}

(* The guest goes on with the segments the kernel had: base, limit and rights  *)
(* in the VMCS are those the registers hold, for every selector of the GDT,    *)
(* although two decoders with two layouts of the descriptor took them apart.   *)
GuestKeepsSegments ==
  pc \in {"launch", "guest"} =>
    \A r \in Regs : ~reg[r].ti =>
      LET d == GDT[reg[r].index]
      IN  /\ base[r] = HiddenBase(d)
          /\ limit[r] = HiddenLimit(d)
          /\ ar[r] \ {16} = HiddenRights(d)
=============================================================================
