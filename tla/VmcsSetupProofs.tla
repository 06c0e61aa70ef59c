--------------------------- MODULE VmcsSetupProofs ---------------------------
(***************************************************************************)
(* Theorems about VmcsSetup, for every descriptor table, every content of   *)
(* the segment registers and every set of capabilities.                    *)
(***************************************************************************)
EXTENDS VmcsSetup, TLAPS

(* The two decoders agree with the layout of the descriptor. *)
LEMMA BaseIsHidden ==
  ASSUME NEW s \in Selectors
  PROVE  GetSegmentDescriptorBase(s) = HiddenBase(GDT[s.index])
<1> DEFINE d == GDT[s.index]
           hi == Field(d, 56, 63)
           mid == Field(d, 32, 39)
           lo == Field(d, 16, 31)
<1>1. d \in SUBSET (0..63)
  BY SetupAssumption DEF Selectors
<1>2. /\ \A b \in Int : b \in hi <=> 0 <= b /\ b <= 7 /\ b + 56 \in d
      /\ \A b \in Int : b \in mid <=> 0 <= b /\ b <= 7 /\ b + 32 \in d
      /\ \A b \in Int : b \in lo <=> 0 <= b /\ b <= 15 /\ b + 16 \in d
  BY <1>1 DEF Field
<1>7. mid \subseteq Int /\ lo \subseteq Word
  BY DEF Field, Word
<1> HIDE DEF hi, mid, lo
<1> DEFINE upper == Shl(hi, 8) \cup mid
<1>3. \A b \in Int : b \in upper <=> b \in mid \/ (0 <= b /\ b <= 31 /\ b - 8 \in hi)
  BY DEF Word, Shl
<1> HIDE DEF upper
<1>4. Shl(upper, 16) = {b \in Word : b - 16 \in upper}
  BY DEF Shl
<1>5. Shl(upper, 16) \cup lo = HiddenBase(d)
  <2>1. ASSUME NEW b \in Word
        PROVE  b \in Shl(upper, 16) \cup lo <=> b \in HiddenBase(d)
    <3>1. b \in Int /\ 0 <= b /\ b <= 31 /\ b - 16 \in Int /\ b - 24 \in Int
      BY DEF Word
    <3>2. b \in Shl(upper, 16) <=> b - 16 \in mid \/ (b - 16 >= 0 /\ b - 24 \in hi)
      BY <1>3, <1>4, <3>1
    <3>3. b - 16 \in mid <=> 16 <= b /\ b <= 23 /\ b + 16 \in d
      BY <1>2, <3>1
    <3>4. b - 24 \in hi <=> 24 <= b /\ b + 32 \in d
      BY <1>2, <3>1
    <3>5. b \in lo <=> b <= 15 /\ b + 16 \in d
      BY <1>2, <3>1
    <3> QED
      BY <3>1, <3>2, <3>3, <3>4, <3>5 DEF HiddenBase
  <2>2. Shl(upper, 16) \cup lo \subseteq Word
    BY <1>4, <1>7
  <2>3. HiddenBase(d) \subseteq Word
    BY DEF HiddenBase
  <2> QED
    BY <2>1, <2>2, <2>3
<1>6. GetSegmentDescriptorBase(s) = Shl(upper, 16) \cup lo
  BY DEF GetSegmentDescriptorBase, upper, hi, mid, lo
<1> QED
  BY <1>5, <1>6

(* The attributes InitializeSegmentSelector finds. *)
LEMMA Attributes ==
  ASSUME NEW s \in Selectors, ~s.ti
  PROVE  InitializeSegmentSelector(s).attributes =
           {b \in 0..11 : b + (IF b <= 7 THEN 40 ELSE 44) \in GDT[s.index]}
<1> DEFINE d == GDT[s.index]
           a == attr0(d) \cup Shl(limit1attr1(d) \cap 4..7, 4)
<1>1. d \in SUBSET (0..63)
  BY SetupAssumption DEF Selectors
<1>2. \A b \in Int : b \in attr0(d) <=> 0 <= b /\ b <= 7 /\ b + 40 \in d
  BY <1>1 DEF attr0, Field
<1>3. \A b \in Int : b \in limit1attr1(d) \cap 4..7 <=> 4 <= b /\ b <= 7 /\ b + 48 \in d
  BY <1>1 DEF limit1attr1, Field
<1>4. \A b \in Int : b \in Shl(limit1attr1(d) \cap 4..7, 4) <=> 8 <= b /\ b <= 11 /\ b + 44 \in d
  <2> DEFINE u == limit1attr1(d) \cap 4..7
  <2> HIDE DEF u
  <2>1. \A b \in Int : b \in Shl(u, 4) <=> 0 <= b /\ b <= 31 /\ b - 4 \in u
    BY DEF Shl, Word
  <2>2. \A b \in Int : b - 4 \in u <=> 4 <= b - 4 /\ b - 4 <= 7 /\ (b - 4) + 48 \in d
    BY <1>3 DEF u
  <2>3. \A b \in Int : (b - 4) + 48 = b + 44
    OBVIOUS
  <2> QED
    BY <2>1, <2>2, <2>3 DEF u
<1>5. a \subseteq Int
  BY DEF attr0, Field, Shl, Word
<1>6. a = {b \in 0..11 : b + (IF b <= 7 THEN 40 ELSE 44) \in d}
  <2> HIDE DEF d
  <2>1. \A b \in Int : b \in a <=> 0 <= b /\ b <= 11 /\ b + (IF b <= 7 THEN 40 ELSE 44) \in d
    BY <1>2, <1>4
  <2> QED
    BY <1>5, <2>1
<1>7. InitializeSegmentSelector(s).attributes = a
  BY DEF InitializeSegmentSelector
<1> QED
  BY <1>6, <1>7

(* The rights, bit by bit. *)
LEMMA RightsBits ==
  ASSUME NEW s \in Selectors, ~s.ti
  PROVE  /\ GetSegmentDescriptorAR(s) \subseteq Int
         /\ \A b \in Int : b \in GetSegmentDescriptorAR(s) <=>
              \/ ((0 <= b /\ b <= 7) \/ (12 <= b /\ b <= 15)) /\ b + 40 \in GDT[s.index]
              \/ b = 16 /\ s = Null
<1> DEFINE d == GDT[s.index]
           a == InitializeSegmentSelector(s).attributes
           low == Field(a, 0, 7)
           high == Field(a, 8, 15)
<1>1. a = {b \in 0..11 : b + (IF b <= 7 THEN 40 ELSE 44) \in d}
  BY Attributes
<1> HIDE DEF a, d
<1>2. \A b \in Int : b \in low <=> 0 <= b /\ b <= 7 /\ b + 40 \in d
  BY <1>1 DEF Field
<1>3. \A b \in Int : b \in high <=> 0 <= b /\ b <= 3 /\ b + 52 \in d
  <2>1. \A b \in Int : b \in high <=> 0 <= b /\ b <= 7 /\ b + 8 \in a
    BY DEF Field
  <2>2. \A b \in Int : 0 <= b => (b + 8 \in a <=> b <= 3 /\ (b + 8) + 44 \in d)
    BY <1>1
  <2>3. \A b \in Int : (b + 8) + 44 = b + 52
    OBVIOUS
  <2> QED
    BY <2>1, <2>2, <2>3
<1> HIDE DEF low, high
<1>4. \A b \in Int : b \in Shl(high, 12) <=> 12 <= b /\ b <= 15 /\ b + 40 \in d
  <2>1. \A b \in Int : b \in Shl(high, 12) <=> 0 <= b /\ b <= 31 /\ b - 12 \in high
    BY DEF Shl, Word
  <2>2. \A b \in Int : b - 12 \in high <=> 12 <= b /\ b <= 15 /\ (b - 12) + 52 \in d
    BY <1>3
  <2>3. \A b \in Int : (b - 12) + 52 = b + 40
    OBVIOUS
  <2> QED
    BY <2>1, <2>2, <2>3
<1>5. low \subseteq Int /\ Shl(high, 12) \subseteq Int
  BY DEF low, Field, Shl, Word
<1>6. GetSegmentDescriptorAR(s) = low \cup Shl(high, 12) \cup Unusable(s)
  BY DEF GetSegmentDescriptorAR, low, high, a
<1>7. \A b \in Int : b \in Unusable(s) <=> b = 16 /\ s = Null
  BY DEF Unusable
<1>8. Unusable(s) \subseteq Int
  BY DEF Unusable
<1>9. GetSegmentDescriptorAR(s) \subseteq Int
  BY <1>5, <1>6, <1>8
<1>10. \A b \in Int : b \in GetSegmentDescriptorAR(s) <=>
         b \in low \/ b \in Shl(high, 12) \/ b \in Unusable(s)
  BY <1>6
<1>11. \A b \in Int : b \in GetSegmentDescriptorAR(s) <=>
         \/ ((0 <= b /\ b <= 7) \/ (12 <= b /\ b <= 15)) /\ b + 40 \in d
         \/ b = 16 /\ s = Null
  BY <1>2, <1>4, <1>7, <1>10
<1> QED
  BY <1>9, <1>11 DEF d

LEMMA RightsAreHidden ==
  ASSUME NEW s \in Selectors, ~s.ti
  PROVE  GetSegmentDescriptorAR(s) \ {16} = HiddenRights(GDT[s.index])
<1>1. \A b \in Int : b \in HiddenRights(GDT[s.index]) <=>
        ((0 <= b /\ b <= 7) \/ (12 <= b /\ b <= 15)) /\ b + 40 \in GDT[s.index]
  BY DEF HiddenRights
<1>2. HiddenRights(GDT[s.index]) \subseteq Int
  BY DEF HiddenRights
<1> QED
  BY <1>1, <1>2, RightsBits

LEMMA LimitIsHidden ==
  ASSUME NEW s \in Selectors, ~s.ti
  PROVE  GetSegmentDescriptorLimit(s) = HiddenLimit(GDT[s.index])
<1> DEFINE d == GDT[s.index]
           u == limit1attr1(d) \cap 0..3
           raw == limit0(d) \cup Shl(u, 16)
           hidden == {b \in 0..19 : IF b <= 15 THEN b \in d ELSE b + 32 \in d}
           a == attr0(d) \cup Shl(limit1attr1(d) \cap 4..7, 4)
<1>1. d \in SUBSET (0..63)
  BY SetupAssumption DEF Selectors
<1>2. raw = hidden
  <2>1. \A b \in Int : b \in limit0(d) <=> 0 <= b /\ b <= 15 /\ b \in d
    BY <1>1 DEF limit0, Field
  <2>2. \A b \in Int : b \in u <=> 0 <= b /\ b <= 3 /\ b + 48 \in d
    BY <1>1 DEF limit1attr1, Field
  <2> HIDE DEF u, d
  <2>3. \A b \in Int : b \in Shl(u, 16) <=> 0 <= b /\ b <= 31 /\ b - 16 \in u
    BY DEF Shl, Word
  <2>4. \A b \in Int : b - 16 \in u <=> 16 <= b /\ b <= 19 /\ (b - 16) + 48 \in d
    BY <2>2
  <2>5. \A b \in Int : (b - 16) + 48 = b + 32
    OBVIOUS
  <2>6. \A b \in Int : b \in raw <=> b \in hidden
    BY <2>1, <2>3, <2>4, <2>5
  <2>7. raw \subseteq Int /\ hidden \subseteq Int
    BY DEF limit0, Field, Shl, Word
  <2> QED
    BY <2>6, <2>7
<1>3. Scaled(hidden) = {b \in Word : b <= 11 \/ b - 12 \in hidden}
  BY DEF Scaled, Shl, Word
<1>4. 11 \in a <=> 55 \in d
  <2>1. InitializeSegmentSelector(s).attributes = a
    BY DEF InitializeSegmentSelector
  <2>2. a = {b \in 0..11 : b + (IF b <= 7 THEN 40 ELSE 44) \in d}
    BY <2>1, Attributes
  <2> QED
    BY <2>2
<1>5. GetSegmentDescriptorLimit(s) = IF 11 \in a THEN Scaled(raw) ELSE raw
  BY DEF GetSegmentDescriptorLimit, InitializeSegmentSelector, G_BIT
<1>6. HiddenLimit(d) = IF 55 \in d THEN {b \in Word : b <= 11 \/ b - 12 \in hidden} ELSE hidden
  BY DEF HiddenLimit
<1> QED
  BY <1>2, <1>3, <1>4, <1>5, <1>6
-----------------------------------------------------------------------------
(* A control gets what the processor demands and nothing it lacks. *)
LEMMA ControlsAdjusted ==
  ASSUME msr \in Capabilities, NEW k \in Controls
  PROVE  /\ VmxAdjustControls(Wanted[k], k) \subseteq Word
         /\ msr[k].low \subseteq VmxAdjustControls(Wanted[k], k)
         /\ VmxAdjustControls(Wanted[k], k) \subseteq msr[k].high
  BY SetupAssumption DEF VmxAdjustControls

(* What is behind the part of SetupVMCS that is next. *)
Behind(part) ==
  CASE part = "selectors" -> pc # "selectors"
    [] part = "controls" -> pc \notin {"selectors", "controls"}
    [] part = "limits" -> pc \notin {"selectors", "controls", "limits"}
    [] part = "rights" -> pc \notin {"selectors", "controls", "limits", "rights"}
    [] part = "bases" -> pc \in {"launch", "guest", "failed"}

(* What each part of SetupVMCS has written once it is behind. *)
Written ==
  /\ reg \in Loaded /\ msr \in Capabilities
  /\ pc \in {"selectors", "controls", "limits", "rights", "bases", "launch", "guest", "failed"}
  /\ selector = [r \in Regs |-> IF Behind("selectors") THEN Masked(reg[r]) ELSE Null]
  /\ hostSelector = [r \in HostRegs |-> IF Behind("selectors") THEN Masked(reg[r]) ELSE Null]
  /\ control = [k \in Controls |->
                  IF Behind("controls") THEN VmxAdjustControls(Wanted[k], k) ELSE {}]
  /\ limit = [r \in Regs |-> IF Behind("limits") THEN GetSegmentDescriptorLimit(reg[r]) ELSE {}]
  /\ ar = [r \in Regs |-> IF Behind("rights") THEN GetSegmentDescriptorAR(reg[r]) ELSE {}]
  /\ base = [r \in Regs |-> IF Behind("bases") THEN GetSegmentDescriptorBase(reg[r]) ELSE {}]

LEMMA WrittenInvariant == Spec => []Written
<1> USE DEF Written, Behind
<1>1. Init => Written
  BY SetupAssumption DEF Init
<1>2. Written /\ [Next]_vars => Written'
  <2> SUFFICES ASSUME Written, [Next]_vars PROVE Written'
    OBVIOUS
  <2>1. CASE SetSelectors
    BY <2>1 DEF SetSelectors, Part
  <2>2. CASE SetControls
    BY <2>2 DEF SetControls, Part, VmxAdjustControls
  <2>3. CASE SetLimits
    BY <2>3 DEF SetLimits, Part, VmxAdjustControls
  <2>4. CASE SetAccessRights
    BY <2>4 DEF SetAccessRights, Part, VmxAdjustControls
  <2>5. CASE SetBases
    BY <2>5 DEF SetBases, Part, VmxAdjustControls
  <2>6. CASE Launch
    BY <2>6 DEF Launch, fields, VmxAdjustControls
  <2>7. CASE UNCHANGED vars
    BY <2>7 DEF vars, fields, VmxAdjustControls
  <2> QED
    BY <2>1, <2>2, <2>3, <2>4, <2>5, <2>6, <2>7 DEF Next
<1> QED
  BY <1>1, <1>2, PTL DEF Spec

(* The guest starts with the segments the kernel had, for every descriptor    *)
(* table: both decoders of vmx.c give the parts the processor itself finds.  *)
THEOREM GuestSegmentsKept == Spec => []GuestKeepsSegments
<1>1. Written => GuestKeepsSegments
  <2> SUFFICES ASSUME Written, pc \in {"launch", "guest"}, NEW r \in Regs, ~reg[r].ti
               PROVE  /\ base[r] = HiddenBase(GDT[reg[r].index])
                      /\ limit[r] = HiddenLimit(GDT[reg[r].index])
                      /\ ar[r] \ {16} = HiddenRights(GDT[reg[r].index])
    BY DEF GuestKeepsSegments
  <2>1. reg[r] \in Selectors
    BY SetupAssumption DEF Written
  <2>2. /\ base[r] = GetSegmentDescriptorBase(reg[r])
        /\ limit[r] = GetSegmentDescriptorLimit(reg[r])
        /\ ar[r] = GetSegmentDescriptorAR(reg[r])
    BY DEF Written, Behind
  <2> QED
    BY <2>1, <2>2, BaseIsHidden, LimitIsHidden, RightsAreHidden
<1> QED
  BY <1>1, WrittenInvariant, PTL
-----------------------------------------------------------------------------
(* For a selector the decoders cannot render, they give rights of zero. *)
LEMMA NoRights ==
  ASSUME NEW s \in Selectors, ~Rendered(s)
  PROVE  GetSegmentDescriptorAR(s) = {}
<1>1. InitializeSegmentSelector(s).attributes = {}
  <2>1. CASE s.ti
    BY <2>1 DEF InitializeSegmentSelector
  <2>2. CASE ~s.ti
    <3>1. GDT[s.index] = {}
      BY <2>2, SetupAssumption DEF Rendered
    <3> QED
      BY <2>2, <3>1, Attributes
  <2> QED
    BY <2>1, <2>2
<1>2. Unusable(s) = {}
  BY DEF Unusable, Null, Rendered
<1>3. Field({}, 0, 7) = {} /\ Field({}, 8, 15) = {} /\ Shl({}, 12) = {}
  BY DEF Field, Shl
<1> QED
  BY <1>1, <1>2, <1>3 DEF GetSegmentDescriptorAR

(* The guest is never entered with a segment the decoders lost: the processor  *)
(* refuses a usable register that is not present.                            *)
THEOREM LostSegmentsNeverRun == Spec => []OnlyRenderedLaunch
<1>1. Init => OnlyRenderedLaunch
  BY DEF Init, OnlyRenderedLaunch
<1>2. Written /\ OnlyRenderedLaunch /\ [Next]_vars => OnlyRenderedLaunch'
  <2> SUFFICES ASSUME Written, OnlyRenderedLaunch, [Next]_vars, pc' = "guest", NEW r \in Regs
               PROVE  Rendered(reg'[r])
    BY DEF OnlyRenderedLaunch
  <2>1. CASE Launch
    <3>1. GuestSegmentsAccepted /\ reg' = reg /\ pc = "launch"
      BY <2>1 DEF Launch
    <3>2. ar[r] = GetSegmentDescriptorAR(reg[r]) /\ reg[r] \in Selectors
      BY <3>1, SetupAssumption DEF Written, Behind
    <3>3. ar[r] # {}
      BY <3>1 DEF GuestSegmentsAccepted, Usable
    <3> QED
      BY <3>1, <3>2, <3>3, NoRights
  <2>2. CASE SetSelectors \/ SetControls \/ SetLimits \/ SetAccessRights \/ SetBases
    BY <2>2 DEF SetSelectors, SetControls, SetLimits, SetAccessRights, SetBases, Part
  <2>3. CASE UNCHANGED vars
    BY <2>3 DEF vars, OnlyRenderedLaunch
  <2> QED
    BY <2>1, <2>2, <2>3 DEF Next
<1> QED
  BY <1>1, <1>2, WrittenInvariant, PTL DEF Spec
-----------------------------------------------------------------------------
LEMMA MaskedParts ==
  ASSUME NEW s \in Selectors
  PROVE  /\ Masked(s) \in Selectors
         /\ Masked(s).index = s.index /\ Masked(s).ti = FALSE /\ Masked(s).rpl = 0
<1>1. Masked(s).index = s.index
  BY DEF Masked, Selectors
<1>2. Masked(s).ti = FALSE
  BY DEF Masked, Selectors
<1>3. Masked(s).rpl = 0
  BY DEF Masked, Selectors
<1>4. Masked(s) \in Selectors
  <2> DEFINE global == [s EXCEPT !.ti = FALSE]
  <2>1. global \in Selectors
    BY Zenon DEF Selectors
  <2>2. [global EXCEPT !.rpl = 0] \in Selectors
    <3>1. 0 \in 0..3
      OBVIOUS
    <3> HIDE DEF global
    <3> QED
      BY <2>1, <3>1 DEF Selectors
  <2>3. Masked(s) = [global EXCEPT !.rpl = 0]
    BY DEF Masked
  <2> QED
    BY <2>2, <2>3
<1> QED
  BY <1>1, <1>2, <1>3, <1>4

(* Whatever the table the selector names, the decoders give words. *)
LEMMA DecodersGiveWords ==
  ASSUME NEW s \in Selectors
  PROVE  /\ GetSegmentDescriptorBase(s) \subseteq Word
         /\ GetSegmentDescriptorLimit(s) \subseteq Word
         /\ GetSegmentDescriptorAR(s) \subseteq Word
<1>1. GetSegmentDescriptorBase(s) \subseteq Word
  BY BaseIsHidden DEF HiddenBase
<1>2. CASE ~s.ti
  <2>1. GetSegmentDescriptorLimit(s) \subseteq Word
    BY <1>2, LimitIsHidden DEF HiddenLimit, Word
  <2>2. GetSegmentDescriptorAR(s) \ {16} \subseteq Word /\ 16 \in Word
    BY <1>2, RightsAreHidden DEF HiddenRights, Word
  <2> QED
    BY <1>1, <2>1, <2>2
<1>3. CASE s.ti
  <2>1. GetSegmentDescriptorLimit(s) = {}
    BY <1>3 DEF GetSegmentDescriptorLimit, InitializeSegmentSelector
  <2>2. GetSegmentDescriptorAR(s) = {}
    BY <1>3, NoRights DEF Rendered
  <2> QED
    BY <1>1, <2>1, <2>2
<1> QED
  BY <1>2, <1>3

(* Every field SetupVMCS writes is a word or a selector that names the GDT at  *)
(* privilege zero, for every table and every content of the registers.        *)
THEOREM VmcsSetupTypeCorrect == Spec => []TypeOK
<1>1. Written => TypeOK
  <2> SUFFICES ASSUME Written PROVE TypeOK
    OBVIOUS
  <2>1. reg \in [Regs -> Selectors] /\ reg \in Loaded /\ msr \in Capabilities
    BY SetupAssumption DEF Written
  <2>2. Null \in Selectors /\ ~Null.ti /\ Null.rpl = 0
    BY SetupAssumption DEF Null, Selectors
  <2>3. \A r \in Regs : Masked(reg[r]) \in Selectors /\ ~Masked(reg[r]).ti /\ Masked(reg[r]).rpl = 0
    BY <2>1, MaskedParts
  <2>4. \A r \in Regs : selector[r] \in Selectors /\ ~selector[r].ti /\ selector[r].rpl = 0
    BY <2>2, <2>3 DEF Written
  <2>5. \A r \in HostRegs : hostSelector[r] = selector[r]
    BY DEF Written, HostRegs
  <2>6. {limit, ar, base} \subseteq [Regs -> SUBSET Word]
    BY <2>1, DecodersGiveWords DEF Written
  <2>7. control \in [Controls -> SUBSET Word]
    BY <2>1, ControlsAdjusted DEF Written
  <2> QED
    BY <2>1, <2>4, <2>5, <2>6, <2>7 DEF TypeOK, Written
<1> QED
  BY <1>1, WrittenInvariant, PTL
-----------------------------------------------------------------------------
(* What of a rendered register VMLAUNCH looks at is what the processor found   *)
(* when the register was loaded.                                             *)
LEMMA RenderedRights ==
  ASSUME NEW r \in Regs, NEW s \in Selectors, Rendered(s),
         ar[r] = GetSegmentDescriptorAR(s)
  PROVE  LET access == Field(GDT[s.index], 40, 47)
         IN  /\ Usable(r) <=> s # Null
             /\ \A b \in 0..7 : b \in ar[r] <=> b \in access
             /\ Type(r) = access \cap 0..3
             /\ Dpl(r) = {b \in 0..1 : b + 5 \in access}
             /\ 15 \in ar[r] <=> 55 \in GDT[s.index]
             /\ ar[r] \cap (8..11 \cup 17..31) = {}
<1> DEFINE d == GDT[s.index]
           access == Field(d, 40, 47)
<1>1. ~s.ti
  BY DEF Rendered
<1>2. \A b \in Int : b \in ar[r] <=>
        \/ ((0 <= b /\ b <= 7) \/ (12 <= b /\ b <= 15)) /\ b + 40 \in d
        \/ b = 16 /\ s = Null
  BY <1>1, RightsBits
<1> HIDE DEF d
<1>3. \A b \in Int : b \in access <=> 0 <= b /\ b <= 7 /\ b + 40 \in d
  BY DEF Field
<1> HIDE DEF access
<1>4. Usable(r) <=> s # Null
  BY <1>2 DEF Usable
<1>5. \A b \in 0..7 : b \in ar[r] <=> b \in access
  BY <1>2, <1>3
<1>6. Type(r) = access \cap 0..3
  BY <1>5 DEF Type, Field
<1>7. Dpl(r) = {b \in 0..1 : b + 5 \in access}
  BY <1>5 DEF Dpl, Field
<1>8. 15 \in ar[r] <=> 55 \in d
  BY <1>2
<1>9. ar[r] \cap (8..11 \cup 17..31) = {}
  BY <1>2
<1> QED
  BY <1>4, <1>5, <1>6, <1>7, <1>8, <1>9 DEF access, d

(* A limit and its granularity come from the same descriptor. *)
LEMMA RenderedLimit ==
  ASSUME NEW r \in Regs, NEW s \in Selectors, Rendered(s),
         ar[r] = GetSegmentDescriptorAR(s), limit[r] = GetSegmentDescriptorLimit(s)
  PROVE  LimitAccepted(r)
<1>1. limit[r] = HiddenLimit(GDT[s.index])
  BY LimitIsHidden DEF Rendered
<1>2. 15 \in ar[r] <=> 55 \in GDT[s.index]
  BY RenderedRights
<1>3. 55 \in GDT[s.index] => 0..11 \subseteq HiddenLimit(GDT[s.index])
  BY DEF HiddenLimit, Word
<1>4. 55 \notin GDT[s.index] => HiddenLimit(GDT[s.index]) \cap 20..31 = {}
  BY DEF HiddenLimit
<1> QED
  BY <1>1, <1>2, <1>3, <1>4 DEF LimitAccepted

LEMMA RenderedSegmentsAccepted ==
  ASSUME Written, pc = "launch", \A r \in Regs : Rendered(reg[r])
  PROVE  GuestSegmentsAccepted
<1> DEFINE access(r) == Field(GDT[reg[r].index], 40, 47)
<1>1. reg \in Loaded /\ reg \in [Regs -> Selectors]
  BY SetupAssumption DEF Written
<1>2. \A r \in Regs : /\ ar[r] = GetSegmentDescriptorAR(reg[r])
                       /\ limit[r] = GetSegmentDescriptorLimit(reg[r])
  BY DEF Written, Behind
<1>3. ASSUME NEW r \in Regs
      PROVE  /\ Usable(r) <=> reg[r] # Null
             /\ \A b \in 0..7 : b \in ar[r] <=> b \in access(r)
             /\ Type(r) = access(r) \cap 0..3
             /\ Dpl(r) = {b \in 0..1 : b + 5 \in access(r)}
             /\ ar[r] \cap (8..11 \cup 17..31) = {}
  BY <1>1, <1>2, RenderedRights
<1>4. \A r \in Regs : LimitAccepted(r)
  BY <1>1, <1>2, RenderedLimit
<1>5. \A r \in Regs :
        /\ r \in {"CS", "SS", "TR"} => reg[r].index # 0
        /\ r \in {"CS", "SS"} => access(r) \cap {5, 6} = {}
        /\ reg[r].index # 0 =>
             /\ 7 \in access(r)
             /\ 4 \in access(r) <=> r \notin {"TR", "LDTR"}
             /\ r = "CS" => {0, 3} \subseteq access(r)
             /\ r = "SS" => access(r) \cap {0, 1, 3} = {0, 1}
             /\ r = "TR" => access(r) \cap 0..3 = {0, 1, 3}
             /\ r = "LDTR" => access(r) \cap 0..3 = {1}
             /\ r \in {"DS", "ES", "FS", "GS"} =>
                  0 \in access(r) /\ (3 \in access(r) => 1 \in access(r))
  BY <1>1, LoadedAssumption DEF Rendered
<1>6. \A r \in Regs : Usable(r) => reg[r].index # 0
  BY <1>1, <1>3 DEF Rendered, Null, Selectors
<1>7. Usable("TR") /\ Usable("CS")
  <2>1. ASSUME NEW r \in {"CS", "TR"} PROVE Usable(r)
    <3>1. r \in Regs
      BY DEF Regs
    <3>2. reg[r].index # 0
      BY <1>5, <3>1
    <3>3. reg[r] # Null
      BY <3>2 DEF Null
    <3> QED
      BY <1>3, <3>1, <3>3
  <2> QED
    BY <2>1
<1> HIDE DEF access
<1>8. ASSUME NEW r \in Regs, Usable(r) PROVE 7 \in ar[r] /\ TypeAccepted(r)
  <2>1. reg[r].index # 0
    BY <1>6, <1>8
  <2>2. /\ 7 \in access(r)
        /\ 4 \in access(r) <=> r \notin {"TR", "LDTR"}
        /\ r = "CS" => {0, 3} \subseteq access(r)
        /\ r = "SS" => access(r) \cap {0, 1, 3} = {0, 1}
        /\ r = "TR" => access(r) \cap 0..3 = {0, 1, 3}
        /\ r = "LDTR" => access(r) \cap 0..3 = {1}
        /\ r \in {"DS", "ES", "FS", "GS"} =>
             0 \in access(r) /\ (3 \in access(r) => 1 \in access(r))
    BY <1>5, <2>1
  <2>3. \A b \in 0..7 : b \in ar[r] <=> b \in access(r)
    BY <1>3
  <2>4. Type(r) = access(r) \cap 0..3
    BY <1>3
  <2> HIDE DEF access
  <2>5. 7 \in ar[r] /\ (4 \in ar[r] <=> r \notin {"TR", "LDTR"})
    BY <2>2, <2>3
  <2>6. CASE r = "CS"
    BY <2>2, <2>4, <2>5, <2>6 DEF TypeAccepted, Accessed, Code
  <2>7. CASE r = "SS"
    <3>1. Type(r) \ {2} = {0} \cup {1}
      BY <2>2, <2>4, <2>7
    <3> QED
      BY <2>5, <2>7, <3>1 DEF TypeAccepted, Accessed, Readable, Expand
  <2>8. CASE r = "TR"
    BY <2>2, <2>4, <2>5, <2>8 DEF TypeAccepted
  <2>9. CASE r = "LDTR"
    BY <2>2, <2>4, <2>5, <2>9 DEF TypeAccepted
  <2>10. CASE r \in {"DS", "ES", "FS", "GS"}
    BY <2>2, <2>4, <2>5, <2>10 DEF TypeAccepted, Accessed, Readable, Code
  <2> QED
    BY <2>5, <2>6, <2>7, <2>8, <2>9, <2>10 DEF Regs
<1>9. Dpl("SS") = {} /\ Dpl("CS") = {}
  <2>1. ASSUME NEW r \in {"CS", "SS"} PROVE Dpl(r) = {}
    <3>1. r \in Regs
      BY DEF Regs
    <3>2. access(r) \cap {5, 6} = {}
      BY <1>5, <3>1
    <3>3. Dpl(r) = {b \in 0..1 : b + 5 \in access(r)}
      BY <1>3, <3>1
    <3> QED
      BY <3>2, <3>3
  <2> QED
    BY <2>1
<1>10. \A r \in Regs : ~selector[r].ti
  BY <1>1, MaskedParts DEF Written, Behind
<1> QED
  <2>1. \A r \in Regs : ar[r] \cap (8..11 \cup 17..31) = {}
    BY <1>3
  <2> QED
    BY <1>4, <1>7, <1>8, <1>9, <1>10, <2>1 DEF GuestSegmentsAccepted

LEMMA HostAndControlsAccepted ==
  ASSUME Written, pc = "launch", \A r \in Regs : Rendered(reg[r])
  PROVE  HostSelectorsAccepted /\ ControlsAccepted
<1>1. reg \in Loaded /\ reg \in [Regs -> Selectors] /\ msr \in Capabilities
  BY SetupAssumption DEF Written
<1>2. \A r \in HostRegs : hostSelector[r] = Masked(reg[r])
  BY DEF Written, Behind
<1>3. \A r \in Regs : ~Masked(reg[r]).ti /\ Masked(reg[r]).rpl = 0
                      /\ Masked(reg[r]).index = reg[r].index
  BY <1>1, MaskedParts
<1>4. \A r \in {"CS", "SS", "TR"} : reg[r].index # 0
  BY <1>1, LoadedAssumption DEF Rendered, Regs
<1>5. HostSelectorsAccepted
  BY <1>2, <1>3, <1>4 DEF HostSelectorsAccepted, HostRegs, Regs
<1>6. \A k \in Controls : control[k] = VmxAdjustControls(Wanted[k], k)
  BY DEF Written, Behind
<1>7. ControlsAccepted
  BY <1>1, <1>6, ControlsAdjusted DEF ControlsAccepted
<1> QED
  BY <1>5, <1>7

(* VMLAUNCH succeeds exactly on the states the decoders can render: what the   *)
(* processor checks at VM entry it checked when the registers were loaded, and *)
(* decoders and VmxAdjustControls lose none of it.                            *)
THEOREM RenderedSegmentsRun == Spec => []LaunchesWhenRendered
<1> DEFINE FailedInv == pc = "failed" => \E r \in Regs : ~Rendered(reg[r])
<1>1. Init => FailedInv
  BY DEF Init
<1>2. Written /\ FailedInv /\ [Next]_vars => FailedInv'
  <2> SUFFICES ASSUME Written, FailedInv, [Next]_vars, pc' = "failed"
               PROVE  \E r \in Regs : ~Rendered(reg'[r])
    OBVIOUS
  <2>1. CASE Launch
    <3>1. pc = "launch" /\ reg' = reg
      BY <2>1 DEF Launch
    <3>2. ~(GuestSegmentsAccepted /\ HostSelectorsAccepted /\ ControlsAccepted)
      BY <2>1 DEF Launch
    <3> QED
      BY <3>1, <3>2, RenderedSegmentsAccepted, HostAndControlsAccepted
  <2>2. CASE SetSelectors \/ SetControls \/ SetLimits \/ SetAccessRights \/ SetBases
    BY <2>2 DEF SetSelectors, SetControls, SetLimits, SetAccessRights, SetBases, Part
  <2>3. CASE UNCHANGED vars
    BY <2>3 DEF vars
  <2> QED
    BY <2>1, <2>2, <2>3 DEF Next
<1>3. OnlyRenderedLaunch /\ FailedInv => LaunchesWhenRendered
  BY DEF LaunchesWhenRendered
<1> QED
  BY <1>1, <1>2, <1>3, WrittenInvariant, LostSegmentsNeverRun, PTL DEF Spec
=============================================================================
