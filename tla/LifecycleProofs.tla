--------------------------- MODULE LifecycleProofs ---------------------------
(***************************************************************************)
(* The invariants of Lifecycle, for any number of loads.                   *)
(***************************************************************************)
EXTENDS Lifecycle, TLAPS

(* The steps of StartVirtualization, counted. *)
Rank ==
  [GUEST_CPU |-> 1, VMXON_va |-> 2, VmxOn |-> 3, VMCS_va |-> 4, IO_Bitmap_A |-> 5,
   IO_Bitmap_B |-> 6, MSR_bitmap |-> 7, Host_Stack |-> 8, VMMIDT |-> 9, LocalAPIC |-> 10,
   IOAPIC |-> 11, VmClear |-> 12, HostPDE_va |-> 13, VmLaunch |-> 14]

Starting == DOMAIN Rank
BeforeThread == {"m_bufferInit", "VideoInit", "out_buf", "sock", "bind", "connect", "tinfo",
                 "kthread_run"}
Needed == Region \cup {"GUEST_CPU", "HostPDE_va"}

(* The next step is one of the loader's. *)
LEMMA NextIsStep ==
  /\ \A s \in DOMAIN InitOrder : InitOrder[s] \in LoaderSteps
  /\ \A s \in DOMAIN ExitOrder : ExitOrder[s] \in LoaderSteps
BY DEF InitOrder, ExitOrder, LoaderSteps

(* The order of the steps of StartVirtualization is their count. *)
LEMMA RankOfNext ==
  \A s \in Starting \ {"VmLaunch"} :
    InitOrder[s] \in Starting /\ Rank[InitOrder[s]] = Rank[s] + 1
BY DEF InitOrder, Starting, Rank

LEMMA RankIsNat == \A s \in Starting : Rank[s] \in 1..14
BY DEF Starting, Rank

LEMMA RankInjective == \A s, t \in Starting : Rank[s] = Rank[t] => s = t
BY DEF Starting, Rank

(* What the labels of the actions lead to. *)
LEMMA Successors ==
  /\ InitOrder["m_bufferInit"] = "VideoInit" /\ InitOrder["VideoInit"] = "out_buf"
  /\ InitOrder["out_buf"] = "sock" /\ InitOrder["sock"] = "bind"
  /\ InitOrder["bind"] = "connect" /\ InitOrder["connect"] = "tinfo"
  /\ InitOrder["tinfo"] = "kthread_run" /\ InitOrder["kthread_run"] = "kthreadtask"
  /\ InitOrder["kthreadtask"] = "VTx" /\ InitOrder["VTx"] = "VMXEnabled"
  /\ InitOrder["VMXEnabled"] = "GUEST_CPU"
  /\ ExitOrder["loaded"] = "StopVirtualization"
  /\ ExitOrder["StopVirtualization"] = "m_bufferRelease"
  /\ ExitOrder["m_bufferRelease"] = "absent"
BY DEF InitOrder, ExitOrder
-----------------------------------------------------------------------------
(* TypeOK in two parts. *)
LabelsOK ==
  /\ loads \in 0..MaxLoads
  /\ lpc \in LoaderSteps
  /\ held \subseteq Sender \cup TraceMemory \cup Region \cup {"out_buf", "GUEST_CPU", "HostPDE_va"}
  /\ reported \in {"none", "unsupported", "disabled", "failed", "success"}
  /\ vmx \in {"off", "root", "guest"}
  /\ thread \in {"none", "running", "ended"}
  /\ crash \in {"none", "HandleDebugException", "compress2send", "sendthread"}
              \cup LoaderSteps

FlagsOK ==
  /\ cpu \in [vtx : BOOLEAN, enabled : BOOLEAN, locked : BOOLEAN]
  /\ current \in BOOLEAN
  /\ current => vmx # "off"
  /\ kthreadtask \in BOOLEAN
  /\ flagged \in BOOLEAN

LEMMA TypeParts == TypeOK <=> LabelsOK /\ FlagsOK
BY DEF TypeOK, LabelsOK, FlagsOK

(* From VMXON to VMLAUNCH the processor is in VMX operation.               *)
VmxInv == lpc \in Starting /\ Rank[lpc] > 3 => vmx # "off"

(* The guest runs between the last step of the load and the first of the     *)
(* unload, and there it is what has been reported.                          *)
GuestInv ==
  /\ vmx = "guest" => lpc \in {"loaded", "StopVirtualization"}
  /\ lpc \in {"loaded", "StopVirtualization"} => (reported = "success" <=> vmx = "guest")

BaseInv == LabelsOK /\ FlagsOK /\ VmxInv /\ GuestInv

LEMMA BaseInit == Init => BaseInv
<1> SUFFICES ASSUME Init PROVE BaseInv
  OBVIOUS
<1>1. LabelsOK
  BY LoadsAssumption DEF Init, LabelsOK, LoaderSteps
<1>2. FlagsOK
  BY DEF Init, FlagsOK
<1>3. VmxInv /\ GuestInv
  BY DEF Init, VmxInv, GuestInv, Starting, Rank
<1> QED BY <1>1, <1>2, <1>3 DEF BaseInv

(* The steps before StartVirtualization leave the processor alone. *)
LEMMA BaseBegin ==
  ASSUME BaseInv,
         Load \/ M_bufferInit \/ VideoInit \/ SendInit \/ CheckVTx \/ CheckVMXEnabled
  PROVE  BaseInv'
<1> USE Successors DEF BaseInv, loader, processor, sender, Goto, Report, Crash
<1>1. CASE Load
  <2>1. LabelsOK'
    BY <1>1, LoadsAssumption, NextIsStep DEF Load, LabelsOK, LoaderSteps, InitOrder, ExitOrder
  <2>2. FlagsOK'
    BY <1>1 DEF Load, FlagsOK, GuestInv
  <2>3. VmxInv' /\ GuestInv'
    BY <1>1, RankOfNext, RankIsNat DEF Load, LabelsOK, VmxInv, GuestInv, Starting, Rank
  <2> QED BY <2>1, <2>2, <2>3
<1>2. CASE M_bufferInit
  <2>1. LabelsOK'
    BY <1>2, NextIsStep DEF M_bufferInit, TraceMemory, LabelsOK, LoaderSteps, InitOrder, ExitOrder
  <2>2. FlagsOK'
    BY <1>2 DEF M_bufferInit, TraceMemory, FlagsOK, GuestInv
  <2>3. VmxInv' /\ GuestInv'
    BY <1>2, RankOfNext, RankIsNat DEF M_bufferInit, TraceMemory, LabelsOK, VmxInv, GuestInv, Starting, Rank
  <2> QED BY <2>1, <2>2, <2>3
<1>3. CASE VideoInit
  <2>1. LabelsOK'
    BY <1>3, NextIsStep DEF VideoInit, LabelsOK, LoaderSteps, InitOrder, ExitOrder
  <2>2. FlagsOK'
    BY <1>3 DEF VideoInit, FlagsOK, GuestInv
  <2>3. VmxInv' /\ GuestInv'
    BY <1>3, RankOfNext, RankIsNat DEF VideoInit, LabelsOK, VmxInv, GuestInv, Starting, Rank
  <2> QED BY <2>1, <2>2, <2>3
<1>4. CASE SendInit
  <2>1. LabelsOK' /\ FlagsOK'
    <3>1. CASE OutBuf
      BY <3>1, NextIsStep DEF OutBuf, LabelsOK, FlagsOK, LoaderSteps, InitOrder
    <3>2. CASE SendInitStep
      <4>1. lpc' \in LoaderSteps /\ held' \subseteq held \cup Sender
        BY <3>2, NextIsStep DEF SendInitStep, SendInitFailed, LoaderSteps, InitOrder
      <4>2. LabelsOK'
        BY <3>2, <4>1 DEF SendInitStep, SendInitFailed, LabelsOK
      <4>3. FlagsOK'
        BY <3>2 DEF SendInitStep, SendInitFailed, FlagsOK
      <4> QED BY <4>2, <4>3
    <3>3. CASE KthreadRun
      <4>1. LabelsOK'
        BY <3>3, NextIsStep DEF KthreadRun, SendInitFailed, LabelsOK, LoaderSteps, InitOrder
      <4>2. FlagsOK'
        BY <3>3 DEF KthreadRun, SendInitFailed, FlagsOK
      <4> QED BY <4>1, <4>2
    <3>4. CASE KthreadAssign
      BY <3>4, NextIsStep DEF KthreadAssign, LabelsOK, FlagsOK, LoaderSteps, InitOrder
    <3> QED BY <1>4, <3>1, <3>2, <3>3, <3>4 DEF SendInit
  <2>3. VmxInv' /\ GuestInv'
    BY <1>4, RankOfNext, RankIsNat
    DEF SendInit, OutBuf, SendInitStep, KthreadRun, KthreadAssign, SendInitFailed, LabelsOK,
        VmxInv, GuestInv, Starting, Rank
  <2> QED BY <2>1, <2>3
<1>5. CASE CheckVTx
  <2>1. LabelsOK'
    BY <1>5, NextIsStep DEF CheckVTx, LabelsOK, LoaderSteps, InitOrder, ExitOrder
  <2>2. FlagsOK'
    BY <1>5 DEF CheckVTx, FlagsOK, GuestInv
  <2>3. VmxInv' /\ GuestInv'
    BY <1>5, RankOfNext, RankIsNat DEF CheckVTx, LabelsOK, VmxInv, GuestInv, Starting, Rank
  <2> QED BY <2>1, <2>2, <2>3
<1>6. CASE CheckVMXEnabled
  <2>1. LabelsOK'
    BY <1>6, NextIsStep DEF CheckVMXEnabled, LabelsOK, LoaderSteps, InitOrder, ExitOrder
  <2>2. FlagsOK'
    BY <1>6 DEF CheckVMXEnabled, FlagsOK, GuestInv
  <2>3. VmxInv' /\ GuestInv'
    BY <1>6, RankOfNext, RankIsNat DEF CheckVMXEnabled, LabelsOK, VmxInv, GuestInv, Starting, Rank
  <2> QED BY <2>1, <2>2, <2>3
<1> QED BY <1>1, <1>2, <1>3, <1>4, <1>5, <1>6

(* StartVirtualization. *)
LEMMA BaseStart ==
  ASSUME BaseInv,
         AllocCpu \/ AllocRegion \/ VmxOn \/ VmClear \/ HostCr3Init \/ VmLaunch
  PROVE  BaseInv'
<1> USE Successors DEF BaseInv, loader, processor, sender, Goto, Report, Crash
<1>1. CASE AllocCpu
  <2>1. LabelsOK'
    BY <1>1, NextIsStep DEF AllocCpu, LabelsOK, LoaderSteps, InitOrder, ExitOrder
  <2>2. FlagsOK'
    BY <1>1 DEF AllocCpu, FlagsOK, GuestInv
  <2>3. VmxInv' /\ GuestInv'
    BY <1>1, RankOfNext, RankIsNat DEF AllocCpu, LabelsOK, VmxInv, GuestInv, Starting, Rank
  <2> QED BY <2>1, <2>2, <2>3
<1>2. CASE AllocRegion
  <2>1. LabelsOK'
    BY <1>2, NextIsStep DEF AllocRegion, Region, LabelsOK, LoaderSteps, InitOrder, ExitOrder
  <2>2. FlagsOK'
    BY <1>2 DEF AllocRegion, Region, FlagsOK, GuestInv
  <2>3. VmxInv' /\ GuestInv'
    BY <1>2, RankOfNext, RankIsNat DEF AllocRegion, Region, LabelsOK, VmxInv, GuestInv, Starting, Rank
  <2> QED BY <2>1, <2>2, <2>3
<1>3. CASE VmxOn
  <2>1. LabelsOK'
    BY <1>3, NextIsStep DEF VmxOn, LabelsOK, LoaderSteps, InitOrder, ExitOrder
  <2>2. FlagsOK'
    <3>1. CASE vmx' = vmx /\ current' = current
      BY <1>3, <3>1 DEF VmxOn, FlagsOK
    <3>2. CASE vmx' = "root" /\ current' = FALSE
      BY <1>3, <3>2 DEF VmxOn, FlagsOK
    <3> QED BY <1>3, <3>1, <3>2 DEF VmxOn
  <2>3. VmxInv' /\ GuestInv'
    BY <1>3, RankOfNext, RankIsNat DEF VmxOn, LabelsOK, VmxInv, GuestInv, Starting, Rank
  <2> QED BY <2>1, <2>2, <2>3
<1>4. CASE VmClear
  <2>1. LabelsOK'
    BY <1>4, NextIsStep DEF VmClear, LabelsOK, LoaderSteps, InitOrder, ExitOrder
  <2>2. FlagsOK'
    <3>1. vmx # "off"
      BY <1>4 DEF VmClear, VmxInv, Starting, Rank
    <3> QED BY <1>4, <3>1 DEF VmClear, FlagsOK
  <2>3. VmxInv' /\ GuestInv'
    BY <1>4, RankOfNext, RankIsNat DEF VmClear, LabelsOK, VmxInv, GuestInv, Starting, Rank
  <2> QED BY <2>1, <2>2, <2>3
<1>5. CASE HostCr3Init
  <2>1. LabelsOK'
    BY <1>5, NextIsStep DEF HostCr3Init, LabelsOK, LoaderSteps, InitOrder, ExitOrder
  <2>2. FlagsOK'
    BY <1>5 DEF HostCr3Init, FlagsOK, GuestInv
  <2>3. VmxInv' /\ GuestInv'
    BY <1>5, RankOfNext, RankIsNat DEF HostCr3Init, LabelsOK, VmxInv, GuestInv, Starting, Rank
  <2> QED BY <2>1, <2>2, <2>3
<1>6. CASE VmLaunch
  <2>1. LabelsOK'
    BY <1>6, NextIsStep DEF VmLaunch, LabelsOK, LoaderSteps, InitOrder, ExitOrder
  <2>2. FlagsOK'
    BY <1>6 DEF VmLaunch, FlagsOK, GuestInv
  <2>3. VmxInv' /\ GuestInv'
    BY <1>6, RankOfNext, RankIsNat DEF VmLaunch, LabelsOK, VmxInv, GuestInv, Starting, Rank
  <2> QED BY <2>1, <2>2, <2>3
<1> QED BY <1>1, <1>2, <1>3, <1>4, <1>5, <1>6

(* The unload, and what runs beside it all. *)
LEMMA BaseEnd ==
  ASSUME BaseInv,
         Unload \/ StopVirtualization \/ M_bufferRelease \/ GuestFillsBuffer \/ SendBuffer \/ SendFails \/ CompressFails \/ ThreadWithoutModule
  PROVE  BaseInv'
<1> USE Successors DEF BaseInv, loader, processor, sender, Goto, Report, Crash
<1>1. CASE Unload
  <2>1. LabelsOK'
    BY <1>1, NextIsStep DEF Unload, LabelsOK, LoaderSteps, InitOrder, ExitOrder
  <2>2. FlagsOK'
    BY <1>1 DEF Unload, FlagsOK, GuestInv
  <2>3. VmxInv' /\ GuestInv'
    BY <1>1, RankOfNext, RankIsNat DEF Unload, LabelsOK, VmxInv, GuestInv, Starting, Rank
  <2> QED BY <2>1, <2>2, <2>3
<1>2. CASE StopVirtualization
  <2>1. LabelsOK'
    BY <1>2, NextIsStep DEF StopVirtualization, LabelsOK, LoaderSteps, InitOrder, ExitOrder
  <2>2. FlagsOK'
    BY <1>2 DEF StopVirtualization, FlagsOK, GuestInv
  <2>3. VmxInv' /\ GuestInv'
    BY <1>2, RankOfNext, RankIsNat DEF StopVirtualization, LabelsOK, VmxInv, GuestInv, Starting, Rank
  <2> QED BY <2>1, <2>2, <2>3
<1>3. CASE M_bufferRelease
  <2>1. LabelsOK'
    BY <1>3, NextIsStep DEF M_bufferRelease, LabelsOK, LoaderSteps, InitOrder, ExitOrder
  <2>2. FlagsOK'
    BY <1>3 DEF M_bufferRelease, FlagsOK, GuestInv
  <2>3. VmxInv' /\ GuestInv'
    BY <1>3, RankOfNext, RankIsNat DEF M_bufferRelease, LabelsOK, VmxInv, GuestInv, Starting, Rank
  <2> QED BY <2>1, <2>2, <2>3
<1>4. CASE GuestFillsBuffer
  <2>1. LabelsOK'
    BY <1>4, NextIsStep DEF GuestFillsBuffer, LabelsOK, LoaderSteps, InitOrder, ExitOrder
  <2>2. FlagsOK'
    BY <1>4 DEF GuestFillsBuffer, FlagsOK, GuestInv
  <2>3. VmxInv' /\ GuestInv'
    BY <1>4, RankOfNext, RankIsNat DEF GuestFillsBuffer, LabelsOK, VmxInv, GuestInv, Starting, Rank
  <2> QED BY <2>1, <2>2, <2>3
<1>5. CASE SendBuffer
  <2>1. LabelsOK'
    BY <1>5, NextIsStep DEF SendBuffer, LabelsOK, LoaderSteps, InitOrder, ExitOrder
  <2>2. FlagsOK'
    BY <1>5 DEF SendBuffer, FlagsOK, GuestInv
  <2>3. VmxInv' /\ GuestInv'
    BY <1>5, RankOfNext, RankIsNat DEF SendBuffer, LabelsOK, VmxInv, GuestInv, Starting, Rank
  <2> QED BY <2>1, <2>2, <2>3
<1>6. CASE SendFails
  <2>1. LabelsOK'
    BY <1>6, NextIsStep DEF SendFails, LabelsOK, LoaderSteps, InitOrder, ExitOrder
  <2>2. FlagsOK'
    BY <1>6 DEF SendFails, FlagsOK, GuestInv
  <2>3. VmxInv' /\ GuestInv'
    BY <1>6, RankOfNext, RankIsNat DEF SendFails, LabelsOK, VmxInv, GuestInv, Starting, Rank
  <2> QED BY <2>1, <2>2, <2>3
<1>7. CASE CompressFails
  <2>1. LabelsOK'
    BY <1>7, NextIsStep DEF CompressFails, LabelsOK, LoaderSteps, InitOrder, ExitOrder
  <2>2. FlagsOK'
    BY <1>7 DEF CompressFails, FlagsOK, GuestInv
  <2>3. VmxInv' /\ GuestInv'
    BY <1>7, RankOfNext, RankIsNat DEF CompressFails, LabelsOK, VmxInv, GuestInv, Starting, Rank
  <2> QED BY <2>1, <2>2, <2>3
<1>8. CASE ThreadWithoutModule
  <2>1. LabelsOK'
    BY <1>8, NextIsStep DEF ThreadWithoutModule, LabelsOK, LoaderSteps, InitOrder, ExitOrder
  <2>2. FlagsOK'
    BY <1>8 DEF ThreadWithoutModule, FlagsOK, GuestInv
  <2>3. VmxInv' /\ GuestInv'
    BY <1>8, RankOfNext, RankIsNat DEF ThreadWithoutModule, LabelsOK, VmxInv, GuestInv, Starting, Rank
  <2> QED BY <2>1, <2>2, <2>3
<1> QED BY <1>1, <1>2, <1>3, <1>4, <1>5, <1>6, <1>7, <1>8

(* No step of the system breaks BaseInv. *)
LEMMA BaseStep == BaseInv /\ [Next]_vars => BaseInv'
<1> SUFFICES ASSUME BaseInv, [Next]_vars PROVE BaseInv'
  OBVIOUS
<1>1. CASE Next
  BY <1>1, BaseBegin, BaseStart, BaseEnd DEF Next, InitStep, ExitStep, StartVirtualization
<1>2. CASE UNCHANGED vars
  BY <1>2 DEF vars, loader, processor, sender, BaseInv, LabelsOK, FlagsOK, VmxInv, GuestInv
<1> QED BY <1>1, <1>2

THEOREM BaseInvariant == Spec => []BaseInv
BY BaseInit, BaseStep, PTL DEF Spec

(* The variables of load and unload keep their types, and a VMCS is current    *)
(* only in VMX operation.                                                     *)
THEOREM LifecycleTypeCorrect == Spec => []TypeOK
<1>1. BaseInv => TypeOK
  BY TypeParts DEF BaseInv
<1> QED BY <1>1, BaseInvariant, PTL

(* What vmxice_init reports is true, although StartVirtualization returns      *)
(* false on every path.                                                       *)
THEOREM ReportTrue == Spec => []ReportIsTrue
<1>1. BaseInv => ReportIsTrue
  BY DEF BaseInv, GuestInv, ReportIsTrue
<1> QED BY <1>1, BaseInvariant, PTL

(* No step frees a buffer while the guest runs. *)
THEOREM GuestKeepsBuffers == Spec => BuffersOutliveGuest
<1>1. ASSUME BaseInv, [Next]_vars, vmx = "guest"
      PROVE  TraceMemory \cap held \subseteq held'
  <2>1. lpc \in {"loaded", "StopVirtualization"}
    BY <1>1 DEF BaseInv, GuestInv
  <2>2. CASE Unload \/ StopVirtualization \/ GuestFillsBuffer \/ SendBuffer \/ CompressFails
                    \/ ThreadWithoutModule \/ UNCHANGED vars
    BY <2>2 DEF Unload, StopVirtualization, GuestFillsBuffer, SendBuffer, CompressFails,
                ThreadWithoutModule, Crash, Goto, loader, vars
  <2>3. CASE SendFails
    BY <2>3 DEF SendFails, Sender, TraceMemory
  <2>4. ~Load /\ ~InitStep /\ ~M_bufferRelease
    BY <2>1 DEF Load, InitStep, M_bufferInit, VideoInit, SendInit, OutBuf, SendInitStep, KthreadRun,
                KthreadAssign, CheckVTx, CheckVMXEnabled, StartVirtualization, AllocCpu, AllocRegion,
                Region, VmxOn, VmClear, HostCr3Init, VmLaunch, M_bufferRelease
  <2> QED BY <1>1, <2>2, <2>3, <2>4 DEF Next, ExitStep
<1> QED BY <1>1, BaseInvariant, PTL DEF Spec, BuffersOutliveGuest
-----------------------------------------------------------------------------
(* Before the guest runs no flag is set, so the thread cannot end before        *)
(* kthread_run's result is stored.                                            *)
ThreadInv ==
  /\ flagged => lpc \in {"loaded", "StopVirtualization", "m_bufferRelease", "absent"}
  /\ lpc \in BeforeThread => thread = "none"
  /\ lpc = "kthreadtask" => thread = "running"
  /\ TaskTracksThread

LEMMA ThreadInvStep ==
  ASSUME BaseInv, ThreadInv, [Next]_vars
  PROVE  ThreadInv'
<1> USE Successors DEF ThreadInv, loader, processor, sender, Goto, Report, Crash
<1>1. CASE Load
  BY <1>1 DEF Load, BeforeThread, TaskTracksThread
<1>2. CASE M_bufferInit
  BY <1>2 DEF M_bufferInit, TraceMemory, BeforeThread, TaskTracksThread
<1>3. CASE VideoInit
  BY <1>3 DEF VideoInit, BeforeThread, TaskTracksThread
<1>4. CASE OutBuf
  BY <1>4 DEF OutBuf, BeforeThread, TaskTracksThread
<1>5. CASE SendInitStep
  BY <1>5 DEF SendInitStep, SendInitFailed, BeforeThread, TaskTracksThread
<1>6. CASE KthreadRun
  BY <1>6 DEF KthreadRun, SendInitFailed, BeforeThread, TaskTracksThread
<1>7. CASE KthreadAssign
  BY <1>7 DEF KthreadAssign, BeforeThread, TaskTracksThread
<1>8. CASE CheckVTx
  BY <1>8 DEF CheckVTx, BeforeThread, TaskTracksThread
<1>9. CASE CheckVMXEnabled
  BY <1>9 DEF CheckVMXEnabled, BeforeThread, TaskTracksThread
<1>10. CASE AllocCpu
  BY <1>10 DEF AllocCpu, InitOrder, BeforeThread, TaskTracksThread
<1>11. CASE AllocRegion
  BY <1>11 DEF AllocRegion, Region, InitOrder, BeforeThread, TaskTracksThread
<1>12. CASE VmxOn
  BY <1>12 DEF VmxOn, InitOrder, BeforeThread, TaskTracksThread
<1>13. CASE VmClear
  BY <1>13 DEF VmClear, InitOrder, BeforeThread, TaskTracksThread
<1>14. CASE HostCr3Init
  BY <1>14 DEF HostCr3Init, InitOrder, BeforeThread, TaskTracksThread
<1>15. CASE VmLaunch
  BY <1>15 DEF VmLaunch, InitOrder, BeforeThread, TaskTracksThread
<1>16. CASE Unload
  BY <1>16 DEF Unload, BeforeThread, TaskTracksThread
<1>17. CASE StopVirtualization
  BY <1>17 DEF StopVirtualization, BeforeThread, TaskTracksThread
<1>18. CASE M_bufferRelease
  BY <1>18 DEF M_bufferRelease, BeforeThread, TaskTracksThread
<1>19. CASE GuestFillsBuffer
  BY <1>19 DEF GuestFillsBuffer, BaseInv, GuestInv, BeforeThread, TaskTracksThread
<1>20. CASE SendBuffer
  BY <1>20 DEF SendBuffer, BeforeThread, TaskTracksThread
<1>21. CASE SendFails
  BY <1>21 DEF SendFails, BeforeThread, TaskTracksThread
<1>22. CASE CompressFails
  BY <1>22 DEF CompressFails, BeforeThread, TaskTracksThread
<1>23. CASE ThreadWithoutModule
  BY <1>23 DEF ThreadWithoutModule, BeforeThread, TaskTracksThread
<1>24. CASE UNCHANGED vars
  BY <1>24 DEF vars, BeforeThread, TaskTracksThread
<1> QED BY <1>1, <1>2, <1>3, <1>4, <1>5, <1>6, <1>7, <1>8, <1>9, <1>10, <1>11, <1>12,
           <1>13, <1>14, <1>15, <1>16, <1>17, <1>18, <1>19, <1>20, <1>21, <1>22, <1>23,
           <1>24
        DEF Next, InitStep, SendInit, StartVirtualization, ExitStep

(* kthreadtask says whether the sender thread exists. *)
THEOREM TaskFollowsThread == Spec => []TaskTracksThread
<1>1. Init => ThreadInv
  BY DEF Init, ThreadInv, TaskTracksThread, BeforeThread
<1>2. BaseInv /\ ThreadInv /\ [Next]_vars => ThreadInv'
  BY ThreadInvStep
<1>3. ThreadInv => TaskTracksThread
  BY DEF ThreadInv
<1> QED BY <1>1, <1>2, <1>3, BaseInvariant, PTL DEF Spec
-----------------------------------------------------------------------------
(* What udp_send_init holds at each of its steps, and after it. *)
SocketInv ==
  /\ lpc \in {"m_bufferInit", "VideoInit", "out_buf", "sock"} => Sender \cap held = {}
  /\ lpc \in {"bind", "connect", "tinfo", "kthread_run"} => "sock" \in held
  /\ lpc = "kthread_run" => "tinfo" \in held
  /\ lpc \notin {"sock", "bind", "connect", "tinfo", "kthread_run"} =>
       \/ Sender \subseteq held /\ thread = "running"
       \/ Sender \cap held = {} /\ thread # "running"

LEMMA SocketInvStep ==
  ASSUME BaseInv, ThreadInv, SocketInv, [Next]_vars
  PROVE  SocketInv'
<1> USE Successors DEF SocketInv, loader, processor, sender, Goto, Report, Crash
<1>1. CASE Load
  BY <1>1 DEF Load, Sender
<1>2. CASE M_bufferInit
  BY <1>2 DEF M_bufferInit, TraceMemory, ThreadInv, BeforeThread, Sender
<1>3. CASE VideoInit
  BY <1>3 DEF VideoInit, ThreadInv, BeforeThread, Sender
<1>4. CASE OutBuf
  BY <1>4 DEF OutBuf, ThreadInv, BeforeThread, Sender
<1>5. CASE SendInitStep
  BY <1>5 DEF SendInitStep, SendInitFailed, ThreadInv, BeforeThread, Sender
<1>6. CASE KthreadRun
  BY <1>6 DEF KthreadRun, SendInitFailed, ThreadInv, BeforeThread, Sender
<1>7. CASE KthreadAssign
  BY <1>7 DEF KthreadAssign, Sender
<1>8. CASE CheckVTx
  BY <1>8 DEF CheckVTx, Sender
<1>9. CASE CheckVMXEnabled
  BY <1>9 DEF CheckVMXEnabled, Sender
<1>10. CASE AllocCpu
  BY <1>10 DEF AllocCpu, InitOrder, Sender
<1>11. CASE AllocRegion
  BY <1>11 DEF AllocRegion, Region, InitOrder, Sender
<1>12. CASE VmxOn
  BY <1>12 DEF VmxOn, InitOrder, Sender
<1>13. CASE VmClear
  BY <1>13 DEF VmClear, InitOrder, Sender
<1>14. CASE HostCr3Init
  BY <1>14 DEF HostCr3Init, InitOrder, Sender
<1>15. CASE VmLaunch
  BY <1>15 DEF VmLaunch, InitOrder, Sender
<1>16. CASE Unload
  BY <1>16 DEF Unload, Sender
<1>17. CASE StopVirtualization
  BY <1>17 DEF StopVirtualization, Sender
<1>18. CASE M_bufferRelease
  BY <1>18 DEF M_bufferRelease, TraceMemory, Sender
<1>19. CASE GuestFillsBuffer
  BY <1>19 DEF GuestFillsBuffer, Sender
<1>20. CASE SendBuffer
  BY <1>20 DEF SendBuffer, Sender
<1>21. CASE SendFails
  BY <1>21 DEF SendFails, ThreadInv, BeforeThread, Sender
<1>22. CASE CompressFails
  BY <1>22 DEF CompressFails, Sender
<1>23. CASE ThreadWithoutModule
  BY <1>23 DEF ThreadWithoutModule, Sender
<1>24. CASE UNCHANGED vars
  BY <1>24 DEF vars, Sender
<1> QED BY <1>1, <1>2, <1>3, <1>4, <1>5, <1>6, <1>7, <1>8, <1>9, <1>10, <1>11, <1>12,
           <1>13, <1>14, <1>15, <1>16, <1>17, <1>18, <1>19, <1>20, <1>21, <1>22, <1>23,
           <1>24
        DEF Next, InitStep, SendInit, StartVirtualization, ExitStep

(* Socket and tinfo live as long as the thread, whichever step failed. *)
THEOREM SocketWithThread == Spec => []SocketFollowsThread
<1>1. Init => ThreadInv /\ SocketInv
  BY DEF Init, ThreadInv, TaskTracksThread, BeforeThread, SocketInv
<1>2. BaseInv /\ ThreadInv /\ SocketInv /\ [Next]_vars => ThreadInv' /\ SocketInv'
  BY ThreadInvStep, SocketInvStep
<1>3. SocketInv => SocketFollowsThread
  BY DEF SocketInv, SocketFollowsThread
<1> QED BY <1>1, <1>2, <1>3, BaseInvariant, PTL DEF Spec
-----------------------------------------------------------------------------
(* Every step of StartVirtualization has got what the steps before it get. *)
RegionInv ==
  /\ \A s \in Needed : lpc \in Starting /\ Rank[s] < Rank[lpc] => s \in held
  /\ vmx = "guest" => Needed \subseteq held

(* Five ways a step can keep it. *)
LEMMA RegionKept ==
  ASSUME BaseInv, RegionInv
  PROVE  \/ lpc' \notin Starting /\ vmx' # "guest"
         \/ /\ held \subseteq held' \cup Sender
            /\ (lpc' = lpc \/ lpc' \notin Starting)
            /\ (vmx' = "guest" => vmx = "guest")
         \/ /\ lpc \in Starting \ {"VmLaunch"} /\ lpc' = InitOrder[lpc]
            /\ held \subseteq held' /\ (lpc \in Needed => lpc \in held')
            /\ vmx' # "guest"
         \/ lpc' = "GUEST_CPU" /\ vmx' # "guest"
         \/ lpc = "VmLaunch" /\ held' = held /\ lpc' = "loaded"
         => RegionInv'
<1>1. Needed \subseteq Starting \ {"VmLaunch"} /\ Needed \cap Sender = {}
  BY DEF Needed, Region, Starting, Rank, Sender
<1>2. CASE lpc' \notin Starting /\ vmx' # "guest"
  BY <1>2 DEF RegionInv
<1>3. CASE /\ held \subseteq held' \cup Sender
           /\ lpc' = lpc \/ lpc' \notin Starting
           /\ vmx' = "guest" => vmx = "guest"
  BY <1>1, <1>3 DEF RegionInv
<1>4. CASE /\ lpc \in Starting \ {"VmLaunch"} /\ lpc' = InitOrder[lpc]
           /\ held \subseteq held' /\ (lpc \in Needed => lpc \in held')
           /\ vmx' # "guest"
  <2>1. Rank[lpc'] = Rank[lpc] + 1
    BY <1>4, RankOfNext
  <2>2. ASSUME NEW s \in Needed, Rank[s] < Rank[lpc']
        PROVE  s \in held'
    <3>1. Rank[s] < Rank[lpc] \/ Rank[s] = Rank[lpc]
      BY <1>1, <1>4, <2>1, <2>2, RankIsNat
    <3>2. Rank[s] = Rank[lpc] => s = lpc
      BY <1>1, <1>4, RankInjective
    <3> QED BY <1>4, <3>1, <3>2 DEF RegionInv
  <2> QED BY <1>4, <2>2 DEF RegionInv
<1>5. CASE lpc' = "GUEST_CPU" /\ vmx' # "guest"
  <2>1. Rank[lpc'] = 1
    BY <1>5 DEF Rank
  <2>2. \A s \in Needed : ~(Rank[s] < 1)
    BY <1>1, RankIsNat
  <2> QED BY <1>5, <2>1, <2>2 DEF RegionInv
<1>6. CASE lpc = "VmLaunch" /\ held' = held /\ lpc' = "loaded"
  <2>1. lpc \in Starting /\ Rank[lpc] = 14 /\ lpc' \notin Starting
    BY <1>6 DEF Starting, Rank
  <2>2. \A s \in Needed : Rank[s] < 14
    <3>1. \A s \in Needed : Rank[s] \in 1..14 /\ Rank[s] # 14
      BY <1>1, RankIsNat, RankInjective DEF Starting, Rank
    <3> QED BY <3>1
  <2> QED BY <1>6, <2>1, <2>2 DEF RegionInv
<1> QED BY <1>2, <1>3, <1>4, <1>5, <1>6

LEMMA RegionInvStep ==
  ASSUME BaseInv, RegionInv, [Next]_vars
  PROVE  RegionInv'
<1> USE Successors DEF RegionInv, loader, processor, sender, Goto, Report, Crash
<1>1. CASE Load
  <2>1. lpc' \notin Starting /\ vmx' # "guest"
    BY <1>1 DEF Load, BaseInv, GuestInv, Starting, Rank
  <2> QED BY <2>1, RegionKept
<1>2. CASE M_bufferInit
  <2>1. lpc' \notin Starting /\ vmx' # "guest"
    BY <1>2 DEF M_bufferInit, TraceMemory, BaseInv, GuestInv, Starting, Rank
  <2> QED BY <2>1, RegionKept
<1>3. CASE VideoInit
  <2>1. CASE Crash(lpc)
    <3>1. /\ held \subseteq held' \cup Sender /\ (lpc' = lpc \/ lpc' \notin Starting)
          /\ vmx' = "guest" => vmx = "guest"
      BY <1>3, <2>1
    <3> QED BY <3>1, RegionKept
  <2>2. CASE ~Crash(lpc)
    <3>1. lpc' \notin Starting /\ vmx' # "guest"
      BY <1>3, <2>2 DEF VideoInit, BaseInv, GuestInv, Starting, Rank
    <3> QED BY <3>1, RegionKept
  <2> QED BY <2>1, <2>2
<1>4. CASE OutBuf
  <2>1. CASE Crash(lpc)
    <3>1. /\ held \subseteq held' \cup Sender /\ (lpc' = lpc \/ lpc' \notin Starting)
          /\ vmx' = "guest" => vmx = "guest"
      BY <1>4, <2>1
    <3> QED BY <3>1, RegionKept
  <2>2. CASE ~Crash(lpc)
    <3>1. lpc' \notin Starting /\ vmx' # "guest"
      BY <1>4, <2>2 DEF OutBuf, BaseInv, GuestInv, Starting, Rank
    <3> QED BY <3>1, RegionKept
  <2> QED BY <2>1, <2>2
<1>5. CASE SendInitStep
  <2>1. lpc' \notin Starting /\ vmx' # "guest"
    BY <1>5 DEF SendInitStep, SendInitFailed, BaseInv, GuestInv, Starting, Rank
  <2> QED BY <2>1, RegionKept
<1>6. CASE KthreadRun
  <2>1. lpc' \notin Starting /\ vmx' # "guest"
    BY <1>6 DEF KthreadRun, SendInitFailed, BaseInv, GuestInv, Starting, Rank
  <2> QED BY <2>1, RegionKept
<1>7. CASE KthreadAssign
  <2>1. lpc' \notin Starting /\ vmx' # "guest"
    BY <1>7 DEF KthreadAssign, BaseInv, GuestInv, Starting, Rank
  <2> QED BY <2>1, RegionKept
<1>8. CASE CheckVTx
  <2>1. lpc' \notin Starting /\ vmx' # "guest"
    BY <1>8 DEF CheckVTx, BaseInv, GuestInv, Starting, Rank
  <2> QED BY <2>1, RegionKept
<1>9. CASE CheckVMXEnabled
  <2>1. CASE Crash(lpc)
    <3>1. /\ held \subseteq held' \cup Sender /\ (lpc' = lpc \/ lpc' \notin Starting)
          /\ vmx' = "guest" => vmx = "guest"
      BY <1>9, <2>1
    <3> QED BY <3>1, RegionKept
  <2>2. CASE lpc' = "GUEST_CPU"
    <3>1. lpc' = "GUEST_CPU" /\ vmx' # "guest"
      BY <1>9, <2>2 DEF CheckVMXEnabled, BaseInv, GuestInv
    <3> QED BY <3>1, RegionKept
  <2>3. CASE ~Crash(lpc) /\ lpc' # "GUEST_CPU"
    <3>1. lpc' \notin Starting /\ vmx' # "guest"
      BY <1>9, <2>3 DEF CheckVMXEnabled, BaseInv, GuestInv, Starting, Rank
    <3> QED BY <3>1, RegionKept
  <2> QED BY <2>1, <2>2, <2>3
<1>10. CASE AllocCpu
  <2>1. CASE Crash(lpc)
    <3>1. /\ held \subseteq held' \cup Sender /\ (lpc' = lpc \/ lpc' \notin Starting)
          /\ vmx' = "guest" => vmx = "guest"
      BY <1>10, <2>1
    <3> QED BY <3>1, RegionKept
  <2>2. CASE ~Crash(lpc)
    <3>1. /\ lpc \in Starting \ {"VmLaunch"} /\ lpc' = InitOrder[lpc]
          /\ held \subseteq held' /\ (lpc \in Needed => lpc \in held')
          /\ vmx' # "guest"
      BY <1>10, <2>2 DEF AllocCpu, BaseInv, GuestInv, Starting, Rank, Needed, Region
    <3> QED BY <3>1, RegionKept
  <2> QED BY <2>1, <2>2
<1>11. CASE AllocRegion
  <2>1. CASE lpc' = "loaded"
    <3>1. lpc' \notin Starting /\ vmx' # "guest"
      BY <1>11, <2>1 DEF AllocRegion, Region, BaseInv, GuestInv, Starting, Rank
    <3> QED BY <3>1, RegionKept
  <2>2. CASE lpc' # "loaded"
    <3>1. /\ lpc \in Starting \ {"VmLaunch"} /\ lpc' = InitOrder[lpc]
          /\ held \subseteq held' /\ (lpc \in Needed => lpc \in held')
          /\ vmx' # "guest"
      BY <1>11, <2>2 DEF AllocRegion, Region, BaseInv, GuestInv, Starting, Rank, Needed
    <3> QED BY <3>1, RegionKept
  <2> QED BY <2>1, <2>2
<1>12. CASE VmxOn
  <2>1. CASE Crash(lpc)
    <3>1. /\ held \subseteq held' \cup Sender /\ (lpc' = lpc \/ lpc' \notin Starting)
          /\ vmx' = "guest" => vmx = "guest"
      BY <1>12, <2>1
    <3> QED BY <3>1, RegionKept
  <2>2. CASE lpc' = "loaded"
    <3>1. lpc' \notin Starting /\ vmx' # "guest"
      BY <1>12, <2>2 DEF VmxOn, BaseInv, GuestInv, Starting, Rank
    <3> QED BY <3>1, RegionKept
  <2>3. CASE ~Crash(lpc) /\ lpc' # "loaded"
    <3>1. /\ lpc \in Starting \ {"VmLaunch"} /\ lpc' = InitOrder[lpc]
          /\ held \subseteq held' /\ (lpc \in Needed => lpc \in held')
          /\ vmx' # "guest"
      BY <1>12, <2>3 DEF VmxOn, BaseInv, GuestInv, Starting, Rank, Needed, Region
    <3> QED BY <3>1, RegionKept
  <2> QED BY <2>1, <2>2, <2>3
<1>13. CASE VmClear
  <2>1. CASE lpc' = "loaded"
    <3>1. lpc' \notin Starting /\ vmx' # "guest"
      BY <1>13, <2>1 DEF VmClear, BaseInv, GuestInv, Starting, Rank
    <3> QED BY <3>1, RegionKept
  <2>2. CASE lpc' # "loaded"
    <3>1. /\ lpc \in Starting \ {"VmLaunch"} /\ lpc' = InitOrder[lpc]
          /\ held \subseteq held' /\ (lpc \in Needed => lpc \in held')
          /\ vmx' # "guest"
      BY <1>13, <2>2 DEF VmClear, BaseInv, GuestInv, Starting, Rank, Needed, Region
    <3> QED BY <3>1, RegionKept
  <2> QED BY <2>1, <2>2
<1>14. CASE HostCr3Init
  <2>1. CASE Crash(lpc)
    <3>1. /\ held \subseteq held' \cup Sender /\ (lpc' = lpc \/ lpc' \notin Starting)
          /\ vmx' = "guest" => vmx = "guest"
      BY <1>14, <2>1
    <3> QED BY <3>1, RegionKept
  <2>2. CASE ~Crash(lpc)
    <3>1. /\ lpc \in Starting \ {"VmLaunch"} /\ lpc' = InitOrder[lpc]
          /\ held \subseteq held' /\ (lpc \in Needed => lpc \in held')
          /\ vmx' # "guest"
      BY <1>14, <2>2 DEF HostCr3Init, BaseInv, GuestInv, Starting, Rank, Needed, Region
    <3> QED BY <3>1, RegionKept
  <2> QED BY <2>1, <2>2
<1>15. CASE VmLaunch
  <2>1. lpc = "VmLaunch" /\ held' = held /\ lpc' = "loaded"
    BY <1>15 DEF VmLaunch
  <2> QED BY <2>1, RegionKept
<1>16. CASE Unload
  <2>1. /\ held \subseteq held' \cup Sender /\ (lpc' = lpc \/ lpc' \notin Starting)
        /\ vmx' = "guest" => vmx = "guest"
    BY <1>16 DEF Unload, Starting, Rank, Sender
  <2> QED BY <2>1, RegionKept
<1>17. CASE StopVirtualization
  <2>1. /\ held \subseteq held' \cup Sender /\ (lpc' = lpc \/ lpc' \notin Starting)
        /\ vmx' = "guest" => vmx = "guest"
    BY <1>17 DEF StopVirtualization, Starting, Rank, Sender
  <2> QED BY <2>1, RegionKept
<1>18. CASE M_bufferRelease
  <2>1. lpc' \notin Starting /\ vmx' # "guest"
    BY <1>18 DEF M_bufferRelease, BaseInv, GuestInv, Starting, Rank
  <2> QED BY <2>1, RegionKept
<1>19. CASE GuestFillsBuffer
  <2>1. /\ held \subseteq held' \cup Sender /\ (lpc' = lpc \/ lpc' \notin Starting)
        /\ vmx' = "guest" => vmx = "guest"
    BY <1>19 DEF GuestFillsBuffer, Starting, Rank, Sender
  <2> QED BY <2>1, RegionKept
<1>20. CASE SendBuffer
  <2>1. /\ held \subseteq held' \cup Sender /\ (lpc' = lpc \/ lpc' \notin Starting)
        /\ vmx' = "guest" => vmx = "guest"
    BY <1>20 DEF SendBuffer, Starting, Rank, Sender
  <2> QED BY <2>1, RegionKept
<1>21. CASE SendFails
  <2>1. /\ held \subseteq held' \cup Sender /\ (lpc' = lpc \/ lpc' \notin Starting)
        /\ vmx' = "guest" => vmx = "guest"
    BY <1>21 DEF SendFails, Starting, Rank, Sender
  <2> QED BY <2>1, RegionKept
<1>22. CASE CompressFails
  <2>1. /\ held \subseteq held' \cup Sender /\ (lpc' = lpc \/ lpc' \notin Starting)
        /\ vmx' = "guest" => vmx = "guest"
    BY <1>22 DEF CompressFails, Starting, Rank, Sender
  <2> QED BY <2>1, RegionKept
<1>23. CASE ThreadWithoutModule
  <2>1. /\ held \subseteq held' \cup Sender /\ (lpc' = lpc \/ lpc' \notin Starting)
        /\ vmx' = "guest" => vmx = "guest"
    BY <1>23 DEF ThreadWithoutModule, Starting, Rank, Sender
  <2> QED BY <2>1, RegionKept
<1>24. CASE UNCHANGED vars
  BY <1>24 DEF vars, Needed
<1> QED BY <1>1, <1>2, <1>3, <1>4, <1>5, <1>6, <1>7, <1>8, <1>9, <1>10, <1>11, <1>12,
           <1>13, <1>14, <1>15, <1>16, <1>17, <1>18, <1>19, <1>20, <1>21, <1>22, <1>23,
           <1>24
        DEF Next, InitStep, SendInit, StartVirtualization, ExitStep

(* The guest runs only with every region allocated, whichever step failed. *)
THEOREM GuestHasEverything == Spec => []LaunchedWithEverything
<1>1. Init => RegionInv
  BY DEF Init, RegionInv, Starting, Rank
<1>2. BaseInv /\ RegionInv /\ [Next]_vars => RegionInv'
  BY RegionInvStep
<1>3. RegionInv => LaunchedWithEverything
  BY DEF RegionInv, LaunchedWithEverything, Needed
<1> QED BY <1>1, <1>2, <1>3, BaseInvariant, PTL DEF Spec
-----------------------------------------------------------------------------
(* What the checks before StartVirtualization have established. *)
CheckInv ==
  /\ lpc \in Starting \cup {"VMXEnabled"} => cpu.vtx
  /\ lpc \in Starting => cpu.enabled
  /\ CheckedStepsSurvive

LEMMA CheckInvStep ==
  ASSUME BaseInv, CheckInv, [Next]_vars
  PROVE  CheckInv'
<1> USE Successors DEF CheckInv, loader, processor, sender, Goto, Report, Crash
<1>1. CASE Load
  BY <1>1 DEF Load, CheckedStepsSurvive, Starting, Rank
<1>2. CASE M_bufferInit
  BY <1>2 DEF M_bufferInit, TraceMemory, CheckedStepsSurvive, Starting, Rank
<1>3. CASE VideoInit
  BY <1>3 DEF VideoInit, CheckedStepsSurvive, Starting, Rank
<1>4. CASE OutBuf
  BY <1>4 DEF OutBuf, CheckedStepsSurvive, Starting, Rank
<1>5. CASE SendInitStep
  BY <1>5 DEF SendInitStep, SendInitFailed, CheckedStepsSurvive, Starting, Rank
<1>6. CASE KthreadRun
  BY <1>6 DEF KthreadRun, SendInitFailed, CheckedStepsSurvive, Starting, Rank
<1>7. CASE KthreadAssign
  BY <1>7 DEF KthreadAssign, CheckedStepsSurvive, Starting, Rank
<1>8. CASE CheckVTx
  BY <1>8 DEF CheckVTx, CheckedStepsSurvive, Starting, Rank
<1>9. CASE CheckVMXEnabled
  BY <1>9 DEF CheckVMXEnabled, CheckedStepsSurvive, Starting, Rank
<1>10. CASE AllocCpu
  BY <1>10 DEF AllocCpu, InitOrder, CheckedStepsSurvive, Starting, Rank
<1>11. CASE AllocRegion
  BY <1>11 DEF AllocRegion, Region, InitOrder, CheckedStepsSurvive, Starting, Rank
<1>12. CASE VmxOn
  BY <1>12 DEF VmxOn, InitOrder, CheckedStepsSurvive, Starting, Rank
<1>13. CASE VmClear
  BY <1>13 DEF VmClear, InitOrder, CheckedStepsSurvive, Starting, Rank
<1>14. CASE HostCr3Init
  BY <1>14 DEF HostCr3Init, InitOrder, CheckedStepsSurvive, Starting, Rank
<1>15. CASE crash = "none" /\ VmLaunch
  BY <1>15 DEF VmLaunch, InitOrder, CheckedStepsSurvive, Starting, Rank
<1>16. CASE Unload
  BY <1>16 DEF Unload, CheckedStepsSurvive, Starting, Rank
<1>17. CASE StopVirtualization
  BY <1>17 DEF StopVirtualization, BaseInv, GuestInv, CheckedStepsSurvive, Starting, Rank
<1>18. CASE M_bufferRelease
  BY <1>18 DEF M_bufferRelease, CheckedStepsSurvive, Starting, Rank
<1>19. CASE GuestFillsBuffer
  BY <1>19 DEF GuestFillsBuffer, CheckedStepsSurvive, Starting, Rank
<1>20. CASE SendBuffer
  BY <1>20 DEF SendBuffer, CheckedStepsSurvive, Starting, Rank
<1>21. CASE SendFails
  BY <1>21 DEF SendFails, CheckedStepsSurvive, Starting, Rank
<1>22. CASE CompressFails
  BY <1>22 DEF CompressFails, CheckedStepsSurvive, Starting, Rank
<1>23. CASE ThreadWithoutModule
  BY <1>23 DEF ThreadWithoutModule, CheckedStepsSurvive, Starting, Rank
<1>24. CASE UNCHANGED vars
  BY <1>24 DEF vars, CheckedStepsSurvive, Starting, Rank
<1> QED BY <1>1, <1>2, <1>3, <1>4, <1>5, <1>6, <1>7, <1>8, <1>9, <1>10, <1>11, <1>12,
           <1>13, <1>14, <1>15, <1>16, <1>17, <1>18, <1>19, <1>20, <1>21, <1>22, <1>23,
           <1>24
        DEF Next, InitStep, SendInit, StartVirtualization, ExitStep

(* No step whose failure is checked for brings the machine down. *)
THEOREM OnlyUncheckedStepsCrash == Spec => []CheckedStepsSurvive
<1>1. Init => CheckInv
  BY DEF Init, CheckInv, CheckedStepsSurvive, Starting, Rank
<1>2. BaseInv /\ CheckInv /\ [Next]_vars => CheckInv'
  BY CheckInvStep
<1>3. CheckInv => CheckedStepsSurvive
  BY DEF CheckInv
<1> QED BY <1>1, <1>2, <1>3, BaseInvariant, PTL DEF Spec
-----------------------------------------------------------------------------
(* The steps of a load, counted. *)
Stage ==
  [m_bufferInit |-> 1, VideoInit |-> 2, out_buf |-> 3, sock |-> 4, bind |-> 5, connect |-> 6,
   tinfo |-> 7, kthread_run |-> 8, kthreadtask |-> 9, VTx |-> 10, VMXEnabled |-> 11,
   GUEST_CPU |-> 12, VMXON_va |-> 13, VmxOn |-> 14, VMCS_va |-> 15, IO_Bitmap_A |-> 16,
   IO_Bitmap_B |-> 17, MSR_bitmap |-> 18, Host_Stack |-> 19, VMMIDT |-> 20, LocalAPIC |-> 21,
   IOAPIC |-> 22, VmClear |-> 23, HostPDE_va |-> 24, VmLaunch |-> 25, loaded |-> 26]

LEMMA StageOfNext ==
  \A s \in DOMAIN InitOrder :
    /\ Stage[s] \in 1..25
    /\ Stage[InitOrder[s]] = Stage[s] + 1
    /\ Stage["loaded"] > Stage[s]
BY DEF InitOrder, Stage

(* While the module is loaded only the loader moves lpc.                      *)
LEMMA OthersKeepStep ==
  ASSUME Next, Loading, ~InitStep
  PROVE  lpc' = lpc
<1>1. ~Load /\ ~Unload /\ ~ExitStep
  BY DEF Loading, InitOrder, Load, Unload, ExitStep, StopVirtualization, M_bufferRelease
<1>2. CASE GuestFillsBuffer \/ SendBuffer \/ SendFails \/ CompressFails \/ ThreadWithoutModule
  BY <1>2 DEF GuestFillsBuffer, SendBuffer, SendFails, CompressFails, ThreadWithoutModule, Crash,
              loader
<1> QED BY <1>1, <1>2 DEF Next

(* A step of the loader goes on to a later step, whether it succeeds or fails. *)
LEMMA LoaderAdvances ==
  ASSUME Loading, InitStep, crash' = "none"
  PROVE  Stage[lpc'] > Stage[lpc]
<1>1. lpc # "none" /\ lpc \in DOMAIN InitOrder
  BY DEF Loading, InitOrder
<1>2. SUFFICES \/ lpc' \in {InitOrder[lpc], "loaded"}
               \/ Stage[lpc] < 9 /\ lpc' = InitOrder["kthreadtask"]
  BY <1>1, StageOfNext DEF InitOrder, Stage
<1>3. CASE M_bufferInit \/ VideoInit
  BY <1>1, <1>3 DEF M_bufferInit, VideoInit, Goto, Crash
<1>4. CASE OutBuf \/ KthreadAssign
  BY <1>1, <1>4 DEF OutBuf, KthreadAssign, Goto, Crash
<1>5. CASE SendInitStep \/ KthreadRun
  BY <1>1, <1>5 DEF SendInitStep, KthreadRun, SendInitFailed, Goto, Stage
<1>6. CASE CheckVTx \/ CheckVMXEnabled
  BY <1>1, <1>6 DEF CheckVTx, CheckVMXEnabled, Goto, Report, Crash
<1>7. CASE AllocCpu \/ AllocRegion \/ HostCr3Init
  BY <1>1, <1>7 DEF AllocCpu, AllocRegion, HostCr3Init, Goto, Report, Crash
<1>8. CASE VmxOn \/ VmClear \/ VmLaunch
  BY <1>1, <1>8 DEF VmxOn, VmClear, VmLaunch, Goto, Report, Crash
<1> QED BY <1>3, <1>4, <1>5, <1>6, <1>7, <1>8 DEF InitStep, SendInit, StartVirtualization

(* A load never goes back: each step of the loader, the error paths of        *)
(* udp_send_init and SetupVMX included, is counted higher than the one before, *)
(* and sender thread and guest leave the loader where it is.  So a load that   *)
(* is not brought down has ended after 25 steps at the latest.                *)
GoesForward ==
  Loading /\ crash' = "none" =>
    IF InitStep THEN Stage[lpc'] > Stage[lpc] ELSE lpc' = lpc

THEOREM LoadGoesForward == Spec => [][GoesForward]_vars
<1>1. Next => GoesForward
  BY LoaderAdvances, OthersKeepStep DEF GoesForward
<1> QED BY <1>1, PTL DEF Spec
=============================================================================
