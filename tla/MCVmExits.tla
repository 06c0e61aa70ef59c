----------------------------- MODULE MCVmExits -----------------------------
(* Values for the constants of VmExits: one slot in each half of a directory. *)
EXTENDS VmExits, TLC

MCCr4Features == {"PGE"}
MCCr4Reserved == {"bit11"}
MCUserSlots == {0}
MCKernelSlots == {768}
MCFrames == {1, 2}
MCKernelTable == [k \in MCKernelSlots |-> 100 + k]

(* The processes within AttachProcess's reach are alike. *)
MCSymmetry == Permutations(Processes \ High)
=============================================================================
