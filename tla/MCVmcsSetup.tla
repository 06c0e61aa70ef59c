----------------------------- MODULE MCVmcsSetup -----------------------------
(* Values for the constants of VmcsSetup: a GDT like the kernel's, and the    *)
(* selectors a process may have left in its registers when it loads a module. *)
EXTENDS VmcsSetup

(* A descriptor by its parts, each the set of its bits that are one. *)
Descriptor(b, lim, access, flags) ==
  {i + 16 : i \in b \cap 0..23} \cup {i + 32 : i \in b \cap 24..31}
    \cup (lim \cap 0..15) \cup {i + 32 : i \in lim \cap 16..19}
    \cup {i + 40 : i \in access} \cup {i + 52 : i \in flags}

Flat == 0..19
PageGranular == {2, 3}    \* D/B and G

MCGDT ==
  [i \in 0..6 |->
     CASE i = 0 -> {}
       [] i = 1 -> Descriptor({}, Flat, {0, 1, 3, 4, 7}, PageGranular)               \* kernel code
       [] i = 2 -> Descriptor({}, Flat, {0, 1, 4, 7}, PageGranular)                  \* kernel data
       [] i = 3 -> Descriptor({}, Flat, {0, 1, 4, 5, 6, 7}, PageGranular)            \* user data
       [] i = 4 -> Descriptor({30, 29, 23, 20, 15, 12}, {1, 5, 6, 13}, {0, 1, 3, 7}, {})  \* TSS
       [] i = 5 -> Descriptor({31, 22, 16, 9}, {4, 17}, {0, 1, 4, 5, 6, 7}, PageGranular)  \* TLS
       [] i = 6 -> Descriptor({31, 28, 17, 3}, {0, 1, 2, 16}, {1, 7}, {})]           \* LDT

Sel(i, local, level) == [index |-> i, ti |-> local, rpl |-> level]

DataSelectors == {Null, Sel(0, FALSE, 3), Sel(2, FALSE, 0), Sel(3, FALSE, 3), Sel(5, FALSE, 3),
                  Sel(0, TRUE, 3), Sel(1, TRUE, 3)}

MCLoaded ==
  {[r \in Regs |-> CASE r = "CS" -> Sel(1, FALSE, 0) [] r = "SS" -> Sel(2, FALSE, 0)
                     [] r = "TR" -> Sel(4, FALSE, 0) [] r = "LDTR" -> l
                     [] r = "FS" -> f [] r = "GS" -> g [] OTHER -> d] :
     l \in {Null, Sel(6, FALSE, 0)}, f \in DataSelectors, g \in DataSelectors,
     d \in DataSelectors}

(* One processor with every control, one without the MSR bitmap, one without  *)
(* ACK_INTR_ON_EXIT; some controls must be one on each.                       *)
MCCapabilities ==
  {[k \in Controls |-> CASE k = "pin" -> [low |-> {1, 2, 4}, high |-> 0..5]
                         [] k = "cpu" -> [low |-> {1, 4, 15, 16}, high |-> h]
                         [] k = "exit" -> [low |-> {0, 1}, high |-> x]
                         [] OTHER -> [low |-> {0}, high |-> {0, 9}]] :
     h \in {0..31, 0..27}, x \in {0..15, 0..14}}
=============================================================================
