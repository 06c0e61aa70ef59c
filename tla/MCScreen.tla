------------------------------ MODULE MCScreen ------------------------------
(* Values for the constants of Screen: characters of 2 by 2 pixels, a text    *)
(* area of 4 by 3 characters, and three screens: one with margins and padded  *)
(* lines, one that just fits, one that is too small.                         *)
EXTENDS Screen

MCModes == {[xres |-> 10, yres |-> 7, line_length |-> 48],
            [xres |-> 8, yres |-> 6, line_length |-> 32],
            [xres |-> 6, yres |-> 4, line_length |-> 24]}
MCPrinters == {"handler", "thread"}
MCRowsOf == [p \in MCPrinters |-> IF p = "handler" THEN {0} ELSE {1}]
=============================================================================
