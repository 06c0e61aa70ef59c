--------------------------- MODULE MCTraceBuffers ---------------------------
(* Small instances of TraceBuffers. *)
EXTENDS TraceBuffers

Form(b, k) == [byte |-> b, kind |-> k]

(* A CALL and a RET; and with them a branch the handler ignores.           *)
CallRetForms == {Form("E8", "call"), Form("C3", "ret")}
BasicForms == CallRetForms \cup {Form("E9", "other")}

(* 0xFF opens an indirect CALL (/2) and an indirect JMP (/4) alike. *)
IndirectForms == {Form("FF", "call"), Form("FF", "other"), Form("C3", "ret")}

(* The flags in two words of their own, and as gcc -m32 -O2 -fno-common    *)
(* lays them out: m_buffer2_state one byte below m_buffer1_state.          *)
SeparateFlags == <<{1}, {2}>>
AdjacentFlags == <<{1}, {1, 2}>>
=============================================================================
