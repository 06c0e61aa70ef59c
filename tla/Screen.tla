------------------------------- MODULE Screen -------------------------------
(***************************************************************************)
(* Progress messages on the frame buffer (video.c).  PrintStr is called by  *)
(* the exit handler, from many rows, and by the sender thread, for row 13.  *)
(* Neither waits for the other: on one processor the handler interrupts the *)
(* thread between two characters, on another it runs beside it.            *)
(***************************************************************************)
EXTENDS Integers, Sequences

CONSTANTS
  CHAR_WIDTH, CHAR_HEIGHT,  \* pixels of a character: 8 and 14
  GUI_Width, GUI_Height,    \* characters of the text area: 100 and 40
  Word,                     \* a ULONG counts modulo 2^32
  Modes,                    \* screens: [xres, yres, line_length], the last in bytes
  Printers,                 \* the handler and the thread
  RowsOf,                   \* RowsOf[p]: the rows printer p writes to
  Glyphs,                   \* characters of messages, the blank not among them
  MaxLength                 \* length of the longest message

Blank == "blank"
Old == "old"    \* what a pixel showed before VideoInit

ASSUME ScreenAssumption ==
  /\ {CHAR_WIDTH, CHAR_HEIGHT, GUI_Height, Word} \subseteq Nat \ {0}
  /\ GUI_Width \in Nat \ {0, 1} /\ GUI_Width < Word
  /\ MaxLength \in 0..(GUI_Width - 1)    \* 70 characters at most (vmm.c:31)
  /\ Modes \subseteq [xres : Nat, yres : Nat, line_length : Nat]
  /\ \A m \in Modes : m.yres * m.line_length <= Word    \* the frame buffer is mapped
  /\ \A p \in Printers : RowsOf[p] \subseteq 0..(GUI_Height - 1)
  /\ \A p, q \in Printers : p # q => RowsOf[p] \cap RowsOf[q] = {}
  /\ {Blank, Old} \cap Glyphs = {}

VARIABLES
  fbi,       \* the mode of registered_fb[0]
  StartX, StartY,
  fb,        \* fb[i]: which character painted pixel i of the frame buffer last
  strayed,   \* history: something outside the frame buffer was written
  job,       \* job[p]: where PrintStr is, for printer p
  last       \* history: last[r] is the message last begun in row r

vars == <<fbi, StartX, StartY, fb, strayed, job, last>>

Rows == UNION {RowsOf[p] : p \in Printers}
Messages == UNION {[1..n -> Glyphs] : n \in 0..MaxLength}
Idle == [busy |-> FALSE, x |-> 0, y |-> 0, rest |-> <<>>]

(* A screen of four bytes a pixel, whatever VideoBitPerPixel says. *)
Pixels(m) == 0..((m.yres * m.line_length) \div 4 - 1)

(* Mutation: the text area begins in the middle. *)
MarginHalf(size, used) == size \div 2

(* VideoInit: the text area is centred, in unsigned arithmetic. *)
Margin(size, used) == ((size - used) % Word) \div 2

VideoInit(m) ==
  /\ fbi = m
  /\ StartX = Margin(m.xres, GUI_Width * CHAR_WIDTH)
  /\ StartY = Margin(m.yres, GUI_Height * CHAR_HEIGHT)

Init ==
  /\ \E m \in Modes : VideoInit(m) /\ fb = [i \in Pixels(m) |-> Old]
  /\ strayed = FALSE
  /\ job = [p \in Printers |-> Idle]
  /\ last = [r \in Rows |-> <<>>]
-----------------------------------------------------------------------------
(* The pixels of character cell (x, y), by the address arithmetic of PrintChar. *)
Cell(x, y) ==
  {(((y * CHAR_HEIGHT + StartY) * fbi.line_length + (x * CHAR_WIDTH + StartX) * 4
      + cy * fbi.line_length + cx * 4) % Word) \div 4 :
      cx \in 0..(CHAR_WIDTH - 1), cy \in 0..(CHAR_HEIGHT - 1)}

Paint(cell, c) ==
  /\ fb' = [i \in DOMAIN fb |-> IF i \in cell THEN c ELSE fb[i]]
  /\ strayed' = (strayed \/ ~(cell \subseteq DOMAIN fb))

(* PrintChar, never transparent: every pixel of the cell is painted. *)
PrintChar(x, y, c) ==
  IF x >= GUI_Width \/ y >= GUI_Height
    THEN UNCHANGED <<fb, strayed>>
    ELSE Paint(Cell(x, y), c)

(* PrintStr(0, row, 7, 1, FALSE, s, TRUE) begins, always in the first column. *)
PrintStr(p, row, s) ==
  /\ ~job[p].busy
  /\ job' = [job EXCEPT ![p] = [busy |-> TRUE, x |-> 0, y |-> row, rest |-> s]]
  /\ last' = [last EXCEPT ![row] = s]
  /\ UNCHANGED <<fbi, StartX, StartY, fb, strayed>>

(* One round of its first loop: past the last column it goes on in column 1  *)
(* of the next row.                                                          *)
PrintNext(p) ==
  LET j == job[p]
      wrap == j.x + 1 >= GUI_Width
  IN  /\ j.busy /\ j.rest # <<>>
      /\ PrintChar(j.x, j.y, Head(j.rest))
      /\ job' = [job EXCEPT ![p].x = IF wrap THEN 1 ELSE j.x + 1,
                            ![p].y = IF wrap THEN j.y + 1 ELSE j.y,
                            ![p].rest = Tail(j.rest)]
      /\ UNCHANGED <<fbi, StartX, StartY, last>>

(* Mutations: the last column but one is left out; the loop asks for equality. *)
FilledEarly(x) == x + 2 >= GUI_Width - 1
FilledEqual(x) == x + 1 = GUI_Width - 1

Filled(x) == x + 1 >= GUI_Width - 1

(* One round of its second loop, which draws a blank before it looks whether *)
(* the row is full.                                                          *)
FillLine(p) ==
  LET j == job[p]
  IN  /\ j.busy /\ j.rest = <<>>
      /\ PrintChar(j.x, j.y, Blank)
      /\ job' = [job EXCEPT ![p] = IF Filled(j.x) THEN Idle
                                   ELSE [j EXCEPT !.x = (j.x + 1) % Word]]
      /\ UNCHANGED <<fbi, StartX, StartY, last>>

Step(p) == PrintNext(p) \/ FillLine(p)

Next ==
  \E p \in Printers :
    \/ \E row \in RowsOf[p], s \in Messages : PrintStr(p, row, s)
    \/ Step(p)

Spec == Init /\ [][Next]_vars
-----------------------------------------------------------------------------
(* Every variable keeps its type; a print has not left the row it was begun in. *)
TypeOK ==
  /\ fbi \in Modes
  /\ StartX \in 0..(Word - 1) /\ StartY \in 0..(Word - 1)
  /\ fb \in [Pixels(fbi) -> Glyphs \cup {Blank, Old}]
  /\ strayed \in BOOLEAN
  /\ \A p \in Printers : job[p] = Idle
                      \/ /\ job[p].busy /\ job[p].y \in RowsOf[p]
                         /\ job[p].x \in 0..(GUI_Width - 1)
                         /\ job[p].rest \in Messages
  /\ last \in [Rows -> Messages]

(* A screen that holds the text area: 800 by 560 pixels of four bytes. *)
Fits ==
  /\ fbi.xres >= GUI_Width * CHAR_WIDTH /\ fbi.yres >= GUI_Height * CHAR_HEIGHT
  /\ fbi.line_length >= fbi.xres * 4

(* On such a screen nothing but the frame buffer is written.  On a smaller one *)
(* VideoInit's subtractions go below zero, and PrintChar writes in front of it *)
(* (video.c:153-154).                                                          *)
WritesInFrame == Fits => ~strayed

(* What a row that no printer is at shows: the message, then blanks up to the *)
(* last column but one, whatever the messages before it were.                *)
Shown(s, x) == IF x < Len(s) THEN s[x + 1] ELSE Blank

(* Messages do not mix, and no rest of an earlier one remains, however the   *)
(* handler and the thread interleave; and no pixel outside the rows in use   *)
(* changes.  (For a message as long as the row this would not hold.)          *)
RowsShowLast ==
  Fits =>
    /\ \A r \in Rows :
         (\A p \in Printers : job[p].busy => job[p].y # r) =>
           \/ \A x \in 0..(GUI_Width - 1) : \A i \in Cell(x, r) : fb[i] = Old
           \/ \A x \in 0..(GUI_Width - 2) : \A i \in Cell(x, r) : fb[i] = Shown(last[r], x)
    /\ LET text == UNION {Cell(x, r) : x \in 0..(GUI_Width - 1), r \in Rows}
       IN  \A i \in DOMAIN fb \ text : fb[i] = Old
=============================================================================
