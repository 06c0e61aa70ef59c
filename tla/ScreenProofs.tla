---------------------------- MODULE ScreenProofs ----------------------------
(***************************************************************************)
(* Theorems about Screen, for every size of characters, text area and      *)
(* screens, every set of printers and every message shorter than a row.    *)
(***************************************************************************)
EXTENDS Screen, SequenceTheorems, TLAPS

(* The order of multiples. *)
LEMMA Multiples ==
  ASSUME NEW a \in Nat, NEW b \in Nat, NEW n \in Nat, a < b
  PROVE  a * n + n <= b * n
<1> DEFINE k == b - a - 1
<1>1. k \in Nat /\ b = a + 1 + k
  OBVIOUS
<1> HIDE DEF k
<1>2. k * n \in Nat
  BY <1>1
<1>3. b * n = a * n + n + k * n
  BY <1>1
<1>4. a * n \in Int /\ b * n \in Int
  BY <1>1
<1> QED
  BY <1>2, <1>3, <1>4

(* The pixel at column c of line r, as PrintChar computes it without overflow. *)
Pixel(r, c, bytes) == (r * bytes + c * 4) \div 4

LEMMA PixelOrder ==
  ASSUME NEW m \in Modes, m.line_length >= m.xres * 4,
         NEW r1 \in Nat, NEW r2 \in Nat, NEW c1 \in Nat, NEW c2 \in Nat,
         c1 < m.xres, c2 < m.xres,
         r1 < r2 \/ (r1 = r2 /\ c1 < c2)
  PROVE  Pixel(r1, c1, m.line_length) < Pixel(r2, c2, m.line_length)
<1> DEFINE b == m.line_length
           a1 == r1 * b
           a2 == r2 * b
<1>1. b \in Nat /\ m.xres \in Nat
  BY ScreenAssumption
<1>2. a1 \in Int /\ a2 \in Int
  BY <1>1
<1>3. r1 < r2 => a1 + b <= a2
  BY <1>1, Multiples
<1>4. r1 = r2 => a1 = a2
  OBVIOUS
<1> HIDE DEF a1, a2, b
<1>5. c1 * 4 + 4 <= b
  BY <1>1 DEF b
<1>6. a1 + c1 * 4 + 4 <= a2 + c2 * 4
  BY <1>1, <1>2, <1>3, <1>4, <1>5
<1>7. (a1 + c1 * 4) \div 4 < (a2 + c2 * 4) \div 4
  BY <1>2, <1>6
<1> QED
  BY <1>7 DEF Pixel, a1, a2, b

LEMMA PixelInFrame ==
  ASSUME NEW m \in Modes, m.line_length >= m.xres * 4,
         NEW r \in Nat, NEW c \in Nat, r < m.yres, c < m.xres
  PROVE  /\ r * m.line_length + c * 4 \in 0..(Word - 1)
         /\ Pixel(r, c, m.line_length) \in Pixels(m)
<1> DEFINE b == m.line_length
           a == r * b
           end == m.yres * b
<1>1. b \in Nat /\ m.xres \in Nat /\ m.yres \in Nat /\ Word \in Nat /\ end <= Word
  BY ScreenAssumption
<1>2. a \in Nat /\ end \in Nat
  BY <1>1
<1>3. a + b <= end
  BY <1>1, Multiples
<1> HIDE DEF a, end, b
<1>4. c * 4 + 4 <= b
  BY <1>1 DEF b
<1>5. a + c * 4 + 4 <= end
  BY <1>1, <1>2, <1>3, <1>4
<1>6. a + c * 4 \in 0..(Word - 1)
  BY <1>1, <1>2, <1>5
<1>7. (a + c * 4) \div 4 \in 0..(end \div 4 - 1)
  BY <1>2, <1>5
<1> QED
  BY <1>6, <1>7 DEF Pixel, Pixels, a, b, end
-----------------------------------------------------------------------------
(* VideoInit's margins never change. *)
Margins ==
  /\ StartX = Margin(fbi.xres, GUI_Width * CHAR_WIDTH)
  /\ StartY = Margin(fbi.yres, GUI_Height * CHAR_HEIGHT)

Columns == 0..(GUI_Width - 1)

LEMMA MarginFacts ==
  ASSUME NEW size \in Nat, NEW used \in Nat
  PROVE  /\ Margin(size, used) \in 0..(Word - 1)
         /\ size >= used => Margin(size, used) + used <= size
<1> DEFINE left == (size - used) % Word
<1>1. Word \in Nat \ {0}
  BY ScreenAssumption
<1>2. left \in 0..(Word - 1)
  BY <1>1
<1>3. size >= used => left <= size - used
  BY <1>1
<1> HIDE DEF left
<1>4. left \div 2 \in 0..(Word - 1)
  BY <1>1, <1>2
<1>5. size >= used => left \div 2 + used <= size
  BY <1>2, <1>3
<1> QED
  BY <1>4, <1>5 DEF Margin, left

LEMMA MarginTypes ==
  ASSUME fbi \in Modes, Margins
  PROVE  StartX \in 0..(Word - 1) /\ StartY \in 0..(Word - 1)
<1> DEFINE w == GUI_Width * CHAR_WIDTH
           h == GUI_Height * CHAR_HEIGHT
<1>1. /\ CHAR_WIDTH \in Nat /\ CHAR_HEIGHT \in Nat /\ GUI_Width \in Nat /\ GUI_Height \in Nat
      /\ fbi.xres \in Nat /\ fbi.yres \in Nat
  BY ScreenAssumption
<1>2. w \in Nat /\ h \in Nat
  BY <1>1
<1>3. StartX = Margin(fbi.xres, w) /\ StartY = Margin(fbi.yres, h)
  BY DEF Margins
<1> HIDE DEF w, h
<1> QED
  BY <1>1, <1>2, <1>3, MarginFacts

(* On a screen that holds the text area, the pixels of a cell are those of the *)
(* rectangle it stands for.                                                  *)
LineOf(y, cy) == y * CHAR_HEIGHT + StartY + cy
ColumnOf(x, cx) == x * CHAR_WIDTH + StartX + cx

LEMMA InRectangle ==
  ASSUME fbi \in Modes, Margins, Fits,
         NEW x \in Columns, NEW y \in 0..(GUI_Height - 1),
         NEW cx \in 0..(CHAR_WIDTH - 1), NEW cy \in 0..(CHAR_HEIGHT - 1)
  PROVE  /\ LineOf(y, cy) \in Nat /\ LineOf(y, cy) < fbi.yres
         /\ ColumnOf(x, cx) \in Nat /\ ColumnOf(x, cx) < fbi.xres
<1> DEFINE w == GUI_Width * CHAR_WIDTH
           h == GUI_Height * CHAR_HEIGHT
<1>1. /\ CHAR_WIDTH \in Nat /\ CHAR_HEIGHT \in Nat /\ GUI_Width \in Nat /\ GUI_Height \in Nat
      /\ Word \in Nat /\ fbi.xres \in Nat /\ fbi.yres \in Nat
  BY ScreenAssumption
<1>2. w \in Nat /\ h \in Nat
  BY <1>1
<1>3. x \in Nat /\ y \in Nat /\ x < GUI_Width /\ y < GUI_Height
  BY <1>1 DEF Columns
<1>4. x * CHAR_WIDTH + CHAR_WIDTH <= w /\ y * CHAR_HEIGHT + CHAR_HEIGHT <= h
  BY <1>1, <1>3, Multiples
<1>5. x * CHAR_WIDTH \in Nat /\ y * CHAR_HEIGHT \in Nat
  BY <1>1, <1>3
<1>6. /\ StartX \in Nat /\ StartX + w <= fbi.xres
      /\ StartY \in Nat /\ StartY + h <= fbi.yres
  <2>1. /\ StartX = Margin(fbi.xres, w) /\ StartY = Margin(fbi.yres, h)
        /\ fbi.xres >= w /\ fbi.yres >= h
    BY DEF Margins, Fits
  <2> HIDE DEF w, h
  <2>2. StartX \in 0..(Word - 1) /\ StartX + w <= fbi.xres
    BY <1>1, <1>2, <2>1, MarginFacts
  <2>3. StartY \in 0..(Word - 1) /\ StartY + h <= fbi.yres
    BY <1>1, <1>2, <2>1, MarginFacts
  <2> QED
    BY <1>1, <2>2, <2>3
<1> DEFINE p == x * CHAR_WIDTH
           q == y * CHAR_HEIGHT
<1> HIDE DEF w, h, p, q
<1>7. p \in Nat /\ q \in Nat /\ p + CHAR_WIDTH <= w /\ q + CHAR_HEIGHT <= h
  BY <1>4, <1>5 DEF p, q
<1>8. q + StartY + cy \in Nat /\ q + StartY + cy < fbi.yres
  BY <1>1, <1>2, <1>6, <1>7
<1>9. p + StartX + cx \in Nat /\ p + StartX + cx < fbi.xres
  BY <1>1, <1>2, <1>6, <1>7
<1> QED
  BY <1>8, <1>9 DEF LineOf, ColumnOf, p, q

LEMMA CellPixels ==
  ASSUME fbi \in Modes, Margins, Fits,
         NEW x \in Columns, NEW y \in 0..(GUI_Height - 1), NEW i \in Cell(x, y)
  PROVE  \E cx \in 0..(CHAR_WIDTH - 1), cy \in 0..(CHAR_HEIGHT - 1) :
           i = Pixel(LineOf(y, cy), ColumnOf(x, cx), fbi.line_length)
<1> DEFINE b == fbi.line_length
           at(cx, cy) == (y * CHAR_HEIGHT + StartY) * b + (x * CHAR_WIDTH + StartX) * 4
                           + cy * b + cx * 4
<1>1. PICK cx \in 0..(CHAR_WIDTH - 1), cy \in 0..(CHAR_HEIGHT - 1) :
        i = (at(cx, cy) % Word) \div 4
  BY DEF Cell
<1>2. /\ b \in Nat /\ Word \in Nat \ {0} /\ x \in Nat /\ y \in Nat
      /\ CHAR_WIDTH \in Nat /\ CHAR_HEIGHT \in Nat
      /\ cx \in Nat /\ cy \in Nat
  BY ScreenAssumption DEF Columns
<1>3. StartX \in Nat /\ StartY \in Nat
  BY <1>2, MarginTypes
<1>4. at(cx, cy) = LineOf(y, cy) * b + ColumnOf(x, cx) * 4
  <2> DEFINE p == x * CHAR_WIDTH + StartX
             q == y * CHAR_HEIGHT + StartY
  <2>1. p \in Int /\ q \in Int
    BY <1>2, <1>3
  <2> HIDE DEF p, q
  <2>2. q * b + p * 4 + cy * b + cx * 4 = (q + cy) * b + (p + cx) * 4
    BY <1>2, <2>1
  <2> QED
    BY <2>2 DEF p, q, LineOf, ColumnOf
<1>5. at(cx, cy) \in 0..(Word - 1)
  <2>1. /\ LineOf(y, cy) \in Nat /\ LineOf(y, cy) < fbi.yres
        /\ ColumnOf(x, cx) \in Nat /\ ColumnOf(x, cx) < fbi.xres
    BY InRectangle
  <2>2. fbi.line_length >= fbi.xres * 4
    BY DEF Fits
  <2>3. LineOf(y, cy) * b + ColumnOf(x, cx) * 4 \in 0..(Word - 1)
    BY <2>1, <2>2, PixelInFrame
  <2> QED
    BY <1>4, <2>3
<1> HIDE DEF at
<1>6. at(cx, cy) % Word = at(cx, cy)
  BY <1>2, <1>5
<1> QED
  BY <1>1, <1>4, <1>6 DEF Pixel

(* PrintChar paints inside the frame buffer, and no two cells share a pixel. *)
LEMMA CellInFrame ==
  ASSUME fbi \in Modes, Margins, Fits, NEW x \in Columns, NEW y \in 0..(GUI_Height - 1)
  PROVE  Cell(x, y) \subseteq Pixels(fbi)
<1> SUFFICES ASSUME NEW i \in Cell(x, y) PROVE i \in Pixels(fbi)
  OBVIOUS
<1>1. PICK cx \in 0..(CHAR_WIDTH - 1), cy \in 0..(CHAR_HEIGHT - 1) :
        i = Pixel(LineOf(y, cy), ColumnOf(x, cx), fbi.line_length)
  BY CellPixels
<1>2. /\ LineOf(y, cy) \in Nat /\ LineOf(y, cy) < fbi.yres
      /\ ColumnOf(x, cx) \in Nat /\ ColumnOf(x, cx) < fbi.xres
  BY InRectangle
<1>3. fbi.line_length >= fbi.xres * 4
  BY DEF Fits
<1> QED
  BY <1>1, <1>2, <1>3, PixelInFrame

LEMMA CellsDisjoint ==
  ASSUME fbi \in Modes, Margins, Fits,
         NEW x1 \in Columns, NEW y1 \in 0..(GUI_Height - 1),
         NEW x2 \in Columns, NEW y2 \in 0..(GUI_Height - 1),
         y1 < y2 \/ (y1 = y2 /\ x1 < x2)
  PROVE  Cell(x1, y1) \cap Cell(x2, y2) = {}
<1> SUFFICES ASSUME NEW i \in Cell(x1, y1), i \in Cell(x2, y2) PROVE FALSE
  OBVIOUS
<1>1. PICK cx1 \in 0..(CHAR_WIDTH - 1), cy1 \in 0..(CHAR_HEIGHT - 1) :
        i = Pixel(LineOf(y1, cy1), ColumnOf(x1, cx1), fbi.line_length)
  BY CellPixels
<1>2. PICK cx2 \in 0..(CHAR_WIDTH - 1), cy2 \in 0..(CHAR_HEIGHT - 1) :
        i = Pixel(LineOf(y2, cy2), ColumnOf(x2, cx2), fbi.line_length)
  BY CellPixels
<1> DEFINE r1 == LineOf(y1, cy1)  c1 == ColumnOf(x1, cx1)
           r2 == LineOf(y2, cy2)  c2 == ColumnOf(x2, cx2)
           b == fbi.line_length
<1>3. /\ r1 \in Nat /\ r1 < fbi.yres /\ c1 \in Nat /\ c1 < fbi.xres
      /\ r2 \in Nat /\ r2 < fbi.yres /\ c2 \in Nat /\ c2 < fbi.xres
  BY InRectangle
<1>4. /\ b \in Nat /\ fbi.xres \in Nat /\ b >= fbi.xres * 4
      /\ CHAR_WIDTH \in Nat /\ CHAR_HEIGHT \in Nat
      /\ x1 \in Nat /\ x2 \in Nat /\ y1 \in Nat /\ y2 \in Nat
  BY ScreenAssumption DEF Fits, Columns
<1>5. StartX \in Int /\ StartY \in Int
  BY MarginTypes
<1>6. y1 < y2 => r1 < r2
  <2> SUFFICES ASSUME y1 < y2 PROVE r1 < r2
    OBVIOUS
  <2> DEFINE p == y1 * CHAR_HEIGHT  q == y2 * CHAR_HEIGHT
  <2>1. p \in Int /\ q \in Int /\ p + CHAR_HEIGHT <= q
    BY <1>4, Multiples
  <2> HIDE DEF p, q
  <2>2. p + StartY + cy1 < q + StartY + cy2
    BY <1>4, <1>5, <2>1
  <2> QED
    BY <2>2 DEF p, q, LineOf
<1>7. x1 < x2 => c1 < c2
  <2> SUFFICES ASSUME x1 < x2 PROVE c1 < c2
    OBVIOUS
  <2> DEFINE p == x1 * CHAR_WIDTH  q == x2 * CHAR_WIDTH
  <2>1. p \in Int /\ q \in Int /\ p + CHAR_WIDTH <= q
    BY <1>4, Multiples
  <2> HIDE DEF p, q
  <2>2. p + StartX + cx1 < q + StartX + cx2
    BY <1>4, <1>5, <2>1
  <2> QED
    BY <2>2 DEF p, q, ColumnOf
<1> HIDE DEF r1, r2, c1, c2, b
<1>8. /\ r1 < r2 \/ (r1 = r2 /\ c1 < c2) => Pixel(r1, c1, b) < Pixel(r2, c2, b)
      /\ r2 < r1 => Pixel(r2, c2, b) < Pixel(r1, c1, b)
  BY <1>3, <1>4, PixelOrder DEF b
<1>9. Pixel(r1, c1, b) \in Int /\ Pixel(r1, c1, b) = Pixel(r2, c2, b)
  <2>1. Pixel(r1, c1, b) = Pixel(r2, c2, b)
    BY <1>1, <1>2 DEF r1, r2, c1, c2, b
  <2>2. r1 * b + c1 * 4 \in Int
    BY <1>3, <1>4
  <2> QED
    BY <2>1, <2>2 DEF Pixel
<1>10. ~(r1 < r2) /\ r1 \in Nat /\ r2 \in Nat /\ ~(r2 < r1)
  BY <1>3, <1>8, <1>9
<1>11. r1 = r2 /\ ~(c1 < c2)
  BY <1>8, <1>9, <1>10
<1> QED
  BY <1>4, <1>6, <1>7, <1>10, <1>11
-----------------------------------------------------------------------------
LEMMA MessageIsSeq ==
  \A m : m \in Messages <=> m \in Seq(Glyphs) /\ Len(m) <= MaxLength
<1>1. MaxLength \in Nat
  BY ScreenAssumption
<1>2. ASSUME NEW m, m \in Messages PROVE m \in Seq(Glyphs) /\ Len(m) <= MaxLength
  <2>1. PICK n \in 0..MaxLength : m \in [1..n -> Glyphs]
    BY <1>2 DEF Messages
  <2>2. m \in Seq(Glyphs)
    BY <1>1, <2>1, SeqDef
  <2>3. Len(m) = n
    BY <1>1, <2>1, <2>2, LenProperties
  <2> QED
    BY <1>1, <2>2, <2>3
<1>3. ASSUME NEW m \in Seq(Glyphs), Len(m) <= MaxLength PROVE m \in Messages
  <2>1. Len(m) \in 0..MaxLength /\ m \in [1..Len(m) -> Glyphs]
    BY <1>1, <1>3, LenProperties
  <2> QED
    BY <2>1 DEF Messages
<1> QED
  BY <1>2, <1>3

(* A print keeps to its row: what is left of the message ends before the last *)
(* column does, so PrintNext never goes on in the next row.                  *)
Jobs == [busy : BOOLEAN, x : Columns, y : Nat, rest : Messages]

PrintInv ==
  /\ fbi \in Modes /\ Margins
  /\ fb \in [Pixels(fbi) -> Glyphs \cup {Blank, Old}]
  /\ strayed \in BOOLEAN
  /\ job \in [Printers -> Jobs]
  /\ last \in [Rows -> Messages]
  /\ \A p \in Printers :
       /\ job[p].busy => job[p].y \in RowsOf[p] /\ job[p].x + Len(job[p].rest) < GUI_Width
       /\ ~job[p].busy => job[p] = Idle

LEMMA PrintInit == Init => PrintInv
<1> SUFFICES ASSUME Init PROVE PrintInv
  OBVIOUS
<1>1. <<>> \in Messages
  <2>1. <<>> \in Seq(Glyphs) /\ Len(<<>>) = 0
    OBVIOUS
  <2>2. 0 <= MaxLength
    BY ScreenAssumption
  <2>3. Len(<<>>) <= MaxLength
    BY <2>1, <2>2
  <2> QED
    BY <2>1, <2>3, MessageIsSeq
<1>2. Idle \in Jobs /\ ~Idle.busy
  BY <1>1, ScreenAssumption DEF Idle, Jobs, Columns
<1>3. fbi \in Modes /\ Margins /\ fb = [i \in Pixels(fbi) |-> Old]
  BY DEF Init, VideoInit, Margins
<1> QED
  BY <1>1, <1>2, <1>3 DEF Init, PrintInv

(* PrintChar changes a pixel to the character, and nothing else. *)
LEMMA PrintCharTypes ==
  ASSUME PrintInv, NEW x, NEW y, NEW c \in Glyphs \cup {Blank}, PrintChar(x, y, c), fbi' = fbi
  PROVE  fb' \in [Pixels(fbi) -> Glyphs \cup {Blank, Old}] /\ strayed' \in BOOLEAN
<1>1. CASE UNCHANGED <<fb, strayed>>
  BY <1>1 DEF PrintInv
<1>2. CASE Paint(Cell(x, y), c)
  <2> DEFINE cell == Cell(x, y)
  <2>1. Paint(cell, c)
    BY <1>2
  <2> HIDE DEF cell
  <2>2. fb' \in [Pixels(fbi) -> Glyphs \cup {Blank, Old}]
    BY <2>1 DEF PrintInv, Paint
  <2>3. strayed' \in BOOLEAN
    BY <2>1 DEF Paint
  <2> QED
    BY <2>2, <2>3
<1> QED
  BY <1>1, <1>2 DEF PrintChar

LEMMA PrintStrStep ==
  ASSUME PrintInv, NEW p \in Printers, NEW row \in RowsOf[p], NEW s \in Messages,
         PrintStr(p, row, s)
  PROVE  PrintInv'
<1>1. UNCHANGED <<fbi, StartX, StartY, fb, strayed>>
  BY DEF PrintStr
<1>2. [busy |-> TRUE, x |-> 0, y |-> row, rest |-> s] \in Jobs
  BY ScreenAssumption DEF Jobs, Columns
<1>3. job' \in [Printers -> Jobs] /\ last' \in [Rows -> Messages]
  BY <1>2 DEF PrintInv, PrintStr
<1>4. 0 + Len(s) < GUI_Width
  BY MessageIsSeq, LenProperties, ScreenAssumption
<1>5. ASSUME NEW q \in Printers
      PROVE  /\ job'[q].busy => job'[q].y \in RowsOf[q] /\ job'[q].x + Len(job'[q].rest) < GUI_Width
             /\ ~job'[q].busy => job'[q] = Idle
  <2>1. CASE q = p
    <3>1. job'[q] = [busy |-> TRUE, x |-> 0, y |-> row, rest |-> s]
      BY <2>1 DEF PrintInv, PrintStr
    <3> QED
      BY <1>4, <2>1, <3>1
  <2>2. CASE q # p
    BY <2>2 DEF PrintInv, PrintStr
  <2> QED
    BY <2>1, <2>2
<1> QED
  BY <1>1, <1>3, <1>5 DEF PrintInv, Margins, Margin, Pixels

(* One more character of the message: the print stays in its row. *)
LEMMA PrintNextKeeps ==
  ASSUME PrintInv, NEW p \in Printers, PrintNext(p)
  PROVE  LET j == job[p]
         IN  /\ j.busy /\ j.y \in RowsOf[p] /\ j.x \in Columns /\ j.x + 1 < GUI_Width
             /\ j.rest \in Messages /\ j.rest # <<>>
             /\ PrintChar(j.x, j.y, Head(j.rest)) /\ Head(j.rest) \in Glyphs
             /\ job' = [job EXCEPT ![p] = [j EXCEPT !.x = j.x + 1, !.rest = Tail(j.rest)]]
             /\ UNCHANGED <<fbi, StartX, StartY, last>>
<1> DEFINE j == job[p]
<1>1. j \in Jobs /\ j.busy /\ j.rest # <<>> /\ PrintChar(j.x, j.y, Head(j.rest))
  BY DEF PrintInv, PrintNext
<1>2. j.y \in RowsOf[p] /\ j.x + Len(j.rest) < GUI_Width
  BY <1>1 DEF PrintInv
<1>3. j.x \in Columns /\ j.y \in Nat /\ j.rest \in Messages
  BY <1>1 DEF Jobs
<1>4. j.rest \in Seq(Glyphs) /\ Len(j.rest) \in Nat /\ Len(j.rest) > 0 /\ Head(j.rest) \in Glyphs
  BY <1>1, <1>3, MessageIsSeq, LenProperties, HeadTailProperties, EmptySeq
<1>5. j.x \in Nat /\ GUI_Width \in Nat
  BY <1>3, ScreenAssumption DEF Columns
<1>6. j.x + 1 < GUI_Width /\ ~(j.x + 1 >= GUI_Width)
  BY <1>2, <1>4, <1>5
<1>7. job' = [job EXCEPT ![p].x = j.x + 1, ![p].y = j.y, ![p].rest = Tail(j.rest)]
  BY <1>6 DEF PrintNext
<1>8. [j EXCEPT !.x = j.x + 1, !.y = j.y, !.rest = Tail(j.rest)]
        = [j EXCEPT !.x = j.x + 1, !.rest = Tail(j.rest)]
  BY <1>1 DEF Jobs
<1>9. job' = [job EXCEPT ![p] = [j EXCEPT !.x = j.x + 1, !.rest = Tail(j.rest)]]
  BY <1>7, <1>8 DEF PrintInv
<1>10. UNCHANGED <<fbi, StartX, StartY, last>>
  BY DEF PrintNext
<1> HIDE DEF j
<1> QED
  BY <1>1, <1>2, <1>3, <1>4, <1>6, <1>9, <1>10 DEF j

(* One more blank: the row is full in time for the counter not to wrap. *)
LEMMA FillLineKeeps ==
  ASSUME PrintInv, NEW p \in Printers, FillLine(p)
  PROVE  LET j == job[p]
         IN  /\ j.busy /\ j.y \in RowsOf[p] /\ j.x \in Columns /\ j.rest = <<>>
             /\ PrintChar(j.x, j.y, Blank)
             /\ IF j.x + 1 >= GUI_Width - 1
                  THEN job' = [job EXCEPT ![p] = Idle]
                  ELSE job' = [job EXCEPT ![p] = [j EXCEPT !.x = j.x + 1]]
             /\ UNCHANGED <<fbi, StartX, StartY, last>>
<1> DEFINE j == job[p]
<1>1. j \in Jobs /\ j.busy /\ j.rest = <<>> /\ PrintChar(j.x, j.y, Blank)
  BY DEF PrintInv, FillLine
<1>2. j.y \in RowsOf[p] /\ j.x \in Columns
  BY <1>1 DEF PrintInv, Jobs
<1>3. j.x \in Nat /\ GUI_Width \in Nat /\ Word \in Nat /\ GUI_Width < Word
  BY <1>2, ScreenAssumption DEF Columns
<1>4. CASE j.x + 1 >= GUI_Width - 1
  <2>1. job' = [job EXCEPT ![p] = Idle]
    BY <1>4 DEF FillLine, Filled
  <2> QED
    BY <1>1, <1>2, <1>4, <2>1 DEF FillLine
<1>5. CASE ~(j.x + 1 >= GUI_Width - 1)
  <2>1. (j.x + 1) % Word = j.x + 1
    BY <1>3, <1>5
  <2>2. job' = [job EXCEPT ![p] = [j EXCEPT !.x = j.x + 1]]
    BY <1>5, <2>1 DEF FillLine, Filled
  <2> QED
    BY <1>1, <1>2, <1>5, <2>2 DEF FillLine
<1> QED
  BY <1>4, <1>5

LEMMA PrintNextStep ==
  ASSUME PrintInv, NEW p \in Printers, PrintNext(p)
  PROVE  PrintInv'
<1> DEFINE j == job[p]
           next == [j EXCEPT !.x = j.x + 1, !.rest = Tail(j.rest)]
<1>1. /\ j.busy /\ j.y \in RowsOf[p] /\ j.x \in Columns /\ j.x + 1 < GUI_Width
      /\ j.rest \in Messages /\ j.rest # <<>>
      /\ PrintChar(j.x, j.y, Head(j.rest)) /\ Head(j.rest) \in Glyphs
      /\ job' = [job EXCEPT ![p] = next]
      /\ UNCHANGED <<fbi, StartX, StartY, last>>
  BY PrintNextKeeps
<1>2. fb' \in [Pixels(fbi) -> Glyphs \cup {Blank, Old}] /\ strayed' \in BOOLEAN
  BY <1>1, PrintCharTypes
<1>3. j \in Jobs
  BY DEF PrintInv
<1>4. /\ j.rest \in Seq(Glyphs) /\ Len(j.rest) \in Nat /\ Len(j.rest) <= MaxLength
      /\ Tail(j.rest) \in Seq(Glyphs) /\ Len(Tail(j.rest)) = Len(j.rest) - 1
  BY <1>1, MessageIsSeq, LenProperties, HeadTailProperties
<1>5. Tail(j.rest) \in Messages
  <2>1. Len(Tail(j.rest)) <= MaxLength
    BY <1>4, ScreenAssumption
  <2> QED
    BY <1>4, <2>1, MessageIsSeq
<1>6. j.x + 1 \in Columns
  BY <1>1, ScreenAssumption DEF Columns
<1> HIDE DEF j
<1>7. /\ next \in Jobs /\ next.busy = j.busy /\ next.y = j.y
      /\ next.x = j.x + 1 /\ next.rest = Tail(j.rest)
  BY <1>3, <1>5, <1>6 DEF Jobs
<1>8. next.busy
  BY <1>1, <1>7
<1>9. next.x + Len(next.rest) < GUI_Width
  <2>1. j.x + Len(j.rest) < GUI_Width
    BY <1>1 DEF PrintInv, j
  <2>2. j.x \in Nat /\ GUI_Width \in Nat
    BY <1>1, ScreenAssumption DEF Columns
  <2> QED
    BY <1>4, <1>7, <2>1, <2>2
<1> HIDE DEF next
<1>10. job' \in [Printers -> Jobs]
  BY <1>1, <1>7 DEF PrintInv
<1>11. ASSUME NEW q \in Printers
       PROVE  /\ job'[q].busy => job'[q].y \in RowsOf[q] /\ job'[q].x + Len(job'[q].rest) < GUI_Width
              /\ ~job'[q].busy => job'[q] = Idle
  <2>1. CASE q = p
    <3>1. job'[q] = next
      BY <1>1, <2>1 DEF PrintInv
    <3> QED
      BY <1>1, <1>7, <1>8, <1>9, <2>1, <3>1
  <2>2. CASE q # p
    <3>1. job'[q] = job[q]
      BY <1>1, <2>2 DEF PrintInv
    <3> QED
      BY <3>1 DEF PrintInv
  <2> QED
    BY <2>1, <2>2
<1> QED
  BY <1>1, <1>2, <1>10, <1>11 DEF PrintInv, Margins, Margin

LEMMA FillLineStep ==
  ASSUME PrintInv, NEW p \in Printers, FillLine(p)
  PROVE  PrintInv'
<1> DEFINE j == job[p]
<1>1. /\ j.busy /\ j.y \in RowsOf[p] /\ j.x \in Columns /\ j.rest = <<>>
      /\ PrintChar(j.x, j.y, Blank)
      /\ IF j.x + 1 >= GUI_Width - 1
           THEN job' = [job EXCEPT ![p] = Idle]
           ELSE job' = [job EXCEPT ![p] = [j EXCEPT !.x = j.x + 1]]
      /\ UNCHANGED <<fbi, StartX, StartY, last>>
  BY FillLineKeeps
<1>2. fb' \in [Pixels(fbi) -> Glyphs \cup {Blank, Old}] /\ strayed' \in BOOLEAN
  BY <1>1, PrintCharTypes
<1>3. j \in Jobs
  BY DEF PrintInv
<1> HIDE DEF j
<1>4. PICK next \in Jobs : /\ job' = [job EXCEPT ![p] = next]
                           /\ next.busy => next.y \in RowsOf[p] /\ next.x + Len(next.rest) < GUI_Width
                           /\ ~next.busy => next = Idle
  <2>1. CASE j.x + 1 >= GUI_Width - 1
    <3>1. Idle \in Jobs /\ ~Idle.busy
      BY <1>1, <1>3, ScreenAssumption DEF Idle, Jobs, Columns
    <3> QED
      BY <1>1, <2>1, <3>1
  <2>2. CASE ~(j.x + 1 >= GUI_Width - 1)
    <3> DEFINE one == [j EXCEPT !.x = j.x + 1]
    <3>1. j.x + 1 \in Columns /\ j.x + 1 < GUI_Width
      BY <1>1, <2>2, ScreenAssumption DEF Columns
    <3>2. one \in Jobs /\ one.busy = j.busy /\ one.y = j.y /\ one.x = j.x + 1 /\ one.rest = j.rest
      BY <1>3, <3>1 DEF Jobs
    <3>3. one.x + Len(one.rest) < GUI_Width
      BY <1>1, <3>1, <3>2, EmptySeq, ScreenAssumption DEF Columns
    <3>4. job' = [job EXCEPT ![p] = one]
      BY <1>1, <2>2
    <3> HIDE DEF one
    <3> QED
      BY <1>1, <3>2, <3>3, <3>4
  <2> QED
    BY <2>1, <2>2
<1>5. job' \in [Printers -> Jobs]
  BY <1>4 DEF PrintInv
<1>6. ASSUME NEW q \in Printers
      PROVE  /\ job'[q].busy => job'[q].y \in RowsOf[q] /\ job'[q].x + Len(job'[q].rest) < GUI_Width
             /\ ~job'[q].busy => job'[q] = Idle
  <2>1. CASE q = p
    <3>1. job'[q] = next
      BY <1>4, <2>1 DEF PrintInv
    <3> QED
      BY <1>4, <2>1, <3>1
  <2>2. CASE q # p
    <3>1. job'[q] = job[q]
      BY <1>4, <2>2 DEF PrintInv
    <3> QED
      BY <3>1 DEF PrintInv
  <2> QED
    BY <2>1, <2>2
<1> QED
  BY <1>1, <1>2, <1>5, <1>6 DEF PrintInv, Margins, Margin

LEMMA PrintStutter == ASSUME PrintInv, UNCHANGED vars PROVE PrintInv'
  BY DEF PrintInv, vars, Margins, Margin, Pixels

LEMMA PrintStep == ASSUME PrintInv, [Next]_vars PROVE PrintInv'
<1>1. ASSUME NEW p \in Printers, NEW row \in RowsOf[p], NEW s \in Messages, PrintStr(p, row, s)
      PROVE  PrintInv'
  BY <1>1, PrintStrStep
<1>2. ASSUME NEW p \in Printers, Step(p) PROVE PrintInv'
  BY <1>2, PrintNextStep, FillLineStep DEF Step
<1> QED
  BY <1>1, <1>2, PrintStutter DEF Next

LEMMA PrintInvariant == Spec => []PrintInv
  BY PrintInit, PrintStep, PTL DEF Spec

(* Every variable keeps its type, and a print stays in the row it was begun    *)
(* in: the wrap of PrintStr into the next row is never taken.                 *)
THEOREM ScreenTypeCorrect == Spec => []TypeOK
<1>1. PrintInv => TypeOK
  <2> SUFFICES ASSUME PrintInv PROVE TypeOK
    OBVIOUS
  <2>1. StartX \in 0..(Word - 1) /\ StartY \in 0..(Word - 1)
    BY MarginTypes DEF PrintInv
  <2>2. ASSUME NEW p \in Printers
        PROVE  job[p] = Idle
            \/ /\ job[p].busy /\ job[p].y \in RowsOf[p]
               /\ job[p].x \in 0..(GUI_Width - 1)
               /\ job[p].rest \in Messages
    BY DEF PrintInv, Jobs, Columns
  <2> QED
    BY <2>1, <2>2 DEF PrintInv, TypeOK
<1> QED
  BY <1>1, PrintInvariant, PTL
-----------------------------------------------------------------------------
(* What a round of either loop paints, whichever it is. *)
Painted(p, c) ==
  /\ job[p].busy /\ job[p].y \in RowsOf[p] /\ job[p].x \in Columns
  /\ c = Shown(last[job[p].y], job[p].x)
  /\ Paint(Cell(job[p].x, job[p].y), c)
  /\ UNCHANGED <<fbi, StartX, StartY, last>>

LEMMA RowsOnScreen ==
  ASSUME NEW p \in Printers, NEW r \in RowsOf[p]
  PROVE  r \in Rows /\ r \in 0..(GUI_Height - 1)
  BY ScreenAssumption DEF Rows

LEMMA PrintCharPaints ==
  ASSUME NEW p \in Printers, NEW r \in RowsOf[p], NEW x \in Columns, NEW c, PrintChar(x, r, c)
  PROVE  Paint(Cell(x, r), c)
<1>1. r \in 0..(GUI_Height - 1)
  BY RowsOnScreen
<1>2. ~(x >= GUI_Width \/ r >= GUI_Height)
  BY <1>1, ScreenAssumption DEF Columns
<1> QED
  BY <1>2 DEF PrintChar

LEMMA SameCells ==
  ASSUME UNCHANGED <<fbi, StartX, StartY>>
  PROVE  /\ \A x, y : Cell(x, y)' = Cell(x, y)
         /\ Fits' = Fits
  BY DEF Cell, Fits

(* On a screen that holds the text area, nothing but the frame buffer is       *)
(* written, whatever handler and thread print.                               *)
THEOREM OnlyFrameWritten == Spec => []WritesInFrame
<1>1. Init => WritesInFrame
  BY DEF Init, WritesInFrame
<1>2. PrintInv /\ WritesInFrame /\ [Next]_vars => WritesInFrame'
  <2> SUFFICES ASSUME PrintInv, WritesInFrame, [Next]_vars, Fits' PROVE ~strayed'
    BY DEF WritesInFrame
  <2>1. ASSUME NEW p \in Printers, Step(p) PROVE ~strayed'
    <3> DEFINE j == job[p]
    <3>1. PICK c : /\ j.y \in RowsOf[p] /\ j.x \in Columns
                   /\ PrintChar(j.x, j.y, c)
                   /\ UNCHANGED <<fbi, StartX, StartY>>
      BY <2>1, PrintNextKeeps, FillLineKeeps DEF Step
    <3>2. Fits /\ fbi \in Modes /\ Margins /\ DOMAIN fb = Pixels(fbi)
      BY <3>1, SameCells DEF PrintInv
    <3>3. Paint(Cell(j.x, j.y), c)
      BY <3>1, PrintCharPaints
    <3>4. Cell(j.x, j.y) \subseteq DOMAIN fb
      BY <3>1, <3>2, CellInFrame, RowsOnScreen
    <3> QED
      BY <3>2, <3>3, <3>4 DEF Paint, WritesInFrame
  <2>2. CASE UNCHANGED <<fbi, StartX, StartY, fb, strayed>>
    BY <2>2, SameCells DEF WritesInFrame
  <2> QED
    BY <2>1, <2>2 DEF Next, PrintStr, vars
<1> QED
  BY <1>1, <1>2, PrintInvariant, PTL DEF Spec
-----------------------------------------------------------------------------
(* A row that is being printed shows the message up to the printer's column,   *)
(* and what the printer still holds is the rest of that message.             *)
Untouched(r) == \A x \in Columns : \A i \in Cell(x, r) : fb[i] = Old
ShowsUpTo(r, k) == \A x \in 0..(k - 1) : \A i \in Cell(x, r) : fb[i] = Shown(last[r], x)

IdleRow(r) == \A p \in Printers : job[p].busy => job[p].y # r

Rests(p) ==
  LET j == job[p]  s == last[j.y]
  IN  /\ j.x <= Len(s) => Len(j.rest) = Len(s) - j.x
      /\ j.x > Len(s) => j.rest = <<>>
      /\ \A k \in 1..Len(j.rest) : j.rest[k] = s[j.x + k]

PrintingRows == \A p \in Printers : job[p].busy => Rests(p) /\ ShowsUpTo(job[p].y, job[p].x)
IdleRows == \A r \in Rows : IdleRow(r) => Untouched(r) \/ ShowsUpTo(r, GUI_Width - 1)
Outside == \A i \in Pixels(fbi) : (\A x \in Columns, r \in Rows : i \notin Cell(x, r)) => fb[i] = Old

RowsInv == Fits => PrintingRows /\ IdleRows /\ Outside

LEMMA RowsInit == Init => RowsInv
<1> SUFFICES ASSUME Init, Fits PROVE PrintingRows /\ IdleRows /\ Outside
  BY DEF RowsInv
<1>1. fbi \in Modes /\ Margins /\ fb = [i \in Pixels(fbi) |-> Old]
  BY DEF Init, VideoInit, Margins
<1>2. \A p \in Printers : ~job[p].busy
  BY DEF Init, Idle
<1>3. \A r \in Rows : Untouched(r)
  <2> SUFFICES ASSUME NEW r \in Rows, NEW x \in Columns, NEW i \in Cell(x, r) PROVE fb[i] = Old
    BY DEF Untouched
  <2>1. Cell(x, r) \subseteq Pixels(fbi)
    BY <1>1, CellInFrame, RowsOnScreen DEF Rows
  <2> QED
    BY <1>1, <2>1
<1>4. Outside
  BY <1>1 DEF Outside
<1> QED
  BY <1>2, <1>3, <1>4 DEF PrintingRows, IdleRows

(* One round of a loop: its own row shows one column more, all other cells     *)
(* stay as they are.                                                         *)
LEMMA RoundPaints ==
  ASSUME PrintInv, Fits, NEW p \in Printers, NEW c, Painted(p, c)
  PROVE  LET x == job[p].x  y == job[p].y
         IN  /\ \A i \in Cell(x, y) : fb'[i] = Shown(last[y], x)
             /\ \A x1 \in Columns, r \in Rows : r # y \/ x1 # x =>
                  \A i \in Cell(x1, r) : fb'[i] = fb[i]
             /\ \A i \in Pixels(fbi) : i \notin Cell(x, y) => fb'[i] = fb[i]
<1> DEFINE x == job[p].x  y == job[p].y
<1>1. /\ y \in RowsOf[p] /\ x \in Columns /\ c = Shown(last[y], x)
      /\ Paint(Cell(x, y), c)
      /\ y \in Rows /\ y \in 0..(GUI_Height - 1)
  BY RowsOnScreen DEF Painted
<1>2. fbi \in Modes /\ Margins /\ DOMAIN fb = Pixels(fbi)
  BY DEF PrintInv
<1>3. \A r \in Rows : r \in 0..(GUI_Height - 1)
  BY ScreenAssumption DEF Rows
<1> HIDE DEF x, y
<1>4. fb' = [i \in Pixels(fbi) |-> IF i \in Cell(x, y) THEN c ELSE fb[i]]
  BY <1>1, <1>2 DEF Paint
<1>5. \A x1 \in Columns, r \in Rows : Cell(x1, r) \subseteq Pixels(fbi)
  BY <1>2, <1>3, CellInFrame
<1>6. ASSUME NEW x1 \in Columns, NEW r \in Rows, r # y \/ x1 # x
      PROVE  Cell(x1, r) \cap Cell(x, y) = {}
  <2>1. x \in Int /\ x1 \in Int /\ y \in Int /\ r \in Int /\ r \in 0..(GUI_Height - 1)
    BY <1>1, <1>3 DEF Columns
  <2>2. \/ r < y \/ (r = y /\ x1 < x)
        \/ y < r \/ (y = r /\ x < x1)
    BY <1>6, <2>1
  <2> QED
    BY <1>1, <1>2, <2>1, <2>2, CellsDisjoint
<1>7. \A i \in Cell(x, y) : fb'[i] = Shown(last[y], x)
  BY <1>1, <1>4, <1>5
<1>8. \A x1 \in Columns, r \in Rows : r # y \/ x1 # x => \A i \in Cell(x1, r) : fb'[i] = fb[i]
  BY <1>4, <1>5, <1>6
<1>9. \A i \in Pixels(fbi) : i \notin Cell(x, y) => fb'[i] = fb[i]
  BY <1>4
<1> QED
  BY <1>7, <1>8, <1>9 DEF x, y

LEMMA RoundKeepsRows ==
  ASSUME PrintInv, Fits, NEW p \in Printers, NEW c, Painted(p, c),
         ShowsUpTo(job[p].y, job[p].x), Outside
  PROVE  LET x == job[p].x  y == job[p].y
         IN  /\ \A x1 \in 0..x : \A i \in Cell(x1, y) : fb'[i] = Shown(last[y], x1)
             /\ \A x1 \in Columns, r \in Rows : r # y => \A i \in Cell(x1, r) : fb'[i] = fb[i]
             /\ Outside'
<1> DEFINE x == job[p].x  y == job[p].y
<1>1. /\ \A i \in Cell(x, y) : fb'[i] = Shown(last[y], x)
      /\ \A x1 \in Columns, r \in Rows : r # y \/ x1 # x =>
           \A i \in Cell(x1, r) : fb'[i] = fb[i]
      /\ \A i \in Pixels(fbi) : i \notin Cell(x, y) => fb'[i] = fb[i]
  BY RoundPaints
<1>2. x \in Columns /\ y \in Rows
  BY RowsOnScreen DEF Painted
<1>3. /\ UNCHANGED <<fbi, StartX, StartY, last>>
      /\ \A x1, r : Cell(x1, r)' = Cell(x1, r)
  BY SameCells DEF Painted
<1> HIDE DEF x, y
<1>4. ASSUME NEW x1 \in 0..x, NEW i \in Cell(x1, y) PROVE fb'[i] = Shown(last[y], x1)
  <2>1. CASE x1 = x
    BY <1>1, <1>4, <2>1
  <2>2. CASE x1 # x
    <3>1. x1 \in 0..(x - 1) /\ x1 \in Columns
      BY <1>2, <2>2, ScreenAssumption DEF Columns
    <3>2. fb[i] = Shown(last[y], x1)
      BY <1>4, <3>1 DEF ShowsUpTo, x, y
    <3>3. fb'[i] = fb[i]
      BY <1>1, <1>2, <1>4, <2>2, <3>1
    <3> QED
      BY <3>2, <3>3
  <2> QED
    BY <2>1, <2>2
<1>5. Outside'
  <2> SUFFICES ASSUME NEW i \in Pixels(fbi)',
                      (\A x1 \in Columns, r \in Rows : i \notin Cell(x1, r))'
               PROVE  fb'[i] = Old
    BY DEF Outside
  <2>1. i \in Pixels(fbi) /\ \A x1 \in Columns, r \in Rows : i \notin Cell(x1, r)
    BY <1>3 DEF Pixels, Columns, Rows
  <2>2. i \notin Cell(x, y)
    BY <1>2, <2>1
  <2> QED
    BY <1>1, <2>1, <2>2 DEF Outside
<1> QED
  BY <1>1, <1>4, <1>5 DEF x, y

(* A round shows the next character of the message, or a blank after its end. *)
LEMMA PrintNextPaints ==
  ASSUME PrintInv, NEW p \in Printers, Rests(p), PrintNext(p)
  PROVE  /\ Painted(p, Head(job[p].rest))
         /\ job'[p].y = job[p].y /\ job'[p].x = job[p].x + 1
         /\ Rests(p)'
<1> DEFINE j == job[p]  s == last[j.y]  x == j.x  rest == j.rest  y == j.y
           next == [j EXCEPT !.x = j.x + 1, !.rest = Tail(j.rest)]
<1>1. /\ j.busy /\ y \in RowsOf[p] /\ x \in Columns /\ x + 1 < GUI_Width
      /\ rest \in Messages /\ rest # <<>>
      /\ PrintChar(x, y, Head(rest)) /\ Head(rest) \in Glyphs
      /\ job' = [job EXCEPT ![p] = next]
      /\ UNCHANGED <<fbi, StartX, StartY, last>>
  BY PrintNextKeeps
<1>2. s \in Messages
  BY <1>1, RowsOnScreen DEF PrintInv
<1>3. /\ rest \in Seq(Glyphs) /\ Len(rest) \in Nat /\ Len(rest) > 0
      /\ Head(rest) = rest[1]
      /\ Tail(rest) \in Seq(Glyphs) /\ Len(Tail(rest)) = Len(rest) - 1
      /\ \A k \in 1..Len(Tail(rest)) : Tail(rest)[k] = rest[k + 1]
  BY <1>1, MessageIsSeq, LenProperties, HeadTailProperties, EmptySeq
<1>4. Len(s) \in Nat /\ x \in Nat
  <2>1. s \in Seq(Glyphs)
    BY <1>2, MessageIsSeq
  <2>2. Len(s) \in Nat
    BY <2>1, LenProperties
  <2>3. x \in Nat
    BY <1>1, ScreenAssumption DEF Columns
  <2> QED  BY <2>2, <2>3
<1>5. /\ x <= Len(s) => Len(rest) = Len(s) - x
      /\ x > Len(s) => rest = <<>>
      /\ \A k \in 1..Len(rest) : rest[k] = s[x + k]
  BY DEF Rests
<1>6. j \in Jobs
  BY DEF PrintInv
<1>7. next.x = x + 1 /\ next.y = y /\ next.rest = Tail(rest)
  BY <1>6 DEF Jobs
<1>8. job'[p] = next /\ last' = last
  BY <1>1 DEF PrintInv
<1> HIDE DEF j, s, x, y, rest, next
<1>9. x < Len(s) /\ Len(rest) = Len(s) - x
  BY <1>1, <1>3, <1>4, <1>5
<1>10. Head(rest) = Shown(s, x)
  BY <1>3, <1>4, <1>5, <1>9 DEF Shown
<1>11. Painted(p, Head(rest))
  <2>1. Paint(Cell(x, y), Head(rest))
    BY <1>1, PrintCharPaints
  <2> QED
    BY <1>1, <1>10, <2>1 DEF Painted, j, s, x, y
<1>12. /\ x + 1 <= Len(s) /\ Len(Tail(rest)) = Len(s) - (x + 1)
       /\ \A k \in 1..Len(Tail(rest)) : Tail(rest)[k] = s[x + 1 + k]
  BY <1>3, <1>4, <1>5, <1>9
<1>13. Rests(p)'
  <2>1. last'[job'[p].y] = s
    BY <1>7, <1>8 DEF s, y
  <2>2. job'[p].x = x + 1 /\ job'[p].rest = Tail(rest)
    BY <1>7, <1>8
  <2>3. /\ job'[p].x <= Len(last'[job'[p].y]) =>
             Len(job'[p].rest) = Len(last'[job'[p].y]) - job'[p].x
        /\ ~(job'[p].x > Len(last'[job'[p].y]))
        /\ \A k \in 1..Len(job'[p].rest) : job'[p].rest[k] = last'[job'[p].y][job'[p].x + k]
    BY <1>4, <1>12, <2>1, <2>2
  <2> QED
    BY <2>3 DEF Rests
<1> QED
  BY <1>7, <1>8, <1>11, <1>13 DEF j, x, y, rest

LEMMA FillLinePaints ==
  ASSUME PrintInv, NEW p \in Printers, Rests(p), FillLine(p)
  PROVE  /\ Painted(p, Blank)
         /\ \/ job'[p] = Idle /\ job[p].x >= GUI_Width - 2
            \/ job'[p].y = job[p].y /\ job'[p].x = job[p].x + 1 /\ job'[p].busy /\ Rests(p)'
<1> DEFINE j == job[p]  s == last[j.y]  x == j.x  y == j.y
           next == [j EXCEPT !.x = j.x + 1]
<1>1. /\ j.busy /\ y \in RowsOf[p] /\ x \in Columns /\ j.rest = <<>>
      /\ PrintChar(x, y, Blank)
      /\ IF x + 1 >= GUI_Width - 1
           THEN job' = [job EXCEPT ![p] = Idle]
           ELSE job' = [job EXCEPT ![p] = next]
      /\ UNCHANGED <<fbi, StartX, StartY, last>>
  BY FillLineKeeps
<1>2. s \in Messages
  BY <1>1, RowsOnScreen DEF PrintInv
<1>3. Len(s) \in Nat /\ x \in Nat /\ GUI_Width \in Nat
  <2>1. s \in Seq(Glyphs)
    BY <1>2, MessageIsSeq
  <2>2. Len(s) \in Nat
    BY <2>1, LenProperties
  <2>3. x \in Nat /\ GUI_Width \in Nat
    BY <1>1, ScreenAssumption DEF Columns
  <2> QED  BY <2>2, <2>3
<1>4. /\ x <= Len(s) => Len(j.rest) = Len(s) - x
      /\ Len(j.rest) = 0
  BY <1>1, EmptySeq DEF Rests
<1>5. j \in Jobs
  BY DEF PrintInv
<1>6. next.x = x + 1 /\ next.y = y /\ next.rest = <<>> /\ next.busy = j.busy
  BY <1>1, <1>5 DEF Jobs
<1> HIDE DEF j, s, x, y, next
<1>7. x >= Len(s)
  BY <1>3, <1>4
<1>8. Painted(p, Blank)
  <2>1. Blank = Shown(s, x)
    BY <1>3, <1>7 DEF Shown
  <2>2. Paint(Cell(x, y), Blank)
    BY <1>1, PrintCharPaints
  <2> QED
    BY <1>1, <2>1, <2>2 DEF Painted, j, s, x, y
<1>9. CASE x + 1 >= GUI_Width - 1
  <2>1. job'[p] = Idle
    BY <1>1, <1>9 DEF PrintInv
  <2>2. x >= GUI_Width - 2
    BY <1>3, <1>9
  <2> QED
    BY <1>8, <2>1, <2>2 DEF x, j
<1>10. CASE ~(x + 1 >= GUI_Width - 1)
  <2>1. job'[p] = next /\ last' = last
    BY <1>1, <1>10 DEF PrintInv
  <2>2. x + 1 > Len(s) /\ Len(<<>>) = 0
    BY <1>3, <1>7
  <2>3. Rests(p)'
    BY <1>3, <1>6, <2>1, <2>2 DEF Rests, s, y, j
  <2> QED
    BY <1>1, <1>6, <1>8, <2>1, <2>3 DEF j, x, y
<1> QED
  BY <1>9, <1>10

(* A round leaves the rows no printer is at as they are. *)
LEMMA RoundStep ==
  ASSUME PrintInv, PrintingRows, IdleRows, Outside, Fits, NEW p \in Printers, NEW c,
         Painted(p, c), \A q \in Printers : q # p => job'[q] = job[q],
         \/ job'[p] = Idle /\ job[p].x >= GUI_Width - 2
         \/ /\ job'[p].y = job[p].y /\ job'[p].x = job[p].x + 1
            /\ job'[p].busy /\ Rests(p)'
  PROVE  PrintingRows' /\ IdleRows' /\ Outside'
<1> DEFINE x == job[p].x  y == job[p].y
<1>1. job[p].busy /\ y \in RowsOf[p] /\ y \in Rows /\ x \in Columns
  BY RowsOnScreen DEF Painted
<1>2. /\ \A x1 \in 0..x : \A i \in Cell(x1, y) : fb'[i] = Shown(last[y], x1)
      /\ \A x1 \in Columns, r \in Rows : r # y => \A i \in Cell(x1, r) : fb'[i] = fb[i]
      /\ Outside'
  BY <1>1, RoundKeepsRows DEF PrintingRows
<1>3. last' = last /\ Rows' = Rows /\ \A x1, r : Cell(x1, r)' = Cell(x1, r)
  BY SameCells DEF Painted, Rows
<1>4. x \in Nat /\ GUI_Width \in Nat
  BY <1>1, ScreenAssumption DEF Columns
<1> HIDE DEF x, y
<1>5. ASSUME NEW q \in Printers, job'[q].busy
      PROVE  Rests(q)' /\ ShowsUpTo(job[q].y, job[q].x)'
  <2>1. CASE q = p
    <3>1. /\ job'[p].y = y /\ job'[p].x = x + 1 /\ Rests(p)'
      BY <1>5, <2>1 DEF Idle, x, y
    <3>2. \A x1 \in 0..(job'[p].x - 1) : x1 \in 0..x
      BY <1>4, <3>1
    <3>3. ShowsUpTo(job[p].y, job[p].x)'
      BY <1>2, <1>3, <3>1, <3>2 DEF ShowsUpTo
    <3> QED
      BY <2>1, <3>1, <3>3
  <2>2. CASE q # p
    <3>1. job'[q] = job[q] /\ job[q].busy
      BY <1>5, <2>2
    <3>2. job[q].y \in RowsOf[q] /\ job[q].x \in Columns
      BY <3>1 DEF PrintInv, Jobs
    <3>3. job[q].y \in Rows /\ job[q].y # y
      BY <1>1, <2>2, <3>2, ScreenAssumption DEF Rows
    <3>4. Rests(q) /\ ShowsUpTo(job[q].y, job[q].x)
      BY <3>1 DEF PrintingRows
    <3>5. Rests(q)'
      BY <1>3, <3>1, <3>4 DEF Rests
    <3>6. \A x1 \in 0..(job[q].x - 1) : x1 \in Columns
      BY <3>2, ScreenAssumption DEF Columns
    <3>7. ShowsUpTo(job[q].y, job[q].x)'
      BY <1>2, <1>3, <3>1, <3>3, <3>4, <3>6 DEF ShowsUpTo
    <3> QED
      BY <3>5, <3>7
  <2> QED
    BY <2>1, <2>2
<1>6. ASSUME NEW r \in Rows, IdleRow(r)'
      PROVE  Untouched(r)' \/ ShowsUpTo(r, GUI_Width - 1)'
  <2>1. CASE r = y
    <3>1. x >= GUI_Width - 2
      BY <1>6, <2>1 DEF IdleRow, x, y
    <3>2. \A x1 \in 0..(GUI_Width - 1 - 1) : x1 \in 0..x
      BY <1>4, <3>1
    <3> QED
      BY <1>2, <1>3, <2>1, <3>2 DEF ShowsUpTo
  <2>2. CASE r # y
    <3>1. IdleRow(r)
      BY <1>6, <2>2 DEF IdleRow, y
    <3>2. Untouched(r) \/ ShowsUpTo(r, GUI_Width - 1)
      BY <3>1 DEF IdleRows
    <3>3. \A x1 \in 0..(GUI_Width - 1 - 1) : x1 \in Columns
      BY <1>4 DEF Columns
    <3>4. CASE Untouched(r)
      BY <1>2, <1>3, <2>2, <3>4 DEF Untouched
    <3>5. CASE ShowsUpTo(r, GUI_Width - 1)
      BY <1>2, <1>3, <2>2, <3>3, <3>5 DEF ShowsUpTo
    <3> QED
      BY <3>2, <3>4, <3>5
  <2> QED
    BY <2>1, <2>2
<1>7. PrintingRows'
  BY <1>5 DEF PrintingRows
<1>8. IdleRows'
  BY <1>3, <1>6 DEF IdleRows
<1> QED
  BY <1>2, <1>7, <1>8

(* A message that begins has shown nothing yet, in a row its printer owns. *)
LEMMA RowsPrintStr ==
  ASSUME PrintInv, PrintingRows, IdleRows, Outside,
         NEW p \in Printers, NEW row \in RowsOf[p], NEW s \in Messages, PrintStr(p, row, s)
  PROVE  PrintingRows' /\ IdleRows' /\ Outside'
<1>1. /\ ~job[p].busy /\ fb' = fb /\ UNCHANGED <<fbi, StartX, StartY>>
      /\ job'[p] = [busy |-> TRUE, x |-> 0, y |-> row, rest |-> s]
      /\ \A q \in Printers : q # p => job'[q] = job[q]
      /\ last' = [last EXCEPT ![row] = s]
  BY DEF PrintStr, PrintInv
<1>2. row \in Rows /\ last \in [Rows -> Messages]
  BY RowsOnScreen DEF PrintInv
<1>3. last'[row] = s /\ \A r \in Rows : r # row => last'[r] = last[r]
  BY <1>1, <1>2
<1>4. Rows' = Rows /\ Pixels(fbi)' = Pixels(fbi) /\ \A x, r : Cell(x, r)' = Cell(x, r)
  BY <1>1, SameCells DEF Rows, Pixels
<1>5. ASSUME NEW q \in Printers, job'[q].busy
      PROVE  Rests(q)' /\ ShowsUpTo(job[q].y, job[q].x)'
  <2>1. CASE q = p
    <3>1. job'[p].x = 0 /\ job'[p].y = row /\ job'[p].rest = s /\ last'[job'[p].y] = s
      BY <1>1, <1>3
    <3>2. s \in Seq(Glyphs) /\ Len(s) \in Nat
      BY MessageIsSeq, LenProperties
    <3>3. Rests(p)'
      BY <3>1, <3>2 DEF Rests
    <3>4. ShowsUpTo(job[p].y, job[p].x)'
      BY <3>1 DEF ShowsUpTo
    <3> QED
      BY <2>1, <3>3, <3>4
  <2>2. CASE q # p
    <3>1. job'[q] = job[q] /\ job[q].busy
      BY <1>1, <1>5, <2>2
    <3>2. job[q].y \in RowsOf[q]
      BY <3>1 DEF PrintInv
    <3>3. job[q].y \in Rows /\ job[q].y # row
      BY <2>2, <3>2, ScreenAssumption DEF Rows
    <3>4. last'[job[q].y] = last[job[q].y]
      BY <1>3, <3>3
    <3>5. Rests(q) /\ ShowsUpTo(job[q].y, job[q].x)
      BY <3>1 DEF PrintingRows
    <3>6. Rests(q)'
      BY <3>1, <3>4, <3>5 DEF Rests
    <3>7. ShowsUpTo(job[q].y, job[q].x)'
      BY <1>1, <1>4, <3>1, <3>4, <3>5 DEF ShowsUpTo
    <3> QED
      BY <3>6, <3>7
  <2> QED
    BY <2>1, <2>2
<1>6. ASSUME NEW r \in Rows, IdleRow(r)'
      PROVE  Untouched(r)' \/ ShowsUpTo(r, GUI_Width - 1)'
  <2>1. r # row
    BY <1>1, <1>6 DEF IdleRow
  <2>2. IdleRow(r)
    BY <1>1, <1>6 DEF IdleRow
  <2>3. Untouched(r) \/ ShowsUpTo(r, GUI_Width - 1)
    BY <2>2 DEF IdleRows
  <2>4. CASE Untouched(r)
    BY <1>1, <1>4, <2>4 DEF Untouched
  <2>5. CASE ShowsUpTo(r, GUI_Width - 1)
    BY <1>1, <1>3, <1>4, <2>1, <2>5 DEF ShowsUpTo
  <2> QED
    BY <2>3, <2>4, <2>5
<1>7. PrintingRows'
  BY <1>5 DEF PrintingRows
<1>8. IdleRows'
  BY <1>4, <1>6 DEF IdleRows
<1>9. Outside'
  BY <1>1, <1>4 DEF Outside
<1> QED
  BY <1>7, <1>8, <1>9

LEMMA RowsStep == ASSUME PrintInv, RowsInv, [Next]_vars PROVE RowsInv'
<1> SUFFICES ASSUME Fits' PROVE PrintingRows' /\ IdleRows' /\ Outside'
  BY DEF RowsInv
<1>1. UNCHANGED <<fbi, StartX, StartY>>
  BY PrintNextKeeps, FillLineKeeps DEF Next, PrintStr, Step, vars
<1>2. Fits /\ PrintingRows /\ IdleRows /\ Outside
  BY <1>1, SameCells DEF RowsInv
<1>3. ASSUME NEW p \in Printers, NEW row \in RowsOf[p], NEW s \in Messages, PrintStr(p, row, s)
      PROVE  PrintingRows' /\ IdleRows' /\ Outside'
  BY <1>2, <1>3, RowsPrintStr
<1>4. ASSUME NEW p \in Printers, PrintNext(p) PROVE PrintingRows' /\ IdleRows' /\ Outside'
  <2>1. /\ job[p].busy
        /\ job' = [job EXCEPT ![p] = [job[p] EXCEPT !.x = job[p].x + 1, !.rest = Tail(job[p].rest)]]
    BY <1>4, PrintNextKeeps
  <2>2. \A q \in Printers : q # p => job'[q] = job[q]
    BY <2>1 DEF PrintInv
  <2>3. job'[p].busy
    BY <2>1 DEF PrintInv, Jobs
  <2>4. Rests(p)
    BY <1>2, <2>1 DEF PrintingRows
  <2> QED
    BY <1>2, <1>4, <2>2, <2>3, <2>4, PrintNextPaints, RoundStep
<1>5. ASSUME NEW p \in Printers, FillLine(p) PROVE PrintingRows' /\ IdleRows' /\ Outside'
  <2>1. job[p].busy
    BY <1>5, FillLineKeeps
  <2>2. \A q \in Printers : q # p => job'[q] = job[q]
    BY <1>5 DEF FillLine, PrintInv
  <2>3. Rests(p)
    BY <1>2, <2>1 DEF PrintingRows
  <2> QED
    BY <1>2, <1>5, <2>2, <2>3, FillLinePaints, RoundStep
<1>6. CASE UNCHANGED vars
  <2>1. UNCHANGED <<fb, job, last>> /\ \A x, r : Cell(x, r)' = Cell(x, r)
    BY <1>1, <1>6, SameCells DEF vars
  <2>2. \A p \in Printers : Rests(p) => Rests(p)'
    BY <2>1 DEF Rests
  <2>3. PrintingRows'
    BY <1>2, <2>1, <2>2 DEF PrintingRows, ShowsUpTo
  <2>4. \A r \in Rows : IdleRow(r)' => IdleRow(r)
    BY <2>1 DEF IdleRow
  <2>5. ASSUME NEW r \in Rows, IdleRow(r)'
        PROVE  Untouched(r)' \/ ShowsUpTo(r, GUI_Width - 1)'
    <3>1. Untouched(r) \/ ShowsUpTo(r, GUI_Width - 1)
      BY <1>2, <2>4, <2>5 DEF IdleRows
    <3> QED
      BY <2>1, <3>1 DEF Untouched, ShowsUpTo
  <2>6. IdleRows'
    <3>1. Rows' = Rows
      BY DEF Rows
    <3> QED
      BY <2>5, <3>1 DEF IdleRows
  <2>7. Outside'
    BY <1>1, <1>2, <2>1 DEF Outside, Pixels, Rows
  <2> QED
    BY <2>3, <2>6, <2>7
<1> QED
  BY <1>3, <1>4, <1>5, <1>6 DEF Next, Step

(* A row that no printer is at shows the message that was begun in it last and *)
(* nothing of an earlier one, and no pixel outside the rows in use changes,   *)
(* for every screen that holds the text area and every interleaving of the    *)
(* printers.                                                                 *)
THEOREM MessagesDoNotMix == Spec => []RowsShowLast
<1>1. Init => RowsInv
  BY RowsInit
<1>2. PrintInv /\ RowsInv /\ [Next]_vars => RowsInv'
  BY RowsStep
<1>3. PrintInv /\ RowsInv => RowsShowLast
  <2> SUFFICES ASSUME PrintInv, IdleRows, Outside, Fits
               PROVE  /\ \A r \in Rows : IdleRow(r) =>
                           \/ \A x \in 0..(GUI_Width - 1) : \A i \in Cell(x, r) : fb[i] = Old
                           \/ \A x \in 0..(GUI_Width - 2) :
                                \A i \in Cell(x, r) : fb[i] = Shown(last[r], x)
                      /\ \A i \in DOMAIN fb \ UNION {Cell(x, r) : x \in 0..(GUI_Width - 1), r \in Rows} :
                           fb[i] = Old
    BY DEF RowsShowLast, RowsInv, IdleRow
  <2>1. GUI_Width - 1 - 1 = GUI_Width - 2
    BY ScreenAssumption
  <2>2. ASSUME NEW r \in Rows, IdleRow(r)
        PROVE  \/ \A x \in 0..(GUI_Width - 1) : \A i \in Cell(x, r) : fb[i] = Old
               \/ \A x \in 0..(GUI_Width - 2) : \A i \in Cell(x, r) : fb[i] = Shown(last[r], x)
    BY <2>1, <2>2 DEF IdleRows, Untouched, ShowsUpTo, Columns
  <2>3. ASSUME NEW i \in DOMAIN fb,
               i \notin UNION {Cell(x, r) : x \in 0..(GUI_Width - 1), r \in Rows}
        PROVE  fb[i] = Old
    <3>1. i \in Pixels(fbi)
      BY DEF PrintInv
    <3>2. \A x \in Columns, r \in Rows : i \notin Cell(x, r)
      BY <2>3 DEF Columns
    <3> QED
      BY <3>1, <3>2 DEF Outside
  <2> QED
    BY <2>2, <2>3
<1> QED
  BY <1>1, <1>2, <1>3, PrintInvariant, PTL DEF Spec
-----------------------------------------------------------------------------
(* A print goes forward: each round of PrintStr's two loops moves it one        *)
(* column on, inside its row, or ends it, and the other printers leave it where *)
(* it is, so that it takes no more rounds than a row has columns.              *)
RoundAdvances(p) ==
  job[p].busy =>
    IF Step(p)
      THEN job'[p].busy => job'[p].x = job[p].x + 1 /\ job'[p].x < GUI_Width
      ELSE job'[p] = job[p]

LEMMA StepAdvances ==
  ASSUME PrintInv, NEW p \in Printers, Step(p)
  PROVE  job'[p].busy => job'[p].x = job[p].x + 1 /\ job'[p].x < GUI_Width
<1> DEFINE j == job[p]
<1>1. j \in Jobs /\ job \in [Printers -> Jobs]
  BY DEF PrintInv
<1>2. CASE PrintNext(p)
  <2>1. /\ j.x \in Columns /\ j.x + 1 < GUI_Width
        /\ job' = [job EXCEPT ![p] = [j EXCEPT !.x = j.x + 1, !.rest = Tail(j.rest)]]
    BY <1>2, PrintNextKeeps
  <2> QED
    BY <1>1, <2>1 DEF Jobs
<1>3. CASE FillLine(p)
  <2>1. /\ j.x \in Columns
        /\ IF j.x + 1 >= GUI_Width - 1
             THEN job' = [job EXCEPT ![p] = Idle]
             ELSE job' = [job EXCEPT ![p] = [j EXCEPT !.x = j.x + 1]]
    BY <1>3, FillLineKeeps
  <2>2. CASE j.x + 1 >= GUI_Width - 1
    <3>1. job' = [job EXCEPT ![p] = Idle] /\ ~Idle.busy
      BY <2>1, <2>2 DEF Idle
    <3> QED
      BY <1>1, <3>1
  <2>3. CASE ~(j.x + 1 >= GUI_Width - 1)
    <3>1. j.x + 1 < GUI_Width
      BY <2>1, <2>3, ScreenAssumption DEF Columns
    <3> QED
      BY <1>1, <2>1, <2>3, <3>1 DEF Jobs
  <2> QED
    BY <2>2, <2>3
<1> QED
  BY <1>2, <1>3 DEF Step

THEOREM PrintGoesForward == Spec => [][\A p \in Printers : RoundAdvances(p)]_vars
<1>1. ASSUME PrintInv, Next, NEW p \in Printers
      PROVE  RoundAdvances(p)
  <2>1. CASE Step(p)
    BY <1>1, <2>1, StepAdvances DEF RoundAdvances
  <2>2. ASSUME ~Step(p), job[p].busy
        PROVE  job'[p] = job[p]
    <3>1. ASSUME NEW q \in Printers, NEW row \in RowsOf[q], NEW s \in Messages, PrintStr(q, row, s)
          PROVE  job'[p] = job[p]
      BY <1>1, <2>2, <3>1 DEF PrintStr, PrintInv
    <3>2. ASSUME NEW q \in Printers, Step(q)
          PROVE  job'[p] = job[p]
      <4>1. q # p
        BY <2>2, <3>2
      <4> QED
        BY <1>1, <3>2, <4>1 DEF Step, PrintNext, FillLine, PrintInv
    <3> QED
      BY <1>1, <3>1, <3>2 DEF Next
  <2> QED
    BY <2>1, <2>2 DEF RoundAdvances
<1>2. PrintInv /\ [Next]_vars => [\A p \in Printers : RoundAdvances(p)]_vars
  BY <1>1
<1> QED
  BY <1>2, PrintInvariant, PTL DEF Spec
=============================================================================
