\* Messages of up to three characters in rows of four: the longest fills all
\* but the last column.
SPECIFICATION Spec
CONSTANTS
  CHAR_WIDTH = 2
  CHAR_HEIGHT = 2
  GUI_Width = 4
  GUI_Height = 3
  Word = 1024
  Modes <- MCModes
  Printers <- MCPrinters
  RowsOf <- MCRowsOf
  Glyphs = {"a"}
  MaxLength = 3
INVARIANTS
  TypeOK
  WritesInFrame
  RowsShowLast
