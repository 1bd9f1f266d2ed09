------------------------------- MODULE Screen -------------------------------
(***************************************************************************)
(* The screen: put_char without a redirection, set_cursor and their cursor *)
(* and print_int (src/asm/print.asm), which divides by Arithmetic; the     *)
(* program that clears it (src/asm/clear.asm); and parse_int               *)
(* (src/asm/string.asm), which reads what print_int writes. A character is *)
(* its code.                                                               *)
(*                                                                         *)
(* shown, the last lines that were written, and printed, the number under  *)
(* print_int and what it has written of it, are only observed.             *)
(***************************************************************************)
EXTENDS Arithmetic, Sequences

CONSTANTS
  Chars,         \* characters that are written
  Numbers,       \* numbers that are printed
  max_cols,      \* last column: 0x4F
  max_rows       \* number of rows: 0x2B

Blank   == 0     \* shows nothing
NewLine == 10
Digits  == 48 .. 57

ASSUME ScreenAssumption ==
  /\ max_cols \in Nat \ {0} /\ max_rows \in Nat \ {0, 1}
  /\ Word > 255
  /\ Chars \subseteq 1 .. 255 \ {NewLine}
  /\ Numbers \subseteq Words16

VARIABLES
  col, row,               \* the cursor
  ATTRIBUTE_RAM,          \* the characters on the screen
  toClear,                \* characters clear.asm has left to write; 0 when it does not run
  num, digits,            \* what print_int has left to divide, and the stack of its remainders
  shown, printed

screenVars == <<col, row, ATTRIBUTE_RAM, shown>>
printVars  == <<num, digits, printed>>
allVars    == <<vars, screenVars, toClear, printVars>>

Rows    == 0 .. max_rows - 1
Columns == 0 .. max_cols
BlankScreen == [p \in Rows \X Columns |-> Blank]

NothingPrinted == [num |-> 0, text |-> << >>]

ScreenInit ==
  /\ Init
  /\ col = 0 /\ row = 0
  /\ ATTRIBUTE_RAM = BlankScreen
  /\ toClear = 0
  /\ num = 0 /\ digits = << >>
  /\ shown = << << >> >> /\ printed = NothingPrinted

-----------------------------------------------------------------------------
(* put_char *)

NextRow == IF row + 1 < max_rows THEN row + 1 ELSE 0

ClearShort(screen, y) == [p \in DOMAIN screen |-> IF p[1] = y /\ p[2] < max_cols THEN Blank ELSE screen[p]]
ClearLine(screen, y)  == [p \in DOMAIN screen |-> IF p[1] = y THEN Blank ELSE screen[p]]

\* The line the cursor goes to is cleared.
new_line(screen) ==
  /\ row' = NextRow /\ col' = 0
  /\ ATTRIBUTE_RAM' = ClearLine(screen, NextRow)

\* A full line is followed by a new one at once.
LineIsFull == col + 1 > max_cols

put_char(char) ==
  IF char = NewLine THEN new_line(ATTRIBUTE_RAM)
  ELSE LET screen == [ATTRIBUTE_RAM EXCEPT ![<<row, col>>] = char]
       IN  IF LineIsFull THEN new_line(screen)
           ELSE ATTRIBUTE_RAM' = screen /\ col' = col + 1 /\ row' = row

\* The last max_rows lines, the last of them under way.
Last(lines) == IF Len(lines) > max_rows THEN Tail(lines) ELSE lines
Observe(char) ==
  LET line == IF char = NewLine THEN shown[Len(shown)] ELSE Append(shown[Len(shown)], char)
      lines == [shown EXCEPT ![Len(shown)] = line]
  IN  shown' = IF row' = row THEN lines ELSE Last(Append(lines, << >>))

-----------------------------------------------------------------------------
(* Programs *)

Printing == num > 0 \/ digits # << >>

Idle == toClear = 0 /\ ~ Printing /\ op = "none"

Write(char) ==
  /\ Idle
  /\ put_char(char) /\ Observe(char)
  /\ UNCHANGED <<vars, toClear, printVars>>

\* set_cursor to the upper left corner, then 0x0D70 zeros.
set_cursor(x, y) == col' = x /\ row' = y

CharsButLastColumn == max_cols * max_rows
CharsOfScreen == (max_cols + 1) * max_rows

StartClear ==
  /\ Idle
  /\ set_cursor(0, 0)
  /\ toClear' = CharsOfScreen
  /\ UNCHANGED <<vars, ATTRIBUTE_RAM, shown, printVars>>

Clear ==
  /\ toClear > 0
  /\ put_char(Blank)
  /\ toClear' = toClear - 1
  /\ shown' = IF toClear = 1 THEN << << >> >> ELSE shown
  /\ UNCHANGED <<vars, printVars>>

\* The routines touch no screen: programs call them while it is empty.
Compute ==
  /\ toClear = 0 /\ ~ Printing /\ shown = << << >> >>
  /\ Next
  /\ UNCHANGED <<screenVars, toClear, printVars>>

-----------------------------------------------------------------------------
(* print_int *)

CharOfDigit(digit) == digit + 48

print_int(n) ==
  /\ Idle
  /\ \/ /\ n = 0
        /\ put_char(CharOfDigit(0)) /\ Observe(CharOfDigit(0))
        /\ UNCHANGED printVars
     \/ /\ n # 0
        /\ num' = n /\ digits' = << >> /\ printed' = [num |-> n, text |-> << >>]
        /\ UNCHANGED screenVars
  /\ UNCHANGED <<vars, toClear>>

PrintDigit ==
  /\ num > 0
  /\ Call("div", 10, num)
  /\ UNCHANGED <<screenVars, toClear, printVars>>

Divide ==
  /\ Printing
  /\ Step
  /\ UNCHANGED <<screenVars, toClear, printVars>>

DigitBelow(digit) == Append(digits, digit)
DigitOnTop(digit) == <<digit>> \o digits

DigitToChar ==
  /\ num > 0
  /\ Resume
  /\ num' = a /\ digits' = DigitOnTop(b)
  /\ UNCHANGED <<screenVars, toClear, printed>>

\* Every print_digit that returns pops its remainder.
PutDigit ==
  /\ num = 0 /\ digits # << >>
  /\ LET char == CharOfDigit(Head(digits))
     IN  /\ put_char(char) /\ Observe(char)
         /\ printed' = IF Len(digits) = 1 THEN NothingPrinted
                       ELSE [printed EXCEPT !.text = Append(@, char)]
  /\ digits' = Tail(digits)
  /\ UNCHANGED <<vars, toClear, num>>

ScreenNext ==
  \/ \E char \in Chars \cup {NewLine} : Write(char)
  \/ StartClear \/ Clear \/ Compute
  \/ \E n \in Numbers : print_int(n)
  \/ PrintDigit \/ Divide \/ DigitToChar \/ PutDigit

ScreenSpec == ScreenInit /\ [][ScreenNext]_allVars

-----------------------------------------------------------------------------
(* parse_int *)

\* Negative when the character is not a digit.
is_digit(char) ==
  LET below == Minus(9, Minus(char, 48))
  IN  IF Negative(below) THEN below ELSE Minus(9, below)

TimesTen(x) == Shl((Shl(Shl(x)) + x) % Word)

ParseError == Word - 1

parse_int(text) ==
  LET parsed[n \in 0 .. Len(text)] ==
        IF n = 0 THEN 0 ELSE (TimesTen(parsed[n - 1]) + is_digit(text[n])) % Word
  IN  IF \E n \in 1 .. Len(text) : Negative(is_digit(text[n])) THEN ParseError
      ELSE parsed[Len(text)]

-----------------------------------------------------------------------------
(* Properties *)

LineAt(line, c) == IF c < Len(line) THEN line[c + 1] ELSE Blank

\* The row of the line that is n lines above the cursor.
RowAbove(n) == (row - n) % max_rows

\* However lines end and however often the cursor comes round, the last lines that were
\* written are on the screen, whole, each in the row above the next one and with nothing
\* of older lines behind them.
ShowsLastLines ==
  toClear = 0 =>
    \A n \in 0 .. Len(shown) - 1 : \A c \in Columns :
      ATTRIBUTE_RAM[<<RowAbove(n), c>>] = LineAt(shown[Len(shown) - n], c)

\* clear.asm leaves an empty screen with the cursor where it started.
ClearsAll ==
  [][Clear /\ toClear' = 0 => ATTRIBUTE_RAM' = BlankScreen /\ col' = 0 /\ row' = 0]_allVars

Printed == Append(printed.text, CharOfDigit(Head(digits)))
PrintReturns == PutDigit /\ digits' = << >>

DecimalValue(text) ==
  LET value[n \in 0 .. Len(text)] == IF n = 0 THEN 0 ELSE 10 * value[n - 1] + (text[n] - 48)
  IN  value[Len(text)]

\* What print_int has written when it returns is the number in decimal, digits of which the
\* first is not 0, whatever the divisions before left on the stack; and parse_int reads
\* it back, numbers that programs take for errors included (asm/stack.asm:79 takes every
\* negative one for an error).
PrintsDecimal ==
  [][PrintReturns =>
       /\ \A n \in 1 .. Len(Printed) : Printed[n] \in Digits
       /\ Printed[1] # CharOfDigit(0)
       /\ DecimalValue(Printed) = printed.num
       /\ parse_int(Printed) = printed.num]_allVars
=============================================================================
