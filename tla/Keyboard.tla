------------------------------ MODULE Keyboard ------------------------------
(***************************************************************************)
(* The keyboard: load_input_string of the simulator queues the scancodes   *)
(* of the keys that type a string (src/runtime.c), KEY_A takes one of      *)
(* them, and get_char turns them into characters (src/asm/get_char.asm).   *)
(* Loads happen between two ticks, so also in the middle of get_char.      *)
(*                                                                         *)
(* typed and returned, all that was loaded and all that get_char returned, *)
(* are only observed. Characters are strings of themselves, but a few that *)
(* have names: semicolon, backquote, backslash, comma, space, underscore,  *)
(* open and close for the braces, quotes, tilde.                           *)
(***************************************************************************)
EXTENDS Integers, Sequences

CONSTANTS
  Chars,       \* bound: the characters that are typed n-th; "^D" is the end of input
  QueueLimit   \* scancodes the queue has room for: 1000

ASSUME LimitAssumption == QueueLimit \in Nat \ {0}

VARIABLES
  KEY_FIFO,     \* scancodes in the queue
  key_fifo_i,   \* index the next scancode is written to; -1 after an empty read
  pc,           \* get_char: "out", "get_char", "shift" or "ctrl"
  typed, returned,
  sim           \* "running", "asserted" or "crashed"

vars == <<KEY_FIFO, key_fifo_i, pc, typed, returned, sim>>

-----------------------------------------------------------------------------
(* Scancodes *)

LeftCtrl == 29
LeftShift == 42
Released(code) == code + 128

\* Characters of consecutive keys.
Keys(first, chars) == [code \in first .. first + Len(chars) - 1 |-> chars[code - first + 1]]

f ++ g == [code \in DOMAIN f \cup DOMAIN g |-> IF code \in DOMAIN f THEN f[code] ELSE g[code]]

\* char_to_scancode: the key of a character, and the ones that need shift.
PlainKeys ==
  Keys(2,  << "1", "2", "3", "4", "5", "6", "7", "8", "9", "0", "-", "=" >>) ++ Keys(15, << "\t" >>) ++
  Keys(16, << "q", "w", "e", "r", "t", "y", "u", "i", "o", "p", "[", "]", "\n" >>) ++
  Keys(30, << "a", "s", "d", "f", "g", "h", "j", "k", "l", "semicolon", "'", "backquote" >>) ++
  Keys(43, << "backslash", "z", "x", "c", "v", "b", "n", "m", "comma", ".", "/" >>) ++ Keys(57, << "space" >>)

ShiftKeys ==
  Keys(2,  << "!", "@", "#", "$", "%", "^", "&", "*", "(", ")", "underscore", "+" >>) ++
  Keys(16, << "Q", "W", "E", "R", "T", "Y", "U", "I", "O", "P", "open", "close" >>) ++
  Keys(30, << "A", "S", "D", "F", "G", "H", "J", "K", "L", ":", "quotes", "tilde" >>) ++
  Keys(43, << "|", "Z", "X", "C", "V", "B", "N", "M", "<", ">", "?" >>)

\* Characters whose key get_char has in its tables: a tab has none there, and a tilde gives
\* a backquote.
Decoded ==
  ({PlainKeys[code] : code \in DOMAIN PlainKeys} \cup {ShiftKeys[code] : code \in DOMAIN ShiftKeys}
     \cup {"^D"}) \ {"tilde", "\t"}

ASSUME CharsAssumption == Chars \in Seq(SUBSET Decoded)

CodeIn(keys, char) == CHOOSE code \in DOMAIN keys : keys[code] = char
IsIn(keys, char)   == \E code \in DOMAIN keys : keys[code] = char

\* What load_input_string queues for a character.
PressAndRelease(code) == << code, Released(code) >>
Shifted(char) == << LeftShift >> \o PressAndRelease(CodeIn(ShiftKeys, char)) \o << Released(LeftShift) >>

Scancodes(char) ==
  IF char = "^D"
  THEN << LeftCtrl >> \o PressAndRelease(CodeIn(PlainKeys, "d")) \o << Released(LeftCtrl) >>
  ELSE IF IsIn(ShiftKeys, char) THEN Shifted(char) ELSE PressAndRelease(CodeIn(PlainKeys, char))

\* scancode_to_ascii and scancode_to_ascii_shift; a key without a character has its
\* scancode there, 0 at the index 0.
WithCodes(keys) ==
  [code \in 0 .. 127 |-> IF code \in DOMAIN keys THEN keys[code]
                         ELSE IF code = 0 THEN "NUL" ELSE "scancode"]

scancode_to_ascii ==
  WithCodes(
    Keys(2,  << "1", "2", "3", "4", "5", "6", "7", "8", "9", "0", "-", "=" >>) ++
    Keys(16, << "q", "w", "e", "r", "t", "y", "u", "i", "o", "p", "[", "]", "\n" >>) ++
    Keys(30, << "a", "s", "d", "f", "g", "h", "j", "k", "l", "semicolon", "'", "backquote" >>) ++
    Keys(43, << "backslash", "z", "x", "c", "v", "b", "n", "m", "comma", ".", "/" >>) ++ Keys(57, << "space" >>))

scancode_to_ascii_shift ==
  WithCodes(
    Keys(2,  << "!", "@", "#", "$", "%", "^", "&", "*", "(", ")", "underscore", "+" >>) ++
    Keys(16, << "Q", "W", "E", "R", "T", "Y", "U", "I", "O", "P", "open", "close", "\n" >>) ++
    Keys(30, << "A", "S", "D", "F", "G", "H", "J", "K", "L", ":", "quotes", "backquote" >>) ++
    Keys(43, << "|", "Z", "X", "C", "V", "B", "N", "M", "<", ">", "?" >>) ++ Keys(57, << "space" >>))

-----------------------------------------------------------------------------
(* load_input_string *)

Init ==
  /\ KEY_FIFO = << >> /\ key_fifo_i = 0
  /\ pc = "out"
  /\ typed = << >> /\ returned = << >>
  /\ sim = "running"

\* A scancode written to index -1 is lost.
Queued(codes) == KEY_FIFO \o (IF key_fifo_i < 0 THEN Tail(codes) ELSE codes)

HasRoomForOne(codes) == key_fifo_i + 1 < QueueLimit
HasRoom(codes) == key_fifo_i + Len(codes) < QueueLimit

Load(char) ==
  /\ sim = "running"
  /\ LET codes == Scancodes(char)
     IN  IF HasRoom(codes)
         THEN /\ KEY_FIFO' = Queued(codes)
              /\ key_fifo_i' = key_fifo_i + Len(codes)
              /\ typed' = Append(typed, char)
              /\ UNCHANGED sim
         ELSE sim' = "asserted" /\ UNCHANGED <<KEY_FIFO, key_fifo_i, typed>>
  /\ UNCHANGED <<pc, returned>>

-----------------------------------------------------------------------------
(* get_char, called again and again by some program *)

\* A second read of an empty queue copies -1 bytes.
KEY_A(NextPc(_)) ==
  /\ sim = "running"
  /\ IF key_fifo_i < 0
     THEN sim' = "crashed" /\ UNCHANGED <<KEY_FIFO, key_fifo_i, pc, returned>>
     ELSE LET code == IF KEY_FIFO = << >> THEN 0 ELSE Head(KEY_FIFO)
          IN  /\ KEY_FIFO' = IF KEY_FIFO = << >> THEN << >> ELSE Tail(KEY_FIFO)
              /\ key_fifo_i' = key_fifo_i - 1
              /\ NextPc(code)
              /\ UNCHANGED sim
  /\ UNCHANGED typed

GoTo(place)  == pc' = place /\ UNCHANGED returned
Return(char) == pc' = "out" /\ returned' = Append(returned, char)

Call ==
  /\ sim = "running" /\ pc = "out" /\ GoTo("get_char")
  /\ UNCHANGED <<KEY_FIFO, key_fifo_i, typed, sim>>

ReleasesReturned(code) ==
  CASE code = LeftCtrl  -> GoTo("ctrl")
    [] code = LeftShift -> GoTo("shift")
    [] OTHER            -> Return(scancode_to_ascii[code % 128])

FirstCode(code) ==
  CASE code = LeftCtrl       -> GoTo("ctrl")
    [] code = LeftShift      -> GoTo("shift")
    [] code >= Released(0)   -> GoTo("get_char")
    [] OTHER                 -> Return(scancode_to_ascii[code])

get_char == pc = "get_char" /\ KEY_A(FirstCode)

\* load_input_string never lets go of shift before the key.
ShiftedCode(code) == Return(scancode_to_ascii_shift[code])

shift == pc = "shift" /\ KEY_A(ShiftedCode)

ControlCode(code) ==
  IF code = 32 THEN Return("^D") ELSE GoTo("get_char")

ctrl == pc = "ctrl" /\ KEY_A(ControlCode)

Next ==
  \/ Len(typed) < Len(Chars) /\ \E char \in Chars[Len(typed) + 1] : Load(char)
  \/ Call \/ get_char \/ shift \/ ctrl

Spec == Init /\ [][Next]_vars

-----------------------------------------------------------------------------
(* Properties *)

\* The index is the number of scancodes in the queue, at most the limit, or -1.
TypeOK ==
  /\ \A i \in DOMAIN KEY_FIFO : KEY_FIFO[i] \in 0 .. 255
  /\ Len(KEY_FIFO) < QueueLimit
  /\ key_fifo_i = Len(KEY_FIFO) \/ (KEY_FIFO = << >> /\ key_fifo_i = -1)
  /\ pc \in {"out", "get_char", "shift", "ctrl"}
  /\ sim \in {"running", "asserted", "crashed"}

\* get_char returned 0 because the queue was empty.
EmptyReads == {i \in DOMAIN returned : returned[i] = "NUL"}

\* Up to the first read of an empty queue get_char returns the characters that were
\* typed, each once and in order, whenever scancodes are loaded between its ticks, and it
\* finds the queue empty only when it returned all of them.
ReturnsTyped ==
  /\ EmptyReads = {} =>
       Len(returned) <= Len(typed) /\ returned = SubSeq(typed, 1, Len(returned))
  /\ EmptyReads = {Len(returned)} /\ key_fifo_i < 0 => returned = Append(typed, "NUL")
=============================================================================
