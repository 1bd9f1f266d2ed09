----------------------------- MODULE MCToolchain -----------------------------
(***************************************************************************)
(* A library of one or two files, an OS, and programs of two files:         *)
(* the first takes every body of two statements behind every choice of     *)
(* declarations, the second defines, uses or shadows the names of the      *)
(* first. Names are f and g of the library, x and _start of the program.   *)
(***************************************************************************)
EXTENDS Toolchain

LOCAL INSTANCE SequencesExt

f == << "f" >>
g == << "g" >>
x == << "x" >>
start == << "_start" >>

Byte == Statement("bytes", << >>, << 5 >>)
Call(name) == Statement("label", name, << 7 >>)
Jump(name) == Statement("rel", name, << 8 >>)
Set(name) == Statement("set", name, << >>)
Global(name) == Statement("global", name, << >>)
Extern(name) == Statement("extern", name, << >>)
Operand == Statement("bytes", << >>, << 4, 10 >>)   \* an instruction as the argument of another
Align == Statement("align", << >>, << >>)
Zeros == Statement("bytes", << >>, << 0, 0 >>)
Number == Statement("word", << >>, << 9, 1, 2 >>)

LibraryF == << Global(f), Byte, Set(f), Call(x), Jump(f), Set(x), Byte >>
LibraryG == << Call(f), Global(g), Set(g), Extern(f), Jump(x), Operand, Set(x), Align, Call(g) >>

\* Sources are written with macros, one of them in another, one as an argument.
Tok(kind, image, n) == [kind |-> kind, image |-> image, n |-> n, arg |-> "none"]
Name(image) == Tok("SYM", image, 0)
Inst(op, arg) == [Tok("INST", << >>, op) EXCEPT !.arg = arg]
Macro(image, tokens) == << Tok("MACROO", << >>, 0), Name(image) >> \o tokens \o << Tok("MACROC", << >>, 0) >>
five == << "f", "i" >>
byte == << "b", "y" >>
to_f == << "t", "o" >>
number == << "n", "u" >>

TextOf(st) ==
  CASE st = Byte           -> << Name(byte) >>
    [] st = Operand        -> << Inst(4, "8bits"), Inst(10, "none") >>
    [] st = Number         -> << Inst(9, "16bits"), Name(number) >>
    [] st = Call(f)        -> << Inst(7, "16bits"), Name(to_f) >>
    [] st.kind = "label" /\ st # Call(f) -> << Inst(st.bytes[1], "label"), Name(st.image) >>
    [] st.kind = "rel"     -> << Inst(st.bytes[1], "rel"), Tok("REL", << >>, 0), Name(st.image) >>
    [] st.kind = "set"     -> << Name(st.image), Tok("COLON", << >>, 0) >>
    [] st.kind = "global"  -> << Tok("GLOBAL", << >>, 0), Name(st.image) >>
    [] st.kind = "extern"  -> << Tok("EXTERN", << >>, 0), Name(st.image) >>
    [] st.kind = "align"   -> << Tok("ALIGN", << >>, 0) >>
    [] st = Zeros          -> << Tok("DB", << >>, 0), Tok("INT", << >>, 2) >>

Macros ==
  Macro(five, << Tok("HEX", << >>, 5) >>) \o Macro(byte, << Name(five) >>) \o
  Macro(to_f, << Name(f) >>) \o Macro(number, << Tok("HEX2", << >>, 1 + 2 * BYTE) >>)

\* Macros are defined behind the first declaration, or in front of all.
MCText(statements) ==
  LET texts == [i \in DOMAIN statements |-> TextOf(statements[i])]
  IN  IF statements[1].kind \in {"global", "extern"}
      THEN texts[1] \o Macros \o FlattenSeq(Tail(texts))
      ELSE Macros \o FlattenSeq(texts)

Libraries == {<< LibraryF >>, << LibraryF, LibraryG >>}

System == << << Global(start), Extern(f), Set(start), Call(f), Jump(start) >> >>
Program == << << Extern(f), Global(start), Byte, Set(start), Call(f) >> >>

\* Systems that do not use the library, and one that only says so.
OtherSystems ==
  { << << Global(start), Set(start), Jump(start) >> >>,
    << << Global(start), Extern(f), Set(start), Call(start) >> >> }

Heads == {<< >>, << Extern(f) >>, << Extern(x), Extern(f) >>, << Global(x), Extern(f) >>}
Bodies == {<< a, b >> : a, b \in {Byte, Number, Call(x), Jump(x), Set(x), Call(f)}}
FirstFiles == {<< Global(start) >> \o h \o << Set(start) >> \o b : h \in Heads, b \in Bodies}
SecondFiles ==
  { << Byte >>,
    << Global(x), Call(x), Byte, Set(x), Byte >>,
    << Set(x), Byte, Call(x), Jump(x) >>,
    << Set(x), Byte, Global(x), Zeros >>, << Set(x), Byte, Global(x) >>,
    << Extern(x), Byte, Call(x), Extern(f), Call(f) >>,
    << Global(f), Byte, Align, Set(f), Byte >>,
    << Extern(g), Call(g), Call(start), Extern(start) >> }

MCSources ==
  [stdlib : Libraries, os : {System}, program : {<< a, b >> : a \in FirstFiles, b \in SecondFiles}]
    \cup [stdlib : Libraries, os : OtherSystems, program : {Program}]
=============================================================================
