--------------------------- MODULE MCCodeAnalysis ---------------------------
(***************************************************************************)
(* Bodies of two and three statements between the label of the entry point *)
(* and ends that return, stop, or run into data: pushes and pops, jumps of *)
(* every kind to and fro, calls of the file itself and of the library,     *)
(* looks at the stack, data that looks like code or not.                   *)
(***************************************************************************)
EXTENDS CodeAnalysis

main == << "_start" >>
x == << "x" >>
exit == << "exit" >>

Plain(inst) == Bytecode("BINST", inst, 0, << >>)
WithByte(inst, num) == Bytecode("BINSTHEX", inst, num, << >>)
Named(inst, image) == Bytecode("BINSTLABEL", inst, 0, image)
Rel(inst, image) == Bytecode("BINSTRELLABEL", inst, 0, image)
Hex(num) == Bytecode("BHEX", "NOP", num, << >>)
Label(image) == Bytecode("BSETLABEL", "NOP", 0, image)
Global(image) == Bytecode("BGLOBAL", "NOP", 0, image)
Extern(image) == Bytecode("BEXTERN", "NOP", 0, image)

MCLibrary == << Global(exit), Label(exit), Plain("HLT") >>

Entry == << Global(main), Extern(exit), Label(main) >>
EntryAlone == << Global(main), Label(main) >>

Any ==
  { Plain("PUSHA"), Plain("POPA"), Plain("PEEKA"), WithByte("PEEKAR", 4), Plain("RET"),
    Named("JMP", x), Named("CALL", x), Named("CALL", exit), Rel("JMPR", x), Rel("JMPRZ", x), Rel("CALLR", main),
    Label(x), Hex(200) }
Fewer == Any \ {Plain("PEEKA"), Rel("CALLR", main), Hex(200)}
Relocatable == Any \ {Named("JMP", x), Named("CALL", x), Named("CALL", exit), Plain("PEEKA"), WithByte("PEEKAR", 4)}

Tails ==
  { << Plain("POPA"), Plain("RET") >>, << Plain("RET") >>,
    << Label(x), Plain("POPA"), Plain("RET") >>, << Plain("HLT"), Label(x), Plain("INCSP"), Rel("JMPR", main) >>,
    << Plain("RET"), Hex(4), Label(x), Plain("RET") >>, << Plain("RET"), Label(x), Plain("RET"), Hex(200), Label(<< "y" >>) >> }

Bodies(statements) == [1 .. 2 -> statements]
Longer(statements) == [1 .. 3 -> statements]

Sources(head, bodies) == {head \o b \o e : b \in bodies, e \in Tails}

MCFiles ==
  [source : Sources(Entry, Longer(Fewer)), form : {"asm"}, debug_info : {FALSE}]
    \cup [source : Sources(Entry, Bodies(Any)), form : {"obj", "exe"}, debug_info : BOOLEAN]
    \cup [source : Sources(EntryAlone, Bodies(Any)), form : {"so"}, debug_info : BOOLEAN]
    \cup [source : Sources(EntryAlone, Longer(Relocatable)), form : {"bin"}, debug_info : {FALSE}]
=============================================================================
