----------------------------- MODULE CodeGraphs -----------------------------
(***************************************************************************)
(* The front ends of the code analyzer (analyze_asm to analyze_bin in      *)
(* src/code_analyzer.c): the graph of a source file, whose nodes are its   *)
(* bytecodes, and the graphs of the files that the assembler and the       *)
(* linker make of it, decoded from the first byte on as if all were code,  *)
(* with the names their symbols still tell.                                *)
(*                                                                         *)
(* at, the address of a node, is only observed.                            *)
(***************************************************************************)
EXTENDS Link

LOCAL INSTANCE SequencesExt
Machine == INSTANCE Words
Image == INSTANCE SourceImage

Opcode(inst) == CHOOSE byte \in 0 .. 63 : Machine!instruction_to_string(byte) = inst

Bytecode(kind, inst, num, image) == [kind |-> kind, inst |-> inst, num |-> num, image |-> image]

\* What the assembler makes of a bytecode.
StatementOf(bc) ==
  CASE bc.kind = "BINST"         -> Statement("bytes", << >>, << Opcode(bc.inst) >>)
    [] bc.kind = "BINSTHEX"      -> Statement("bytes", << >>, << Opcode(bc.inst), bc.num >>)
    [] bc.kind = "BINSTHEX2"     -> Statement("word", << >>, << Opcode(bc.inst) >> \o TwoBytes(bc.num))
    [] bc.kind = "BINSTLABEL"    -> Statement("label", bc.image, << Opcode(bc.inst) >>)
    [] bc.kind = "BINSTRELLABEL" -> Statement("rel", bc.image, << Opcode(bc.inst) >>)
    [] bc.kind = "BHEX"          -> Statement("bytes", << >>, << bc.num >>)
    [] bc.kind = "BSETLABEL"     -> Statement("set", bc.image, << >>)
    [] bc.kind = "BGLOBAL"       -> Statement("global", bc.image, << >>)
    [] bc.kind = "BEXTERN"       -> Statement("extern", bc.image, << >>)
    [] bc.kind = "BALIGN"        -> Statement("align", << >>, << >>)

StatementsOf(source) == [i \in DOMAIN source |-> StatementOf(source[i])]

\* A node at an address.
Placed(bc, at) ==
  [kind |-> bc.kind, inst |-> bc.inst, num |-> bc.num, image |-> bc.image, at |-> at]

EmptyGraph == [nodes |-> << >>, labels |-> << >>, ip_nodes |-> << >>, entry_points |-> << >>, status |-> "ok"]

WithNode(graph, bc, at) == [graph EXCEPT !.nodes = Append(@, Placed(bc, at))]
LastNode(graph) == Len(graph.nodes) - 1

WithLabel(graph, image, node) == [graph EXCEPT !.labels = Append(@, [image |-> image, node |-> node])]

NodeNamed(graph, image) ==
  LET named == SelectSeq(graph.labels, LAMBDA label : label.image = image)
  IN  IF named = << >> THEN -1 ELSE named[1].node

WithEntries(graph, nodes) == IF graph.status = "ok" THEN [graph EXCEPT !.entry_points = nodes] ELSE graph

\* The entry points that have names are looked at before the walk.
Entering(graph, nodes) ==
  IF \E i \in DOMAIN nodes : nodes[i] = -1 THEN [graph EXCEPT !.status = "aborted"] ELSE WithEntries(graph, nodes)

-----------------------------------------------------------------------------
analyze_asm(source) ==
  LET at    == Image!Layout(StatementsOf(source), 0)
      code  == SelectSeq([i \in DOMAIN source |-> i], LAMBDA i : source[i].kind \notin {"BGLOBAL", "BEXTERN"})
      graph == FoldLeft(LAMBDA g, i :
                 LET with == WithNode(g, source[i], Image!At(StatementsOf(source), 0, i))
                 IN  IF source[i].kind = "BSETLABEL" THEN WithLabel(with, source[i].image, LastNode(with)) ELSE with,
                 EmptyGraph, code)
      globals == SelectSeq(source, LAMBDA bc : bc.kind = "BGLOBAL")
  IN  Entering(graph, [i \in DOMAIN globals |-> NodeNamed(graph, globals[i].image)])

-----------------------------------------------------------------------------
(* analyze_code *)

CodeByte(code, ip) == IF ip < Len(code) THEN code[ip + 1] ELSE 0
CodeWord(code, ip) == CodeByte(code, ip) + BYTE * CodeByte(code, ip + 1)

DecodedAt(code, ip) ==
  LET inst == Machine!instruction_to_string(CodeByte(code, ip))
  IN  CASE inst = "none" -> Bytecode("BHEX", "NOP", CodeByte(code, ip), << >>)
        [] inst # "none" /\ Machine!instruction_stat(inst) = "none" -> Bytecode("BINST", inst, 0, << >>)
        [] inst # "none" /\ Machine!instruction_stat(inst) = "8bits" ->
             Bytecode("BINSTHEX", inst, CodeByte(code, ip + 1), << >>)
        [] OTHER -> Bytecode("BINSTHEX2", inst, CodeWord(code, ip + 1), << >>)

LengthAt(code, ip) ==
  LET inst == Machine!instruction_to_string(CodeByte(code, ip))
  IN  IF inst = "none" THEN 1 ELSE Machine!InstructionLength(inst)

\* The bytecode at ip, behind a node for the first symbol that has this position. The
\* address is that of the label then.
DecodeAt(graph, code, symbols, ip) ==
  LET here    == SelectSeq(symbols, LAMBDA s : s.pos = ip)
      label   == Bytecode("BSETLABEL", "NOP", 0, here[1].image)
      node    == Len(graph.nodes)
      marked  == IF here = << >> THEN graph
                 ELSE WithLabel(WithNode(graph, label, ip), here[1].image, node)
  IN  [WithNode(marked, DecodedAt(code, ip), ip) EXCEPT !.ip_nodes = (ip :> node) @@ @]

\* Address by address, those inside of a bytecode left out.
Decoded(code, symbols) ==
  FoldLeft(LAMBDA done, ip :
             IF ip # done.ip THEN done
             ELSE [graph |-> DecodeAt(done.graph, code, symbols, ip), ip |-> ip + LengthAt(code, ip)],
           [graph |-> EmptyGraph, ip |-> 0], [i \in DOMAIN code |-> i - 1]).graph

\* The code is padded with a NOP that is never run.
WithoutPadding(graph) ==
  IF graph.nodes # << >> /\ graph.nodes[Len(graph.nodes)].inst = "NOP" /\ graph.nodes[Len(graph.nodes)].kind = "BINST"
  THEN [graph EXCEPT !.nodes[Len(graph.nodes)].kind = "BHEX"]
  ELSE graph

\* The argument at an address is the name of a label, if the node in front of it is an
\* instruction with a number; in front of a labelled instruction it is its label.
Renamed(graph, image, kind, where) ==
  IF (where - 1) \notin DOMAIN graph.ip_nodes THEN graph
  ELSE LET node == graph.ip_nodes[where - 1] + 1
       IN  IF graph.nodes[node].kind # "BINSTHEX2" THEN graph
           ELSE [graph EXCEPT !.nodes[node].kind = kind, !.nodes[node].image = image]

RenamedAll(graph, s) ==
  FoldLeft(LAMBDA g, where : Renamed(g, s.image, "BINSTRELLABEL", where),
           FoldLeft(LAMBDA g, where : Renamed(g, s.image, "BINSTLABEL", where), graph, s.relocs),
           s.relrelocs)

\* The position of a name that only others define is asserted too.
WithSymbolDefined(graph, s) ==
  CASE graph.status # "ok" -> graph
    [] graph.status = "ok" /\ s.pos \notin DOMAIN graph.ip_nodes -> [graph EXCEPT !.status = "aborted"]
    [] OTHER -> RenamedAll(WithLabel(graph, s.image, graph.ip_nodes[s.pos]), s)

WithSymbol(graph, s) ==
  CASE graph.status # "ok" -> graph
    [] graph.status = "ok" /\ s.pos = Unset -> RenamedAll(graph, s)
    [] graph.status = "ok" /\ s.pos # Unset /\ s.pos \notin DOMAIN graph.ip_nodes -> [graph EXCEPT !.status = "aborted"]
    [] OTHER -> RenamedAll(WithLabel(graph, s.image, graph.ip_nodes[s.pos]), s)

analyze_code(code, symbols) == FoldLeft(WithSymbol, WithoutPadding(Decoded(code, symbols)), symbols)

-----------------------------------------------------------------------------
EntryNames(graph, file) ==
  Entering(graph, [i \in DOMAIN file.globals |-> NodeNamed(graph, file.symbols[file.globals[i]].image)])

analyze_obj(obj) == EntryNames(analyze_code(obj.code, obj.symbols), obj)

analyze_so(so) == EntryNames(analyze_code(so.code, so.symbols), so)

\* A word that the loader points into the library is the name of the library's global there.
WithLibraryName(graph, stdlib, reloc) ==
  LET there == SelectSeq(stdlib.globals, LAMBDA i : stdlib.symbols[i].pos = reloc.what)
      from  == graph.ip_nodes[reloc.where - 1] + 1
  IN  CASE graph.status # "ok" -> graph
        [] graph.status = "ok" /\ (reloc.where - 1) \notin DOMAIN graph.ip_nodes -> [graph EXCEPT !.status = "aborted"]
        [] OTHER -> IF there = << >> THEN graph
                    ELSE [graph EXCEPT !.nodes[from].kind = "BINSTLABEL",
                                       !.nodes[from].image = stdlib.symbols[there[1]].image]

analyze_exe(exe, stdlib) ==
  LET graph == analyze_code(exe.code, exe.symbols)
      named == IF exe.dynamics = << >> THEN graph
               ELSE FoldLeft(LAMBDA g, reloc : WithLibraryName(g, stdlib, reloc), graph, exe.dynamics[1])
  IN  WithEntries(named, << 0 >>)

analyze_bin(code) == WithEntries(analyze_code(code, << >>), << 0 >>)

=============================================================================
