------------------------------ MODULE Toolchain ------------------------------
(***************************************************************************)
(* From source files to running code: the files of the library, the OS and *)
(* a program are assembled and linked, the library first because the other *)
(* two are linked against it (asm/Makefile, src/linker.c); the bootloader  *)
(* puts OS and library into RAM, execute puts the program into its page.   *)
(* Files are linked in any order, and may go through the formatter before  *)
(* they are assembled.                                                     *)
(***************************************************************************)
EXTENDS Load, FiniteSets

LOCAL INSTANCE SequencesExt

LOCAL INSTANCE FiniteSetsExt

CONSTANTS
  Sources,     \* the files of "stdlib", "os" and "program", each a sequence of sources
  ram_start,   \* the page of the program
  Text(_)      \* how the statements of a source are written down, in tokens

VARIABLES
  source,     \* what is built
  debug_info, \* -g
  formatted,  \* whether the sources go through the formatter
  making,     \* the output being made, "boot", "execute" or "end"
  objs,       \* object files of that output
  order,      \* per output, its files in the order they were linked
  state,      \* exe_state_t of the linker
  files,      \* outputs written
  ram,
  stdlib_ptr, \* where the bootloader left the library, the word at 0xF800
  how         \* "runs", or why there is nothing that runs

vars == <<source, debug_info, formatted, making, objs, order, state, files, ram, stdlib_ptr, how>>

Outputs == {"stdlib", "os", "program"}
NextOf == [stdlib |-> "os", os |-> "program", program |-> "boot"]
NoFile == << >>

-----------------------------------------------------------------------------
(* The formatter of assembly sources (src/asm_formatter.c), on its tokens:              *)
(* declarations and macros move to the start of the file, in this order, the rest stays *)
(* as it is. Its tokenizer never gets past a decimal number: it looks at the first      *)
(* digit again and again.                                                               *)

\* Where the tokens read so far go, and the list for the next one.
Unread == [globals |-> << >>, externs |-> << >>, macros |-> << >>, code |-> << >>, next |-> "code"]

\* The name behind GLOBAL and EXTERN, whatever it is, goes to their list; a macro ends
\* with the first closing brace.
Sorted(lists, token) ==
  CASE lists.next \in {"globals", "externs"} -> [lists EXCEPT ![lists.next] = Append(@, token), !.next = "code"]
    [] lists.next = "macros" ->
         [lists EXCEPT !.macros = Append(@, token), !.next = IF token.kind = "MACROC" THEN "code" ELSE "macros"]
    [] lists.next = "code" /\ token.kind = "GLOBAL" -> [lists EXCEPT !.next = "globals"]
    [] lists.next = "code" /\ token.kind = "EXTERN" -> [lists EXCEPT !.next = "externs"]
    [] lists.next = "code" /\ token.kind = "MACROO" -> [lists EXCEPT !.macros = Append(@, token), !.next = "macros"]
    [] OTHER -> [lists EXCEPT !.code = Append(@, token)]

\* A list of names with the keyword in front of each.
Declaring(kind, names) ==
  FlattenSeq([i \in DOMAIN names |-> << [names[i] EXCEPT !.kind = kind, !.image = << >>], names[i] >>])

Hangs(text) == \E i \in DOMAIN text : text[i].kind = "INT"

Written(lists) ==
  Declaring("GLOBAL", lists.globals) \o Declaring("EXTERN", lists.externs) \o lists.macros \o lists.code

WrittenCodeFirst(lists) ==
  Declaring("GLOBAL", lists.globals) \o Declaring("EXTERN", lists.externs) \o lists.code \o lists.macros

Formatted(text) == Written(FoldLeft(Sorted, Unread, text))

-----------------------------------------------------------------------------
Init ==
  /\ source \in Sources
  /\ debug_info \in BOOLEAN
  /\ formatted \in {b \in BOOLEAN : b => ~debug_info}   \* bound: one of the two
  /\ making = "stdlib" /\ objs = << >> /\ state = EmptyExe
  /\ order = [o \in Outputs |-> << >>]
  /\ files = [o \in Outputs |-> NoFile]
  /\ ram = Blank /\ stdlib_ptr = 0
  /\ how = "runs"

Refused(status) == status # "ok"

\* A tool that exits leaves no output.
Stop(status) == how' = IF Refused(status) THEN "refused" ELSE how

Working == making \in Outputs /\ how = "runs"
Files == source[making]
Objects == Len(objs)

\* The text of the next source.
NextText == Text(Files[Objects + 1])

assembler ==
  /\ Working /\ Objects < Len(Files) /\ (formatted => ~Hangs(NextText))
  /\ LET obj == assemble(IF formatted THEN Formatted(NextText) ELSE NextText, debug_info)
     IN  objs' = Append(objs, obj_encode_file(obj)) /\ Stop(obj.status)
  /\ UNCHANGED <<source, debug_info, formatted, making, order, state, files, ram, stdlib_ptr>>

asm_formatter_hangs ==
  /\ Working /\ Objects < Len(Files) /\ formatted /\ Hangs(NextText)
  /\ how' = "hung"
  /\ UNCHANGED <<source, debug_info, formatted, making, objs, order, state, files, ram, stdlib_ptr>>

\* Executables start with the boilerplate.
StartLinking ==
  /\ Working /\ Objects = Len(Files) /\ order[making] = << >> /\ making # "stdlib" /\ state = EmptyExe
  /\ state' = exe_link_boilerplate(state, debug_info)
  /\ Stop(state'.status)
  /\ UNCHANGED <<source, debug_info, formatted, making, objs, order, files, ram, stdlib_ptr>>

Linked == {order[making][i] : i \in DOMAIN order[making]}

LinkFile(k) ==
  /\ Working /\ Objects = Len(Files) /\ k \in DOMAIN objs \ Linked
  /\ making = "stdlib" \/ state # EmptyExe
  /\ state' = exe_link_obj(state, obj_decode(objs[k]), debug_info)
  /\ order' = [order EXCEPT ![making] = Append(@, k)]
  /\ Stop(state'.status)
  /\ UNCHANGED <<source, debug_info, formatted, making, objs, files, ram, stdlib_ptr>>

FinishLinking ==
  /\ Working /\ Linked = DOMAIN Files
  /\ LET final == exe_state_check_exe(IF making = "stdlib" THEN state ELSE exe_link_so(state, so_decode(files.stdlib)))
     IN  /\ Stop(final.status)
         /\ IF Refused(final.status)
            THEN state' = final /\ UNCHANGED <<making, files, objs>>
            ELSE /\ files' = [files EXCEPT ![making] = IF making = "stdlib" THEN so_encode_file(final) ELSE exe_encode_file(final)]
                 /\ making' = NextOf[making] /\ objs' = << >> /\ state' = EmptyExe
  /\ UNCHANGED <<source, debug_info, formatted, order, ram, stdlib_ptr>>

bootloader ==
  /\ making = "boot" /\ how = "runs"
  /\ LET booted == boot(ram, files.os, files.stdlib)
     IN  ram' = booted.ram /\ how' = booted.how /\ stdlib_ptr' = booted.stdlib
  /\ making' = "execute"
  /\ UNCHANGED <<source, debug_info, formatted, objs, order, state, files>>

execute ==
  /\ making = "execute" /\ how = "runs"
  /\ LET loaded == load(ram, files.program, ram_start, stdlib_ptr)
     IN  ram' = loaded.ram /\ how' = loaded.how
  /\ making' = "end"
  /\ UNCHANGED <<source, debug_info, formatted, objs, order, state, files, stdlib_ptr>>

Next ==
  \/ assembler \/ asm_formatter_hangs \/ StartLinking \/ (\E k \in DOMAIN objs : LinkFile(k)) \/ FinishLinking
  \/ bootloader \/ execute

Spec == Init /\ [][Next]_vars

-----------------------------------------------------------------------------
Image == INSTANCE SourceImage

StartOf == << [kind |-> "extern", image |-> << "_start" >>, bytes |-> << >>],
              [kind |-> "label", image |-> << "_start" >>, bytes |-> << JMP >>] >>

\* What a source means: as it stands or, formatted, with its declarations in front.
InFront(file, kinds) == SelectSeq(file, LAMBDA bc : bc.kind \in kinds)
Meant(file) ==
  IF formatted THEN InFront(file, {"global"}) \o InFront(file, {"extern"}) \o
                    SelectSeq(file, LAMBDA bc : bc.kind \notin {"global", "extern"})
  ELSE file
MeantFiles(o) == [k \in DOMAIN source[o] |-> Meant(source[o][k])]

\* The files of an output in the order they lie in memory.
InOrder(o) ==
  (IF o = "stdlib" THEN << >> ELSE << StartOf >>) \o [i \in DOMAIN order[o] |-> Meant(source[o][order[o][i]])]
Declaration(o) == (IF o = "stdlib" THEN << >> ELSE << StartOf >>) \o MeantFiles(o)

LibraryAt(base) == Image!GlobalsOf(InOrder("stdlib"), base)
LibraryOf(o) == IF o = "stdlib" THEN {} ELSE LibraryAt(0)

\* A file of the output refers to a name that only the library defines.
Uses(o) ==
  \E k \in DOMAIN source[o], l \in LibraryAt(0) :
    /\ l.image \in Image!Named(source[o][k]) \ Image!Declared(source[o][k], "set")
    /\ \A m \in DOMAIN source[o] : l.image \notin Image!Declared(source[o][m], "global")

\* The linker lists the references to a name once for each file that declares it EXTERN.
ReferencesTo(o, image) ==
  Cardinality({<<k, i>> \in (DOMAIN Declaration(o)) \X (0 .. 16) :
    /\ i \in DOMAIN Declaration(o)[k]
    /\ Declaration(o)[k][i].kind \in {"label", "rel"} /\ Declaration(o)[k][i].image = image})
DeclaredBy(o, image) == Cardinality({k \in DOMAIN Declaration(o) : image \in Image!Declared(Declaration(o)[k], "extern")})
Listed(o, images) ==
  MapThenSumSet(LAMBDA image : ReferencesTo(o, image) * (IF DeclaredBy(o, image) = 0 THEN 1 ELSE DeclaredBy(o, image)), images)

Mentioned(o) == UNION {Image!Named(Declaration(o)[k]) : k \in DOMAIN Declaration(o)}
Crowded(o) ==
  \/ \E image \in Mentioned(o) : ReferencesTo(o, image) >= INTERN_RELOC_MAX_COUNT
  \/ Listed(o, Mentioned(o) \cap {l.image : l \in LibraryOf(o)}) >= INTERN_RELOC_MAX_COUNT
  \/ Listed(o, Mentioned(o)) >= RELOC_MAX_COUNT

\* Positions of references and objects are even and in the code, what the
\* linker writes down stays within its arrays.
TypeOK ==
  /\ making \in Outputs \cup {"boot", "execute", "end"}
  /\ how \in {"runs", "refused", "hung", "FFFF", "FAFA", "lost"}
  /\ state.status = "ok" => WithinLimits(state) /\ Len(state.code) % 2 = 0
  /\ \A r \in {state.relocs[j] : j \in DOMAIN state.relocs} : r.where % 2 = 0 /\ r.where + 1 < Len(state.code)
  /\ \A a \in DOMAIN ram : ram[a] \in 0 .. BYTE - 1

\* The tools make a file of an output only if each of its names stands for one label, and of
\* every such output but those with more references than there is room for.
RefusesNonsense ==
  /\ \A o \in Outputs : files[o] # NoFile => Image!MakesSense(Declaration(o), LibraryOf(o))
  /\ how = "refused" => \/ ~Image!MakesSense(Declaration(making), LibraryOf(making))
                        \/ Crowded(making)

\* Wherever the files were put, memory holds the source with its names resolved:
\* OS and library once they are booted, the program once it is loaded, then too.
LoadedIsSource ==
  how = "runs" =>
    /\ making \in {"execute", "end"} =>
         /\ Image!Holds(ram, InOrder("os"), 0, LibraryAt(stdlib_ptr))
         /\ Image!Holds(ram, InOrder("stdlib"), stdlib_ptr, {})
    /\ making = "end" => Image!Holds(ram, InOrder("program"), ram_start, LibraryAt(stdlib_ptr))

\* OS and program run, once they are linked, if and only if they refer to the library:
\* the loaders stop at a file without names of it, and are lost in one that declares
\* some and refers to none.
LinkedRuns ==
  /\ making = "execute" => (how = "runs" <=> Uses("os"))
  /\ making = "end" => (how = "runs" <=> Uses("program"))

HoldsCode(base, code) == \A i \in DOMAIN code : ram[base + i - 1] = code[i]

\* A label is found where one of that name is.
FindsLabels(symbols, base, labels) ==
  \A l \in labels : \E m \in labels : m.image = l.image /\ m.pos = base + test_find_symbol(symbols, l.image)

AllLabels(o, base) == UNION {Image!LabelsOf(InOrder(o)[k], Image!Bases(InOrder(o), base)[k]) : k \in DOMAIN InOrder(o)}

\* The tests of the simulator relocate the files themselves: what they expect is what
\* bootloader and execute, written in another language, leave in RAM, and the symbols of a
\* file lead to its labels there.
TestsAgree ==
  LET os      == exe_decode(files.os)
      stdlib  == so_decode(files.stdlib)
      program == exe_decode(files.program)
  IN  how = "runs" =>
        /\ making \in {"execute", "end"} =>
             /\ HoldsCode(0, exe_reloc(os, 0, Len(os.code)))
             /\ HoldsCode(Len(os.code), so_reloc(stdlib, Len(os.code)))
             /\ FindsLabels(stdlib.symbols, Len(os.code), LibraryAt(Len(os.code)))
             /\ debug_info => FindsLabels(os.symbols, 0, AllLabels("os", 0))
        /\ making = "end" =>
             /\ HoldsCode(ram_start, exe_reloc(program, ram_start, stdlib_ptr))
             /\ debug_info => FindsLabels(program.symbols, ram_start, AllLabels("program", ram_start))

=============================================================================
