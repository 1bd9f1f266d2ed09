---------------------------- MODULE CodeAnalysis ----------------------------
(***************************************************************************)
(* The code analyzer on the files of the toolchain: a source is analyzed   *)
(* as it is, or assembled, linked and then analyzed. What the analyzer     *)
(* reports is compared with what the machine does with the bytes of the    *)
(* code: which instructions it runs, and with how much on the stack.       *)
(***************************************************************************)
EXTENDS CodeAnalyzer, CodeGraphs

LOCAL INSTANCE SequencesExt

CONSTANT Library    \* the source of the library

\* A file: the source it is made from, what it was made into and whether with -g.
Forms == {"asm", "obj", "exe", "so", "bin"}

-----------------------------------------------------------------------------
(* The toolchain *)

ObjectOf(source, debug_info) == obj_check(Compiled(StatementsOf(source)), debug_info)

LinkedObject(state, object, debug_info) == exe_link_obj(state, obj_decode(obj_encode_file(object)), debug_info)

Stdlib ==
  so_decode(so_encode_file(exe_state_check_exe(LinkedObject(EmptyExe, ObjectOf(Library, FALSE), FALSE))))

LinkedAs(form, object, debug_info) ==
  IF form = "exe"
  THEN exe_state_check_exe(
         exe_link_so(LinkedObject(exe_link_boilerplate(EmptyExe, debug_info), object, debug_info), Stdlib))
  ELSE exe_state_check_exe(LinkedObject(EmptyExe, object, debug_info))

Made(f) ==
  LET object == ObjectOf(f.source, f.debug_info)
  IN  IF object.status # "ok" \/ f.form \in {"asm", "obj"} THEN object
      ELSE LET linked == LinkedAs(f.form, object, f.debug_info)
           IN  IF linked.status = "ok" /\ f.form = "bin" /\ linked.relocs # << >>
               THEN [linked EXCEPT !.status = "error"] ELSE linked

\* main: the front end for the kind of the file. A file that could not be made is not analyzed.
AnalyzedAs(f) ==
  LET m == Made(f)
  IN  CASE f.form = "asm" -> analyze_asm(f.source)
        [] f.form # "asm" /\ m.status # "ok" -> [EmptyGraph EXCEPT !.status = "aborted"]
        [] f.form = "obj" /\ m.status = "ok" -> analyze_obj(obj_decode(obj_encode_file(m)))
        [] f.form = "exe" /\ m.status = "ok" -> analyze_exe(exe_decode(exe_encode_file(m)), Stdlib)
        [] f.form = "so"  /\ m.status = "ok" -> analyze_so(so_decode(so_encode_file(m)))
        [] OTHER -> analyze_bin(bin_encode_file(m))

VARIABLE made   \* the file as it was made, which the analyzer reads
analysisVars == <<vars, made>>

InitMade == Init /\ made = Made(file)
NextMade == Next /\ UNCHANGED made

SpecMade == InitMade /\ [][NextMade]_analysisVars /\ WF_analysisVars(NextMade)

-----------------------------------------------------------------------------
(* What the machine does *)

\* The source lies behind the boilerplate of an executable.
Base(f) == IF f.form = "exe" THEN Len(Boilerplate.code) ELSE 0

\* The addresses of the bytecodes of a source.
AddressesIn(f) ==
  LET statements == StatementsOf(f.source)
      layout     == Image!Layout(statements, Base(f))
  IN  [i \in DOMAIN f.source |-> layout[i] + Image!Gap(statements[i], layout[i])]

\* Code, and where in it are data, calls of exit, instructions of the source and what
\* something outside of the file runs: what has a name, or the start.
ProgramOf(f) ==
  LET address == AddressesIn(f)
      at(Is(_)) == {address[i] : i \in {j \in DOMAIN f.source : Is(f.source[j])}}
      globals == {f.source[i].image : i \in {j \in DOMAIN f.source : f.source[j].kind = "BGLOBAL"}}
  IN  [code   |-> made.code,
       data   |-> at(LAMBDA bc : bc.kind = "BHEX"),
       exits  |-> at(LAMBDA bc : bc.inst = "CALL" /\ bc.image = << "exit" >>),
       source |-> at(LAMBDA bc : bc.kind \in InstructionKinds),
       starts |-> IF f.form \in {"exe", "bin"} THEN {0} ELSE at(LAMBDA bc : bc.kind = "BSETLABEL" /\ bc.image \in globals)]

Runs(program, at) == at \in 0 .. Len(program.code) - 1 /\ at \notin program.data

InstructionAt(program, at) == Machine!instruction_to_string(program.code[at + 1])

\* Where the machine goes from an address, with what on the stack of the function.
\* Calls into other files return, but for exit.
StepsFrom(program, config) ==
  LET at     == config.at
      inst   == InstructionAt(program, at)
      word   == CodeWord(program.code, at + 1)
      target == [at |-> IF inst \in Relative THEN (at + 1 + word) % Word ELSE word,
                 sp |-> IF inst \in Calling THEN 0 ELSE config.sp]
      behind == [at |-> at + Machine!InstructionLength(inst),
                 sp |-> config.sp + (IF inst \in Pushing THEN 2 ELSE IF inst \in Popping THEN -2 ELSE 0)]
  IN  IF ~Runs(program, at) \/ inst \in Ending \/ at \in program.exits THEN {}
      ELSE {c \in {behind} : inst \notin Jumping} \cup
           {c \in {target} : inst \in Relative \cup {"JMP", "CALL"} /\ target.at # Unset}

\* Bounds: a way without a loop is no longer, and pushes and pops no more.
Executions(program) ==
  LET longest == Len(program.code)
      reach[n \in 0 .. longest] ==
        IF n = 0 THEN {[at |-> at, sp |-> 0] : at \in program.starts}
        ELSE LET before == reach[n - 1]
             IN  before \cup {c \in UNION {StepsFrom(program, config) : config \in before} : c.sp \in -2 * longest .. 2 * longest}
  IN  reach[longest]

\* It runs data or past the end, pops what it did not push, returns with something
\* pushed, or looks at a stack it has not filled.
Wrong(program, config) ==
  LET inst == InstructionAt(program, config.at)
  IN  \/ ~Runs(program, config.at)
      \/ config.sp < 0
      \/ inst = "RET" /\ config.sp # 0
      \/ inst \in {"PEEKAR", "PUSHAR"} /\ config.sp < CodeByte(program.code, config.at + 1)
      \/ inst \in {"PEEKAR", "PUSHAR", "PEEKA", "PEEKB"} /\ config.sp < 2

-----------------------------------------------------------------------------
(* Which files tell their code from their data and their jumps from their numbers *)

Symbols(f) == IF f.form = "bin" THEN {} ELSE {made.symbols[i] : i \in DOMAIN made.symbols}

\* Data is not the opcode of an instruction.
DataIsPlain(f) ==
  \A i \in DOMAIN f.source : f.source[i].kind = "BHEX" => Machine!instruction_to_string(f.source[i].num) = "none"

\* An absolute jump has a name, and no jump has a label of the file right in front.
JumpsAreNamed(f) ==
  LET address == AddressesIn(f)
  IN  \A i \in DOMAIN f.source : f.source[i].kind \in {"BINSTLABEL", "BINSTRELLABEL"} =>
        /\ \A s \in Symbols(f) : s.pos # address[i]
        /\ f.source[i].kind = "BINSTLABEL" =>
             \E s \in Symbols(f) : \E j \in DOMAIN s.relocs : s.relocs[j] = address[i] + 1

Followed(f) ==
  /\ made.status = "ok"
  /\ f.form = "asm" \/ (DataIsPlain(f) /\ JumpsAreNamed(f))

\* What the walk visited, but for labels and what the tools added to the source.
Seen(program) ==
  {[at |-> Node(i).at, sp |-> sp[i]] : i \in {j \in visited : Node(j).kind # "BSETLABEL" /\ Node(j).at \in program.source}}

-----------------------------------------------------------------------------
(* Properties *)

\* "creates a graph of the execution of the input file" (README.md:23): the nodes the walk
\* visits are the instructions the machine runs, those that no way leads to left out, and
\* each has the stack of some way that leads there, whatever the file was made into.
SeesExecution ==
  (Finished /\ graph.status = "ok") =>
    LET program == ProgramOf(file)
        runs    == Executions(program)
        seen    == Seen(program)
    IN  Followed(file) =>
          /\ seen \subseteq runs
          /\ {c.at : c \in runs} \cap program.source \subseteq {c.at : c \in seen}

\* The walk warns only if the machine does something wrong on some way, and always if it
\* does so with a stack the walk has seen. Where two ways lead to an instruction with
\* different stacks the walk knows the first alone; if no two do, there is a warning
\* whenever any way goes wrong.
WarnsOfWrong ==
  (Finished /\ graph.status = "ok") =>
    LET program == ProgramOf(file)
        runs    == Executions(program)
        wrong   == {c \in runs : Wrong(program, c)}
    IN  Followed(file) =>
          /\ warnings # {} => wrong # {}
          /\ warnings = {} => wrong \cap Seen(program) = {}
          /\ (warnings = {} /\ Cardinality({c.at : c \in runs}) = Cardinality(runs)) => wrong = {}

\* A file that could be made is analyzed, unless one of its symbols is no address of a
\* bytecode: a label at the end of the code, or behind data that looks like an instruction.
AnalyzesWhatWasMade ==
  graph.status # "ok" =>
    \/ made.status # "ok"
    \/ \E s \in Symbols(file) : s.pos = Len(made.code)
    \/ ~DataIsPlain(file)
=============================================================================
