------------------------------ MODULE StepMode ------------------------------
(***************************************************************************)
(* The step mode of the simulator (step_mode in src/runtime.c): the        *)
(* machine, started by cpu_init, runs to its first HLT, or until its       *)
(* window is closed; then, at the prompt, the user runs an instruction,    *)
(* continues to the next HLT or skips a call, in any order. Commands that  *)
(* only print are left out.                                                *)
(*                                                                         *)
(* tick cuts IR to the six bits of an opcode, the step mode does not: it   *)
(* takes no byte from 64 on for an instruction, and in the control ROM the *)
(* upper bits of such a byte end up in the step.                           *)
(*                                                                         *)
(* committed, what programs see, called, the state a skip started from,    *)
(* and closed are only observed.                                           *)
(***************************************************************************)
EXTENDS CpuIsa

CONSTANT Image    \* the memory image: a function on some addresses of MEM

ASSUME ImageAssumption == IsMemory(Image)

VARIABLES
  command,     \* "free" from Starts, without commands; "main" before step mode;
               \* "none" at the prompt, "step", "continue", "skip"
  mc,          \* microcode the last step or skip looked up: the next one to run
  n,           \* calls without return during a skip
  called,
  closed       \* the window was closed, and no command has led out of the
               \* instruction that was under way

allVars == <<vars, committed, instructions, ticks, command, mc, n, called, closed>>

Init ==
  /\ \/ InitBetween /\ command = "free"
     \/ CpuInit(Image) /\ command = "main"
  /\ InitObserved
  /\ mc = {} /\ n = 0 /\ called = [SP |-> 0, IP |-> 0] /\ closed = FALSE

\* The byte IR holds is the opcode of one of these instructions, all eight bits of it.
IsRaw(names) == IR < 64 /\ InstructionOf(IR) \in names

Or(x, y) == x + y - BitAnd(x, y)

\* control_rom[IR | SC << 6 | FR << 10].
LookedUp == control_rom(InstructionOf(IR), Or(SC, IR \div 64), FR)

-----------------------------------------------------------------------------
(* Commands *)

AtPrompt == command = "none" /\ sim # "crashed"

\* running = true. A command that resets the step counter ends the instruction that had
\* only its reset left.
Start(name) ==
  /\ AtPrompt
  /\ command' = name /\ sim' = "running"
  /\ committed' = [(IF SC' = 0 THEN Visible ELSE committed) EXCEPT !.halted = FALSE]
  /\ ticks' = IF SC' = 0 THEN 0 ELSE ticks
  /\ closed' = (closed /\ name = "skip" /\ "SCr" \notin mc)
  /\ UNCHANGED <<A, B, SP, IP, X, Y, MAR, SEC, NDX, FR, IR, RAM, MEM, KEY_FIFO, key_fifo_i,
                 GPUA, ATTRIBUTE_RAM, PATTERN_RAM, instructions, mc>>

\* After a HLT the step counter is 1.
Step ==
  /\ SC' = IF IsRaw({"HLT"}) THEN 0 ELSE SC
  /\ Start("step")
  /\ UNCHANGED <<n, called>>

ContinueWithoutReset == SC' = SC /\ Start("continue") /\ UNCHANGED <<n, called>>

Continue == SC' = 0 /\ Start("continue") /\ UNCHANGED <<n, called>>

OnCall == IsRaw({"CALL", "CALLR"})

Skip ==
  /\ OnCall
  /\ SC' = SC /\ n' = 0
  /\ Start("skip")
  /\ called' = [SP |-> SP, IP |-> Plus(WordAt(RAM, Plus(SP, 2)), 2)]

-----------------------------------------------------------------------------
(* The loops of the commands, a tick at a time *)

Observe == ObservedTick /\ UNCHANGED <<instructions, called, closed>>

TickFree == command = "free" /\ (TickOfInstruction \/ CrashOfInstruction) /\ UNCHANGED <<command, mc, n, called, closed>>

TickOfStep ==
  /\ command = "step" /\ Observe
  /\ mc' = LookedUp'
  /\ command' = IF sim' = "halted" \/ "SCr" \in mc' THEN "none" ELSE command
  /\ UNCHANGED n

\* The loop of main and the one of continue run to a HLT.
TickToHalt ==
  /\ command \in {"main", "continue"} /\ Observe
  /\ command' = IF sim' = "halted" THEN "none" ELSE command
  /\ UNCHANGED <<n, mc>>

\* The loop of main looks at the window before each tick.
CloseWindow ==
  /\ command = "main" /\ sim = "running"
  /\ command' = "none" /\ closed' = TRUE
  /\ UNCHANGED <<vars, committed, instructions, ticks, mc, n, called>>

\* A call or a return is counted at its last step, before the tick.
CountedOnce ==
  IF "SCr" \notin mc THEN n
  ELSE IF OnCall THEN 1 ELSE IF IsRaw({"RET"}) THEN n - 1 ELSE n

Counted ==
  IF "SCr" \notin mc THEN n
  ELSE IF OnCall THEN n + 1 ELSE IF IsRaw({"RET"}) THEN n - 1 ELSE n

TickOfSkip ==
  /\ command = "skip" /\ Observe
  /\ n' = Counted
  /\ mc' = LookedUp'
  /\ command' = IF sim' = "halted" \/ n' = 0 THEN "none" ELSE command

Next == TickFree \/ Step \/ Continue \/ Skip \/ TickOfStep \/ TickToHalt \/ CloseWindow \/ TickOfSkip

Spec == Init /\ [][Next]_allVars

-----------------------------------------------------------------------------
(* Properties *)

\* Where the step mode cuts or repeats an instruction: at a prompt in the middle of one,
\* where the window was closed or a byte from 64 on made it stop or not stop, and behind a
\* HLT with such a byte, whose step counter no command but continue resets.
Torn ==
  \/ closed
  \/ command = "none" /\ IR >= 64
  \/ command = "step" /\ IR >= 64 /\ InstructionOf(IR) = "HLT"

\* Every instruction, with any flags before it and any garbage in X, Y and MAR, does to
\* what programs see exactly what the instruction set says, and nothing before it ends;
\* and whatever commands of the step mode the user mixes, no instruction is skipped,
\* repeated or cut, also where a HLT left the step counter at 1 and a command took the
\* machine over in the middle of an instruction. This is so wherever the machine is not
\* torn: without the step mode always.
ImplementsIsa == [][Instructions!Next \/ Resume \/ Torn]_committed

\* The next instruction is where the tools think it is (instruction_stat, by which the
\* assembler, the disassembler and the code analyzer tell arguments from instructions):
\* an instruction takes the bytes behind it that its statistics name, no more and no fewer.
FetchesAsEncoded == [][Torn \/ FetchedAsEncoded]_committed

\* "skip if on a CALL/CALLR skip to the RET" (src/runtime.c:1019): unless the program
\* halts on the way, a skip ends where the call it started from returns to, with the
\* stack of the caller, however deep the calls in between are nested. A skip in the
\* middle of the instruction the window was closed in is none: it makes a single tick.
SkipEndsAtReturn ==
  [][TickOfSkip /\ ~closed /\ command' = "none" /\ sim' = "running" =>
       IP' = called.IP /\ SP' = Plus(called.SP, 2)]_allVars
=============================================================================
