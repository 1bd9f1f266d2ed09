------------------------------- MODULE CpuIsa -------------------------------
(***************************************************************************)
(* The CPU against its instruction set. committed is what programs saw     *)
(* when the last instruction ended; while the next one is under way the    *)
(* instruction set stutters, at its end it makes one step.                 *)
(*                                                                         *)
(* The machine starts between two instructions of some program, with any   *)
(* of the given values in its registers, garbage where instructions leave  *)
(* some, and runs MaxInstructions instructions.                            *)
(***************************************************************************)
EXTENDS Cpu

CONSTANTS
  Starts,            \* register and memory contents to start from
  MaxInstructions    \* bound: instructions that are run from there

ASSUME BoundAssumption == MaxInstructions \in Nat \ {0}

\* Registers hold words, memories and the keyboard queue bytes.
IsMemory(memory) ==
  memory = [a \in DOMAIN memory |-> memory[a]] /\ \A a \in DOMAIN memory : a \in Int /\ memory[a] \in 0 .. Byte - 1

ASSUME StartsAssumption ==
  \A s \in Starts :
    /\ {s.A, s.B, s.SP, s.IP, s.garbage} \subseteq 0 .. Word - 1
    /\ s.SEC \in Nat /\ s.SEC < 4096 /\ s.NDX \in 0 .. Byte - 1 /\ s.FR \subseteq {"Z", "N", "C"}
    /\ IsMemory(s.RAM) /\ IsMemory(s.MEM)
    /\ s.KEYS \in Seq(0 .. Byte - 1) /\ s.emptyReads \in Nat

\* What is observed: instructions counts those run from Starts, ticks those of the
\* instruction under way.
VARIABLES committed, instructions, ticks

Visible ==
  [A |-> A, B |-> B, SP |-> SP, IP |-> IP, SEC |-> SEC, NDX |-> NDX, FR |-> FR, RAM |-> RAM,
   MEM |-> MEM, KEYS |-> KEY_FIFO, ATTRIBUTES |-> ATTRIBUTE_RAM, PATTERNS |-> PATTERN_RAM,
   halted |-> sim = "halted"]

InitBetween ==
  /\ \E s \in Starts :
       /\ A = s.A /\ B = s.B /\ SP = s.SP /\ IP = s.IP /\ FR = s.FR
       /\ X = s.garbage /\ Y = s.garbage /\ MAR = s.garbage /\ IR = s.garbage % Byte
       /\ SEC = s.SEC /\ NDX = s.NDX /\ RAM = s.RAM /\ MEM = s.MEM
       /\ KEY_FIFO = s.KEYS /\ key_fifo_i = Len(s.KEYS) - s.emptyReads
  /\ SC = 0 /\ GPUA = 0 /\ ATTRIBUTE_RAM = << >> /\ PATTERN_RAM = << >>
  /\ sim = "running"

InitObserved == committed = Visible /\ instructions = 0 /\ ticks = 0

Ends == SC' = 0 \/ sim' = "halted"

\* A tick of the machine, observed.
ObservedTick ==
  /\ Tick
  /\ committed' = IF Ends THEN Visible' ELSE committed
  /\ ticks'     = IF Ends THEN 0 ELSE ticks + 1

TickOfInstruction ==
  /\ instructions < MaxInstructions
  /\ ObservedTick
  /\ instructions' = IF Ends THEN instructions + 1 ELSE instructions

CrashOfInstruction ==
  /\ instructions < MaxInstructions
  /\ TickCrash
  /\ UNCHANGED <<committed, instructions, ticks>>

-----------------------------------------------------------------------------
(* Properties; those that depend on the commands of the user are in StepMode *)

Instructions == INSTANCE Isa WITH m <- committed

\* A command of the user starts the machine again after a HLT.
Resume == committed' = [committed EXCEPT !.halted = FALSE]

Outputs == {"IPo", "Ao", "Bo", "RAMo", "ALUo", "SPo", "NDXo", "MEMo", "SECo", "KEYo"}

\* At most one part of the machine puts a value on the bus in a tick, whatever the flags
\* become in the middle of an instruction: in hardware two would fight.
OneOutput == \A a, b \in Outputs : {a, b} \subseteq Microcode => a = b

\* Each instruction that has microcode and is no jump on a condition ends with the
\* reset of the step counter, within 8 ticks; the step counter overflows, in 16, only for
\* a jump that was taken and whose sum in the ALU changed the flags it depends on, and
\* for opcodes without microcode.
EndsInTime ==
  ticks > 7 => InstructionOf(IR) \in Conditionals \cup {"none"}

\* What programs see changes by an instruction that takes the bytes its statistics name.
FetchedAsEncoded ==
  LET instruction == InstructionOf(At(committed.RAM, committed.IP))
  IN  ~committed.halted /\ ~committed'.halted /\ instruction_to_string(At(committed.RAM, committed.IP)) # "none" =>
        \/ instruction \in Jumps
        \/ committed'.IP = (committed.IP + InstructionLength(instruction)) % Word
=============================================================================
