-------------------------------- MODULE Cpu ---------------------------------
(***************************************************************************)
(* The CPU of the simulator: control ROM and tick (src/runtime.c).         *)
(*                                                                         *)
(* A tick looks up the microcode of instruction IR, step SC and flags FR   *)
(* and lets the parts it names put a value on the bus and take it from     *)
(* there. A microcode is the set of its flags.                             *)
(***************************************************************************)
EXTENDS Words

VARIABLES
  A, B, SP, IP, X, Y, MAR, SEC, NDX, FR, SC, IR,  \* registers
  RAM, MEM,                                       \* memory and sectors
  KEY_FIFO, key_fifo_i,                           \* keyboard: queue and write index
  GPUA, ATTRIBUTE_RAM, PATTERN_RAM,               \* video address and memories
  sim                                             \* "running", "halted" or "crashed"

vars == <<A, B, SP, IP, X, Y, MAR, SEC, NDX, FR, SC, IR, RAM, MEM, KEY_FIFO,
          key_fifo_i, GPUA, ATTRIBUTE_RAM, PATTERN_RAM, sim>>

-----------------------------------------------------------------------------
(* Control ROM: patterns of microcode shared by several instructions *)

Move(from, to)     == << {from, to} >>
Increment(reg, to) == << {reg, "Yi"}, {"Xi"}, {"Ci", "ALUo", to} >>
Combine(y, op)     == << {"Ao", "Xi"}, {y, "Yi"}, op \cup {"ALUo", "Ai"} >>
Compare(reg)       == << {reg, "Xi"}, {"Yi"}, {"ALUo"} >>
Argument(to)       == << {"IPo", "MARi"}, {"RAM", "RAMo", to, "IPp"} >>
WideArgument(to)   == << {"IPo", "MARi"}, {"RAM", "RAMo", "RAM16", to, "IPp"}, {"IPp"} >>
PushWithSPo(reg)   == << {"SPo", "MARi"}, {"SPo", reg, "RAM", "RAM16", "SPu", "SPm"} >>
Push(reg)          == << {"SPo", "MARi"}, {reg, "RAM", "RAM16", "SPu", "SPm"} >>
Pop(to)            == << {"SPu"}, {"SPo", "MARi"}, {"RAM", "RAMo", "RAM16", to} >>
Peek(to)           == << {"SPu"}, {"SPo", "MARi"}, {"RAM", "RAMo", "RAM16", to, "SPu", "SPm"} >>
AtOffset(access)   ==
  << {"IPo", "MARi"}, {"RAM", "RAMo", "Yi", "IPp"}, {"SPo", "Xi"}, {"ALUo", "MARi"}, access >>
Relative           == << {"IPo", "MARi", "Yi"}, {"RAM", "RAMo", "RAM16", "Xi"}, {"ALUo", "IPi"} >>
AtB(access)        == << {"Bo", "MARi"}, access >>
SkipArgument       == << {"IPp"}, {"IPp"} >>

\* Whether the flags make a conditional jump jump.
Holds(condition, flags) ==
  \/ condition = "JMPRZ"  /\ "Z" \in flags
  \/ condition = "JMPRN"  /\ "N" \in flags
  \/ condition = "JMPRC"  /\ "C" \in flags
  \/ condition = "JMPRNZ" /\ "Z" \notin flags
  \/ condition = "JMPRNN" /\ "N" \notin flags
  \/ condition = "JMPRNC" /\ "C" \notin flags

Conditionals == {"JMPRZ", "JMPRN", "JMPRC", "JMPRNZ", "JMPRNN", "JMPRNC"}

SubtractionWithoutOne == Combine("Bo", {"_SUB"})
Subtraction           == Combine("Bo", {"_SUB", "Ci"})

\* Steps 2 on of each instruction, without the SCr that ends it.
Body ==
  [ NOP |-> << >>,
    INCA |-> Increment("Ao", "Ai"), INCB |-> Increment("Bo", "Bi"),
    DECA |-> << {"Ao", "Yi"}, {"Xi"}, {"_SUB", "ALUo", "Ai"} >>,
    RAM_AL |-> Argument("Ai"), RAM_BL |-> Argument("Bi"),
    RAM_A |-> WideArgument("Ai"), RAM_B |-> WideArgument("Bi"),
    INCSP |-> << {"SPu"} >>, DECSP |-> << {"SPu", "SPm"} >>,
    PUSHA |-> Push("Ao"), POPA |-> Pop("Ai"), PEEKA |-> Peek("Ai"),
    PUSHB |-> Push("Bo"), POPB |-> Pop("Bi"), PEEKB |-> Peek("Bi"),
    PEEKAR |-> AtOffset({"RAM", "RAMo", "RAM16", "Ai"}),
    PUSHAR |-> AtOffset({"Ao", "RAM", "RAM16"}),
    SUM |-> Combine("Bo", {}), SUB |-> Subtraction,
    SHL |-> Combine("Ao", {}), AND |-> Combine("Bo", {"_AND"}),
    SHR |-> << {"Ao", "Xi"}, {"ALUo", "_SHR", "Ai"} >>,
    CMPA |-> Compare("Ao"), CMPB |-> Compare("Bo"),
    JMP |-> << {"IPo", "MARi"}, {"RAM", "RAMo", "RAM16", "IPi"} >>,
    JMPR |-> Relative,
    JMPA |-> << {"Ao", "IPi"} >>,
    JMPAR |-> << {"IPo", "MARi", "Yi"}, {"Ao", "Xi"}, {"ALUo", "IPi"} >>,
    A_B |-> Move("Ao", "Bi"), B_A |-> Move("Bo", "Ai"), B_AH |-> Move("Bo", "AHi"),
    A_SP |-> Move("Ao", "SPi"), SP_A |-> Move("SPo", "Ai"),
    A_SEC |-> Move("Ao", "SECi"), SEC_A |-> Move("SECo", "Ai"),
    AL_rB |-> AtB({"Ao", "RAM"}), A_rB |-> AtB({"Ao", "RAM", "RAM16"}),
    rB_AL |-> AtB({"RAM", "RAMo", "Ai"}), rB_A |-> AtB({"RAM", "RAMo", "RAM16", "Ai"}),
    RAM_NDX |-> Argument("NDXi"), INCNDX |-> Increment("NDXo", "NDXi"),
    NDX_A |-> Move("NDXo", "Ai"), A_NDX |-> Move("Ao", "NDXi"),
    MEM_A |-> Move("MEMo", "Ai"), MEM_AH |-> Move("MEMo", "AHi"), A_MEM |-> Move("Ao", "MEMi"),
    CALL |-> << {"SPo", "MARi"}, {"IPo", "RAM", "RAM16", "SPu", "SPm"},
                {"IPo", "MARi"}, {"RAM", "RAMo", "RAM16", "IPi"} >>,
    CALLR |-> << {"SPo", "MARi"}, {"IPo", "RAM", "RAM16", "SPu", "SPm"},
                 {"IPo", "MARi", "Yi"}, {"RAM", "RAMo", "RAM16", "Xi"}, {"ALUo", "IPi"} >>,
    RET |-> << {"SPu"}, {"SPo", "MARi"}, {"RAM", "RAMo", "RAM16", "IPi"}, {"IPp"}, {"IPp"} >>,
    KEY_A |-> Move("KEYo", "Ai"),
    DRW |-> << {"Bo", "GPUAi"}, {"Ao", "GPUi"} >>,
    RAM_DRW |-> << {"Bo", "GPUAi"}, {"IPo", "MARi"}, {"RAM", "RAMo", "GPUi", "IPp"} >> ]

StepsWithoutReset(instruction, flags) ==
  IF instruction = "none" THEN << >>
  ELSE IF instruction = "HLT" THEN << {"_HLT"} >>
  ELSE IF instruction \in Conditionals THEN IF Holds(instruction, flags) THEN Relative ELSE SkipArgument
  ELSE Body[instruction]

StepsOf(instruction, flags) ==
  IF instruction = "none" THEN << >>
  ELSE IF instruction = "HLT" THEN << {"_HLT"} >>
  ELSE IF instruction \in Conditionals
       THEN Append(IF Holds(instruction, flags) THEN Relative ELSE SkipArgument, {"SCr"})
  ELSE Append(Body[instruction], {"SCr"})

control_rom(instruction, step, flags) ==
  LET steps == StepsOf(instruction, flags)
  IN  IF step = 0 THEN {"IPo", "MARi"}
      ELSE IF step = 1 THEN {"RAM", "RAMo", "IRi", "IPp"}
      ELSE IF step - 1 <= Len(steps) THEN steps[step - 1] ELSE {}

Microcode == control_rom(InstructionOf(IR), SC, FR)

-----------------------------------------------------------------------------
(* Parts of the machine *)

\* Value and carry. X is complemented for _SUB; Ci is added to it and may wrap it to 0,
\* which loses the carry.
ALU(mc) ==
  IF "_AND" \in mc THEN [value |-> BitAnd(X, Y), carry |-> FALSE]
  ELSE IF "_SHR" \in mc THEN [value |-> X \div 2, carry |-> X % 2 = 1]
  ELSE LET x == Plus(IF "_SUB" \in mc THEN Word - 1 - X ELSE X, IF "Ci" \in mc THEN 1 ELSE 0)
       IN  [value |-> Plus(x, Y), carry |-> x + Y >= Word]

\* What is on the bus: with several outputs enabled the last one of tick.
Bus(mc) ==
  IF "KEYo" \in mc THEN IF KEY_FIFO = << >> THEN 0 ELSE Head(KEY_FIFO)
  ELSE IF "SECo" \in mc THEN SEC
  ELSE IF "MEMo" \in mc THEN At(MEM, Sector(SEC, NDX))
  ELSE IF "NDXo" \in mc THEN NDX
  ELSE IF "SPo"  \in mc THEN SP
  ELSE IF "ALUo" \in mc THEN ALU(mc).value
  ELSE IF {"RAM", "RAMo"} \subseteq mc THEN IF "RAM16" \in mc THEN WordAt(RAM, MAR) ELSE At(RAM, MAR)
  ELSE IF "Bo"   \in mc THEN B
  ELSE IF "Ao"   \in mc THEN A
  ELSE IF "IPo"  \in mc THEN IP
  ELSE 0

-----------------------------------------------------------------------------
(* cpu_init: sector 0 of the image goes to the last 256 bytes of RAM. *)

InitialRAM(image) == [a \in {Word - Byte + i : i \in DOMAIN image \cap 0 .. Byte - 1} |->
                        image[a - (Word - Byte)]]

CpuInit(image) ==
  /\ A = 0 /\ B = 0 /\ SP = 0 /\ X = 0 /\ Y = 0
  /\ IP = Word - Byte /\ MAR = IP
  /\ SEC = 0 /\ NDX = 0 /\ FR = {} /\ SC = 0 /\ IR = 0
  /\ RAM = InitialRAM(image) /\ MEM = image
  /\ KEY_FIFO = << >> /\ key_fifo_i = 0
  /\ GPUA = 0 /\ ATTRIBUTE_RAM = << >> /\ PATTERN_RAM = << >>
  /\ sim = "running"

-----------------------------------------------------------------------------
(* tick *)

\* The queue is shifted by a memcpy of key_fifo_i bytes: fine once for an empty queue,
\* then the size is -1.
ReadsPastQueue(mc) == "KEYo" \in mc /\ key_fifo_i < 0

Tick ==
  LET mc  == Microcode
      bus == Bus(mc)
      on(flag) == flag \in mc
      takes(flag) == flag \in mc /\ "SCr" \notin mc  \* these come after the return of SCr
  IN
  /\ sim = "running" /\ ~ReadsPastQueue(mc)
  /\ FR' = IF on("ALUo") THEN Flags(ALU(mc).value, ALU(mc).carry) ELSE FR
  /\ SP' = IF on("SPi") THEN bus
           ELSE IF on("SPu") THEN Plus(SP, IF on("SPm") THEN -2 ELSE 2) ELSE SP
  /\ KEY_FIFO' = IF on("KEYo") /\ KEY_FIFO # << >> THEN Tail(KEY_FIFO) ELSE KEY_FIFO
  /\ key_fifo_i' = IF on("KEYo") THEN key_fifo_i - 1 ELSE key_fifo_i
  /\ IP' = Plus(IF on("IPi") THEN bus ELSE IP, IF on("IPp") THEN 1 ELSE 0)
  /\ A' = IF on("AHi") THEN ((Byte * bus) % Word) + (A % Byte) ELSE IF on("Ai") THEN bus ELSE A
  /\ MAR' = IF on("MARi") THEN bus ELSE MAR
  /\ B' = IF on("Bi") THEN bus ELSE B
  /\ RAM' = IF ~on("RAM") \/ on("RAMo") THEN RAM
            ELSE IF on("RAM16") THEN PutWord(RAM, MAR', bus) ELSE Put(RAM, MAR', bus % Byte)
  /\ X' = IF on("Xi") THEN bus ELSE X
  /\ Y' = IF on("Yi") THEN bus ELSE Y
  /\ IR' = IF on("IRi") THEN bus % Byte ELSE IR
  /\ SEC' = IF takes("SECi") THEN bus % 4096 ELSE SEC
  /\ NDX' = IF takes("NDXi") THEN bus % Byte ELSE NDX
  /\ MEM' = IF takes("MEMi") THEN Put(MEM, Sector(SEC', NDX'), bus % Byte) ELSE MEM
  /\ GPUA' = IF takes("GPUAi") THEN bus ELSE GPUA
  /\ PATTERN_RAM' = IF takes("GPUi") /\ GPUA' >= Word \div 2
                    THEN Put(PATTERN_RAM, GPUA' % (Word \div 2), bus % Byte) ELSE PATTERN_RAM
  /\ ATTRIBUTE_RAM' = IF takes("GPUi") /\ GPUA' < Word \div 2
                      THEN Put(ATTRIBUTE_RAM, GPUA', bus % Byte) ELSE ATTRIBUTE_RAM
  /\ SC' = IF on("SCr") THEN 0 ELSE ((IF on("_HLT") THEN 0 ELSE SC) + 1) % 16
  /\ sim' = IF on("_HLT") THEN "halted" ELSE sim

TickCrash ==
  /\ sim = "running" /\ ReadsPastQueue(Microcode)
  /\ sim' = "crashed"
  /\ UNCHANGED <<A, B, SP, IP, X, Y, MAR, SEC, NDX, FR, SC, IR, RAM, MEM, KEY_FIFO,
                 key_fifo_i, GPUA, ATTRIBUTE_RAM, PATTERN_RAM>>
=============================================================================
