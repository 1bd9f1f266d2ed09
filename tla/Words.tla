------------------------------- MODULE Words --------------------------------
(***************************************************************************)
(* Words, flags, memories and opcodes of the machine (src/runtime.c,       *)
(* src/instructions.h), shared by the CPU and the instruction set.         *)
(*                                                                         *)
(* A memory is a function on the addresses that were given a value; the    *)
(* others hold 0. A flag register is the set of the flags that are 1.      *)
(***************************************************************************)
EXTENDS Integers, Sequences

Byte == 256
Word == 65536

At(memory, address) == IF address \in DOMAIN memory THEN memory[address] ELSE 0
Put(memory, address, value) ==
  [a \in DOMAIN memory \cup {address} |-> IF a = address THEN value ELSE memory[a]]

\* A word lies at an even address: the last bit of the address is ignored.
Even(address) == 2 * (address \div 2)
WordAt(memory, address) == At(memory, Even(address)) + Byte * At(memory, Even(address) + 1)
PutWord(memory, address, value) ==
  Put(Put(memory, Even(address), value % Byte), Even(address) + 1, value \div Byte)

Sector(sec, ndx) == Byte * sec + ndx

Plus(x, y) == (x + y) % Word

Flags(value, carry) ==
  {f \in {"Z"} : value = 0} \cup {f \in {"N"} : value >= Word \div 2} \cup {f \in {"C"} : carry}

\* PEEKAR, PUSHAR and the relative jumps add in the ALU, which changes the flags.
FlagsOfSum(x, y) == Flags(Plus(x, y), x + y >= Word)

\* Of one bit, of two, of four, of eight, of a word: of both halves.
And1(x, y)   == x * y
And2(x, y)   == 2 * And1(x \div 2, y \div 2) + And1(x % 2, y % 2)
And4(x, y)   == 4 * And2(x \div 4, y \div 4) + And2(x % 4, y % 4)
And8(x, y)   == 16 * And4(x \div 16, y \div 16) + And4(x % 16, y % 16)
BitAnd(x, y) == Byte * And8(x \div Byte, y \div Byte) + And8(x % Byte, y % Byte)

-----------------------------------------------------------------------------
(* Instruction set *)

Mnemonics ==
  << "NOP", "INCA", "DECA", "INCB", "RAM_AL", "RAM_BL", "RAM_A", "RAM_B", "INCSP", "DECSP",
     "PUSHA", "POPA", "PEEKA", "PEEKAR", "PUSHAR", "PUSHB", "POPB", "PEEKB",
     "SUM", "SUB", "SHR", "SHL", "AND", "CMPA", "CMPB",
     "JMP", "JMPR", "JMPRZ", "JMPRN", "JMPRC", "JMPRNZ", "JMPRNN", "JMPRNC", "JMPA", "JMPAR",
     "A_B", "B_A", "B_AH", "AL_rB", "A_rB", "rB_AL", "rB_A", "A_SP", "SP_A", "A_SEC", "SEC_A",
     "RAM_NDX", "INCNDX", "NDX_A", "A_NDX", "MEM_A", "MEM_AH", "A_MEM", "CALL", "CALLR", "RET",
     "KEY_A", "DRW", "RAM_DRW" >>

instruction_to_string(byte) ==
  IF byte = 63 THEN "HLT" ELSE IF byte < Len(Mnemonics) THEN Mnemonics[byte + 1] ELSE "none"

\* Six bits of a byte: the opcodes between RAM_DRW and HLT have no microcode.
InstructionOf(byte) == instruction_to_string(byte % 64)

RelativeJumps == {"JMPR", "JMPRZ", "JMPRN", "JMPRC", "JMPRNZ", "JMPRNN", "JMPRNC", "CALLR"}

\* RAM_NDX and RAM_DRW without their byte.
instruction_statOfCode(instruction) ==
  IF instruction \in {"RAM_AL", "RAM_BL", "PEEKAR", "PUSHAR"} THEN "8bits"
  ELSE IF instruction \in {"RAM_A", "RAM_B"} THEN "16bits"
  ELSE IF instruction \in {"JMP", "CALL"} THEN "label"
  ELSE IF instruction \in RelativeJumps THEN "rel"
  ELSE "none"

\* The argument of an instruction.
instruction_stat(instruction) ==
  IF instruction \in {"RAM_AL", "RAM_BL", "PEEKAR", "PUSHAR", "RAM_NDX", "RAM_DRW"} THEN "8bits"
  ELSE IF instruction \in {"RAM_A", "RAM_B"} THEN "16bits"
  ELSE IF instruction \in {"JMP", "CALL"} THEN "label"
  ELSE IF instruction \in RelativeJumps THEN "rel"
  ELSE "none"

InstructionLength(instruction) ==
  IF instruction_stat(instruction) = "none" THEN 1 ELSE IF instruction_stat(instruction) = "8bits" THEN 2 ELSE 3

\* Where these go on is not behind their argument.
Jumps == RelativeJumps \cup {"JMP", "CALL", "JMPA", "JMPAR", "RET"}
=============================================================================
