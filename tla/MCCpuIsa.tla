------------------------------ MODULE MCCpuIsa ------------------------------
(***************************************************************************)
(* One instruction of every kind, the opcodes without microcode included,  *)
(* from every combination of flags the ALU can leave, with registers at    *)
(* the boundaries of words, stacks that wrap and jumps to both halves of   *)
(* memory and to 0.                                                        *)
(*                                                                         *)
(* For the step mode a program with nested calls, a conditional jump that  *)
(* is taken and HLTs, after which it starts again. DECA has a byte no tool *)
(* writes, at which the step mode stops early. Until the first HLT the     *)
(* window may be closed; an instruction cut by this leads back to start.   *)
(*                                                                         *)
(* start: NOP CALLR h  HLT  NOP RAM_AL 1  NOP CALLR f                      *)
(*        DECA+64  JMPRZ end  HLT  NOP                                     *)
(*  end:  HLT  JMPR start                                                  *)
(*  h:    RET  HLT  NOP JMPR start                                         *)
(*  f:    NOP CALLR g  RET                                                 *)
(*  g:    PUSHA POPA RET                                                   *)
(***************************************************************************)
EXTENDS StepMode, TLC

\* Z and N exclude each other.
FlagSets == {{}, {"Z"}, {"N"}, {"C"}, {"Z", "C"}, {"N", "C"}}

\* The wide argument of an instruction at an odd address is aligned.
Places    == {16385, 49151}
Arguments == {4, 65520, 49150, 16384}
\* The upper two bits of an opcode are ignored by tick.
Opcodes   == 0 .. Len(Mnemonics) \cup {63, 64 + 53, 128 + 35, 255}

Registers ==
  { [A |-> 0,     B |-> 0,     SP |-> 65534, SEC |-> 2,    NDX |-> 0,   garbage |-> 0,     KEYS |-> << >>, emptyReads |-> 0],
    [A |-> 1,     B |-> 65535, SP |-> 0,     SEC |-> 2,    NDX |-> 255, garbage |-> 65535, KEYS |-> <<30, 158>>, emptyReads |-> 0],
    [A |-> 32768, B |-> 32767, SP |-> 12286, SEC |-> 4095, NDX |-> 1,   garbage |-> 16385, KEYS |-> <<42>>, emptyReads |-> 0],
    [A |-> 65535, B |-> 1,     SP |-> 12288, SEC |-> 2,    NDX |-> 255, garbage |-> 4660,  KEYS |-> << >>, emptyReads |-> 0],
    [A |-> 4660,  B |-> 33025, SP |-> 65532, SEC |-> 2,    NDX |-> 0,   garbage |-> 255,   KEYS |-> << >>, emptyReads |-> 0],
    [A |-> 511,   B |-> 511,   SP |-> 12286, SEC |-> 2,    NDX |-> 7,   garbage |-> 256,   KEYS |-> << >>, emptyReads |-> 1] }

\* Words above the stacks and where B points to, and the instruction itself.
Data == (0 :> 18 @@ 1 :> 52 @@ 2 :> 255 @@ 3 :> 255 @@ 12288 :> 2 @@ 12289 :> 64 @@ 12290 :> 7
         @@ 12292 :> 9 @@ 12293 :> 128 @@ 32767 :> 200 @@ 65534 :> 1 @@ 65535 :> 130)

InstructionAt(place, opcode, argument) ==
  PutWord(Put(Data, place, opcode), place + 1, argument)

MCStarts ==
  { [A |-> r.A, B |-> r.B, SP |-> r.SP, IP |-> place, FR |-> flags, SEC |-> r.SEC, NDX |-> r.NDX,
     garbage |-> r.garbage, KEYS |-> r.KEYS, emptyReads |-> r.emptyReads, RAM |-> InstructionAt(place, opcode, argument),
     MEM |-> (Sector(2, 0) :> 68 @@ Sector(2, 255) :> 254 @@ Sector(4095, 1) :> 129)] :
      r \in Registers, place \in Places, flags \in FlagSets, opcode \in Opcodes, argument \in Arguments }

-----------------------------------------------------------------------------
Code(name) == CHOOSE c \in 0 .. 63 : InstructionOf(c) = name

Bytes ==
  << Code("NOP"), Code("CALLR"), 20, 0, Code("HLT"), Code("NOP"), Code("RAM_AL"), 1,
     Code("NOP"), Code("CALLR"), 18, 0, 64 + Code("DECA"), Code("JMPRZ"), 4, 0, Code("HLT"), Code("NOP"),
     Code("HLT"), Code("JMPR"), 236, 255,
     Code("RET"), Code("HLT"), Code("NOP"), Code("JMPR"), 230, 255,
     Code("NOP"), Code("CALLR"), 3, 0, Code("RET"),
     Code("PUSHA"), Code("POPA"), Code("RET") >>

MCImage == [i \in 0 .. Len(Bytes) - 1 |-> Bytes[i + 1]]
=============================================================================
