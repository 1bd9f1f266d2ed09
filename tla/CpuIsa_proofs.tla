--------------------------- MODULE CpuIsa_proofs ----------------------------
(***************************************************************************)
(* Proofs about the CPU, for every program image, every set of starting    *)
(* states and every sequence of commands the assumptions of Cpu, CpuIsa    *)
(* and StepMode allow: the microcode, tick by tick, implements the         *)
(* instruction set.                                                        *)
(*                                                                         *)
(* The argument. The registers and memories are gathered in one record     *)
(* (Machine); Micro is what one word of microcode does to such a record,   *)
(* and a tick is Micro with the word the control ROM looks up              *)
(* (TickIsMicro). A run is the sequence of the records since the           *)
(* instruction under way began. Each instruction has a course: which words *)
(* it looks up, and after how many it ends (BodyCourse, JumpCourse,        *)
(* SkipCourse, NoneCourse, HaltCourse). Each finished course, whatever     *)
(* stood in X, Y, MAR and IR before it, does what the instruction set says *)
(* (Does_...). The invariant Inv says that the machine is always within    *)
(* such a course that began at what programs saw last; it holds over every *)
(* tick, every command of the step mode and every way they interleave.     *)
(***************************************************************************)
EXTENDS StepMode, FiniteSets, SequenceTheorems, TLAPS

(***************************************************************************)
(* Words, bytes and memories, and that the operators of Words stay within  *)
(* them.                                                                   *)
(***************************************************************************)

\* Words and bytes.
Uint16 == {x \in Int : 0 <= x /\ x < Word}
Uint8  == {x \in Int : 0 <= x /\ x < Byte}
\* Memories are bytes at addresses that were written; At reads 0 elsewhere.
Memories == UNION {[D -> Uint8] : D \in SUBSET Int}

\* The numbers words and bytes stand for.
LEMMA Ranges ==
  /\ \A x \in Uint16 : x \in Int /\ 0 <= x /\ x < 65536
  /\ \A x \in Int : 0 <= x /\ x < 65536 => x \in Uint16
  /\ \A x \in Uint8 : x \in Int /\ 0 <= x /\ x < 256
  /\ \A x \in Int : 0 <= x /\ x < 256 => x \in Uint8
  /\ Uint8 \subseteq Uint16
BY SMTT(30) DEF Uint16, Uint8, Word, Byte

\* The same as intervals, as the assumptions on the starting states name them.
LEMMA Intervals ==
  /\ \A x \in 0 .. Word - 1 : x \in Uint16
  /\ \A x \in 0 .. Byte - 1 : x \in Uint8
  /\ 0 .. Byte - 1 = Uint8
<1>1. Word \in Int /\ Byte \in Int
  BY SMT DEF Word, Byte
<1>2. \A x \in 0 .. Word - 1 : x \in Uint16
  BY ONLY <1>1, SMT DEF Uint16
<1>3. \A x : x \in 0 .. Byte - 1 <=> x \in Uint8
  BY ONLY <1>1, SMT DEF Uint8
<1>4. \A x \in 0 .. Byte - 1 : x \in Uint8
  BY ONLY <1>3, SMT
<1>5. 0 .. Byte - 1 = Uint8
  BY ONLY <1>3, Zenon
<1> QED BY ONLY <1>2, <1>4, <1>5, SMT

\* The sum of two integers, cut to a word, is a word.
LEMMA PlusType == ASSUME NEW x \in Int, NEW y \in Int PROVE Plus(x, y) \in Uint16
<1>1. (x + y) % 65536 \in Int /\ 0 <= (x + y) % 65536 /\ (x + y) % 65536 < 65536
  OBVIOUS
<1> QED BY <1>1, Ranges DEF Plus, Word

\* Halves and low and high bytes of a word.
LEMMA ModType ==
  ASSUME NEW x \in Uint16
  PROVE  x % 256 \in Uint8 /\ x \div 256 \in Uint8 /\ x \div 2 \in Uint16 /\ x % 4096 \in 0 .. 4095
         /\ x % 32768 \in Int
<1>1. x \in Int /\ 0 <= x /\ x < 65536 BY Ranges
<1>2. x % 256 \in Int /\ 0 <= x % 256 /\ x % 256 < 256 BY <1>1
<1>3. x \div 256 \in Int /\ 0 <= x \div 256 /\ x \div 256 < 256 BY <1>1
<1>4. x \div 2 \in Int /\ 0 <= x \div 2 /\ x \div 2 < 65536 BY <1>1
<1>5. x % 4096 \in 0 .. 4095 /\ x % 32768 \in Int BY <1>1
<1>6. x % 256 \in Uint8 /\ x \div 256 \in Uint8 /\ x \div 2 \in Uint16
  BY ONLY <1>2, <1>3, <1>4, Ranges
<1> QED BY ONLY <1>5, <1>6, SMT

\* Loading the high byte of A (AHi) leaves a word.
LEMMA HighType ==
  ASSUME NEW x \in Uint16, NEW a \in Uint16
  PROVE  ((Byte * x) % Word) + (a % Byte) \in Uint16
<1>1. x \in Int /\ a \in Int /\ 0 <= x /\ x < 65536 /\ 0 <= a BY Ranges
<1> DEFINE q == x \div 256
<1> DEFINE r == x % 256
<1>2. q \in Int /\ r \in Int /\ x = 256 * q + r /\ 0 <= r /\ r < 256 BY <1>1
<1> HIDE DEF q, r
<1>4. (256 * (256 * q + r)) % 65536 = 256 * r BY <1>2
<1>3. (256 * x) % 65536 = 256 * r BY <1>2, <1>4
<1>5. a % 256 \in Int /\ 0 <= a % 256 /\ a % 256 < 256 BY <1>1
<1>6. 256 * r + (a % 256) \in Int /\ 0 <= 256 * r + (a % 256) /\ 256 * r + (a % 256) < 65536 BY <1>2, <1>5
<1> QED BY <1>3, <1>6, Ranges DEF Byte, Word

\* The address a 16 bit access is aligned to.
LEMMA EvenType == ASSUME NEW a \in Int PROVE Even(a) \in Int
BY DEF Even

\* Memories hold bytes, also where nothing was written.
LEMMA AtType == ASSUME NEW memory \in Memories, NEW a PROVE At(memory, a) \in Uint8
<1>1. PICK D \in SUBSET Int : memory \in [D -> Uint8] BY DEF Memories
<1>2. 0 \in Uint8 BY Ranges
<1>3. DOMAIN memory = D /\ \A d \in D : memory[d] \in Uint8 BY <1>1
<1>4. CASE a \in DOMAIN memory BY <1>3, <1>4, Zenon DEF At
<1>5. CASE a \notin DOMAIN memory BY <1>2, <1>5 DEF At
<1> QED BY <1>4, <1>5

\* Two bytes of a memory make a word.
LEMMA WordAtType == ASSUME NEW memory \in Memories, NEW a PROVE WordAt(memory, a) \in Uint16
<1> DEFINE low == At(memory, Even(a))
<1> DEFINE high == At(memory, Even(a) + 1)
<1>1. low \in Uint8 /\ high \in Uint8 BY AtType
<1> HIDE DEF low, high
<1>2. low + 256 * high \in Int /\ 0 <= low + 256 * high /\ low + 256 * high < 65536 BY <1>1, Ranges
<1> QED BY <1>2, Ranges DEF low, high, WordAt, Byte

\* A memory with a byte written is a memory.
LEMMA PutType ==
  ASSUME NEW memory \in Memories, NEW a \in Int, NEW x \in Uint8
  PROVE  Put(memory, a, x) \in Memories
<1>1. PICK D \in SUBSET Int : memory \in [D -> Uint8] BY DEF Memories
<1>2. Put(memory, a, x) \in [D \cup {a} -> Uint8] BY <1>1 DEF Put
<1>3. D \cup {a} \in SUBSET Int BY <1>1
<1> QED BY <1>2, <1>3 DEF Memories

\* A memory with a word written is a memory.
LEMMA PutWordType ==
  ASSUME NEW memory \in Memories, NEW a \in Int, NEW x \in Uint16
  PROVE  PutWord(memory, a, x) \in Memories
<1>1. Even(a) \in Int /\ Even(a) + 1 \in Int BY EvenType
<1>2. Put(memory, Even(a), x % Byte) \in Memories BY <1>1, ModType, PutType DEF Byte
<1>3. x \div Byte \in Uint8 BY ModType DEF Byte
<1> QED BY <1>1, <1>2, <1>3, PutType DEF PutWord

\* Flags are some of Z, N and C.
LEMMA FlagsType == ASSUME NEW x, NEW c PROVE Flags(x, c) \in SUBSET {"Z", "N", "C"}
BY DEF Flags

\* Only the truth of the carry matters to the flags.
LEMMA FlagsSame ==
  ASSUME NEW x, NEW c \in BOOLEAN, NEW d \in BOOLEAN, c <=> d PROVE Flags(x, c) = Flags(x, d)
BY DEF Flags

\* The conjunction of two bits each is two bits.
LEMMA And2Type == \A x, y \in 0 .. 3 : And2(x, y) \in 0 .. 3
<1> SUFFICES ASSUME NEW x \in 0 .. 3, NEW y \in 0 .. 3 PROVE And2(x, y) \in 0 .. 3
  OBVIOUS
<1>1. x \in {0, 1, 2, 3} /\ y \in {0, 1, 2, 3} OBVIOUS
<1>2. x \div 2 \in {0, 1} /\ x % 2 \in {0, 1} /\ y \div 2 \in {0, 1} /\ y % 2 \in {0, 1} BY <1>1
<1>3. And1(x \div 2, y \div 2) \in {0, 1} /\ And1(x % 2, y % 2) \in {0, 1} BY <1>2 DEF And1
<1> QED BY <1>3 DEF And2

\* The conjunction of four bits each is four bits.
LEMMA And4Type == \A x, y \in 0 .. 15 : And4(x, y) \in 0 .. 15
<1> SUFFICES ASSUME NEW x \in 0 .. 15, NEW y \in 0 .. 15 PROVE And4(x, y) \in 0 .. 15
  OBVIOUS
<1>2. x \div 4 \in 0 .. 3 /\ x % 4 \in 0 .. 3 /\ y \div 4 \in 0 .. 3 /\ y % 4 \in 0 .. 3 OBVIOUS
<1>3. And2(x \div 4, y \div 4) \in 0 .. 3 /\ And2(x % 4, y % 4) \in 0 .. 3 BY <1>2, And2Type
<1> QED BY <1>3 DEF And4

\* The conjunction of bytes is a byte.
LEMMA And8Type == \A x, y \in Uint8 : And8(x, y) \in Uint8
<1> SUFFICES ASSUME NEW x \in Uint8, NEW y \in Uint8 PROVE And8(x, y) \in Uint8
  OBVIOUS
<1>1. x \in Int /\ y \in Int /\ 0 <= x /\ x < 256 /\ 0 <= y /\ y < 256 BY Ranges
<1>2. x \div 16 \in 0 .. 15 /\ x % 16 \in 0 .. 15 BY <1>1
<1>4. y \div 16 \in 0 .. 15 /\ y % 16 \in 0 .. 15 BY <1>1
<1>3. And4(x \div 16, y \div 16) \in 0 .. 15 /\ And4(x % 16, y % 16) \in 0 .. 15 BY <1>2, <1>4, And4Type
<1> QED BY <1>3, Ranges DEF And8

\* The conjunction of words is a word.
LEMMA BitAndType == ASSUME NEW x \in Uint16, NEW y \in Uint16 PROVE BitAnd(x, y) \in Uint16
<1>1. x % 256 \in Uint8 /\ x \div 256 \in Uint8 /\ y % 256 \in Uint8 /\ y \div 256 \in Uint8 BY ModType
<1> DEFINE high == And8(x \div 256, y \div 256)
<1> DEFINE low == And8(x % 256, y % 256)
<1>2. high \in Uint8 /\ low \in Uint8 BY <1>1, And8Type
<1> HIDE DEF high, low
<1>3. 256 * high + low \in Int /\ 0 <= 256 * high + low /\ 256 * high + low < 65536 BY <1>2, Ranges
<1> QED BY <1>3, Ranges DEF high, low, BitAnd, Byte

(***************************************************************************)
(* The machine as a record, and one word of microcode as a function of it. *)
(***************************************************************************)

\* The machine with every register within its width.
States ==
  [A : Uint16, B : Uint16, SP : Uint16, IP : Uint16, X : Uint16, Y : Uint16, MAR : Uint16,
   SEC : Uint16, NDX : Uint8, FR : SUBSET {"Z", "N", "C"}, IR : Uint8, RAM : Memories, MEM : Memories,
   KEYS : Seq(Uint8), GPUA : Uint16, ATTRIBUTES : Memories, PATTERNS : Memories]

\* The machine of the model as a record.
Machine ==
  [A |-> A, B |-> B, SP |-> SP, IP |-> IP, X |-> X, Y |-> Y, MAR |-> MAR, SEC |-> SEC, NDX |-> NDX,
   FR |-> FR, IR |-> IR, RAM |-> RAM, MEM |-> MEM, KEYS |-> KEY_FIFO, GPUA |-> GPUA,
   ATTRIBUTES |-> ATTRIBUTE_RAM, PATTERNS |-> PATTERN_RAM]

\* The sum, shift or conjunction a word asks of the ALU.
ALUOf(s, w) ==
  IF "_AND" \in w THEN [value |-> BitAnd(s.X, s.Y), carry |-> FALSE]
  ELSE IF "_SHR" \in w THEN [value |-> s.X \div 2, carry |-> s.X % 2 = 1]
  ELSE LET x == Plus(IF "_SUB" \in w THEN Word - 1 - s.X ELSE s.X, IF "Ci" \in w THEN 1 ELSE 0)
       IN  [value |-> Plus(x, s.Y), carry |-> x + s.Y >= Word]

\* What is on the bus: the first source of the list that the word names.
BusOf(s, w) ==
  IF "KEYo" \in w THEN IF s.KEYS = << >> THEN 0 ELSE Head(s.KEYS)
  ELSE IF "SECo" \in w THEN s.SEC
  ELSE IF "MEMo" \in w THEN At(s.MEM, Sector(s.SEC, s.NDX))
  ELSE IF "NDXo" \in w THEN s.NDX
  ELSE IF "SPo"  \in w THEN s.SP
  ELSE IF "ALUo" \in w THEN ALUOf(s, w).value
  ELSE IF {"RAM", "RAMo"} \subseteq w THEN IF "RAM16" \in w THEN WordAt(s.RAM, s.MAR) ELSE At(s.RAM, s.MAR)
  ELSE IF "Bo"   \in w THEN s.B
  ELSE IF "Ao"   \in w THEN s.A
  ELSE IF "IPo"  \in w THEN s.IP
  ELSE 0

\* A with its high byte replaced.
HighByte(x, a) == ((Byte * x) % Word) + (a % Byte)

\* One tick with the word w, from the record s.
Micro(s, w) ==
  LET bus  == BusOf(s, w)
      takes(flag) == flag \in w /\ "SCr" \notin w
      ip   == IF "IPi" \in w THEN bus ELSE s.IP
      mar  == IF "MARi" \in w THEN bus ELSE s.MAR
      sec  == IF takes("SECi") THEN bus % 4096 ELSE s.SEC
      ndx  == IF takes("NDXi") THEN bus % Byte ELSE s.NDX
      gpua == IF takes("GPUAi") THEN bus ELSE s.GPUA
  IN
  [A   |-> IF "AHi" \in w THEN HighByte(bus, s.A) ELSE IF "Ai" \in w THEN bus ELSE s.A,
   B   |-> IF "Bi" \in w THEN bus ELSE s.B,
   SP  |-> IF "SPi" \in w THEN bus
           ELSE IF "SPu" \in w THEN Plus(s.SP, IF "SPm" \in w THEN -2 ELSE 2) ELSE s.SP,
   IP  |-> IF "IPp" \in w THEN Plus(ip, 1) ELSE ip,
   X   |-> IF "Xi" \in w THEN bus ELSE s.X,
   Y   |-> IF "Yi" \in w THEN bus ELSE s.Y,
   MAR |-> mar, SEC |-> sec, NDX |-> ndx,
   FR  |-> IF "ALUo" \in w THEN Flags(ALUOf(s, w).value, ALUOf(s, w).carry) ELSE s.FR,
   IR  |-> IF "IRi" \in w THEN bus % Byte ELSE s.IR,
   RAM |-> IF "RAM" \notin w \/ "RAMo" \in w THEN s.RAM
           ELSE IF "RAM16" \in w THEN PutWord(s.RAM, mar, bus) ELSE Put(s.RAM, mar, bus % Byte),
   MEM |-> IF takes("MEMi") THEN Put(s.MEM, Sector(sec, ndx), bus % Byte) ELSE s.MEM,
   KEYS |-> IF "KEYo" \in w /\ s.KEYS # << >> THEN Tail(s.KEYS) ELSE s.KEYS,
   GPUA |-> gpua,
   ATTRIBUTES |-> IF takes("GPUi") /\ gpua < Word \div 2 THEN Put(s.ATTRIBUTES, gpua, bus % Byte) ELSE s.ATTRIBUTES,
   PATTERNS   |-> IF takes("GPUi") /\ gpua >= Word \div 2
                  THEN Put(s.PATTERNS, gpua % (Word \div 2), bus % Byte) ELSE s.PATTERNS]

\* The bus and the ALU carry words.
LEMMA BusType == ASSUME NEW s \in States, NEW w PROVE BusOf(s, w) \in Uint16 /\ (("ALUo" \in w) => ALUOf(s, w).value \in Uint16)
<1>1. s.A \in Uint16 /\ s.B \in Uint16 /\ s.SP \in Uint16 /\ s.IP \in Uint16 /\ s.SEC \in Uint16
      /\ s.NDX \in Uint8 /\ s.X \in Uint16 /\ s.Y \in Uint16 /\ 0 \in Uint16
  BY Ranges DEF States
<1>2. \A x \in Uint8 : x \in Uint16
  BY Ranges
<1>3. s.KEYS \in Seq(Uint8) /\ s.RAM \in Memories /\ s.MEM \in Memories
  BY DEF States
<1>4. s.KEYS # << >> => Head(s.KEYS) \in Uint16
  BY <1>2, <1>3
<1>5. \A a : At(s.RAM, a) \in Uint16 /\ At(s.MEM, a) \in Uint16 /\ WordAt(s.RAM, a) \in Uint16
  BY <1>2, <1>3, AtType, WordAtType
<1>6. ALUOf(s, w).value \in Uint16
  <2>1. CASE "_AND" \in w
    BY <1>1, <2>1, BitAndType DEF ALUOf
  <2>2. CASE "_AND" \notin w /\ "_SHR" \in w
    BY <1>1, <2>2, ModType DEF ALUOf
  <2>3. CASE "_AND" \notin w /\ "_SHR" \notin w
    <3>1. \A x, y \in Int : Plus(x, y) \in Int
      BY PlusType, Ranges
    <3>2. s.X \in Int /\ s.Y \in Int /\ Word - 1 - s.X \in Int
      BY <1>1, Ranges DEF Word
    <3>3. \A x \in {s.X, Word - 1 - s.X}, c \in {0, 1} : Plus(x, c) \in Int
      <4>1. 0 \in Int /\ 1 \in Int
        OBVIOUS
      <4> QED BY ONLY <3>1, <3>2, <4>1, Zenon
    <3>4. \A x \in {s.X, Word - 1 - s.X}, c \in {0, 1} : Plus(Plus(x, c), s.Y) \in Uint16
      BY <3>2, <3>3, PlusType
    <3> QED BY <2>3, <3>4 DEF ALUOf
  <2> QED BY <2>1, <2>2, <2>3
<1> QED BY <1>1, <1>2, <1>4, <1>5, <1>6 DEF BusOf

\* A word of microcode leaves a record of the same fields.
LEMMA MicroIsRecord ==
  ASSUME NEW s, NEW w, NEW t, t = Micro(s, w)
  PROVE  t = [A |-> t.A, B |-> t.B, SP |-> t.SP, IP |-> t.IP, X |-> t.X, Y |-> t.Y, MAR |-> t.MAR, SEC |-> t.SEC,
              NDX |-> t.NDX, FR |-> t.FR, IR |-> t.IR, RAM |-> t.RAM, MEM |-> t.MEM, KEYS |-> t.KEYS,
              GPUA |-> t.GPUA, ATTRIBUTES |-> t.ATTRIBUTES, PATTERNS |-> t.PATTERNS]
BY DEF Micro

\* A word of microcode leaves the registers within their widths.
LEMMA MicroType == ASSUME NEW s \in States, NEW w PROVE Micro(s, w) \in States
<1> DEFINE bus == BusOf(s, w)
<1> DEFINE t == Micro(s, w)
<1>1. bus \in Uint16 /\ ("ALUo" \in w => ALUOf(s, w).value \in Uint16)
  BY BusType
<1>2. s.A \in Uint16 /\ s.B \in Uint16 /\ s.SP \in Uint16 /\ s.IP \in Uint16 /\ s.SEC \in Uint16
      /\ s.NDX \in Uint8 /\ s.X \in Uint16 /\ s.Y \in Uint16 /\ s.MAR \in Uint16 /\ s.GPUA \in Uint16
  BY DEF States
<1>3. s.KEYS \in Seq(Uint8) /\ s.RAM \in Memories /\ s.MEM \in Memories /\ s.ATTRIBUTES \in Memories
      /\ s.PATTERNS \in Memories /\ s.IR \in Uint8 /\ s.FR \in SUBSET {"Z", "N", "C"}
  BY DEF States
<1>4. bus % Byte \in Uint8 /\ bus % 4096 \in Uint16 /\ bus % Byte \in Uint16
  BY <1>1, ModType, Ranges DEF Byte
<1>a. \A x \in Uint16 : x \in Int
  BY Ranges
<1> HIDE DEF bus
<1>5. t.A \in Uint16
  BY <1>1, <1>2, HighType DEF Micro, HighByte, bus
<1>6. t.B \in Uint16 /\ t.X \in Uint16 /\ t.Y \in Uint16 /\ t.MAR \in Uint16 /\ t.GPUA \in Uint16
  BY <1>1, <1>2 DEF Micro, bus
<1>7. t.SEC \in Uint16 /\ t.NDX \in Uint8 /\ t.IR \in Uint8
  BY <1>2, <1>3, <1>4 DEF Micro, bus
<1>8. t.SP \in Uint16
  <2>1. Plus(s.SP, -2) \in Uint16 /\ Plus(s.SP, 2) \in Uint16
    <3>1. s.SP \in Int /\ -2 \in Int /\ 2 \in Int
      BY <1>2, <1>a
    <3> QED BY <3>1, PlusType
  <2> QED BY <1>1, <1>2, <2>1 DEF Micro, bus
<1>9. t.IP \in Uint16
  <2>1. \A x \in Uint16 : Plus(x, 1) \in Uint16
    BY <1>a, PlusType
  <2> QED BY <1>1, <1>2, <2>1 DEF Micro, bus
<1>10. t.FR \in SUBSET {"Z", "N", "C"}
  BY <1>3, FlagsType DEF Micro
<1>11. t.KEYS \in Seq(Uint8)
  BY <1>3 DEF Micro
<1>12. t.RAM \in Memories
  <2>1. \A a \in Uint16 : PutWord(s.RAM, a, bus) \in Memories /\ Put(s.RAM, a, bus % Byte) \in Memories
    BY <1>1, <1>3, <1>4, <1>a, PutType, PutWordType
  <2> QED BY <1>1, <1>2, <1>3, <2>1 DEF Micro, bus
<1>13. t.MEM \in Memories
  <2>1. \A sec \in Uint16, ndx \in Uint8 : Put(s.MEM, Sector(sec, ndx), bus % Byte) \in Memories
    <3>1. \A sec \in Uint16, ndx \in Uint8 : Sector(sec, ndx) \in Int
      BY <1>a, Ranges DEF Sector, Byte
    <3> QED BY <3>1, <1>3, <1>4, PutType
  <2> QED BY <1>2, <1>3, <1>4, <2>1 DEF Micro, bus
<1>14. t.ATTRIBUTES \in Memories /\ t.PATTERNS \in Memories
  <2>1. \A a \in Uint16 : Put(s.ATTRIBUTES, a, bus % Byte) \in Memories
    BY <1>3, <1>4, <1>a, PutType
  <2>2. \A a \in Uint16 : Put(s.PATTERNS, a % (Word \div 2), bus % Byte) \in Memories
    <3>1. \A a \in Uint16 : a % (Word \div 2) \in Int
      BY <1>a DEF Word
    <3> QED BY <3>1, <1>3, <1>4, PutType
  <2> QED BY <1>1, <1>2, <1>3, <2>1, <2>2 DEF Micro, bus
<1>15. t = [A |-> t.A, B |-> t.B, SP |-> t.SP, IP |-> t.IP, X |-> t.X, Y |-> t.Y, MAR |-> t.MAR, SEC |-> t.SEC,
            NDX |-> t.NDX, FR |-> t.FR, IR |-> t.IR, RAM |-> t.RAM, MEM |-> t.MEM, KEYS |-> t.KEYS,
            GPUA |-> t.GPUA, ATTRIBUTES |-> t.ATTRIBUTES, PATTERNS |-> t.PATTERNS]
  BY MicroIsRecord
<1> HIDE DEF t
<1>16. t \in States
  BY <1>5, <1>6, <1>7, <1>8, <1>9, <1>10, <1>11, <1>12, <1>13, <1>14, <1>15 DEF States
<1> QED BY <1>16 DEF t

\* A tick of the model does to the record what its word of microcode says.
LEMMA TickIsMicro ==
  ASSUME Machine \in States, Tick
  PROVE  Machine' = Micro(Machine, Microcode)
<1> DEFINE w == Microcode
<1> DEFINE s == Machine
<1>1. s.A = A /\ s.B = B /\ s.SP = SP /\ s.IP = IP /\ s.X = X /\ s.Y = Y /\ s.MAR = MAR /\ s.SEC = SEC
      /\ s.NDX = NDX /\ s.FR = FR /\ s.IR = IR /\ s.RAM = RAM /\ s.MEM = MEM /\ s.KEYS = KEY_FIFO
      /\ s.GPUA = GPUA /\ s.ATTRIBUTES = ATTRIBUTE_RAM /\ s.PATTERNS = PATTERN_RAM
  BY DEF Machine
<1> HIDE DEF w, s
<1>2. ALUOf(s, w) = ALU(w)
  BY <1>1 DEF ALUOf, ALU
<1>3. BusOf(s, w) = Bus(w)
  BY <1>1, <1>2 DEF BusOf, Bus
<1>4. IP \in Uint16 /\ Bus(w) \in Uint16
  BY <1>1, <1>3, BusType DEF States, s
<1>5. \A x \in Uint16 : Plus(x, 0) = x
  <2> TAKE x \in Uint16
  <2>1. x \in Int /\ 0 <= x /\ x < 65536
    BY Ranges
  <2>2. (x + 0) % 65536 = x
    BY <2>1
  <2> QED BY <2>2 DEF Plus, Word
<1>6. /\ A' = Micro(s, w).A /\ B' = Micro(s, w).B /\ X' = Micro(s, w).X /\ Y' = Micro(s, w).Y
      /\ MAR' = Micro(s, w).MAR /\ SP' = Micro(s, w).SP
  BY <1>1, <1>3 DEF Tick, Micro, HighByte, w
<1>7. IP' = Micro(s, w).IP
  BY <1>1, <1>3, <1>4, <1>5 DEF Tick, Micro, w
<1>8. SEC' = Micro(s, w).SEC /\ NDX' = Micro(s, w).NDX /\ MEM' = Micro(s, w).MEM
  BY <1>1, <1>3 DEF Tick, Micro, w
<1>9. FR' = Micro(s, w).FR /\ IR' = Micro(s, w).IR
  BY <1>1, <1>2, <1>3 DEF Tick, Micro, w
<1>10. RAM' = Micro(s, w).RAM /\ KEY_FIFO' = Micro(s, w).KEYS
  BY <1>1, <1>3 DEF Tick, Micro, w
<1>11. GPUA' = Micro(s, w).GPUA /\ ATTRIBUTE_RAM' = Micro(s, w).ATTRIBUTES /\ PATTERN_RAM' = Micro(s, w).PATTERNS
  BY <1>1, <1>3 DEF Tick, Micro, w
<1> DEFINE t == Micro(s, w)
<1>12. t = [A |-> t.A, B |-> t.B, SP |-> t.SP, IP |-> t.IP, X |-> t.X, Y |-> t.Y, MAR |-> t.MAR, SEC |-> t.SEC,
            NDX |-> t.NDX, FR |-> t.FR, IR |-> t.IR, RAM |-> t.RAM, MEM |-> t.MEM, KEYS |-> t.KEYS,
            GPUA |-> t.GPUA, ATTRIBUTES |-> t.ATTRIBUTES, PATTERNS |-> t.PATTERNS]
  BY MicroIsRecord
<1>13. Machine' = t
  BY <1>6, <1>7, <1>8, <1>9, <1>10, <1>11, <1>12 DEF Machine
<1> QED BY <1>13 DEF s, w

(***************************************************************************)
(* Word by word: what each word of microcode changes, and to what. Their   *)
(* names are those of the flags of the word.                               *)
(***************************************************************************)

\* The names of the fields.
Fields ==
  {"A", "B", "SP", "IP", "X", "Y", "MAR", "SEC", "NDX", "FR", "IR", "RAM", "MEM", "KEYS", "GPUA", "ATTRIBUTES", "PATTERNS"}

\* t is s but for some fields.
Keeps(s, t, changed) == \A f \in Fields \ changed : t[f] = s[f]

\* The fields a word writes.
Touched(w) ==
  {f \in Fields :
    \/ f = "A" /\ ("Ai" \in w \/ "AHi" \in w)
    \/ f = "B" /\ "Bi" \in w
    \/ f = "SP" /\ ("SPi" \in w \/ "SPu" \in w)
    \/ f = "IP" /\ ("IPi" \in w \/ "IPp" \in w)
    \/ f = "X" /\ "Xi" \in w
    \/ f = "Y" /\ "Yi" \in w
    \/ f = "MAR" /\ "MARi" \in w
    \/ f = "SEC" /\ "SECi" \in w
    \/ f = "NDX" /\ "NDXi" \in w
    \/ f = "FR" /\ "ALUo" \in w
    \/ f = "IR" /\ "IRi" \in w
    \/ f = "RAM" /\ "RAM" \in w /\ "RAMo" \notin w
    \/ f = "MEM" /\ "MEMi" \in w
    \/ f = "KEYS" /\ "KEYo" \in w
    \/ f = "GPUA" /\ "GPUAi" \in w
    \/ f \in {"ATTRIBUTES", "PATTERNS"} /\ "GPUi" \in w}

\* A word changes no field it does not touch.
LEMMA KeepsUntouched ==
  ASSUME NEW s, NEW w, NEW t, t = Micro(s, w)
  PROVE  Keeps(s, t, Touched(w))
BY DEF Micro, Keeps, Fields, Touched

LEMMA IPo_MARi ==
  ASSUME NEW s, NEW t, t = Micro(s, {"IPo", "MARi"})
  PROVE  Keeps(s, t, {"MAR"}) /\ t.MAR = s.IP
<1>1. Keeps(s, t, {"MAR"})
  BY KeepsUntouched DEF Touched, Keeps
<1>2. BusOf(s, {"IPo", "MARi"}) = s.IP
  BY DEF BusOf
<1> QED BY <1>1, <1>2 DEF Micro

LEMMA Ao_Xi ==
  ASSUME NEW s, NEW t, t = Micro(s, {"Ao", "Xi"})
  PROVE  Keeps(s, t, {"X"}) /\ t.X = s.A
<1>1. Keeps(s, t, {"X"})
  BY KeepsUntouched DEF Touched, Keeps
<1>2. BusOf(s, {"Ao", "Xi"}) = s.A
  BY DEF BusOf
<1> QED BY <1>1, <1>2 DEF Micro

LEMMA Bo_Xi ==
  ASSUME NEW s, NEW t, t = Micro(s, {"Bo", "Xi"})
  PROVE  Keeps(s, t, {"X"}) /\ t.X = s.B
<1>1. Keeps(s, t, {"X"})
  BY KeepsUntouched DEF Touched, Keeps
<1>2. BusOf(s, {"Bo", "Xi"}) = s.B
  BY DEF BusOf
<1> QED BY <1>1, <1>2 DEF Micro

LEMMA Ao_Yi ==
  ASSUME NEW s, NEW t, t = Micro(s, {"Ao", "Yi"})
  PROVE  Keeps(s, t, {"Y"}) /\ t.Y = s.A
<1>1. Keeps(s, t, {"Y"})
  BY KeepsUntouched DEF Touched, Keeps
<1>2. BusOf(s, {"Ao", "Yi"}) = s.A
  BY DEF BusOf
<1> QED BY <1>1, <1>2 DEF Micro

LEMMA Bo_Yi ==
  ASSUME NEW s, NEW t, t = Micro(s, {"Bo", "Yi"})
  PROVE  Keeps(s, t, {"Y"}) /\ t.Y = s.B
<1>1. Keeps(s, t, {"Y"})
  BY KeepsUntouched DEF Touched, Keeps
<1>2. BusOf(s, {"Bo", "Yi"}) = s.B
  BY DEF BusOf
<1> QED BY <1>1, <1>2 DEF Micro

LEMMA NDXo_Yi ==
  ASSUME NEW s, NEW t, t = Micro(s, {"NDXo", "Yi"})
  PROVE  Keeps(s, t, {"Y"}) /\ t.Y = s.NDX
<1>1. Keeps(s, t, {"Y"})
  BY KeepsUntouched DEF Touched, Keeps
<1>2. BusOf(s, {"NDXo", "Yi"}) = s.NDX
  BY DEF BusOf
<1> QED BY <1>1, <1>2 DEF Micro

LEMMA SPo_MARi ==
  ASSUME NEW s, NEW t, t = Micro(s, {"SPo", "MARi"})
  PROVE  Keeps(s, t, {"MAR"}) /\ t.MAR = s.SP
<1>1. Keeps(s, t, {"MAR"})
  BY KeepsUntouched DEF Touched, Keeps
<1>2. BusOf(s, {"SPo", "MARi"}) = s.SP
  BY DEF BusOf
<1> QED BY <1>1, <1>2 DEF Micro

LEMMA SPo_Xi ==
  ASSUME NEW s, NEW t, t = Micro(s, {"SPo", "Xi"})
  PROVE  Keeps(s, t, {"X"}) /\ t.X = s.SP
<1>1. Keeps(s, t, {"X"})
  BY KeepsUntouched DEF Touched, Keeps
<1>2. BusOf(s, {"SPo", "Xi"}) = s.SP
  BY DEF BusOf
<1> QED BY <1>1, <1>2 DEF Micro

LEMMA Bo_MARi ==
  ASSUME NEW s, NEW t, t = Micro(s, {"Bo", "MARi"})
  PROVE  Keeps(s, t, {"MAR"}) /\ t.MAR = s.B
<1>1. Keeps(s, t, {"MAR"})
  BY KeepsUntouched DEF Touched, Keeps
<1>2. BusOf(s, {"Bo", "MARi"}) = s.B
  BY DEF BusOf
<1> QED BY <1>1, <1>2 DEF Micro

LEMMA Ao_IPi ==
  ASSUME NEW s, NEW t, t = Micro(s, {"Ao", "IPi"})
  PROVE  Keeps(s, t, {"IP"}) /\ t.IP = s.A
<1>1. Keeps(s, t, {"IP"})
  BY KeepsUntouched DEF Touched, Keeps
<1>2. BusOf(s, {"Ao", "IPi"}) = s.A
  BY DEF BusOf
<1> QED BY <1>1, <1>2 DEF Micro

LEMMA Ao_Bi ==
  ASSUME NEW s, NEW t, t = Micro(s, {"Ao", "Bi"})
  PROVE  Keeps(s, t, {"B"}) /\ t.B = s.A
<1>1. Keeps(s, t, {"B"})
  BY KeepsUntouched DEF Touched, Keeps
<1>2. BusOf(s, {"Ao", "Bi"}) = s.A
  BY DEF BusOf
<1> QED BY <1>1, <1>2 DEF Micro

LEMMA Bo_Ai ==
  ASSUME NEW s, NEW t, t = Micro(s, {"Bo", "Ai"})
  PROVE  Keeps(s, t, {"A"}) /\ t.A = s.B
<1>1. Keeps(s, t, {"A"})
  BY KeepsUntouched DEF Touched, Keeps
<1>2. BusOf(s, {"Bo", "Ai"}) = s.B
  BY DEF BusOf
<1> QED BY <1>1, <1>2 DEF Micro

LEMMA Ao_SPi ==
  ASSUME NEW s, NEW t, t = Micro(s, {"Ao", "SPi"})
  PROVE  Keeps(s, t, {"SP"}) /\ t.SP = s.A
<1>1. Keeps(s, t, {"SP"})
  BY KeepsUntouched DEF Touched, Keeps
<1>2. BusOf(s, {"Ao", "SPi"}) = s.A
  BY DEF BusOf
<1> QED BY <1>1, <1>2 DEF Micro

LEMMA SPo_Ai ==
  ASSUME NEW s, NEW t, t = Micro(s, {"SPo", "Ai"})
  PROVE  Keeps(s, t, {"A"}) /\ t.A = s.SP
<1>1. Keeps(s, t, {"A"})
  BY KeepsUntouched DEF Touched, Keeps
<1>2. BusOf(s, {"SPo", "Ai"}) = s.SP
  BY DEF BusOf
<1> QED BY <1>1, <1>2 DEF Micro

LEMMA SECo_Ai ==
  ASSUME NEW s, NEW t, t = Micro(s, {"SECo", "Ai"})
  PROVE  Keeps(s, t, {"A"}) /\ t.A = s.SEC
<1>1. Keeps(s, t, {"A"})
  BY KeepsUntouched DEF Touched, Keeps
<1>2. BusOf(s, {"SECo", "Ai"}) = s.SEC
  BY DEF BusOf
<1> QED BY <1>1, <1>2 DEF Micro

LEMMA NDXo_Ai ==
  ASSUME NEW s, NEW t, t = Micro(s, {"NDXo", "Ai"})
  PROVE  Keeps(s, t, {"A"}) /\ t.A = s.NDX
<1>1. Keeps(s, t, {"A"})
  BY KeepsUntouched DEF Touched, Keeps
<1>2. BusOf(s, {"NDXo", "Ai"}) = s.NDX
  BY DEF BusOf
<1> QED BY <1>1, <1>2 DEF Micro

LEMMA MEMo_Ai ==
  ASSUME NEW s, NEW t, t = Micro(s, {"MEMo", "Ai"})
  PROVE  Keeps(s, t, {"A"}) /\ t.A = At(s.MEM, Sector(s.SEC, s.NDX))
<1>1. Keeps(s, t, {"A"})
  BY KeepsUntouched DEF Touched, Keeps
<1>2. BusOf(s, {"MEMo", "Ai"}) = At(s.MEM, Sector(s.SEC, s.NDX))
  BY DEF BusOf
<1> QED BY <1>1, <1>2 DEF Micro

LEMMA Bo_GPUAi ==
  ASSUME NEW s, NEW t, t = Micro(s, {"Bo", "GPUAi"})
  PROVE  Keeps(s, t, {"GPUA"}) /\ t.GPUA = s.B
<1>1. Keeps(s, t, {"GPUA"})
  BY KeepsUntouched DEF Touched, Keeps
<1>2. BusOf(s, {"Bo", "GPUAi"}) = s.B
  BY DEF BusOf
<1> QED BY <1>1, <1>2 DEF Micro

LEMMA Ao_SECi ==
  ASSUME NEW s, NEW t, t = Micro(s, {"Ao", "SECi"})
  PROVE  Keeps(s, t, {"SEC"}) /\ t.SEC = s.A % 4096
<1>1. Keeps(s, t, {"SEC"})
  BY KeepsUntouched DEF Touched, Keeps
<1>2. BusOf(s, {"Ao", "SECi"}) = s.A
  BY DEF BusOf
<1> QED BY <1>1, <1>2 DEF Micro

LEMMA Ao_NDXi ==
  ASSUME NEW s, NEW t, t = Micro(s, {"Ao", "NDXi"})
  PROVE  Keeps(s, t, {"NDX"}) /\ t.NDX = s.A % Byte
<1>1. Keeps(s, t, {"NDX"})
  BY KeepsUntouched DEF Touched, Keeps
<1>2. BusOf(s, {"Ao", "NDXi"}) = s.A
  BY DEF BusOf
<1> QED BY <1>1, <1>2 DEF Micro

LEMMA Bo_AHi ==
  ASSUME NEW s, NEW t, t = Micro(s, {"Bo", "AHi"})
  PROVE  Keeps(s, t, {"A"}) /\ t.A = HighByte(s.B, s.A)
<1>1. Keeps(s, t, {"A"})
  BY KeepsUntouched DEF Touched, Keeps
<1>2. BusOf(s, {"Bo", "AHi"}) = s.B
  BY DEF BusOf
<1> QED BY <1>1, <1>2 DEF Micro

LEMMA MEMo_AHi ==
  ASSUME NEW s, NEW t, t = Micro(s, {"MEMo", "AHi"})
  PROVE  Keeps(s, t, {"A"}) /\ t.A = HighByte(At(s.MEM, Sector(s.SEC, s.NDX)), s.A)
<1>1. Keeps(s, t, {"A"})
  BY KeepsUntouched DEF Touched, Keeps
<1>2. BusOf(s, {"MEMo", "AHi"}) = At(s.MEM, Sector(s.SEC, s.NDX))
  BY DEF BusOf
<1> QED BY <1>1, <1>2 DEF Micro

LEMMA Ao_MEMi ==
  ASSUME NEW s, NEW t, t = Micro(s, {"Ao", "MEMi"})
  PROVE  Keeps(s, t, {"MEM"}) /\ t.MEM = Put(s.MEM, Sector(s.SEC, s.NDX), s.A % Byte)
<1>1. Keeps(s, t, {"MEM"})
  BY KeepsUntouched DEF Touched, Keeps
<1>2. BusOf(s, {"Ao", "MEMi"}) = s.A
  BY DEF BusOf
<1> QED BY <1>1, <1>2 DEF Micro

LEMMA Xi ==
  ASSUME NEW s, NEW t, t = Micro(s, {"Xi"})
  PROVE  Keeps(s, t, {"X"}) /\ t.X = 0
<1>1. Keeps(s, t, {"X"})
  BY KeepsUntouched DEF Touched, Keeps
<1>2. BusOf(s, {"Xi"}) = 0
  BY DEF BusOf
<1> QED BY <1>1, <1>2 DEF Micro

LEMMA Yi ==
  ASSUME NEW s, NEW t, t = Micro(s, {"Yi"})
  PROVE  Keeps(s, t, {"Y"}) /\ t.Y = 0
<1>1. Keeps(s, t, {"Y"})
  BY KeepsUntouched DEF Touched, Keeps
<1>2. BusOf(s, {"Yi"}) = 0
  BY DEF BusOf
<1> QED BY <1>1, <1>2 DEF Micro

LEMMA IPp ==
  ASSUME NEW s, NEW t, t = Micro(s, {"IPp"})
  PROVE  Keeps(s, t, {"IP"}) /\ t.IP = Plus(s.IP, 1)
<1>1. Keeps(s, t, {"IP"})
  BY KeepsUntouched DEF Touched, Keeps
<1> QED BY <1>1 DEF Micro

LEMMA SPu ==
  ASSUME NEW s, NEW t, t = Micro(s, {"SPu"})
  PROVE  Keeps(s, t, {"SP"}) /\ t.SP = Plus(s.SP, 2)
<1>1. Keeps(s, t, {"SP"})
  BY KeepsUntouched DEF Touched, Keeps
<1> QED BY <1>1 DEF Micro

LEMMA SPu_SPm ==
  ASSUME NEW s, NEW t, t = Micro(s, {"SPu", "SPm"})
  PROVE  Keeps(s, t, {"SP"}) /\ t.SP = Plus(s.SP, -2)
<1>1. Keeps(s, t, {"SP"})
  BY KeepsUntouched DEF Touched, Keeps
<1> QED BY <1>1 DEF Micro

LEMMA IPo_MARi_Yi ==
  ASSUME NEW s, NEW t, t = Micro(s, {"IPo", "MARi", "Yi"})
  PROVE  Keeps(s, t, {"MAR", "Y"}) /\ t.MAR = s.IP /\ t.Y = s.IP
<1>1. Keeps(s, t, {"MAR", "Y"})
  BY KeepsUntouched DEF Touched, Keeps
<1>2. BusOf(s, {"IPo", "MARi", "Yi"}) = s.IP
  BY DEF BusOf
<1> QED BY <1>1, <1>2 DEF Micro

LEMMA Fetch ==
  ASSUME NEW s, NEW t, t = Micro(s, {"RAM", "RAMo", "IRi", "IPp"})
  PROVE  Keeps(s, t, {"IR", "IP"}) /\ t.IR = At(s.RAM, s.MAR) % Byte /\ t.IP = Plus(s.IP, 1)
<1>1. Keeps(s, t, {"IR", "IP"})
  BY KeepsUntouched DEF Touched, Keeps
<1>2. BusOf(s, {"RAM", "RAMo", "IRi", "IPp"}) = At(s.RAM, s.MAR)
  BY DEF BusOf
<1> QED BY <1>1, <1>2 DEF Micro

LEMMA Short_Ai ==
  ASSUME NEW s, NEW t, t = Micro(s, {"RAM", "RAMo", "Ai", "IPp"})
  PROVE  Keeps(s, t, {"A", "IP"}) /\ t.A = At(s.RAM, s.MAR) /\ t.IP = Plus(s.IP, 1)
<1>1. Keeps(s, t, {"A", "IP"})
  BY KeepsUntouched DEF Touched, Keeps
<1>2. BusOf(s, {"RAM", "RAMo", "Ai", "IPp"}) = At(s.RAM, s.MAR)
  BY DEF BusOf
<1> QED BY <1>1, <1>2 DEF Micro

LEMMA Short_Bi ==
  ASSUME NEW s, NEW t, t = Micro(s, {"RAM", "RAMo", "Bi", "IPp"})
  PROVE  Keeps(s, t, {"B", "IP"}) /\ t.B = At(s.RAM, s.MAR) /\ t.IP = Plus(s.IP, 1)
<1>1. Keeps(s, t, {"B", "IP"})
  BY KeepsUntouched DEF Touched, Keeps
<1>2. BusOf(s, {"RAM", "RAMo", "Bi", "IPp"}) = At(s.RAM, s.MAR)
  BY DEF BusOf
<1> QED BY <1>1, <1>2 DEF Micro

LEMMA Short_Yi ==
  ASSUME NEW s, NEW t, t = Micro(s, {"RAM", "RAMo", "Yi", "IPp"})
  PROVE  Keeps(s, t, {"Y", "IP"}) /\ t.Y = At(s.RAM, s.MAR) /\ t.IP = Plus(s.IP, 1)
<1>1. Keeps(s, t, {"Y", "IP"})
  BY KeepsUntouched DEF Touched, Keeps
<1>2. BusOf(s, {"RAM", "RAMo", "Yi", "IPp"}) = At(s.RAM, s.MAR)
  BY DEF BusOf
<1> QED BY <1>1, <1>2 DEF Micro

LEMMA Short_NDXi ==
  ASSUME NEW s, NEW t, t = Micro(s, {"RAM", "RAMo", "NDXi", "IPp"})
  PROVE  Keeps(s, t, {"NDX", "IP"}) /\ t.NDX = At(s.RAM, s.MAR) % Byte /\ t.IP = Plus(s.IP, 1)
<1>1. Keeps(s, t, {"NDX", "IP"})
  BY KeepsUntouched DEF Touched, Keeps
<1>2. BusOf(s, {"RAM", "RAMo", "NDXi", "IPp"}) = At(s.RAM, s.MAR)
  BY DEF BusOf
<1> QED BY <1>1, <1>2 DEF Micro

LEMMA Wide_Ai ==
  ASSUME NEW s, NEW t, t = Micro(s, {"RAM", "RAMo", "RAM16", "Ai", "IPp"})
  PROVE  Keeps(s, t, {"A", "IP"}) /\ t.A = WordAt(s.RAM, s.MAR) /\ t.IP = Plus(s.IP, 1)
<1>1. Keeps(s, t, {"A", "IP"})
  BY KeepsUntouched DEF Touched, Keeps
<1>2. BusOf(s, {"RAM", "RAMo", "RAM16", "Ai", "IPp"}) = WordAt(s.RAM, s.MAR)
  BY DEF BusOf
<1> QED BY <1>1, <1>2 DEF Micro

LEMMA Wide_Bi ==
  ASSUME NEW s, NEW t, t = Micro(s, {"RAM", "RAMo", "RAM16", "Bi", "IPp"})
  PROVE  Keeps(s, t, {"B", "IP"}) /\ t.B = WordAt(s.RAM, s.MAR) /\ t.IP = Plus(s.IP, 1)
<1>1. Keeps(s, t, {"B", "IP"})
  BY KeepsUntouched DEF Touched, Keeps
<1>2. BusOf(s, {"RAM", "RAMo", "RAM16", "Bi", "IPp"}) = WordAt(s.RAM, s.MAR)
  BY DEF BusOf
<1> QED BY <1>1, <1>2 DEF Micro

LEMMA Push_Ao ==
  ASSUME NEW s, NEW t, t = Micro(s, {"Ao", "RAM", "RAM16", "SPu", "SPm"})
  PROVE  Keeps(s, t, {"RAM", "SP"}) /\ t.RAM = PutWord(s.RAM, s.MAR, s.A) /\ t.SP = Plus(s.SP, -2)
<1>1. Keeps(s, t, {"RAM", "SP"})
  BY KeepsUntouched DEF Touched, Keeps
<1>2. BusOf(s, {"Ao", "RAM", "RAM16", "SPu", "SPm"}) = s.A
  BY DEF BusOf
<1> QED BY <1>1, <1>2 DEF Micro

LEMMA Push_Bo ==
  ASSUME NEW s, NEW t, t = Micro(s, {"Bo", "RAM", "RAM16", "SPu", "SPm"})
  PROVE  Keeps(s, t, {"RAM", "SP"}) /\ t.RAM = PutWord(s.RAM, s.MAR, s.B) /\ t.SP = Plus(s.SP, -2)
<1>1. Keeps(s, t, {"RAM", "SP"})
  BY KeepsUntouched DEF Touched, Keeps
<1>2. BusOf(s, {"Bo", "RAM", "RAM16", "SPu", "SPm"}) = s.B
  BY DEF BusOf
<1> QED BY <1>1, <1>2 DEF Micro

LEMMA Push_IPo ==
  ASSUME NEW s, NEW t, t = Micro(s, {"IPo", "RAM", "RAM16", "SPu", "SPm"})
  PROVE  Keeps(s, t, {"RAM", "SP"}) /\ t.RAM = PutWord(s.RAM, s.MAR, s.IP) /\ t.SP = Plus(s.SP, -2)
<1>1. Keeps(s, t, {"RAM", "SP"})
  BY KeepsUntouched DEF Touched, Keeps
<1>2. BusOf(s, {"IPo", "RAM", "RAM16", "SPu", "SPm"}) = s.IP
  BY DEF BusOf
<1> QED BY <1>1, <1>2 DEF Micro

LEMMA Word_Ai ==
  ASSUME NEW s, NEW t, t = Micro(s, {"RAM", "RAMo", "RAM16", "Ai"})
  PROVE  Keeps(s, t, {"A"}) /\ t.A = WordAt(s.RAM, s.MAR)
<1>1. Keeps(s, t, {"A"})
  BY KeepsUntouched DEF Touched, Keeps
<1>2. BusOf(s, {"RAM", "RAMo", "RAM16", "Ai"}) = WordAt(s.RAM, s.MAR)
  BY DEF BusOf
<1> QED BY <1>1, <1>2 DEF Micro

LEMMA Word_Bi ==
  ASSUME NEW s, NEW t, t = Micro(s, {"RAM", "RAMo", "RAM16", "Bi"})
  PROVE  Keeps(s, t, {"B"}) /\ t.B = WordAt(s.RAM, s.MAR)
<1>1. Keeps(s, t, {"B"})
  BY KeepsUntouched DEF Touched, Keeps
<1>2. BusOf(s, {"RAM", "RAMo", "RAM16", "Bi"}) = WordAt(s.RAM, s.MAR)
  BY DEF BusOf
<1> QED BY <1>1, <1>2 DEF Micro

LEMMA Word_IPi ==
  ASSUME NEW s, NEW t, t = Micro(s, {"RAM", "RAMo", "RAM16", "IPi"})
  PROVE  Keeps(s, t, {"IP"}) /\ t.IP = WordAt(s.RAM, s.MAR)
<1>1. Keeps(s, t, {"IP"})
  BY KeepsUntouched DEF Touched, Keeps
<1>2. BusOf(s, {"RAM", "RAMo", "RAM16", "IPi"}) = WordAt(s.RAM, s.MAR)
  BY DEF BusOf
<1> QED BY <1>1, <1>2 DEF Micro

LEMMA Word_Xi ==
  ASSUME NEW s, NEW t, t = Micro(s, {"RAM", "RAMo", "RAM16", "Xi"})
  PROVE  Keeps(s, t, {"X"}) /\ t.X = WordAt(s.RAM, s.MAR)
<1>1. Keeps(s, t, {"X"})
  BY KeepsUntouched DEF Touched, Keeps
<1>2. BusOf(s, {"RAM", "RAMo", "RAM16", "Xi"}) = WordAt(s.RAM, s.MAR)
  BY DEF BusOf
<1> QED BY <1>1, <1>2 DEF Micro

LEMMA Peek_Ai ==
  ASSUME NEW s, NEW t, t = Micro(s, {"RAM", "RAMo", "RAM16", "Ai", "SPu", "SPm"})
  PROVE  Keeps(s, t, {"A", "SP"}) /\ t.A = WordAt(s.RAM, s.MAR) /\ t.SP = Plus(s.SP, -2)
<1>1. Keeps(s, t, {"A", "SP"})
  BY KeepsUntouched DEF Touched, Keeps
<1>2. BusOf(s, {"RAM", "RAMo", "RAM16", "Ai", "SPu", "SPm"}) = WordAt(s.RAM, s.MAR)
  BY DEF BusOf
<1> QED BY <1>1, <1>2 DEF Micro

LEMMA Peek_Bi ==
  ASSUME NEW s, NEW t, t = Micro(s, {"RAM", "RAMo", "RAM16", "Bi", "SPu", "SPm"})
  PROVE  Keeps(s, t, {"B", "SP"}) /\ t.B = WordAt(s.RAM, s.MAR) /\ t.SP = Plus(s.SP, -2)
<1>1. Keeps(s, t, {"B", "SP"})
  BY KeepsUntouched DEF Touched, Keeps
<1>2. BusOf(s, {"RAM", "RAMo", "RAM16", "Bi", "SPu", "SPm"}) = WordAt(s.RAM, s.MAR)
  BY DEF BusOf
<1> QED BY <1>1, <1>2 DEF Micro

LEMMA Byte_Ai ==
  ASSUME NEW s, NEW t, t = Micro(s, {"RAM", "RAMo", "Ai"})
  PROVE  Keeps(s, t, {"A"}) /\ t.A = At(s.RAM, s.MAR)
<1>1. Keeps(s, t, {"A"})
  BY KeepsUntouched DEF Touched, Keeps
<1>2. BusOf(s, {"RAM", "RAMo", "Ai"}) = At(s.RAM, s.MAR)
  BY DEF BusOf
<1> QED BY <1>1, <1>2 DEF Micro

LEMMA Ao_Word ==
  ASSUME NEW s, NEW t, t = Micro(s, {"Ao", "RAM", "RAM16"})
  PROVE  Keeps(s, t, {"RAM"}) /\ t.RAM = PutWord(s.RAM, s.MAR, s.A)
<1>1. Keeps(s, t, {"RAM"})
  BY KeepsUntouched DEF Touched, Keeps
<1>2. BusOf(s, {"Ao", "RAM", "RAM16"}) = s.A
  BY DEF BusOf
<1> QED BY <1>1, <1>2 DEF Micro

LEMMA Ao_Byte ==
  ASSUME NEW s, NEW t, t = Micro(s, {"Ao", "RAM"})
  PROVE  Keeps(s, t, {"RAM"}) /\ t.RAM = Put(s.RAM, s.MAR, s.A % Byte)
<1>1. Keeps(s, t, {"RAM"})
  BY KeepsUntouched DEF Touched, Keeps
<1>2. BusOf(s, {"Ao", "RAM"}) = s.A
  BY DEF BusOf
<1> QED BY <1>1, <1>2 DEF Micro

LEMMA Increase_Ai ==
  ASSUME NEW s, NEW t, t = Micro(s, {"Ci", "ALUo", "Ai"})
  PROVE  Keeps(s, t, {"A", "FR"}) /\ t.A = Plus(Plus(s.X, 1), s.Y) /\ t.FR = FlagsOfSum(Plus(s.X, 1), s.Y)
<1>1. ALUOf(s, {"Ci", "ALUo", "Ai"}) = [value |-> Plus(Plus(s.X, 1), s.Y), carry |-> Plus(s.X, 1) + s.Y >= Word]
  BY DEF ALUOf
<1>2. Keeps(s, t, {"A", "FR"})
  BY KeepsUntouched DEF Touched, Keeps
<1>3. BusOf(s, {"Ci", "ALUo", "Ai"}) = ALUOf(s, {"Ci", "ALUo", "Ai"}).value
  BY DEF BusOf
<1> QED BY <1>1, <1>2, <1>3 DEF Micro, FlagsOfSum

LEMMA Increase_Bi ==
  ASSUME NEW s, NEW t, t = Micro(s, {"Ci", "ALUo", "Bi"})
  PROVE  Keeps(s, t, {"B", "FR"}) /\ t.B = Plus(Plus(s.X, 1), s.Y) /\ t.FR = FlagsOfSum(Plus(s.X, 1), s.Y)
<1>1. ALUOf(s, {"Ci", "ALUo", "Bi"}) = [value |-> Plus(Plus(s.X, 1), s.Y), carry |-> Plus(s.X, 1) + s.Y >= Word]
  BY DEF ALUOf
<1>2. Keeps(s, t, {"B", "FR"})
  BY KeepsUntouched DEF Touched, Keeps
<1>3. BusOf(s, {"Ci", "ALUo", "Bi"}) = ALUOf(s, {"Ci", "ALUo", "Bi"}).value
  BY DEF BusOf
<1> QED BY <1>1, <1>2, <1>3 DEF Micro, FlagsOfSum

LEMMA Increase_NDXi ==
  ASSUME NEW s, NEW t, t = Micro(s, {"Ci", "ALUo", "NDXi"})
  PROVE  /\ Keeps(s, t, {"NDX", "FR"})
         /\ t.NDX = Plus(Plus(s.X, 1), s.Y) % Byte
         /\ t.FR = FlagsOfSum(Plus(s.X, 1), s.Y)
<1>1. ALUOf(s, {"Ci", "ALUo", "NDXi"}) = [value |-> Plus(Plus(s.X, 1), s.Y), carry |-> Plus(s.X, 1) + s.Y >= Word]
  BY DEF ALUOf
<1>2. Keeps(s, t, {"NDX", "FR"})
  BY KeepsUntouched DEF Touched, Keeps
<1>3. BusOf(s, {"Ci", "ALUo", "NDXi"}) = ALUOf(s, {"Ci", "ALUo", "NDXi"}).value
  BY DEF BusOf
<1> QED BY <1>1, <1>2, <1>3 DEF Micro, FlagsOfSum

LEMMA Sum_Ai ==
  ASSUME NEW s, NEW t, t = Micro(s, {"ALUo", "Ai"})
  PROVE  Keeps(s, t, {"A", "FR"}) /\ t.A = Plus(Plus(s.X, 0), s.Y) /\ t.FR = FlagsOfSum(Plus(s.X, 0), s.Y)
<1>1. ALUOf(s, {"ALUo", "Ai"}) = [value |-> Plus(Plus(s.X, 0), s.Y), carry |-> Plus(s.X, 0) + s.Y >= Word]
  BY DEF ALUOf
<1>2. Keeps(s, t, {"A", "FR"})
  BY KeepsUntouched DEF Touched, Keeps
<1>3. BusOf(s, {"ALUo", "Ai"}) = ALUOf(s, {"ALUo", "Ai"}).value
  BY DEF BusOf
<1> QED BY <1>1, <1>2, <1>3 DEF Micro, FlagsOfSum

LEMMA Sum_MARi ==
  ASSUME NEW s, NEW t, t = Micro(s, {"ALUo", "MARi"})
  PROVE  Keeps(s, t, {"MAR", "FR"}) /\ t.MAR = Plus(Plus(s.X, 0), s.Y) /\ t.FR = FlagsOfSum(Plus(s.X, 0), s.Y)
<1>1. ALUOf(s, {"ALUo", "MARi"}) = [value |-> Plus(Plus(s.X, 0), s.Y), carry |-> Plus(s.X, 0) + s.Y >= Word]
  BY DEF ALUOf
<1>2. Keeps(s, t, {"MAR", "FR"})
  BY KeepsUntouched DEF Touched, Keeps
<1>3. BusOf(s, {"ALUo", "MARi"}) = ALUOf(s, {"ALUo", "MARi"}).value
  BY DEF BusOf
<1> QED BY <1>1, <1>2, <1>3 DEF Micro, FlagsOfSum

LEMMA Sum_IPi ==
  ASSUME NEW s, NEW t, t = Micro(s, {"ALUo", "IPi"})
  PROVE  Keeps(s, t, {"IP", "FR"}) /\ t.IP = Plus(Plus(s.X, 0), s.Y) /\ t.FR = FlagsOfSum(Plus(s.X, 0), s.Y)
<1>1. ALUOf(s, {"ALUo", "IPi"}) = [value |-> Plus(Plus(s.X, 0), s.Y), carry |-> Plus(s.X, 0) + s.Y >= Word]
  BY DEF ALUOf
<1>2. Keeps(s, t, {"IP", "FR"})
  BY KeepsUntouched DEF Touched, Keeps
<1>3. BusOf(s, {"ALUo", "IPi"}) = ALUOf(s, {"ALUo", "IPi"}).value
  BY DEF BusOf
<1> QED BY <1>1, <1>2, <1>3 DEF Micro, FlagsOfSum

LEMMA Sum ==
  ASSUME NEW s, NEW t, t = Micro(s, {"ALUo"})
  PROVE  Keeps(s, t, {"FR"}) /\ t.FR = FlagsOfSum(Plus(s.X, 0), s.Y)
<1>1. ALUOf(s, {"ALUo"}) = [value |-> Plus(Plus(s.X, 0), s.Y), carry |-> Plus(s.X, 0) + s.Y >= Word]
  BY DEF ALUOf
<1>2. Keeps(s, t, {"FR"})
  BY KeepsUntouched DEF Touched, Keeps
<1>3. BusOf(s, {"ALUo"}) = ALUOf(s, {"ALUo"}).value
  BY DEF BusOf
<1> QED BY <1>1, <1>2, <1>3 DEF Micro, FlagsOfSum

LEMMA Decrease ==
  ASSUME NEW s, NEW t, t = Micro(s, {"_SUB", "ALUo", "Ai"})
  PROVE  /\ Keeps(s, t, {"A", "FR"})
         /\ t.A = Plus(Plus(Word - 1 - s.X, 0), s.Y)
         /\ t.FR = FlagsOfSum(Plus(Word - 1 - s.X, 0), s.Y)
<1>1. ALUOf(s, {"_SUB", "ALUo", "Ai"}) = [value |-> Plus(Plus(Word - 1 - s.X, 0), s.Y), carry |-> Plus(Word - 1 - s.X, 0) + s.Y >= Word]
  BY DEF ALUOf
<1>2. Keeps(s, t, {"A", "FR"})
  BY KeepsUntouched DEF Touched, Keeps
<1>3. BusOf(s, {"_SUB", "ALUo", "Ai"}) = ALUOf(s, {"_SUB", "ALUo", "Ai"}).value
  BY DEF BusOf
<1> QED BY <1>1, <1>2, <1>3 DEF Micro, FlagsOfSum

LEMMA Difference ==
  ASSUME NEW s, NEW t, t = Micro(s, {"_SUB", "Ci", "ALUo", "Ai"})
  PROVE  /\ Keeps(s, t, {"A", "FR"})
         /\ t.A = Plus(Plus(Word - 1 - s.X, 1), s.Y)
         /\ t.FR = FlagsOfSum(Plus(Word - 1 - s.X, 1), s.Y)
<1>1. ALUOf(s, {"_SUB", "Ci", "ALUo", "Ai"}) = [value |-> Plus(Plus(Word - 1 - s.X, 1), s.Y), carry |-> Plus(Word - 1 - s.X, 1) + s.Y >= Word]
  BY DEF ALUOf
<1>2. Keeps(s, t, {"A", "FR"})
  BY KeepsUntouched DEF Touched, Keeps
<1>3. BusOf(s, {"_SUB", "Ci", "ALUo", "Ai"}) = ALUOf(s, {"_SUB", "Ci", "ALUo", "Ai"}).value
  BY DEF BusOf
<1> QED BY <1>1, <1>2, <1>3 DEF Micro, FlagsOfSum

LEMMA Conjunction ==
  ASSUME NEW s, NEW t, t = Micro(s, {"_AND", "ALUo", "Ai"})
  PROVE  Keeps(s, t, {"A", "FR"}) /\ t.A = BitAnd(s.X, s.Y) /\ t.FR = Flags(BitAnd(s.X, s.Y), FALSE)
<1> DEFINE none == FALSE
<1>1. ALUOf(s, {"_AND", "ALUo", "Ai"}) = [value |-> BitAnd(s.X, s.Y), carry |-> none]
  BY DEF ALUOf
<1> HIDE DEF none
<1>2. Keeps(s, t, {"A", "FR"})
  BY KeepsUntouched DEF Touched, Keeps
<1>3. BusOf(s, {"_AND", "ALUo", "Ai"}) = ALUOf(s, {"_AND", "ALUo", "Ai"}).value
  BY DEF BusOf
<1>4. Keeps(s, t, {"A", "FR"}) /\ t.A = BitAnd(s.X, s.Y) /\ t.FR = Flags(BitAnd(s.X, s.Y), none)
  BY <1>1, <1>2, <1>3 DEF Micro
<1> QED BY <1>4, Zenon DEF none

LEMMA Half ==
  ASSUME NEW s, NEW t, t = Micro(s, {"ALUo", "_SHR", "Ai"})
  PROVE  Keeps(s, t, {"A", "FR"}) /\ t.A = s.X \div 2 /\ t.FR = Flags(s.X \div 2, s.X % 2 = 1)
<1> DEFINE half == s.X \div 2
<1> DEFINE rest == s.X % 2 = 1
<1>1. ALUOf(s, {"ALUo", "_SHR", "Ai"}) = [value |-> half, carry |-> rest]
  BY DEF ALUOf
<1> HIDE DEF half, rest
<1>2. Keeps(s, t, {"A", "FR"})
  BY KeepsUntouched DEF Touched, Keeps
<1>3. BusOf(s, {"ALUo", "_SHR", "Ai"}) = ALUOf(s, {"ALUo", "_SHR", "Ai"}).value
  BY DEF BusOf
<1>4. Keeps(s, t, {"A", "FR"}) /\ t.A = half /\ t.FR = Flags(half, rest)
  BY <1>1, <1>2, <1>3 DEF Micro
<1> QED BY <1>4 DEF half, rest

LEMMA Key_Ai ==
  ASSUME NEW s, NEW t, t = Micro(s, {"KEYo", "Ai"})
  PROVE  /\ Keeps(s, t, {"A", "KEYS"})
         /\ t.A = IF s.KEYS = << >> THEN 0 ELSE Head(s.KEYS)
         /\ t.KEYS = IF s.KEYS = << >> THEN s.KEYS ELSE Tail(s.KEYS)
<1>1. Keeps(s, t, {"A", "KEYS"})
  BY KeepsUntouched DEF Touched, Keeps
<1>2. BusOf(s, {"KEYo", "Ai"}) = IF s.KEYS = << >> THEN 0 ELSE Head(s.KEYS)
  BY DEF BusOf
<1> QED BY <1>1, <1>2 DEF Micro

LEMMA Idle ==
  ASSUME NEW s \in States, NEW w \in {{}, {"SCr"}, {"_HLT"}}
  PROVE  Micro(s, w) = s
<1> DEFINE t == Micro(s, w)
<1>1. t \in States
  BY MicroType
<1>2. \A f \in Fields : t[f] = s[f]
  <2>1. CASE w = {}
    BY <2>1 DEF Micro, Fields
  <2>2. CASE w = {"SCr"}
    BY <2>2 DEF Micro, Fields
  <2>3. CASE w = {"_HLT"}
    BY <2>3 DEF Micro, Fields
  <2> QED BY <2>1, <2>2, <2>3
<1> HIDE DEF t
<1>3. t = s
  BY <1>1, <1>2 DEF States, Fields
<1> QED BY <1>3 DEF t

\* A value written to the pattern or the attribute memory, by its address.
Drawn(s, t, value) ==
  /\ Keeps(s, t, {"PATTERNS", "ATTRIBUTES", "IP"})
  /\ t.PATTERNS = IF s.GPUA >= Word \div 2 THEN Put(s.PATTERNS, s.GPUA % (Word \div 2), value % Byte) ELSE s.PATTERNS
  /\ t.ATTRIBUTES = IF s.GPUA < Word \div 2 THEN Put(s.ATTRIBUTES, s.GPUA, value % Byte) ELSE s.ATTRIBUTES

LEMMA Draw_Ao ==
  ASSUME NEW s, NEW t, t = Micro(s, {"Ao", "GPUi"})
  PROVE  Drawn(s, t, s.A) /\ t.IP = s.IP
<1>1. Keeps(s, t, {"PATTERNS", "ATTRIBUTES", "IP"})
  BY KeepsUntouched DEF Touched, Keeps
<1>2. BusOf(s, {"Ao", "GPUi"}) = s.A
  BY DEF BusOf
<1> QED BY <1>1, <1>2 DEF Micro, Drawn

LEMMA Draw_Short ==
  ASSUME NEW s, NEW t, t = Micro(s, {"RAM", "RAMo", "GPUi", "IPp"})
  PROVE  Drawn(s, t, At(s.RAM, s.MAR)) /\ t.IP = Plus(s.IP, 1)
<1>1. Keeps(s, t, {"PATTERNS", "ATTRIBUTES", "IP"})
  BY KeepsUntouched DEF Touched, Keeps
<1>2. BusOf(s, {"RAM", "RAMo", "GPUi", "IPp"}) = At(s.RAM, s.MAR)
  BY DEF BusOf
<1> QED BY <1>1, <1>2 DEF Micro, Drawn

(***************************************************************************)
(* What programs see of a state, and runs of the machine from one          *)
(* instruction to its end.                                                 *)
(***************************************************************************)

\* What programs see of a record of a running machine.
Seen(s) ==
  [A |-> s.A, B |-> s.B, SP |-> s.SP, IP |-> s.IP, SEC |-> s.SEC, NDX |-> s.NDX, FR |-> s.FR, RAM |-> s.RAM,
   MEM |-> s.MEM, KEYS |-> s.KEYS, ATTRIBUTES |-> s.ATTRIBUTES, PATTERNS |-> s.PATTERNS, halted |-> FALSE]

\* The fields of what programs see.
VisibleFields ==
  {"A", "B", "SP", "IP", "SEC", "NDX", "FR", "RAM", "MEM", "KEYS", "ATTRIBUTES", "PATTERNS", "halted"}

\* The states of the instruction set.
Visibles ==
  [A : Uint16, B : Uint16, SP : Uint16, IP : Uint16, SEC : Uint16, NDX : Uint8,
   FR : SUBSET {"Z", "N", "C"}, RAM : Memories, MEM : Memories, KEYS : Seq(Uint8),
   ATTRIBUTES : Memories, PATTERNS : Memories, halted : BOOLEAN]

\* Programs see c and d alike but for some fields.
Same(c, d, changed) == \A f \in VisibleFields \ changed : d[f] = c[f]

\* The words of the instruction were run behind its fetch.
Runs(run, steps) == \A k \in 1 .. Len(steps) : run[k + 2] = Micro(run[k + 1], steps[k])

\* A run of literal words, word by word.
LEMMA RunsOne ==
  ASSUME NEW run, NEW u, Runs(run, << u >>)
  PROVE  run[3] = Micro(run[2], u)
BY DEF Runs

LEMMA RunsTwo ==
  ASSUME NEW run, NEW u, NEW v, Runs(run, << u, v >>)
  PROVE  /\ run[3] = Micro(run[2], u)
         /\ run[4] = Micro(run[3], v)
<1> DEFINE steps == << u, v >>
<1>1. \A k \in 1 .. 2 : run[k + 2] = Micro(run[k + 1], steps[k])
  BY DEF Runs
<1>2. steps[1] = u
  OBVIOUS
<1>3. steps[2] = v
  OBVIOUS
<1> HIDE DEF steps
<1>4. run[3] = Micro(run[2], u)
  BY <1>1, <1>2
<1>5. run[4] = Micro(run[3], v)
  BY <1>1, <1>3
<1> QED BY <1>4, <1>5

LEMMA RunsThree ==
  ASSUME NEW run, NEW u, NEW v, NEW w, Runs(run, << u, v, w >>)
  PROVE  /\ run[3] = Micro(run[2], u)
         /\ run[4] = Micro(run[3], v)
         /\ run[5] = Micro(run[4], w)
<1> DEFINE steps == << u, v, w >>
<1>1. \A k \in 1 .. 3 : run[k + 2] = Micro(run[k + 1], steps[k])
  BY DEF Runs
<1>2. steps[1] = u
  OBVIOUS
<1>3. steps[2] = v
  OBVIOUS
<1>4. steps[3] = w
  OBVIOUS
<1> HIDE DEF steps
<1>5. run[3] = Micro(run[2], u)
  BY <1>1, <1>2
<1>6. run[4] = Micro(run[3], v)
  BY <1>1, <1>3
<1>7. run[5] = Micro(run[4], w)
  BY <1>1, <1>4
<1> QED BY <1>5, <1>6, <1>7

LEMMA RunsFour ==
  ASSUME NEW run, NEW u, NEW v, NEW w, NEW x, Runs(run, << u, v, w, x >>)
  PROVE  /\ run[3] = Micro(run[2], u)
         /\ run[4] = Micro(run[3], v)
         /\ run[5] = Micro(run[4], w)
         /\ run[6] = Micro(run[5], x)
<1> DEFINE steps == << u, v, w, x >>
<1>1. \A k \in 1 .. 4 : run[k + 2] = Micro(run[k + 1], steps[k])
  BY DEF Runs
<1>2. steps[1] = u
  OBVIOUS
<1>3. steps[2] = v
  OBVIOUS
<1>4. steps[3] = w
  OBVIOUS
<1>5. steps[4] = x
  OBVIOUS
<1> HIDE DEF steps
<1>6. run[3] = Micro(run[2], u)
  BY <1>1, <1>2
<1>7. run[4] = Micro(run[3], v)
  BY <1>1, <1>3
<1>8. run[5] = Micro(run[4], w)
  BY <1>1, <1>4
<1>9. run[6] = Micro(run[5], x)
  BY <1>1, <1>5
<1> QED BY <1>6, <1>7, <1>8, <1>9

LEMMA RunsFive ==
  ASSUME NEW run, NEW u, NEW v, NEW w, NEW x, NEW y, Runs(run, << u, v, w, x, y >>)
  PROVE  /\ run[3] = Micro(run[2], u)
         /\ run[4] = Micro(run[3], v)
         /\ run[5] = Micro(run[4], w)
         /\ run[6] = Micro(run[5], x)
         /\ run[7] = Micro(run[6], y)
<1> DEFINE steps == << u, v, w, x, y >>
<1>1. \A k \in 1 .. 5 : run[k + 2] = Micro(run[k + 1], steps[k])
  BY DEF Runs
<1>2. steps[1] = u
  OBVIOUS
<1>3. steps[2] = v
  OBVIOUS
<1>4. steps[3] = w
  OBVIOUS
<1>5. steps[4] = x
  OBVIOUS
<1>6. steps[5] = y
  OBVIOUS
<1> HIDE DEF steps
<1>7. run[3] = Micro(run[2], u)
  BY <1>1, <1>2
<1>8. run[4] = Micro(run[3], v)
  BY <1>1, <1>3
<1>9. run[5] = Micro(run[4], w)
  BY <1>1, <1>4
<1>10. run[6] = Micro(run[5], x)
  BY <1>1, <1>5
<1>11. run[7] = Micro(run[6], y)
  BY <1>1, <1>6
<1> QED BY <1>7, <1>8, <1>9, <1>10, <1>11

LEMMA RunsSix ==
  ASSUME NEW run, NEW u, NEW v, NEW w, NEW x, NEW y, NEW z, Runs(run, << u, v, w, x, y, z >>)
  PROVE  /\ run[3] = Micro(run[2], u)
         /\ run[4] = Micro(run[3], v)
         /\ run[5] = Micro(run[4], w)
         /\ run[6] = Micro(run[5], x)
         /\ run[7] = Micro(run[6], y)
         /\ run[8] = Micro(run[7], z)
<1> DEFINE steps == << u, v, w, x, y, z >>
<1>1. \A k \in 1 .. 6 : run[k + 2] = Micro(run[k + 1], steps[k])
  BY DEF Runs
<1>2. steps[1] = u
  OBVIOUS
<1>3. steps[2] = v
  OBVIOUS
<1>4. steps[3] = w
  OBVIOUS
<1>5. steps[4] = x
  OBVIOUS
<1>6. steps[5] = y
  OBVIOUS
<1>7. steps[6] = z
  OBVIOUS
<1> HIDE DEF steps
<1>8. run[3] = Micro(run[2], u)
  BY <1>1, <1>2
<1>9. run[4] = Micro(run[3], v)
  BY <1>1, <1>3
<1>10. run[5] = Micro(run[4], w)
  BY <1>1, <1>4
<1>11. run[6] = Micro(run[5], x)
  BY <1>1, <1>5
<1>12. run[7] = Micro(run[6], y)
  BY <1>1, <1>6
<1>13. run[8] = Micro(run[7], z)
  BY <1>1, <1>7
<1> QED BY <1>8, <1>9, <1>10, <1>11, <1>12, <1>13

\* The run began at what programs saw and fetched i.
Fetched(run, i) ==
  /\ \A k \in 0 .. 15 : run[k] \in States
  /\ run[1] = Micro(run[0], {"IPo", "MARi"})
  /\ run[2] = Micro(run[1], {"RAM", "RAMo", "IRi", "IPp"})
  /\ InstructionOf(run[2].IR) = i
  /\ committed = Seen(run[0])

\* The run is that of all the words of i and programs see its end.
Executed(run, i, steps, last) ==
  /\ Fetched(run, i)
  /\ last \in {2, 3, 4, 5, 6, 7} /\ Len(steps) = last - 2
  /\ Runs(run, steps)
  /\ committed' = Seen(run[last])

\* The instance of the instruction set shares the operators on words.
LEMMA SharedWords ==
  /\ \A x : Instructions!InstructionOf(x) = InstructionOf(x)
  /\ \A x, y : Instructions!At(x, y) = At(x, y)
  /\ \A x, y : Instructions!WordAt(x, y) = WordAt(x, y)
  /\ \A x, y, z : Instructions!Put(x, y, z) = Put(x, y, z)
  /\ \A x, y, z : Instructions!PutWord(x, y, z) = PutWord(x, y, z)
  /\ \A x, y : Instructions!Sector(x, y) = Sector(x, y)
  /\ \A x, y : Instructions!Plus(x, y) = Plus(x, y)
  /\ \A x, y : Instructions!Flags(x, y) = Flags(x, y)
  /\ \A x, y : Instructions!FlagsOfSum(x, y) = FlagsOfSum(x, y)
  /\ \A x, y : Instructions!BitAnd(x, y) = BitAnd(x, y)
  /\ Instructions!Byte = Byte /\ Instructions!Word = Word
<1>1. Instructions!Byte = Byte /\ Instructions!Word = Word
  BY DEF Byte, Word, Instructions!Byte, Instructions!Word
<1>2. \A x : Instructions!InstructionOf(x) = InstructionOf(x)
  BY DEF InstructionOf, instruction_to_string, Mnemonics, Instructions!InstructionOf, Instructions!instruction_to_string, Instructions!Mnemonics
<1>3. \A x, y : Instructions!At(x, y) = At(x, y)
  BY DEF At, Instructions!At
<1>4. \A x : Instructions!Even(x) = Even(x)
  BY DEF Even, Instructions!Even
<1>5. \A x, y : Instructions!WordAt(x, y) = WordAt(x, y)
  BY <1>1, <1>3, <1>4 DEF WordAt, Instructions!WordAt
<1>6. \A x, y, z : Instructions!Put(x, y, z) = Put(x, y, z)
  BY DEF Put, Instructions!Put
<1>7. \A x, y, z : Instructions!PutWord(x, y, z) = PutWord(x, y, z)
  BY <1>1, <1>4, <1>6 DEF PutWord, Instructions!PutWord
<1>8. \A x, y : Instructions!Sector(x, y) = Sector(x, y)
  BY <1>1 DEF Sector, Instructions!Sector
<1>9. \A x, y : Instructions!Plus(x, y) = Plus(x, y)
  BY <1>1 DEF Plus, Instructions!Plus
<1>10. \A x, y : Instructions!Flags(x, y) = Flags(x, y)
  BY <1>1 DEF Flags, Instructions!Flags
<1>11. \A x, y : Instructions!FlagsOfSum(x, y) = FlagsOfSum(x, y)
  BY <1>1, <1>9, <1>10 DEF FlagsOfSum, Instructions!FlagsOfSum
<1>12. \A x, y : Instructions!BitAnd(x, y) = BitAnd(x, y)
  <2>1. \A x, y : Instructions!And1(x, y) = And1(x, y)
    BY DEF And1, Instructions!And1
  <2>2. \A x, y : Instructions!And2(x, y) = And2(x, y)
    BY <2>1 DEF And2, Instructions!And2
  <2>4. \A x, y : Instructions!And4(x, y) = And4(x, y)
    BY <2>2 DEF And4, Instructions!And4
  <2>8. \A x, y : Instructions!And8(x, y) = And8(x, y)
    BY <2>4 DEF And8, Instructions!And8
  <2> QED BY <1>1, <2>8 DEF BitAnd, Instructions!BitAnd
<1> QED BY <1>1, <1>2, <1>3, <1>5, <1>6, <1>7, <1>8, <1>9, <1>10, <1>11, <1>12

\* The registers programs do not see.
Hidden == {"X", "Y", "MAR", "IR", "GPUA"}

\* What changes only in hidden registers changes nothing that programs see.
LEMMA SeenOnly ==
  ASSUME NEW s, NEW t, NEW changed, NEW more, Keeps(s, t, changed), changed \subseteq Hidden \cup more
  PROVE  Same(Seen(s), Seen(t), more)
<1>1. \A f \in VisibleFields \ {"halted"} : f \in Fields /\ f \notin Hidden
  BY DEF VisibleFields, Fields, Hidden
<1>2. \A f \in VisibleFields \ {"halted"} : Seen(s)[f] = s[f] /\ Seen(t)[f] = t[f]
  BY DEF VisibleFields, Seen
<1>3. Seen(s)["halted"] = Seen(t)["halted"]
  BY DEF Seen
<1>4. \A f \in VisibleFields \ more : f # "halted" => t[f] = s[f]
  BY <1>1 DEF Keeps
<1> QED BY <1>2, <1>3, <1>4 DEF Same

\* What programs see of a state is a state of the instruction set.
LEMMA SeenType == \A s \in States : Seen(s) \in Visibles
BY DEF States, Seen, Visibles

\* After the fetch only IP, MAR and IR differ, and IR holds the byte IP named.
LEMMA FetchedFields ==
  ASSUME NEW run, NEW i, Fetched(run, i)
  PROVE  /\ Instructions!Is(i)
         /\ committed \in Visibles /\ run[2] \in States
         /\ run[2].A = committed.A /\ run[2].B = committed.B /\ run[2].SP = committed.SP
         /\ run[2].SEC = committed.SEC /\ run[2].NDX = committed.NDX /\ run[2].FR = committed.FR
         /\ run[2].RAM = committed.RAM /\ run[2].MEM = committed.MEM /\ run[2].KEYS = committed.KEYS
         /\ run[2].ATTRIBUTES = committed.ATTRIBUTES /\ run[2].PATTERNS = committed.PATTERNS
         /\ run[2].IP = Plus(committed.IP, 1)
         /\ committed.A \in Uint16 /\ committed.B \in Uint16 /\ committed.SP \in Uint16
         /\ committed.IP \in Uint16 /\ committed.NDX \in Uint8 /\ committed.RAM \in Memories
<1>1. Keeps(run[0], run[1], {"MAR"}) /\ run[1].MAR = run[0].IP
  BY IPo_MARi DEF Fetched
<1>2. Keeps(run[1], run[2], {"IR", "IP"}) /\ run[2].IP = Plus(run[1].IP, 1) /\ run[2].IR = At(run[1].RAM, run[1].MAR) % Byte
  BY Fetch DEF Fetched
<1>3. Keeps(run[0], run[2], {"MAR", "IR", "IP"}) /\ run[2].IP = Plus(run[0].IP, 1) /\ run[2].IR = At(run[0].RAM, run[0].IP) % Byte
  BY <1>1, <1>2 DEF Keeps, Fields
<1>4. committed.RAM = run[0].RAM /\ committed.IP = run[0].IP /\ ~committed.halted
  BY DEF Fetched, Seen
<1>5. At(run[0].RAM, run[0].IP) % Byte = At(run[0].RAM, run[0].IP)
  <2>1. At(run[0].RAM, run[0].IP) \in Uint8
    BY AtType DEF Fetched, States
  <2>2. \A x \in Uint8 : x % 256 = x
    BY Ranges
  <2> QED BY <2>1, <2>2 DEF Byte
<1>6. committed \in Visibles /\ run[2] \in States
  BY SeenType DEF Fetched
<1>8. Instructions!Is(i)
  BY <1>3, <1>4, <1>5, SharedWords DEF Fetched, Instructions!Is
<1>9. /\ run[2].A = committed.A /\ run[2].B = committed.B /\ run[2].SP = committed.SP
      /\ run[2].SEC = committed.SEC /\ run[2].NDX = committed.NDX /\ run[2].FR = committed.FR
      /\ run[2].RAM = committed.RAM /\ run[2].MEM = committed.MEM /\ run[2].KEYS = committed.KEYS
      /\ run[2].ATTRIBUTES = committed.ATTRIBUTES /\ run[2].PATTERNS = committed.PATTERNS
  BY <1>3 DEF Fetched, Seen, Keeps, Fields
<1>10. /\ committed.A \in Uint16 /\ committed.B \in Uint16 /\ committed.SP \in Uint16
       /\ committed.IP \in Uint16 /\ committed.NDX \in Uint8 /\ committed.RAM \in Memories
  BY <1>6 DEF Visibles
<1> QED BY <1>3, <1>4, <1>6, <1>8, <1>9, <1>10

\* An executed instruction is the one its description asks for, and its run goes on from
\* what programs saw.
LEMMA Begun ==
  ASSUME NEW run, NEW i, NEW steps, NEW last, Executed(run, i, steps, last)
  PROVE  /\ Instructions!Is(i)
         /\ committed \in Visibles /\ committed' \in Visibles /\ run[2] \in States
         /\ run[2].A = committed.A /\ run[2].B = committed.B /\ run[2].SP = committed.SP
         /\ run[2].SEC = committed.SEC /\ run[2].NDX = committed.NDX /\ run[2].FR = committed.FR
         /\ run[2].RAM = committed.RAM /\ run[2].MEM = committed.MEM /\ run[2].KEYS = committed.KEYS
         /\ run[2].ATTRIBUTES = committed.ATTRIBUTES /\ run[2].PATTERNS = committed.PATTERNS
         /\ run[2].IP = Plus(committed.IP, 1)
         /\ committed.A \in Uint16 /\ committed.B \in Uint16 /\ committed.SP \in Uint16
         /\ committed.IP \in Uint16 /\ committed.NDX \in Uint8 /\ committed.RAM \in Memories
<1>1. Fetched(run, i)
  BY DEF Executed
<1>2. committed' \in Visibles
  <2>1. last \in 0 .. 15 /\ committed' = Seen(run[last])
    BY DEF Executed
  <2>2. run[last] \in States
    BY <1>1, <2>1 DEF Fetched
  <2> QED BY SeenType, <2>1, <2>2
<1> QED BY <1>1, <1>2, FetchedFields

\* At the end programs see the last record of the run.
LEMMA Ended ==
  ASSUME NEW run, NEW i, NEW steps, NEW last, Executed(run, i, steps, last)
  PROVE  /\ committed'.A = run[last].A /\ committed'.B = run[last].B /\ committed'.SP = run[last].SP
         /\ committed'.IP = run[last].IP /\ committed'.SEC = run[last].SEC /\ committed'.NDX = run[last].NDX
         /\ committed'.FR = run[last].FR /\ committed'.RAM = run[last].RAM /\ committed'.MEM = run[last].MEM
         /\ committed'.KEYS = run[last].KEYS /\ committed'.ATTRIBUTES = run[last].ATTRIBUTES
         /\ committed'.PATTERNS = run[last].PATTERNS
BY DEF Executed, Seen

\* What the words of the instruction kept, programs see unchanged.
LEMMA EndsSame ==
  ASSUME NEW run, NEW i, NEW steps, NEW last, Executed(run, i, steps, last),
         NEW changed, Keeps(run[2], run[last], changed), "IP" \in changed
  PROVE  Same(committed, committed', changed)
<1>1. committed' = Seen(run[last]) /\ committed = Seen(run[0])
  BY DEF Executed, Fetched
<1>2. Keeps(run[0], run[1], {"MAR"}) /\ Keeps(run[1], run[2], {"IR", "IP"})
  BY IPo_MARi, Fetch DEF Executed, Fetched
<1>3. Keeps(run[0], run[last], changed \cup {"MAR", "IR", "IP"})
  BY <1>2 DEF Keeps
<1>4. changed \cup {"MAR", "IR", "IP"} \subseteq Hidden \cup changed
  BY DEF Hidden
<1>5. Same(Seen(run[0]), Seen(run[last]), changed)
  BY <1>3, <1>4, SeenOnly
<1> QED BY <1>1, <1>5

\* The common form of instructions that compute: a register, the flags and IP.
LEMMA ByCompute ==
  ASSUME NEW run, NEW i, NEW steps, NEW last, Executed(run, i, steps, last),
         NEW reg \in {"A", "B", "NDX"}, NEW value, NEW carry,
         NEW changed, Keeps(run[2], run[last], changed), "IP" \in changed,
         changed \subseteq Hidden \cup {reg, "FR", "IP"},
         run[last][reg] = Instructions!Kept(reg, value), run[last].FR = Flags(value, carry),
         run[last].IP = Plus(committed.IP, 1)
  PROVE  Instructions!Compute(reg, value, carry)
<1>1. committed \in Visibles /\ committed' \in Visibles
  BY Begun
<1>2. \A f \in VisibleFields \ {reg, "FR", "IP"} : committed'[f] = committed[f]
  <2>1. Same(committed, committed', changed)
    BY EndsSame
  <2> QED BY <2>1 DEF Same, VisibleFields, Hidden
<1>3. /\ committed'[reg] = Instructions!Kept(reg, value) /\ committed'.FR = Flags(value, carry)
      /\ committed'.IP = Plus(committed.IP, 1)
  BY Ended
<1>4. committed' = [committed EXCEPT ![reg] = Instructions!Kept(reg, value), !.FR = Flags(value, carry),
                                    !.IP = Plus(committed.IP, 1)]
  BY <1>1, <1>2, <1>3, Zenon DEF Visibles, VisibleFields
<1> QED BY <1>4, SharedWords, Zenon DEF Instructions!Compute, Instructions!After

\* The common form of instructions that set a register: it and IP.
LEMMA BySet ==
  ASSUME NEW run, NEW i, NEW steps, NEW last, Executed(run, i, steps, last),
         NEW reg \in {"A", "B", "SP", "SEC", "NDX"}, NEW value, NEW length,
         NEW changed, Keeps(run[2], run[last], changed), "IP" \in changed,
         changed \subseteq Hidden \cup {reg, "IP"},
         run[last][reg] = Instructions!Kept(reg, value), run[last].IP = Plus(committed.IP, length)
  PROVE  Instructions!Set(reg, value, length)
<1>1. committed \in Visibles /\ committed' \in Visibles
  BY Begun
<1>2. \A f \in VisibleFields \ {reg, "IP"} : committed'[f] = committed[f]
  <2>1. Same(committed, committed', changed)
    BY EndsSame
  <2> QED BY <2>1 DEF Same, VisibleFields, Hidden
<1>3. committed'[reg] = Instructions!Kept(reg, value) /\ committed'.IP = Plus(committed.IP, length)
  BY Ended
<1>4. committed' = [committed EXCEPT ![reg] = Instructions!Kept(reg, value), !.IP = Plus(committed.IP, length)]
  BY <1>1, <1>2, <1>3, Zenon DEF Visibles, VisibleFields
<1> QED BY <1>4, SharedWords, Zenon DEF Instructions!Set, Instructions!After

(***************************************************************************)
(* Sums of the ALU: each instruction's sum, carry in and complement        *)
(* included, is the one its description names.                             *)
(***************************************************************************)

\* Zero, one and two in sums of words.
LEMMA Sums ==
  /\ \A x \in Uint16 : Plus(x, 0) = x /\ Plus(0, x) = x
  /\ \A x \in Uint16 : Plus(Plus(x, 1), 1) = Plus(x, 2) /\ Plus(Plus(x, 2), 1) = Plus(x, 3)
  /\ \A x \in Uint16 : Plus(Plus(x, 2), -2) = x
  /\ \A x, y \in Uint16 : Plus(x, y) = Plus(y, x) /\ FlagsOfSum(x, y) = FlagsOfSum(y, x)
<1>1. \A x \in Uint16 : Plus(x, 0) = x /\ Plus(0, x) = x
  BY Ranges DEF Plus, Word
<1>2. \A x \in Uint16 : Plus(Plus(x, 1), 1) = Plus(x, 2) /\ Plus(Plus(x, 2), 1) = Plus(x, 3)
  BY Ranges DEF Plus, Word
<1>3. \A x \in Uint16 : Plus(Plus(x, 2), -2) = x
  BY Ranges DEF Plus, Word
<1>4. \A x, y \in Uint16 : Plus(x, y) = Plus(y, x) /\ FlagsOfSum(x, y) = FlagsOfSum(y, x)
  <2>1. \A x, y \in Uint16 : x + y = y + x
    BY Ranges
  <2> QED BY <2>1 DEF Plus, FlagsOfSum
<1> QED BY <1>1, <1>2, <1>3, <1>4

\* Without a carry, C is clear.
LEMMA FlagsClear == ASSUME NEW x, NEW c, ~c PROVE Flags(x, c) = Flags(x, FALSE)
<1>1. {f \in {"C"} : c} = {} /\ {f \in {"C"} : FALSE} = {}
  OBVIOUS
<1> QED BY <1>1 DEF Flags

\* 0 + x with a carry in, as INCA, INCB and SHL have it.
LEMMA IncrementSum ==
  ASSUME NEW x \in Uint16
  PROVE  /\ Plus(Plus(0, 1), x) = Plus(x, 1)
         /\ FlagsOfSum(Plus(0, 1), x) = Flags(Plus(x, 1), x = Word - 1)
<1>1. x \in Int /\ 0 <= x /\ x < 65536
  BY Ranges
<1>2. Plus(0, 1) = 1
  BY DEF Plus, Word
<1>3. Plus(1, x) = Plus(x, 1)
  BY <1>1 DEF Plus
<1>4. (1 + x >= Word) <=> (x = Word - 1)
  BY <1>1 DEF Word
<1>5. Flags(Plus(x, 1), 1 + x >= Word) = Flags(Plus(x, 1), x = Word - 1)
  BY <1>4, FlagsSame
<1> QED BY <1>2, <1>3, <1>5 DEF FlagsOfSum

\* The same for INCNDX, cut to a byte.
LEMMA IncrementByte ==
  ASSUME NEW x \in Uint8
  PROVE  /\ Plus(Plus(0, 1), x) = x + 1
         /\ FlagsOfSum(Plus(0, 1), x) = Flags(x + 1, FALSE)
<1>1. x \in Int /\ 0 <= x /\ x < 256
  BY Ranges
<1>2. Plus(0, 1) = 1
  BY DEF Plus, Word
<1>3. Plus(1, x) = x + 1
  BY <1>1 DEF Plus, Word
<1>4. ~(1 + x >= Word)
  BY <1>1 DEF Word
<1>5. Flags(x + 1, 1 + x >= Word) = Flags(x + 1, FALSE)
  BY <1>4, FlagsClear, Zenon
<1> QED BY <1>2, <1>3, <1>5, Zenon DEF FlagsOfSum

\* The complement of 0 added to x decrements it.
LEMMA DecrementSum ==
  ASSUME NEW x \in Uint16
  PROVE  /\ Plus(Plus(Word - 1 - 0, 0), x) = Plus(x, -1)
         /\ FlagsOfSum(Plus(Word - 1 - 0, 0), x) = Flags(Plus(x, -1), x # 0)
<1>1. x \in Int /\ 0 <= x /\ x < 65536
  BY Ranges
<1>2. Plus(Word - 1 - 0, 0) = 65535
  BY DEF Plus, Word
<1>3. Plus(65535, x) = Plus(x, -1)
  BY <1>1 DEF Plus, Word
<1>4. (65535 + x >= Word) <=> (x # 0)
  BY <1>1 DEF Word
<1>5. Flags(Plus(x, -1), 65535 + x >= Word) = Flags(Plus(x, -1), x # 0)
  BY <1>4, FlagsSame
<1> QED BY <1>2, <1>3, <1>5 DEF FlagsOfSum

\* The complement of x with a carry in, added to y, subtracts; the carry says y >= x.
LEMMA SubtractionSum ==
  ASSUME NEW x \in Uint16, NEW y \in Uint16
  PROVE  /\ Plus(Plus(Word - 1 - x, 1), y) = Plus(y, -x)
         /\ FlagsOfSum(Plus(Word - 1 - x, 1), y) = Flags(Plus(y, -x), y >= x /\ x # 0)
<1>1. x \in Int /\ 0 <= x /\ x < 65536 /\ y \in Int /\ 0 <= y /\ y < 65536
  BY Ranges
<1> DEFINE z == Plus(Word - 1 - x, 1)
<1>2. z = IF x = 0 THEN 0 ELSE 65536 - x
  BY <1>1 DEF Plus, Word
<1> HIDE DEF z
<1>3. Plus(z, y) = Plus(y, -x)
  <2>1. CASE x = 0
    BY <1>1, <1>2, <2>1 DEF Plus, Word
  <2>2. CASE x # 0
    <3>1. (65536 - x + y) % 65536 = (y + (-x)) % 65536
      BY <1>1
    <3> QED BY <1>2, <2>2, <3>1 DEF Plus, Word
  <2> QED BY <2>1, <2>2
<1>4. (z + y >= Word) <=> (y >= x /\ x # 0)
  BY <1>1, <1>2 DEF Word
<1>5. Flags(Plus(y, -x), z + y >= Word) = Flags(Plus(y, -x), y >= x /\ x # 0)
  BY <1>4, FlagsSame
<1> QED BY <1>3, <1>5 DEF FlagsOfSum, z

\* Doubling and adding nothing.
LEMMA OtherSums ==
  ASSUME NEW x \in Uint16
  PROVE  /\ Plus(x, 0) = x
         /\ FlagsOfSum(x, x) = Flags(Plus(x, x), x >= Word \div 2)
         /\ FlagsOfSum(x, 0) = Flags(x, FALSE)
<1>1. x \in Int /\ 0 <= x /\ x < 65536
  BY Ranges
<1>2. Plus(x, 0) = x
  BY <1>1 DEF Plus, Word
<1>3. (x + x >= Word) <=> (x >= Word \div 2)
  BY <1>1 DEF Word
<1>4. ~(x + 0 >= Word)
  BY <1>1 DEF Word
<1>5. Flags(Plus(x, x), x + x >= Word) = Flags(Plus(x, x), x >= Word \div 2)
  BY <1>3, FlagsSame
<1>6. Flags(x, x + 0 >= Word) = Flags(x, FALSE)
  BY <1>4, FlagsClear, Zenon
<1> QED BY <1>2, <1>5, <1>6, Zenon DEF FlagsOfSum

\* The target of a relative jump.
LEMMA RelativeSum ==
  ASSUME NEW x \in Uint16, NEW y \in Uint16
  PROVE  Plus(Plus(x, 0), y) = Plus(y, x) /\ FlagsOfSum(Plus(x, 0), y) = FlagsOfSum(y, x)
BY Sums

\* The next address is a word.
LEMMA NextType == \A x \in Uint16 : Plus(x, 1) \in Uint16
BY PlusType, Ranges

\* What a call sees once its return address is pushed: the argument is read after the
\* push, which may have overwritten it.
LEMMA CalledFields ==
  ASSUME committed \in Visibles
  PROVE  /\ Instructions!Called \in Visibles
         /\ Instructions!Called.RAM = PutWord(committed.RAM, committed.SP, Plus(committed.IP, 1))
         /\ Instructions!Called.SP = Plus(committed.SP, -2)
         /\ Same(committed, Instructions!Called, {"RAM", "SP"})
         /\ Instructions!Callee = WordAt(PutWord(committed.RAM, committed.SP, Plus(committed.IP, 1)), Plus(committed.IP, 1))
         /\ Instructions!Callee \in Uint16
<1> DEFINE ram == PutWord(committed.RAM, committed.SP, Plus(committed.IP, 1))
<1> DEFINE sp == Plus(committed.SP, -2)
<1>1. committed.RAM \in Memories /\ committed.SP \in Uint16 /\ committed.IP \in Uint16
  BY DEF Visibles
<1>2. ram \in Memories /\ sp \in Uint16
  <2>1. committed.SP \in Int /\ Plus(committed.IP, 1) \in Uint16
    BY <1>1, Ranges, NextType
  <2> QED BY <1>1, <2>1, PutWordType, PlusType
<1>3. Instructions!Called = [committed EXCEPT !.RAM = ram, !.SP = sp]
  BY SharedWords, Zenon DEF Instructions!Called, Instructions!After, Instructions!Above
<1> HIDE DEF ram, sp
<1>4. /\ Instructions!Called \in Visibles /\ Instructions!Called.RAM = ram /\ Instructions!Called.SP = sp
      /\ Same(committed, Instructions!Called, {"RAM", "SP"})
  BY <1>2, <1>3, Zenon DEF Visibles, Same, VisibleFields
<1>5. Instructions!Callee = WordAt(ram, Plus(committed.IP, 1))
  BY <1>4, SharedWords DEF Instructions!Callee, Instructions!After
<1>6. Instructions!Callee \in Uint16
  BY <1>2, <1>5, WordAtType
<1> QED BY <1>4, <1>5, <1>6 DEF ram, sp

(***************************************************************************)
(* Instruction by instruction: a run of its words does to what programs    *)
(* see what the instruction set says. Nothing is assumed of X, Y, MAR, IR  *)
(* and GPUA.                                                               *)
(***************************************************************************)

\* RAM_AL does what the instruction set says.
LEMMA Does_RAM_AL ==
  ASSUME NEW run, Executed(run, "RAM_AL", << {"IPo", "MARi"}, {"RAM", "RAMo", "Ai", "IPp"} >>, 4)
  PROVE  Instructions!Next
<1>1. /\ run[3] = Micro(run[2], {"IPo", "MARi"})
      /\ run[4] = Micro(run[3], {"RAM", "RAMo", "Ai", "IPp"})
  <2>1. Runs(run, << {"IPo", "MARi"}, {"RAM", "RAMo", "Ai", "IPp"} >>)
    BY DEF Executed
  <2> QED BY <2>1, RunsTwo
<1>2. /\ Keeps(run[2], run[3], {"MAR"}) /\ run[3].MAR = run[2].IP
      /\ Keeps(run[3], run[4], {"A", "IP"}) /\ run[4].A = At(run[3].RAM, run[3].MAR) /\ run[4].IP = Plus(run[3].IP, 1)
  BY <1>1, IPo_MARi, Short_Ai, Zenon
<1>3. /\ Keeps(run[2], run[4], {"MAR", "A", "IP"})
      /\ run[4].A = At(run[2].RAM, run[2].IP)
      /\ run[4].IP = Plus(run[2].IP, 1)
  BY <1>2 DEF Keeps, Fields
<1>4. run[2].RAM = committed.RAM /\ run[2].IP = Plus(committed.IP, 1)
  BY Begun
<1>5. run[4].A = Instructions!Kept("A", At(committed.RAM, Plus(committed.IP, 1)))
  BY <1>3, <1>4, SharedWords DEF Instructions!Kept
<1>6. run[4].IP = Plus(committed.IP, 2)
  <2>1. committed.IP \in Uint16
    BY Begun
  <2> QED BY <1>3, <1>4, <2>1, Sums
<1>7. Instructions!Set("A", At(committed.RAM, Plus(committed.IP, 1)), 2)
  BY <1>3, <1>5, <1>6, BySet DEF Hidden
<1> QED BY <1>7, Begun, SharedWords DEF Instructions!Load, Instructions!Next, Instructions!Loads, Instructions!Short, Instructions!After

\* RAM_BL does what the instruction set says.
LEMMA Does_RAM_BL ==
  ASSUME NEW run, Executed(run, "RAM_BL", << {"IPo", "MARi"}, {"RAM", "RAMo", "Bi", "IPp"} >>, 4)
  PROVE  Instructions!Next
<1>1. /\ run[3] = Micro(run[2], {"IPo", "MARi"})
      /\ run[4] = Micro(run[3], {"RAM", "RAMo", "Bi", "IPp"})
  <2>1. Runs(run, << {"IPo", "MARi"}, {"RAM", "RAMo", "Bi", "IPp"} >>)
    BY DEF Executed
  <2> QED BY <2>1, RunsTwo
<1>2. /\ Keeps(run[2], run[3], {"MAR"}) /\ run[3].MAR = run[2].IP
      /\ Keeps(run[3], run[4], {"B", "IP"}) /\ run[4].B = At(run[3].RAM, run[3].MAR) /\ run[4].IP = Plus(run[3].IP, 1)
  BY <1>1, IPo_MARi, Short_Bi, Zenon
<1>3. /\ Keeps(run[2], run[4], {"MAR", "B", "IP"})
      /\ run[4].B = At(run[2].RAM, run[2].IP)
      /\ run[4].IP = Plus(run[2].IP, 1)
  BY <1>2 DEF Keeps, Fields
<1>4. run[2].RAM = committed.RAM /\ run[2].IP = Plus(committed.IP, 1)
  BY Begun
<1>5. run[4].B = Instructions!Kept("B", At(committed.RAM, Plus(committed.IP, 1)))
  BY <1>3, <1>4, SharedWords DEF Instructions!Kept
<1>6. run[4].IP = Plus(committed.IP, 2)
  <2>1. committed.IP \in Uint16
    BY Begun
  <2> QED BY <1>3, <1>4, <2>1, Sums
<1>7. Instructions!Set("B", At(committed.RAM, Plus(committed.IP, 1)), 2)
  BY <1>3, <1>5, <1>6, BySet DEF Hidden
<1> QED BY <1>7, Begun, SharedWords DEF Instructions!Load, Instructions!Next, Instructions!Loads, Instructions!Short, Instructions!After

\* RAM_NDX does what the instruction set says.
LEMMA Does_RAM_NDX ==
  ASSUME NEW run, Executed(run, "RAM_NDX", << {"IPo", "MARi"}, {"RAM", "RAMo", "NDXi", "IPp"} >>, 4)
  PROVE  Instructions!Next
<1>1. /\ run[3] = Micro(run[2], {"IPo", "MARi"})
      /\ run[4] = Micro(run[3], {"RAM", "RAMo", "NDXi", "IPp"})
  <2>1. Runs(run, << {"IPo", "MARi"}, {"RAM", "RAMo", "NDXi", "IPp"} >>)
    BY DEF Executed
  <2> QED BY <2>1, RunsTwo
<1>2. /\ Keeps(run[2], run[3], {"MAR"}) /\ run[3].MAR = run[2].IP
      /\ Keeps(run[3], run[4], {"NDX", "IP"}) /\ run[4].NDX = At(run[3].RAM, run[3].MAR) % Byte /\ run[4].IP = Plus(run[3].IP, 1)
  BY <1>1, IPo_MARi, Short_NDXi, Zenon
<1>3. /\ Keeps(run[2], run[4], {"MAR", "NDX", "IP"})
      /\ run[4].NDX = At(run[2].RAM, run[2].IP) % Byte
      /\ run[4].IP = Plus(run[2].IP, 1)
  BY <1>2 DEF Keeps, Fields
<1>4. run[2].RAM = committed.RAM /\ run[2].IP = Plus(committed.IP, 1)
  BY Begun
<1>5. run[4].NDX = Instructions!Kept("NDX", At(committed.RAM, Plus(committed.IP, 1)))
  BY <1>3, <1>4, SharedWords DEF Instructions!Kept
<1>6. run[4].IP = Plus(committed.IP, 2)
  <2>1. committed.IP \in Uint16
    BY Begun
  <2> QED BY <1>3, <1>4, <2>1, Sums
<1>7. Instructions!Set("NDX", At(committed.RAM, Plus(committed.IP, 1)), 2)
  BY <1>3, <1>5, <1>6, BySet DEF Hidden
<1> QED BY <1>7, Begun, SharedWords DEF Instructions!Load, Instructions!Next, Instructions!Loads, Instructions!Short, Instructions!After

\* RAM_A does what the instruction set says.
LEMMA Does_RAM_A ==
  ASSUME NEW run, Executed(run, "RAM_A", << {"IPo", "MARi"}, {"RAM", "RAMo", "RAM16", "Ai", "IPp"}, {"IPp"} >>, 5)
  PROVE  Instructions!Next
<1>1. /\ run[3] = Micro(run[2], {"IPo", "MARi"})
      /\ run[4] = Micro(run[3], {"RAM", "RAMo", "RAM16", "Ai", "IPp"})
      /\ run[5] = Micro(run[4], {"IPp"})
  <2>1. Runs(run, << {"IPo", "MARi"}, {"RAM", "RAMo", "RAM16", "Ai", "IPp"}, {"IPp"} >>)
    BY DEF Executed
  <2> QED BY <2>1, RunsThree
<1>2. /\ Keeps(run[2], run[3], {"MAR"}) /\ run[3].MAR = run[2].IP
      /\ Keeps(run[3], run[4], {"A", "IP"}) /\ run[4].A = WordAt(run[3].RAM, run[3].MAR) /\ run[4].IP = Plus(run[3].IP, 1)
      /\ Keeps(run[4], run[5], {"IP"}) /\ run[5].IP = Plus(run[4].IP, 1)
  BY <1>1, IPo_MARi, Wide_Ai, IPp, Zenon
<1>3. /\ Keeps(run[2], run[5], {"MAR", "A", "IP"})
      /\ run[5].A = WordAt(run[2].RAM, run[2].IP)
      /\ run[5].IP = Plus(Plus(run[2].IP, 1), 1)
  BY <1>2 DEF Keeps, Fields
<1>4. run[2].RAM = committed.RAM /\ run[2].IP = Plus(committed.IP, 1)
  BY Begun
<1>5. run[5].A = Instructions!Kept("A", WordAt(committed.RAM, Plus(committed.IP, 1)))
  BY <1>3, <1>4, SharedWords DEF Instructions!Kept
<1>6. run[5].IP = Plus(committed.IP, 3)
  <2>1. committed.IP \in Uint16
    BY Begun
  <2> QED BY <1>3, <1>4, <2>1, Sums
<1>7. Instructions!Set("A", WordAt(committed.RAM, Plus(committed.IP, 1)), 3)
  BY <1>3, <1>5, <1>6, BySet DEF Hidden
<1> QED BY <1>7, Begun, SharedWords DEF Instructions!WideLoad, Instructions!Next, Instructions!WideLoads, Instructions!Wide, Instructions!After

\* RAM_B does what the instruction set says.
LEMMA Does_RAM_B ==
  ASSUME NEW run, Executed(run, "RAM_B", << {"IPo", "MARi"}, {"RAM", "RAMo", "RAM16", "Bi", "IPp"}, {"IPp"} >>, 5)
  PROVE  Instructions!Next
<1>1. /\ run[3] = Micro(run[2], {"IPo", "MARi"})
      /\ run[4] = Micro(run[3], {"RAM", "RAMo", "RAM16", "Bi", "IPp"})
      /\ run[5] = Micro(run[4], {"IPp"})
  <2>1. Runs(run, << {"IPo", "MARi"}, {"RAM", "RAMo", "RAM16", "Bi", "IPp"}, {"IPp"} >>)
    BY DEF Executed
  <2> QED BY <2>1, RunsThree
<1>2. /\ Keeps(run[2], run[3], {"MAR"}) /\ run[3].MAR = run[2].IP
      /\ Keeps(run[3], run[4], {"B", "IP"}) /\ run[4].B = WordAt(run[3].RAM, run[3].MAR) /\ run[4].IP = Plus(run[3].IP, 1)
      /\ Keeps(run[4], run[5], {"IP"}) /\ run[5].IP = Plus(run[4].IP, 1)
  BY <1>1, IPo_MARi, Wide_Bi, IPp, Zenon
<1>3. /\ Keeps(run[2], run[5], {"MAR", "B", "IP"})
      /\ run[5].B = WordAt(run[2].RAM, run[2].IP)
      /\ run[5].IP = Plus(Plus(run[2].IP, 1), 1)
  BY <1>2 DEF Keeps, Fields
<1>4. run[2].RAM = committed.RAM /\ run[2].IP = Plus(committed.IP, 1)
  BY Begun
<1>5. run[5].B = Instructions!Kept("B", WordAt(committed.RAM, Plus(committed.IP, 1)))
  BY <1>3, <1>4, SharedWords DEF Instructions!Kept
<1>6. run[5].IP = Plus(committed.IP, 3)
  <2>1. committed.IP \in Uint16
    BY Begun
  <2> QED BY <1>3, <1>4, <2>1, Sums
<1>7. Instructions!Set("B", WordAt(committed.RAM, Plus(committed.IP, 1)), 3)
  BY <1>3, <1>5, <1>6, BySet DEF Hidden
<1> QED BY <1>7, Begun, SharedWords DEF Instructions!WideLoad, Instructions!Next, Instructions!WideLoads, Instructions!Wide, Instructions!After

\* A_B does what the instruction set says.
LEMMA Does_A_B ==
  ASSUME NEW run, Executed(run, "A_B", << {"Ao", "Bi"} >>, 3)
  PROVE  Instructions!Next
<1>1. /\ run[3] = Micro(run[2], {"Ao", "Bi"})
  <2>1. Runs(run, << {"Ao", "Bi"} >>)
    BY DEF Executed
  <2> QED BY <2>1, RunsOne
<1>2. /\ Keeps(run[2], run[3], {"B"}) /\ run[3].B = run[2].A
  BY <1>1, Ao_Bi
<1>3. /\ Keeps(run[2], run[3], {"B", "IP"})
      /\ run[3].IP = run[2].IP
      /\ run[3].B = run[2].A
  BY <1>2 DEF Keeps, Fields
<1>4. run[2].A = committed.A /\ run[2].IP = Plus(committed.IP, 1)
  BY Begun
<1>5. run[3].B = Instructions!Kept("B", committed.A)
  BY <1>3, <1>4, SharedWords DEF Instructions!Kept
<1>6. run[3].IP = Plus(committed.IP, 1)
  BY <1>3, <1>4
<1>7. Instructions!Set("B", committed.A, 1)
  BY <1>3, <1>5, <1>6, BySet DEF Hidden
<1> QED BY <1>7, Begun, SharedWords DEF Instructions!Move, Instructions!Next, Instructions!Moves

\* B_A does what the instruction set says.
LEMMA Does_B_A ==
  ASSUME NEW run, Executed(run, "B_A", << {"Bo", "Ai"} >>, 3)
  PROVE  Instructions!Next
<1>1. /\ run[3] = Micro(run[2], {"Bo", "Ai"})
  <2>1. Runs(run, << {"Bo", "Ai"} >>)
    BY DEF Executed
  <2> QED BY <2>1, RunsOne
<1>2. /\ Keeps(run[2], run[3], {"A"}) /\ run[3].A = run[2].B
  BY <1>1, Bo_Ai
<1>3. /\ Keeps(run[2], run[3], {"A", "IP"})
      /\ run[3].IP = run[2].IP
      /\ run[3].A = run[2].B
  BY <1>2 DEF Keeps, Fields
<1>4. run[2].B = committed.B /\ run[2].IP = Plus(committed.IP, 1)
  BY Begun
<1>5. run[3].A = Instructions!Kept("A", committed.B)
  BY <1>3, <1>4, SharedWords DEF Instructions!Kept
<1>6. run[3].IP = Plus(committed.IP, 1)
  BY <1>3, <1>4
<1>7. Instructions!Set("A", committed.B, 1)
  BY <1>3, <1>5, <1>6, BySet DEF Hidden
<1> QED BY <1>7, Begun, SharedWords DEF Instructions!Move, Instructions!Next, Instructions!Moves

\* A_SP does what the instruction set says.
LEMMA Does_A_SP ==
  ASSUME NEW run, Executed(run, "A_SP", << {"Ao", "SPi"} >>, 3)
  PROVE  Instructions!Next
<1>1. /\ run[3] = Micro(run[2], {"Ao", "SPi"})
  <2>1. Runs(run, << {"Ao", "SPi"} >>)
    BY DEF Executed
  <2> QED BY <2>1, RunsOne
<1>2. /\ Keeps(run[2], run[3], {"SP"}) /\ run[3].SP = run[2].A
  BY <1>1, Ao_SPi
<1>3. /\ Keeps(run[2], run[3], {"SP", "IP"})
      /\ run[3].IP = run[2].IP
      /\ run[3].SP = run[2].A
  BY <1>2 DEF Keeps, Fields
<1>4. run[2].A = committed.A /\ run[2].IP = Plus(committed.IP, 1)
  BY Begun
<1>5. run[3].SP = Instructions!Kept("SP", committed.A)
  BY <1>3, <1>4, SharedWords DEF Instructions!Kept
<1>6. run[3].IP = Plus(committed.IP, 1)
  BY <1>3, <1>4
<1>7. Instructions!Set("SP", committed.A, 1)
  BY <1>3, <1>5, <1>6, BySet DEF Hidden
<1> QED BY <1>7, Begun, SharedWords DEF Instructions!Move, Instructions!Next, Instructions!Moves

\* SP_A does what the instruction set says.
LEMMA Does_SP_A ==
  ASSUME NEW run, Executed(run, "SP_A", << {"SPo", "Ai"} >>, 3)
  PROVE  Instructions!Next
<1>1. /\ run[3] = Micro(run[2], {"SPo", "Ai"})
  <2>1. Runs(run, << {"SPo", "Ai"} >>)
    BY DEF Executed
  <2> QED BY <2>1, RunsOne
<1>2. /\ Keeps(run[2], run[3], {"A"}) /\ run[3].A = run[2].SP
  BY <1>1, SPo_Ai
<1>3. /\ Keeps(run[2], run[3], {"A", "IP"})
      /\ run[3].IP = run[2].IP
      /\ run[3].A = run[2].SP
  BY <1>2 DEF Keeps, Fields
<1>4. run[2].SP = committed.SP /\ run[2].IP = Plus(committed.IP, 1)
  BY Begun
<1>5. run[3].A = Instructions!Kept("A", committed.SP)
  BY <1>3, <1>4, SharedWords DEF Instructions!Kept
<1>6. run[3].IP = Plus(committed.IP, 1)
  BY <1>3, <1>4
<1>7. Instructions!Set("A", committed.SP, 1)
  BY <1>3, <1>5, <1>6, BySet DEF Hidden
<1> QED BY <1>7, Begun, SharedWords DEF Instructions!Move, Instructions!Next, Instructions!Moves

\* A_SEC does what the instruction set says.
LEMMA Does_A_SEC ==
  ASSUME NEW run, Executed(run, "A_SEC", << {"Ao", "SECi"} >>, 3)
  PROVE  Instructions!Next
<1>1. /\ run[3] = Micro(run[2], {"Ao", "SECi"})
  <2>1. Runs(run, << {"Ao", "SECi"} >>)
    BY DEF Executed
  <2> QED BY <2>1, RunsOne
<1>2. /\ Keeps(run[2], run[3], {"SEC"}) /\ run[3].SEC = run[2].A % 4096
  BY <1>1, Ao_SECi
<1>3. /\ Keeps(run[2], run[3], {"SEC", "IP"})
      /\ run[3].IP = run[2].IP
      /\ run[3].SEC = run[2].A % 4096
  BY <1>2 DEF Keeps, Fields
<1>4. run[2].A = committed.A /\ run[2].IP = Plus(committed.IP, 1)
  BY Begun
<1>5. run[3].SEC = Instructions!Kept("SEC", committed.A)
  BY <1>3, <1>4, SharedWords DEF Instructions!Kept
<1>6. run[3].IP = Plus(committed.IP, 1)
  BY <1>3, <1>4
<1>7. Instructions!Set("SEC", committed.A, 1)
  BY <1>3, <1>5, <1>6, BySet DEF Hidden
<1> QED BY <1>7, Begun, SharedWords DEF Instructions!Move, Instructions!Next, Instructions!Moves

\* SEC_A does what the instruction set says.
LEMMA Does_SEC_A ==
  ASSUME NEW run, Executed(run, "SEC_A", << {"SECo", "Ai"} >>, 3)
  PROVE  Instructions!Next
<1>1. /\ run[3] = Micro(run[2], {"SECo", "Ai"})
  <2>1. Runs(run, << {"SECo", "Ai"} >>)
    BY DEF Executed
  <2> QED BY <2>1, RunsOne
<1>2. /\ Keeps(run[2], run[3], {"A"}) /\ run[3].A = run[2].SEC
  BY <1>1, SECo_Ai
<1>3. /\ Keeps(run[2], run[3], {"A", "IP"})
      /\ run[3].IP = run[2].IP
      /\ run[3].A = run[2].SEC
  BY <1>2 DEF Keeps, Fields
<1>4. run[2].SEC = committed.SEC /\ run[2].IP = Plus(committed.IP, 1)
  BY Begun
<1>5. run[3].A = Instructions!Kept("A", committed.SEC)
  BY <1>3, <1>4, SharedWords DEF Instructions!Kept
<1>6. run[3].IP = Plus(committed.IP, 1)
  BY <1>3, <1>4
<1>7. Instructions!Set("A", committed.SEC, 1)
  BY <1>3, <1>5, <1>6, BySet DEF Hidden
<1> QED BY <1>7, Begun, SharedWords DEF Instructions!Move, Instructions!Next, Instructions!Moves

\* NDX_A does what the instruction set says.
LEMMA Does_NDX_A ==
  ASSUME NEW run, Executed(run, "NDX_A", << {"NDXo", "Ai"} >>, 3)
  PROVE  Instructions!Next
<1>1. /\ run[3] = Micro(run[2], {"NDXo", "Ai"})
  <2>1. Runs(run, << {"NDXo", "Ai"} >>)
    BY DEF Executed
  <2> QED BY <2>1, RunsOne
<1>2. /\ Keeps(run[2], run[3], {"A"}) /\ run[3].A = run[2].NDX
  BY <1>1, NDXo_Ai
<1>3. /\ Keeps(run[2], run[3], {"A", "IP"})
      /\ run[3].IP = run[2].IP
      /\ run[3].A = run[2].NDX
  BY <1>2 DEF Keeps, Fields
<1>4. run[2].NDX = committed.NDX /\ run[2].IP = Plus(committed.IP, 1)
  BY Begun
<1>5. run[3].A = Instructions!Kept("A", committed.NDX)
  BY <1>3, <1>4, SharedWords DEF Instructions!Kept
<1>6. run[3].IP = Plus(committed.IP, 1)
  BY <1>3, <1>4
<1>7. Instructions!Set("A", committed.NDX, 1)
  BY <1>3, <1>5, <1>6, BySet DEF Hidden
<1> QED BY <1>7, Begun, SharedWords DEF Instructions!Move, Instructions!Next, Instructions!Moves

\* A_NDX does what the instruction set says.
LEMMA Does_A_NDX ==
  ASSUME NEW run, Executed(run, "A_NDX", << {"Ao", "NDXi"} >>, 3)
  PROVE  Instructions!Next
<1>1. /\ run[3] = Micro(run[2], {"Ao", "NDXi"})
  <2>1. Runs(run, << {"Ao", "NDXi"} >>)
    BY DEF Executed
  <2> QED BY <2>1, RunsOne
<1>2. /\ Keeps(run[2], run[3], {"NDX"}) /\ run[3].NDX = run[2].A % Byte
  BY <1>1, Ao_NDXi
<1>3. /\ Keeps(run[2], run[3], {"NDX", "IP"})
      /\ run[3].IP = run[2].IP
      /\ run[3].NDX = run[2].A % Byte
  BY <1>2 DEF Keeps, Fields
<1>4. run[2].A = committed.A /\ run[2].IP = Plus(committed.IP, 1)
  BY Begun
<1>5. run[3].NDX = Instructions!Kept("NDX", committed.A)
  BY <1>3, <1>4, SharedWords DEF Instructions!Kept
<1>6. run[3].IP = Plus(committed.IP, 1)
  BY <1>3, <1>4
<1>7. Instructions!Set("NDX", committed.A, 1)
  BY <1>3, <1>5, <1>6, BySet DEF Hidden
<1> QED BY <1>7, Begun, SharedWords DEF Instructions!Move, Instructions!Next, Instructions!Moves

\* INCA does what the instruction set says.
LEMMA Does_INCA ==
  ASSUME NEW run, Executed(run, "INCA", << {"Ao", "Yi"}, {"Xi"}, {"Ci", "ALUo", "Ai"} >>, 5)
  PROVE  Instructions!Next
<1>1. /\ run[3] = Micro(run[2], {"Ao", "Yi"})
      /\ run[4] = Micro(run[3], {"Xi"})
      /\ run[5] = Micro(run[4], {"Ci", "ALUo", "Ai"})
  <2>1. Runs(run, << {"Ao", "Yi"}, {"Xi"}, {"Ci", "ALUo", "Ai"} >>)
    BY DEF Executed
  <2> QED BY <2>1, RunsThree
<1>2. /\ Keeps(run[2], run[3], {"Y"}) /\ run[3].Y = run[2].A
      /\ Keeps(run[3], run[4], {"X"}) /\ run[4].X = 0
      /\ Keeps(run[4], run[5], {"A", "FR"}) /\ run[5].A = Plus(Plus(run[4].X, 1), run[4].Y) /\ run[5].FR = FlagsOfSum(Plus(run[4].X, 1), run[4].Y)
  BY <1>1, Ao_Yi, Xi, Increase_Ai, Zenon
<1>3. /\ Keeps(run[2], run[5], {"X", "Y", "A", "FR", "IP"})
      /\ run[5].IP = run[2].IP
      /\ run[5].A = Plus(Plus(0, 1), run[2].A)
      /\ run[5].FR = FlagsOfSum(Plus(0, 1), run[2].A)
  BY <1>2 DEF Keeps, Fields
<1>4. run[2].A = committed.A /\ run[2].IP = Plus(committed.IP, 1)
  BY Begun
<1>5. /\ run[5].A = Plus(committed.A, 1)
      /\ run[5].FR = Flags(Plus(committed.A, 1), committed.A = Word - 1)
  <2>1. committed.A \in Uint16
    BY Begun
  <2> QED BY <1>3, <1>4, <2>1, IncrementSum
<1>6. run[5].A = Instructions!Kept("A", Plus(committed.A, 1))
  BY <1>5, SharedWords DEF Instructions!Kept
<1>7. Instructions!Compute("A", Plus(committed.A, 1), committed.A = Word - 1)
  BY <1>3, <1>4, <1>5, <1>6, ByCompute DEF Hidden
<1> QED BY <1>7, Begun, SharedWords, Zenon DEF Instructions!Arithmetic, Instructions!Next

\* INCB does what the instruction set says.
LEMMA Does_INCB ==
  ASSUME NEW run, Executed(run, "INCB", << {"Bo", "Yi"}, {"Xi"}, {"Ci", "ALUo", "Bi"} >>, 5)
  PROVE  Instructions!Next
<1>1. /\ run[3] = Micro(run[2], {"Bo", "Yi"})
      /\ run[4] = Micro(run[3], {"Xi"})
      /\ run[5] = Micro(run[4], {"Ci", "ALUo", "Bi"})
  <2>1. Runs(run, << {"Bo", "Yi"}, {"Xi"}, {"Ci", "ALUo", "Bi"} >>)
    BY DEF Executed
  <2> QED BY <2>1, RunsThree
<1>2. /\ Keeps(run[2], run[3], {"Y"}) /\ run[3].Y = run[2].B
      /\ Keeps(run[3], run[4], {"X"}) /\ run[4].X = 0
      /\ Keeps(run[4], run[5], {"B", "FR"}) /\ run[5].B = Plus(Plus(run[4].X, 1), run[4].Y) /\ run[5].FR = FlagsOfSum(Plus(run[4].X, 1), run[4].Y)
  BY <1>1, Bo_Yi, Xi, Increase_Bi, Zenon
<1>3. /\ Keeps(run[2], run[5], {"X", "Y", "B", "FR", "IP"})
      /\ run[5].IP = run[2].IP
      /\ run[5].B = Plus(Plus(0, 1), run[2].B)
      /\ run[5].FR = FlagsOfSum(Plus(0, 1), run[2].B)
  BY <1>2 DEF Keeps, Fields
<1>4. run[2].B = committed.B /\ run[2].IP = Plus(committed.IP, 1)
  BY Begun
<1>5. /\ run[5].B = Plus(committed.B, 1)
      /\ run[5].FR = Flags(Plus(committed.B, 1), committed.B = Word - 1)
  <2>1. committed.B \in Uint16
    BY Begun
  <2> QED BY <1>3, <1>4, <2>1, IncrementSum
<1>6. run[5].B = Instructions!Kept("B", Plus(committed.B, 1))
  BY <1>5, SharedWords DEF Instructions!Kept
<1>7. Instructions!Compute("B", Plus(committed.B, 1), committed.B = Word - 1)
  BY <1>3, <1>4, <1>5, <1>6, ByCompute DEF Hidden
<1> QED BY <1>7, Begun, SharedWords, Zenon DEF Instructions!Arithmetic, Instructions!Next

\* INCNDX does what the instruction set says.
LEMMA Does_INCNDX ==
  ASSUME NEW run, Executed(run, "INCNDX", << {"NDXo", "Yi"}, {"Xi"}, {"Ci", "ALUo", "NDXi"} >>, 5)
  PROVE  Instructions!Next
<1>1. /\ run[3] = Micro(run[2], {"NDXo", "Yi"})
      /\ run[4] = Micro(run[3], {"Xi"})
      /\ run[5] = Micro(run[4], {"Ci", "ALUo", "NDXi"})
  <2>1. Runs(run, << {"NDXo", "Yi"}, {"Xi"}, {"Ci", "ALUo", "NDXi"} >>)
    BY DEF Executed
  <2> QED BY <2>1, RunsThree
<1>2. /\ Keeps(run[2], run[3], {"Y"}) /\ run[3].Y = run[2].NDX
      /\ Keeps(run[3], run[4], {"X"}) /\ run[4].X = 0
      /\ Keeps(run[4], run[5], {"NDX", "FR"}) /\ run[5].NDX = Plus(Plus(run[4].X, 1), run[4].Y) % Byte /\ run[5].FR = FlagsOfSum(Plus(run[4].X, 1), run[4].Y)
  BY <1>1, NDXo_Yi, Xi, Increase_NDXi, Zenon
<1>3. /\ Keeps(run[2], run[5], {"X", "Y", "NDX", "FR", "IP"})
      /\ run[5].IP = run[2].IP
      /\ run[5].NDX = Plus(Plus(0, 1), run[2].NDX) % Byte
      /\ run[5].FR = FlagsOfSum(Plus(0, 1), run[2].NDX)
  BY <1>2 DEF Keeps, Fields
<1>4. run[2].NDX = committed.NDX /\ run[2].IP = Plus(committed.IP, 1)
  BY Begun
<1>5. /\ run[5].NDX = (committed.NDX + 1) % Byte
      /\ run[5].FR = Flags(committed.NDX + 1, FALSE)
  <2>1. committed.NDX \in Uint8
    BY Begun
  <2> QED BY <1>3, <1>4, <2>1, IncrementByte, Zenon
<1>6. run[5].NDX = Instructions!Kept("NDX", committed.NDX + 1)
  BY <1>5, SharedWords DEF Instructions!Kept
<1>7. Instructions!Compute("NDX", committed.NDX + 1, FALSE)
  BY <1>3, <1>4, <1>5, <1>6, ByCompute, Zenon DEF Hidden
<1> QED BY <1>7, Begun, SharedWords, Zenon DEF Instructions!Arithmetic, Instructions!Next

\* DECA does what the instruction set says.
LEMMA Does_DECA ==
  ASSUME NEW run, Executed(run, "DECA", << {"Ao", "Yi"}, {"Xi"}, {"_SUB", "ALUo", "Ai"} >>, 5)
  PROVE  Instructions!Next
<1>1. /\ run[3] = Micro(run[2], {"Ao", "Yi"})
      /\ run[4] = Micro(run[3], {"Xi"})
      /\ run[5] = Micro(run[4], {"_SUB", "ALUo", "Ai"})
  <2>1. Runs(run, << {"Ao", "Yi"}, {"Xi"}, {"_SUB", "ALUo", "Ai"} >>)
    BY DEF Executed
  <2> QED BY <2>1, RunsThree
<1>2. /\ Keeps(run[2], run[3], {"Y"}) /\ run[3].Y = run[2].A
      /\ Keeps(run[3], run[4], {"X"}) /\ run[4].X = 0
      /\ Keeps(run[4], run[5], {"A", "FR"}) /\ run[5].A = Plus(Plus(Word - 1 - run[4].X, 0), run[4].Y) /\ run[5].FR = FlagsOfSum(Plus(Word - 1 - run[4].X, 0), run[4].Y)
  BY <1>1, Ao_Yi, Xi, Decrease, Zenon
<1>3. /\ Keeps(run[2], run[5], {"X", "Y", "A", "FR", "IP"})
      /\ run[5].IP = run[2].IP
      /\ run[5].A = Plus(Plus(Word - 1 - 0, 0), run[2].A)
      /\ run[5].FR = FlagsOfSum(Plus(Word - 1 - 0, 0), run[2].A)
  BY <1>2 DEF Keeps, Fields
<1>4. run[2].A = committed.A /\ run[2].IP = Plus(committed.IP, 1)
  BY Begun
<1>5. /\ run[5].A = Plus(committed.A, -1)
      /\ run[5].FR = Flags(Plus(committed.A, -1), committed.A # 0)
  <2>1. committed.A \in Uint16
    BY Begun
  <2> QED BY <1>3, <1>4, <2>1, DecrementSum
<1>6. run[5].A = Instructions!Kept("A", Plus(committed.A, -1))
  BY <1>5, SharedWords DEF Instructions!Kept
<1>7. Instructions!Compute("A", Plus(committed.A, -1), committed.A # 0)
  BY <1>3, <1>4, <1>5, <1>6, ByCompute DEF Hidden
<1> QED BY <1>7, Begun, SharedWords, Zenon DEF Instructions!Arithmetic, Instructions!Next

\* SUM does what the instruction set says.
LEMMA Does_SUM ==
  ASSUME NEW run, Executed(run, "SUM", << {"Ao", "Xi"}, {"Bo", "Yi"}, {"ALUo", "Ai"} >>, 5)
  PROVE  Instructions!Next
<1>1. /\ run[3] = Micro(run[2], {"Ao", "Xi"})
      /\ run[4] = Micro(run[3], {"Bo", "Yi"})
      /\ run[5] = Micro(run[4], {"ALUo", "Ai"})
  <2>1. Runs(run, << {"Ao", "Xi"}, {"Bo", "Yi"}, {"ALUo", "Ai"} >>)
    BY DEF Executed
  <2> QED BY <2>1, RunsThree
<1>2. /\ Keeps(run[2], run[3], {"X"}) /\ run[3].X = run[2].A
      /\ Keeps(run[3], run[4], {"Y"}) /\ run[4].Y = run[3].B
      /\ Keeps(run[4], run[5], {"A", "FR"}) /\ run[5].A = Plus(Plus(run[4].X, 0), run[4].Y) /\ run[5].FR = FlagsOfSum(Plus(run[4].X, 0), run[4].Y)
  BY <1>1, Ao_Xi, Bo_Yi, Sum_Ai, Zenon
<1>3. /\ Keeps(run[2], run[5], {"X", "Y", "A", "FR", "IP"})
      /\ run[5].IP = run[2].IP
      /\ run[5].A = Plus(Plus(run[2].A, 0), run[2].B)
      /\ run[5].FR = FlagsOfSum(Plus(run[2].A, 0), run[2].B)
  BY <1>2 DEF Keeps, Fields
<1>4. run[2].A = committed.A /\ run[2].B = committed.B /\ run[2].IP = Plus(committed.IP, 1)
  BY Begun
<1>5. /\ run[5].A = Plus(committed.A, committed.B)
      /\ run[5].FR = Flags(Plus(committed.A, committed.B), committed.A + committed.B >= Word)
  <2>1. committed.A \in Uint16 /\ committed.B \in Uint16
    BY Begun
  <2> QED BY <1>3, <1>4, <2>1, Sums DEF FlagsOfSum
<1>6. run[5].A = Instructions!Kept("A", Plus(committed.A, committed.B))
  BY <1>5, SharedWords DEF Instructions!Kept
<1>7. Instructions!Compute("A", Plus(committed.A, committed.B), committed.A + committed.B >= Word)
  BY <1>3, <1>4, <1>5, <1>6, ByCompute DEF Hidden
<1> QED BY <1>7, Begun, SharedWords, Zenon DEF Instructions!Arithmetic, Instructions!Next

\* SUB does what the instruction set says.
LEMMA Does_SUB ==
  ASSUME NEW run, Executed(run, "SUB", << {"Ao", "Xi"}, {"Bo", "Yi"}, {"_SUB", "Ci", "ALUo", "Ai"} >>, 5)
  PROVE  Instructions!Next
<1>1. /\ run[3] = Micro(run[2], {"Ao", "Xi"})
      /\ run[4] = Micro(run[3], {"Bo", "Yi"})
      /\ run[5] = Micro(run[4], {"_SUB", "Ci", "ALUo", "Ai"})
  <2>1. Runs(run, << {"Ao", "Xi"}, {"Bo", "Yi"}, {"_SUB", "Ci", "ALUo", "Ai"} >>)
    BY DEF Executed
  <2> QED BY <2>1, RunsThree
<1>2. /\ Keeps(run[2], run[3], {"X"}) /\ run[3].X = run[2].A
      /\ Keeps(run[3], run[4], {"Y"}) /\ run[4].Y = run[3].B
      /\ Keeps(run[4], run[5], {"A", "FR"}) /\ run[5].A = Plus(Plus(Word - 1 - run[4].X, 1), run[4].Y) /\ run[5].FR = FlagsOfSum(Plus(Word - 1 - run[4].X, 1), run[4].Y)
  BY <1>1, Ao_Xi, Bo_Yi, Difference, Zenon
<1>3. /\ Keeps(run[2], run[5], {"X", "Y", "A", "FR", "IP"})
      /\ run[5].IP = run[2].IP
      /\ run[5].A = Plus(Plus(Word - 1 - run[2].A, 1), run[2].B)
      /\ run[5].FR = FlagsOfSum(Plus(Word - 1 - run[2].A, 1), run[2].B)
  BY <1>2 DEF Keeps, Fields
<1>4. run[2].A = committed.A /\ run[2].B = committed.B /\ run[2].IP = Plus(committed.IP, 1)
  BY Begun
<1>5. /\ run[5].A = Plus(committed.B, -committed.A)
      /\ run[5].FR = Flags(Plus(committed.B, -committed.A), committed.B >= committed.A /\ committed.A # 0)
  <2>1. committed.A \in Uint16 /\ committed.B \in Uint16
    BY Begun
  <2> QED BY <1>3, <1>4, <2>1, SubtractionSum
<1>6. run[5].A = Instructions!Kept("A", Plus(committed.B, -committed.A))
  BY <1>5, SharedWords DEF Instructions!Kept
<1>7. Instructions!Compute("A", Plus(committed.B, -committed.A), committed.B >= committed.A /\ committed.A # 0)
  BY <1>3, <1>4, <1>5, <1>6, ByCompute DEF Hidden
<1> QED BY <1>7, Begun, SharedWords, Zenon DEF Instructions!Arithmetic, Instructions!Next

\* SHL does what the instruction set says.
LEMMA Does_SHL ==
  ASSUME NEW run, Executed(run, "SHL", << {"Ao", "Xi"}, {"Ao", "Yi"}, {"ALUo", "Ai"} >>, 5)
  PROVE  Instructions!Next
<1>1. /\ run[3] = Micro(run[2], {"Ao", "Xi"})
      /\ run[4] = Micro(run[3], {"Ao", "Yi"})
      /\ run[5] = Micro(run[4], {"ALUo", "Ai"})
  <2>1. Runs(run, << {"Ao", "Xi"}, {"Ao", "Yi"}, {"ALUo", "Ai"} >>)
    BY DEF Executed
  <2> QED BY <2>1, RunsThree
<1>2. /\ Keeps(run[2], run[3], {"X"}) /\ run[3].X = run[2].A
      /\ Keeps(run[3], run[4], {"Y"}) /\ run[4].Y = run[3].A
      /\ Keeps(run[4], run[5], {"A", "FR"}) /\ run[5].A = Plus(Plus(run[4].X, 0), run[4].Y) /\ run[5].FR = FlagsOfSum(Plus(run[4].X, 0), run[4].Y)
  BY <1>1, Ao_Xi, Ao_Yi, Sum_Ai, Zenon
<1>3. /\ Keeps(run[2], run[5], {"X", "Y", "A", "FR", "IP"})
      /\ run[5].IP = run[2].IP
      /\ run[5].A = Plus(Plus(run[2].A, 0), run[2].A)
      /\ run[5].FR = FlagsOfSum(Plus(run[2].A, 0), run[2].A)
  BY <1>2 DEF Keeps, Fields
<1>4. run[2].A = committed.A /\ run[2].IP = Plus(committed.IP, 1)
  BY Begun
<1>5. /\ run[5].A = Plus(committed.A, committed.A)
      /\ run[5].FR = Flags(Plus(committed.A, committed.A), committed.A >= Word \div 2)
  <2>1. committed.A \in Uint16
    BY Begun
  <2> QED BY <1>3, <1>4, <2>1, OtherSums, Zenon
<1>6. run[5].A = Instructions!Kept("A", Plus(committed.A, committed.A))
  BY <1>5, SharedWords DEF Instructions!Kept
<1>7. Instructions!Compute("A", Plus(committed.A, committed.A), committed.A >= Word \div 2)
  BY <1>3, <1>4, <1>5, <1>6, ByCompute DEF Hidden
<1> QED BY <1>7, Begun, SharedWords, Zenon DEF Instructions!Arithmetic, Instructions!Next

\* SHR does what the instruction set says.
LEMMA Does_SHR ==
  ASSUME NEW run, Executed(run, "SHR", << {"Ao", "Xi"}, {"ALUo", "_SHR", "Ai"} >>, 4)
  PROVE  Instructions!Next
<1>1. /\ run[3] = Micro(run[2], {"Ao", "Xi"})
      /\ run[4] = Micro(run[3], {"ALUo", "_SHR", "Ai"})
  <2>1. Runs(run, << {"Ao", "Xi"}, {"ALUo", "_SHR", "Ai"} >>)
    BY DEF Executed
  <2> QED BY <2>1, RunsTwo
<1>2. /\ Keeps(run[2], run[3], {"X"}) /\ run[3].X = run[2].A
      /\ Keeps(run[3], run[4], {"A", "FR"}) /\ run[4].A = run[3].X \div 2 /\ run[4].FR = Flags(run[3].X \div 2, run[3].X % 2 = 1)
  BY <1>1, Ao_Xi, Half, Zenon
<1>3. /\ Keeps(run[2], run[4], {"X", "A", "FR", "IP"})
      /\ run[4].IP = run[2].IP
      /\ run[4].A = run[2].A \div 2
      /\ run[4].FR = Flags(run[2].A \div 2, run[2].A % 2 = 1)
  BY <1>2 DEF Keeps, Fields
<1>4. run[2].A = committed.A /\ run[2].IP = Plus(committed.IP, 1)
  BY Begun
<1>5. /\ run[4].A = committed.A \div 2
      /\ run[4].FR = Flags(committed.A \div 2, committed.A % 2 = 1)
  BY <1>3, <1>4
<1>6. run[4].A = Instructions!Kept("A", committed.A \div 2)
  BY <1>5, SharedWords DEF Instructions!Kept
<1>7. Instructions!Compute("A", committed.A \div 2, committed.A % 2 = 1)
  BY <1>3, <1>4, <1>5, <1>6, ByCompute DEF Hidden
<1> QED BY <1>7, Begun, SharedWords, Zenon DEF Instructions!Arithmetic, Instructions!Next

\* AND does what the instruction set says.
LEMMA Does_AND ==
  ASSUME NEW run, Executed(run, "AND", << {"Ao", "Xi"}, {"Bo", "Yi"}, {"_AND", "ALUo", "Ai"} >>, 5)
  PROVE  Instructions!Next
<1>1. /\ run[3] = Micro(run[2], {"Ao", "Xi"})
      /\ run[4] = Micro(run[3], {"Bo", "Yi"})
      /\ run[5] = Micro(run[4], {"_AND", "ALUo", "Ai"})
  <2>1. Runs(run, << {"Ao", "Xi"}, {"Bo", "Yi"}, {"_AND", "ALUo", "Ai"} >>)
    BY DEF Executed
  <2> QED BY <2>1, RunsThree
<1>2. /\ Keeps(run[2], run[3], {"X"}) /\ run[3].X = run[2].A
      /\ Keeps(run[3], run[4], {"Y"}) /\ run[4].Y = run[3].B
      /\ Keeps(run[4], run[5], {"A", "FR"}) /\ run[5].A = BitAnd(run[4].X, run[4].Y) /\ run[5].FR = Flags(BitAnd(run[4].X, run[4].Y), FALSE)
  BY <1>1, Ao_Xi, Bo_Yi, Conjunction, Zenon
<1>3. /\ Keeps(run[2], run[5], {"X", "Y", "A", "FR", "IP"})
      /\ run[5].IP = run[2].IP
      /\ run[5].A = BitAnd(run[2].A, run[2].B)
      /\ run[5].FR = Flags(BitAnd(run[2].A, run[2].B), FALSE)
  BY <1>2, Zenon DEF Keeps, Fields
<1>4. run[2].A = committed.A /\ run[2].B = committed.B /\ run[2].IP = Plus(committed.IP, 1)
  BY Begun
<1>5. /\ run[5].A = BitAnd(committed.A, committed.B)
      /\ run[5].FR = Flags(BitAnd(committed.A, committed.B), FALSE)
  BY <1>3, <1>4
<1>6. run[5].A = Instructions!Kept("A", BitAnd(committed.A, committed.B))
  BY <1>5, SharedWords DEF Instructions!Kept
<1>7. Instructions!Compute("A", BitAnd(committed.A, committed.B), FALSE)
  BY <1>3, <1>4, <1>5, <1>6, ByCompute, Zenon DEF Hidden
<1> QED BY <1>7, Begun, SharedWords, Zenon DEF Instructions!Arithmetic, Instructions!Next

\* CMPA does what the instruction set says.
LEMMA Does_CMPA ==
  ASSUME NEW run, Executed(run, "CMPA", << {"Ao", "Xi"}, {"Yi"}, {"ALUo"} >>, 5)
  PROVE  Instructions!Next
<1>1. /\ run[3] = Micro(run[2], {"Ao", "Xi"})
      /\ run[4] = Micro(run[3], {"Yi"})
      /\ run[5] = Micro(run[4], {"ALUo"})
  <2>1. Runs(run, << {"Ao", "Xi"}, {"Yi"}, {"ALUo"} >>)
    BY DEF Executed
  <2> QED BY <2>1, RunsThree
<1>2. /\ Keeps(run[2], run[3], {"X"}) /\ run[3].X = run[2].A
      /\ Keeps(run[3], run[4], {"Y"}) /\ run[4].Y = 0
      /\ Keeps(run[4], run[5], {"FR"}) /\ run[5].FR = FlagsOfSum(Plus(run[4].X, 0), run[4].Y)
  BY <1>1, Ao_Xi, Yi, Sum, Zenon
<1>3. /\ Keeps(run[2], run[5], {"X", "Y", "FR", "A", "IP"})
      /\ run[5].IP = run[2].IP
      /\ run[5].A = run[2].A
      /\ run[5].FR = FlagsOfSum(Plus(run[2].A, 0), 0)
  BY <1>2 DEF Keeps, Fields
<1>4. run[2].A = committed.A /\ run[2].IP = Plus(committed.IP, 1)
  BY Begun
<1>5. /\ run[5].A = committed.A
      /\ run[5].FR = Flags(committed.A, FALSE)
  <2>1. committed.A \in Uint16
    BY Begun
  <2> QED BY <1>3, <1>4, <2>1, OtherSums, Zenon
<1>6. run[5].A = Instructions!Kept("A", committed.A)
  BY <1>5, SharedWords DEF Instructions!Kept
<1>7. Instructions!Compute("A", committed.A, FALSE)
  BY <1>3, <1>4, <1>5, <1>6, ByCompute, Zenon DEF Hidden
<1> QED BY <1>7, Begun, SharedWords, Zenon DEF Instructions!Arithmetic, Instructions!Next

\* CMPB does what the instruction set says.
LEMMA Does_CMPB ==
  ASSUME NEW run, Executed(run, "CMPB", << {"Bo", "Xi"}, {"Yi"}, {"ALUo"} >>, 5)
  PROVE  Instructions!Next
<1>1. /\ run[3] = Micro(run[2], {"Bo", "Xi"})
      /\ run[4] = Micro(run[3], {"Yi"})
      /\ run[5] = Micro(run[4], {"ALUo"})
  <2>1. Runs(run, << {"Bo", "Xi"}, {"Yi"}, {"ALUo"} >>)
    BY DEF Executed
  <2> QED BY <2>1, RunsThree
<1>2. /\ Keeps(run[2], run[3], {"X"}) /\ run[3].X = run[2].B
      /\ Keeps(run[3], run[4], {"Y"}) /\ run[4].Y = 0
      /\ Keeps(run[4], run[5], {"FR"}) /\ run[5].FR = FlagsOfSum(Plus(run[4].X, 0), run[4].Y)
  BY <1>1, Bo_Xi, Yi, Sum, Zenon
<1>3. /\ Keeps(run[2], run[5], {"X", "Y", "FR", "B", "IP"})
      /\ run[5].IP = run[2].IP
      /\ run[5].B = run[2].B
      /\ run[5].FR = FlagsOfSum(Plus(run[2].B, 0), 0)
  BY <1>2 DEF Keeps, Fields
<1>4. run[2].B = committed.B /\ run[2].IP = Plus(committed.IP, 1)
  BY Begun
<1>5. /\ run[5].B = committed.B
      /\ run[5].FR = Flags(committed.B, FALSE)
  <2>1. committed.B \in Uint16
    BY Begun
  <2> QED BY <1>3, <1>4, <2>1, OtherSums, Zenon
<1>6. run[5].B = Instructions!Kept("B", committed.B)
  BY <1>5, SharedWords DEF Instructions!Kept
<1>7. Instructions!Compute("B", committed.B, FALSE)
  BY <1>3, <1>4, <1>5, <1>6, ByCompute, Zenon DEF Hidden
<1> QED BY <1>7, Begun, SharedWords, Zenon DEF Instructions!Arithmetic, Instructions!Next

\* INCSP does what the instruction set says.
LEMMA Does_INCSP ==
  ASSUME NEW run, Executed(run, "INCSP", << {"SPu"} >>, 3)
  PROVE  Instructions!Next
<1>1. /\ run[3] = Micro(run[2], {"SPu"})
  <2>1. Runs(run, << {"SPu"} >>)
    BY DEF Executed
  <2> QED BY <2>1, RunsOne
<1>2. /\ Keeps(run[2], run[3], {"SP"}) /\ run[3].SP = Plus(run[2].SP, 2)
  BY <1>1, SPu
<1>3. /\ Keeps(run[2], run[3], {"SP", "IP"})
      /\ run[3].IP = run[2].IP
      /\ run[3].SP = Plus(run[2].SP, 2)
  BY <1>2 DEF Keeps, Fields
<1>4. run[2].SP = committed.SP /\ run[2].IP = Plus(committed.IP, 1)
  BY Begun
<1>5. run[3].SP = Instructions!Kept("SP", Plus(committed.SP, 2))
  BY <1>3, <1>4, SharedWords DEF Instructions!Kept
<1>6. run[3].IP = Plus(committed.IP, 1)
  BY <1>3, <1>4
<1>7. Instructions!Set("SP", Plus(committed.SP, 2), 1)
  BY <1>3, <1>5, <1>6, BySet DEF Hidden
<1> QED BY <1>7, Begun, SharedWords, Zenon DEF Instructions!Stack, Instructions!Next, Instructions!Above

\* DECSP does what the instruction set says.
LEMMA Does_DECSP ==
  ASSUME NEW run, Executed(run, "DECSP", << {"SPu", "SPm"} >>, 3)
  PROVE  Instructions!Next
<1>1. /\ run[3] = Micro(run[2], {"SPu", "SPm"})
  <2>1. Runs(run, << {"SPu", "SPm"} >>)
    BY DEF Executed
  <2> QED BY <2>1, RunsOne
<1>2. /\ Keeps(run[2], run[3], {"SP"}) /\ run[3].SP = Plus(run[2].SP, -2)
  BY <1>1, SPu_SPm
<1>3. /\ Keeps(run[2], run[3], {"SP", "IP"})
      /\ run[3].IP = run[2].IP
      /\ run[3].SP = Plus(run[2].SP, -2)
  BY <1>2 DEF Keeps, Fields
<1>4. run[2].SP = committed.SP /\ run[2].IP = Plus(committed.IP, 1)
  BY Begun
<1>5. run[3].SP = Instructions!Kept("SP", Plus(committed.SP, -2))
  BY <1>3, <1>4, SharedWords DEF Instructions!Kept
<1>6. run[3].IP = Plus(committed.IP, 1)
  BY <1>3, <1>4
<1>7. Instructions!Set("SP", Plus(committed.SP, -2), 1)
  BY <1>3, <1>5, <1>6, BySet DEF Hidden
<1> QED BY <1>7, Begun, SharedWords, Zenon DEF Instructions!Stack, Instructions!Next, Instructions!Above

\* PUSHA does what the instruction set says.
LEMMA Does_PUSHA ==
  ASSUME NEW run, Executed(run, "PUSHA", << {"SPo", "MARi"}, {"Ao", "RAM", "RAM16", "SPu", "SPm"} >>, 4)
  PROVE  Instructions!Next
<1>1. /\ run[3] = Micro(run[2], {"SPo", "MARi"})
      /\ run[4] = Micro(run[3], {"Ao", "RAM", "RAM16", "SPu", "SPm"})
  <2>1. Runs(run, << {"SPo", "MARi"}, {"Ao", "RAM", "RAM16", "SPu", "SPm"} >>)
    BY DEF Executed
  <2> QED BY <2>1, RunsTwo
<1>2. /\ Keeps(run[2], run[3], {"MAR"}) /\ run[3].MAR = run[2].SP
      /\ Keeps(run[3], run[4], {"RAM", "SP"}) /\ run[4].RAM = PutWord(run[3].RAM, run[3].MAR, run[3].A) /\ run[4].SP = Plus(run[3].SP, -2)
  BY <1>1, SPo_MARi, Push_Ao, Zenon
<1>3. /\ Keeps(run[2], run[4], {"MAR", "RAM", "SP", "IP"})
      /\ run[4].IP = run[2].IP
      /\ run[4].RAM = PutWord(run[2].RAM, run[2].SP, run[2].A)
      /\ run[4].SP = Plus(run[2].SP, -2)
  BY <1>2 DEF Keeps, Fields
<1>4. run[2].RAM = committed.RAM /\ run[2].SP = committed.SP /\ run[2].A = committed.A /\ run[2].IP = Plus(committed.IP, 1)
  BY Begun
<1>5. /\ run[4].RAM = PutWord(committed.RAM, committed.SP, committed.A)
      /\ run[4].SP = Plus(committed.SP, -2)
      /\ run[4].IP = Plus(committed.IP, 1)
  BY <1>3, <1>4
<1>6. committed' = [committed EXCEPT !.RAM = PutWord(committed.RAM, committed.SP, committed.A),
                                      !.SP = Plus(committed.SP, -2),
                                      !.IP = Plus(committed.IP, 1)]
  <2>1. committed \in Visibles /\ committed' \in Visibles /\ Same(committed, committed', {"MAR", "RAM", "SP", "IP"})
    BY <1>3, Begun, EndsSame
  <2>2. /\ committed'.RAM = PutWord(committed.RAM, committed.SP, committed.A)
        /\ committed'.SP = Plus(committed.SP, -2)
        /\ committed'.IP = Plus(committed.IP, 1)
    BY <1>5, Ended
  <2> QED BY <2>1, <2>2, Zenon DEF Same, VisibleFields, Visibles
<1> QED BY <1>6, Begun, SharedWords, Zenon DEF Instructions!Stack, Instructions!Next, Instructions!Pushes, Instructions!Above, Instructions!After

\* PUSHB does what the instruction set says.
LEMMA Does_PUSHB ==
  ASSUME NEW run, Executed(run, "PUSHB", << {"SPo", "MARi"}, {"Bo", "RAM", "RAM16", "SPu", "SPm"} >>, 4)
  PROVE  Instructions!Next
<1>1. /\ run[3] = Micro(run[2], {"SPo", "MARi"})
      /\ run[4] = Micro(run[3], {"Bo", "RAM", "RAM16", "SPu", "SPm"})
  <2>1. Runs(run, << {"SPo", "MARi"}, {"Bo", "RAM", "RAM16", "SPu", "SPm"} >>)
    BY DEF Executed
  <2> QED BY <2>1, RunsTwo
<1>2. /\ Keeps(run[2], run[3], {"MAR"}) /\ run[3].MAR = run[2].SP
      /\ Keeps(run[3], run[4], {"RAM", "SP"}) /\ run[4].RAM = PutWord(run[3].RAM, run[3].MAR, run[3].B) /\ run[4].SP = Plus(run[3].SP, -2)
  BY <1>1, SPo_MARi, Push_Bo, Zenon
<1>3. /\ Keeps(run[2], run[4], {"MAR", "RAM", "SP", "IP"})
      /\ run[4].IP = run[2].IP
      /\ run[4].RAM = PutWord(run[2].RAM, run[2].SP, run[2].B)
      /\ run[4].SP = Plus(run[2].SP, -2)
  BY <1>2 DEF Keeps, Fields
<1>4. run[2].RAM = committed.RAM /\ run[2].SP = committed.SP /\ run[2].B = committed.B /\ run[2].IP = Plus(committed.IP, 1)
  BY Begun
<1>5. /\ run[4].RAM = PutWord(committed.RAM, committed.SP, committed.B)
      /\ run[4].SP = Plus(committed.SP, -2)
      /\ run[4].IP = Plus(committed.IP, 1)
  BY <1>3, <1>4
<1>6. committed' = [committed EXCEPT !.RAM = PutWord(committed.RAM, committed.SP, committed.B),
                                      !.SP = Plus(committed.SP, -2),
                                      !.IP = Plus(committed.IP, 1)]
  <2>1. committed \in Visibles /\ committed' \in Visibles /\ Same(committed, committed', {"MAR", "RAM", "SP", "IP"})
    BY <1>3, Begun, EndsSame
  <2>2. /\ committed'.RAM = PutWord(committed.RAM, committed.SP, committed.B)
        /\ committed'.SP = Plus(committed.SP, -2)
        /\ committed'.IP = Plus(committed.IP, 1)
    BY <1>5, Ended
  <2> QED BY <2>1, <2>2, Zenon DEF Same, VisibleFields, Visibles
<1> QED BY <1>6, Begun, SharedWords, Zenon DEF Instructions!Stack, Instructions!Next, Instructions!Pushes, Instructions!Above, Instructions!After

\* POPA does what the instruction set says.
LEMMA Does_POPA ==
  ASSUME NEW run, Executed(run, "POPA", << {"SPu"}, {"SPo", "MARi"}, {"RAM", "RAMo", "RAM16", "Ai"} >>, 5)
  PROVE  Instructions!Next
<1>1. /\ run[3] = Micro(run[2], {"SPu"})
      /\ run[4] = Micro(run[3], {"SPo", "MARi"})
      /\ run[5] = Micro(run[4], {"RAM", "RAMo", "RAM16", "Ai"})
  <2>1. Runs(run, << {"SPu"}, {"SPo", "MARi"}, {"RAM", "RAMo", "RAM16", "Ai"} >>)
    BY DEF Executed
  <2> QED BY <2>1, RunsThree
<1>2. /\ Keeps(run[2], run[3], {"SP"}) /\ run[3].SP = Plus(run[2].SP, 2)
      /\ Keeps(run[3], run[4], {"MAR"}) /\ run[4].MAR = run[3].SP
      /\ Keeps(run[4], run[5], {"A"}) /\ run[5].A = WordAt(run[4].RAM, run[4].MAR)
  BY <1>1, SPu, SPo_MARi, Word_Ai, Zenon
<1>3. /\ Keeps(run[2], run[5], {"MAR", "SP", "A", "IP"})
      /\ run[5].IP = run[2].IP
      /\ run[5].A = WordAt(run[2].RAM, Plus(run[2].SP, 2))
      /\ run[5].SP = Plus(run[2].SP, 2)
  BY <1>2 DEF Keeps, Fields
<1>4. run[2].RAM = committed.RAM /\ run[2].SP = committed.SP /\ run[2].IP = Plus(committed.IP, 1)
  BY Begun
<1>5. /\ run[5].A = WordAt(committed.RAM, Plus(committed.SP, 2))
      /\ run[5].SP = Plus(committed.SP, 2)
      /\ run[5].IP = Plus(committed.IP, 1)
  BY <1>3, <1>4
<1>6. committed' = [committed EXCEPT !.A = WordAt(committed.RAM, Plus(committed.SP, 2)),
                                      !.SP = Plus(committed.SP, 2),
                                      !.IP = Plus(committed.IP, 1)]
  <2>1. committed \in Visibles /\ committed' \in Visibles /\ Same(committed, committed', {"MAR", "SP", "A", "IP"})
    BY <1>3, Begun, EndsSame
  <2>2. /\ committed'.A = WordAt(committed.RAM, Plus(committed.SP, 2))
        /\ committed'.SP = Plus(committed.SP, 2)
        /\ committed'.IP = Plus(committed.IP, 1)
    BY <1>5, Ended
  <2> QED BY <2>1, <2>2, Zenon DEF Same, VisibleFields, Visibles
<1> QED BY <1>6, Begun, SharedWords, Zenon DEF Instructions!Stack, Instructions!Next, Instructions!Pops, Instructions!Above, Instructions!After

\* POPB does what the instruction set says.
LEMMA Does_POPB ==
  ASSUME NEW run, Executed(run, "POPB", << {"SPu"}, {"SPo", "MARi"}, {"RAM", "RAMo", "RAM16", "Bi"} >>, 5)
  PROVE  Instructions!Next
<1>1. /\ run[3] = Micro(run[2], {"SPu"})
      /\ run[4] = Micro(run[3], {"SPo", "MARi"})
      /\ run[5] = Micro(run[4], {"RAM", "RAMo", "RAM16", "Bi"})
  <2>1. Runs(run, << {"SPu"}, {"SPo", "MARi"}, {"RAM", "RAMo", "RAM16", "Bi"} >>)
    BY DEF Executed
  <2> QED BY <2>1, RunsThree
<1>2. /\ Keeps(run[2], run[3], {"SP"}) /\ run[3].SP = Plus(run[2].SP, 2)
      /\ Keeps(run[3], run[4], {"MAR"}) /\ run[4].MAR = run[3].SP
      /\ Keeps(run[4], run[5], {"B"}) /\ run[5].B = WordAt(run[4].RAM, run[4].MAR)
  BY <1>1, SPu, SPo_MARi, Word_Bi, Zenon
<1>3. /\ Keeps(run[2], run[5], {"MAR", "SP", "B", "IP"})
      /\ run[5].IP = run[2].IP
      /\ run[5].B = WordAt(run[2].RAM, Plus(run[2].SP, 2))
      /\ run[5].SP = Plus(run[2].SP, 2)
  BY <1>2 DEF Keeps, Fields
<1>4. run[2].RAM = committed.RAM /\ run[2].SP = committed.SP /\ run[2].IP = Plus(committed.IP, 1)
  BY Begun
<1>5. /\ run[5].B = WordAt(committed.RAM, Plus(committed.SP, 2))
      /\ run[5].SP = Plus(committed.SP, 2)
      /\ run[5].IP = Plus(committed.IP, 1)
  BY <1>3, <1>4
<1>6. committed' = [committed EXCEPT !.B = WordAt(committed.RAM, Plus(committed.SP, 2)),
                                      !.SP = Plus(committed.SP, 2),
                                      !.IP = Plus(committed.IP, 1)]
  <2>1. committed \in Visibles /\ committed' \in Visibles /\ Same(committed, committed', {"MAR", "SP", "B", "IP"})
    BY <1>3, Begun, EndsSame
  <2>2. /\ committed'.B = WordAt(committed.RAM, Plus(committed.SP, 2))
        /\ committed'.SP = Plus(committed.SP, 2)
        /\ committed'.IP = Plus(committed.IP, 1)
    BY <1>5, Ended
  <2> QED BY <2>1, <2>2, Zenon DEF Same, VisibleFields, Visibles
<1> QED BY <1>6, Begun, SharedWords, Zenon DEF Instructions!Stack, Instructions!Next, Instructions!Pops, Instructions!Above, Instructions!After

\* PEEKA does what the instruction set says.
LEMMA Does_PEEKA ==
  ASSUME NEW run, Executed(run, "PEEKA", << {"SPu"}, {"SPo", "MARi"}, {"RAM", "RAMo", "RAM16", "Ai", "SPu", "SPm"} >>, 5)
  PROVE  Instructions!Next
<1>1. /\ run[3] = Micro(run[2], {"SPu"})
      /\ run[4] = Micro(run[3], {"SPo", "MARi"})
      /\ run[5] = Micro(run[4], {"RAM", "RAMo", "RAM16", "Ai", "SPu", "SPm"})
  <2>1. Runs(run, << {"SPu"}, {"SPo", "MARi"}, {"RAM", "RAMo", "RAM16", "Ai", "SPu", "SPm"} >>)
    BY DEF Executed
  <2> QED BY <2>1, RunsThree
<1>2. /\ Keeps(run[2], run[3], {"SP"}) /\ run[3].SP = Plus(run[2].SP, 2)
      /\ Keeps(run[3], run[4], {"MAR"}) /\ run[4].MAR = run[3].SP
      /\ Keeps(run[4], run[5], {"A", "SP"}) /\ run[5].A = WordAt(run[4].RAM, run[4].MAR) /\ run[5].SP = Plus(run[4].SP, -2)
  BY <1>1, SPu, SPo_MARi, Peek_Ai, Zenon
<1>3. /\ Keeps(run[2], run[5], {"MAR", "SP", "A", "IP"})
      /\ run[5].IP = run[2].IP
      /\ run[5].A = WordAt(run[2].RAM, Plus(run[2].SP, 2))
      /\ run[5].SP = Plus(Plus(run[2].SP, 2), -2)
  BY <1>2 DEF Keeps, Fields
<1>4. run[2].RAM = committed.RAM /\ run[2].SP = committed.SP /\ run[2].IP = Plus(committed.IP, 1)
  BY Begun
<1>5. /\ run[5].A = WordAt(committed.RAM, Plus(committed.SP, 2))
      /\ run[5].IP = Plus(committed.IP, 1)
      /\ run[5].SP = committed.SP
  <2>1. committed.SP \in Uint16
    BY Begun
  <2> QED BY <1>3, <1>4, <2>1, Sums
<1>6. committed' = [committed EXCEPT !.A = WordAt(committed.RAM, Plus(committed.SP, 2)),
                                      !.IP = Plus(committed.IP, 1)]
  <2>1. committed \in Visibles /\ committed' \in Visibles /\ Same(committed, committed', {"MAR", "SP", "A", "IP"})
    BY <1>3, Begun, EndsSame
  <2>2. /\ committed'.A = WordAt(committed.RAM, Plus(committed.SP, 2))
        /\ committed'.IP = Plus(committed.IP, 1)
        /\ committed'.SP = committed.SP
    BY <1>5, Ended
  <2> QED BY <2>1, <2>2, Zenon DEF Same, VisibleFields, Visibles
<1> QED BY <1>6, Begun, SharedWords, Zenon DEF Instructions!Stack, Instructions!Next, Instructions!Peeks, Instructions!Above, Instructions!After, Instructions!Set, Instructions!Kept

\* PEEKB does what the instruction set says.
LEMMA Does_PEEKB ==
  ASSUME NEW run, Executed(run, "PEEKB", << {"SPu"}, {"SPo", "MARi"}, {"RAM", "RAMo", "RAM16", "Bi", "SPu", "SPm"} >>, 5)
  PROVE  Instructions!Next
<1>1. /\ run[3] = Micro(run[2], {"SPu"})
      /\ run[4] = Micro(run[3], {"SPo", "MARi"})
      /\ run[5] = Micro(run[4], {"RAM", "RAMo", "RAM16", "Bi", "SPu", "SPm"})
  <2>1. Runs(run, << {"SPu"}, {"SPo", "MARi"}, {"RAM", "RAMo", "RAM16", "Bi", "SPu", "SPm"} >>)
    BY DEF Executed
  <2> QED BY <2>1, RunsThree
<1>2. /\ Keeps(run[2], run[3], {"SP"}) /\ run[3].SP = Plus(run[2].SP, 2)
      /\ Keeps(run[3], run[4], {"MAR"}) /\ run[4].MAR = run[3].SP
      /\ Keeps(run[4], run[5], {"B", "SP"}) /\ run[5].B = WordAt(run[4].RAM, run[4].MAR) /\ run[5].SP = Plus(run[4].SP, -2)
  BY <1>1, SPu, SPo_MARi, Peek_Bi, Zenon
<1>3. /\ Keeps(run[2], run[5], {"MAR", "SP", "B", "IP"})
      /\ run[5].IP = run[2].IP
      /\ run[5].B = WordAt(run[2].RAM, Plus(run[2].SP, 2))
      /\ run[5].SP = Plus(Plus(run[2].SP, 2), -2)
  BY <1>2 DEF Keeps, Fields
<1>4. run[2].RAM = committed.RAM /\ run[2].SP = committed.SP /\ run[2].IP = Plus(committed.IP, 1)
  BY Begun
<1>5. /\ run[5].B = WordAt(committed.RAM, Plus(committed.SP, 2))
      /\ run[5].IP = Plus(committed.IP, 1)
      /\ run[5].SP = committed.SP
  <2>1. committed.SP \in Uint16
    BY Begun
  <2> QED BY <1>3, <1>4, <2>1, Sums
<1>6. committed' = [committed EXCEPT !.B = WordAt(committed.RAM, Plus(committed.SP, 2)),
                                      !.IP = Plus(committed.IP, 1)]
  <2>1. committed \in Visibles /\ committed' \in Visibles /\ Same(committed, committed', {"MAR", "SP", "B", "IP"})
    BY <1>3, Begun, EndsSame
  <2>2. /\ committed'.B = WordAt(committed.RAM, Plus(committed.SP, 2))
        /\ committed'.IP = Plus(committed.IP, 1)
        /\ committed'.SP = committed.SP
    BY <1>5, Ended
  <2> QED BY <2>1, <2>2, Zenon DEF Same, VisibleFields, Visibles
<1> QED BY <1>6, Begun, SharedWords, Zenon DEF Instructions!Stack, Instructions!Next, Instructions!Peeks, Instructions!Above, Instructions!After, Instructions!Set, Instructions!Kept

\* PEEKAR does what the instruction set says.
LEMMA Does_PEEKAR ==
  ASSUME NEW run, Executed(run, "PEEKAR", << {"IPo", "MARi"}, {"RAM", "RAMo", "Yi", "IPp"}, {"SPo", "Xi"}, {"ALUo", "MARi"}, {"RAM", "RAMo", "RAM16", "Ai"} >>, 7)
  PROVE  Instructions!Next
<1>1. /\ run[3] = Micro(run[2], {"IPo", "MARi"})
      /\ run[4] = Micro(run[3], {"RAM", "RAMo", "Yi", "IPp"})
      /\ run[5] = Micro(run[4], {"SPo", "Xi"})
      /\ run[6] = Micro(run[5], {"ALUo", "MARi"})
      /\ run[7] = Micro(run[6], {"RAM", "RAMo", "RAM16", "Ai"})
  <2>1. Runs(run, << {"IPo", "MARi"}, {"RAM", "RAMo", "Yi", "IPp"}, {"SPo", "Xi"}, {"ALUo", "MARi"}, {"RAM", "RAMo", "RAM16", "Ai"} >>)
    BY DEF Executed
  <2> QED BY <2>1, RunsFive
<1>2. /\ Keeps(run[2], run[3], {"MAR"}) /\ run[3].MAR = run[2].IP
      /\ Keeps(run[3], run[4], {"Y", "IP"}) /\ run[4].Y = At(run[3].RAM, run[3].MAR) /\ run[4].IP = Plus(run[3].IP, 1)
      /\ Keeps(run[4], run[5], {"X"}) /\ run[5].X = run[4].SP
      /\ Keeps(run[5], run[6], {"MAR", "FR"}) /\ run[6].MAR = Plus(Plus(run[5].X, 0), run[5].Y) /\ run[6].FR = FlagsOfSum(Plus(run[5].X, 0), run[5].Y)
      /\ Keeps(run[6], run[7], {"A"}) /\ run[7].A = WordAt(run[6].RAM, run[6].MAR)
  BY <1>1, IPo_MARi, Short_Yi, SPo_Xi, Sum_MARi, Word_Ai, Zenon
<1>3. /\ Keeps(run[2], run[7], {"MAR", "X", "Y", "A", "FR", "IP"})
      /\ run[7].A = WordAt(run[2].RAM, Plus(Plus(run[2].SP, 0), At(run[2].RAM, run[2].IP)))
      /\ run[7].FR = FlagsOfSum(Plus(run[2].SP, 0), At(run[2].RAM, run[2].IP))
      /\ run[7].IP = Plus(run[2].IP, 1)
  BY <1>2 DEF Keeps, Fields
<1>4. run[2].RAM = committed.RAM /\ run[2].SP = committed.SP /\ run[2].IP = Plus(committed.IP, 1)
  BY Begun
<1>5. /\ run[7].A = WordAt(committed.RAM, Plus(committed.SP, At(committed.RAM, Plus(committed.IP, 1))))
      /\ run[7].FR = FlagsOfSum(committed.SP, At(committed.RAM, Plus(committed.IP, 1)))
      /\ run[7].IP = Plus(committed.IP, 2)
  <2>1. committed.SP \in Uint16 /\ committed.IP \in Uint16
    BY Begun
  <2> QED BY <1>3, <1>4, <2>1, Sums
<1>6. committed' = [committed EXCEPT !.A = WordAt(committed.RAM, Plus(committed.SP, At(committed.RAM, Plus(committed.IP, 1)))),
                                      !.FR = FlagsOfSum(committed.SP, At(committed.RAM, Plus(committed.IP, 1))),
                                      !.IP = Plus(committed.IP, 2)]
  <2>1. committed \in Visibles /\ committed' \in Visibles /\ Same(committed, committed', {"MAR", "X", "Y", "A", "FR", "IP"})
    BY <1>3, Begun, EndsSame
  <2>2. /\ committed'.A = WordAt(committed.RAM, Plus(committed.SP, At(committed.RAM, Plus(committed.IP, 1))))
        /\ committed'.FR = FlagsOfSum(committed.SP, At(committed.RAM, Plus(committed.IP, 1)))
        /\ committed'.IP = Plus(committed.IP, 2)
    BY <1>5, Ended
  <2> QED BY <2>1, <2>2, Zenon DEF Same, VisibleFields, Visibles
<1> QED BY <1>6, Begun, SharedWords, Zenon DEF Instructions!Stack, Instructions!Next, Instructions!Above, Instructions!Short, Instructions!After

\* PUSHAR does what the instruction set says.
LEMMA Does_PUSHAR ==
  ASSUME NEW run, Executed(run, "PUSHAR", << {"IPo", "MARi"}, {"RAM", "RAMo", "Yi", "IPp"}, {"SPo", "Xi"}, {"ALUo", "MARi"}, {"Ao", "RAM", "RAM16"} >>, 7)
  PROVE  Instructions!Next
<1>1. /\ run[3] = Micro(run[2], {"IPo", "MARi"})
      /\ run[4] = Micro(run[3], {"RAM", "RAMo", "Yi", "IPp"})
      /\ run[5] = Micro(run[4], {"SPo", "Xi"})
      /\ run[6] = Micro(run[5], {"ALUo", "MARi"})
      /\ run[7] = Micro(run[6], {"Ao", "RAM", "RAM16"})
  <2>1. Runs(run, << {"IPo", "MARi"}, {"RAM", "RAMo", "Yi", "IPp"}, {"SPo", "Xi"}, {"ALUo", "MARi"}, {"Ao", "RAM", "RAM16"} >>)
    BY DEF Executed
  <2> QED BY <2>1, RunsFive
<1>2. /\ Keeps(run[2], run[3], {"MAR"}) /\ run[3].MAR = run[2].IP
      /\ Keeps(run[3], run[4], {"Y", "IP"}) /\ run[4].Y = At(run[3].RAM, run[3].MAR) /\ run[4].IP = Plus(run[3].IP, 1)
      /\ Keeps(run[4], run[5], {"X"}) /\ run[5].X = run[4].SP
      /\ Keeps(run[5], run[6], {"MAR", "FR"}) /\ run[6].MAR = Plus(Plus(run[5].X, 0), run[5].Y) /\ run[6].FR = FlagsOfSum(Plus(run[5].X, 0), run[5].Y)
      /\ Keeps(run[6], run[7], {"RAM"}) /\ run[7].RAM = PutWord(run[6].RAM, run[6].MAR, run[6].A)
  BY <1>1, IPo_MARi, Short_Yi, SPo_Xi, Sum_MARi, Ao_Word, Zenon
<1>3. /\ Keeps(run[2], run[7], {"MAR", "X", "Y", "RAM", "FR", "IP"})
      /\ run[7].RAM = PutWord(run[2].RAM, Plus(Plus(run[2].SP, 0), At(run[2].RAM, run[2].IP)), run[2].A)
      /\ run[7].FR = FlagsOfSum(Plus(run[2].SP, 0), At(run[2].RAM, run[2].IP))
      /\ run[7].IP = Plus(run[2].IP, 1)
  BY <1>2 DEF Keeps, Fields
<1>4. run[2].RAM = committed.RAM /\ run[2].SP = committed.SP /\ run[2].IP = Plus(committed.IP, 1) /\ run[2].A = committed.A
  BY Begun
<1>5. /\ run[7].RAM = PutWord(committed.RAM, Plus(committed.SP, At(committed.RAM, Plus(committed.IP, 1))), committed.A)
      /\ run[7].FR = FlagsOfSum(committed.SP, At(committed.RAM, Plus(committed.IP, 1)))
      /\ run[7].IP = Plus(committed.IP, 2)
  <2>1. committed.SP \in Uint16 /\ committed.IP \in Uint16
    BY Begun
  <2> QED BY <1>3, <1>4, <2>1, Sums
<1>6. committed' = [committed EXCEPT !.RAM = PutWord(committed.RAM, Plus(committed.SP, At(committed.RAM, Plus(committed.IP, 1))), committed.A),
                                      !.FR = FlagsOfSum(committed.SP, At(committed.RAM, Plus(committed.IP, 1))),
                                      !.IP = Plus(committed.IP, 2)]
  <2>1. committed \in Visibles /\ committed' \in Visibles /\ Same(committed, committed', {"MAR", "X", "Y", "RAM", "FR", "IP"})
    BY <1>3, Begun, EndsSame
  <2>2. /\ committed'.RAM = PutWord(committed.RAM, Plus(committed.SP, At(committed.RAM, Plus(committed.IP, 1))), committed.A)
        /\ committed'.FR = FlagsOfSum(committed.SP, At(committed.RAM, Plus(committed.IP, 1)))
        /\ committed'.IP = Plus(committed.IP, 2)
    BY <1>5, Ended
  <2> QED BY <2>1, <2>2, Zenon DEF Same, VisibleFields, Visibles
<1> QED BY <1>6, Begun, SharedWords, Zenon DEF Instructions!Stack, Instructions!Next, Instructions!Above, Instructions!Short, Instructions!After

\* AL_rB does what the instruction set says.
LEMMA Does_AL_rB ==
  ASSUME NEW run, Executed(run, "AL_rB", << {"Bo", "MARi"}, {"Ao", "RAM"} >>, 4)
  PROVE  Instructions!Next
<1>1. /\ run[3] = Micro(run[2], {"Bo", "MARi"})
      /\ run[4] = Micro(run[3], {"Ao", "RAM"})
  <2>1. Runs(run, << {"Bo", "MARi"}, {"Ao", "RAM"} >>)
    BY DEF Executed
  <2> QED BY <2>1, RunsTwo
<1>2. /\ Keeps(run[2], run[3], {"MAR"}) /\ run[3].MAR = run[2].B
      /\ Keeps(run[3], run[4], {"RAM"}) /\ run[4].RAM = Put(run[3].RAM, run[3].MAR, run[3].A % Byte)
  BY <1>1, Bo_MARi, Ao_Byte, Zenon
<1>3. /\ Keeps(run[2], run[4], {"MAR", "RAM", "IP"})
      /\ run[4].IP = run[2].IP
      /\ run[4].RAM = Put(run[2].RAM, run[2].B, run[2].A % Byte)
  BY <1>2 DEF Keeps, Fields
<1>4. run[2].RAM = committed.RAM /\ run[2].B = committed.B /\ run[2].A = committed.A /\ run[2].IP = Plus(committed.IP, 1)
  BY Begun
<1>5. /\ run[4].RAM = Put(committed.RAM, committed.B, committed.A % Byte)
      /\ run[4].IP = Plus(committed.IP, 1)
  BY <1>3, <1>4
<1>6. committed' = [committed EXCEPT !.RAM = Put(committed.RAM, committed.B, committed.A % Byte),
                                      !.IP = Plus(committed.IP, 1)]
  <2>1. committed \in Visibles /\ committed' \in Visibles /\ Same(committed, committed', {"MAR", "RAM", "IP"})
    BY <1>3, Begun, EndsSame
  <2>2. /\ committed'.RAM = Put(committed.RAM, committed.B, committed.A % Byte)
        /\ committed'.IP = Plus(committed.IP, 1)
    BY <1>5, Ended
  <2> QED BY <2>1, <2>2, Zenon DEF Same, VisibleFields, Visibles
<1> QED BY <1>6, Begun, SharedWords, Zenon DEF Instructions!Memory, Instructions!Next, Instructions!After

\* A_rB does what the instruction set says.
LEMMA Does_A_rB ==
  ASSUME NEW run, Executed(run, "A_rB", << {"Bo", "MARi"}, {"Ao", "RAM", "RAM16"} >>, 4)
  PROVE  Instructions!Next
<1>1. /\ run[3] = Micro(run[2], {"Bo", "MARi"})
      /\ run[4] = Micro(run[3], {"Ao", "RAM", "RAM16"})
  <2>1. Runs(run, << {"Bo", "MARi"}, {"Ao", "RAM", "RAM16"} >>)
    BY DEF Executed
  <2> QED BY <2>1, RunsTwo
<1>2. /\ Keeps(run[2], run[3], {"MAR"}) /\ run[3].MAR = run[2].B
      /\ Keeps(run[3], run[4], {"RAM"}) /\ run[4].RAM = PutWord(run[3].RAM, run[3].MAR, run[3].A)
  BY <1>1, Bo_MARi, Ao_Word, Zenon
<1>3. /\ Keeps(run[2], run[4], {"MAR", "RAM", "IP"})
      /\ run[4].IP = run[2].IP
      /\ run[4].RAM = PutWord(run[2].RAM, run[2].B, run[2].A)
  BY <1>2 DEF Keeps, Fields
<1>4. run[2].RAM = committed.RAM /\ run[2].B = committed.B /\ run[2].A = committed.A /\ run[2].IP = Plus(committed.IP, 1)
  BY Begun
<1>5. /\ run[4].RAM = PutWord(committed.RAM, committed.B, committed.A)
      /\ run[4].IP = Plus(committed.IP, 1)
  BY <1>3, <1>4
<1>6. committed' = [committed EXCEPT !.RAM = PutWord(committed.RAM, committed.B, committed.A),
                                      !.IP = Plus(committed.IP, 1)]
  <2>1. committed \in Visibles /\ committed' \in Visibles /\ Same(committed, committed', {"MAR", "RAM", "IP"})
    BY <1>3, Begun, EndsSame
  <2>2. /\ committed'.RAM = PutWord(committed.RAM, committed.B, committed.A)
        /\ committed'.IP = Plus(committed.IP, 1)
    BY <1>5, Ended
  <2> QED BY <2>1, <2>2, Zenon DEF Same, VisibleFields, Visibles
<1> QED BY <1>6, Begun, SharedWords, Zenon DEF Instructions!Memory, Instructions!Next, Instructions!After

\* rB_AL does what the instruction set says.
LEMMA Does_rB_AL ==
  ASSUME NEW run, Executed(run, "rB_AL", << {"Bo", "MARi"}, {"RAM", "RAMo", "Ai"} >>, 4)
  PROVE  Instructions!Next
<1>1. /\ run[3] = Micro(run[2], {"Bo", "MARi"})
      /\ run[4] = Micro(run[3], {"RAM", "RAMo", "Ai"})
  <2>1. Runs(run, << {"Bo", "MARi"}, {"RAM", "RAMo", "Ai"} >>)
    BY DEF Executed
  <2> QED BY <2>1, RunsTwo
<1>2. /\ Keeps(run[2], run[3], {"MAR"}) /\ run[3].MAR = run[2].B
      /\ Keeps(run[3], run[4], {"A"}) /\ run[4].A = At(run[3].RAM, run[3].MAR)
  BY <1>1, Bo_MARi, Byte_Ai, Zenon
<1>3. /\ Keeps(run[2], run[4], {"MAR", "A", "IP"})
      /\ run[4].IP = run[2].IP
      /\ run[4].A = At(run[2].RAM, run[2].B)
  BY <1>2 DEF Keeps, Fields
<1>4. run[2].RAM = committed.RAM /\ run[2].B = committed.B /\ run[2].IP = Plus(committed.IP, 1)
  BY Begun
<1>5. run[4].A = Instructions!Kept("A", At(committed.RAM, committed.B))
  BY <1>3, <1>4, SharedWords DEF Instructions!Kept
<1>6. run[4].IP = Plus(committed.IP, 1)
  BY <1>3, <1>4
<1>7. Instructions!Set("A", At(committed.RAM, committed.B), 1)
  BY <1>3, <1>5, <1>6, BySet DEF Hidden
<1> QED BY <1>7, Begun, SharedWords DEF Instructions!Memory, Instructions!Next

\* rB_A does what the instruction set says.
LEMMA Does_rB_A ==
  ASSUME NEW run, Executed(run, "rB_A", << {"Bo", "MARi"}, {"RAM", "RAMo", "RAM16", "Ai"} >>, 4)
  PROVE  Instructions!Next
<1>1. /\ run[3] = Micro(run[2], {"Bo", "MARi"})
      /\ run[4] = Micro(run[3], {"RAM", "RAMo", "RAM16", "Ai"})
  <2>1. Runs(run, << {"Bo", "MARi"}, {"RAM", "RAMo", "RAM16", "Ai"} >>)
    BY DEF Executed
  <2> QED BY <2>1, RunsTwo
<1>2. /\ Keeps(run[2], run[3], {"MAR"}) /\ run[3].MAR = run[2].B
      /\ Keeps(run[3], run[4], {"A"}) /\ run[4].A = WordAt(run[3].RAM, run[3].MAR)
  BY <1>1, Bo_MARi, Word_Ai, Zenon
<1>3. /\ Keeps(run[2], run[4], {"MAR", "A", "IP"})
      /\ run[4].IP = run[2].IP
      /\ run[4].A = WordAt(run[2].RAM, run[2].B)
  BY <1>2 DEF Keeps, Fields
<1>4. run[2].RAM = committed.RAM /\ run[2].B = committed.B /\ run[2].IP = Plus(committed.IP, 1)
  BY Begun
<1>5. run[4].A = Instructions!Kept("A", WordAt(committed.RAM, committed.B))
  BY <1>3, <1>4, SharedWords DEF Instructions!Kept
<1>6. run[4].IP = Plus(committed.IP, 1)
  BY <1>3, <1>4
<1>7. Instructions!Set("A", WordAt(committed.RAM, committed.B), 1)
  BY <1>3, <1>5, <1>6, BySet DEF Hidden
<1> QED BY <1>7, Begun, SharedWords DEF Instructions!Memory, Instructions!Next

\* B_AH does what the instruction set says.
LEMMA Does_B_AH ==
  ASSUME NEW run, Executed(run, "B_AH", << {"Bo", "AHi"} >>, 3)
  PROVE  Instructions!Next
<1>1. /\ run[3] = Micro(run[2], {"Bo", "AHi"})
  <2>1. Runs(run, << {"Bo", "AHi"} >>)
    BY DEF Executed
  <2> QED BY <2>1, RunsOne
<1>2. /\ Keeps(run[2], run[3], {"A"}) /\ run[3].A = HighByte(run[2].B, run[2].A)
  BY <1>1, Bo_AHi
<1>3. /\ Keeps(run[2], run[3], {"A", "IP"})
      /\ run[3].IP = run[2].IP
      /\ run[3].A = HighByte(run[2].B, run[2].A)
  BY <1>2 DEF Keeps, Fields
<1>4. run[2].B = committed.B /\ run[2].A = committed.A /\ run[2].IP = Plus(committed.IP, 1)
  BY Begun
<1>5. run[3].A = Instructions!Kept("A", HighByte(committed.B, committed.A))
  BY <1>3, <1>4, SharedWords DEF Instructions!Kept
<1>6. run[3].IP = Plus(committed.IP, 1)
  BY <1>3, <1>4
<1>7. Instructions!Set("A", HighByte(committed.B, committed.A), 1)
  BY <1>3, <1>5, <1>6, BySet DEF Hidden
<1> QED BY <1>7, Begun, SharedWords DEF Instructions!Memory, Instructions!Next, Instructions!High, HighByte

\* MEM_A does what the instruction set says.
LEMMA Does_MEM_A ==
  ASSUME NEW run, Executed(run, "MEM_A", << {"MEMo", "Ai"} >>, 3)
  PROVE  Instructions!Next
<1>1. /\ run[3] = Micro(run[2], {"MEMo", "Ai"})
  <2>1. Runs(run, << {"MEMo", "Ai"} >>)
    BY DEF Executed
  <2> QED BY <2>1, RunsOne
<1>2. /\ Keeps(run[2], run[3], {"A"}) /\ run[3].A = At(run[2].MEM, Sector(run[2].SEC, run[2].NDX))
  BY <1>1, MEMo_Ai
<1>3. /\ Keeps(run[2], run[3], {"A", "IP"})
      /\ run[3].IP = run[2].IP
      /\ run[3].A = At(run[2].MEM, Sector(run[2].SEC, run[2].NDX))
  BY <1>2 DEF Keeps, Fields
<1>4. run[2].MEM = committed.MEM /\ run[2].SEC = committed.SEC /\ run[2].NDX = committed.NDX /\ run[2].IP = Plus(committed.IP, 1)
  BY Begun
<1>5. run[3].A = Instructions!Kept("A", At(committed.MEM, Sector(committed.SEC, committed.NDX)))
  BY <1>3, <1>4, SharedWords DEF Instructions!Kept
<1>6. run[3].IP = Plus(committed.IP, 1)
  BY <1>3, <1>4
<1>7. Instructions!Set("A", At(committed.MEM, Sector(committed.SEC, committed.NDX)), 1)
  BY <1>3, <1>5, <1>6, BySet DEF Hidden
<1> QED BY <1>7, Begun, SharedWords DEF Instructions!Memory, Instructions!Next

\* MEM_AH does what the instruction set says.
LEMMA Does_MEM_AH ==
  ASSUME NEW run, Executed(run, "MEM_AH", << {"MEMo", "AHi"} >>, 3)
  PROVE  Instructions!Next
<1>1. /\ run[3] = Micro(run[2], {"MEMo", "AHi"})
  <2>1. Runs(run, << {"MEMo", "AHi"} >>)
    BY DEF Executed
  <2> QED BY <2>1, RunsOne
<1>2. /\ Keeps(run[2], run[3], {"A"}) /\ run[3].A = HighByte(At(run[2].MEM, Sector(run[2].SEC, run[2].NDX)), run[2].A)
  BY <1>1, MEMo_AHi
<1>3. /\ Keeps(run[2], run[3], {"A", "IP"})
      /\ run[3].IP = run[2].IP
      /\ run[3].A = HighByte(At(run[2].MEM, Sector(run[2].SEC, run[2].NDX)), run[2].A)
  BY <1>2 DEF Keeps, Fields
<1>4. run[2].MEM = committed.MEM /\ run[2].SEC = committed.SEC /\ run[2].NDX = committed.NDX /\ run[2].A = committed.A /\ run[2].IP = Plus(committed.IP, 1)
  BY Begun
<1>5. run[3].A = Instructions!Kept("A", HighByte(At(committed.MEM, Sector(committed.SEC, committed.NDX)), committed.A))
  BY <1>3, <1>4, SharedWords DEF Instructions!Kept
<1>6. run[3].IP = Plus(committed.IP, 1)
  BY <1>3, <1>4
<1>7. Instructions!Set("A", HighByte(At(committed.MEM, Sector(committed.SEC, committed.NDX)), committed.A), 1)
  BY <1>3, <1>5, <1>6, BySet DEF Hidden
<1> QED BY <1>7, Begun, SharedWords DEF Instructions!Memory, Instructions!Next, Instructions!High, HighByte

\* A_MEM does what the instruction set says.
LEMMA Does_A_MEM ==
  ASSUME NEW run, Executed(run, "A_MEM", << {"Ao", "MEMi"} >>, 3)
  PROVE  Instructions!Next
<1>1. /\ run[3] = Micro(run[2], {"Ao", "MEMi"})
  <2>1. Runs(run, << {"Ao", "MEMi"} >>)
    BY DEF Executed
  <2> QED BY <2>1, RunsOne
<1>2. /\ Keeps(run[2], run[3], {"MEM"}) /\ run[3].MEM = Put(run[2].MEM, Sector(run[2].SEC, run[2].NDX), run[2].A % Byte)
  BY <1>1, Ao_MEMi
<1>3. /\ Keeps(run[2], run[3], {"MEM", "IP"})
      /\ run[3].IP = run[2].IP
      /\ run[3].MEM = Put(run[2].MEM, Sector(run[2].SEC, run[2].NDX), run[2].A % Byte)
  BY <1>2 DEF Keeps, Fields
<1>4. run[2].MEM = committed.MEM /\ run[2].SEC = committed.SEC /\ run[2].NDX = committed.NDX /\ run[2].A = committed.A /\ run[2].IP = Plus(committed.IP, 1)
  BY Begun
<1>5. /\ run[3].MEM = Put(committed.MEM, Sector(committed.SEC, committed.NDX), committed.A % Byte)
      /\ run[3].IP = Plus(committed.IP, 1)
  BY <1>3, <1>4
<1>6. committed' = [committed EXCEPT !.MEM = Put(committed.MEM, Sector(committed.SEC, committed.NDX), committed.A % Byte),
                                      !.IP = Plus(committed.IP, 1)]
  <2>1. committed \in Visibles /\ committed' \in Visibles /\ Same(committed, committed', {"MEM", "IP"})
    BY <1>3, Begun, EndsSame
  <2>2. /\ committed'.MEM = Put(committed.MEM, Sector(committed.SEC, committed.NDX), committed.A % Byte)
        /\ committed'.IP = Plus(committed.IP, 1)
    BY <1>5, Ended
  <2> QED BY <2>1, <2>2, Zenon DEF Same, VisibleFields, Visibles
<1> QED BY <1>6, Begun, SharedWords, Zenon DEF Instructions!Memory, Instructions!Next, Instructions!After

\* JMP does what the instruction set says.
LEMMA Does_JMP ==
  ASSUME NEW run, Executed(run, "JMP", << {"IPo", "MARi"}, {"RAM", "RAMo", "RAM16", "IPi"} >>, 4)
  PROVE  Instructions!Next
<1>1. /\ run[3] = Micro(run[2], {"IPo", "MARi"})
      /\ run[4] = Micro(run[3], {"RAM", "RAMo", "RAM16", "IPi"})
  <2>1. Runs(run, << {"IPo", "MARi"}, {"RAM", "RAMo", "RAM16", "IPi"} >>)
    BY DEF Executed
  <2> QED BY <2>1, RunsTwo
<1>2. /\ Keeps(run[2], run[3], {"MAR"}) /\ run[3].MAR = run[2].IP
      /\ Keeps(run[3], run[4], {"IP"}) /\ run[4].IP = WordAt(run[3].RAM, run[3].MAR)
  BY <1>1, IPo_MARi, Word_IPi, Zenon
<1>3. /\ Keeps(run[2], run[4], {"MAR", "IP"})
      /\ run[4].IP = WordAt(run[2].RAM, run[2].IP)
  BY <1>2 DEF Keeps, Fields
<1>4. run[2].RAM = committed.RAM /\ run[2].IP = Plus(committed.IP, 1)
  BY Begun
<1>5. /\ run[4].IP = WordAt(committed.RAM, Plus(committed.IP, 1))
  BY <1>3, <1>4
<1>6. committed' = [committed EXCEPT !.IP = WordAt(committed.RAM, Plus(committed.IP, 1))]
  <2>1. committed \in Visibles /\ committed' \in Visibles /\ Same(committed, committed', {"MAR", "IP"})
    BY <1>3, Begun, EndsSame
  <2>2. /\ committed'.IP = WordAt(committed.RAM, Plus(committed.IP, 1))
    BY <1>5, Ended
  <2> QED BY <2>1, <2>2 DEF Same, VisibleFields, Visibles
<1> QED BY <1>6, Begun, SharedWords DEF Instructions!Control, Instructions!Next, Instructions!Jump, Instructions!Wide, Instructions!After

\* JMPA does what the instruction set says.
LEMMA Does_JMPA ==
  ASSUME NEW run, Executed(run, "JMPA", << {"Ao", "IPi"} >>, 3)
  PROVE  Instructions!Next
<1>1. /\ run[3] = Micro(run[2], {"Ao", "IPi"})
  <2>1. Runs(run, << {"Ao", "IPi"} >>)
    BY DEF Executed
  <2> QED BY <2>1, RunsOne
<1>2. /\ Keeps(run[2], run[3], {"IP"}) /\ run[3].IP = run[2].A
  BY <1>1, Ao_IPi
<1>3. /\ Keeps(run[2], run[3], {"IP"})
      /\ run[3].IP = run[2].A
  BY <1>2 DEF Keeps, Fields
<1>4. run[2].A = committed.A
  BY Begun
<1>5. /\ run[3].IP = committed.A
  BY <1>3, <1>4
<1>6. committed' = [committed EXCEPT !.IP = committed.A]
  <2>1. committed \in Visibles /\ committed' \in Visibles /\ Same(committed, committed', {"IP"})
    BY <1>3, Begun, EndsSame
  <2>2. /\ committed'.IP = committed.A
    BY <1>5, Ended
  <2> QED BY <2>1, <2>2 DEF Same, VisibleFields, Visibles
<1> QED BY <1>6, Begun, SharedWords DEF Instructions!Control, Instructions!Next, Instructions!Jump

\* JMPR does what the instruction set says.
LEMMA Does_JMPR ==
  ASSUME NEW run, Executed(run, "JMPR", << {"IPo", "MARi", "Yi"}, {"RAM", "RAMo", "RAM16", "Xi"}, {"ALUo", "IPi"} >>, 5)
  PROVE  Instructions!Next
<1>1. /\ run[3] = Micro(run[2], {"IPo", "MARi", "Yi"})
      /\ run[4] = Micro(run[3], {"RAM", "RAMo", "RAM16", "Xi"})
      /\ run[5] = Micro(run[4], {"ALUo", "IPi"})
  <2>1. Runs(run, << {"IPo", "MARi", "Yi"}, {"RAM", "RAMo", "RAM16", "Xi"}, {"ALUo", "IPi"} >>)
    BY DEF Executed
  <2> QED BY <2>1, RunsThree
<1>2. /\ Keeps(run[2], run[3], {"MAR", "Y"}) /\ run[3].MAR = run[2].IP /\ run[3].Y = run[2].IP
      /\ Keeps(run[3], run[4], {"X"}) /\ run[4].X = WordAt(run[3].RAM, run[3].MAR)
      /\ Keeps(run[4], run[5], {"IP", "FR"}) /\ run[5].IP = Plus(Plus(run[4].X, 0), run[4].Y) /\ run[5].FR = FlagsOfSum(Plus(run[4].X, 0), run[4].Y)
  BY <1>1, IPo_MARi_Yi, Word_Xi, Sum_IPi, Zenon
<1>3. /\ Keeps(run[2], run[5], {"MAR", "X", "Y", "IP", "FR"})
      /\ run[5].IP = Plus(Plus(WordAt(run[2].RAM, run[2].IP), 0), run[2].IP)
      /\ run[5].FR = FlagsOfSum(Plus(WordAt(run[2].RAM, run[2].IP), 0), run[2].IP)
  BY <1>2 DEF Keeps, Fields
<1>4. run[2].RAM = committed.RAM /\ run[2].IP = Plus(committed.IP, 1)
  BY Begun
<1>5. /\ run[5].IP = Plus(Plus(committed.IP, 1), WordAt(committed.RAM, Plus(committed.IP, 1)))
      /\ run[5].FR = FlagsOfSum(Plus(committed.IP, 1), WordAt(committed.RAM, Plus(committed.IP, 1)))
  <2>1. Plus(committed.IP, 1) \in Uint16 /\ WordAt(committed.RAM, Plus(committed.IP, 1)) \in Uint16
    BY Begun, NextType, WordAtType
  <2> QED BY <1>3, <1>4, <2>1, RelativeSum
<1>6. committed' = [committed EXCEPT !.IP = Plus(Plus(committed.IP, 1), WordAt(committed.RAM, Plus(committed.IP, 1))),
                                      !.FR = FlagsOfSum(Plus(committed.IP, 1), WordAt(committed.RAM, Plus(committed.IP, 1)))]
  <2>1. committed \in Visibles /\ committed' \in Visibles /\ Same(committed, committed', {"MAR", "X", "Y", "IP", "FR"})
    BY <1>3, Begun, EndsSame
  <2>2. /\ committed'.IP = Plus(Plus(committed.IP, 1), WordAt(committed.RAM, Plus(committed.IP, 1)))
        /\ committed'.FR = FlagsOfSum(Plus(committed.IP, 1), WordAt(committed.RAM, Plus(committed.IP, 1)))
    BY <1>5, Ended
  <2> QED BY <2>1, <2>2, Zenon DEF Same, VisibleFields, Visibles
<1> QED BY <1>6, Begun, SharedWords, Zenon DEF Instructions!Control, Instructions!Next, Instructions!JumpRelative, Instructions!Wide, Instructions!After

\* JMPAR does what the instruction set says.
LEMMA Does_JMPAR ==
  ASSUME NEW run, Executed(run, "JMPAR", << {"IPo", "MARi", "Yi"}, {"Ao", "Xi"}, {"ALUo", "IPi"} >>, 5)
  PROVE  Instructions!Next
<1>1. /\ run[3] = Micro(run[2], {"IPo", "MARi", "Yi"})
      /\ run[4] = Micro(run[3], {"Ao", "Xi"})
      /\ run[5] = Micro(run[4], {"ALUo", "IPi"})
  <2>1. Runs(run, << {"IPo", "MARi", "Yi"}, {"Ao", "Xi"}, {"ALUo", "IPi"} >>)
    BY DEF Executed
  <2> QED BY <2>1, RunsThree
<1>2. /\ Keeps(run[2], run[3], {"MAR", "Y"}) /\ run[3].MAR = run[2].IP /\ run[3].Y = run[2].IP
      /\ Keeps(run[3], run[4], {"X"}) /\ run[4].X = run[3].A
      /\ Keeps(run[4], run[5], {"IP", "FR"}) /\ run[5].IP = Plus(Plus(run[4].X, 0), run[4].Y) /\ run[5].FR = FlagsOfSum(Plus(run[4].X, 0), run[4].Y)
  BY <1>1, IPo_MARi_Yi, Ao_Xi, Sum_IPi, Zenon
<1>3. /\ Keeps(run[2], run[5], {"MAR", "X", "Y", "IP", "FR"})
      /\ run[5].IP = Plus(Plus(run[2].A, 0), run[2].IP)
      /\ run[5].FR = FlagsOfSum(Plus(run[2].A, 0), run[2].IP)
  BY <1>2 DEF Keeps, Fields
<1>4. run[2].A = committed.A /\ run[2].IP = Plus(committed.IP, 1)
  BY Begun
<1>5. /\ run[5].IP = Plus(Plus(committed.IP, 1), committed.A)
      /\ run[5].FR = FlagsOfSum(Plus(committed.IP, 1), committed.A)
  <2>1. Plus(committed.IP, 1) \in Uint16 /\ committed.A \in Uint16
    BY Begun, NextType
  <2> QED BY <1>3, <1>4, <2>1, RelativeSum
<1>6. committed' = [committed EXCEPT !.IP = Plus(Plus(committed.IP, 1), committed.A),
                                      !.FR = FlagsOfSum(Plus(committed.IP, 1), committed.A)]
  <2>1. committed \in Visibles /\ committed' \in Visibles /\ Same(committed, committed', {"MAR", "X", "Y", "IP", "FR"})
    BY <1>3, Begun, EndsSame
  <2>2. /\ committed'.IP = Plus(Plus(committed.IP, 1), committed.A)
        /\ committed'.FR = FlagsOfSum(Plus(committed.IP, 1), committed.A)
    BY <1>5, Ended
  <2> QED BY <2>1, <2>2, Zenon DEF Same, VisibleFields, Visibles
<1> QED BY <1>6, Begun, SharedWords, Zenon DEF Instructions!Control, Instructions!Next, Instructions!JumpRelative, Instructions!After

\* CALL does what the instruction set says.
LEMMA Does_CALL ==
  ASSUME NEW run, Executed(run, "CALL", << {"SPo", "MARi"}, {"IPo", "RAM", "RAM16", "SPu", "SPm"}, {"IPo", "MARi"}, {"RAM", "RAMo", "RAM16", "IPi"} >>, 6)
  PROVE  Instructions!Next
<1>1. /\ run[3] = Micro(run[2], {"SPo", "MARi"})
      /\ run[4] = Micro(run[3], {"IPo", "RAM", "RAM16", "SPu", "SPm"})
      /\ run[5] = Micro(run[4], {"IPo", "MARi"})
      /\ run[6] = Micro(run[5], {"RAM", "RAMo", "RAM16", "IPi"})
  <2>1. Runs(run, << {"SPo", "MARi"}, {"IPo", "RAM", "RAM16", "SPu", "SPm"}, {"IPo", "MARi"}, {"RAM", "RAMo", "RAM16", "IPi"} >>)
    BY DEF Executed
  <2> QED BY <2>1, RunsFour
<1>2. /\ Keeps(run[2], run[3], {"MAR"}) /\ run[3].MAR = run[2].SP
      /\ Keeps(run[3], run[4], {"RAM", "SP"}) /\ run[4].RAM = PutWord(run[3].RAM, run[3].MAR, run[3].IP) /\ run[4].SP = Plus(run[3].SP, -2)
      /\ Keeps(run[4], run[5], {"MAR"}) /\ run[5].MAR = run[4].IP
      /\ Keeps(run[5], run[6], {"IP"}) /\ run[6].IP = WordAt(run[5].RAM, run[5].MAR)
  BY <1>1, SPo_MARi, Push_IPo, IPo_MARi, Word_IPi, Zenon
<1>3. /\ Keeps(run[2], run[6], {"MAR", "RAM", "SP", "IP"})
      /\ run[6].RAM = PutWord(run[2].RAM, run[2].SP, run[2].IP)
      /\ run[6].SP = Plus(run[2].SP, -2)
      /\ run[6].IP = WordAt(PutWord(run[2].RAM, run[2].SP, run[2].IP), run[2].IP)
  BY <1>2 DEF Keeps, Fields
<1>4. run[2].RAM = committed.RAM /\ run[2].SP = committed.SP /\ run[2].IP = Plus(committed.IP, 1)
  BY Begun
<1>5. committed \in Visibles /\ committed' \in Visibles /\ Same(committed, committed', {"MAR", "RAM", "SP", "IP"})
  BY <1>3, Begun, EndsSame
<1>6. /\ committed'.RAM = Instructions!Called.RAM
      /\ committed'.SP = Instructions!Called.SP
      /\ committed'.IP = Instructions!Callee
  BY <1>3, <1>4, <1>5, Ended, CalledFields
<1>7. committed' = [Instructions!Called EXCEPT !.IP = Instructions!Callee]
  BY <1>5, <1>6, CalledFields, Zenon DEF Same, VisibleFields, Visibles
<1> QED BY <1>7, Begun, SharedWords DEF Instructions!Control, Instructions!Next

\* CALLR does what the instruction set says.
LEMMA Does_CALLR ==
  ASSUME NEW run, Executed(run, "CALLR", << {"SPo", "MARi"}, {"IPo", "RAM", "RAM16", "SPu", "SPm"}, {"IPo", "MARi", "Yi"}, {"RAM", "RAMo", "RAM16", "Xi"}, {"ALUo", "IPi"} >>, 7)
  PROVE  Instructions!Next
<1>1. /\ run[3] = Micro(run[2], {"SPo", "MARi"})
      /\ run[4] = Micro(run[3], {"IPo", "RAM", "RAM16", "SPu", "SPm"})
      /\ run[5] = Micro(run[4], {"IPo", "MARi", "Yi"})
      /\ run[6] = Micro(run[5], {"RAM", "RAMo", "RAM16", "Xi"})
      /\ run[7] = Micro(run[6], {"ALUo", "IPi"})
  <2>1. Runs(run, << {"SPo", "MARi"}, {"IPo", "RAM", "RAM16", "SPu", "SPm"}, {"IPo", "MARi", "Yi"}, {"RAM", "RAMo", "RAM16", "Xi"}, {"ALUo", "IPi"} >>)
    BY DEF Executed
  <2> QED BY <2>1, RunsFive
<1>2. /\ Keeps(run[2], run[3], {"MAR"}) /\ run[3].MAR = run[2].SP
      /\ Keeps(run[3], run[4], {"RAM", "SP"}) /\ run[4].RAM = PutWord(run[3].RAM, run[3].MAR, run[3].IP) /\ run[4].SP = Plus(run[3].SP, -2)
      /\ Keeps(run[4], run[5], {"MAR", "Y"}) /\ run[5].MAR = run[4].IP /\ run[5].Y = run[4].IP
      /\ Keeps(run[5], run[6], {"X"}) /\ run[6].X = WordAt(run[5].RAM, run[5].MAR)
      /\ Keeps(run[6], run[7], {"IP", "FR"}) /\ run[7].IP = Plus(Plus(run[6].X, 0), run[6].Y) /\ run[7].FR = FlagsOfSum(Plus(run[6].X, 0), run[6].Y)
  BY <1>1, SPo_MARi, Push_IPo, IPo_MARi_Yi, Word_Xi, Sum_IPi, Zenon
<1>3. /\ Keeps(run[2], run[7], {"MAR", "X", "Y", "RAM", "SP", "IP", "FR"})
      /\ run[7].RAM = PutWord(run[2].RAM, run[2].SP, run[2].IP)
      /\ run[7].SP = Plus(run[2].SP, -2)
      /\ run[7].IP = Plus(Plus(WordAt(PutWord(run[2].RAM, run[2].SP, run[2].IP), run[2].IP), 0), run[2].IP)
      /\ run[7].FR = FlagsOfSum(Plus(WordAt(PutWord(run[2].RAM, run[2].SP, run[2].IP), run[2].IP), 0), run[2].IP)
  BY <1>2 DEF Keeps, Fields
<1>4. run[2].RAM = committed.RAM /\ run[2].SP = committed.SP /\ run[2].IP = Plus(committed.IP, 1)
  BY Begun
<1>5. committed \in Visibles /\ committed' \in Visibles /\ Same(committed, committed', {"MAR", "X", "Y", "RAM", "SP", "IP", "FR"})
  BY <1>3, Begun, EndsSame
<1>6. /\ committed'.RAM = Instructions!Called.RAM
      /\ committed'.SP = Instructions!Called.SP
      /\ committed'.IP = Plus(Plus(committed.IP, 1), Instructions!Callee)
      /\ committed'.FR = FlagsOfSum(Plus(committed.IP, 1), Instructions!Callee)
  <2>1. Plus(committed.IP, 1) \in Uint16
    BY Begun, NextType
  <2> QED BY <1>3, <1>4, <1>5, <2>1, Ended, CalledFields, RelativeSum
<1>7. committed' = [Instructions!Called EXCEPT !.IP = Plus(Plus(committed.IP, 1), Instructions!Callee), !.FR = FlagsOfSum(Plus(committed.IP, 1), Instructions!Callee)]
  BY <1>5, <1>6, CalledFields, Zenon DEF Same, VisibleFields, Visibles
<1> QED BY <1>7, Begun, SharedWords, Zenon DEF Instructions!Control, Instructions!Next, Instructions!Target, Instructions!After

\* RET does what the instruction set says.
LEMMA Does_RET ==
  ASSUME NEW run, Executed(run, "RET", << {"SPu"}, {"SPo", "MARi"}, {"RAM", "RAMo", "RAM16", "IPi"}, {"IPp"}, {"IPp"} >>, 7)
  PROVE  Instructions!Next
<1>1. /\ run[3] = Micro(run[2], {"SPu"})
      /\ run[4] = Micro(run[3], {"SPo", "MARi"})
      /\ run[5] = Micro(run[4], {"RAM", "RAMo", "RAM16", "IPi"})
      /\ run[6] = Micro(run[5], {"IPp"})
      /\ run[7] = Micro(run[6], {"IPp"})
  <2>1. Runs(run, << {"SPu"}, {"SPo", "MARi"}, {"RAM", "RAMo", "RAM16", "IPi"}, {"IPp"}, {"IPp"} >>)
    BY DEF Executed
  <2> QED BY <2>1, RunsFive
<1>2. /\ Keeps(run[2], run[3], {"SP"}) /\ run[3].SP = Plus(run[2].SP, 2)
      /\ Keeps(run[3], run[4], {"MAR"}) /\ run[4].MAR = run[3].SP
      /\ Keeps(run[4], run[5], {"IP"}) /\ run[5].IP = WordAt(run[4].RAM, run[4].MAR)
      /\ Keeps(run[5], run[6], {"IP"}) /\ run[6].IP = Plus(run[5].IP, 1)
      /\ Keeps(run[6], run[7], {"IP"}) /\ run[7].IP = Plus(run[6].IP, 1)
  BY <1>1, SPu, SPo_MARi, Word_IPi, IPp, Zenon
<1>3. /\ Keeps(run[2], run[7], {"MAR", "SP", "IP"})
      /\ run[7].SP = Plus(run[2].SP, 2)
      /\ run[7].IP = Plus(Plus(WordAt(run[2].RAM, Plus(run[2].SP, 2)), 1), 1)
  BY <1>2 DEF Keeps, Fields
<1>4. run[2].SP = committed.SP /\ run[2].RAM = committed.RAM
  BY Begun
<1>5. /\ run[7].SP = Plus(committed.SP, 2)
      /\ run[7].IP = Plus(WordAt(committed.RAM, Plus(committed.SP, 2)), 2)
  <2>1. WordAt(committed.RAM, Plus(committed.SP, 2)) \in Uint16
    BY Begun, WordAtType
  <2> QED BY <1>3, <1>4, <2>1, Sums
<1>6. committed' = [committed EXCEPT !.SP = Plus(committed.SP, 2),
                                      !.IP = Plus(WordAt(committed.RAM, Plus(committed.SP, 2)), 2)]
  <2>1. committed \in Visibles /\ committed' \in Visibles /\ Same(committed, committed', {"MAR", "SP", "IP"})
    BY <1>3, Begun, EndsSame
  <2>2. /\ committed'.SP = Plus(committed.SP, 2)
        /\ committed'.IP = Plus(WordAt(committed.RAM, Plus(committed.SP, 2)), 2)
    BY <1>5, Ended
  <2> QED BY <2>1, <2>2, Zenon DEF Same, VisibleFields, Visibles
<1> QED BY <1>6, Begun, SharedWords, Zenon DEF Instructions!Control, Instructions!Next, Instructions!Above

\* NOP does what the instruction set says.
LEMMA Does_NOP ==
  ASSUME NEW run, Executed(run, "NOP", << >>, 2)
  PROVE  Instructions!Next
<1>3. /\ Keeps(run[2], run[2], {"IP"})
      /\ run[2].IP = run[2].IP
  BY DEF Keeps, Fields
<1>4. run[2].IP = Plus(committed.IP, 1)
  BY Begun
<1>5. /\ run[2].IP = Plus(committed.IP, 1)
  BY <1>3, <1>4
<1>6. committed' = [committed EXCEPT !.IP = Plus(committed.IP, 1)]
  <2>1. committed \in Visibles /\ committed' \in Visibles /\ Same(committed, committed', {"IP"})
    BY <1>3, Begun, EndsSame
  <2>2. /\ committed'.IP = Plus(committed.IP, 1)
    BY <1>5, Ended
  <2> QED BY <2>1, <2>2 DEF Same, VisibleFields, Visibles
<1> QED BY <1>6, Begun, SharedWords DEF Instructions!Control, Instructions!Next, Instructions!Jump, Instructions!After

\* KEY_A does what the instruction set says.
LEMMA Does_KEY_A ==
  ASSUME NEW run, Executed(run, "KEY_A", << {"KEYo", "Ai"} >>, 3)
  PROVE  Instructions!Next
<1>1. /\ run[3] = Micro(run[2], {"KEYo", "Ai"})
  <2>1. Runs(run, << {"KEYo", "Ai"} >>)
    BY DEF Executed
  <2> QED BY <2>1, RunsOne
<1>2. /\ Keeps(run[2], run[3], {"A", "KEYS"}) /\ (run[3].A = IF run[2].KEYS = << >> THEN 0 ELSE Head(run[2].KEYS)) /\ (run[3].KEYS = IF run[2].KEYS = << >> THEN run[2].KEYS ELSE Tail(run[2].KEYS))
  BY <1>1, Key_Ai
<1>3. /\ Keeps(run[2], run[3], {"A", "KEYS", "IP"})
      /\ run[3].IP = run[2].IP
      /\ run[3].A = IF run[2].KEYS = << >> THEN 0 ELSE Head(run[2].KEYS)
      /\ run[3].KEYS = IF run[2].KEYS = << >> THEN run[2].KEYS ELSE Tail(run[2].KEYS)
  BY <1>2 DEF Keeps, Fields
<1>4. run[2].KEYS = committed.KEYS /\ run[2].IP = Plus(committed.IP, 1)
  BY Begun
<1>5. /\ run[3].A = IF committed.KEYS = << >> THEN 0 ELSE Head(committed.KEYS)
      /\ run[3].KEYS = IF committed.KEYS = << >> THEN committed.KEYS ELSE Tail(committed.KEYS)
      /\ run[3].IP = Plus(committed.IP, 1)
  BY <1>3, <1>4
<1>6. committed' = [committed EXCEPT !.A = IF committed.KEYS = << >> THEN 0 ELSE Head(committed.KEYS),
                                      !.KEYS = IF committed.KEYS = << >> THEN committed.KEYS ELSE Tail(committed.KEYS),
                                      !.IP = Plus(committed.IP, 1)]
  <2>1. committed \in Visibles /\ committed' \in Visibles /\ Same(committed, committed', {"A", "KEYS", "IP"})
    BY <1>3, Begun, EndsSame
  <2>2. /\ committed'.A = IF committed.KEYS = << >> THEN 0 ELSE Head(committed.KEYS)
        /\ committed'.KEYS = IF committed.KEYS = << >> THEN committed.KEYS ELSE Tail(committed.KEYS)
        /\ committed'.IP = Plus(committed.IP, 1)
    BY <1>5, Ended
  <2> QED BY <2>1, <2>2, Zenon DEF Same, VisibleFields, Visibles
<1> QED BY <1>6, Begun, SharedWords, Zenon DEF Instructions!Devices, Instructions!Next, Instructions!After

\* The common form of the two instructions that draw.
LEMMA ByDraw ==
  ASSUME NEW run, NEW i, NEW steps, NEW last, Executed(run, i, steps, last), NEW value, NEW length,
         NEW changed, Keeps(run[2], run[last], changed), "IP" \in changed,
         changed \subseteq Hidden \cup {"PATTERNS", "ATTRIBUTES", "IP"},
         run[last].IP = Plus(committed.IP, length),
         run[last].PATTERNS = IF committed.B >= Word \div 2
                              THEN Put(committed.PATTERNS, committed.B % (Word \div 2), value % Byte) ELSE committed.PATTERNS,
         run[last].ATTRIBUTES = IF committed.B < Word \div 2
                                THEN Put(committed.ATTRIBUTES, committed.B, value % Byte) ELSE committed.ATTRIBUTES
  PROVE  Instructions!Draw(value, length)
<1>1. committed \in Visibles /\ committed' \in Visibles
  BY Begun
<1>2. \A f \in VisibleFields \ {"PATTERNS", "ATTRIBUTES", "IP"} : committed'[f] = committed[f]
  <2>1. Same(committed, committed', changed)
    BY EndsSame
  <2> QED BY <2>1 DEF Same, VisibleFields, Hidden
<1>3. /\ committed'.IP = Plus(committed.IP, length)
      /\ committed'.PATTERNS = run[last].PATTERNS /\ committed'.ATTRIBUTES = run[last].ATTRIBUTES
  BY Ended
<1> DEFINE pattern == Put(committed.PATTERNS, committed.B % (Word \div 2), value % Byte)
<1> DEFINE attribute == Put(committed.ATTRIBUTES, committed.B, value % Byte)
<1> DEFINE patterns == committed.B >= Word \div 2
<1>4. (committed.B < Word \div 2) <=> ~patterns
  <2>1. committed.B \in Int
    BY <1>1, Ranges DEF Visibles
  <2> QED BY <2>1 DEF Word
<1>5. /\ committed'.PATTERNS = IF patterns THEN pattern ELSE committed.PATTERNS
      /\ committed'.ATTRIBUTES = IF patterns THEN committed.ATTRIBUTES ELSE attribute
  BY <1>3, <1>4
<1> HIDE DEF pattern, attribute, patterns
<1>6. committed' = IF patterns THEN [committed EXCEPT !.PATTERNS = pattern, !.IP = Plus(committed.IP, length)]
                   ELSE [committed EXCEPT !.ATTRIBUTES = attribute, !.IP = Plus(committed.IP, length)]
  BY <1>1, <1>2, <1>3, <1>5, Zenon DEF Visibles, VisibleFields
<1> QED BY <1>6, SharedWords, Zenon DEF Instructions!Draw, Instructions!After, pattern, attribute, patterns

\* DRW does what the instruction set says.
LEMMA Does_DRW ==
  ASSUME NEW run, Executed(run, "DRW", << {"Bo", "GPUAi"}, {"Ao", "GPUi"} >>, 4)
  PROVE  Instructions!Next
<1>1. /\ run[3] = Micro(run[2], {"Bo", "GPUAi"})
      /\ run[4] = Micro(run[3], {"Ao", "GPUi"})
  <2>1. Runs(run, << {"Bo", "GPUAi"}, {"Ao", "GPUi"} >>)
    BY DEF Executed
  <2> QED BY <2>1, RunsTwo
<1>2. /\ Keeps(run[2], run[3], {"GPUA"}) /\ run[3].GPUA = run[2].B
      /\ Drawn(run[3], run[4], run[3].A) /\ run[4].IP = run[3].IP
  BY <1>1, Bo_GPUAi, Draw_Ao, Zenon
<1>3. /\ Keeps(run[2], run[4], {"GPUA", "PATTERNS", "ATTRIBUTES", "IP"}) /\ Drawn(run[3], run[4], run[2].A)
      /\ run[4].IP = run[2].IP /\ run[3].GPUA = run[2].B
      /\ run[3].PATTERNS = run[2].PATTERNS /\ run[3].ATTRIBUTES = run[2].ATTRIBUTES
  BY <1>2 DEF Keeps, Fields, Drawn
<1>4. /\ run[2].A = committed.A /\ run[2].B = committed.B /\ run[2].IP = Plus(committed.IP, 1)
      /\ run[2].PATTERNS = committed.PATTERNS /\ run[2].ATTRIBUTES = committed.ATTRIBUTES
  BY Begun
<1>5. Instructions!Draw(committed.A, 1)
  <2>1. {"GPUA", "PATTERNS", "ATTRIBUTES", "IP"} \subseteq Hidden \cup {"PATTERNS", "ATTRIBUTES", "IP"}
    BY DEF Hidden
  <2>2. /\ run[4].IP = Plus(committed.IP, 1)
        /\ run[4].PATTERNS = IF committed.B >= Word \div 2
                             THEN Put(committed.PATTERNS, committed.B % (Word \div 2), committed.A % Byte) ELSE committed.PATTERNS
        /\ run[4].ATTRIBUTES = IF committed.B < Word \div 2
                               THEN Put(committed.ATTRIBUTES, committed.B, committed.A % Byte) ELSE committed.ATTRIBUTES
    BY <1>3, <1>4 DEF Drawn
  <2> QED BY <1>3, <2>1, <2>2, ByDraw
<1> QED BY <1>5, Begun, SharedWords DEF Instructions!Devices, Instructions!Next

\* RAM_DRW does what the instruction set says.
LEMMA Does_RAM_DRW ==
  ASSUME NEW run, Executed(run, "RAM_DRW", << {"Bo", "GPUAi"}, {"IPo", "MARi"}, {"RAM", "RAMo", "GPUi", "IPp"} >>, 5)
  PROVE  Instructions!Next
<1>1. /\ run[3] = Micro(run[2], {"Bo", "GPUAi"})
      /\ run[4] = Micro(run[3], {"IPo", "MARi"})
      /\ run[5] = Micro(run[4], {"RAM", "RAMo", "GPUi", "IPp"})
  <2>1. Runs(run, << {"Bo", "GPUAi"}, {"IPo", "MARi"}, {"RAM", "RAMo", "GPUi", "IPp"} >>)
    BY DEF Executed
  <2> QED BY <2>1, RunsThree
<1>2. /\ Keeps(run[2], run[3], {"GPUA"}) /\ run[3].GPUA = run[2].B
      /\ Keeps(run[3], run[4], {"MAR"}) /\ run[4].MAR = run[3].IP
      /\ Drawn(run[4], run[5], At(run[4].RAM, run[4].MAR)) /\ run[5].IP = Plus(run[4].IP, 1)
  BY <1>1, Bo_GPUAi, IPo_MARi, Draw_Short, Zenon
<1> DEFINE value == At(committed.RAM, Plus(committed.IP, 1))
<1>4. /\ run[2].RAM = committed.RAM /\ run[2].B = committed.B /\ run[2].IP = Plus(committed.IP, 1)
      /\ run[2].PATTERNS = committed.PATTERNS /\ run[2].ATTRIBUTES = committed.ATTRIBUTES
  BY Begun
<1>3. /\ Keeps(run[2], run[5], {"GPUA", "MAR", "PATTERNS", "ATTRIBUTES", "IP"}) /\ Drawn(run[4], run[5], value)
      /\ run[5].IP = Plus(run[2].IP, 1) /\ run[4].GPUA = run[2].B
      /\ run[4].PATTERNS = run[2].PATTERNS /\ run[4].ATTRIBUTES = run[2].ATTRIBUTES
  BY <1>2, <1>4 DEF Keeps, Fields, Drawn
<1>5. Instructions!Draw(value, 2)
  <2>1. {"GPUA", "MAR", "PATTERNS", "ATTRIBUTES", "IP"} \subseteq Hidden \cup {"PATTERNS", "ATTRIBUTES", "IP"}
    BY DEF Hidden
  <2>2. run[5].IP = Plus(committed.IP, 2)
    <3>1. committed.IP \in Uint16
      BY Begun
    <3> QED BY <1>3, <1>4, <3>1, Sums
  <2>3. /\ run[5].PATTERNS = IF committed.B >= Word \div 2
                             THEN Put(committed.PATTERNS, committed.B % (Word \div 2), value % Byte) ELSE committed.PATTERNS
        /\ run[5].ATTRIBUTES = IF committed.B < Word \div 2
                               THEN Put(committed.ATTRIBUTES, committed.B, value % Byte) ELSE committed.ATTRIBUTES
    BY <1>3, <1>4 DEF Drawn
  <2> HIDE DEF value
  <2> QED BY <1>3, <2>1, <2>2, <2>3, ByDraw
<1> QED BY <1>5, Begun, SharedWords DEF Instructions!Devices, Instructions!Next, Instructions!Short, Instructions!After

\* An opcode without microcode does nothing but go on.
LEMMA Does_none ==
  ASSUME NEW run, Executed(run, "none", << >>, 2)
  PROVE  Instructions!Next
<1>1. Keeps(run[2], run[2], {"IP"}) /\ run[2].IP = Plus(committed.IP, 1)
  BY Begun DEF Keeps
<1>2. committed' = [committed EXCEPT !.IP = Plus(committed.IP, 1)]
  <2>1. committed \in Visibles /\ committed' \in Visibles /\ Same(committed, committed', {"IP"})
    BY <1>1, Begun, EndsSame
  <2>2. committed'.IP = Plus(committed.IP, 1)
    BY <1>1, Ended
  <2> QED BY <2>1, <2>2 DEF Same, VisibleFields, Visibles
<1> QED BY <1>2, Begun, SharedWords DEF Instructions!Control, Instructions!Next, Instructions!Jump, Instructions!After

\* HLT stops the machine behind it.
LEMMA Does_HLT ==
  ASSUME NEW run, Fetched(run, "HLT"), committed' = [Seen(run[2]) EXCEPT !.halted = TRUE]
  PROVE  Instructions!Next
<1>1. Keeps(run[0], run[2], {"MAR", "IR", "IP"})
  <2>1. Keeps(run[0], run[1], {"MAR"}) /\ Keeps(run[1], run[2], {"IR", "IP"})
    BY IPo_MARi, Fetch DEF Fetched
  <2> QED BY <2>1 DEF Keeps
<1>2. Same(Seen(run[0]), Seen(run[2]), {"IP"})
  BY <1>1, SeenOnly DEF Hidden
<1>3. /\ committed \in Visibles /\ committed = Seen(run[0]) /\ Seen(run[2]) \in Visibles
      /\ Seen(run[2]).IP = Plus(committed.IP, 1) /\ Instructions!Is("HLT")
  <2>1. run[2].IP = Plus(committed.IP, 1) /\ run[2] \in States /\ committed \in Visibles /\ Instructions!Is("HLT")
    BY FetchedFields
  <2> QED BY <2>1, SeenType DEF Fetched, Seen
<1> DEFINE s == Seen(run[2])
<1> HIDE DEF s
<1>4. /\ \A f \in VisibleFields \ {"IP"} : s[f] = committed[f]
      /\ s \in Visibles /\ s.IP = Plus(committed.IP, 1) /\ committed' = [s EXCEPT !.halted = TRUE]
  BY <1>2, <1>3 DEF Same, s
<1>5. committed' = [committed EXCEPT !.IP = Plus(committed.IP, 1), !.halted = TRUE]
  BY <1>3, <1>4, Zenon DEF Visibles, VisibleFields
<1> QED BY <1>3, <1>5, SharedWords, Zenon DEF Instructions!Control, Instructions!Next, Instructions!After

\* A jump is taken by the instruction set when the microcode says its condition holds.
LEMMA TakenIsHeld ==
  ASSUME NEW i \in Conditionals, Instructions!Is(i)
  PROVE  Instructions!Conditional /\ (Instructions!Taken <=> Holds(i, committed.FR))
<1>1. \A j : Instructions!Is(j) <=> j = i
  BY DEF Instructions!Is
<1> QED BY <1>1 DEF Conditionals, Instructions!Conditional, Instructions!Taken, Holds

\* A jump on a condition that holds goes to its target.
LEMMA Does_Jump ==
  ASSUME NEW run, NEW i \in Conditionals, Executed(run, i, Relative, 5), Holds(i, committed.FR)
  PROVE  Instructions!Next
<1>1. /\ run[3] = Micro(run[2], {"IPo", "MARi", "Yi"})
      /\ run[4] = Micro(run[3], {"RAM", "RAMo", "RAM16", "Xi"})
      /\ run[5] = Micro(run[4], {"ALUo", "IPi"})
  <2>1. Runs(run, << {"IPo", "MARi", "Yi"}, {"RAM", "RAMo", "RAM16", "Xi"}, {"ALUo", "IPi"} >>)
    BY DEF Executed, Relative
  <2> QED BY <2>1, RunsThree
<1>2. /\ Keeps(run[2], run[3], {"MAR", "Y"}) /\ run[3].MAR = run[2].IP /\ run[3].Y = run[2].IP
      /\ Keeps(run[3], run[4], {"X"}) /\ run[4].X = WordAt(run[3].RAM, run[3].MAR)
      /\ Keeps(run[4], run[5], {"IP", "FR"}) /\ run[5].IP = Plus(Plus(run[4].X, 0), run[4].Y) /\ run[5].FR = FlagsOfSum(Plus(run[4].X, 0), run[4].Y)
  BY <1>1, IPo_MARi_Yi, Word_Xi, Sum_IPi, Zenon
<1>3. /\ Keeps(run[2], run[5], {"MAR", "X", "Y", "IP", "FR"})
      /\ run[5].IP = Plus(Plus(WordAt(run[2].RAM, run[2].IP), 0), run[2].IP)
      /\ run[5].FR = FlagsOfSum(Plus(WordAt(run[2].RAM, run[2].IP), 0), run[2].IP)
  BY <1>2 DEF Keeps, Fields
<1>4. run[2].RAM = committed.RAM /\ run[2].IP = Plus(committed.IP, 1)
  BY Begun
<1>5. /\ run[5].IP = Plus(Plus(committed.IP, 1), WordAt(committed.RAM, Plus(committed.IP, 1)))
      /\ run[5].FR = FlagsOfSum(Plus(committed.IP, 1), WordAt(committed.RAM, Plus(committed.IP, 1)))
  <2>1. Plus(committed.IP, 1) \in Uint16 /\ WordAt(committed.RAM, Plus(committed.IP, 1)) \in Uint16
    BY Begun, NextType, WordAtType
  <2> QED BY <1>3, <1>4, <2>1, RelativeSum
<1>6. committed' = [committed EXCEPT !.IP = Plus(Plus(committed.IP, 1), WordAt(committed.RAM, Plus(committed.IP, 1))),
                                     !.FR = FlagsOfSum(Plus(committed.IP, 1), WordAt(committed.RAM, Plus(committed.IP, 1)))]
  <2>1. committed \in Visibles /\ committed' \in Visibles /\ Same(committed, committed', {"MAR", "X", "Y", "IP", "FR"})
    BY <1>3, Begun, EndsSame
  <2>2. /\ committed'.IP = Plus(Plus(committed.IP, 1), WordAt(committed.RAM, Plus(committed.IP, 1)))
        /\ committed'.FR = FlagsOfSum(Plus(committed.IP, 1), WordAt(committed.RAM, Plus(committed.IP, 1)))
    BY <1>5, Ended
  <2> QED BY <2>1, <2>2, Zenon DEF Same, VisibleFields, Visibles
<1>7. Instructions!Taken
  BY Begun, TakenIsHeld
<1> QED BY <1>6, <1>7, SharedWords, Zenon DEF Instructions!Control, Instructions!Next, Instructions!JumpRelative, Instructions!Wide, Instructions!After

\* A jump on a condition that does not hold goes behind its argument.
LEMMA Does_NotJump ==
  ASSUME NEW run, NEW i \in Conditionals, Executed(run, i, SkipArgument, 4), ~Holds(i, committed.FR)
  PROVE  Instructions!Next
<1>1. /\ run[3] = Micro(run[2], {"IPp"})
      /\ run[4] = Micro(run[3], {"IPp"})
  <2>1. Runs(run, << {"IPp"}, {"IPp"} >>)
    BY DEF Executed, SkipArgument
  <2> QED BY <2>1, RunsTwo
<1>2. /\ Keeps(run[2], run[3], {"IP"}) /\ run[3].IP = Plus(run[2].IP, 1)
      /\ Keeps(run[3], run[4], {"IP"}) /\ run[4].IP = Plus(run[3].IP, 1)
  BY <1>1, IPp
<1>3. Keeps(run[2], run[4], {"IP"}) /\ run[4].IP = Plus(Plus(run[2].IP, 1), 1)
  BY <1>2 DEF Keeps, Fields
<1>4. run[4].IP = Plus(committed.IP, 3)
  <2>1. run[2].IP = Plus(committed.IP, 1) /\ committed.IP \in Uint16
    BY Begun
  <2> QED BY <1>3, <2>1, Sums
<1>5. committed' = [committed EXCEPT !.IP = Plus(committed.IP, 3)]
  <2>1. committed \in Visibles /\ committed' \in Visibles /\ Same(committed, committed', {"IP"})
    BY <1>3, Begun, EndsSame
  <2>2. committed'.IP = Plus(committed.IP, 3)
    BY <1>4, Ended
  <2> QED BY <2>1, <2>2 DEF Same, VisibleFields, Visibles
<1>6. Instructions!Conditional /\ ~Instructions!Taken
  BY Begun, TakenIsHeld
<1> QED BY <1>5, <1>6, SharedWords DEF Instructions!Control, Instructions!Next, Instructions!Jump, Instructions!After

(***************************************************************************)
(* The courses of instructions: the words the control ROM looks up while   *)
(* one is under way, where the flags may change under it, and when it      *)
(* ends.                                                                   *)
(***************************************************************************)

\* At most one source for the bus.
Single(w) == \A a, b \in Outputs : {a, b} \subseteq w => a = b

\* The flags of microcode words that neither end an instruction nor load IR.
Parts ==
  {"IPo", "IPi", "IPp", "MARi", "RAM", "RAMo", "RAM16", "Ao", "Ai", "AHi", "Bo", "Bi", "Xi", "Yi", "ALUo", "Ci",
   "_SUB", "_SHR", "_AND", "SPo", "SPi", "SPu", "SPm", "NDXo", "NDXi", "MEMo", "MEMi", "SECo", "SECi", "KEYo",
   "GPUAi", "GPUi"}

\* Lists of such words, as short as those of the table.
Regular(steps) == steps \in Seq(SUBSET Parts) /\ Len(steps) \in {0, 1, 2, 3, 4, 5}

\* The word of tick k in the state s.
Looked(s, k) == control_rom(InstructionOf(s.IR), k, s.FR)

\* The flags that end an instruction.
Ending == {"SCr", "_HLT"}

\* The records of the ticks of the instruction under way, up to the last one.
History(run, last) ==
  /\ \A k \in 0 .. 15 : run[k] \in States
  /\ \A k \in 0 .. 15 : k < last => run[k + 1] = Micro(run[k], Looked(run[k], k)) /\ Looked(run[k], k) \cap Ending = {}

\* The first two words of every instruction fetch it.
LEMMA FetchSteps ==
  \A s : Looked(s, 0) = {"IPo", "MARi"} /\ Looked(s, 1) = {"RAM", "RAMo", "IRi", "IPp"}
BY DEF Looked, control_rom

\* The words after the fetch are those of the instruction, then none.
LEMMA LaterSteps ==
  ASSUME NEW s, NEW k \in 2 .. 15, NEW steps, steps = StepsOf(InstructionOf(s.IR), s.FR)
  PROVE  Looked(s, k) = IF k - 1 <= Len(steps) THEN steps[k - 1] ELSE {}
<1>1. k # 0 /\ k # 1
  OBVIOUS
<1> QED BY <1>1 DEF Looked, control_rom

\* The table of the microcode, entry by entry.
LEMMA Codes ==
  ASSUME NEW f
  PROVE  /\ StepsOf("none", f) = << >> /\ StepsOf("HLT", f) = << {"_HLT"} >>
         /\ \A i \in Conditionals : StepsOf(i, f) = Append(IF Holds(i, f) THEN Relative ELSE SkipArgument, {"SCr"})
         /\ \A i \in DOMAIN Body : StepsOf(i, f) = Append(Body[i], {"SCr"})
<1>1. DOMAIN Body \cap Conditionals = {} /\ "HLT" \notin DOMAIN Body /\ "none" \notin DOMAIN Body
      /\ "none" \notin Conditionals /\ "HLT" \notin Conditionals
  BY DEF Body, Conditionals
<1> QED BY <1>1 DEF StepsOf

\* Every byte is an instruction of the table, a jump on a condition, HLT, or none.
LEMMA Opcodes ==
  ASSUME NEW x \in Uint8
  PROVE  InstructionOf(x) \in DOMAIN Body \cup Conditionals \cup {"none", "HLT"}
<1>1. \A k \in 1 .. Len(Mnemonics) : Mnemonics[k] \in DOMAIN Body \cup Conditionals
  BY DEF Body, Conditionals, Mnemonics
<1>2. x % 64 \in Int /\ 0 <= x % 64
  BY Ranges
<1>3. Len(Mnemonics) = 59
  BY DEF Mnemonics
<1>4. x % 64 < Len(Mnemonics) => (x % 64) + 1 \in 1 .. Len(Mnemonics)
  BY <1>2, <1>3
<1> QED BY <1>1, <1>4 DEF InstructionOf, instruction_to_string

\* A list of words with the reset behind it.
LEMMA Appended ==
  ASSUME NEW steps, Regular(steps)
  PROVE  /\ Len(Append(steps, {"SCr"})) = Len(steps) + 1
         /\ \A k \in 1 .. Len(steps) : Append(steps, {"SCr"})[k] = steps[k]
         /\ Append(steps, {"SCr"})[Len(steps) + 1] = {"SCr"}
<1> DEFINE S == (SUBSET Parts) \cup {{"SCr"}}
<1>1. steps \in Seq(S) /\ {"SCr"} \in S
  BY DEF Regular
<1> HIDE DEF S
<1> QED BY <1>1, AppendProperties

\* The words of a body neither end the instruction nor load IR.
LEMMA Plain ==
  ASSUME NEW steps, Regular(steps), NEW k \in 1 .. Len(steps)
  PROVE  steps[k] \cap Ending = {} /\ "IRi" \notin steps[k]
<1>1. steps[k] \in SUBSET Parts
  BY DEF Regular
<1> QED BY <1>1 DEF Parts, Ending

\* IR stays but in the fetch.
LEMMA KeepsIR == ASSUME NEW s, NEW w, "IRi" \notin w PROVE Micro(s, w).IR = s.IR
BY DEF Micro

\* Every run begins with the fetch.
LEMMA HistoryFetches ==
  ASSUME NEW run, NEW last \in 0 .. 15, History(run, last)
  PROVE  /\ last < 2 => Looked(run[last], last) \cap Ending = {}
         /\ last >= 2 => run[1] = Micro(run[0], {"IPo", "MARi"}) /\ run[2] = Micro(run[1], {"RAM", "RAMo", "IRi", "IPp"})
<1>1. last < 2 => last = 0 \/ last = 1
  OBVIOUS
<1>2. last >= 2 => 0 < last /\ 1 < last
  OBVIOUS
<1> QED BY <1>1, <1>2, FetchSteps DEF History, Ending

\* The steps of an instruction whose microcode does not depend on the flags.
LEMMA Course ==
  ASSUME NEW run, NEW now \in 2 .. 15, History(run, now), NEW i, InstructionOf(run[2].IR) = i,
         NEW steps, Regular(steps), \A f : StepsOf(i, f) = Append(steps, {"SCr"}),
         NEW last, last = Len(steps) + 2
  PROVE  /\ now <= last /\ run[now].IR = run[2].IR
         /\ now < last => Looked(run[now], now) \cap Ending = {}
         /\ now = last => Looked(run[now], now) = {"SCr"} /\ Runs(run, steps)
<1>a. Len(steps) \in {0, 1, 2, 3, 4, 5}
  BY DEF Regular
<1>1. last \in {2, 3, 4, 5, 6, 7} /\ Len(steps) \in Int /\ last \in Int /\ 2 <= last /\ last <= 7 /\ last = Len(steps) + 2
  <2> DEFINE length == Len(steps)
  <2>1. length \in {0, 1, 2, 3, 4, 5} /\ last = length + 2
    BY <1>a
  <2> HIDE DEF length
  <2>2. length \in Int /\ last \in {2, 3, 4, 5, 6, 7}
    BY ONLY <2>1
  <2>3. last \in Int /\ 2 <= last /\ last <= 7
    BY ONLY <2>2
  <2> QED BY <2>1, <2>2, <2>3 DEF length
<1>b. \A k \in 2 .. 15 : k \in Int /\ 2 <= k /\ k <= 15
  OBVIOUS
<1>2. \A k \in 2 .. 15 : run[k].IR = run[2].IR /\ k < last => Looked(run[k], k) = steps[k - 1]
  <2> SUFFICES ASSUME NEW k \in 2 .. 15, run[k].IR = run[2].IR, k < last PROVE Looked(run[k], k) = steps[k - 1]
    OBVIOUS
  <2>1. k - 1 \in 1 .. Len(steps)
    BY <1>1, <1>b
  <2>2. StepsOf(InstructionOf(run[k].IR), run[k].FR) = Append(steps, {"SCr"})
    OBVIOUS
  <2>3. Len(Append(steps, {"SCr"})) = Len(steps) + 1 /\ Append(steps, {"SCr"})[k - 1] = steps[k - 1]
    BY <2>1, Appended
  <2>4. Looked(run[k], k) = IF k - 1 <= Len(Append(steps, {"SCr"})) THEN Append(steps, {"SCr"})[k - 1] ELSE {}
    BY <2>2, LaterSteps, Zenon
  <2>5. k - 1 <= Len(Append(steps, {"SCr"}))
    BY <1>1, <1>b, <2>3
  <2> QED BY <2>3, <2>4, <2>5, Zenon
<1>3. run[last].IR = run[2].IR => Looked(run[last], last) = {"SCr"}
  <2> SUFFICES ASSUME run[last].IR = run[2].IR PROVE Looked(run[last], last) = {"SCr"}
    OBVIOUS
  <2>1. last \in 2 .. 15 /\ last - 1 = Len(steps) + 1
    BY <1>1
  <2>2. StepsOf(InstructionOf(run[last].IR), run[last].FR) = Append(steps, {"SCr"})
    OBVIOUS
  <2>3. Len(Append(steps, {"SCr"})) = Len(steps) + 1 /\ Append(steps, {"SCr"})[Len(steps) + 1] = {"SCr"}
    BY Appended
  <2>4. Looked(run[last], last) = IF last - 1 <= Len(Append(steps, {"SCr"})) THEN Append(steps, {"SCr"})[last - 1] ELSE {}
    BY <2>1, <2>2, LaterSteps, Zenon
  <2>5. last - 1 <= Len(Append(steps, {"SCr"}))
    BY <1>1, <2>1, <2>3
  <2> QED BY <2>1, <2>3, <2>4, <2>5
<1>4. \A k \in 2 .. 15 : run[k].IR = run[2].IR /\ k < last /\ k < now =>
        run[k + 1] = Micro(run[k], steps[k - 1]) /\ run[k + 1].IR = run[2].IR
  <2> SUFFICES ASSUME NEW k \in 2 .. 15, run[k].IR = run[2].IR, k < last, k < now
               PROVE  run[k + 1] = Micro(run[k], steps[k - 1]) /\ run[k + 1].IR = run[2].IR
    OBVIOUS
  <2>0. k \in 0 .. 15
    BY <1>b
  <2>1. run[k + 1] = Micro(run[k], Looked(run[k], k))
    BY <2>0, Zenon DEF History
  <2>2. Looked(run[k], k) = steps[k - 1]
    BY <1>2, Zenon
  <2>3. k - 1 \in 1 .. Len(steps)
    BY <1>1, <1>b
  <2>4. "IRi" \notin steps[k - 1]
    BY <2>3, Plain
  <2>5. Micro(run[k], steps[k - 1]).IR = run[k].IR
    BY <2>4, KeepsIR
  <2> QED BY <2>1, <2>2, <2>5
<1>5. \A k \in {2, 3, 4, 5, 6, 7} : k <= now /\ k <= last => run[k].IR = run[2].IR
  <2>0. now \in Int /\ last \in Int /\ run[2].IR = run[2].IR
    BY <1>1, <1>b
  <2>2. 2 <= now /\ 2 <= last => run[2].IR = run[2].IR
    OBVIOUS
  <2>3. 3 <= now /\ 3 <= last => run[3].IR = run[2].IR
    <3> SUFFICES ASSUME 3 <= now, 3 <= last PROVE run[3].IR = run[2].IR
      OBVIOUS
    <3>1. 2 \in 2 .. 15 /\ 2 < last /\ 2 < now /\ 2 <= last /\ 2 <= now /\ 2 + 1 = 3
      BY <2>0
    <3>2. run[2].IR = run[2].IR
      BY <2>2, <3>1
    <3>3. run[2 + 1].IR = run[2].IR
      BY <1>4, <3>1, <3>2
    <3> QED BY <3>1, <3>3
  <2>4. 4 <= now /\ 4 <= last => run[4].IR = run[2].IR
    <3> SUFFICES ASSUME 4 <= now, 4 <= last PROVE run[4].IR = run[2].IR
      OBVIOUS
    <3>1. 3 \in 2 .. 15 /\ 3 < last /\ 3 < now /\ 3 <= last /\ 3 <= now /\ 3 + 1 = 4
      BY <2>0
    <3>2. run[3].IR = run[2].IR
      BY <2>3, <3>1
    <3>3. run[3 + 1].IR = run[2].IR
      BY <1>4, <3>1, <3>2
    <3> QED BY <3>1, <3>3
  <2>5. 5 <= now /\ 5 <= last => run[5].IR = run[2].IR
    <3> SUFFICES ASSUME 5 <= now, 5 <= last PROVE run[5].IR = run[2].IR
      OBVIOUS
    <3>1. 4 \in 2 .. 15 /\ 4 < last /\ 4 < now /\ 4 <= last /\ 4 <= now /\ 4 + 1 = 5
      BY <2>0
    <3>2. run[4].IR = run[2].IR
      BY <2>4, <3>1
    <3>3. run[4 + 1].IR = run[2].IR
      BY <1>4, <3>1, <3>2
    <3> QED BY <3>1, <3>3
  <2>6. 6 <= now /\ 6 <= last => run[6].IR = run[2].IR
    <3> SUFFICES ASSUME 6 <= now, 6 <= last PROVE run[6].IR = run[2].IR
      OBVIOUS
    <3>1. 5 \in 2 .. 15 /\ 5 < last /\ 5 < now /\ 5 <= last /\ 5 <= now /\ 5 + 1 = 6
      BY <2>0
    <3>2. run[5].IR = run[2].IR
      BY <2>5, <3>1
    <3>3. run[5 + 1].IR = run[2].IR
      BY <1>4, <3>1, <3>2
    <3> QED BY <3>1, <3>3
  <2>7. 7 <= now /\ 7 <= last => run[7].IR = run[2].IR
    <3> SUFFICES ASSUME 7 <= now, 7 <= last PROVE run[7].IR = run[2].IR
      OBVIOUS
    <3>1. 6 \in 2 .. 15 /\ 6 < last /\ 6 < now /\ 6 <= last /\ 6 <= now /\ 6 + 1 = 7
      BY <2>0
    <3>2. run[6].IR = run[2].IR
      BY <2>6, <3>1
    <3>3. run[6 + 1].IR = run[2].IR
      BY <1>4, <3>1, <3>2
    <3> QED BY <3>1, <3>3
  <2> QED BY <2>2, <2>3, <2>4, <2>5, <2>6, <2>7
<1>6. now <= last
  <2> SUFFICES ASSUME last < now PROVE FALSE
    BY <1>1, <1>b
  <2>0. last \in 0 .. 15 /\ last <= now /\ last <= last
    BY <1>1, <1>b
  <2>3. run[last].IR = run[2].IR
    BY <1>1, <1>5, <2>0
  <2>1. Looked(run[last], last) = {"SCr"}
    BY <1>3, <2>3
  <2>2. Looked(run[last], last) \cap Ending = {}
    BY <2>0, Zenon DEF History
  <2> QED BY <2>1, <2>2 DEF Ending
<1>7. run[now].IR = run[2].IR /\ now \in {2, 3, 4, 5, 6, 7}
  <2>1. now \in {2, 3, 4, 5, 6, 7} /\ now <= now
    BY <1>1, <1>6, <1>b
  <2> QED BY <1>5, <1>6, <2>1
<1>8. now < last => Looked(run[now], now) \cap Ending = {}
  <2> SUFFICES ASSUME now < last PROVE Looked(run[now], now) \cap Ending = {}
    OBVIOUS
  <2>1. now - 1 \in 1 .. Len(steps)
    BY <1>1, <1>b
  <2>2. Looked(run[now], now) = steps[now - 1]
    BY <1>2, <1>7, Zenon
  <2>3. steps[now - 1] \cap Ending = {}
    BY <2>1, Plain
  <2> QED BY <2>2, <2>3
<1>9. now = last => Runs(run, steps)
  <2> SUFFICES ASSUME now = last, NEW k \in 1 .. Len(steps) PROVE run[k + 2] = Micro(run[k + 1], steps[k])
    BY DEF Runs
  <2>0. k \in Int /\ 1 <= k /\ k <= Len(steps)
    BY <1>1
  <2>1. /\ k + 1 \in {2, 3, 4, 5, 6, 7} /\ k + 1 < last /\ k + 1 < now /\ k + 1 <= last /\ k + 1 <= now
        /\ k + 1 \in 2 .. 15 /\ (k + 1) - 1 = k /\ (k + 1) + 1 = k + 2
    BY <1>1, <2>0
  <2>2. run[k + 1].IR = run[2].IR
    BY <1>5, <2>1, Zenon
  <2>3. run[(k + 1) + 1] = Micro(run[k + 1], steps[(k + 1) - 1])
    BY <1>4, <2>1, <2>2, Zenon
  <2> QED BY <2>1, <2>3
<1>10. now = last => Looked(run[now], now) = {"SCr"}
  BY <1>3, <1>7
<1> QED BY <1>6, <1>7, <1>8, <1>9, <1>10

\* The words of a jump on a condition, by what the flags say at that step: the control ROM
\* looks at the flags again in every tick.
LEMMA JumpSteps ==
  ASSUME NEW s, InstructionOf(s.IR) \in Conditionals, NEW k \in 2 .. 15
  PROVE  IF Holds(InstructionOf(s.IR), s.FR)
         THEN /\ k = 2 => Looked(s, k) = {"IPo", "MARi", "Yi"}
              /\ k = 3 => Looked(s, k) = {"RAM", "RAMo", "RAM16", "Xi"}
              /\ k = 4 => Looked(s, k) = {"ALUo", "IPi"}
              /\ k = 5 => Looked(s, k) = {"SCr"}
              /\ k > 5 => Looked(s, k) = {}
         ELSE /\ k = 2 \/ k = 3 => Looked(s, k) = {"IPp"}
              /\ k = 4 => Looked(s, k) = {"SCr"}
              /\ k > 4 => Looked(s, k) = {}
<1> DEFINE steps == StepsOf(InstructionOf(s.IR), s.FR)
<1>1. Looked(s, k) = IF k - 1 <= Len(steps) THEN steps[k - 1] ELSE {}
  BY LaterSteps, Zenon
<1>2. steps = Append(IF Holds(InstructionOf(s.IR), s.FR) THEN Relative ELSE SkipArgument, {"SCr"})
  BY Codes, Zenon
<1>3. k \in Int /\ 2 <= k
  OBVIOUS
<1> HIDE DEF steps
<1>4. CASE Holds(InstructionOf(s.IR), s.FR)
  <2>1. Regular(Relative) /\ Len(Relative) = 3
    BY DEF Relative, Regular, Parts
  <2>2. Relative[1] = {"IPo", "MARi", "Yi"} /\ Relative[2] = {"RAM", "RAMo", "RAM16", "Xi"} /\ Relative[3] = {"ALUo", "IPi"}
    BY DEF Relative
  <2>3. 1 \in 1 .. Len(Relative) /\ 2 \in 1 .. Len(Relative) /\ 3 \in 1 .. Len(Relative) /\ Len(Relative) + 1 = 4
    BY <2>1
  <2>4. Len(steps) = 4 /\ steps[1] = Relative[1] /\ steps[2] = Relative[2] /\ steps[3] = Relative[3] /\ steps[4] = {"SCr"}
    BY <1>2, <1>4, <2>1, <2>3, Appended, Zenon
  <2> QED BY <1>1, <1>3, <1>4, <2>2, <2>4
<1>5. CASE ~Holds(InstructionOf(s.IR), s.FR)
  <2>1. Regular(SkipArgument) /\ Len(SkipArgument) = 2
    BY DEF SkipArgument, Regular, Parts
  <2>2. SkipArgument[1] = {"IPp"} /\ SkipArgument[2] = {"IPp"}
    BY DEF SkipArgument
  <2>3. 1 \in 1 .. Len(SkipArgument) /\ 2 \in 1 .. Len(SkipArgument) /\ Len(SkipArgument) + 1 = 3
    BY <2>1
  <2>4. Len(steps) = 3 /\ steps[1] = SkipArgument[1] /\ steps[2] = SkipArgument[2] /\ steps[3] = {"SCr"}
    BY <1>2, <1>5, <2>1, <2>3, Appended, Zenon
  <2> QED BY <1>1, <1>3, <1>5, <2>2, <2>4
<1> QED BY <1>4, <1>5

\* Only words that use the ALU change the flags.
LEMMA KeepsFR == ASSUME NEW s, NEW w, "ALUo" \notin w PROVE Micro(s, w).FR = s.FR
BY DEF Micro

\* Where no word is left the machine stays as it is until the step counter overflows.
LEMMA Idles ==
  ASSUME NEW run, NEW now \in 2 .. 15, History(run, now), NEW from \in 2 .. 15, from <= now,
         \A k \in 2 .. 15 : from <= k /\ run[k] = run[from] => Looked(run[k], k) \in {{}, {"SCr"}}
  PROVE  run[now] = run[from] /\ Looked(run[now], now) \in {{}, {"SCr"}}
<1>1. now \in Int /\ from \in Int /\ 2 <= from /\ now <= 15
  OBVIOUS
<1>a. \A k \in 2 .. 15 : from <= k /\ k < now /\ run[k] = run[from] => run[k + 1] = run[from]
  <2> SUFFICES ASSUME NEW k \in 2 .. 15, from <= k, k < now, run[k] = run[from] PROVE run[k + 1] = run[from]
    OBVIOUS
  <2>1. k \in 0 .. 15
    OBVIOUS
  <2>2. run[k + 1] = Micro(run[k], Looked(run[k], k)) /\ Looked(run[k], k) \cap Ending = {} /\ run[k] \in States
    BY <2>1 DEF History
  <2>3. Looked(run[k], k) = {}
    BY <2>2, Zenon DEF Ending
  <2> QED BY <2>2, <2>3, Idle
<1>2. from <= 2 /\ 2 <= now => run[2] = run[from]
  BY <1>1
<1>3. from <= 3 /\ 3 <= now => run[3] = run[from]
  <2> SUFFICES ASSUME from <= 3, 3 <= now PROVE run[3] = run[from]
    OBVIOUS
  <2>1. CASE from = 3
    BY <2>1
  <2>2. CASE from # 3
    <3>1. 2 \in 2 .. 15 /\ from <= 2 /\ 2 < now /\ 2 <= now /\ 2 + 1 = 3
      BY <1>1, <2>2
    <3>2. run[2 + 1] = run[from]
      BY <1>a, <1>2, <3>1
    <3> QED BY <3>1, <3>2
  <2> QED BY <2>1, <2>2
<1>4. from <= 4 /\ 4 <= now => run[4] = run[from]
  <2> SUFFICES ASSUME from <= 4, 4 <= now PROVE run[4] = run[from]
    OBVIOUS
  <2>1. CASE from = 4
    BY <2>1
  <2>2. CASE from # 4
    <3>1. 3 \in 2 .. 15 /\ from <= 3 /\ 3 < now /\ 3 <= now /\ 3 + 1 = 4
      BY <1>1, <2>2
    <3>2. run[3 + 1] = run[from]
      BY <1>a, <1>3, <3>1
    <3> QED BY <3>1, <3>2
  <2> QED BY <2>1, <2>2
<1>5. from <= 5 /\ 5 <= now => run[5] = run[from]
  <2> SUFFICES ASSUME from <= 5, 5 <= now PROVE run[5] = run[from]
    OBVIOUS
  <2>1. CASE from = 5
    BY <2>1
  <2>2. CASE from # 5
    <3>1. 4 \in 2 .. 15 /\ from <= 4 /\ 4 < now /\ 4 <= now /\ 4 + 1 = 5
      BY <1>1, <2>2
    <3>2. run[4 + 1] = run[from]
      BY <1>a, <1>4, <3>1
    <3> QED BY <3>1, <3>2
  <2> QED BY <2>1, <2>2
<1>6. from <= 6 /\ 6 <= now => run[6] = run[from]
  <2> SUFFICES ASSUME from <= 6, 6 <= now PROVE run[6] = run[from]
    OBVIOUS
  <2>1. CASE from = 6
    BY <2>1
  <2>2. CASE from # 6
    <3>1. 5 \in 2 .. 15 /\ from <= 5 /\ 5 < now /\ 5 <= now /\ 5 + 1 = 6
      BY <1>1, <2>2
    <3>2. run[5 + 1] = run[from]
      BY <1>a, <1>5, <3>1
    <3> QED BY <3>1, <3>2
  <2> QED BY <2>1, <2>2
<1>7. from <= 7 /\ 7 <= now => run[7] = run[from]
  <2> SUFFICES ASSUME from <= 7, 7 <= now PROVE run[7] = run[from]
    OBVIOUS
  <2>1. CASE from = 7
    BY <2>1
  <2>2. CASE from # 7
    <3>1. 6 \in 2 .. 15 /\ from <= 6 /\ 6 < now /\ 6 <= now /\ 6 + 1 = 7
      BY <1>1, <2>2
    <3>2. run[6 + 1] = run[from]
      BY <1>a, <1>6, <3>1
    <3> QED BY <3>1, <3>2
  <2> QED BY <2>1, <2>2
<1>8. from <= 8 /\ 8 <= now => run[8] = run[from]
  <2> SUFFICES ASSUME from <= 8, 8 <= now PROVE run[8] = run[from]
    OBVIOUS
  <2>1. CASE from = 8
    BY <2>1
  <2>2. CASE from # 8
    <3>1. 7 \in 2 .. 15 /\ from <= 7 /\ 7 < now /\ 7 <= now /\ 7 + 1 = 8
      BY <1>1, <2>2
    <3>2. run[7 + 1] = run[from]
      BY <1>a, <1>7, <3>1
    <3> QED BY <3>1, <3>2
  <2> QED BY <2>1, <2>2
<1>9. from <= 9 /\ 9 <= now => run[9] = run[from]
  <2> SUFFICES ASSUME from <= 9, 9 <= now PROVE run[9] = run[from]
    OBVIOUS
  <2>1. CASE from = 9
    BY <2>1
  <2>2. CASE from # 9
    <3>1. 8 \in 2 .. 15 /\ from <= 8 /\ 8 < now /\ 8 <= now /\ 8 + 1 = 9
      BY <1>1, <2>2
    <3>2. run[8 + 1] = run[from]
      BY <1>a, <1>8, <3>1
    <3> QED BY <3>1, <3>2
  <2> QED BY <2>1, <2>2
<1>10. from <= 10 /\ 10 <= now => run[10] = run[from]
  <2> SUFFICES ASSUME from <= 10, 10 <= now PROVE run[10] = run[from]
    OBVIOUS
  <2>1. CASE from = 10
    BY <2>1
  <2>2. CASE from # 10
    <3>1. 9 \in 2 .. 15 /\ from <= 9 /\ 9 < now /\ 9 <= now /\ 9 + 1 = 10
      BY <1>1, <2>2
    <3>2. run[9 + 1] = run[from]
      BY <1>a, <1>9, <3>1
    <3> QED BY <3>1, <3>2
  <2> QED BY <2>1, <2>2
<1>11. from <= 11 /\ 11 <= now => run[11] = run[from]
  <2> SUFFICES ASSUME from <= 11, 11 <= now PROVE run[11] = run[from]
    OBVIOUS
  <2>1. CASE from = 11
    BY <2>1
  <2>2. CASE from # 11
    <3>1. 10 \in 2 .. 15 /\ from <= 10 /\ 10 < now /\ 10 <= now /\ 10 + 1 = 11
      BY <1>1, <2>2
    <3>2. run[10 + 1] = run[from]
      BY <1>a, <1>10, <3>1
    <3> QED BY <3>1, <3>2
  <2> QED BY <2>1, <2>2
<1>12. from <= 12 /\ 12 <= now => run[12] = run[from]
  <2> SUFFICES ASSUME from <= 12, 12 <= now PROVE run[12] = run[from]
    OBVIOUS
  <2>1. CASE from = 12
    BY <2>1
  <2>2. CASE from # 12
    <3>1. 11 \in 2 .. 15 /\ from <= 11 /\ 11 < now /\ 11 <= now /\ 11 + 1 = 12
      BY <1>1, <2>2
    <3>2. run[11 + 1] = run[from]
      BY <1>a, <1>11, <3>1
    <3> QED BY <3>1, <3>2
  <2> QED BY <2>1, <2>2
<1>13. from <= 13 /\ 13 <= now => run[13] = run[from]
  <2> SUFFICES ASSUME from <= 13, 13 <= now PROVE run[13] = run[from]
    OBVIOUS
  <2>1. CASE from = 13
    BY <2>1
  <2>2. CASE from # 13
    <3>1. 12 \in 2 .. 15 /\ from <= 12 /\ 12 < now /\ 12 <= now /\ 12 + 1 = 13
      BY <1>1, <2>2
    <3>2. run[12 + 1] = run[from]
      BY <1>a, <1>12, <3>1
    <3> QED BY <3>1, <3>2
  <2> QED BY <2>1, <2>2
<1>14. from <= 14 /\ 14 <= now => run[14] = run[from]
  <2> SUFFICES ASSUME from <= 14, 14 <= now PROVE run[14] = run[from]
    OBVIOUS
  <2>1. CASE from = 14
    BY <2>1
  <2>2. CASE from # 14
    <3>1. 13 \in 2 .. 15 /\ from <= 13 /\ 13 < now /\ 13 <= now /\ 13 + 1 = 14
      BY <1>1, <2>2
    <3>2. run[13 + 1] = run[from]
      BY <1>a, <1>13, <3>1
    <3> QED BY <3>1, <3>2
  <2> QED BY <2>1, <2>2
<1>15. from <= 15 /\ 15 <= now => run[15] = run[from]
  <2> SUFFICES ASSUME from <= 15, 15 <= now PROVE run[15] = run[from]
    OBVIOUS
  <2>1. CASE from = 15
    BY <2>1
  <2>2. CASE from # 15
    <3>1. 14 \in 2 .. 15 /\ from <= 14 /\ 14 < now /\ 14 <= now /\ 14 + 1 = 15
      BY <1>1, <2>2
    <3>2. run[14 + 1] = run[from]
      BY <1>a, <1>14, <3>1
    <3> QED BY <3>1, <3>2
  <2> QED BY <2>1, <2>2
<1>16. now \in {2, 3, 4, 5, 6, 7, 8, 9, 10, 11, 12, 13, 14, 15} /\ now <= now
  BY <1>1
<1>17. run[now] = run[from]
  BY <1>2, <1>3, <1>4, <1>5, <1>6, <1>7, <1>8, <1>9, <1>10, <1>11, <1>12, <1>13, <1>14, <1>15, <1>16
<1> QED BY <1>17, Zenon

\* A run goes on by the word that is looked up.
LEMMA Advance ==
  ASSUME NEW run, NEW now \in 2 .. 15, History(run, now), NEW k \in 2 .. 15, k < now
  PROVE  run[k + 1] = Micro(run[k], Looked(run[k], k)) /\ "SCr" \notin Looked(run[k], k) /\ run[k] \in States
<1>1. k \in 0 .. 15
  OBVIOUS
<1> QED BY <1>1 DEF History, Ending

\* An opcode without microcode: nothing happens until the step counter overflows.
LEMMA NoneCourse ==
  ASSUME NEW run, NEW now \in 2 .. 15, History(run, now), InstructionOf(run[2].IR) = "none"
  PROVE  run[now] = run[2] /\ Looked(run[now], now) = {}
<1>1. \A k \in 2 .. 15 : run[k] = run[2] => Looked(run[k], k) = {}
  <2> SUFFICES ASSUME NEW k \in 2 .. 15, run[k] = run[2] PROVE Looked(run[k], k) = {}
    OBVIOUS
  <2>1. StepsOf(InstructionOf(run[k].IR), run[k].FR) = << >>
    BY Codes
  <2>2. Looked(run[k], k) = IF k - 1 <= Len(<< >>) THEN << >>[k - 1] ELSE {}
    BY <2>1, LaterSteps, Zenon
  <2>3. ~(k - 1 <= Len(<< >>))
    OBVIOUS
  <2> QED BY <2>2, <2>3
<1>2. 2 \in 2 .. 15 /\ 2 <= now
  OBVIOUS
<1> QED BY <1>1, <1>2, Idles, Zenon

\* HLT stops the machine in its first own tick.
LEMMA HaltCourse ==
  ASSUME NEW run, NEW now \in 2 .. 15, History(run, now), InstructionOf(run[2].IR) = "HLT"
  PROVE  now = 2 /\ Looked(run[now], now) = {"_HLT"}
<1>1. Looked(run[2], 2) = {"_HLT"}
  <2>1. 2 \in 2 .. 15 /\ StepsOf(InstructionOf(run[2].IR), run[2].FR) = << {"_HLT"} >>
    BY Codes
  <2>2. Looked(run[2], 2) = IF 2 - 1 <= Len(<< {"_HLT"} >>) THEN << {"_HLT"} >>[2 - 1] ELSE {}
    BY <2>1, LaterSteps, Zenon
  <2> QED BY <2>2
<1>2. ~(2 < now)
  <2> SUFFICES ASSUME 2 < now PROVE FALSE
    OBVIOUS
  <2>1. 2 \in 0 .. 15
    OBVIOUS
  <2> QED BY <1>1, <2>1 DEF History, Ending
<1>3. now = 2
  BY <1>2
<1> QED BY <1>1, <1>3

\* A jump on a condition that holds; the sum may change the flags, and the step counter
\* then overflows.
LEMMA JumpCourse ==
  ASSUME NEW run, NEW now \in 2 .. 15, History(run, now), InstructionOf(run[2].IR) \in Conditionals,
         Holds(InstructionOf(run[2].IR), run[2].FR)
  PROVE  /\ now < 5 => Looked(run[now], now) \cap Ending = {}
         /\ now >= 5 => Looked(run[now], now) \in {{}, {"SCr"}} /\ run[now] = run[5] /\ Runs(run, Relative)
         /\ now >= 5 => run[now].IR = run[2].IR
<1>a. now \in Int /\ 2 \in 2 .. 15 /\ 3 \in 2 .. 15 /\ 4 \in 2 .. 15 /\ 5 \in 2 .. 15
  OBVIOUS
<1>2. Looked(run[2], 2) = {"IPo", "MARi", "Yi"}
  BY <1>a, JumpSteps
<1>3. 2 < now => run[3] = Micro(run[2], {"IPo", "MARi", "Yi"}) /\ run[3].IR = run[2].IR /\ run[3].FR = run[2].FR
  <2> SUFFICES ASSUME 2 < now PROVE run[3] = Micro(run[2], {"IPo", "MARi", "Yi"}) /\ run[3].IR = run[2].IR /\ run[3].FR = run[2].FR
    OBVIOUS
  <2>1. run[2 + 1] = Micro(run[2], Looked(run[2], 2)) /\ 2 + 1 = 3
    BY <1>a, Advance
  <2>2. Micro(run[2], {"IPo", "MARi", "Yi"}).IR = run[2].IR
    BY KeepsIR
  <2>3. Micro(run[2], {"IPo", "MARi", "Yi"}).FR = run[2].FR
    BY KeepsFR
  <2> QED BY <1>2, <2>1, <2>2, <2>3
<1>4. 3 <= now => Looked(run[3], 3) = {"RAM", "RAMo", "RAM16", "Xi"}
  <2> SUFFICES ASSUME 3 <= now PROVE Looked(run[3], 3) = {"RAM", "RAMo", "RAM16", "Xi"}
    OBVIOUS
  <2>1. run[3].IR = run[2].IR /\ run[3].FR = run[2].FR
    BY <1>3, <1>a
  <2> QED BY <1>a, <2>1, JumpSteps
<1>5. 3 < now => run[4] = Micro(run[3], {"RAM", "RAMo", "RAM16", "Xi"}) /\ run[4].IR = run[2].IR /\ run[4].FR = run[2].FR
  <2> SUFFICES ASSUME 3 < now PROVE run[4] = Micro(run[3], {"RAM", "RAMo", "RAM16", "Xi"}) /\ run[4].IR = run[2].IR /\ run[4].FR = run[2].FR
    OBVIOUS
  <2>1. run[3 + 1] = Micro(run[3], Looked(run[3], 3)) /\ 3 + 1 = 4
    BY <1>a, Advance
  <2>2. run[3].IR = run[2].IR /\ run[3].FR = run[2].FR /\ Looked(run[3], 3) = {"RAM", "RAMo", "RAM16", "Xi"}
    BY <1>3, <1>4, <1>a
  <2>3. Micro(run[3], {"RAM", "RAMo", "RAM16", "Xi"}).IR = run[3].IR
    BY KeepsIR
  <2>4. Micro(run[3], {"RAM", "RAMo", "RAM16", "Xi"}).FR = run[3].FR
    BY KeepsFR
  <2> QED BY <2>1, <2>2, <2>3, <2>4
<1>6. 4 <= now => Looked(run[4], 4) = {"ALUo", "IPi"}
  <2> SUFFICES ASSUME 4 <= now PROVE Looked(run[4], 4) = {"ALUo", "IPi"}
    OBVIOUS
  <2>1. run[4].IR = run[2].IR /\ run[4].FR = run[2].FR
    BY <1>5, <1>a
  <2> QED BY <1>a, <2>1, JumpSteps
<1>7. 4 < now => run[5] = Micro(run[4], {"ALUo", "IPi"}) /\ run[5].IR = run[2].IR
  <2> SUFFICES ASSUME 4 < now PROVE run[5] = Micro(run[4], {"ALUo", "IPi"}) /\ run[5].IR = run[2].IR
    OBVIOUS
  <2>1. run[4 + 1] = Micro(run[4], Looked(run[4], 4)) /\ 4 + 1 = 5
    BY <1>a, Advance
  <2>2. run[4].IR = run[2].IR /\ Looked(run[4], 4) = {"ALUo", "IPi"}
    BY <1>5, <1>6, <1>a
  <2>3. Micro(run[4], {"ALUo", "IPi"}).IR = run[4].IR
    BY KeepsIR
  <2> QED BY <2>1, <2>2, <2>3
<1>8. now < 5 => Looked(run[now], now) \cap Ending = {}
  <2> SUFFICES ASSUME now < 5 PROVE Looked(run[now], now) \cap Ending = {}
    OBVIOUS
  <2>1. now \in {2, 3, 4} /\ now <= now
    BY <1>a
  <2> QED BY <1>2, <1>4, <1>6, <2>1 DEF Ending
<1>9. ASSUME now >= 5
      PROVE  Looked(run[now], now) \in {{}, {"SCr"}} /\ run[now] = run[5] /\ Runs(run, Relative) /\ run[now].IR = run[2].IR
  <2>1. 2 < now /\ 3 < now /\ 4 < now /\ 5 <= now
    BY <1>9, <1>a
  <2>2. \A k \in 2 .. 15 : 5 <= k /\ run[k] = run[5] => Looked(run[k], k) \in {{}, {"SCr"}}
    <3> SUFFICES ASSUME NEW k \in 2 .. 15, 5 <= k, run[k] = run[5] PROVE Looked(run[k], k) \in {{}, {"SCr"}}
      OBVIOUS
    <3>1. InstructionOf(run[k].IR) \in Conditionals
      BY <1>7, <2>1
    <3>2. k > 4 /\ (k = 5 \/ k > 5)
      OBVIOUS
    <3> QED BY <3>1, <3>2, JumpSteps
  <2>3. run[now] = run[5] /\ Looked(run[now], now) \in {{}, {"SCr"}}
    BY <1>a, <2>1, <2>2, Idles, Zenon
  <2>4. run[now].IR = run[2].IR
    BY <1>7, <2>1, <2>3
  <2>5. Runs(run, << {"IPo", "MARi", "Yi"}, {"RAM", "RAMo", "RAM16", "Xi"}, {"ALUo", "IPi"} >>)
    <3> SUFFICES ASSUME NEW k \in 1 .. 3
                 PROVE  run[k + 2] = Micro(run[k + 1], << {"IPo", "MARi", "Yi"}, {"RAM", "RAMo", "RAM16", "Xi"}, {"ALUo", "IPi"} >>[k])
      BY DEF Runs
    <3>1. k \in {1, 2, 3}
      OBVIOUS
    <3>2. run[3] = Micro(run[2], {"IPo", "MARi", "Yi"}) /\ run[4] = Micro(run[3], {"RAM", "RAMo", "RAM16", "Xi"})
          /\ run[5] = Micro(run[4], {"ALUo", "IPi"})
      BY <1>3, <1>5, <1>7, <2>1
    <3> QED BY <3>1, <3>2
  <2> QED BY <2>3, <2>4, <2>5 DEF Relative
<1> QED BY <1>8, <1>9, <1>a

\* A jump on a condition that does not hold goes past its argument.
LEMMA SkipCourse ==
  ASSUME NEW run, NEW now \in 2 .. 15, History(run, now), InstructionOf(run[2].IR) \in Conditionals,
         ~Holds(InstructionOf(run[2].IR), run[2].FR)
  PROVE  /\ now <= 4
         /\ now < 4 => Looked(run[now], now) \cap Ending = {}
         /\ now = 4 => Looked(run[now], now) = {"SCr"} /\ Runs(run, SkipArgument)
<1>a. now \in Int /\ 2 \in 2 .. 15 /\ 3 \in 2 .. 15 /\ 4 \in 2 .. 15
  OBVIOUS
<1>2. Looked(run[2], 2) = {"IPp"}
  BY <1>a, JumpSteps
<1>3. 2 < now => run[3] = Micro(run[2], {"IPp"}) /\ run[3].IR = run[2].IR /\ run[3].FR = run[2].FR
  <2> SUFFICES ASSUME 2 < now PROVE run[3] = Micro(run[2], {"IPp"}) /\ run[3].IR = run[2].IR /\ run[3].FR = run[2].FR
    OBVIOUS
  <2>1. run[2 + 1] = Micro(run[2], Looked(run[2], 2)) /\ 2 + 1 = 3
    BY <1>a, Advance
  <2>2. Micro(run[2], {"IPp"}).IR = run[2].IR
    BY KeepsIR
  <2>3. Micro(run[2], {"IPp"}).FR = run[2].FR
    BY KeepsFR
  <2> QED BY <1>2, <2>1, <2>2, <2>3
<1>4. 3 <= now => Looked(run[3], 3) = {"IPp"}
  <2> SUFFICES ASSUME 3 <= now PROVE Looked(run[3], 3) = {"IPp"}
    OBVIOUS
  <2>1. run[3].IR = run[2].IR /\ run[3].FR = run[2].FR
    BY <1>3, <1>a
  <2> QED BY <1>a, <2>1, JumpSteps
<1>5. 3 < now => run[4] = Micro(run[3], {"IPp"}) /\ run[4].IR = run[2].IR /\ run[4].FR = run[2].FR
  <2> SUFFICES ASSUME 3 < now PROVE run[4] = Micro(run[3], {"IPp"}) /\ run[4].IR = run[2].IR /\ run[4].FR = run[2].FR
    OBVIOUS
  <2>1. run[3 + 1] = Micro(run[3], Looked(run[3], 3)) /\ 3 + 1 = 4
    BY <1>a, Advance
  <2>2. run[3].IR = run[2].IR /\ run[3].FR = run[2].FR /\ Looked(run[3], 3) = {"IPp"}
    BY <1>3, <1>4, <1>a
  <2>3. Micro(run[3], {"IPp"}).IR = run[3].IR
    BY KeepsIR
  <2>4. Micro(run[3], {"IPp"}).FR = run[3].FR
    BY KeepsFR
  <2> QED BY <2>1, <2>2, <2>3, <2>4
<1>6. 4 <= now => Looked(run[4], 4) = {"SCr"}
  <2> SUFFICES ASSUME 4 <= now PROVE Looked(run[4], 4) = {"SCr"}
    OBVIOUS
  <2>1. run[4].IR = run[2].IR /\ run[4].FR = run[2].FR
    BY <1>5, <1>a
  <2> QED BY <1>a, <2>1, JumpSteps
<1>7. now <= 4
  <2> SUFFICES ASSUME 4 < now PROVE FALSE
    BY <1>a
  <2>1. Looked(run[4], 4) = {"SCr"} /\ "SCr" \notin Looked(run[4], 4)
    BY <1>6, <1>a, Advance
  <2> QED BY <2>1
<1>8. now < 4 => Looked(run[now], now) \cap Ending = {}
  <2> SUFFICES ASSUME now < 4 PROVE Looked(run[now], now) \cap Ending = {}
    OBVIOUS
  <2>1. now \in {2, 3} /\ now <= now
    BY <1>a
  <2> QED BY <1>2, <1>4, <2>1 DEF Ending
<1>9. now = 4 => Looked(run[now], now) = {"SCr"} /\ Runs(run, SkipArgument)
  <2> SUFFICES ASSUME now = 4 PROVE Looked(run[now], now) = {"SCr"} /\ Runs(run, SkipArgument)
    OBVIOUS
  <2>1. run[3] = Micro(run[2], {"IPp"}) /\ run[4] = Micro(run[3], {"IPp"}) /\ Looked(run[4], 4) = {"SCr"}
    BY <1>3, <1>5, <1>6
  <2>2. Runs(run, << {"IPp"}, {"IPp"} >>)
    <3> SUFFICES ASSUME NEW k \in 1 .. 2 PROVE run[k + 2] = Micro(run[k + 1], << {"IPp"}, {"IPp"} >>[k])
      BY DEF Runs
    <3>1. k \in {1, 2}
      OBVIOUS
    <3> QED BY <2>1, <3>1
  <2> QED BY <2>1, <2>2 DEF SkipArgument
<1> QED BY <1>7, <1>8, <1>9

\* What the tables say of each instruction, and what it then does.
LEMMA Performs ==
  ASSUME NEW i \in DOMAIN Body
  PROVE  /\ Regular(Body[i]) /\ \A k \in 1 .. Len(Body[i]) : Single(Body[i][k])
         /\ \A run, last : Executed(run, i, Body[i], last) => Instructions!Next
<1>1. i \in {"NOP", "INCA", "INCB", "DECA", "RAM_AL", "RAM_BL", "RAM_A", "RAM_B", "INCSP", "DECSP",
         "PUSHA", "POPA", "PEEKA", "PUSHB", "POPB", "PEEKB", "PEEKAR", "PUSHAR", "SUM", "SUB", "SHL",
         "AND", "SHR", "CMPA", "CMPB", "JMP", "JMPR", "JMPA", "JMPAR", "A_B", "B_A", "B_AH", "A_SP",
         "SP_A", "A_SEC", "SEC_A", "AL_rB", "A_rB", "rB_AL", "rB_A", "RAM_NDX", "INCNDX", "NDX_A",
         "A_NDX", "MEM_A", "MEM_AH", "A_MEM", "CALL", "CALLR", "RET", "KEY_A", "DRW", "RAM_DRW"}
  BY DEF Body
<1>2. CASE i = "NOP"
  <2>1. Body["NOP"] = << >>
    BY DEF Body
  <2>2. Regular(<< >>)
    BY DEF Regular, Parts
  <2>3. ASSUME NEW run, NEW last, Executed(run, "NOP", << >>, last)
        PROVE  Instructions!Next
    <3>1. last = 2
      BY <2>3 DEF Executed
    <3> QED BY <2>3, <3>1, Does_NOP
  <2>4. \A k \in 1 .. 0 : Single(<< >>[k])
    BY DEF Single, Outputs
  <2>5. Len(<< >>) = 0
    OBVIOUS
  <2> QED BY <1>2, <2>1, <2>2, <2>3, <2>4, <2>5
<1>3. CASE i = "INCA"
  <2>1. Body["INCA"] = << {"Ao", "Yi"}, {"Xi"}, {"Ci", "ALUo", "Ai"} >>
    BY DEF Body, Increment
  <2>2. Regular(<< {"Ao", "Yi"}, {"Xi"}, {"Ci", "ALUo", "Ai"} >>)
    BY DEF Regular, Parts
  <2>3. ASSUME NEW run, NEW last, Executed(run, "INCA", << {"Ao", "Yi"}, {"Xi"}, {"Ci", "ALUo", "Ai"} >>, last)
        PROVE  Instructions!Next
    <3>1. last = 5
      BY <2>3 DEF Executed
    <3> QED BY <2>3, <3>1, Does_INCA
  <2>4. \A k \in 1 .. 3 : Single(<< {"Ao", "Yi"}, {"Xi"}, {"Ci", "ALUo", "Ai"} >>[k])
    BY DEF Single, Outputs
  <2>5. Len(<< {"Ao", "Yi"}, {"Xi"}, {"Ci", "ALUo", "Ai"} >>) = 3
    OBVIOUS
  <2> QED BY <1>3, <2>1, <2>2, <2>3, <2>4, <2>5
<1>4. CASE i = "INCB"
  <2>1. Body["INCB"] = << {"Bo", "Yi"}, {"Xi"}, {"Ci", "ALUo", "Bi"} >>
    BY DEF Body, Increment
  <2>2. Regular(<< {"Bo", "Yi"}, {"Xi"}, {"Ci", "ALUo", "Bi"} >>)
    BY DEF Regular, Parts
  <2>3. ASSUME NEW run, NEW last, Executed(run, "INCB", << {"Bo", "Yi"}, {"Xi"}, {"Ci", "ALUo", "Bi"} >>, last)
        PROVE  Instructions!Next
    <3>1. last = 5
      BY <2>3 DEF Executed
    <3> QED BY <2>3, <3>1, Does_INCB
  <2>4. \A k \in 1 .. 3 : Single(<< {"Bo", "Yi"}, {"Xi"}, {"Ci", "ALUo", "Bi"} >>[k])
    BY DEF Single, Outputs
  <2>5. Len(<< {"Bo", "Yi"}, {"Xi"}, {"Ci", "ALUo", "Bi"} >>) = 3
    OBVIOUS
  <2> QED BY <1>4, <2>1, <2>2, <2>3, <2>4, <2>5
<1>5. CASE i = "DECA"
  <2>1. Body["DECA"] = << {"Ao", "Yi"}, {"Xi"}, {"_SUB", "ALUo", "Ai"} >>
    BY DEF Body
  <2>2. Regular(<< {"Ao", "Yi"}, {"Xi"}, {"_SUB", "ALUo", "Ai"} >>)
    BY DEF Regular, Parts
  <2>3. ASSUME NEW run, NEW last, Executed(run, "DECA", << {"Ao", "Yi"}, {"Xi"}, {"_SUB", "ALUo", "Ai"} >>, last)
        PROVE  Instructions!Next
    <3>1. last = 5
      BY <2>3 DEF Executed
    <3> QED BY <2>3, <3>1, Does_DECA
  <2>4. \A k \in 1 .. 3 : Single(<< {"Ao", "Yi"}, {"Xi"}, {"_SUB", "ALUo", "Ai"} >>[k])
    BY DEF Single, Outputs
  <2>5. Len(<< {"Ao", "Yi"}, {"Xi"}, {"_SUB", "ALUo", "Ai"} >>) = 3
    OBVIOUS
  <2> QED BY <1>5, <2>1, <2>2, <2>3, <2>4, <2>5
<1>6. CASE i = "RAM_AL"
  <2>1. Body["RAM_AL"] = << {"IPo", "MARi"}, {"RAM", "RAMo", "Ai", "IPp"} >>
    BY DEF Body, Argument
  <2>2. Regular(<< {"IPo", "MARi"}, {"RAM", "RAMo", "Ai", "IPp"} >>)
    BY DEF Regular, Parts
  <2>3. ASSUME NEW run, NEW last, Executed(run, "RAM_AL", << {"IPo", "MARi"}, {"RAM", "RAMo", "Ai", "IPp"} >>, last)
        PROVE  Instructions!Next
    <3>1. last = 4
      BY <2>3 DEF Executed
    <3> QED BY <2>3, <3>1, Does_RAM_AL
  <2>4. \A k \in 1 .. 2 : Single(<< {"IPo", "MARi"}, {"RAM", "RAMo", "Ai", "IPp"} >>[k])
    BY DEF Single, Outputs
  <2>5. Len(<< {"IPo", "MARi"}, {"RAM", "RAMo", "Ai", "IPp"} >>) = 2
    OBVIOUS
  <2> QED BY <1>6, <2>1, <2>2, <2>3, <2>4, <2>5
<1>7. CASE i = "RAM_BL"
  <2>1. Body["RAM_BL"] = << {"IPo", "MARi"}, {"RAM", "RAMo", "Bi", "IPp"} >>
    BY DEF Body, Argument
  <2>2. Regular(<< {"IPo", "MARi"}, {"RAM", "RAMo", "Bi", "IPp"} >>)
    BY DEF Regular, Parts
  <2>3. ASSUME NEW run, NEW last, Executed(run, "RAM_BL", << {"IPo", "MARi"}, {"RAM", "RAMo", "Bi", "IPp"} >>, last)
        PROVE  Instructions!Next
    <3>1. last = 4
      BY <2>3 DEF Executed
    <3> QED BY <2>3, <3>1, Does_RAM_BL
  <2>4. \A k \in 1 .. 2 : Single(<< {"IPo", "MARi"}, {"RAM", "RAMo", "Bi", "IPp"} >>[k])
    BY DEF Single, Outputs
  <2>5. Len(<< {"IPo", "MARi"}, {"RAM", "RAMo", "Bi", "IPp"} >>) = 2
    OBVIOUS
  <2> QED BY <1>7, <2>1, <2>2, <2>3, <2>4, <2>5
<1>8. CASE i = "RAM_A"
  <2>1. Body["RAM_A"] = << {"IPo", "MARi"}, {"RAM", "RAMo", "RAM16", "Ai", "IPp"}, {"IPp"} >>
    BY DEF Body, WideArgument
  <2>2. Regular(<< {"IPo", "MARi"}, {"RAM", "RAMo", "RAM16", "Ai", "IPp"}, {"IPp"} >>)
    BY DEF Regular, Parts
  <2>3. ASSUME NEW run, NEW last, Executed(run, "RAM_A", << {"IPo", "MARi"}, {"RAM", "RAMo", "RAM16", "Ai", "IPp"}, {"IPp"} >>, last)
        PROVE  Instructions!Next
    <3>1. last = 5
      BY <2>3 DEF Executed
    <3> QED BY <2>3, <3>1, Does_RAM_A
  <2>4. \A k \in 1 .. 3 : Single(<< {"IPo", "MARi"}, {"RAM", "RAMo", "RAM16", "Ai", "IPp"}, {"IPp"} >>[k])
    BY DEF Single, Outputs
  <2>5. Len(<< {"IPo", "MARi"}, {"RAM", "RAMo", "RAM16", "Ai", "IPp"}, {"IPp"} >>) = 3
    OBVIOUS
  <2> QED BY <1>8, <2>1, <2>2, <2>3, <2>4, <2>5
<1>9. CASE i = "RAM_B"
  <2>1. Body["RAM_B"] = << {"IPo", "MARi"}, {"RAM", "RAMo", "RAM16", "Bi", "IPp"}, {"IPp"} >>
    BY DEF Body, WideArgument
  <2>2. Regular(<< {"IPo", "MARi"}, {"RAM", "RAMo", "RAM16", "Bi", "IPp"}, {"IPp"} >>)
    BY DEF Regular, Parts
  <2>3. ASSUME NEW run, NEW last, Executed(run, "RAM_B", << {"IPo", "MARi"}, {"RAM", "RAMo", "RAM16", "Bi", "IPp"}, {"IPp"} >>, last)
        PROVE  Instructions!Next
    <3>1. last = 5
      BY <2>3 DEF Executed
    <3> QED BY <2>3, <3>1, Does_RAM_B
  <2>4. \A k \in 1 .. 3 : Single(<< {"IPo", "MARi"}, {"RAM", "RAMo", "RAM16", "Bi", "IPp"}, {"IPp"} >>[k])
    BY DEF Single, Outputs
  <2>5. Len(<< {"IPo", "MARi"}, {"RAM", "RAMo", "RAM16", "Bi", "IPp"}, {"IPp"} >>) = 3
    OBVIOUS
  <2> QED BY <1>9, <2>1, <2>2, <2>3, <2>4, <2>5
<1>10. CASE i = "INCSP"
  <2>1. Body["INCSP"] = << {"SPu"} >>
    BY DEF Body
  <2>2. Regular(<< {"SPu"} >>)
    BY DEF Regular, Parts
  <2>3. ASSUME NEW run, NEW last, Executed(run, "INCSP", << {"SPu"} >>, last)
        PROVE  Instructions!Next
    <3>1. last = 3
      BY <2>3 DEF Executed
    <3> QED BY <2>3, <3>1, Does_INCSP
  <2>4. \A k \in 1 .. 1 : Single(<< {"SPu"} >>[k])
    BY DEF Single, Outputs
  <2>5. Len(<< {"SPu"} >>) = 1
    OBVIOUS
  <2> QED BY <1>10, <2>1, <2>2, <2>3, <2>4, <2>5
<1>11. CASE i = "DECSP"
  <2>1. Body["DECSP"] = << {"SPu", "SPm"} >>
    BY DEF Body
  <2>2. Regular(<< {"SPu", "SPm"} >>)
    BY DEF Regular, Parts
  <2>3. ASSUME NEW run, NEW last, Executed(run, "DECSP", << {"SPu", "SPm"} >>, last)
        PROVE  Instructions!Next
    <3>1. last = 3
      BY <2>3 DEF Executed
    <3> QED BY <2>3, <3>1, Does_DECSP
  <2>4. \A k \in 1 .. 1 : Single(<< {"SPu", "SPm"} >>[k])
    BY DEF Single, Outputs
  <2>5. Len(<< {"SPu", "SPm"} >>) = 1
    OBVIOUS
  <2> QED BY <1>11, <2>1, <2>2, <2>3, <2>4, <2>5
<1>12. CASE i = "PUSHA"
  <2>1. Body["PUSHA"] = << {"SPo", "MARi"}, {"Ao", "RAM", "RAM16", "SPu", "SPm"} >>
    BY DEF Body, Push
  <2>2. Regular(<< {"SPo", "MARi"}, {"Ao", "RAM", "RAM16", "SPu", "SPm"} >>)
    BY DEF Regular, Parts
  <2>3. ASSUME NEW run, NEW last, Executed(run, "PUSHA", << {"SPo", "MARi"}, {"Ao", "RAM", "RAM16", "SPu", "SPm"} >>, last)
        PROVE  Instructions!Next
    <3>1. last = 4
      BY <2>3 DEF Executed
    <3> QED BY <2>3, <3>1, Does_PUSHA
  <2>4. \A k \in 1 .. 2 : Single(<< {"SPo", "MARi"}, {"Ao", "RAM", "RAM16", "SPu", "SPm"} >>[k])
    BY DEF Single, Outputs
  <2>5. Len(<< {"SPo", "MARi"}, {"Ao", "RAM", "RAM16", "SPu", "SPm"} >>) = 2
    OBVIOUS
  <2> QED BY <1>12, <2>1, <2>2, <2>3, <2>4, <2>5
<1>13. CASE i = "POPA"
  <2>1. Body["POPA"] = << {"SPu"}, {"SPo", "MARi"}, {"RAM", "RAMo", "RAM16", "Ai"} >>
    BY DEF Body, Pop
  <2>2. Regular(<< {"SPu"}, {"SPo", "MARi"}, {"RAM", "RAMo", "RAM16", "Ai"} >>)
    BY DEF Regular, Parts
  <2>3. ASSUME NEW run, NEW last, Executed(run, "POPA", << {"SPu"}, {"SPo", "MARi"}, {"RAM", "RAMo", "RAM16", "Ai"} >>, last)
        PROVE  Instructions!Next
    <3>1. last = 5
      BY <2>3 DEF Executed
    <3> QED BY <2>3, <3>1, Does_POPA
  <2>4. \A k \in 1 .. 3 : Single(<< {"SPu"}, {"SPo", "MARi"}, {"RAM", "RAMo", "RAM16", "Ai"} >>[k])
    BY DEF Single, Outputs
  <2>5. Len(<< {"SPu"}, {"SPo", "MARi"}, {"RAM", "RAMo", "RAM16", "Ai"} >>) = 3
    OBVIOUS
  <2> QED BY <1>13, <2>1, <2>2, <2>3, <2>4, <2>5
<1>14. CASE i = "PEEKA"
  <2>1. Body["PEEKA"] = << {"SPu"}, {"SPo", "MARi"}, {"RAM", "RAMo", "RAM16", "Ai", "SPu", "SPm"} >>
    BY DEF Body, Peek
  <2>2. Regular(<< {"SPu"}, {"SPo", "MARi"}, {"RAM", "RAMo", "RAM16", "Ai", "SPu", "SPm"} >>)
    BY DEF Regular, Parts
  <2>3. ASSUME NEW run, NEW last, Executed(run, "PEEKA", << {"SPu"}, {"SPo", "MARi"}, {"RAM", "RAMo", "RAM16", "Ai", "SPu", "SPm"} >>, last)
        PROVE  Instructions!Next
    <3>1. last = 5
      BY <2>3 DEF Executed
    <3> QED BY <2>3, <3>1, Does_PEEKA
  <2>4. \A k \in 1 .. 3 : Single(<< {"SPu"}, {"SPo", "MARi"}, {"RAM", "RAMo", "RAM16", "Ai", "SPu", "SPm"} >>[k])
    BY DEF Single, Outputs
  <2>5. Len(<< {"SPu"}, {"SPo", "MARi"}, {"RAM", "RAMo", "RAM16", "Ai", "SPu", "SPm"} >>) = 3
    OBVIOUS
  <2> QED BY <1>14, <2>1, <2>2, <2>3, <2>4, <2>5
<1>15. CASE i = "PUSHB"
  <2>1. Body["PUSHB"] = << {"SPo", "MARi"}, {"Bo", "RAM", "RAM16", "SPu", "SPm"} >>
    BY DEF Body, Push
  <2>2. Regular(<< {"SPo", "MARi"}, {"Bo", "RAM", "RAM16", "SPu", "SPm"} >>)
    BY DEF Regular, Parts
  <2>3. ASSUME NEW run, NEW last, Executed(run, "PUSHB", << {"SPo", "MARi"}, {"Bo", "RAM", "RAM16", "SPu", "SPm"} >>, last)
        PROVE  Instructions!Next
    <3>1. last = 4
      BY <2>3 DEF Executed
    <3> QED BY <2>3, <3>1, Does_PUSHB
  <2>4. \A k \in 1 .. 2 : Single(<< {"SPo", "MARi"}, {"Bo", "RAM", "RAM16", "SPu", "SPm"} >>[k])
    BY DEF Single, Outputs
  <2>5. Len(<< {"SPo", "MARi"}, {"Bo", "RAM", "RAM16", "SPu", "SPm"} >>) = 2
    OBVIOUS
  <2> QED BY <1>15, <2>1, <2>2, <2>3, <2>4, <2>5
<1>16. CASE i = "POPB"
  <2>1. Body["POPB"] = << {"SPu"}, {"SPo", "MARi"}, {"RAM", "RAMo", "RAM16", "Bi"} >>
    BY DEF Body, Pop
  <2>2. Regular(<< {"SPu"}, {"SPo", "MARi"}, {"RAM", "RAMo", "RAM16", "Bi"} >>)
    BY DEF Regular, Parts
  <2>3. ASSUME NEW run, NEW last, Executed(run, "POPB", << {"SPu"}, {"SPo", "MARi"}, {"RAM", "RAMo", "RAM16", "Bi"} >>, last)
        PROVE  Instructions!Next
    <3>1. last = 5
      BY <2>3 DEF Executed
    <3> QED BY <2>3, <3>1, Does_POPB
  <2>4. \A k \in 1 .. 3 : Single(<< {"SPu"}, {"SPo", "MARi"}, {"RAM", "RAMo", "RAM16", "Bi"} >>[k])
    BY DEF Single, Outputs
  <2>5. Len(<< {"SPu"}, {"SPo", "MARi"}, {"RAM", "RAMo", "RAM16", "Bi"} >>) = 3
    OBVIOUS
  <2> QED BY <1>16, <2>1, <2>2, <2>3, <2>4, <2>5
<1>17. CASE i = "PEEKB"
  <2>1. Body["PEEKB"] = << {"SPu"}, {"SPo", "MARi"}, {"RAM", "RAMo", "RAM16", "Bi", "SPu", "SPm"} >>
    BY DEF Body, Peek
  <2>2. Regular(<< {"SPu"}, {"SPo", "MARi"}, {"RAM", "RAMo", "RAM16", "Bi", "SPu", "SPm"} >>)
    BY DEF Regular, Parts
  <2>3. ASSUME NEW run, NEW last, Executed(run, "PEEKB", << {"SPu"}, {"SPo", "MARi"}, {"RAM", "RAMo", "RAM16", "Bi", "SPu", "SPm"} >>, last)
        PROVE  Instructions!Next
    <3>1. last = 5
      BY <2>3 DEF Executed
    <3> QED BY <2>3, <3>1, Does_PEEKB
  <2>4. \A k \in 1 .. 3 : Single(<< {"SPu"}, {"SPo", "MARi"}, {"RAM", "RAMo", "RAM16", "Bi", "SPu", "SPm"} >>[k])
    BY DEF Single, Outputs
  <2>5. Len(<< {"SPu"}, {"SPo", "MARi"}, {"RAM", "RAMo", "RAM16", "Bi", "SPu", "SPm"} >>) = 3
    OBVIOUS
  <2> QED BY <1>17, <2>1, <2>2, <2>3, <2>4, <2>5, Zenon
<1>18. CASE i = "PEEKAR"
  <2>1. Body["PEEKAR"] = << {"IPo", "MARi"}, {"RAM", "RAMo", "Yi", "IPp"}, {"SPo", "Xi"}, {"ALUo", "MARi"}, {"RAM", "RAMo", "RAM16", "Ai"} >>
    BY DEF Body, AtOffset
  <2>2. Regular(<< {"IPo", "MARi"}, {"RAM", "RAMo", "Yi", "IPp"}, {"SPo", "Xi"}, {"ALUo", "MARi"}, {"RAM", "RAMo", "RAM16", "Ai"} >>)
    BY DEF Regular, Parts
  <2>3. ASSUME NEW run, NEW last, Executed(run, "PEEKAR", << {"IPo", "MARi"}, {"RAM", "RAMo", "Yi", "IPp"}, {"SPo", "Xi"}, {"ALUo", "MARi"}, {"RAM", "RAMo", "RAM16", "Ai"} >>, last)
        PROVE  Instructions!Next
    <3>1. last = 7
      BY <2>3 DEF Executed
    <3> QED BY <2>3, <3>1, Does_PEEKAR
  <2>4. \A k \in 1 .. 5 : Single(<< {"IPo", "MARi"}, {"RAM", "RAMo", "Yi", "IPp"}, {"SPo", "Xi"}, {"ALUo", "MARi"}, {"RAM", "RAMo", "RAM16", "Ai"} >>[k])
    BY DEF Single, Outputs
  <2>5. Len(<< {"IPo", "MARi"}, {"RAM", "RAMo", "Yi", "IPp"}, {"SPo", "Xi"}, {"ALUo", "MARi"}, {"RAM", "RAMo", "RAM16", "Ai"} >>) = 5
    OBVIOUS
  <2> QED BY <1>18, <2>1, <2>2, <2>3, <2>4, <2>5, Zenon
<1>19. CASE i = "PUSHAR"
  <2>1. Body["PUSHAR"] = << {"IPo", "MARi"}, {"RAM", "RAMo", "Yi", "IPp"}, {"SPo", "Xi"}, {"ALUo", "MARi"}, {"Ao", "RAM", "RAM16"} >>
    BY DEF Body, AtOffset
  <2>2. Regular(<< {"IPo", "MARi"}, {"RAM", "RAMo", "Yi", "IPp"}, {"SPo", "Xi"}, {"ALUo", "MARi"}, {"Ao", "RAM", "RAM16"} >>)
    BY DEF Regular, Parts
  <2>3. ASSUME NEW run, NEW last, Executed(run, "PUSHAR", << {"IPo", "MARi"}, {"RAM", "RAMo", "Yi", "IPp"}, {"SPo", "Xi"}, {"ALUo", "MARi"}, {"Ao", "RAM", "RAM16"} >>, last)
        PROVE  Instructions!Next
    <3>1. last = 7
      BY <2>3 DEF Executed
    <3> QED BY <2>3, <3>1, Does_PUSHAR
  <2>4. \A k \in 1 .. 5 : Single(<< {"IPo", "MARi"}, {"RAM", "RAMo", "Yi", "IPp"}, {"SPo", "Xi"}, {"ALUo", "MARi"}, {"Ao", "RAM", "RAM16"} >>[k])
    BY DEF Single, Outputs
  <2>5. Len(<< {"IPo", "MARi"}, {"RAM", "RAMo", "Yi", "IPp"}, {"SPo", "Xi"}, {"ALUo", "MARi"}, {"Ao", "RAM", "RAM16"} >>) = 5
    OBVIOUS
  <2> QED BY <1>19, <2>1, <2>2, <2>3, <2>4, <2>5, Zenon
<1>20. CASE i = "SUM"
  <2>1. Body["SUM"] = << {"Ao", "Xi"}, {"Bo", "Yi"}, {"ALUo", "Ai"} >>
    BY DEF Body, Combine
  <2>2. Regular(<< {"Ao", "Xi"}, {"Bo", "Yi"}, {"ALUo", "Ai"} >>)
    BY DEF Regular, Parts
  <2>3. ASSUME NEW run, NEW last, Executed(run, "SUM", << {"Ao", "Xi"}, {"Bo", "Yi"}, {"ALUo", "Ai"} >>, last)
        PROVE  Instructions!Next
    <3>1. last = 5
      BY <2>3 DEF Executed
    <3> QED BY <2>3, <3>1, Does_SUM
  <2>4. \A k \in 1 .. 3 : Single(<< {"Ao", "Xi"}, {"Bo", "Yi"}, {"ALUo", "Ai"} >>[k])
    BY DEF Single, Outputs
  <2>5. Len(<< {"Ao", "Xi"}, {"Bo", "Yi"}, {"ALUo", "Ai"} >>) = 3
    OBVIOUS
  <2> QED BY <1>20, <2>1, <2>2, <2>3, <2>4, <2>5
<1>21. CASE i = "SUB"
  <2>1. Body["SUB"] = << {"Ao", "Xi"}, {"Bo", "Yi"}, {"_SUB", "Ci", "ALUo", "Ai"} >>
    BY DEF Body, Subtraction, Combine
  <2>2. Regular(<< {"Ao", "Xi"}, {"Bo", "Yi"}, {"_SUB", "Ci", "ALUo", "Ai"} >>)
    BY DEF Regular, Parts
  <2>3. ASSUME NEW run, NEW last, Executed(run, "SUB", << {"Ao", "Xi"}, {"Bo", "Yi"}, {"_SUB", "Ci", "ALUo", "Ai"} >>, last)
        PROVE  Instructions!Next
    <3>1. last = 5
      BY <2>3 DEF Executed
    <3> QED BY <2>3, <3>1, Does_SUB
  <2>4. \A k \in 1 .. 3 : Single(<< {"Ao", "Xi"}, {"Bo", "Yi"}, {"_SUB", "Ci", "ALUo", "Ai"} >>[k])
    BY DEF Single, Outputs
  <2>5. Len(<< {"Ao", "Xi"}, {"Bo", "Yi"}, {"_SUB", "Ci", "ALUo", "Ai"} >>) = 3
    OBVIOUS
  <2> QED BY <1>21, <2>1, <2>2, <2>3, <2>4, <2>5, Zenon
<1>22. CASE i = "SHL"
  <2>1. Body["SHL"] = << {"Ao", "Xi"}, {"Ao", "Yi"}, {"ALUo", "Ai"} >>
    BY DEF Body, Combine
  <2>2. Regular(<< {"Ao", "Xi"}, {"Ao", "Yi"}, {"ALUo", "Ai"} >>)
    BY DEF Regular, Parts
  <2>3. ASSUME NEW run, NEW last, Executed(run, "SHL", << {"Ao", "Xi"}, {"Ao", "Yi"}, {"ALUo", "Ai"} >>, last)
        PROVE  Instructions!Next
    <3>1. last = 5
      BY <2>3 DEF Executed
    <3> QED BY <2>3, <3>1, Does_SHL
  <2>4. \A k \in 1 .. 3 : Single(<< {"Ao", "Xi"}, {"Ao", "Yi"}, {"ALUo", "Ai"} >>[k])
    BY DEF Single, Outputs
  <2>5. Len(<< {"Ao", "Xi"}, {"Ao", "Yi"}, {"ALUo", "Ai"} >>) = 3
    OBVIOUS
  <2> QED BY <1>22, <2>1, <2>2, <2>3, <2>4, <2>5
<1>23. CASE i = "AND"
  <2>1. Body["AND"] = << {"Ao", "Xi"}, {"Bo", "Yi"}, {"_AND", "ALUo", "Ai"} >>
    BY DEF Body, Combine
  <2>2. Regular(<< {"Ao", "Xi"}, {"Bo", "Yi"}, {"_AND", "ALUo", "Ai"} >>)
    BY DEF Regular, Parts
  <2>3. ASSUME NEW run, NEW last, Executed(run, "AND", << {"Ao", "Xi"}, {"Bo", "Yi"}, {"_AND", "ALUo", "Ai"} >>, last)
        PROVE  Instructions!Next
    <3>1. last = 5
      BY <2>3 DEF Executed
    <3> QED BY <2>3, <3>1, Does_AND
  <2>4. \A k \in 1 .. 3 : Single(<< {"Ao", "Xi"}, {"Bo", "Yi"}, {"_AND", "ALUo", "Ai"} >>[k])
    BY DEF Single, Outputs
  <2>5. Len(<< {"Ao", "Xi"}, {"Bo", "Yi"}, {"_AND", "ALUo", "Ai"} >>) = 3
    OBVIOUS
  <2> QED BY <1>23, <2>1, <2>2, <2>3, <2>4, <2>5
<1>24. CASE i = "SHR"
  <2>1. Body["SHR"] = << {"Ao", "Xi"}, {"ALUo", "_SHR", "Ai"} >>
    BY DEF Body
  <2>2. Regular(<< {"Ao", "Xi"}, {"ALUo", "_SHR", "Ai"} >>)
    BY DEF Regular, Parts
  <2>3. ASSUME NEW run, NEW last, Executed(run, "SHR", << {"Ao", "Xi"}, {"ALUo", "_SHR", "Ai"} >>, last)
        PROVE  Instructions!Next
    <3>1. last = 4
      BY <2>3 DEF Executed
    <3> QED BY <2>3, <3>1, Does_SHR
  <2>4. \A k \in 1 .. 2 : Single(<< {"Ao", "Xi"}, {"ALUo", "_SHR", "Ai"} >>[k])
    BY DEF Single, Outputs
  <2>5. Len(<< {"Ao", "Xi"}, {"ALUo", "_SHR", "Ai"} >>) = 2
    OBVIOUS
  <2> QED BY <1>24, <2>1, <2>2, <2>3, <2>4, <2>5
<1>25. CASE i = "CMPA"
  <2>1. Body["CMPA"] = << {"Ao", "Xi"}, {"Yi"}, {"ALUo"} >>
    BY DEF Body, Compare
  <2>2. Regular(<< {"Ao", "Xi"}, {"Yi"}, {"ALUo"} >>)
    BY DEF Regular, Parts
  <2>3. ASSUME NEW run, NEW last, Executed(run, "CMPA", << {"Ao", "Xi"}, {"Yi"}, {"ALUo"} >>, last)
        PROVE  Instructions!Next
    <3>1. last = 5
      BY <2>3 DEF Executed
    <3> QED BY <2>3, <3>1, Does_CMPA
  <2>4. \A k \in 1 .. 3 : Single(<< {"Ao", "Xi"}, {"Yi"}, {"ALUo"} >>[k])
    BY DEF Single, Outputs
  <2>5. Len(<< {"Ao", "Xi"}, {"Yi"}, {"ALUo"} >>) = 3
    OBVIOUS
  <2> QED BY <1>25, <2>1, <2>2, <2>3, <2>4, <2>5
<1>26. CASE i = "CMPB"
  <2>1. Body["CMPB"] = << {"Bo", "Xi"}, {"Yi"}, {"ALUo"} >>
    BY DEF Body, Compare
  <2>2. Regular(<< {"Bo", "Xi"}, {"Yi"}, {"ALUo"} >>)
    BY DEF Regular, Parts
  <2>3. ASSUME NEW run, NEW last, Executed(run, "CMPB", << {"Bo", "Xi"}, {"Yi"}, {"ALUo"} >>, last)
        PROVE  Instructions!Next
    <3>1. last = 5
      BY <2>3 DEF Executed
    <3> QED BY <2>3, <3>1, Does_CMPB
  <2>4. \A k \in 1 .. 3 : Single(<< {"Bo", "Xi"}, {"Yi"}, {"ALUo"} >>[k])
    BY DEF Single, Outputs
  <2>5. Len(<< {"Bo", "Xi"}, {"Yi"}, {"ALUo"} >>) = 3
    OBVIOUS
  <2> QED BY <1>26, <2>1, <2>2, <2>3, <2>4, <2>5
<1>27. CASE i = "JMP"
  <2>1. Body["JMP"] = << {"IPo", "MARi"}, {"RAM", "RAMo", "RAM16", "IPi"} >>
    BY DEF Body
  <2>2. Regular(<< {"IPo", "MARi"}, {"RAM", "RAMo", "RAM16", "IPi"} >>)
    BY DEF Regular, Parts
  <2>3. ASSUME NEW run, NEW last, Executed(run, "JMP", << {"IPo", "MARi"}, {"RAM", "RAMo", "RAM16", "IPi"} >>, last)
        PROVE  Instructions!Next
    <3>1. last = 4
      BY <2>3 DEF Executed
    <3> QED BY <2>3, <3>1, Does_JMP
  <2>4. \A k \in 1 .. 2 : Single(<< {"IPo", "MARi"}, {"RAM", "RAMo", "RAM16", "IPi"} >>[k])
    BY DEF Single, Outputs
  <2>5. Len(<< {"IPo", "MARi"}, {"RAM", "RAMo", "RAM16", "IPi"} >>) = 2
    OBVIOUS
  <2> QED BY <1>27, <2>1, <2>2, <2>3, <2>4, <2>5
<1>28. CASE i = "JMPR"
  <2>1. Body["JMPR"] = << {"IPo", "MARi", "Yi"}, {"RAM", "RAMo", "RAM16", "Xi"}, {"ALUo", "IPi"} >>
    BY DEF Body, Relative
  <2>2. Regular(<< {"IPo", "MARi", "Yi"}, {"RAM", "RAMo", "RAM16", "Xi"}, {"ALUo", "IPi"} >>)
    BY DEF Regular, Parts
  <2>3. ASSUME NEW run, NEW last, Executed(run, "JMPR", << {"IPo", "MARi", "Yi"}, {"RAM", "RAMo", "RAM16", "Xi"}, {"ALUo", "IPi"} >>, last)
        PROVE  Instructions!Next
    <3>1. last = 5
      BY <2>3 DEF Executed
    <3> QED BY <2>3, <3>1, Does_JMPR
  <2>4. \A k \in 1 .. 3 : Single(<< {"IPo", "MARi", "Yi"}, {"RAM", "RAMo", "RAM16", "Xi"}, {"ALUo", "IPi"} >>[k])
    BY DEF Single, Outputs
  <2>5. Len(<< {"IPo", "MARi", "Yi"}, {"RAM", "RAMo", "RAM16", "Xi"}, {"ALUo", "IPi"} >>) = 3
    OBVIOUS
  <2> QED BY <1>28, <2>1, <2>2, <2>3, <2>4, <2>5
<1>29. CASE i = "JMPA"
  <2>1. Body["JMPA"] = << {"Ao", "IPi"} >>
    BY DEF Body
  <2>2. Regular(<< {"Ao", "IPi"} >>)
    BY DEF Regular, Parts
  <2>3. ASSUME NEW run, NEW last, Executed(run, "JMPA", << {"Ao", "IPi"} >>, last)
        PROVE  Instructions!Next
    <3>1. last = 3
      BY <2>3 DEF Executed
    <3> QED BY <2>3, <3>1, Does_JMPA
  <2>4. \A k \in 1 .. 1 : Single(<< {"Ao", "IPi"} >>[k])
    BY DEF Single, Outputs
  <2>5. Len(<< {"Ao", "IPi"} >>) = 1
    OBVIOUS
  <2> QED BY <1>29, <2>1, <2>2, <2>3, <2>4, <2>5
<1>30. CASE i = "JMPAR"
  <2>1. Body["JMPAR"] = << {"IPo", "MARi", "Yi"}, {"Ao", "Xi"}, {"ALUo", "IPi"} >>
    BY DEF Body
  <2>2. Regular(<< {"IPo", "MARi", "Yi"}, {"Ao", "Xi"}, {"ALUo", "IPi"} >>)
    BY DEF Regular, Parts
  <2>3. ASSUME NEW run, NEW last, Executed(run, "JMPAR", << {"IPo", "MARi", "Yi"}, {"Ao", "Xi"}, {"ALUo", "IPi"} >>, last)
        PROVE  Instructions!Next
    <3>1. last = 5
      BY <2>3 DEF Executed
    <3> QED BY <2>3, <3>1, Does_JMPAR
  <2>4. \A k \in 1 .. 3 : Single(<< {"IPo", "MARi", "Yi"}, {"Ao", "Xi"}, {"ALUo", "IPi"} >>[k])
    BY DEF Single, Outputs
  <2>5. Len(<< {"IPo", "MARi", "Yi"}, {"Ao", "Xi"}, {"ALUo", "IPi"} >>) = 3
    OBVIOUS
  <2> QED BY <1>30, <2>1, <2>2, <2>3, <2>4, <2>5
<1>31. CASE i = "A_B"
  <2>1. Body["A_B"] = << {"Ao", "Bi"} >>
    BY DEF Body, Move
  <2>2. Regular(<< {"Ao", "Bi"} >>)
    BY DEF Regular, Parts
  <2>3. ASSUME NEW run, NEW last, Executed(run, "A_B", << {"Ao", "Bi"} >>, last)
        PROVE  Instructions!Next
    <3>1. last = 3
      BY <2>3 DEF Executed
    <3> QED BY <2>3, <3>1, Does_A_B
  <2>4. \A k \in 1 .. 1 : Single(<< {"Ao", "Bi"} >>[k])
    BY DEF Single, Outputs
  <2>5. Len(<< {"Ao", "Bi"} >>) = 1
    OBVIOUS
  <2> QED BY <1>31, <2>1, <2>2, <2>3, <2>4, <2>5
<1>32. CASE i = "B_A"
  <2>1. Body["B_A"] = << {"Bo", "Ai"} >>
    BY DEF Body, Move
  <2>2. Regular(<< {"Bo", "Ai"} >>)
    BY DEF Regular, Parts
  <2>3. ASSUME NEW run, NEW last, Executed(run, "B_A", << {"Bo", "Ai"} >>, last)
        PROVE  Instructions!Next
    <3>1. last = 3
      BY <2>3 DEF Executed
    <3> QED BY <2>3, <3>1, Does_B_A
  <2>4. \A k \in 1 .. 1 : Single(<< {"Bo", "Ai"} >>[k])
    BY DEF Single, Outputs
  <2>5. Len(<< {"Bo", "Ai"} >>) = 1
    OBVIOUS
  <2> QED BY <1>32, <2>1, <2>2, <2>3, <2>4, <2>5
<1>33. CASE i = "B_AH"
  <2>1. Body["B_AH"] = << {"Bo", "AHi"} >>
    BY DEF Body, Move
  <2>2. Regular(<< {"Bo", "AHi"} >>)
    BY DEF Regular, Parts
  <2>3. ASSUME NEW run, NEW last, Executed(run, "B_AH", << {"Bo", "AHi"} >>, last)
        PROVE  Instructions!Next
    <3>1. last = 3
      BY <2>3 DEF Executed
    <3> QED BY <2>3, <3>1, Does_B_AH
  <2>4. \A k \in 1 .. 1 : Single(<< {"Bo", "AHi"} >>[k])
    BY DEF Single, Outputs
  <2>5. Len(<< {"Bo", "AHi"} >>) = 1
    OBVIOUS
  <2> QED BY <1>33, <2>1, <2>2, <2>3, <2>4, <2>5
<1>34. CASE i = "A_SP"
  <2>1. Body["A_SP"] = << {"Ao", "SPi"} >>
    BY DEF Body, Move
  <2>2. Regular(<< {"Ao", "SPi"} >>)
    BY DEF Regular, Parts
  <2>3. ASSUME NEW run, NEW last, Executed(run, "A_SP", << {"Ao", "SPi"} >>, last)
        PROVE  Instructions!Next
    <3>1. last = 3
      BY <2>3 DEF Executed
    <3> QED BY <2>3, <3>1, Does_A_SP
  <2>4. \A k \in 1 .. 1 : Single(<< {"Ao", "SPi"} >>[k])
    BY DEF Single, Outputs
  <2>5. Len(<< {"Ao", "SPi"} >>) = 1
    OBVIOUS
  <2> QED BY <1>34, <2>1, <2>2, <2>3, <2>4, <2>5
<1>35. CASE i = "SP_A"
  <2>1. Body["SP_A"] = << {"SPo", "Ai"} >>
    BY DEF Body, Move
  <2>2. Regular(<< {"SPo", "Ai"} >>)
    BY DEF Regular, Parts
  <2>3. ASSUME NEW run, NEW last, Executed(run, "SP_A", << {"SPo", "Ai"} >>, last)
        PROVE  Instructions!Next
    <3>1. last = 3
      BY <2>3 DEF Executed
    <3> QED BY <2>3, <3>1, Does_SP_A
  <2>4. \A k \in 1 .. 1 : Single(<< {"SPo", "Ai"} >>[k])
    BY DEF Single, Outputs
  <2>5. Len(<< {"SPo", "Ai"} >>) = 1
    OBVIOUS
  <2> QED BY <1>35, <2>1, <2>2, <2>3, <2>4, <2>5
<1>36. CASE i = "A_SEC"
  <2>1. Body["A_SEC"] = << {"Ao", "SECi"} >>
    BY DEF Body, Move
  <2>2. Regular(<< {"Ao", "SECi"} >>)
    BY DEF Regular, Parts
  <2>3. ASSUME NEW run, NEW last, Executed(run, "A_SEC", << {"Ao", "SECi"} >>, last)
        PROVE  Instructions!Next
    <3>1. last = 3
      BY <2>3 DEF Executed
    <3> QED BY <2>3, <3>1, Does_A_SEC
  <2>4. \A k \in 1 .. 1 : Single(<< {"Ao", "SECi"} >>[k])
    BY DEF Single, Outputs
  <2>5. Len(<< {"Ao", "SECi"} >>) = 1
    OBVIOUS
  <2> QED BY <1>36, <2>1, <2>2, <2>3, <2>4, <2>5
<1>37. CASE i = "SEC_A"
  <2>1. Body["SEC_A"] = << {"SECo", "Ai"} >>
    BY DEF Body, Move
  <2>2. Regular(<< {"SECo", "Ai"} >>)
    BY DEF Regular, Parts
  <2>3. ASSUME NEW run, NEW last, Executed(run, "SEC_A", << {"SECo", "Ai"} >>, last)
        PROVE  Instructions!Next
    <3>1. last = 3
      BY <2>3 DEF Executed
    <3> QED BY <2>3, <3>1, Does_SEC_A
  <2>4. \A k \in 1 .. 1 : Single(<< {"SECo", "Ai"} >>[k])
    BY DEF Single, Outputs
  <2>5. Len(<< {"SECo", "Ai"} >>) = 1
    OBVIOUS
  <2> QED BY <1>37, <2>1, <2>2, <2>3, <2>4, <2>5
<1>38. CASE i = "AL_rB"
  <2>1. Body["AL_rB"] = << {"Bo", "MARi"}, {"Ao", "RAM"} >>
    BY DEF Body, AtB
  <2>2. Regular(<< {"Bo", "MARi"}, {"Ao", "RAM"} >>)
    BY DEF Regular, Parts
  <2>3. ASSUME NEW run, NEW last, Executed(run, "AL_rB", << {"Bo", "MARi"}, {"Ao", "RAM"} >>, last)
        PROVE  Instructions!Next
    <3>1. last = 4
      BY <2>3 DEF Executed
    <3> QED BY <2>3, <3>1, Does_AL_rB
  <2>4. \A k \in 1 .. 2 : Single(<< {"Bo", "MARi"}, {"Ao", "RAM"} >>[k])
    BY DEF Single, Outputs
  <2>5. Len(<< {"Bo", "MARi"}, {"Ao", "RAM"} >>) = 2
    OBVIOUS
  <2> QED BY <1>38, <2>1, <2>2, <2>3, <2>4, <2>5
<1>39. CASE i = "A_rB"
  <2>1. Body["A_rB"] = << {"Bo", "MARi"}, {"Ao", "RAM", "RAM16"} >>
    BY DEF Body, AtB
  <2>2. Regular(<< {"Bo", "MARi"}, {"Ao", "RAM", "RAM16"} >>)
    BY DEF Regular, Parts
  <2>3. ASSUME NEW run, NEW last, Executed(run, "A_rB", << {"Bo", "MARi"}, {"Ao", "RAM", "RAM16"} >>, last)
        PROVE  Instructions!Next
    <3>1. last = 4
      BY <2>3 DEF Executed
    <3> QED BY <2>3, <3>1, Does_A_rB
  <2>4. \A k \in 1 .. 2 : Single(<< {"Bo", "MARi"}, {"Ao", "RAM", "RAM16"} >>[k])
    BY DEF Single, Outputs
  <2>5. Len(<< {"Bo", "MARi"}, {"Ao", "RAM", "RAM16"} >>) = 2
    OBVIOUS
  <2> QED BY <1>39, <2>1, <2>2, <2>3, <2>4, <2>5
<1>40. CASE i = "rB_AL"
  <2>1. Body["rB_AL"] = << {"Bo", "MARi"}, {"RAM", "RAMo", "Ai"} >>
    BY DEF Body, AtB
  <2>2. Regular(<< {"Bo", "MARi"}, {"RAM", "RAMo", "Ai"} >>)
    BY DEF Regular, Parts
  <2>3. ASSUME NEW run, NEW last, Executed(run, "rB_AL", << {"Bo", "MARi"}, {"RAM", "RAMo", "Ai"} >>, last)
        PROVE  Instructions!Next
    <3>1. last = 4
      BY <2>3 DEF Executed
    <3> QED BY <2>3, <3>1, Does_rB_AL
  <2>4. \A k \in 1 .. 2 : Single(<< {"Bo", "MARi"}, {"RAM", "RAMo", "Ai"} >>[k])
    BY DEF Single, Outputs
  <2>5. Len(<< {"Bo", "MARi"}, {"RAM", "RAMo", "Ai"} >>) = 2
    OBVIOUS
  <2> QED BY <1>40, <2>1, <2>2, <2>3, <2>4, <2>5
<1>41. CASE i = "rB_A"
  <2>1. Body["rB_A"] = << {"Bo", "MARi"}, {"RAM", "RAMo", "RAM16", "Ai"} >>
    BY DEF Body, AtB
  <2>2. Regular(<< {"Bo", "MARi"}, {"RAM", "RAMo", "RAM16", "Ai"} >>)
    BY DEF Regular, Parts
  <2>3. ASSUME NEW run, NEW last, Executed(run, "rB_A", << {"Bo", "MARi"}, {"RAM", "RAMo", "RAM16", "Ai"} >>, last)
        PROVE  Instructions!Next
    <3>1. last = 4
      BY <2>3 DEF Executed
    <3> QED BY <2>3, <3>1, Does_rB_A
  <2>4. \A k \in 1 .. 2 : Single(<< {"Bo", "MARi"}, {"RAM", "RAMo", "RAM16", "Ai"} >>[k])
    BY DEF Single, Outputs
  <2>5. Len(<< {"Bo", "MARi"}, {"RAM", "RAMo", "RAM16", "Ai"} >>) = 2
    OBVIOUS
  <2> QED BY <1>41, <2>1, <2>2, <2>3, <2>4, <2>5
<1>42. CASE i = "RAM_NDX"
  <2>1. Body["RAM_NDX"] = << {"IPo", "MARi"}, {"RAM", "RAMo", "NDXi", "IPp"} >>
    BY DEF Body, Argument
  <2>2. Regular(<< {"IPo", "MARi"}, {"RAM", "RAMo", "NDXi", "IPp"} >>)
    BY DEF Regular, Parts
  <2>3. ASSUME NEW run, NEW last, Executed(run, "RAM_NDX", << {"IPo", "MARi"}, {"RAM", "RAMo", "NDXi", "IPp"} >>, last)
        PROVE  Instructions!Next
    <3>1. last = 4
      BY <2>3 DEF Executed
    <3> QED BY <2>3, <3>1, Does_RAM_NDX
  <2>4. \A k \in 1 .. 2 : Single(<< {"IPo", "MARi"}, {"RAM", "RAMo", "NDXi", "IPp"} >>[k])
    BY DEF Single, Outputs
  <2>5. Len(<< {"IPo", "MARi"}, {"RAM", "RAMo", "NDXi", "IPp"} >>) = 2
    OBVIOUS
  <2> QED BY <1>42, <2>1, <2>2, <2>3, <2>4, <2>5
<1>43. CASE i = "INCNDX"
  <2>1. Body["INCNDX"] = << {"NDXo", "Yi"}, {"Xi"}, {"Ci", "ALUo", "NDXi"} >>
    BY DEF Body, Increment
  <2>2. Regular(<< {"NDXo", "Yi"}, {"Xi"}, {"Ci", "ALUo", "NDXi"} >>)
    BY DEF Regular, Parts
  <2>3. ASSUME NEW run, NEW last, Executed(run, "INCNDX", << {"NDXo", "Yi"}, {"Xi"}, {"Ci", "ALUo", "NDXi"} >>, last)
        PROVE  Instructions!Next
    <3>1. last = 5
      BY <2>3 DEF Executed
    <3> QED BY <2>3, <3>1, Does_INCNDX
  <2>4. \A k \in 1 .. 3 : Single(<< {"NDXo", "Yi"}, {"Xi"}, {"Ci", "ALUo", "NDXi"} >>[k])
    BY DEF Single, Outputs
  <2>5. Len(<< {"NDXo", "Yi"}, {"Xi"}, {"Ci", "ALUo", "NDXi"} >>) = 3
    OBVIOUS
  <2> QED BY <1>43, <2>1, <2>2, <2>3, <2>4, <2>5
<1>44. CASE i = "NDX_A"
  <2>1. Body["NDX_A"] = << {"NDXo", "Ai"} >>
    BY DEF Body, Move
  <2>2. Regular(<< {"NDXo", "Ai"} >>)
    BY DEF Regular, Parts
  <2>3. ASSUME NEW run, NEW last, Executed(run, "NDX_A", << {"NDXo", "Ai"} >>, last)
        PROVE  Instructions!Next
    <3>1. last = 3
      BY <2>3 DEF Executed
    <3> QED BY <2>3, <3>1, Does_NDX_A
  <2>4. \A k \in 1 .. 1 : Single(<< {"NDXo", "Ai"} >>[k])
    BY DEF Single, Outputs
  <2>5. Len(<< {"NDXo", "Ai"} >>) = 1
    OBVIOUS
  <2> QED BY <1>44, <2>1, <2>2, <2>3, <2>4, <2>5
<1>45. CASE i = "A_NDX"
  <2>1. Body["A_NDX"] = << {"Ao", "NDXi"} >>
    BY DEF Body, Move
  <2>2. Regular(<< {"Ao", "NDXi"} >>)
    BY DEF Regular, Parts
  <2>3. ASSUME NEW run, NEW last, Executed(run, "A_NDX", << {"Ao", "NDXi"} >>, last)
        PROVE  Instructions!Next
    <3>1. last = 3
      BY <2>3 DEF Executed
    <3> QED BY <2>3, <3>1, Does_A_NDX
  <2>4. \A k \in 1 .. 1 : Single(<< {"Ao", "NDXi"} >>[k])
    BY DEF Single, Outputs
  <2>5. Len(<< {"Ao", "NDXi"} >>) = 1
    OBVIOUS
  <2> QED BY <1>45, <2>1, <2>2, <2>3, <2>4, <2>5
<1>46. CASE i = "MEM_A"
  <2>1. Body["MEM_A"] = << {"MEMo", "Ai"} >>
    BY DEF Body, Move
  <2>2. Regular(<< {"MEMo", "Ai"} >>)
    BY DEF Regular, Parts
  <2>3. ASSUME NEW run, NEW last, Executed(run, "MEM_A", << {"MEMo", "Ai"} >>, last)
        PROVE  Instructions!Next
    <3>1. last = 3
      BY <2>3 DEF Executed
    <3> QED BY <2>3, <3>1, Does_MEM_A
  <2>4. \A k \in 1 .. 1 : Single(<< {"MEMo", "Ai"} >>[k])
    BY DEF Single, Outputs
  <2>5. Len(<< {"MEMo", "Ai"} >>) = 1
    OBVIOUS
  <2> QED BY <1>46, <2>1, <2>2, <2>3, <2>4, <2>5
<1>47. CASE i = "MEM_AH"
  <2>1. Body["MEM_AH"] = << {"MEMo", "AHi"} >>
    BY DEF Body, Move
  <2>2. Regular(<< {"MEMo", "AHi"} >>)
    BY DEF Regular, Parts
  <2>3. ASSUME NEW run, NEW last, Executed(run, "MEM_AH", << {"MEMo", "AHi"} >>, last)
        PROVE  Instructions!Next
    <3>1. last = 3
      BY <2>3 DEF Executed
    <3> QED BY <2>3, <3>1, Does_MEM_AH
  <2>4. \A k \in 1 .. 1 : Single(<< {"MEMo", "AHi"} >>[k])
    BY DEF Single, Outputs
  <2>5. Len(<< {"MEMo", "AHi"} >>) = 1
    OBVIOUS
  <2> QED BY <1>47, <2>1, <2>2, <2>3, <2>4, <2>5
<1>48. CASE i = "A_MEM"
  <2>1. Body["A_MEM"] = << {"Ao", "MEMi"} >>
    BY DEF Body, Move
  <2>2. Regular(<< {"Ao", "MEMi"} >>)
    BY DEF Regular, Parts
  <2>3. ASSUME NEW run, NEW last, Executed(run, "A_MEM", << {"Ao", "MEMi"} >>, last)
        PROVE  Instructions!Next
    <3>1. last = 3
      BY <2>3 DEF Executed
    <3> QED BY <2>3, <3>1, Does_A_MEM
  <2>4. \A k \in 1 .. 1 : Single(<< {"Ao", "MEMi"} >>[k])
    BY DEF Single, Outputs
  <2>5. Len(<< {"Ao", "MEMi"} >>) = 1
    OBVIOUS
  <2> QED BY <1>48, <2>1, <2>2, <2>3, <2>4, <2>5
<1>49. CASE i = "CALL"
  <2>1. Body["CALL"] = << {"SPo", "MARi"}, {"IPo", "RAM", "RAM16", "SPu", "SPm"}, {"IPo", "MARi"}, {"RAM", "RAMo", "RAM16", "IPi"} >>
    BY DEF Body
  <2>2. Regular(<< {"SPo", "MARi"}, {"IPo", "RAM", "RAM16", "SPu", "SPm"}, {"IPo", "MARi"}, {"RAM", "RAMo", "RAM16", "IPi"} >>)
    BY DEF Regular, Parts
  <2>3. ASSUME NEW run, NEW last, Executed(run, "CALL", << {"SPo", "MARi"}, {"IPo", "RAM", "RAM16", "SPu", "SPm"}, {"IPo", "MARi"}, {"RAM", "RAMo", "RAM16", "IPi"} >>, last)
        PROVE  Instructions!Next
    <3>1. last = 6
      BY <2>3 DEF Executed
    <3> QED BY <2>3, <3>1, Does_CALL
  <2>4. \A k \in 1 .. 4 : Single(<< {"SPo", "MARi"}, {"IPo", "RAM", "RAM16", "SPu", "SPm"}, {"IPo", "MARi"}, {"RAM", "RAMo", "RAM16", "IPi"} >>[k])
    BY DEF Single, Outputs
  <2>5. Len(<< {"SPo", "MARi"}, {"IPo", "RAM", "RAM16", "SPu", "SPm"}, {"IPo", "MARi"}, {"RAM", "RAMo", "RAM16", "IPi"} >>) = 4
    OBVIOUS
  <2> QED BY <1>49, <2>1, <2>2, <2>3, <2>4, <2>5
<1>50. CASE i = "CALLR"
  <2>1. Body["CALLR"] = << {"SPo", "MARi"}, {"IPo", "RAM", "RAM16", "SPu", "SPm"}, {"IPo", "MARi", "Yi"}, {"RAM", "RAMo", "RAM16", "Xi"}, {"ALUo", "IPi"} >>
    BY DEF Body
  <2>2. Regular(<< {"SPo", "MARi"}, {"IPo", "RAM", "RAM16", "SPu", "SPm"}, {"IPo", "MARi", "Yi"}, {"RAM", "RAMo", "RAM16", "Xi"}, {"ALUo", "IPi"} >>)
    BY DEF Regular, Parts
  <2>3. ASSUME NEW run, NEW last, Executed(run, "CALLR", << {"SPo", "MARi"}, {"IPo", "RAM", "RAM16", "SPu", "SPm"}, {"IPo", "MARi", "Yi"}, {"RAM", "RAMo", "RAM16", "Xi"}, {"ALUo", "IPi"} >>, last)
        PROVE  Instructions!Next
    <3>1. last = 7
      BY <2>3 DEF Executed
    <3> QED BY <2>3, <3>1, Does_CALLR
  <2>4. \A k \in 1 .. 5 : Single(<< {"SPo", "MARi"}, {"IPo", "RAM", "RAM16", "SPu", "SPm"}, {"IPo", "MARi", "Yi"}, {"RAM", "RAMo", "RAM16", "Xi"}, {"ALUo", "IPi"} >>[k])
    BY DEF Single, Outputs
  <2>5. Len(<< {"SPo", "MARi"}, {"IPo", "RAM", "RAM16", "SPu", "SPm"}, {"IPo", "MARi", "Yi"}, {"RAM", "RAMo", "RAM16", "Xi"}, {"ALUo", "IPi"} >>) = 5
    OBVIOUS
  <2> QED BY <1>50, <2>1, <2>2, <2>3, <2>4, <2>5, Zenon
<1>51. CASE i = "RET"
  <2>1. Body["RET"] = << {"SPu"}, {"SPo", "MARi"}, {"RAM", "RAMo", "RAM16", "IPi"}, {"IPp"}, {"IPp"} >>
    BY DEF Body
  <2>2. Regular(<< {"SPu"}, {"SPo", "MARi"}, {"RAM", "RAMo", "RAM16", "IPi"}, {"IPp"}, {"IPp"} >>)
    BY DEF Regular, Parts
  <2>3. ASSUME NEW run, NEW last, Executed(run, "RET", << {"SPu"}, {"SPo", "MARi"}, {"RAM", "RAMo", "RAM16", "IPi"}, {"IPp"}, {"IPp"} >>, last)
        PROVE  Instructions!Next
    <3>1. last = 7
      BY <2>3 DEF Executed
    <3> QED BY <2>3, <3>1, Does_RET
  <2>4. \A k \in 1 .. 5 : Single(<< {"SPu"}, {"SPo", "MARi"}, {"RAM", "RAMo", "RAM16", "IPi"}, {"IPp"}, {"IPp"} >>[k])
    BY DEF Single, Outputs
  <2>5. Len(<< {"SPu"}, {"SPo", "MARi"}, {"RAM", "RAMo", "RAM16", "IPi"}, {"IPp"}, {"IPp"} >>) = 5
    OBVIOUS
  <2> QED BY <1>51, <2>1, <2>2, <2>3, <2>4, <2>5, Zenon
<1>52. CASE i = "KEY_A"
  <2>1. Body["KEY_A"] = << {"KEYo", "Ai"} >>
    BY DEF Body, Move
  <2>2. Regular(<< {"KEYo", "Ai"} >>)
    BY DEF Regular, Parts
  <2>3. ASSUME NEW run, NEW last, Executed(run, "KEY_A", << {"KEYo", "Ai"} >>, last)
        PROVE  Instructions!Next
    <3>1. last = 3
      BY <2>3 DEF Executed
    <3> QED BY <2>3, <3>1, Does_KEY_A
  <2>4. \A k \in 1 .. 1 : Single(<< {"KEYo", "Ai"} >>[k])
    BY DEF Single, Outputs
  <2>5. Len(<< {"KEYo", "Ai"} >>) = 1
    OBVIOUS
  <2> QED BY <1>52, <2>1, <2>2, <2>3, <2>4, <2>5
<1>53. CASE i = "DRW"
  <2>1. Body["DRW"] = << {"Bo", "GPUAi"}, {"Ao", "GPUi"} >>
    BY DEF Body
  <2>2. Regular(<< {"Bo", "GPUAi"}, {"Ao", "GPUi"} >>)
    BY DEF Regular, Parts
  <2>3. ASSUME NEW run, NEW last, Executed(run, "DRW", << {"Bo", "GPUAi"}, {"Ao", "GPUi"} >>, last)
        PROVE  Instructions!Next
    <3>1. last = 4
      BY <2>3 DEF Executed
    <3> QED BY <2>3, <3>1, Does_DRW
  <2>4. \A k \in 1 .. 2 : Single(<< {"Bo", "GPUAi"}, {"Ao", "GPUi"} >>[k])
    BY DEF Single, Outputs
  <2>5. Len(<< {"Bo", "GPUAi"}, {"Ao", "GPUi"} >>) = 2
    OBVIOUS
  <2> QED BY <1>53, <2>1, <2>2, <2>3, <2>4, <2>5
<1>54. CASE i = "RAM_DRW"
  <2>1. Body["RAM_DRW"] = << {"Bo", "GPUAi"}, {"IPo", "MARi"}, {"RAM", "RAMo", "GPUi", "IPp"} >>
    BY DEF Body
  <2>2. Regular(<< {"Bo", "GPUAi"}, {"IPo", "MARi"}, {"RAM", "RAMo", "GPUi", "IPp"} >>)
    BY DEF Regular, Parts
  <2>3. ASSUME NEW run, NEW last, Executed(run, "RAM_DRW", << {"Bo", "GPUAi"}, {"IPo", "MARi"}, {"RAM", "RAMo", "GPUi", "IPp"} >>, last)
        PROVE  Instructions!Next
    <3>1. last = 5
      BY <2>3 DEF Executed
    <3> QED BY <2>3, <3>1, Does_RAM_DRW
  <2>4. \A k \in 1 .. 3 : Single(<< {"Bo", "GPUAi"}, {"IPo", "MARi"}, {"RAM", "RAMo", "GPUi", "IPp"} >>[k])
    BY DEF Single, Outputs
  <2>5. Len(<< {"Bo", "GPUAi"}, {"IPo", "MARi"}, {"RAM", "RAMo", "GPUi", "IPp"} >>) = 3
    OBVIOUS
  <2> QED BY <1>54, <2>1, <2>2, <2>3, <2>4, <2>5
<1> QED BY <1>1, <1>2, <1>3, <1>4, <1>5, <1>6, <1>7, <1>8, <1>9, <1>10, <1>11, <1>12, <1>13, <1>14, <1>15, <1>16, <1>17, <1>18, <1>19, <1>20, <1>21, <1>22, <1>23, <1>24, <1>25, <1>26, <1>27, <1>28, <1>29, <1>30, <1>31, <1>32, <1>33, <1>34, <1>35, <1>36, <1>37, <1>38, <1>39, <1>40, <1>41, <1>42, <1>43, <1>44, <1>45, <1>46, <1>47, <1>48, <1>49, <1>50, <1>51, <1>52, <1>53, <1>54

\* The kinds of instructions a run may be of.
LEMMA FetchedNow ==
  ASSUME NEW run, NEW now \in 2 .. 15, History(run, now), committed = Seen(run[0])
  PROVE  Fetched(run, InstructionOf(run[2].IR))
         /\ InstructionOf(run[2].IR) \in DOMAIN Body \cup Conditionals \cup {"none", "HLT"}
<1>1. now \in 0 .. 15 /\ now >= 2
  OBVIOUS
<1>2. run[1] = Micro(run[0], {"IPo", "MARi"}) /\ run[2] = Micro(run[1], {"RAM", "RAMo", "IRi", "IPp"})
  BY <1>1, HistoryFetches
<1>3. Fetched(run, InstructionOf(run[2].IR))
  BY <1>2 DEF Fetched, History
<1>4. run[2].IR \in Uint8
  <2>1. run[2] \in States
    BY DEF History
  <2> QED BY <2>1 DEF States
<1> QED BY <1>3, <1>4, Opcodes

\* The course of an instruction with microcode of its own, whose table entry is Body[i].
LEMMA BodyCourse ==
  ASSUME NEW run, NEW now \in 2 .. 15, History(run, now), NEW i \in DOMAIN Body, InstructionOf(run[2].IR) = i
  PROVE  /\ run[now].IR = run[2].IR /\ now <= 7 /\ Len(Body[i]) + 2 \in {2, 3, 4, 5, 6, 7}
         /\ \/ now # Len(Body[i]) + 2 /\ Looked(run[now], now) \cap Ending = {}
            \/ now = Len(Body[i]) + 2 /\ Looked(run[now], now) = {"SCr"} /\ Runs(run, Body[i])
<1> DEFINE steps == Body[i]
<1> DEFINE last == Len(steps) + 2
<1>1. Regular(steps) /\ \A f : StepsOf(i, f) = Append(steps, {"SCr"})
  BY Performs, Codes, Zenon
<1>2. last \in {2, 3, 4, 5, 6, 7}
  <2>1. Len(steps) \in {0, 1, 2, 3, 4, 5}
    BY <1>1 DEF Regular
  <2> DEFINE length == Len(steps)
  <2>2. length \in {0, 1, 2, 3, 4, 5}
    BY <2>1
  <2> HIDE DEF length
  <2>3. length + 2 \in {2, 3, 4, 5, 6, 7}
    BY ONLY <2>2
  <2> QED BY <2>3 DEF length
<1>3. last = Len(steps) + 2
  OBVIOUS
<1> HIDE DEF steps, last
<1>4. /\ now <= last /\ run[now].IR = run[2].IR
      /\ now < last => Looked(run[now], now) \cap Ending = {}
      /\ now = last => Looked(run[now], now) = {"SCr"} /\ Runs(run, steps)
  BY <1>1, <1>3, Course, Zenon
<1>5. now < last \/ now = last
  BY <1>2, <1>4
<1>6. now <= 7 /\ (now < last => now # last)
  BY <1>2, <1>4
<1> QED BY <1>2, <1>4, <1>5, <1>6 DEF steps, last

\* A run ends only at a reset of the step counter or in its last tick.
LEMMA EndingWord ==
  ASSUME NEW run, NEW now \in 0 .. 15, History(run, now), committed = Seen(run[0]),
         "SCr" \in Looked(run[now], now) \/ (now = 15 /\ "_HLT" \notin Looked(run[now], now))
  PROVE  now \in 2 .. 15 /\ Looked(run[now], now) \in {{}, {"SCr"}}
<1>1. now \in 2 .. 15
  <2>1. now < 2 => Looked(run[now], now) \cap Ending = {}
    BY HistoryFetches
  <2>2. now < 2 => now # 15
    OBVIOUS
  <2>3. ~(now < 2)
    BY <2>1, <2>2 DEF Ending
  <2> QED BY <2>3
<1>2. InstructionOf(run[2].IR) \in DOMAIN Body \cup Conditionals \cup {"none", "HLT"}
  BY <1>1, FetchedNow
<1>3. CASE InstructionOf(run[2].IR) \in DOMAIN Body
  <2>1. now # 15
    BY <1>1, <1>3, BodyCourse
  <2>2. Looked(run[now], now) \cap Ending = {} \/ Looked(run[now], now) = {"SCr"}
    BY <1>1, <1>3, BodyCourse, Zenon
  <2> QED BY <1>1, <2>1, <2>2 DEF Ending
<1>4. CASE InstructionOf(run[2].IR) \in Conditionals
  <2>1. CASE Holds(InstructionOf(run[2].IR), run[2].FR)
    <3>1. /\ now < 5 => Looked(run[now], now) \cap Ending = {}
          /\ now >= 5 => Looked(run[now], now) \in {{}, {"SCr"}}
      BY <1>1, <1>4, <2>1, JumpCourse, Zenon
    <3>2. now < 5 \/ now >= 5
      OBVIOUS
    <3>3. now = 15 => ~(now < 5)
      OBVIOUS
    <3> QED BY <1>1, <3>1, <3>2, <3>3 DEF Ending
  <2>2. CASE ~Holds(InstructionOf(run[2].IR), run[2].FR)
    <3>1. now <= 4 /\ (now < 4 => Looked(run[now], now) \cap Ending = {}) /\ (now = 4 => Looked(run[now], now) = {"SCr"})
      BY <1>1, <1>4, <2>2, SkipCourse
    <3>2. now # 15 /\ (now < 4 \/ now = 4)
      BY <3>1
    <3> QED BY <1>1, <3>1, <3>2 DEF Ending
  <2> QED BY <2>1, <2>2
<1>5. CASE InstructionOf(run[2].IR) = "none"
  BY <1>1, <1>5, NoneCourse, Zenon
<1>6. CASE InstructionOf(run[2].IR) = "HLT"
  <2>1. now = 2 /\ Looked(run[now], now) = {"_HLT"}
    BY <1>1, <1>6, HaltCourse, Zenon
  <2>2. now # 15
    BY <2>1
  <2> QED BY <2>1, <2>2
<1> QED BY <1>2, <1>3, <1>4, <1>5, <1>6

\* Only HLT halts the machine.
LEMMA HaltingWord ==
  ASSUME NEW run, NEW now \in 0 .. 15, History(run, now), committed = Seen(run[0]), "_HLT" \in Looked(run[now], now)
  PROVE  now = 2 /\ Looked(run[now], now) = {"_HLT"} /\ Fetched(run, "HLT")
<1>1. now \in 2 .. 15
  <2>1. now < 2 => Looked(run[now], now) \cap Ending = {}
    BY HistoryFetches
  <2>3. ~(now < 2)
    BY <2>1 DEF Ending
  <2> QED BY <2>3
<1>2. InstructionOf(run[2].IR) \in DOMAIN Body \cup Conditionals \cup {"none", "HLT"}
      /\ Fetched(run, InstructionOf(run[2].IR))
  BY <1>1, FetchedNow
<1>3. InstructionOf(run[2].IR) \notin DOMAIN Body
  <2> SUFFICES ASSUME InstructionOf(run[2].IR) \in DOMAIN Body PROVE FALSE
    OBVIOUS
  <2>2. Looked(run[now], now) \cap Ending = {} \/ Looked(run[now], now) = {"SCr"}
    BY <1>1, BodyCourse, Zenon
  <2> QED BY <2>2 DEF Ending
<1>4. InstructionOf(run[2].IR) \notin Conditionals
  <2> SUFFICES ASSUME InstructionOf(run[2].IR) \in Conditionals PROVE FALSE
    OBVIOUS
  <2>1. CASE Holds(InstructionOf(run[2].IR), run[2].FR)
    <3>1. /\ now < 5 => Looked(run[now], now) \cap Ending = {}
          /\ now >= 5 => Looked(run[now], now) \in {{}, {"SCr"}}
      BY <1>1, <2>1, JumpCourse, Zenon
    <3>2. now < 5 \/ now >= 5
      OBVIOUS
    <3> QED BY <3>1, <3>2 DEF Ending
  <2>2. CASE ~Holds(InstructionOf(run[2].IR), run[2].FR)
    <3>1. now <= 4 /\ (now < 4 => Looked(run[now], now) \cap Ending = {}) /\ (now = 4 => Looked(run[now], now) = {"SCr"})
      BY <1>1, <2>2, SkipCourse, Zenon
    <3>2. now < 4 \/ now = 4
      BY <3>1
    <3> QED BY <3>1, <3>2 DEF Ending
  <2> QED BY <2>1, <2>2
<1>5. InstructionOf(run[2].IR) # "none"
  <2> SUFFICES ASSUME InstructionOf(run[2].IR) = "none" PROVE FALSE
    OBVIOUS
  <2> QED BY <1>1, NoneCourse, Zenon
<1>6. InstructionOf(run[2].IR) = "HLT"
  BY <1>2, <1>3, <1>4, <1>5
<1> QED BY <1>1, <1>2, <1>6, HaltCourse

\* At its end an instruction has done what the instruction set says.
LEMMA EndingStep ==
  ASSUME NEW run, NEW now \in 0 .. 15, History(run, now), committed = Seen(run[0]), committed' = Seen(run[now]),
         "SCr" \in Looked(run[now], now) \/ (now = 15 /\ "_HLT" \notin Looked(run[now], now))
  PROVE  Instructions!Next
<1>1. now \in 2 .. 15 /\ Looked(run[now], now) \in {{}, {"SCr"}}
  BY EndingWord, Zenon
<1> DEFINE i == InstructionOf(run[2].IR)
<1>2. i \in DOMAIN Body \cup Conditionals \cup {"none", "HLT"} /\ Fetched(run, i)
  BY <1>1, FetchedNow
<1>a. i = InstructionOf(run[2].IR)
  OBVIOUS
<1> HIDE DEF i
<1>3. CASE i \in DOMAIN Body
  <2>1. Len(Body[i]) + 2 \in {2, 3, 4, 5, 6, 7} /\ now <= 7
        /\ \/ now # Len(Body[i]) + 2 /\ Looked(run[now], now) \cap Ending = {}
           \/ now = Len(Body[i]) + 2 /\ Looked(run[now], now) = {"SCr"} /\ Runs(run, Body[i])
    BY <1>1, <1>3, <1>a, BodyCourse, SMTT(30)
  <2>2. now # 15
    BY <2>1
  <2>3. now = Len(Body[i]) + 2 /\ Runs(run, Body[i])
    BY <2>1, <2>2 DEF Ending
  <2>4. Len(Body[i]) \in Nat
    <3>1. Regular(Body[i])
      BY <1>3, Performs
    <3> QED BY <3>1 DEF Regular
  <2>5. now \in {2, 3, 4, 5, 6, 7} /\ Len(Body[i]) = now - 2
    BY <2>1, <2>3, <2>4
  <2>6. Executed(run, i, Body[i], now)
    BY <1>2, <2>3, <2>5 DEF Executed
  <2> QED BY <1>3, <2>6, Performs
<1>4. CASE i \in Conditionals
  <2>1. committed.FR = run[2].FR
    BY <1>2, FetchedFields
  <2>2. CASE Holds(i, run[2].FR)
    <3>1. /\ now < 5 => Looked(run[now], now) \cap Ending = {}
          /\ now >= 5 => run[now] = run[5] /\ Runs(run, Relative)
      BY <1>1, <1>4, <1>a, <2>2, JumpCourse
    <3>2. now = 15 => now >= 5
      OBVIOUS
    <3>3. now < 5 \/ now >= 5
      OBVIOUS
    <3>4. run[now] = run[5] /\ Runs(run, Relative)
      BY <3>1, <3>2, <3>3 DEF Ending
    <3>5. Len(Relative) = 5 - 2
      BY DEF Relative
    <3>6. Executed(run, i, Relative, 5)
      BY <1>2, <3>4, <3>5 DEF Executed
    <3> QED BY <1>4, <2>1, <2>2, <3>6, Does_Jump
  <2>3. CASE ~Holds(i, run[2].FR)
    <3>1. now <= 4 /\ (now < 4 => Looked(run[now], now) \cap Ending = {}) /\ (now = 4 => Runs(run, SkipArgument))
      BY <1>1, <1>4, <1>a, <2>3, SkipCourse
    <3>2. now # 15 /\ (now < 4 \/ now = 4)
      BY <3>1
    <3>3. now = 4 /\ Runs(run, SkipArgument)
      BY <3>1, <3>2 DEF Ending
    <3>4. Len(SkipArgument) = 4 - 2
      BY DEF SkipArgument
    <3>5. Executed(run, i, SkipArgument, 4)
      BY <1>2, <3>3, <3>4 DEF Executed
    <3> QED BY <1>4, <2>1, <2>3, <3>5, Does_NotJump
  <2> QED BY <2>2, <2>3
<1>5. CASE i = "none"
  <2>1. run[now] = run[2]
    BY <1>1, <1>5, <1>a, NoneCourse
  <2>2. Len(<< >>) = 2 - 2 /\ Runs(run, << >>)
    BY DEF Runs
  <2>3. Executed(run, "none", << >>, 2)
    BY <1>2, <1>5, <2>1, <2>2 DEF Executed
  <2> QED BY <2>3, Does_none
<1>6. CASE i = "HLT"
  <2>1. now = 2 /\ Looked(run[now], now) = {"_HLT"}
    BY <1>1, <1>6, <1>a, HaltCourse
  <2> QED BY <1>1, <2>1
<1> QED BY <1>2, <1>3, <1>4, <1>5, <1>6

\* Only jumps on a condition and opcodes without microcode take more than 8 ticks.
LEMMA InTime ==
  ASSUME NEW run, NEW now \in 0 .. 15, History(run, now), committed = Seen(run[0]), now > 7
  PROVE  InstructionOf(run[now].IR) \in Conditionals \cup {"none"}
<1>1. now \in 2 .. 15 /\ now >= 5 /\ now # 2 /\ ~(now <= 4) /\ ~(now <= 7)
  OBVIOUS
<1>2. InstructionOf(run[2].IR) \in DOMAIN Body \cup Conditionals \cup {"none", "HLT"}
  BY <1>1, FetchedNow
<1>3. InstructionOf(run[2].IR) \notin DOMAIN Body
  BY <1>1, BodyCourse
<1>4. InstructionOf(run[2].IR) # "HLT"
  BY <1>1, HaltCourse
<1>5. CASE InstructionOf(run[2].IR) \in Conditionals
  <2>1. Holds(InstructionOf(run[2].IR), run[2].FR)
    BY <1>1, <1>5, SkipCourse
  <2>2. run[now].IR = run[2].IR
    BY <1>1, <1>5, <2>1, JumpCourse
  <2> QED BY <1>5, <2>2
<1>6. CASE InstructionOf(run[2].IR) = "none"
  BY <1>1, <1>6, NoneCourse
<1> QED BY <1>2, <1>3, <1>4, <1>5, <1>6

\* The word of a tick depends on IR, the flags and the step counter alone.
LEMMA Lookup == Microcode = Looked(Machine, SC)
BY DEF Microcode, Looked, Machine

\* While the machine is not halted programs see its record.
LEMMA VisibleIsSeen ==
  /\ sim # "halted" => Visible = Seen(Machine)
  /\ sim' # "halted" => Visible' = Seen(Machine')
<1>1. sim # "halted" => Visible = Seen(Machine)
  BY Zenon DEF Visible, Seen, Machine
<1>2. sim' # "halted" => Visible' = Seen(Machine')
  BY Zenon DEF Visible, Seen, Machine
<1> QED BY <1>1, <1>2

\* States that differ in halted alone.
LEMMA OnlyHalted ==
  ASSUME NEW c \in Visibles, NEW d \in Visibles, \A f \in VisibleFields \ {"halted"} : c[f] = d[f],
         NEW h \in BOOLEAN, c.halted = h
  PROVE  c = [d EXCEPT !.halted = h]
BY DEF Visibles, VisibleFields

\* A record is seen as not halted.
LEMMA SeenRuns == ASSUME NEW s \in States PROVE [Seen(s) EXCEPT !.halted = FALSE] = Seen(s)
<1>1. Seen(s) \in Visibles /\ Seen(s).halted = FALSE
  BY SeenType DEF Seen
<1> QED BY <1>1, OnlyHalted, Zenon

\* A machine started again is seen as its record.
LEMMA SeenAgain == ASSUME Machine \in States PROVE [Visible EXCEPT !.halted = FALSE] = Seen(Machine)
<1>1. Visible \in Visibles
  BY DEF Visible, Machine, States, Visibles
<1>2. Seen(Machine) \in Visibles /\ Seen(Machine).halted = FALSE
  BY SeenType DEF Seen
<1>3. \A f \in VisibleFields \ {"halted"} : Seen(Machine)[f] = Visible[f]
  BY DEF VisibleFields, Visible, Seen, Machine
<1> QED BY <1>1, <1>2, <1>3, OnlyHalted, Zenon

\* A halted machine is seen as its record, but halted.
LEMMA SeenHalted ==
  ASSUME Machine' \in States, sim' = "halted"
  PROVE  Visible' = [Seen(Machine') EXCEPT !.halted = TRUE]
<1>1. Visible' \in Visibles
  BY DEF Visible, Machine, States, Visibles
<1>2. Seen(Machine') \in Visibles
  BY SeenType
<1>3. Visible'.halted = TRUE
  BY Zenon DEF Visible
<1>4. \A f \in VisibleFields \ {"halted"} : Visible'[f] = Seen(Machine')[f]
  BY DEF VisibleFields, Visible, Seen, Machine
<1> QED BY <1>1, <1>2, <1>3, <1>4, OnlyHalted, Zenon

\* The memories the assumptions name are memories.
LEMMA MemoryType == ASSUME NEW memory, IsMemory(memory) PROVE memory \in Memories
<1>1. \A a \in DOMAIN memory : a \in Int /\ memory[a] \in Uint8
  <2>1. \A x \in 0 .. Byte - 1 : x \in Uint8
    BY Ranges DEF Byte
  <2> QED BY <2>1 DEF IsMemory
<1>2. memory = [a \in DOMAIN memory |-> memory[a]]
  BY DEF IsMemory
<1>3. memory \in [DOMAIN memory -> Uint8] /\ DOMAIN memory \in SUBSET Int
  BY <1>1, <1>2
<1> QED BY <1>3 DEF Memories

\* The empty memory is one.
LEMMA EmptyMemory == << >> \in Memories
<1>1. << >> \in Seq(Uint8)
  OBVIOUS
<1>2. << >> \in [1 .. Len(<< >>) -> Uint8]
  BY <1>1, LenProperties
<1>3. 1 .. Len(<< >>) \in SUBSET Int
  OBVIOUS
<1> QED BY <1>2, <1>3 DEF Memories

-----------------------------------------------------------------------------
(***************************************************************************)
(* The inductive invariant, and the theorems.                              *)
(***************************************************************************)

\* Registers within their widths.
Settled == Machine \in States /\ SC \in 0 .. 15 /\ sim \in {"running", "halted", "crashed"}

\* The instruction under way began at what programs saw last, and went its course.
OnCourse ==
  /\ ticks = SC
  /\ \E run : History(run, SC) /\ run[SC] = Machine /\ committed = Seen(run[0])

\* A HLT whose byte the step command does not know is fetched once more, from its tick 1.
Repeating ==
  /\ sim = "running" /\ command = "step" /\ SC \in {1, 2} /\ ticks = SC - 1
  /\ InstructionOf(IR) = "HLT" /\ IR >= 64 /\ IR = At(RAM, MAR) % Byte
  /\ committed \in Visibles

\* A machine that is not halted does one or the other.
UnderWay == sim # "halted" => OnCourse \/ Repeating

\* A halted machine stands behind a HLT, in its tick 1.
AfterHalt ==
  sim = "halted" =>
    /\ committed = Visible /\ ticks = 0 /\ SC = 1
    /\ InstructionOf(IR) = "HLT" /\ IR = At(RAM, MAR) % Byte

\* The prompt comes before the reset that ends an instruction, or behind the RET that ended
\* a skip, if it did not come by closing the window; main looks up no microcode.
Prompted ==
  /\ command = "main" => mc = {}
  /\ command = "none" /\ sim = "running" /\ IR < 64 =>
       /\ "SCr" \in mc => mc = Microcode
       /\ ~closed => mc = Microcode /\ ("SCr" \in Microcode \/ (SC = 0 /\ InstructionOf(IR) = "RET"))

\* A skip has calls to return from, but before its first tick.
Skipping ==
  command = "skip" /\ ~closed =>
    /\ sim = "running" /\ (IR < 64 => mc = Microcode)
    /\ n \in Int /\ (n >= 1 \/ (n = 0 /\ "SCr" \in mc /\ OnCall))

\* The invariant.
Inv == Settled /\ UnderWay /\ AfterHalt /\ Prompted /\ Skipping

\* A run begins wherever the step counter is 0.
LEMMA Begins ==
  ASSUME NEW s \in States
  PROVE  History([k \in 0 .. 15 |-> s], 0) /\ [k \in 0 .. 15 |-> s][0] = s
<1> DEFINE run == [k \in 0 .. 15 |-> s]
<1>1. \A k \in 0 .. 15 : run[k] = s /\ ~(k < 0)
  OBVIOUS
<1>2. 0 \in 0 .. 15
  OBVIOUS
<1> HIDE DEF run
<1>3. History(run, 0) /\ run[0] = s
  BY <1>1, <1>2 DEF History
<1> QED BY <1>3 DEF run

\* The machine starts with words in its registers, from a given state or from reset.
LEMMA StartingStates == ASSUME Init PROVE Machine \in States /\ SC = 0 /\ sim = "running"
<1>1. CASE InitBetween
  <2>1. PICK s \in Starts :
          /\ A = s.A /\ B = s.B /\ SP = s.SP /\ IP = s.IP /\ FR = s.FR
          /\ X = s.garbage /\ Y = s.garbage /\ MAR = s.garbage /\ IR = s.garbage % Byte
          /\ SEC = s.SEC /\ NDX = s.NDX /\ RAM = s.RAM /\ MEM = s.MEM /\ KEY_FIFO = s.KEYS
    BY <1>1 DEF InitBetween
  <2>2. /\ s.A \in 0 .. Word - 1 /\ s.B \in 0 .. Word - 1 /\ s.SP \in 0 .. Word - 1 /\ s.IP \in 0 .. Word - 1
        /\ s.garbage \in 0 .. Word - 1 /\ s.SEC \in Nat /\ s.SEC < 4096 /\ s.NDX \in 0 .. Byte - 1
        /\ s.FR \in SUBSET {"Z", "N", "C"} /\ IsMemory(s.RAM) /\ IsMemory(s.MEM) /\ s.KEYS \in Seq(0 .. Byte - 1)
    BY StartsAssumption
  <2>3. \A x \in 0 .. Word - 1 : x \in Uint16
    BY Intervals, Zenon
  <2>4. \A x \in 0 .. Byte - 1 : x \in Uint8
    BY Intervals, Zenon
  <2>5. 0 .. Byte - 1 = Uint8
    BY Intervals, Zenon
  <2>8. s.garbage % Byte \in Uint8
    <3>1. s.garbage \in Uint16
      BY ONLY <2>2, <2>3, SMTT(30)
    <3>2. s.garbage % 256 \in Uint8
      BY ONLY <3>1, ModType, SMTT(30)
    <3> QED BY ONLY <3>2 DEF Byte
  <2>9. 0 \in Uint16
    BY Ranges
  <2>10. /\ A \in Uint16 /\ B \in Uint16 /\ SP \in Uint16 /\ IP \in Uint16 /\ X \in Uint16 /\ Y \in Uint16
         /\ MAR \in Uint16 /\ SEC \in Uint16 /\ NDX \in Uint8 /\ FR \in SUBSET {"Z", "N", "C"} /\ IR \in Uint8
    <3>1. A \in Uint16 /\ B \in Uint16 /\ SP \in Uint16 /\ IP \in Uint16
      BY ONLY <2>1, <2>2, <2>3
    <3>2. X \in Uint16 /\ Y \in Uint16 /\ MAR \in Uint16
      BY ONLY <2>1, <2>2, <2>3
    <3>3. SEC \in Uint16
      <4>1. SEC = s.SEC /\ s.SEC \in Nat /\ s.SEC < 4096
        BY <2>1, <2>2
      <4>2. SEC \in Int /\ 0 <= SEC /\ SEC < 65536
        BY <4>1
      <4> QED BY <4>2, Ranges
    <3>5. NDX \in Uint8
      BY ONLY <2>1, <2>2, <2>4
    <3>4. FR \in SUBSET {"Z", "N", "C"} /\ IR \in Uint8
      BY ONLY <2>1, <2>2, <2>8
    <3> QED BY <3>1, <3>2, <3>3, <3>4, <3>5
  <2>11. RAM \in Memories /\ MEM \in Memories /\ KEY_FIFO \in Seq(Uint8)
    BY <2>1, <2>2, <2>5, MemoryType
  <2>12. GPUA \in Uint16 /\ ATTRIBUTE_RAM \in Memories /\ PATTERN_RAM \in Memories
    BY <1>1, <2>9, EmptyMemory DEF InitBetween
  <2>13. Machine \in States
    BY <2>10, <2>11, <2>12 DEF Machine, States
  <2> QED BY <1>1, <2>13 DEF InitBetween
<1>2. CASE CpuInit(Image)
  <2>1. Image \in Memories /\ IsMemory(Image)
    BY ImageAssumption, MemoryType
  <2>2. InitialRAM(Image) \in Memories
    <3> DEFINE D == {Word - Byte + i : i \in DOMAIN Image \cap 0 .. Byte - 1}
    <3>1. \A a \in D : a \in Int /\ a - (Word - Byte) \in DOMAIN Image
      BY DEF Word, Byte
    <3>2. \A i \in DOMAIN Image : Image[i] \in Uint8
      <4>1. \A x \in 0 .. Byte - 1 : x \in Uint8
        BY Ranges DEF Byte
      <4> QED BY <2>1, <4>1 DEF IsMemory
    <3> HIDE DEF D
    <3>3. [a \in D |-> Image[a - (Word - Byte)]] \in [D -> Uint8] /\ D \in SUBSET Int
      BY <3>1, <3>2
    <3>4. InitialRAM(Image) = [a \in D |-> Image[a - (Word - Byte)]]
      BY DEF InitialRAM, D
    <3> QED BY <3>3, <3>4 DEF Memories
  <2>3. 0 \in Uint16 /\ 0 \in Uint8 /\ Word - Byte \in Uint16 /\ << >> \in Seq(Uint8)
    BY Ranges DEF Word, Byte
  <2>4. /\ A \in Uint16 /\ B \in Uint16 /\ SP \in Uint16 /\ IP \in Uint16 /\ X \in Uint16 /\ Y \in Uint16
        /\ MAR \in Uint16 /\ SEC \in Uint16 /\ NDX \in Uint8 /\ FR \in SUBSET {"Z", "N", "C"} /\ IR \in Uint8
    BY <1>2, <2>3 DEF CpuInit
  <2>5. RAM \in Memories /\ MEM \in Memories /\ KEY_FIFO \in Seq(Uint8) /\ GPUA \in Uint16
        /\ ATTRIBUTE_RAM \in Memories /\ PATTERN_RAM \in Memories
    BY <1>2, <2>1, <2>2, <2>3, EmptyMemory DEF CpuInit
  <2>6. Machine \in States
    BY <2>4, <2>5 DEF Machine, States
  <2> QED BY <1>2, <2>6 DEF CpuInit
<1> QED BY <1>1, <1>2 DEF Init

\* The invariant holds at the start.
LEMMA InitInv == Init => Inv
<1> SUFFICES ASSUME Init PROVE Inv
  OBVIOUS
<1>1. Machine \in States /\ SC = 0 /\ sim = "running"
  BY StartingStates
<1>2. command # "none" /\ command # "skip" /\ committed = Visible /\ ticks = 0
  BY DEF Init, InitObserved
<1>3. committed = Seen(Machine)
  BY <1>1, <1>2, VisibleIsSeen
<1>4. OnCourse
  BY <1>1, <1>2, <1>3, Begins, Zenon DEF OnCourse
<1>5. mc = {}
  BY DEF Init
<1> QED BY <1>1, <1>2, <1>4, <1>5 DEF Inv, Settled, UnderWay, AfterHalt, Prompted, Skipping

\* What the step mode looks up for a byte below 64 is the microcode.
LEMMA NarrowLookup ==
  /\ SC \in 0 .. 15 /\ IR \in Uint8 /\ IR < 64 => LookedUp = Microcode
  /\ SC' \in 0 .. 15 /\ IR' \in Uint8 /\ IR' < 64 => LookedUp' = Microcode'
<1>1. ASSUME NEW k \in 0 .. 15, NEW x \in Uint8, x < 64 PROVE Or(k, x \div 64) = k
  <2>1. x \div 64 = 0
    BY <1>1, Ranges
  <2>2. \A y \in Nat : And2(y, 0) = 0
    BY DEF And2, And1
  <2>3. \A y \in Nat : And4(y, 0) = 0
    BY <2>2 DEF And4
  <2>4. \A y \in Nat : And8(y, 0) = 0
    BY <2>3 DEF And8
  <2>5. BitAnd(k, 0) = 0
    BY <2>4 DEF BitAnd, Byte
  <2> QED BY <2>1, <2>5 DEF Or
<1>2. SC \in 0 .. 15 /\ IR \in Uint8 /\ IR < 64 => LookedUp = Microcode
  BY <1>1 DEF LookedUp, Microcode
<1>3. SC' \in 0 .. 15 /\ IR' \in Uint8 /\ IR' < 64 => LookedUp' = Microcode'
  BY <1>1 DEF LookedUp, Microcode
<1> QED BY <1>2, <1>3

\* A HLT that is fetched once more halts the machine once more.
LEMMA RepeatStep ==
  ASSUME Settled, Repeating, TickOfStep
  PROVE  /\ Settled' /\ UnderWay' /\ AfterHalt' /\ Torn
         /\ sim' = "halted" \/ command' = "step"
<1>1. ObservedTick /\ mc' = LookedUp' /\ command' = (IF sim' = "halted" \/ "SCr" \in mc' THEN "none" ELSE command)
  BY DEF TickOfStep, Observe
<1>2. Tick /\ Machine \in States /\ sim = "running" /\ command = "step"
  BY <1>1 DEF ObservedTick, Settled, Repeating
<1>3. Machine' = Micro(Machine, Microcode) /\ Machine' \in States
  BY <1>2, TickIsMicro, MicroType
<1>4. /\ SC' = IF "SCr" \in Microcode THEN 0 ELSE ((IF "_HLT" \in Microcode THEN 0 ELSE SC) + 1) % 16
      /\ sim' = IF "_HLT" \in Microcode THEN "halted" ELSE sim
  BY <1>2 DEF Tick
<1>5. committed' = (IF SC' = 0 \/ sim' = "halted" THEN Visible' ELSE committed)
      /\ ticks' = (IF SC' = 0 \/ sim' = "halted" THEN 0 ELSE ticks + 1)
  BY <1>1 DEF ObservedTick, Ends
<1>6. InstructionOf(IR) = "HLT" /\ IR >= 64 /\ IR = At(RAM, MAR) % Byte /\ SC \in {1, 2} /\ ticks = SC - 1
      /\ committed \in Visibles
  BY DEF Repeating
<1>7. Torn
  BY <1>2, <1>6 DEF Torn
<1>8. CASE SC = 1
  <2>1. Microcode = {"RAM", "RAMo", "IRi", "IPp"}
    BY <1>8, Lookup, FetchSteps
  <2>2. SC' = 2 /\ sim' = "running" /\ committed' = committed /\ ticks' = 1
    <3>1. SC' = (1 + 1) % 16 /\ sim' = "running"
      BY <1>2, <1>4, <1>8, <2>1
    <3> QED BY <1>5, <1>6, <1>8, <3>1
  <2>3. IR' = IR /\ RAM' = RAM /\ MAR' = MAR
    <3>1. Machine'.IR = At(RAM, MAR) % Byte /\ Machine'.RAM = RAM /\ Machine'.MAR = MAR
      BY <1>3, <2>1, Fetch DEF Keeps, Fields, Machine
    <3> QED BY <1>6, <3>1 DEF Machine
  <2>4. "SCr" \notin LookedUp'
    <3>1. IR \in Uint8
      BY <1>2 DEF Machine, States
    <3>2. IR \div 64 \in {1, 2, 3}
      BY <1>6, <3>1, Ranges
    <3>3. Or(2, 1) = 3 /\ Or(2, 2) = 2 /\ Or(2, 3) = 3
      BY DEF Or, BitAnd, And8, And4, And2, And1, Byte
    <3>4. Or(SC', IR' \div 64) \in {2, 3}
      BY <2>2, <2>3, <3>2, <3>3
    <3>5. InstructionOf(IR') = "HLT"
      BY <1>6, <2>3
    <3>6. \A f : StepsOf("HLT", f) = << {"_HLT"} >>
      BY DEF StepsOf
    <3>7. \A f : \A k \in {2, 3} : "SCr" \notin control_rom("HLT", k, f)
      BY <3>6 DEF control_rom
    <3> QED BY <3>4, <3>5, <3>7 DEF LookedUp
  <2>5. command' = "step"
    BY <1>1, <1>2, <2>2, <2>4
  <2>6. Repeating'
    BY <1>6, <2>2, <2>3, <2>5 DEF Repeating
  <2> QED BY <1>3, <1>7, <2>2, <2>5, <2>6 DEF Settled, UnderWay, AfterHalt
<1>9. CASE SC = 2
  <2>1. Microcode = {"_HLT"}
    <3>1. Microcode = Looked(Machine, 2) /\ InstructionOf(Machine.IR) = "HLT"
      BY <1>6, <1>9, Lookup DEF Machine
    <3>2. StepsOf(InstructionOf(Machine.IR), Machine.FR) = << {"_HLT"} >>
      BY <3>1 DEF StepsOf
    <3>3. 2 \in 2 .. 15
      OBVIOUS
    <3>4. Looked(Machine, 2) = IF 2 - 1 <= Len(<< {"_HLT"} >>) THEN << {"_HLT"} >>[2 - 1] ELSE {}
      BY <3>2, <3>3, LaterSteps, Zenon
    <3>5. Looked(Machine, 2) = {"_HLT"}
      BY <3>4
    <3> QED BY <3>1, <3>5
  <2>2. SC' = 1 /\ sim' = "halted"
    <3>1. SC' = (0 + 1) % 16
      BY <1>4, <2>1
    <3> QED BY <1>4, <2>1, <3>1
  <2>3. committed' = Visible' /\ ticks' = 0
    BY <1>5, <2>2
  <2>4. Machine' = Machine
    BY <1>2, <1>3, <2>1, Idle
  <2>5. IR' = IR /\ RAM' = RAM /\ MAR' = MAR
    BY <2>4 DEF Machine
  <2> QED BY <1>3, <1>6, <1>7, <2>2, <2>3, <2>5 DEF Settled, UnderWay, AfterHalt
<1> QED BY <1>6, <1>8, <1>9

\* A tick carries an instruction on, or ends it as the instruction set says.
LEMMA TickStep ==
  ASSUME Settled, OnCourse, ObservedTick
  PROVE  /\ Settled' /\ UnderWay' /\ AfterHalt'
         /\ Instructions!Next \/ committed' = committed
         /\ sim' \in {"running", "halted"}
         /\ "SCr" \in Microcode => sim' = "running" /\ SC' = 0 /\ IR' = IR
<1> DEFINE w == Microcode
<1>1. sim = "running" /\ Tick /\ Machine \in States /\ SC \in 0 .. 15
  BY DEF ObservedTick, Tick, Settled
<1>2. PICK run : History(run, SC) /\ run[SC] = Machine /\ committed = Seen(run[0])
  BY DEF OnCourse
<1>3. w = Looked(run[SC], SC) /\ ticks = SC
  BY <1>2, Lookup DEF OnCourse
<1>4. Machine' = Micro(Machine, w) /\ Machine' \in States
  BY <1>1, TickIsMicro, MicroType
<1>5. /\ SC' = IF "SCr" \in w THEN 0 ELSE ((IF "_HLT" \in w THEN 0 ELSE SC) + 1) % 16
      /\ sim' = IF "_HLT" \in w THEN "halted" ELSE sim
  BY <1>1 DEF Tick
<1>6. committed' = (IF SC' = 0 \/ sim' = "halted" THEN Visible' ELSE committed)
      /\ ticks' = (IF SC' = 0 \/ sim' = "halted" THEN 0 ELSE ticks + 1)
  BY DEF ObservedTick, Ends
<1>7. Machine'.IR = IR' /\ Machine.IR = IR
  BY DEF Machine
<1> HIDE DEF w
<1>8. CASE w \cap Ending = {} /\ SC < 15
  <2>1. "SCr" \notin w /\ "_HLT" \notin w
    BY <1>8 DEF Ending
  <2>2. SC' = SC + 1 /\ SC' \in 0 .. 15 /\ SC' # 0 /\ sim' = "running"
    <3>1. SC \in Int /\ 0 <= SC /\ SC < 15
      BY <1>1, <1>8
    <3>2. SC' = (SC + 1) % 16 /\ sim' = "running"
      BY <1>1, <1>5, <2>1
    <3> QED BY <3>1, <3>2
  <2>3. committed' = committed /\ ticks' = SC'
    BY <1>3, <1>6, <2>2
  <2> DEFINE next == [k \in 0 .. 15 |-> IF k <= SC THEN run[k] ELSE Machine']
  <2>4. \A k \in 0 .. 15 : next[k] \in States
    BY <1>2, <1>4 DEF History
  <2>5. ASSUME NEW k \in 0 .. 15, k < SC + 1
        PROVE  next[k + 1] = Micro(next[k], Looked(next[k], k)) /\ Looked(next[k], k) \cap Ending = {}
    <3>1. CASE k < SC
      <4>1. next[k] = run[k] /\ next[k + 1] = run[k + 1]
        BY <1>1, <3>1
      <4> QED BY <1>2, <3>1, <4>1 DEF History
    <3>2. CASE k = SC
      <4>1. next[k] = run[SC] /\ next[k + 1] = Machine'
        BY <1>1, <1>8, <3>2
      <4> QED BY <1>2, <1>3, <1>4, <1>8, <3>2, <4>1
    <3> QED BY <1>1, <2>5, <3>1, <3>2
  <2>6. next[SC + 1] = Machine' /\ next[0] = run[0]
    BY <1>1, <1>8
  <2> HIDE DEF next
  <2>7. History(next, SC')
    BY <2>2, <2>4, <2>5 DEF History
  <2>8. UnderWay'
    <3>1. History(next, SC') /\ next[SC'] = Machine' /\ committed' = Seen(next[0])
      BY <1>2, <2>2, <2>3, <2>6, <2>7
    <3>2. \E r : History(r, SC') /\ r[SC'] = Machine' /\ committed' = Seen(r[0])
      BY <3>1
    <3> QED BY <2>3, <3>2 DEF UnderWay, OnCourse
  <2>9. Settled' /\ AfterHalt'
    BY <1>4, <2>2 DEF Settled, AfterHalt
  <2> QED BY <2>1, <2>2, <2>3, <2>8, <2>9 DEF w
<1>9. CASE "SCr" \in w \/ (SC = 15 /\ "_HLT" \notin w)
  <2>1. w \in {{}, {"SCr"}}
    BY <1>1, <1>2, <1>3, <1>9, EndingWord, Zenon
  <2>2. SC' = 0 /\ sim' = "running"
    <3>1. "_HLT" \notin w
      BY <2>1
    <3>2. "SCr" \notin w => SC' = (15 + 1) % 16
      BY <1>5, <1>9, <3>1
    <3> QED BY <1>1, <1>5, <3>1, <3>2
  <2>3. Machine' = Machine
    BY <1>1, <1>4, <2>1, Idle
  <2>4. committed' = Seen(Machine') /\ ticks' = 0
    BY <1>6, <2>2, VisibleIsSeen
  <2>5. Instructions!Next
    BY <1>1, <1>2, <1>3, <1>9, <2>3, <2>4, EndingStep
  <2>6. UnderWay'
    <3>1. \E r : History(r, 0) /\ r[0] = Machine' /\ committed' = Seen(r[0])
      BY <1>4, <2>4, Begins, Zenon
    <3> QED BY <2>2, <2>4, <3>1 DEF UnderWay, OnCourse
  <2>7. Settled' /\ AfterHalt'
    BY <1>4, <2>2 DEF Settled, AfterHalt
  <2>8. IR' = IR
    BY <1>7, <2>3
  <2> QED BY <2>2, <2>5, <2>6, <2>7, <2>8 DEF w
<1>10. CASE "_HLT" \in w
  <2>1. SC = 2 /\ w = {"_HLT"} /\ Fetched(run, "HLT")
    BY <1>1, <1>2, <1>3, <1>10, HaltingWord
  <2>2. SC' = 1 /\ sim' = "halted"
    <3>1. SC' = (0 + 1) % 16
      BY <1>5, <2>1
    <3> QED BY <1>5, <1>10, <3>1
  <2>3. Machine' = Machine
    BY <1>1, <1>4, <2>1, Idle
  <2>4. committed' = Visible' /\ ticks' = 0
    BY <1>6, <2>2
  <2>5. Instructions!Next
    <3>1. committed' = [Seen(run[2]) EXCEPT !.halted = TRUE]
      BY <1>2, <1>4, <2>1, <2>2, <2>3, <2>4, SeenHalted
    <3> QED BY <2>1, <3>1, Does_HLT
  <2>6. InstructionOf(IR') = "HLT" /\ IR' = At(RAM', MAR') % Byte
    <3>1. run[2] = Machine' /\ run[2] = Micro(run[1], {"RAM", "RAMo", "IRi", "IPp"}) /\ InstructionOf(run[2].IR) = "HLT"
      BY <1>2, <2>1, <2>3 DEF Fetched
    <3>2. run[2].IR = At(run[1].RAM, run[1].MAR) % Byte /\ run[2].RAM = run[1].RAM /\ run[2].MAR = run[1].MAR
      BY <3>1, Fetch DEF Keeps, Fields
    <3>3. run[2].IR = IR' /\ run[2].RAM = RAM' /\ run[2].MAR = MAR'
      BY <3>1 DEF Machine
    <3> QED BY <3>1, <3>2, <3>3
  <2>7. Settled' /\ AfterHalt' /\ UnderWay'
    BY <1>4, <2>2, <2>4, <2>6 DEF Settled, AfterHalt, UnderWay
  <2>8. "SCr" \notin w
    BY <2>1
  <2> QED BY <2>2, <2>5, <2>7, <2>8 DEF w
<1>11. SC < 15 \/ SC = 15
  BY <1>1
<1>12. w \cap Ending = {} \/ "SCr" \in w \/ "_HLT" \in w
  BY DEF Ending
<1> QED BY <1>8, <1>9, <1>10, <1>11, <1>12

\* A command of the user starts the machine after a HLT, or ends an instruction that had
\* only its reset left, or changes nothing, or tears an instruction.
LEMMA StartStep ==
  ASSUME Settled, UnderWay, AfterHalt, Prompted, NEW name, Start(name),
         SC' = SC \/ SC' = 0, sim = "halted" /\ SC' # 0 => name = "step" /\ IR >= 64
  PROVE  /\ Settled' /\ UnderWay' /\ AfterHalt'
         /\ Instructions!Next \/ Resume \/ Torn \/ committed' = committed
<1>1. /\ sim \in {"running", "halted"} /\ command = "none" /\ sim' = "running" /\ command' = name
      /\ committed' = [(IF SC' = 0 THEN Visible ELSE committed) EXCEPT !.halted = FALSE]
      /\ ticks' = IF SC' = 0 THEN 0 ELSE ticks
  BY DEF Start, AtPrompt, Settled
<1>2. Machine' = Machine
  BY DEF Start, Machine
<1>3. Machine \in States /\ SC \in 0 .. 15 /\ SC' \in 0 .. 15
  BY DEF Settled
<1>4. Settled' /\ AfterHalt'
  BY <1>1, <1>2, <1>3 DEF Settled, AfterHalt
<1>5. CASE SC' = 0
  <2>1. committed' = Seen(Machine') /\ ticks' = SC'
    BY <1>1, <1>2, <1>3, <1>5, SeenAgain
  <2>2. UnderWay'
    <3>1. \E r : History(r, 0) /\ r[0] = Machine' /\ committed' = Seen(r[0])
      BY <1>2, <1>3, <2>1, Begins, Zenon
    <3> QED BY <1>5, <2>1, <3>1 DEF UnderWay, OnCourse
  <2>3. CASE sim = "halted"
    <3>1. committed = Visible
      BY <2>3 DEF AfterHalt
    <3>2. Resume
      BY <1>1, <1>5, <3>1 DEF Resume
    <3> QED BY <1>4, <2>2, <3>2
  <2>4. CASE sim = "running" /\ ~closed /\ IR < 64
    <3> DEFINE Began(run) == History(run, SC) /\ run[SC] = Machine /\ committed = Seen(run[0])
    <3>1. PICK run : Began(run)
      <4>1. ~Repeating
        BY <1>1 DEF Repeating
      <4> QED BY <2>4, <4>1 DEF UnderWay, OnCourse
    <3>2. CASE SC = 0
      BY <1>2, <1>4, <2>1, <2>2, <3>1, <3>2
    <3>3. CASE SC # 0
      <4>1. "SCr" \in Looked(run[SC], SC)
        BY <1>1, <2>4, <3>1, <3>3, Lookup DEF Prompted
      <4>2. committed' = Seen(run[SC])
        BY <1>2, <2>1, <3>1
      <4>3. Instructions!Next
        BY <1>3, <3>1, <4>1, <4>2, EndingStep
      <4> QED BY <1>4, <2>2, <4>3
    <3> QED BY <3>2, <3>3
  <2>5. CASE closed \/ IR >= 64
    <3>1. Torn
      BY <1>1, <2>5 DEF Torn
    <3> QED BY <1>4, <2>2, <3>1
  <2>6. IR < 64 \/ IR >= 64
    <3>1. IR \in Int
      BY <1>3, Ranges DEF Machine, States
    <3> QED BY <3>1
  <2> QED BY <1>1, <2>3, <2>4, <2>5, <2>6
<1>6. CASE SC' # 0 /\ sim = "running"
  <2>1. SC' = SC
    BY <1>6
  <2>2. ticks = SC /\ \E run : History(run, SC) /\ run[SC] = Machine /\ committed = Seen(run[0])
    <3>1. ~Repeating
      BY <1>1 DEF Repeating
    <3> QED BY <1>6, <3>1 DEF UnderWay, OnCourse
  <2>3. PICK run : History(run, SC) /\ run[SC] = Machine /\ committed = Seen(run[0])
    BY <2>2
  <2>4. run[0] \in States
    BY <2>3 DEF History
  <2>5. committed' = committed /\ ticks' = SC'
    <3>1. committed' = [Seen(run[0]) EXCEPT !.halted = FALSE]
      BY <1>1, <1>6, <2>3
    <3> QED BY <1>1, <1>6, <2>1, <2>2, <2>3, <2>4, <3>1, SeenRuns, Zenon
  <2>6. UnderWay'
    <3>1. \E r : History(r, SC') /\ r[SC'] = Machine' /\ committed' = Seen(r[0])
      BY <1>2, <2>1, <2>3, <2>5
    <3> QED BY <2>5, <3>1 DEF UnderWay, OnCourse
  <2> QED BY <1>4, <2>5, <2>6
<1>7. CASE SC' # 0 /\ sim = "halted"
  <2>1. /\ committed = Visible /\ ticks = 0 /\ SC = 1
        /\ InstructionOf(IR) = "HLT" /\ IR = At(RAM, MAR) % Byte
    BY <1>7 DEF AfterHalt
  <2>2. SC' = 1 /\ command' = "step" /\ IR >= 64
    BY <1>1, <1>7, <2>1
  <2>3. committed' = [Visible EXCEPT !.halted = FALSE] /\ ticks' = 0
    BY <1>1, <1>7, <2>1
  <2>4. Resume
    BY <2>1, <2>3 DEF Resume
  <2>5. committed' \in Visibles
    BY <1>3, <2>3, SeenAgain, SeenType
  <2>6. IR' = IR /\ RAM' = RAM /\ MAR' = MAR
    BY <1>2 DEF Machine
  <2>7. Repeating'
    BY <1>1, <2>1, <2>2, <2>3, <2>5, <2>6 DEF Repeating
  <2> QED BY <1>4, <2>4, <2>7 DEF UnderWay
<1> QED BY <1>1, <1>5, <1>6, <1>7

\* Every step keeps the invariant and is one the instruction set allows, or tears.
LEMMA NextInv ==
  ASSUME Inv, Next
  PROVE  Inv' /\ (Instructions!Next \/ Resume \/ Torn \/ committed' = committed)
<1>0. Settled /\ UnderWay /\ AfterHalt /\ Prompted /\ Skipping
  BY DEF Inv
<1>a. SC \in 0 .. 15 /\ IR \in Uint8 /\ IR \in Int
  BY <1>0, Ranges DEF Settled, Machine, States
<1>b. Settled' => SC' \in 0 .. 15 /\ IR' \in Uint8
  BY DEF Settled, Machine, States
<1>c. command # "step" => ~Repeating
  BY DEF Repeating
<1>1. CASE TickFree
  <2>1. command' = "free" /\ command = "free"
    BY <1>1 DEF TickFree
  <2>2. CASE TickOfInstruction
    <3>1. ObservedTick
      BY <2>2 DEF TickOfInstruction
    <3>2. OnCourse
      BY <1>0, <1>c, <2>1, <3>1 DEF UnderWay, ObservedTick, Tick
    <3> QED BY <1>0, <2>1, <3>1, <3>2, TickStep DEF Inv, Prompted, Skipping
  <2>3. CASE CrashOfInstruction
    <3>1. Machine' = Machine /\ SC' = SC /\ sim = "running" /\ sim' = "crashed" /\ committed' = committed /\ ticks' = ticks
      BY <2>3 DEF CrashOfInstruction, TickCrash, Machine
    <3>2. OnCourse
      BY <1>0, <1>c, <2>1, <3>1 DEF UnderWay
    <3>3. Settled' /\ UnderWay' /\ AfterHalt'
      BY <1>0, <3>1, <3>2 DEF Settled, UnderWay, OnCourse, AfterHalt
    <3> QED BY <2>1, <3>1, <3>3 DEF Inv, Prompted, Skipping
  <2> QED BY <1>1, <2>2, <2>3 DEF TickFree
<1>2. CASE Step
  <2>1. Start("step") /\ SC' = IF IsRaw({"HLT"}) THEN 0 ELSE SC
    BY <1>2 DEF Step
  <2>2. sim = "halted" /\ SC' # 0 => IR >= 64
    BY <1>0, <1>a, <2>1 DEF AfterHalt, IsRaw
  <2>3. command' = "step"
    BY <2>1 DEF Start
  <2> QED BY <1>0, <2>1, <2>2, <2>3, StartStep DEF Inv, Prompted, Skipping
<1>3. CASE Continue
  <2>1. Start("continue") /\ SC' = 0
    BY <1>3 DEF Continue
  <2>2. command' = "continue"
    BY <2>1 DEF Start
  <2> QED BY <1>0, <2>1, <2>2, StartStep DEF Inv, Prompted, Skipping
<1>4. CASE Skip
  <2>1. Start("skip") /\ SC' = SC /\ n' = 0 /\ OnCall
    BY <1>4 DEF Skip
  <2>2. /\ command = "none" /\ sim # "crashed" /\ command' = "skip" /\ sim' = "running" /\ IR' = IR /\ FR' = FR /\ mc' = mc
        /\ closed' = (closed /\ "SCr" \notin mc)
    BY <2>1 DEF Start, AtPrompt
  <2>3. sim = "running" /\ IR < 64
    BY <1>0, <2>1, <2>2 DEF Settled, AfterHalt, OnCall, IsRaw
  <2>4. ~closed' => mc = Microcode /\ "SCr" \in mc
    BY <1>0, <2>1, <2>2, <2>3 DEF Prompted, OnCall, IsRaw
  <2>5. Microcode' = Microcode
    BY <2>1, <2>2 DEF Microcode
  <2>6. Skipping' /\ Prompted'
    <3>1. OnCall'
      BY <2>1, <2>2 DEF OnCall, IsRaw
    <3> QED BY <2>1, <2>2, <2>4, <2>5, <3>1 DEF Skipping, Prompted
  <2> QED BY <1>0, <2>1, <2>3, <2>6, StartStep DEF Inv
<1>5. CASE TickOfStep
  <2>1. ObservedTick /\ mc' = LookedUp' /\ command' = (IF sim' = "halted" \/ "SCr" \in mc' THEN "none" ELSE command)
        /\ command = "step"
    BY <1>5 DEF TickOfStep, Observe
  <2>2. CASE OnCourse
    <3>1. Settled' /\ UnderWay' /\ AfterHalt' /\ (Instructions!Next \/ committed' = committed)
      BY <1>0, <2>1, <2>2, TickStep
    <3>2. Prompted' /\ Skipping'
      BY <1>b, <2>1, <3>1, NarrowLookup DEF Prompted, Skipping
    <3> QED BY <3>1, <3>2 DEF Inv
  <2>3. CASE Repeating
    <3>1. Settled' /\ UnderWay' /\ AfterHalt' /\ Torn /\ (sim' = "halted" \/ command' = "step")
      BY <1>0, <1>5, <2>3, RepeatStep
    <3>2. Prompted' /\ Skipping'
      BY <2>1, <3>1 DEF Prompted, Skipping
    <3> QED BY <3>1, <3>2 DEF Inv
  <2> QED BY <1>0, <2>1, <2>2, <2>3 DEF UnderWay, ObservedTick, Tick
<1>6. CASE TickToHalt
  <2>1. /\ ObservedTick /\ command' = (IF sim' = "halted" THEN "none" ELSE command) /\ command \in {"main", "continue"}
        /\ mc' = mc
    BY <1>6 DEF TickToHalt, Observe
  <2>2. Prompted' /\ Skipping'
    BY <1>0, <2>1 DEF Prompted, Skipping
  <2>3. OnCourse
    BY <1>0, <1>c, <2>1 DEF UnderWay, ObservedTick, Tick
  <2> QED BY <1>0, <2>1, <2>2, <2>3, TickStep DEF Inv
<1>7. CASE CloseWindow
  <2>1. /\ command = "main" /\ sim = "running" /\ command' = "none" /\ closed' = TRUE
        /\ mc' = mc /\ Machine' = Machine /\ SC' = SC /\ sim' = sim /\ committed' = committed /\ ticks' = ticks
    BY <1>7 DEF CloseWindow, vars, Machine
  <2>2. OnCourse
    BY <1>0, <1>c, <2>1 DEF UnderWay
  <2>3. Settled' /\ UnderWay' /\ AfterHalt'
    BY <1>0, <2>1, <2>2 DEF Settled, UnderWay, OnCourse, AfterHalt
  <2>4. Prompted' /\ Skipping'
    BY <1>0, <2>1 DEF Prompted, Skipping
  <2> QED BY <2>1, <2>3, <2>4 DEF Inv
<1>8. CASE TickOfSkip
  <2>1. ObservedTick /\ mc' = LookedUp' /\ command = "skip" /\ n' = Counted /\ closed' = closed
        /\ command' = (IF sim' = "halted" \/ n' = 0 THEN "none" ELSE command)
    BY <1>8 DEF TickOfSkip, Observe
  <2>2. OnCourse
    BY <1>0, <1>c, <2>1 DEF UnderWay, ObservedTick, Tick
  <2>3. /\ Settled' /\ UnderWay' /\ AfterHalt' /\ (Instructions!Next \/ committed' = committed)
        /\ sim' \in {"running", "halted"}
        /\ "SCr" \in Microcode => sim' = "running" /\ SC' = 0 /\ IR' = IR
    BY <1>0, <2>1, <2>2, TickStep
  <2>4. IR' < 64 => mc' = Microcode'
    BY <1>b, <2>1, <2>3, NarrowLookup
  <2>5. ~closed => /\ IR < 64 => mc = Microcode
                   /\ n \in Int /\ (n >= 1 \/ (n = 0 /\ "SCr" \in mc /\ OnCall))
    BY <1>0, <2>1 DEF Skipping
  <2>6. ~closed => n' \in Int /\ (n' >= 1 \/ (n' = 0 /\ "SCr" \in mc /\ IsRaw({"RET"})))
    BY <2>1, <2>5 DEF Counted
  <2>7. Skipping'
    BY <2>1, <2>3, <2>4, <2>6 DEF Skipping
  <2>8. Prompted'
    <3> SUFFICES ASSUME command' = "none", sim' = "running", IR' < 64
                 PROVE  /\ mc' = Microcode'
                        /\ ~closed' => SC' = 0 /\ InstructionOf(IR') = "RET"
      BY <2>1 DEF Prompted
    <3>1. n' = 0
      BY <2>1
    <3>2. ~closed => "SCr" \in mc /\ IR < 64 /\ InstructionOf(IR) = "RET"
      BY <2>6, <3>1 DEF IsRaw
    <3> QED BY <2>1, <2>3, <2>4, <2>5, <3>2
  <2> QED BY <2>3, <2>7, <2>8 DEF Inv
<1> QED BY <1>1, <1>2, <1>3, <1>4, <1>5, <1>6, <1>7, <1>8 DEF Next

\* Nothing changes when nothing changes.
LEMMA StutterInv == ASSUME Inv, UNCHANGED allVars PROVE Inv' /\ committed' = committed
<1>1. Machine' = Machine /\ Microcode' = Microcode /\ Visible' = Visible /\ OnCall' = OnCall
  BY DEF allVars, vars, Machine, Microcode, Visible, OnCall, IsRaw
<1>2. SC' = SC /\ sim' = sim /\ ticks' = ticks /\ committed' = committed /\ IR' = IR /\ command' = command /\ mc' = mc /\ n' = n
      /\ RAM' = RAM /\ MAR' = MAR /\ closed' = closed
  BY DEF allVars, vars
<1> QED BY <1>1, <1>2 DEF Inv, Settled, UnderWay, OnCourse, Repeating, AfterHalt, Prompted, Skipping

\* Inv holds for ever: whatever the user does between two ticks, the window and bytes that
\* are no opcodes of the tools included, the machine is within the course of an instruction
\* that began at what programs saw last, or fetches a HLT once more (tick, runtime.c:719; the
\* commands of the step mode, runtime.c:1043; the loop of main, sim.c:568).
THEOREM Inductive == Spec => []Inv
<1>1. Init => Inv
  BY InitInv
<1>2. Inv /\ [Next]_allVars => Inv'
  BY NextInv, StutterInv
<1> QED BY <1>1, <1>2, PTL DEF Spec

\* The microcode implements the instruction set: whenever what programs see changes, it
\* changes as one instruction says it does, for every program, every content of memory and
\* registers and every mix of step commands; only where the step mode tears an instruction,
\* at a prompt the window was closed for or with a byte from 64 on, and nowhere else, it need
\* not (tick and control_rom of runtime.c against the descriptions of the instructions).
THEOREM DoesWhatIsSaid == Spec => ImplementsIsa
<1>1. Inv /\ [Next]_allVars => [Instructions!Next \/ Resume \/ Torn]_committed
  BY NextInv, StutterInv
<1> QED BY <1>1, Inductive, PTL DEF Spec, ImplementsIsa

\* Every word of the control ROM has at most one source for the bus.
LEMMA SingleWord == ASSUME NEW s, s.IR \in Uint8, NEW k \in 0 .. 15 PROVE Single(Looked(s, k))
<1> DEFINE i == InstructionOf(s.IR)
<1>1. i \in DOMAIN Body \cup Conditionals \cup {"none", "HLT"}
  BY Opcodes
<1>2. CASE k = 0 \/ k = 1
  <2>1. Single({"IPo", "MARi"}) /\ Single({"RAM", "RAMo", "IRi", "IPp"})
    BY DEF Single, Outputs
  <2> QED BY <1>2, <2>1, FetchSteps
<1>3. CASE k \in 2 .. 15 /\ i \in DOMAIN Body
  <2>1. Regular(Body[i]) /\ \A j \in 1 .. Len(Body[i]) : Single(Body[i][j])
    BY <1>3, Performs
  <2>2. StepsOf(i, s.FR) = Append(Body[i], {"SCr"})
    BY <1>3, Codes, Zenon
  <2> DEFINE steps == Body[i]
  <2>3. /\ Len(Append(steps, {"SCr"})) = Len(steps) + 1
        /\ \A j \in 1 .. Len(steps) : Append(steps, {"SCr"})[j] = steps[j]
        /\ Append(steps, {"SCr"})[Len(steps) + 1] = {"SCr"}
    BY <2>1, Appended
  <2>4. Len(steps) \in Nat
    BY <2>1 DEF Regular
  <2>5. Looked(s, k) = IF k - 1 <= Len(Append(steps, {"SCr"})) THEN Append(steps, {"SCr"})[k - 1] ELSE {}
    BY <1>3, <2>2, LaterSteps, Zenon
  <2>6. Single({"SCr"}) /\ Single({})
    BY DEF Single, Outputs
  <2> HIDE DEF steps
  <2>7. k - 1 \in 1 .. Len(steps) \/ k - 1 = Len(steps) + 1 \/ ~(k - 1 <= Len(steps) + 1)
    BY <1>3, <2>4
  <2>8. CASE k - 1 \in 1 .. Len(steps)
    <3>1. Looked(s, k) = steps[k - 1]
      BY <2>3, <2>4, <2>5, <2>8
    <3> QED BY <2>1, <2>8, <3>1 DEF steps
  <2>9. CASE k - 1 = Len(steps) + 1
    <3>1. Looked(s, k) = {"SCr"}
      BY <2>3, <2>4, <2>5, <2>9
    <3> QED BY <2>6, <3>1
  <2>10. CASE ~(k - 1 <= Len(steps) + 1)
    <3>1. Looked(s, k) = {}
      BY <2>3, <2>5, <2>10
    <3> QED BY <2>6, <3>1
  <2> QED BY <2>7, <2>8, <2>9, <2>10
<1>4. CASE k \in 2 .. 15 /\ i \in Conditionals
  <2>1. Single({"IPo", "MARi", "Yi"}) /\ Single({"RAM", "RAMo", "RAM16", "Xi"}) /\ Single({"ALUo", "IPi"})
        /\ Single({"SCr"}) /\ Single({}) /\ Single({"IPp"})
    BY DEF Single, Outputs
  <2>2. k = 2 \/ k = 3 \/ k = 4 \/ k = 5 \/ k > 5
    BY <1>4
  <2>3. k > 4 <=> k = 5 \/ k > 5
    BY <1>4
  <2>4. CASE Holds(i, s.FR)
    <3>1. /\ k = 2 => Looked(s, k) = {"IPo", "MARi", "Yi"}
          /\ k = 3 => Looked(s, k) = {"RAM", "RAMo", "RAM16", "Xi"}
          /\ k = 4 => Looked(s, k) = {"ALUo", "IPi"}
          /\ k = 5 => Looked(s, k) = {"SCr"}
          /\ k > 5 => Looked(s, k) = {}
      BY <1>4, <2>4, JumpSteps
    <3> QED BY <2>1, <2>2, <3>1
  <2>5. CASE ~Holds(i, s.FR)
    <3>1. /\ k = 2 \/ k = 3 => Looked(s, k) = {"IPp"}
          /\ k = 4 => Looked(s, k) = {"SCr"}
          /\ k > 4 => Looked(s, k) = {}
      BY <1>4, <2>5, JumpSteps
    <3> QED BY <2>1, <2>2, <2>3, <3>1
  <2> QED BY <2>4, <2>5
<1>5. CASE k \in 2 .. 15 /\ i = "none"
  <2>1. Looked(s, k) = IF k - 1 <= Len(<< >>) THEN << >>[k - 1] ELSE {}
    BY <1>5, LaterSteps, Codes, Zenon
  <2>2. Looked(s, k) = {}
    BY <1>5, <2>1
  <2> QED BY <2>2 DEF Single
<1>6. CASE k \in 2 .. 15 /\ i = "HLT"
  <2>1. Looked(s, k) = IF k - 1 <= Len(<< {"_HLT"} >>) THEN << {"_HLT"} >>[k - 1] ELSE {}
    BY <1>6, LaterSteps, Codes, Zenon
  <2>2. Looked(s, k) = {"_HLT"} \/ Looked(s, k) = {}
    BY <1>6, <2>1
  <2> QED BY <2>2 DEF Single, Outputs
<1>7. k = 0 \/ k = 1 \/ k \in 2 .. 15
  OBVIOUS
<1> QED BY <1>1, <1>2, <1>3, <1>4, <1>5, <1>6, <1>7

\* At most one part of the machine drives the bus in a tick, for every instruction, step
\* and flags (the microcode of runtime.h as control_rom selects it).
THEOREM OnePartOnTheBus == Spec => []OneOutput
<1>1. Inv => OneOutput
  <2> SUFFICES ASSUME Inv PROVE OneOutput
    OBVIOUS
  <2>1. Machine \in States /\ SC \in 0 .. 15
    BY DEF Inv, Settled
  <2>2. Machine.IR \in Uint8
    BY <2>1 DEF States
  <2>3. Single(Microcode)
    BY <2>1, <2>2, Lookup, SingleWord
  <2> QED BY <2>3 DEF Single, OneOutput
<1> QED BY <1>1, Inductive, PTL

\* Every instruction ends within 8 ticks, but for taken jumps and opcodes without
\* microcode, which wait for the step counter to overflow.
THEOREM AllEndInTime == Spec => []EndsInTime
<1>1. Inv => EndsInTime
  <2> SUFFICES ASSUME Inv, ticks > 7 PROVE InstructionOf(IR) \in Conditionals \cup {"none"}
    BY DEF EndsInTime
  <2>1. sim # "halted"
    <3> SUFFICES ASSUME sim = "halted" PROVE FALSE
      OBVIOUS
    <3>1. ticks = 0
      BY DEF Inv, AfterHalt
    <3> QED BY <3>1
  <2>6. OnCourse
    <3>1. ~Repeating
      BY DEF Repeating
    <3> QED BY <2>1, <3>1 DEF Inv, UnderWay
  <2>2. PICK run : History(run, SC) /\ run[SC] = Machine /\ committed = Seen(run[0])
    BY <2>6 DEF OnCourse
  <2>3. SC \in 0 .. 15 /\ SC > 7
    BY <2>6 DEF Inv, Settled, OnCourse
  <2>4. InstructionOf(run[SC].IR) \in Conditionals \cup {"none"}
    BY <2>2, <2>3, InTime
  <2>5. run[SC].IR = IR
    BY <2>2 DEF Machine
  <2> QED BY <2>4, <2>5
<1> QED BY <1>1, Inductive, PTL

\* The lengths the statistics of the instructions give.
LEMMA Lengths ==
  /\ \A i \in {"RAM_AL", "RAM_BL", "RAM_NDX", "PEEKAR", "PUSHAR", "RAM_DRW"} : InstructionLength(i) = 2
  /\ \A i \in {"RAM_A", "RAM_B"} : InstructionLength(i) = 3
  /\ \A i \in {"A_B", "B_A", "A_SP", "SP_A", "A_SEC", "SEC_A", "NDX_A", "A_NDX", "INCA", "INCB", "DECA", "INCNDX",
               "SUM", "SUB", "SHL", "SHR", "AND", "CMPA", "CMPB", "INCSP", "DECSP", "PUSHA", "PUSHB", "POPA", "POPB",
               "PEEKA", "PEEKB", "AL_rB", "A_rB", "rB_AL", "rB_A", "B_AH", "MEM_A", "MEM_AH", "A_MEM", "HLT", "NOP",
               "KEY_A", "DRW"} : InstructionLength(i) = 1
BY DEF InstructionLength, instruction_stat, RelativeJumps

\* An instruction that is no jump goes on behind its argument.
LEMMA GoesOn ==
  ASSUME committed \in Visibles, Instructions!Next,
         NEW i, i = InstructionOf(At(committed.RAM, committed.IP)), i \notin Jumps, i # "none"
  PROVE  committed'.IP = Plus(committed.IP, InstructionLength(i))
<1>1. \A j : Instructions!Is(j) => j = i
  BY SharedWords DEF Instructions!Is
<1>2. \A length : Instructions!After(length) = Plus(committed.IP, length)
  BY SharedWords DEF Instructions!After
<1>3. \A reg, value, length : reg # "IP" /\ Instructions!Set(reg, value, length) => committed'.IP = Plus(committed.IP, length)
  BY <1>2, Zenon DEF Instructions!Set, Visibles
<1>4. \A reg, value, carry : reg # "IP" /\ Instructions!Compute(reg, value, carry) => committed'.IP = Plus(committed.IP, 1)
  BY <1>2, Zenon DEF Instructions!Compute, Visibles
<1>5. CASE Instructions!Load
  <2>1. PICK j \in {"RAM_AL", "RAM_BL", "RAM_NDX"} :
          Instructions!Is(j) /\ Instructions!Set(Instructions!Loads[j], Instructions!Short, 2)
    BY <1>5 DEF Instructions!Load, Instructions!Loads
  <2>2. Instructions!Loads[j] # "IP"
    BY DEF Instructions!Loads
  <2> QED BY <1>1, <1>3, <2>1, <2>2, Lengths
<1>6. CASE Instructions!WideLoad
  <2>1. PICK j \in {"RAM_A", "RAM_B"} :
          Instructions!Is(j) /\ Instructions!Set(Instructions!WideLoads[j], Instructions!Wide, 3)
    BY <1>6 DEF Instructions!WideLoad, Instructions!WideLoads
  <2>2. Instructions!WideLoads[j] # "IP"
    BY DEF Instructions!WideLoads
  <2> QED BY <1>1, <1>3, <2>1, <2>2, Lengths
<1>7. CASE Instructions!Move
  <2>1. PICK j \in {"A_B", "B_A", "A_SP", "SP_A", "A_SEC", "SEC_A", "NDX_A", "A_NDX"} :
          Instructions!Is(j) /\ \E value : Instructions!Set(Instructions!Moves[j][2], value, 1)
    BY <1>7 DEF Instructions!Move, Instructions!Moves
  <2>2. Instructions!Moves[j][2] # "IP"
    BY DEF Instructions!Moves
  <2>3. committed'.IP = Plus(committed.IP, 1) /\ j = i
    BY <1>1, <1>3, <2>1, <2>2
  <2> QED BY <2>3, Lengths
<1>8. CASE Instructions!Arithmetic
  <2>1. \E j \in {"INCA", "INCB", "DECA", "INCNDX", "SUM", "SUB", "SHL", "SHR", "AND", "CMPA", "CMPB"},
           reg \in {"A", "B", "NDX"} :
          \E value, carry : Instructions!Is(j) /\ Instructions!Compute(reg, value, carry)
    BY <1>8, Zenon DEF Instructions!Arithmetic
  <2> QED BY <1>1, <1>4, <2>1, Lengths
<1>9. CASE Instructions!Stack
  <2>1. CASE \/ Instructions!Is("INCSP") /\ Instructions!Set("SP", Instructions!Above(2), 1)
             \/ Instructions!Is("DECSP") /\ Instructions!Set("SP", Instructions!Above(-2), 1)
    BY <1>1, <1>3, <2>1, Lengths
  <2>2. CASE \E j \in DOMAIN Instructions!Pushes : Instructions!Is(j)
               /\ committed' = [committed EXCEPT !.RAM = Instructions!PutWord(@, committed.SP, committed[Instructions!Pushes[j]]),
                                                 !.SP = Instructions!Above(-2), !.IP = Instructions!After(1)]
    <3>1. PICK j \in {"PUSHA", "PUSHB"} : Instructions!Is(j) /\ committed'.IP = Instructions!After(1)
      BY <2>2 DEF Instructions!Pushes, Visibles
    <3> QED BY <1>1, <1>2, <3>1, Lengths
  <2>3. CASE \E j \in DOMAIN Instructions!Pops : Instructions!Is(j)
               /\ committed' = [committed EXCEPT ![Instructions!Pops[j]] = Instructions!WordAt(committed.RAM, Instructions!Above(2)),
                                                 !.SP = Instructions!Above(2), !.IP = Instructions!After(1)]
    <3>1. PICK j \in {"POPA", "POPB"} : Instructions!Is(j) /\ committed'.IP = Instructions!After(1)
      BY <2>3, Zenon DEF Instructions!Pops, Visibles
    <3> QED BY <1>1, <1>2, <3>1, Lengths
  <2>4. CASE \E j \in DOMAIN Instructions!Peeks :
               Instructions!Is(j) /\ Instructions!Set(Instructions!Peeks[j], Instructions!WordAt(committed.RAM, Instructions!Above(2)), 1)
    <3>1. PICK j \in {"PEEKA", "PEEKB"} :
            Instructions!Is(j) /\ Instructions!Set(Instructions!Peeks[j], Instructions!WordAt(committed.RAM, Instructions!Above(2)), 1)
      BY <2>4 DEF Instructions!Peeks
    <3>2. Instructions!Peeks[j] # "IP"
      BY DEF Instructions!Peeks
    <3> QED BY <1>1, <1>3, <3>1, <3>2, Lengths
  <2>5. CASE Instructions!Is("PEEKAR")
             /\ committed' = [committed EXCEPT !.A = Instructions!WordAt(committed.RAM, Instructions!Above(Instructions!Short)),
                                               !.FR = Instructions!FlagsOfSum(committed.SP, Instructions!Short), !.IP = Instructions!After(2)]
    <3>1. committed'.IP = Instructions!After(2)
      BY <2>5 DEF Visibles
    <3> QED BY <1>1, <1>2, <2>5, <3>1, Lengths
  <2>6. CASE Instructions!Is("PUSHAR")
             /\ committed' = [committed EXCEPT !.RAM = Instructions!PutWord(@, Instructions!Above(Instructions!Short), committed.A),
                                               !.FR = Instructions!FlagsOfSum(committed.SP, Instructions!Short), !.IP = Instructions!After(2)]
    <3>1. committed'.IP = Instructions!After(2)
      BY <2>6 DEF Visibles
    <3> QED BY <1>1, <1>2, <2>6, <3>1, Lengths
  <2> QED BY <1>9, <2>1, <2>2, <2>3, <2>4, <2>5, <2>6, Zenon DEF Instructions!Stack
<1>10. CASE Instructions!Memory
  <2>1. \/ \E j \in {"rB_AL", "rB_A", "B_AH", "MEM_A", "MEM_AH"} : \E value : Instructions!Is(j) /\ Instructions!Set("A", value, 1)
        \/ \E j \in {"AL_rB", "A_rB", "A_MEM"} : Instructions!Is(j) /\ committed'.IP = Instructions!After(1)
    BY <1>10, Zenon DEF Instructions!Memory, Visibles
  <2>2. CASE \E j \in {"rB_AL", "rB_A", "B_AH", "MEM_A", "MEM_AH"} : \E value : Instructions!Is(j) /\ Instructions!Set("A", value, 1)
    BY <1>1, <1>3, <2>2, Lengths
  <2>3. CASE \E j \in {"AL_rB", "A_rB", "A_MEM"} : Instructions!Is(j) /\ committed'.IP = Instructions!After(1)
    BY <1>1, <1>2, <2>3, Lengths
  <2> QED BY <2>1, <2>2, <2>3
<1>11. CASE Instructions!Control
  <2>1. \A j \in Jumps \cup {"none"} : ~Instructions!Is(j)
    BY <1>1
  <2>2. /\ ~Instructions!Is("JMP") /\ ~Instructions!Is("JMPA") /\ ~Instructions!Is("JMPR") /\ ~Instructions!Is("JMPAR")
        /\ ~Instructions!Is("JMPRZ") /\ ~Instructions!Is("JMPRN") /\ ~Instructions!Is("JMPRC") /\ ~Instructions!Is("JMPRNZ")
        /\ ~Instructions!Is("JMPRNN") /\ ~Instructions!Is("JMPRNC") /\ ~Instructions!Is("CALL") /\ ~Instructions!Is("CALLR")
        /\ ~Instructions!Is("RET") /\ ~Instructions!Is("none")
    BY <2>1 DEF Jumps, RelativeJumps
  <2>3. ~Instructions!Taken /\ ~Instructions!Conditional
    BY <2>2 DEF Instructions!Taken, Instructions!Conditional
  <2>4. \/ Instructions!Is("HLT") /\ committed' = [committed EXCEPT !.IP = Instructions!After(1), !.halted = TRUE]
        \/ Instructions!Is("NOP") /\ committed' = [committed EXCEPT !.IP = Instructions!After(1)]
    BY <1>11, <2>2, <2>3 DEF Instructions!Control, Instructions!Jump
  <2>5. PICK j \in {"HLT", "NOP"} : Instructions!Is(j) /\ committed'.IP = Instructions!After(1)
    BY <2>4, Zenon DEF Visibles
  <2> QED BY <1>1, <1>2, <2>5, Lengths
<1>12. CASE Instructions!Devices
  <2>1. \A value, length : Instructions!Draw(value, length) => committed'.IP = Instructions!After(length)
    <3> SUFFICES ASSUME NEW value, NEW length, Instructions!Draw(value, length) PROVE committed'.IP = Instructions!After(length)
      OBVIOUS
    <3>1. CASE committed.B >= Instructions!Word \div 2
      BY <3>1 DEF Instructions!Draw, Visibles
    <3>2. CASE ~(committed.B >= Instructions!Word \div 2)
      BY <3>2 DEF Instructions!Draw, Visibles
    <3> QED BY <3>1, <3>2
  <2>2. CASE Instructions!Is("KEY_A")
             /\ committed' = [committed EXCEPT !.A = IF committed.KEYS = << >> THEN 0 ELSE Head(committed.KEYS),
                                     !.KEYS = IF committed.KEYS = << >> THEN committed.KEYS ELSE Tail(committed.KEYS),
                                     !.IP = Instructions!After(1)]
    <3>1. committed'.IP = Instructions!After(1)
      BY <2>2 DEF Visibles
    <3> QED BY <1>1, <1>2, <2>2, <3>1, Lengths
  <2>3. CASE Instructions!Is("DRW") /\ Instructions!Draw(committed.A, 1)
    BY <1>1, <1>2, <2>1, <2>3, Lengths
  <2>4. CASE Instructions!Is("RAM_DRW") /\ Instructions!Draw(Instructions!Short, 2)
    BY <1>1, <1>2, <2>1, <2>4, Lengths
  <2> QED BY <1>12, <2>2, <2>3, <2>4 DEF Instructions!Devices
<1> QED BY <1>5, <1>6, <1>7, <1>8, <1>9, <1>10, <1>11, <1>12 DEF Instructions!Next

\* What programs saw last is a state of the instruction set.
LEMMA CommittedType == ASSUME Inv PROVE committed \in Visibles
<1>1. CASE sim = "halted"
  <2>1. committed = Visible /\ Machine \in States
    BY <1>1 DEF Inv, Settled, AfterHalt
  <2> QED BY <2>1 DEF Visible, Machine, States, Visibles
<1>2. CASE sim # "halted"
  <2>1. CASE Repeating
    BY <2>1 DEF Repeating
  <2>2. CASE OnCourse
    <3>1. PICK run : History(run, SC) /\ committed = Seen(run[0])
      BY <2>2 DEF OnCourse
    <3>2. run[0] \in States
      BY <3>1 DEF History
    <3> QED BY <3>1, <3>2, SeenType
  <2> QED BY <1>2, <2>1, <2>2 DEF Inv, UnderWay
<1> QED BY <1>1, <1>2

\* The same by the names of the tools, whose table has no entry for some bytes.
LEMMA NextGoesOn ==
  ASSUME Inv, Instructions!Next, instruction_to_string(At(committed.RAM, committed.IP)) # "none",
         InstructionOf(At(committed.RAM, committed.IP)) \notin Jumps
  PROVE  committed'.IP = (committed.IP + InstructionLength(InstructionOf(At(committed.RAM, committed.IP)))) % Word
<1> DEFINE byte == At(committed.RAM, committed.IP)
<1>1. committed \in Visibles
  BY CommittedType
<1>2. byte \in Uint8
  <2>1. committed.RAM \in Memories
    BY <1>1 DEF Visibles
  <2> QED BY <2>1, AtType
<1>3. Len(Mnemonics) = 59
  BY DEF Mnemonics
<1>4. InstructionOf(byte) # "none"
  <2>1. byte = 63 \/ byte < 59
    BY <1>3 DEF instruction_to_string
  <2>2. byte % 64 = byte
    BY <1>2, <2>1, Ranges
  <2> QED BY <2>2 DEF InstructionOf
<1>5. committed'.IP = Plus(committed.IP, InstructionLength(InstructionOf(byte)))
  BY <1>1, <1>4, GoesOn
<1> QED BY <1>5 DEF Plus

\* The CPU goes on where instruction_stat says the next instruction is: assembler,
\* disassembler and code analyzer split the bytes of a program as the CPU does.
THEOREM ArgumentsAreSkipped == Spec => FetchesAsEncoded
<1>1. Inv /\ [Next]_allVars => [Torn \/ FetchedAsEncoded]_committed
  <2> SUFFICES ASSUME Inv, [Next]_allVars, ~Torn, ~committed.halted, committed' # committed,
                      instruction_to_string(At(committed.RAM, committed.IP)) # "none",
                      InstructionOf(At(committed.RAM, committed.IP)) \notin Jumps
               PROVE  committed'.IP = (committed.IP + InstructionLength(InstructionOf(At(committed.RAM, committed.IP)))) % Word
    BY DEF FetchedAsEncoded
  <2>1. Instructions!Next \/ Resume
    BY NextInv, StutterInv
  <2>2. ~Resume
    <3> SUFFICES ASSUME Resume PROVE FALSE
      OBVIOUS
    <3>1. committed \in Visibles
      BY CommittedType
    <3>2. committed' = committed
      BY <3>1 DEF Resume, Visibles
    <3> QED BY <3>2
  <2> QED BY <2>1, <2>2, NextGoesOn
<1> QED BY <1>1, Inductive, PTL DEF Spec, FetchesAsEncoded

=============================================================================
