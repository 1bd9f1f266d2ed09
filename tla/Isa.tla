-------------------------------- MODULE Isa ---------------------------------
(***************************************************************************)
(* The instruction set programs rely on: what each instruction does to the *)
(* registers and memories a program can see, in one step. It says nothing  *)
(* of the bus, the steps of an instruction and the registers X, Y and MAR. *)
(***************************************************************************)
EXTENDS Words

VARIABLE
  m   \* [A, B, SP, IP, SEC, NDX, FR, RAM, MEM, KEYS, ATTRIBUTES, PATTERNS, halted]

Is(instruction) == ~m.halted /\ InstructionOf(At(m.RAM, m.IP)) = instruction

After(length) == Plus(m.IP, length)
Short         == At(m.RAM, After(1))
Wide          == WordAt(m.RAM, After(1))

\* A jump is relative to the address of its argument.
Target(distance) == Plus(After(1), distance)

Above(n) == Plus(m.SP, n)

\* NDX has 8 bits, SEC 12.
Kept(reg, value) ==
  IF reg = "NDX" THEN value % Byte ELSE IF reg = "SEC" THEN value % 4096 ELSE value

Set(reg, value, length) == m' = [m EXCEPT ![reg] = Kept(reg, value), !.IP = After(length)]

Compute(reg, value, carry) ==
  m' = [m EXCEPT ![reg] = Kept(reg, value), !.FR = Flags(value, carry), !.IP = After(1)]

High(value) == ((Byte * value) % Word) + (m.A % Byte)

Jump(target) == m' = [m EXCEPT !.IP = target]
JumpRelative(from, distance) ==
  m' = [m EXCEPT !.IP = Plus(from, distance), !.FR = FlagsOfSum(from, distance)]

-----------------------------------------------------------------------------
Loads     == [RAM_AL |-> "A", RAM_BL |-> "B", RAM_NDX |-> "NDX"]
WideLoads == [RAM_A |-> "A", RAM_B |-> "B"]
Moves     == [A_B  |-> <<"A", "B">>,   B_A   |-> <<"B", "A">>,   A_SP  |-> <<"A", "SP">>,
              SP_A |-> <<"SP", "A">>,  A_SEC |-> <<"A", "SEC">>, SEC_A |-> <<"SEC", "A">>,
              NDX_A |-> <<"NDX", "A">>, A_NDX |-> <<"A", "NDX">>]
Pushes    == [PUSHA |-> "A", PUSHB |-> "B"]
Pops      == [POPA |-> "A", POPB |-> "B"]
Peeks     == [PEEKA |-> "A", PEEKB |-> "B"]

Load     == \E i \in DOMAIN Loads : Is(i) /\ Set(Loads[i], Short, 2)
WideLoad == \E i \in DOMAIN WideLoads : Is(i) /\ Set(WideLoads[i], Wide, 3)
Move     == \E i \in DOMAIN Moves : Is(i) /\ Set(Moves[i][2], m[Moves[i][1]], 1)

Arithmetic ==
  \/ Is("INCA")   /\ Compute("A", Plus(m.A, 1), m.A = Word - 1)
  \/ Is("INCB")   /\ Compute("B", Plus(m.B, 1), m.B = Word - 1)
  \/ Is("DECA")   /\ Compute("A", Plus(m.A, -1), m.A # 0)
  \/ Is("INCNDX") /\ Compute("NDX", m.NDX + 1, FALSE)
  \/ Is("SUM")    /\ Compute("A", Plus(m.A, m.B), m.A + m.B >= Word)
  \* A is subtracted from B; no borrow sets the carry, unless A is 0.
  \/ Is("SUB")    /\ Compute("A", Plus(m.B, -m.A), m.B >= m.A /\ m.A # 0)
  \/ Is("SHL")    /\ Compute("A", Plus(m.A, m.A), m.A >= Word \div 2)
  \/ Is("SHR")    /\ Compute("A", m.A \div 2, m.A % 2 = 1)
  \/ Is("AND")    /\ Compute("A", BitAnd(m.A, m.B), FALSE)
  \/ Is("CMPA")   /\ Compute("A", m.A, FALSE)
  \/ Is("CMPB")   /\ Compute("B", m.B, FALSE)

\* SP points below the last word pushed.
Stack ==
  \/ Is("INCSP") /\ Set("SP", Above(2), 1)
  \/ Is("DECSP") /\ Set("SP", Above(-2), 1)
  \/ \E i \in DOMAIN Pushes :
       Is(i) /\ m' = [m EXCEPT !.RAM = PutWord(@, m.SP, m[Pushes[i]]), !.SP = Above(-2), !.IP = After(1)]
  \/ \E i \in DOMAIN Pops :
       Is(i) /\ m' = [m EXCEPT ![Pops[i]] = WordAt(m.RAM, Above(2)), !.SP = Above(2), !.IP = After(1)]
  \/ \E i \in DOMAIN Peeks : Is(i) /\ Set(Peeks[i], WordAt(m.RAM, Above(2)), 1)
  \/ Is("PEEKAR") /\ m' = [m EXCEPT !.A = WordAt(m.RAM, Above(Short)),
                                    !.FR = FlagsOfSum(m.SP, Short), !.IP = After(2)]
  \/ Is("PUSHAR") /\ m' = [m EXCEPT !.RAM = PutWord(@, Above(Short), m.A),
                                    !.FR = FlagsOfSum(m.SP, Short), !.IP = After(2)]

Memory ==
  \/ Is("AL_rB")  /\ m' = [m EXCEPT !.RAM = Put(@, m.B, m.A % Byte), !.IP = After(1)]
  \/ Is("A_rB")   /\ m' = [m EXCEPT !.RAM = PutWord(@, m.B, m.A), !.IP = After(1)]
  \/ Is("rB_AL")  /\ Set("A", At(m.RAM, m.B), 1)
  \/ Is("rB_A")   /\ Set("A", WordAt(m.RAM, m.B), 1)
  \/ Is("B_AH")   /\ Set("A", High(m.B), 1)
  \/ Is("MEM_A")  /\ Set("A", At(m.MEM, Sector(m.SEC, m.NDX)), 1)
  \/ Is("MEM_AH") /\ Set("A", High(At(m.MEM, Sector(m.SEC, m.NDX))), 1)
  \/ Is("A_MEM")  /\ m' = [m EXCEPT !.MEM = Put(@, Sector(m.SEC, m.NDX), m.A % Byte), !.IP = After(1)]

Taken ==
  \/ Is("JMPRZ")  /\ "Z" \in m.FR
  \/ Is("JMPRN")  /\ "N" \in m.FR
  \/ Is("JMPRC")  /\ "C" \in m.FR
  \/ Is("JMPRNZ") /\ "Z" \notin m.FR
  \/ Is("JMPRNN") /\ "N" \notin m.FR
  \/ Is("JMPRNC") /\ "C" \notin m.FR

Conditional == \E i \in {"JMPRZ", "JMPRN", "JMPRC", "JMPRNZ", "JMPRNN", "JMPRNC"} : Is(i)

Called == [m EXCEPT !.RAM = PutWord(@, m.SP, After(1)), !.SP = Above(-2)]
Callee == WordAt(Called.RAM, After(1))

\* A call saves the address of its argument, RET goes past it. The argument is read after
\* the push, which may have overwritten it.
Control ==
  \/ Is("JMP")   /\ Jump(Wide)
  \/ Is("JMPA")  /\ Jump(m.A)
  \/ Is("JMPR")  /\ JumpRelative(After(1), Wide)
  \/ Is("JMPAR") /\ JumpRelative(After(1), m.A)
  \/ Taken /\ JumpRelative(After(1), Wide)
  \/ Conditional /\ ~Taken /\ Jump(After(3))
  \/ Is("CALL")  /\ m' = [Called EXCEPT !.IP = Callee]
  \/ Is("CALLR") /\ m' = [Called EXCEPT !.IP = Target(Callee), !.FR = FlagsOfSum(After(1), Callee)]
  \/ Is("RET")   /\ m' = [m EXCEPT !.IP = Plus(WordAt(m.RAM, Above(2)), 2), !.SP = Above(2)]
  \/ Is("HLT")   /\ m' = [m EXCEPT !.IP = After(1), !.halted = TRUE]
  \/ (Is("NOP") \/ Is("none")) /\ Jump(After(1))

\* Bit 15 of the address tells the patterns from the attributes.
Draw(value, length) ==
  m' = IF m.B >= Word \div 2
       THEN [m EXCEPT !.PATTERNS = Put(@, m.B % (Word \div 2), value % Byte), !.IP = After(length)]
       ELSE [m EXCEPT !.ATTRIBUTES = Put(@, m.B, value % Byte), !.IP = After(length)]

Devices ==
  \/ Is("KEY_A")   /\ m' = [m EXCEPT !.A = IF m.KEYS = << >> THEN 0 ELSE Head(m.KEYS),
                                     !.KEYS = IF m.KEYS = << >> THEN m.KEYS ELSE Tail(m.KEYS),
                                     !.IP = After(1)]
  \/ Is("DRW")     /\ Draw(m.A, 1)
  \/ Is("RAM_DRW") /\ Draw(Short, 2)

Next == Load \/ WideLoad \/ Move \/ Arithmetic \/ Stack \/ Memory \/ Control \/ Devices

Spec == [][Next]_m
=============================================================================
