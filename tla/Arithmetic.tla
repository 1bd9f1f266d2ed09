----------------------------- MODULE Arithmetic -----------------------------
(***************************************************************************)
(* The routines that divide, multiply and shift (src/asm/math.asm), one    *)
(* step per round of their loops, and the random numbers                   *)
(* (src/asm/rng.asm).                                                      *)
(*                                                                         *)
(* a and b are the registers at the call, the frame of the routine while   *)
(* it runs and the registers again when it has returned, until the caller  *)
(* resumes. B, which only div returns, is 0 after the others. call, the    *)
(* last call, is only observed.                                            *)
(***************************************************************************)
EXTENDS Integers

CONSTANTS
  Width,      \* bits of a word: 16
  Operands,   \* words that programs divide, multiply and shift
  Amounts     \* what they shift them by

Word == 2 ^ Width
Half == 2 ^ (Width - 1)
Words16 == 0 .. Word - 1

Shifts   == {"shiftl", "shiftr"}
Routines == {"div", "mul", "rng_next"} \cup Shifts

ASSUME WidthAssumption == Width \in Nat \ {0}
\* What a power of two is.
ASSUME PowersAssumption ==
  /\ 2 ^ 0 = 1
  /\ \A n \in 0 .. Width - 1 : 2 ^ n \in Nat \ {0} /\ 2 ^ (n + 1) = 2 * 2 ^ n
ASSUME OperandsAssumption == Operands \subseteq Words16 /\ Amounts \subseteq Words16

VARIABLES
  op,      \* the routine that runs, "returned" or "none"
  a, b,
  q,       \* quotient of div, partial product of mul
  r, i,    \* remainder and counter of div
  call

vars == <<op, a, b, q, r, i, call>>

\* What programs call.
Calls == {c \in [op : Routines, a : Operands, b : Operands \cup Amounts] :
            c.op \in Shifts => c.b \in Amounts}

NoCall == [op |-> "none", a |-> 0, b |-> 0]

Init ==
  /\ op = "none"
  /\ a = 0 /\ b = 0 /\ q = 0 /\ r = 0 /\ i = 0
  /\ call = NoCall

-----------------------------------------------------------------------------
(* SHL, SHR, SUM and SUB *)

Shl(x)     == (2 * x) % Word
Carry(x)   == IF x >= Half THEN 1 ELSE 0
Shr(x)     == x \div 2
Plus(x, y)  == (x + y) % Word
Minus(x, y) == (x - y) % Word
Negative(x) == x >= Half

Call(routine, x, y) ==
  /\ op = "none"
  /\ op' = routine
  /\ a' = x /\ b' = y
  /\ call' = [op |-> routine, a |-> x, b |-> y]
  /\ q' = 0 /\ r' = 0
  \* A dividend of 0 goes to the end at once.
  /\ i' = IF routine = "div" /\ y # 0 THEN Width + 1 ELSE 1

Return(x, y) ==
  /\ op' = "returned"
  /\ a' = x /\ b' = y
  /\ q' = 0 /\ r' = 0 /\ i' = 0
  /\ UNCHANGED call

\* The caller has taken the results: the registers are its own.
Resume ==
  /\ op = "returned"
  /\ op' = "none"
  /\ a' = 0 /\ b' = 0 /\ call' = NoCall
  /\ UNCHANGED <<q, r, i>>

-----------------------------------------------------------------------------
(* div *)

RoundsLeft == i - 1

\* The remainder with the next bit of the dividend.
NextRemainderWithoutBit(rest, dividend) == Shl(rest)
NextRemainder(rest, dividend) == Shl(rest) + Carry(dividend)

\* The divisor goes once more into what the difference is taken of unless that is negative.
GoesInto(difference) == ~ Negative(difference)

DivRound ==
  /\ op = "div" /\ RoundsLeft > 0
  /\ i' = RoundsLeft
  /\ b' = Shl(b)
  /\ LET rest == NextRemainder(r, b)
         difference == Minus(rest, a)
     IN  \/ /\ GoesInto(difference)
            /\ r' = difference /\ q' = Shl(q) + 1
         \/ /\ ~ GoesInto(difference)
            /\ r' = rest /\ q' = Shl(q)
  /\ UNCHANGED <<op, a, call>>

DivReturn ==
  /\ op = "div" /\ RoundsLeft = 0
  /\ Return(q, r)

-----------------------------------------------------------------------------
(* mul, shiftl, shiftr *)

Product == IF a % 2 = 1 THEN Plus(q, b) ELSE q

MulRound ==
  /\ op = "mul"
  /\ \/ /\ Shr(a) # 0
        /\ q' = Product /\ b' = Shl(b) /\ a' = Shr(a)
        /\ UNCHANGED <<op, r, i, call>>
     \/ /\ Shr(a) = 0
        /\ Return(Product, 0)

Shifted == IF op = "shiftl" THEN Shl(a) ELSE Shr(a)

ShiftRound ==
  /\ op \in Shifts
  /\ \/ /\ b # 0
        /\ a' = Shifted /\ b' = b - 1
        /\ UNCHANGED <<op, q, r, i, call>>
     \/ /\ b = 0
        /\ Return(a, 0)

-----------------------------------------------------------------------------
(* rng_next: the number is shifted on and added to the sum, five times. *)

Shift(x, n) == (x * 2 ^ n) % Word

SumOfShifts(seed) ==
  LET times8     == Shift(seed, 3)
      times32    == Shift(times8, 2)
      times64    == Shift(times32, 1)
      times4096  == Shift(times64, 6)
      times32768 == Shift(times4096, 3)
  IN  Plus(Plus(Plus(Plus(Plus(seed, times8), times32), times64), times4096), times32768)

\* The new state is the number that is returned.
RngReturn ==
  /\ op = "rng_next"
  /\ Return(Plus(SumOfShifts(a), 18000), 0)

Step == DivRound \/ DivReturn \/ MulRound \/ ShiftRound \/ RngReturn

Next == Step \/ Resume \/ \E c \in Calls : Call(c.op, c.a, c.b)

Spec == Init /\ [][Next]_vars

-----------------------------------------------------------------------------
(* Properties *)

TypeOK ==
  /\ op \in Routines \cup {"none", "returned"}
  /\ a \in Words16 /\ b \in Words16 /\ q \in Words16 /\ r \in Words16
  /\ i \in 0 .. Width + 1
  /\ call \in [op : Routines \cup {"none"}, a : Words16, b : Words16]

\* The comparison by the sign of the difference tells remainders from divisors up to the
\* middle of the word; the system divides by 10 and by 0x0800.
Divides(c, quotient, rest) ==
  c.a \in 1 .. Half => c.b = quotient * c.a + rest /\ rest < c.a

\* The number a word stands for modulo the width: of two's complement, the smaller one.
Signed(x) == IF Negative(x) THEN x - Word ELSE x

\* A routine that has returned has computed what its comment says: the quotient and the
\* remainder (asm/math.asm, div), the product modulo the width of the word (mul), the
\* shifted word (shiftl, shiftr), the random number of the parameters (asm/rng.asm).
DivResult == op = "returned" /\ call.op = "div" => Divides(call, a, b)
MulResult == op = "returned" /\ call.op = "mul" => a = (Signed(call.a) * Signed(call.b)) % Word
ShiftResult ==
  /\ op = "returned" /\ call.op = "shiftl" /\ call.b <= Width => a = (Signed(call.a) * 2 ^ call.b) % Word
  /\ op = "returned" /\ call.op = "shiftr" /\ call.b <= Width => a = call.a \div 2 ^ call.b
RngResult == op = "returned" /\ call.op = "rng_next" => a = (36969 * Signed(call.a) + 18000) % Word

ResultsRight == DivResult /\ MulResult /\ ShiftResult /\ RngResult
=============================================================================
