--------------------------- MODULE Screen_proofs ----------------------------
(***************************************************************************)
(* The screen shows the last lines that were written, clear.asm empties    *)
(* it, and print_int writes numbers in decimal: for screens of any size    *)
(* and words of every width that holds a character. First, what the        *)
(* routines of Arithmetic return, for words of every width and all         *)
(* operands: print_int divides by them.                                    *)
(***************************************************************************)
EXTENDS Screen, SequenceTheorems, WellFoundedInduction, TLAPS

-----------------------------------------------------------------------------
(* Remainders *)

LEMMA ModUnique ==
  ASSUME NEW w \in Nat \ {0}, NEW k \in Int, NEW m \in 0 .. w - 1
  PROVE  (k * w + m) % w = m
  OBVIOUS

LEMMA ModIs ==
  ASSUME NEW w \in Nat \ {0}, NEW x \in Int
  PROVE  /\ x % w \in 0 .. w - 1
         /\ \E k \in Int : x = (x % w) + k * w
<1>1. x % w \in 0 .. w - 1
  OBVIOUS
<1>2. x \div w \in Int /\ x = (x % w) + (x \div w) * w
  OBVIOUS
<1> QED
  BY <1>1, <1>2

LEMMA ModOnce ==
  ASSUME NEW w \in Nat \ {0}, NEW x \in Int
  PROVE  /\ x \in 0 .. w - 1 => x % w = x
         /\ x \in w .. 2 * w - 1 => x % w = x - w
         /\ x \in -w .. -1 => x % w = x + w
  OBVIOUS

\* Numbers that differ by a multiple of the modulus.
Congruent(x, y) == \E k \in Int : x = y + k * Word

LEMMA WordIs ==
  /\ Half \in Nat \ {0} /\ Word = 2 * Half /\ Word \in Nat \ {0}
  /\ Width \in Nat \ {0}
  /\ \A n \in 0 .. Width : 2 ^ n \in Nat \ {0}
<1>1. Width - 1 \in 0 .. Width - 1 /\ (Width - 1) + 1 = Width
  BY WidthAssumption
<1>2. Half \in Nat \ {0} /\ Word = 2 * Half
  BY <1>1, PowersAssumption DEF Half, Word
<1>3. ASSUME NEW n \in 0 .. Width
      PROVE  2 ^ n \in Nat \ {0}
  <2>1. CASE n = Width
    BY <2>1, <1>2 DEF Word
  <2>2. CASE n \in 0 .. Width - 1
    BY <2>2, PowersAssumption
  <2> QED
    BY <2>1, <2>2, WidthAssumption
<1> QED
  BY <1>2, <1>3, WidthAssumption

LEMMA CongruentMod ==
  ASSUME NEW x \in Int, NEW y \in Int, Congruent(x, y)
  PROVE  x % Word = y % Word
<1>1. PICK k \in Int : x = y + k * Word
  BY DEF Congruent
<1>2. PICK h \in Int : y = (y % Word) + h * Word
  BY ModIs, WordIs
<1>3. k + h \in Int /\ x = (k + h) * Word + (y % Word) /\ y % Word \in 0 .. Word - 1
  BY <1>1, <1>2, ModIs, WordIs
<1> QED
  BY <1>3, ModUnique, WordIs

LEMMA ModCongruent ==
  ASSUME NEW x \in Int
  PROVE  Congruent(x, x % Word) /\ Congruent(x % Word, x) /\ x % Word \in Words16
<1>1. PICK k \in Int : x = (x % Word) + k * Word
  BY ModIs, WordIs
<1>2. -k \in Int /\ x % Word = x + (-k) * Word /\ x % Word \in 0 .. Word - 1
  BY <1>1, ModIs, WordIs
<1> QED
  BY <1>1, <1>2 DEF Congruent, Words16

LEMMA CongruentRules ==
  ASSUME NEW x \in Int, NEW y \in Int, NEW z \in Int, Congruent(x, y)
  PROVE  /\ Congruent(z * x, z * y)
         /\ Congruent(y, z) => Congruent(x, z)
         /\ Congruent(y, x)
<1>1. PICK k \in Int : x = y + k * Word
  BY DEF Congruent
<1>2. z * k \in Int /\ z * x = z * y + (z * k) * Word
  BY <1>1, WordIs
<1>3. ASSUME Congruent(y, z) PROVE Congruent(x, z)
  <2>1. PICK h \in Int : y = z + h * Word
    BY <1>3 DEF Congruent
  <2>2. k + h \in Int /\ x = z + (k + h) * Word
    BY <1>1, <2>1, WordIs
  <2> QED
    BY <2>2 DEF Congruent
<1>4. -k \in Int /\ y = x + (-k) * Word
  BY <1>1, WordIs
<1> QED
  BY <1>1, <1>2, <1>3, <1>4 DEF Congruent

-----------------------------------------------------------------------------
(* Types *)

LEMMA ShlIs ==
  ASSUME NEW x \in Words16
  PROVE  Shl(x) = IF x < Half THEN 2 * x ELSE 2 * x - Word
<1> DEFINE double == 2 * x
<1>1. /\ double \in Int
      /\ x < Half => double \in 0 .. Word - 1
      /\ ~ (x < Half) => double \in Word .. 2 * Word - 1
  BY WordIs DEF Words16
<1>2. Shl(x) = double % Word
  BY DEF Shl
<1> HIDE DEF double
<1>3. Shl(x) = IF x < Half THEN double ELSE double - Word
  BY <1>1, <1>2, ModOnce, WordIs
<1> QED
  BY <1>3 DEF double

LEMMA Operations ==
  ASSUME NEW x \in Words16, NEW y \in Words16
  PROVE  /\ Shl(x) \in Words16 /\ Shl(x) + Carry(y) \in Words16 /\ Shl(x) + 1 \in Words16
         /\ Shr(x) \in Words16 /\ Plus(x, y) \in Words16 /\ Minus(x, y) \in Words16
<1>1. Shl(x) = IF x < Half THEN 2 * x ELSE 2 * x - Word
  BY ShlIs
<1>2. Shl(x) \in Words16 /\ Shl(x) + 1 \in Words16
  BY <1>1, WordIs DEF Words16
<1>3. Carry(y) \in {0, 1}
  BY DEF Carry
<1>4. Shr(x) \in Words16
  BY WordIs DEF Shr, Words16
<1>5. Plus(x, y) \in Words16 /\ Minus(x, y) \in Words16
  <2>1. x + y \in Int /\ x - y \in Int
    BY WordIs DEF Words16
  <2> QED
    BY <2>1, ModCongruent DEF Plus, Minus
<1> QED
  BY <1>2, <1>3, <1>4, <1>5, WordIs DEF Words16

LEMMA TypeInit == Init => TypeOK
  BY WordIs DEF Init, TypeOK, NoCall, Words16, Routines, Shifts

LEMMA SumOfShiftsType ==
  ASSUME NEW x \in Words16
  PROVE  Plus(SumOfShifts(x), 18000) \in Words16
<1>1. ASSUME NEW y \in Int, NEW z \in Int PROVE Plus(y, z) \in Words16 /\ Plus(y, z) \in Int
  BY ModCongruent, WordIs DEF Plus, Words16
<1>2. ASSUME NEW y \in Int, NEW n \in {1, 2, 3, 6} PROVE Shift(y, n) \in Int
  <2>1. 2 ^ 3 = 8 /\ 2 ^ 2 = 4 /\ 2 ^ 1 = 2 /\ 2 ^ 6 = 64
    OBVIOUS
  <2>2. y * 2 ^ n \in Int
    BY <2>1
  <2> QED
    BY <2>2, WordIs DEF Shift
<1> DEFINE times8     == Shift(x, 3)
           times32    == Shift(times8, 2)
           times64    == Shift(times32, 1)
           times4096  == Shift(times64, 6)
           times32768 == Shift(times4096, 3)
<1>3. x \in Int
  BY WordIs DEF Words16
<1>4. times8 \in Int
  BY <1>2, <1>3
<1>5. times32 \in Int
  BY <1>2, <1>4
<1>6. times64 \in Int
  BY <1>2, <1>5
<1>7. times4096 \in Int
  BY <1>2, <1>6
<1>8. times32768 \in Int
  BY <1>2, <1>7
<1> HIDE DEF times8, times32, times64, times4096, times32768
<1>9. Plus(Plus(Plus(Plus(Plus(x, times8), times32), times64), times4096), times32768) \in Int
  BY <1>1, <1>3, <1>4, <1>5, <1>6, <1>7, <1>8
<1>10. SumOfShifts(x) \in Int
  BY <1>9 DEF SumOfShifts, times8, times32, times64, times4096, times32768
<1> QED
  BY <1>1, <1>10

LEMMA TypeNext == TypeOK /\ [Next]_vars => TypeOK'
<1> SUFFICES ASSUME TypeOK, [Next]_vars
             PROVE  TypeOK'
  OBVIOUS
<1>0. 0 \in Words16 /\ Width \in Nat \ {0}
  BY WordIs DEF Words16
<1>1. ASSUME NEW x \in Words16, NEW y \in Words16, Return(x, y)
      PROVE  TypeOK'
  BY <1>0, <1>1 DEF TypeOK, Return
<1>2. CASE DivRound
  <2>1. RoundsLeft \in 0 .. Width + 1
    BY <1>0, <1>2 DEF DivRound, RoundsLeft, TypeOK
  <2>2. Shl(b) \in Words16 /\ Shl(q) \in Words16 /\ Shl(q) + 1 \in Words16
    BY Operations DEF TypeOK
  <2>3. NextRemainder(r, b) \in Words16
    BY Operations DEF TypeOK, NextRemainder
  <2>4. Minus(NextRemainder(r, b), a) \in Words16
    BY <2>3, Operations DEF TypeOK
  <2> QED
    BY <1>2, <2>1, <2>2, <2>3, <2>4 DEF DivRound, TypeOK
<1>3. CASE DivReturn
  BY <1>1, <1>3 DEF DivReturn, TypeOK
<1>4. CASE MulRound
  <2>1. Product \in Words16 /\ Shl(b) \in Words16 /\ Shr(a) \in Words16
    BY Operations DEF Product, TypeOK
  <2>2. CASE Return(Product, 0)
    BY <1>0, <1>1, <2>1, <2>2
  <2>3. CASE Shr(a) # 0 /\ q' = Product /\ b' = Shl(b) /\ a' = Shr(a) /\ UNCHANGED <<op, r, i, call>>
    BY <2>1, <2>3 DEF TypeOK
  <2> QED
    BY <1>4, <2>2, <2>3 DEF MulRound
<1>5. CASE ShiftRound
  <2>1. Shifted \in Words16
    BY Operations DEF Shifted, TypeOK
  <2>2. b # 0 => b - 1 \in Words16
    BY WordIs DEF TypeOK, Words16
  <2>3. CASE b = 0 /\ Return(a, 0)
    BY <1>0, <1>1, <2>3 DEF TypeOK
  <2>4. CASE b # 0 /\ a' = Shifted /\ b' = b - 1 /\ UNCHANGED <<op, q, r, i, call>>
    BY <2>1, <2>2, <2>4 DEF TypeOK
  <2> QED
    BY <1>5, <2>3, <2>4 DEF ShiftRound
<1>6. CASE RngReturn
  BY <1>0, <1>1, <1>6, SumOfShiftsType DEF RngReturn, TypeOK
<1>7. CASE Resume
  BY <1>0, <1>7 DEF Resume, TypeOK, NoCall
<1>8. ASSUME NEW c \in Calls, Call(c.op, c.a, c.b)
      PROVE  TypeOK'
  <2>1. c.op \in Routines /\ c.a \in Words16 /\ c.b \in Words16
    BY OperandsAssumption DEF Calls
  <2>2. i' \in 0 .. Width + 1
    BY <1>0, <1>8 DEF Call
  <2> QED
    BY <1>0, <1>8, <2>1, <2>2 DEF Call, TypeOK
<1>9. CASE UNCHANGED vars
  BY <1>9 DEF vars, TypeOK
<1> QED
  BY <1>2, <1>3, <1>4, <1>5, <1>6, <1>7, <1>8, <1>9 DEF Next, Step

\* What the routines hold in their registers and frames are words: no SHL, SUM or count
\* leaves the width.
THEOREM TypeCorrect == Spec => []TypeOK
  BY TypeInit, TypeNext, PTL DEF Spec
-----------------------------------------------------------------------------
(* Division *)

\* The dividend is y, P the weight of its bits that are left after the next round, rest
\* the bits left before it.
Divided(P, S, d, y, quotient, remainder, dividend, rest) ==
  /\ P \in Nat \ {0} /\ S \in Nat \ {0} /\ 2 * P * S = Word
  /\ d \in 1 .. Half /\ y \in Words16
  /\ quotient \in Words16 /\ remainder \in 0 .. d - 1 /\ dividend \in Words16
  /\ rest \in 0 .. 2 * P - 1
  /\ dividend = rest * S
  /\ y = (quotient * d + remainder) * (2 * P) + rest

LEMMA RoundOfDivision ==
  ASSUME NEW P, NEW S, NEW d, NEW y, NEW quotient, NEW remainder, NEW dividend, NEW rest,
         Divided(P, S, d, y, quotient, remainder, dividend, rest)
  PROVE  LET bit   == Carry(dividend)
             rest1 == rest - bit * P
             next  == NextRemainder(remainder, dividend)
         IN  /\ rest1 \in 0 .. P - 1
             /\ Shl(dividend) = rest1 * (2 * S)
             /\ next = 2 * remainder + bit /\ next \in 0 .. 2 * d - 1
             /\ Shl(quotient) = 2 * quotient
             /\ y = (2 * quotient * d + next) * P + rest1
             /\ GoesInto(Minus(next, d)) <=> next >= d
             /\ next >= d => Minus(next, d) = next - d
<1> DEFINE bit   == Carry(dividend)
           rest1 == rest - bit * P
           next  == NextRemainder(remainder, dividend)
<1> /\ P \in Nat \ {0} /\ S \in Nat \ {0} /\ 2 * P * S = Word
    /\ d \in 1 .. Half /\ y \in Words16
    /\ quotient \in Words16 /\ remainder \in 0 .. d - 1 /\ dividend \in Words16
    /\ rest \in 0 .. 2 * P - 1
    /\ dividend = rest * S
    /\ y = (quotient * d + remainder) * (2 * P) + rest
  BY DEF Divided
<1>0. /\ Half \in Nat \ {0} /\ Word = 2 * Half /\ Word \in Nat \ {0}
      /\ dividend \in 0 .. Word - 1 /\ quotient \in 0 .. Word - 1 /\ y \in 0 .. Word - 1
  BY WordIs DEF Words16
<1>1. Half = P * S
  <2>1. 2 * P * S = 2 * (P * S)
    OBVIOUS
  <2> QED
    BY <1>0, <2>1
<1>2. bit \in {0, 1} /\ (bit = 1 <=> rest >= P)
  <2>1. rest >= P => rest * S >= P * S
    <3>1. rest >= P => (rest - P) * S >= 0 /\ (rest - P) * S = rest * S - P * S
      OBVIOUS
    <3> QED
      BY <3>1
  <2>2. rest < P => rest * S < P * S
    <3>1. rest < P => (P - rest) * S >= S /\ (P - rest) * S = P * S - rest * S
      OBVIOUS
    <3> QED
      BY <3>1
  <2> QED
    BY <2>1, <2>2, <1>0, <1>1 DEF Carry
<1>3. rest1 \in 0 .. P - 1
  BY <1>2
<1>4. Shl(dividend) = rest1 * (2 * S)
  <2>1. rest1 * (2 * S) = 2 * dividend - bit * Word
    <3>1. rest * (2 * S) = 2 * dividend
      OBVIOUS
    <3>2. (rest - P) * (2 * S) = rest * (2 * S) - Word
      BY <1>0, <1>1
    <3>3. CASE bit = 0
      BY <1>0, <3>1, <3>3
    <3>4. CASE bit = 1
      BY <1>0, <3>1, <3>2, <3>4
    <3> QED
      BY <1>2, <3>3, <3>4
  <2>2. dividend < Half <=> bit = 0
    BY <1>0 DEF Carry
  <2>3. Shl(dividend) = IF dividend < Half THEN 2 * dividend ELSE 2 * dividend - Word
    BY ShlIs
  <2> QED
    BY <2>1, <2>2, <2>3, <1>0, <1>2
<1>5. next = 2 * remainder + bit /\ next \in 0 .. 2 * d - 1
  <2>1. remainder \in Words16 /\ remainder < Half
    BY <1>0 DEF Words16
  <2>2. Shl(remainder) = 2 * remainder
    BY <2>1, ShlIs
  <2> QED
    BY <1>2, <2>2 DEF NextRemainder
<1>6. Shl(quotient) = 2 * quotient
  <2>1. (quotient * d + remainder) * (2 * P) >= quotient * 2
    <3>1. quotient * d >= quotient
      BY <1>0
    <3>2. quotient * d + remainder >= quotient /\ quotient * d + remainder \in Nat
      BY <3>1, <1>0
    <3>3. \A m \in Nat : m * (2 * P) >= 2 * m
      OBVIOUS
    <3> QED
      BY <3>2, <3>3, <1>0
  <2>2. quotient < Half
    BY <2>1, <1>0
  <2> QED
    BY <2>2, ShlIs
<1>7. y = (2 * quotient * d + next) * P + rest1
  <2>1. (2 * quotient * d + next) * P + rest1
          = (quotient * d + remainder) * (2 * P) + bit * P + rest1
    BY <1>0, <1>2, <1>5
  <2> QED
    BY <2>1, <1>0, <1>2
<1>8. /\ GoesInto(Minus(next, d)) <=> next >= d
      /\ next >= d => Minus(next, d) = next - d
  <2>1. next - d \in Int /\ next - d < Half /\ next - d >= -Half
    BY <1>0, <1>5
  <2>2. CASE next >= d
    <3>1. Minus(next, d) = next - d
      BY <1>0, <1>5, <2>1, <2>2, ModOnce DEF Minus
    <3> QED
      BY <1>0, <1>5, <2>1, <2>2, <3>1 DEF GoesInto, Negative
  <2>3. CASE next < d
    <3>1. next - d \in -Word .. -1
      BY <1>0, <1>5, <2>1, <2>3
    <3>2. Minus(next, d) = next - d + Word
      BY <1>0, <1>5, <3>1, ModOnce DEF Minus
    <3> QED
      BY <1>0, <1>5, <2>1, <2>3, <3>2 DEF GoesInto, Negative
  <2> QED
    BY <1>5, <2>2, <2>3
<1> QED
  BY <1>3, <1>4, <1>5, <1>6, <1>7, <1>8
-----------------------------------------------------------------------------
(* Multiplication, shifts and random numbers *)

LEMMA PlusCongruent ==
  ASSUME NEW x \in Int, NEW y \in Int
  PROVE  /\ Plus(x, y) \in Words16 /\ Plus(x, y) \in Int
         /\ Congruent(Plus(x, y), x + y) /\ Congruent(x + y, Plus(x, y))
<1>1. x + y \in Int
  OBVIOUS
<1> QED
  BY <1>1, ModCongruent, WordIs DEF Plus, Words16

LEMMA ShlCongruent ==
  ASSUME NEW x \in Words16
  PROVE  Shl(x) \in Int /\ Congruent(2 * x, Shl(x))
<1>1. 2 * x \in Int
  BY WordIs DEF Words16
<1> QED
  BY <1>1, ModCongruent, WordIs DEF Shl, Words16

LEMMA SignedCongruent ==
  ASSUME NEW x \in Words16
  PROVE  Signed(x) \in Int /\ Congruent(x, Signed(x))
<1>1. x = x + 0 * Word /\ x = (x - Word) + 1 * Word /\ x \in Int /\ x - Word \in Int
  BY WordIs DEF Words16
<1> QED
  BY <1>1 DEF Signed, Congruent

LEMMA SignedProduct ==
  ASSUME NEW x \in Words16, NEW y \in Words16
  PROVE  Congruent(Signed(x) * Signed(y), x * y)
<1> DEFINE u == Signed(x)
           v == Signed(y)
<1>1. x \in Int /\ y \in Int
  BY WordIs DEF Words16
<1>2. u \in Int /\ v \in Int /\ Congruent(x, u) /\ Congruent(y, v)
  BY SignedCongruent
<1> HIDE DEF u, v
<1>3. PICK k \in Int : x = u + k * Word
  BY <1>2 DEF Congruent
<1>4. PICK h \in Int : y = v + h * Word
  BY <1>2 DEF Congruent
<1> DEFINE m == -(u * h + k * y)
<1>5. m \in Int
  BY <1>1, <1>2
<1>6. u * v = x * y + m * Word
  <2>1. u = x - k * Word /\ v = y - h * Word
    BY <1>1, <1>2, <1>3, <1>4, WordIs
  <2>2. u * v = u * y - (u * h) * Word
    BY <1>1, <1>2, <2>1, WordIs
  <2>3. u * y = x * y - (k * y) * Word
    BY <1>1, <1>2, <2>1, WordIs
  <2> QED
    BY <1>1, <1>2, <2>2, <2>3, WordIs
<1> QED
  BY <1>5, <1>6 DEF Congruent, u, v

LEMMA WordIsMod ==
  ASSUME NEW x \in Words16, NEW y \in Int, Congruent(y, x)
  PROVE  x = y % Word
<1>1. x \in Int /\ x % Word = x
  BY ModOnce, WordIs DEF Words16
<1> QED
  BY <1>1, CongruentMod

LEMMA RoundOfProduct ==
  ASSUME NEW x \in Words16, NEW y \in Words16, NEW sum \in Words16,
         NEW next \in Words16,
         next = IF x % 2 = 1 THEN Plus(sum, y) ELSE sum
  PROVE  Congruent(sum + x * y, next + Shr(x) * Shl(y))
<1> DEFINE half == Shr(x)
           bit  == x % 2
<1>1. half \in Nat /\ bit \in {0, 1} /\ x = 2 * half + bit
  BY WordIs DEF Words16, Shr
<1>2. x \in Int /\ y \in Int /\ sum \in Int /\ next \in Int
  BY WordIs DEF Words16
<1> HIDE DEF half, bit
<1>3. sum + x * y = (sum + bit * y) + half * (2 * y)
  BY <1>1, <1>2
<1>4. Congruent(sum + bit * y, next)
  <2>1. CASE bit = 0
    <3>1. sum + bit * y = next + 0 * Word
      BY <1>1, <1>2, <2>1, WordIs DEF bit
    <3> QED
      BY <3>1 DEF Congruent
  <2>2. CASE bit = 1
    <3>1. next = Plus(sum, y) /\ sum + bit * y = sum + y
      BY <1>2, <2>2 DEF bit
    <3> QED
      BY <1>2, <3>1, PlusCongruent
  <2> QED
    BY <1>1, <2>1, <2>2
<1>5. Congruent(half * (2 * y), half * Shl(y))
  <2>1. 2 * y \in Int /\ half \in Int
    BY <1>1, <1>2
  <2> QED
    BY <2>1, ShlCongruent, CongruentRules
<1>6. PICK k \in Int : sum + bit * y = next + k * Word
  BY <1>4 DEF Congruent
<1>7. PICK h \in Int : half * (2 * y) = half * Shl(y) + h * Word
  BY <1>5 DEF Congruent
<1>8. half * Shl(y) \in Int /\ half * (2 * y) \in Int /\ sum + bit * y \in Int
  BY <1>1, <1>2, ShlCongruent
<1>9. k + h \in Int /\ sum + x * y = (next + half * Shl(y)) + (k + h) * Word
  BY <1>2, <1>3, <1>6, <1>7, <1>8, WordIs
<1> QED
  BY <1>9 DEF Congruent, half

LEMMA DivUnique ==
  ASSUME NEW w \in Nat \ {0}, NEW k \in Int, NEW m \in 0 .. w - 1
  PROVE  (k * w + m) \div w = k
  OBVIOUS

LEMMA DivideTwice ==
  ASSUME NEW x \in Nat, NEW P \in Nat \ {0}
  PROVE  (x \div 2) \div P = x \div (2 * P)
<1> DEFINE u == x \div 2
           e == x % 2
           v == u \div P
           f == u % P
<1>1. u \in Nat /\ e \in {0, 1} /\ x = 2 * u + e
  OBVIOUS
<1> HIDE DEF u, e
<1>2. v \in Int /\ f \in 0 .. P - 1 /\ u = v * P + f
  BY <1>1
<1> HIDE DEF v, f
<1>3. x = v * (2 * P) + (2 * f + e) /\ 2 * f + e \in 0 .. 2 * P - 1 /\ 2 * P \in Nat \ {0}
  BY <1>1, <1>2
<1>4. x \div (2 * P) = v
  BY <1>2, <1>3, DivUnique
<1> QED
  BY <1>4 DEF u, v
LEMMA RoundOfShift ==
  ASSUME NEW x \in Words16, NEW n \in 1 .. Width
  PROVE  /\ Congruent(x * 2 ^ n, Shl(x) * 2 ^ (n - 1))
         /\ Shr(x) \div 2 ^ (n - 1) = x \div 2 ^ n
<1> DEFINE P == 2 ^ (n - 1)
<1>1. P \in Nat \ {0} /\ 2 ^ n = 2 * P
  <2>1. n - 1 \in 0 .. Width - 1 /\ (n - 1) + 1 = n
    BY WordIs
  <2> QED
    BY <2>1, PowersAssumption
<1> HIDE DEF P
<1>2. x \in Nat
  BY WordIs DEF Words16
<1>3. Congruent(x * 2 ^ n, Shl(x) * P)
  <2>1. x * 2 ^ n = P * (2 * x)
    BY <1>1, <1>2
  <2>2. Shl(x) * P = P * Shl(x) /\ Shl(x) \in Int /\ 2 * x \in Int /\ P \in Int
    BY <1>1, <1>2, ShlCongruent
  <2> QED
    BY <2>1, <2>2, ShlCongruent, CongruentRules
<1>4. Shr(x) \div P = x \div 2 ^ n
  BY <1>1, <1>2, DivideTwice DEF Shr
<1> QED
  BY <1>3, <1>4 DEF P

\* y comes to m times x.
Multiple(y, m, x) == y \in Int /\ Congruent(y, m * x)

LEMMA SumOfMultiples ==
  ASSUME NEW x \in Int, NEW y, NEW z, NEW m \in Int, NEW l \in Int,
         Multiple(y, m, x), Multiple(z, l, x)
  PROVE  Multiple(Plus(y, z), m + l, x)
<1>1. y \in Int /\ z \in Int /\ m * x \in Int /\ l * x \in Int /\ (m + l) * x \in Int
  BY DEF Multiple
<1>2. PICK k \in Int : y = m * x + k * Word
  BY DEF Multiple, Congruent
<1>3. PICK h \in Int : z = l * x + h * Word
  BY DEF Multiple, Congruent
<1>4. k + h \in Int /\ y + z = (m + l) * x + (k + h) * Word
  BY <1>1, <1>2, <1>3, WordIs
<1>5. Congruent(y + z, (m + l) * x)
  BY <1>4 DEF Congruent
<1>6. y + z \in Int /\ Plus(y, z) \in Int /\ Congruent(Plus(y, z), y + z)
  BY <1>1, PlusCongruent
<1> QED
  BY <1>1, <1>5, <1>6, CongruentRules DEF Multiple

LEMMA ProductOfMultiple ==
  ASSUME NEW x \in Int, NEW y, NEW m \in Int, Multiple(y, m, x), NEW P \in Int
  PROVE  Multiple((y * P) % Word, P * m, x)
<1>1. y \in Int /\ m * x \in Int /\ Congruent(y, m * x)
  BY DEF Multiple
<1>2. P * y \in Int /\ P * (m * x) \in Int /\ y * P = P * y /\ P * (m * x) = (P * m) * x
  BY <1>1
<1>3. Congruent(P * y, (P * m) * x)
  BY <1>1, <1>2, CongruentRules
<1> DEFINE z == P * y
<1>4. Congruent(z % Word, z) /\ z % Word \in Int /\ z \in Int
  <2>1. z \in Int
    BY <1>2
  <2> HIDE DEF z
  <2>2. Congruent(z % Word, z) /\ z % Word \in Words16
    BY <2>1, ModCongruent
  <2> QED
    BY <2>1, <2>2, WordIs DEF Words16
<1>5. Congruent((P * y) % Word, (P * m) * x)
  BY <1>2, <1>3, <1>4, CongruentRules
<1> QED
  BY <1>2, <1>4, <1>5 DEF Multiple

LEMMA ShiftOfMultiple ==
  ASSUME NEW x \in Int, NEW y, NEW m \in Int, Multiple(y, m, x)
  PROVE  /\ Multiple(Shift(y, 1), 2 * m, x)
         /\ Multiple(Shift(y, 2), 4 * m, x)
         /\ Multiple(Shift(y, 3), 8 * m, x)
         /\ Multiple(Shift(y, 6), 64 * m, x)
<1>1. /\ Shift(y, 1) = (y * 2) % Word /\ Shift(y, 2) = (y * 4) % Word
      /\ Shift(y, 3) = (y * 8) % Word /\ Shift(y, 6) = (y * 64) % Word
  <2>1. 2 ^ 3 = 8 /\ 2 ^ 2 = 4 /\ 2 ^ 1 = 2 /\ 2 ^ 6 = 64
    OBVIOUS
  <2> QED
    BY <2>1 DEF Shift
<1> QED
  BY <1>1, ProductOfMultiple

LEMMA RandomNumber ==
  ASSUME NEW x \in Words16
  PROVE  Congruent(Plus(SumOfShifts(x), 18000), 36969 * x + 18000)
<1> DEFINE times8     == Shift(x, 3)
           times32    == Shift(times8, 2)
           times64    == Shift(times32, 1)
           times4096  == Shift(times64, 6)
           times32768 == Shift(times4096, 3)
           sum9     == Plus(x, times8)
           sum41    == Plus(sum9, times32)
           sum105   == Plus(sum41, times64)
           sum4201  == Plus(sum105, times4096)
           sum36969 == Plus(sum4201, times32768)
<1>0. x \in Int 
  BY WordIs DEF Words16
<1>1. Multiple(x, 1, x)
  <2>1. x = 1 * x + 0 * Word
    BY <1>0, WordIs
  <2> QED
    BY <1>0, <2>1 DEF Multiple, Congruent
<1>2. Multiple(times8, 8, x)
  BY <1>0, <1>1, ShiftOfMultiple
<1> HIDE DEF times8
<1>3. Multiple(times32, 32, x)
  BY <1>0, <1>2, ShiftOfMultiple
<1> HIDE DEF times32
<1>4. Multiple(times64, 64, x)
  BY <1>0, <1>3, ShiftOfMultiple
<1> HIDE DEF times64
<1>5. Multiple(times4096, 4096, x)
  BY <1>0, <1>4, ShiftOfMultiple
<1> HIDE DEF times4096
<1>6. Multiple(times32768, 32768, x)
  BY <1>0, <1>5, ShiftOfMultiple
<1> HIDE DEF times32768
<1>7. Multiple(sum9, 9, x)
  BY <1>0, <1>1, <1>2, SumOfMultiples
<1> HIDE DEF sum9
<1>8. Multiple(sum41, 41, x)
  BY <1>0, <1>3, <1>7, SumOfMultiples
<1> HIDE DEF sum41
<1>9. Multiple(sum105, 105, x)
  BY <1>0, <1>4, <1>8, SumOfMultiples
<1> HIDE DEF sum105
<1>10. Multiple(sum4201, 4201, x)
  BY <1>0, <1>5, <1>9, SumOfMultiples
<1> HIDE DEF sum4201
<1>11. Multiple(sum36969, 36969, x)
  BY <1>0, <1>6, <1>10, SumOfMultiples
<1> HIDE DEF sum36969
<1>12. SumOfShifts(x) = sum36969
  BY DEF SumOfShifts, sum9, sum41, sum105, sum4201, sum36969,
         times8, times32, times64, times4096, times32768
<1> DEFINE c == 18000
           mx == 36969 * x
<1>13. sum36969 \in Int /\ mx \in Int /\ c \in Int /\ Congruent(sum36969, mx)
  BY <1>0, <1>11 DEF Multiple
<1>14. Plus(SumOfShifts(x), 18000) = Plus(sum36969, c) /\ 36969 * x + 18000 = mx + c
  BY <1>12
<1> HIDE DEF c, mx
<1>15. sum36969 + c \in Int /\ mx + c \in Int /\ Congruent(sum36969 + c, mx + c)
  <2>1. PICK k \in Int : sum36969 = mx + k * Word
    BY <1>13 DEF Congruent
  <2>2. sum36969 + c = (mx + c) + k * Word
    BY <1>13, <2>1, WordIs
  <2> QED
    BY <1>13, <2>2 DEF Congruent
<1>16. Congruent(Plus(sum36969, c), sum36969 + c) /\ Plus(sum36969, c) \in Int
  BY <1>13, PlusCongruent
<1> QED
  BY <1>14, <1>15, <1>16, CongruentRules
-----------------------------------------------------------------------------
(* Invariant *)

\* The routine that runs is the one that was called.
CallInv == op \in Routines => call.op = op

\* The bits of the dividend that are left, above them zeros, and what the quotient and the
\* remainder make of the others.
DivInv ==
  op = "div" /\ call.a \in 1 .. Half =>
    /\ a = call.a /\ r \in 0 .. a - 1 /\ i \in 1 .. Width + 1
    /\ 2 ^ RoundsLeft * 2 ^ (Width - RoundsLeft) = Word
    /\ \E rest \in 0 .. 2 ^ RoundsLeft - 1 :
         /\ b = rest * 2 ^ (Width - RoundsLeft)
         /\ call.b = (q * a + r) * 2 ^ RoundsLeft + rest

\* The sum and the product that is left.
MulInv == op = "mul" => Congruent(call.a * call.b, q + a * b)

\* The shifts that are left.
ShiftInv ==
  /\ op = "shiftl" /\ call.b <= Width => b <= Width /\ Congruent(call.a * 2 ^ call.b, a * 2 ^ b)
  /\ op = "shiftr" /\ call.b <= Width => b <= Width /\ a \div 2 ^ b = call.a \div 2 ^ call.b

RngInv == op = "rng_next" => a = call.a

IInv == TypeOK /\ CallInv /\ DivInv /\ MulInv /\ ShiftInv /\ RngInv /\ ResultsRight

LEMMA IInvInit == Init => IInv
  BY TypeInit DEF Init, IInv, CallInv, DivInv, MulInv, ShiftInv, RngInv, ResultsRight, Routines,
       Shifts, DivResult, MulResult, ShiftResult, RngResult

\* The rounds of the other routines are no concern of an invariant about one.
LEMMA OneRoutine ==
  ASSUME TypeOK', call' = call, CallInv,
         op \in Routines, op' \in {op, "returned"}
  PROVE  /\ CallInv'
         /\ op # "div" => DivInv' /\ DivResult'
         /\ op # "mul" => MulInv' /\ MulResult'
         /\ op \notin Shifts => ShiftInv' /\ ShiftResult'
         /\ op # "rng_next" => RngInv' /\ RngResult'
         /\ op' = op => DivResult' /\ MulResult' /\ ShiftResult' /\ RngResult'
         /\ op' = "returned" => DivInv' /\ MulInv' /\ ShiftInv' /\ RngInv'
  BY DEF CallInv, DivInv, MulInv, ShiftInv, RngInv, DivResult, MulResult, ShiftResult, RngResult,
       Routines, Shifts

LEMMA StartOfRoutine ==
  ASSUME TypeOK, TypeOK', NEW routine \in Routines, NEW x \in Words16, NEW y \in Words16,
         Call(routine, x, y)
  PROVE  IInv'
<1>1. /\ op' = routine /\ a' = x /\ b' = y /\ q' = 0 /\ r' = 0
      /\ call' = [op |-> routine, a |-> x, b |-> y]
      /\ i' = IF routine = "div" /\ y # 0 THEN Width + 1 ELSE 1
  BY DEF Call
<1>2. CallInv' /\ RngInv' /\ ResultsRight'
  BY <1>1 DEF CallInv, RngInv, ResultsRight, DivResult, MulResult, ShiftResult, RngResult,
       Routines, Shifts
<1>3. MulInv'
  <2>1. x * y = (0 + x * y) + 0 * Word
    BY WordIs DEF Words16
  <2> QED
    BY <1>1, <2>1 DEF MulInv, Congruent
<1>4. ShiftInv'
  <2>1. y <= Width => x * 2 ^ y = x * 2 ^ y + 0 * Word
    <3>1. y <= Width => 2 ^ y \in Int
      BY WordIs DEF Words16
    <3> QED
      BY <3>1, WordIs DEF Words16
  <2> QED
    BY <1>1, <2>1 DEF ShiftInv, Congruent
<1>5. ASSUME routine = "div", x \in 1 .. Half
      PROVE  DivInv'
  <2>1. 2 ^ 0 = 1 /\ 2 ^ Width = Word
    BY DEF Word
  <2>2. CASE y # 0
    <3>1. RoundsLeft' = Width /\ Width - RoundsLeft' = 0
      BY <1>1, <1>5, <2>2, WordIs DEF RoundsLeft
    <3>2. y \in 0 .. Word - 1 /\ y = y * 1 /\ y = (0 * x + 0) * Word + y /\ Word * 1 = Word
      BY <1>5, WordIs DEF Words16
    <3>3. 0 \in 0 .. x - 1 /\ Width + 1 \in 1 .. Width + 1
      BY <1>5, WordIs
    <3> QED
      BY <1>1, <1>5, <2>1, <2>2, <3>1, <3>2, <3>3 DEF DivInv
  <2>3. CASE y = 0
    <3>1. RoundsLeft' = 0 /\ Width - RoundsLeft' = Width
      BY <1>1, <2>3, WordIs DEF RoundsLeft
    <3>2. 0 \in 0 .. 1 - 1 /\ 0 = 0 * Word /\ 0 = (0 * x + 0) * 1 + 0 /\ 1 * Word = Word
      BY <1>5, WordIs DEF Words16
    <3>3. 0 \in 0 .. x - 1 /\ 1 \in 1 .. Width + 1
      BY <1>5, WordIs
    <3> QED
      BY <1>1, <1>5, <2>1, <2>3, <3>1, <3>2, <3>3 DEF DivInv
  <2> QED
    BY <2>2, <2>3
<1>6. DivInv'
  BY <1>1, <1>5 DEF DivInv
<1> QED
  BY <1>2, <1>3, <1>4, <1>6 DEF IInv
LEMMA DivRoundKeepsIInv ==
  ASSUME IInv, TypeOK', DivRound
  PROVE  IInv'
<1>1. op' = "div" /\ op = "div" /\ a' = a /\ call' = call /\ i' = RoundsLeft /\ RoundsLeft > 0
  BY DEF DivRound
<1>2. CallInv' /\ MulInv' /\ ShiftInv' /\ RngInv' /\ ResultsRight'
  BY <1>1, OneRoutine DEF IInv, Routines, Shifts, ResultsRight
<1>3. ASSUME call.a \in 1 .. Half
      PROVE  DivInv'
  <2>1. /\ a = call.a /\ r \in 0 .. a - 1 /\ i \in 1 .. Width + 1
        /\ 2 ^ RoundsLeft * 2 ^ (Width - RoundsLeft) = Word
    BY <1>1, <1>3 DEF IInv, DivInv
  <2>2. PICK rest \in 0 .. 2 ^ RoundsLeft - 1 :
          b = rest * 2 ^ (Width - RoundsLeft) /\ call.b = (q * a + r) * 2 ^ RoundsLeft + rest
    BY <1>1, <1>3 DEF IInv, DivInv
  <2> DEFINE P == 2 ^ (RoundsLeft - 1)
             S == 2 ^ (Width - RoundsLeft)
  <2>3. RoundsLeft \in 1 .. Width /\ i' = RoundsLeft /\ RoundsLeft' = RoundsLeft - 1
    BY <1>1, <2>1, WordIs DEF RoundsLeft
  <2>4. P \in Nat \ {0} /\ 2 ^ RoundsLeft = 2 * P
    <3>1. RoundsLeft - 1 \in 0 .. Width - 1 /\ (RoundsLeft - 1) + 1 = RoundsLeft
      BY <2>3, WordIs
    <3> QED
      BY <3>1, PowersAssumption
  <2>5. S \in Nat \ {0} /\ 2 ^ (Width - RoundsLeft') = 2 * S
    <3>1. Width - RoundsLeft \in 0 .. Width - 1 /\ (Width - RoundsLeft) + 1 = Width - RoundsLeft'
      BY <2>3, WordIs
    <3> QED
      BY <3>1, PowersAssumption
  <2>6. 2 ^ RoundsLeft' = P
    BY <2>3
  <2> HIDE DEF P, S
  <2> DEFINE bit   == Carry(b)
             rest1 == rest - bit * P
             next  == NextRemainder(r, b)
  <2>7. /\ 2 * P * S = Word /\ rest \in 0 .. 2 * P - 1 /\ b = rest * S
        /\ call.b = (q * a + r) * (2 * P) + rest
    BY <2>1, <2>2, <2>4 DEF S
  <2>8. a \in 1 .. Half /\ call.b \in Words16 /\ q \in Words16 /\ b \in Words16
    BY <1>3, <2>1 DEF IInv, TypeOK
  <2>9. /\ rest1 \in 0 .. P - 1
        /\ Shl(b) = rest1 * (2 * S)
        /\ next \in 0 .. 2 * a - 1
        /\ Shl(q) = 2 * q
        /\ call.b = (2 * q * a + next) * P + rest1
        /\ GoesInto(Minus(next, a)) <=> next >= a
        /\ next >= a => Minus(next, a) = next - a
    <3>1. Divided(P, S, a, call.b, q, r, b, rest)
      BY <2>1, <2>4, <2>5, <2>7, <2>8 DEF Divided
    <3> QED
      BY <3>1, RoundOfDivision
  <2> HIDE DEF bit, rest1, next
  <2>10. b' = rest1 * (2 * S)
    BY <2>9 DEF DivRound
  <2>11. r' \in 0 .. a' - 1 /\ call.b = (q' * a' + r') * P + rest1
    <3>1. CASE GoesInto(Minus(next, a))
      <4>1. r' = next - a /\ q' = 2 * q + 1
        BY <3>1, <2>9 DEF DivRound, next
      <4>2. q' * a + r' = 2 * q * a + next
        BY <4>1, <2>8, <2>9, WordIs DEF Words16
      <4> QED
        BY <1>1, <2>8, <2>9, <3>1, <4>1, <4>2
    <3>2. CASE ~ GoesInto(Minus(next, a))
      <4>1. r' = next /\ q' = 2 * q
        BY <3>2, <2>9 DEF DivRound, next
      <4> QED
        BY <1>1, <2>8, <2>9, <3>2, <4>1
    <3> QED
      BY <3>1, <3>2
  <2>12. P * (2 * S) = Word
    BY <2>4, <2>5, <2>7
  <2>13. i' \in 1 .. Width + 1 /\ a' = call'.a
    BY <1>1, <2>1, <2>3, WordIs
  <2> QED
    BY <1>1, <2>5, <2>6, <2>9, <2>10, <2>11, <2>12, <2>13 DEF DivInv
<1> QED
  BY <1>1, <1>2, <1>3 DEF IInv, DivInv
LEMMA DivReturnKeepsIInv ==
  ASSUME IInv, TypeOK', DivReturn
  PROVE  IInv'
<1>1. /\ op = "div" /\ op' = "returned" /\ a' = q /\ b' = r /\ call' = call
      /\ call.op = "div" /\ RoundsLeft = 0
  BY DEF DivReturn, Return, IInv, CallInv, Routines
<1>2. /\ CallInv' /\ DivInv' /\ MulInv' /\ ShiftInv' /\ RngInv'
      /\ MulResult' /\ ShiftResult' /\ RngResult'
  BY <1>1, OneRoutine DEF IInv, Routines, Shifts
<1>3. ASSUME call.a \in 1 .. Half
      PROVE  call.b = q * call.a + r /\ r < call.a
  <2>1. 2 ^ RoundsLeft = 1
    BY <1>1
  <2>2. PICK rest \in 0 .. 2 ^ RoundsLeft - 1 : call.b = (q * a + r) * 2 ^ RoundsLeft + rest
    BY <1>1, <1>3 DEF IInv, DivInv
  <2>3. call.b = (q * a + r) * 1 + 0
    BY <2>1, <2>2
  <2>4. a = call.a /\ r \in 0 .. a - 1 /\ q \in Nat
    BY <1>1, <1>3, WordIs DEF IInv, DivInv, TypeOK, Words16
  <2> QED
    BY <1>3, <2>3, <2>4
<1>4. DivResult'
  BY <1>1, <1>3 DEF DivResult, Divides
<1> QED
  BY <1>2, <1>4 DEF IInv, ResultsRight

LEMMA MulRoundKeepsIInv ==
  ASSUME IInv, TypeOK', MulRound
  PROVE  IInv'
<1>1. /\ op = "mul" /\ op' \in {op, "returned"} /\ call' = call /\ call.op = "mul"
      /\ call.a \in Words16 /\ call.b \in Words16
      /\ a \in Words16 /\ b \in Words16 /\ q \in Words16
  BY DEF MulRound, Return, IInv, CallInv, TypeOK, Routines, Shifts
<1>2. CallInv' /\ DivInv' /\ ShiftInv' /\ RngInv' /\ DivResult' /\ ShiftResult' /\ RngResult'
  BY <1>1, OneRoutine DEF IInv, Routines, Shifts
<1>3. Product \in Words16 /\ Product \in Int
  <2>1. Plus(q, b) \in Words16
    BY <1>1, Operations
  <2>2. Product \in Words16
    BY <1>1, <2>1 DEF Product
  <2> QED
    BY <2>2, WordIs DEF Words16
<1>4. /\ call.a * call.b \in Int /\ q + a * b \in Int
      /\ Shl(b) \in Int /\ Shr(a) \in Int /\ Product + Shr(a) * Shl(b) \in Int
  <2>1. Shl(b) \in Words16 /\ Shr(a) \in Words16
    BY <1>1, Operations
  <2>2. /\ call.a \in Int /\ call.b \in Int /\ q \in Int /\ a \in Int /\ b \in Int
        /\ Shl(b) \in Int /\ Shr(a) \in Int
    BY <1>1, <2>1, WordIs DEF Words16
  <2>3. \A x, y \in Int : x * y \in Int
    OBVIOUS
  <2>4. call.a * call.b \in Int /\ a * b \in Int /\ Shr(a) * Shl(b) \in Int
    BY <2>2, <2>3
  <2> QED
    BY <1>3, <2>2, <2>4
<1>5. Congruent(call.a * call.b, Product + Shr(a) * Shl(b))
  <2>1. Congruent(q + a * b, Product + Shr(a) * Shl(b))
    BY <1>1, <1>3, RoundOfProduct DEF Product
  <2>2. Congruent(call.a * call.b, q + a * b)
    BY <1>1 DEF IInv, MulInv
  <2> DEFINE x == call.a * call.b
             y == q + a * b
             z == Product + Shr(a) * Shl(b)
  <2>3. x \in Int /\ y \in Int /\ z \in Int /\ Congruent(x, y) /\ Congruent(y, z)
    BY <1>4, <2>1, <2>2
  <2> HIDE DEF x, y, z
  <2>4. Congruent(x, z)
    BY <2>3, CongruentRules
  <2> QED
    BY <2>4 DEF x, z
<1>6. CASE op' = op
  <2>1. q' = Product /\ b' = Shl(b) /\ a' = Shr(a)
    BY <1>1, <1>6 DEF MulRound, Return
  <2>2. MulInv' /\ MulResult'
    BY <1>1, <1>5, <1>6, <2>1 DEF MulInv, MulResult
  <2> QED
    BY <1>2, <2>2 DEF IInv, ResultsRight
<1>7. CASE op' = "returned"
  <2>1. Shr(a) = 0 /\ a' = Product
    BY <1>1, <1>7 DEF MulRound, Return
  <2>2. Product + Shr(a) * Shl(b) = Product
    BY <1>3, <1>4, <2>1
  <2>3. Congruent(call.a * call.b, Product)
    BY <1>5, <2>2
  <2>4. Congruent(Signed(call.a) * Signed(call.b), call.a * call.b)
    BY <1>1, SignedProduct
  <2>5. Signed(call.a) * Signed(call.b) \in Int
    BY <1>1, SignedCongruent
  <2>6. Product = (Signed(call.a) * Signed(call.b)) % Word
    <3> DEFINE x == Signed(call.a) * Signed(call.b)
               y == call.a * call.b
    <3>1. x \in Int /\ y \in Int /\ Congruent(x, y) /\ Congruent(y, Product)
      BY <1>4, <2>3, <2>4, <2>5
    <3> HIDE DEF x, y
    <3>2. Product = x % Word
      BY <1>3, <3>1, CongruentRules, WordIsMod
    <3> QED
      BY <3>2 DEF x
  <2>7. MulInv' /\ MulResult'
    BY <1>1, <1>7, <2>1, <2>6 DEF MulInv, MulResult
  <2> QED
    BY <1>2, <2>7 DEF IInv, ResultsRight
<1> QED
  BY <1>1, <1>6, <1>7
LEMMA ShiftRoundKeepsIInv ==
  ASSUME IInv, TypeOK', ShiftRound
  PROVE  IInv'
<1>1. /\ op \in Shifts /\ op' \in {op, "returned"} /\ call' = call /\ call.op = op
      /\ call.a \in Words16 /\ a \in Words16 /\ b \in Words16 /\ call.b \in Words16
  BY DEF ShiftRound, Return, IInv, CallInv, TypeOK, Routines
<1>2. CallInv' /\ DivInv' /\ MulInv' /\ RngInv' /\ DivResult' /\ MulResult' /\ RngResult'
  BY <1>1, OneRoutine DEF IInv, Routines, Shifts
<1>3. CASE op' = op
  <2>1. b \in Nat \ {0} /\ a' = Shifted /\ b' = b - 1
    BY <1>1, <1>3, WordIs DEF ShiftRound, Return, Words16, Shifts
  <2>2. ASSUME call.b <= Width, b <= Width
        PROVE  /\ Congruent(a * 2 ^ b, Shl(a) * 2 ^ (b - 1))
               /\ Shr(a) \div 2 ^ (b - 1) = a \div 2 ^ b
    <3>1. b \in 1 .. Width
      BY <2>1, <2>2, WordIs
    <3> QED
      BY <1>1, <3>1, RoundOfShift
  <2>3. ASSUME op = "shiftl", call.b <= Width
        PROVE  b' <= Width /\ Congruent(call.a * 2 ^ call.b, a' * 2 ^ b')
    <3>1. b <= Width /\ Congruent(call.a * 2 ^ call.b, a * 2 ^ b)
      BY <2>3 DEF IInv, ShiftInv
    <3>2. a' = Shl(a) /\ b' = b - 1 /\ b' <= Width
      BY <2>1, <2>3, <3>1, WordIs DEF Shifted
    <3>3. Congruent(a * 2 ^ b, Shl(a) * 2 ^ (b - 1))
      BY <2>2, <2>3, <3>1
    <3> DEFINE x == call.a * 2 ^ call.b
               y == a * 2 ^ b
               z == Shl(a) * 2 ^ (b - 1)
    <3>4. x \in Int /\ y \in Int /\ z \in Int
      <4>1. call.b \in 0 .. Width /\ b \in 0 .. Width /\ b - 1 \in 0 .. Width
        BY <1>1, <2>1, <2>3, <3>1, WordIs DEF Words16
      <4>2. 2 ^ call.b \in Int /\ 2 ^ b \in Int /\ 2 ^ (b - 1) \in Int
        BY <4>1, WordIs
      <4>3. call.a \in Int /\ a \in Int /\ Shl(a) \in Int
        BY <1>1, ShlCongruent, WordIs DEF Words16
      <4> QED
        BY <4>2, <4>3
    <3> HIDE DEF x, y, z
    <3>5. Congruent(x, y) /\ Congruent(y, z)
      BY <3>1, <3>3 DEF x, y, z
    <3>6. Congruent(x, z)
      BY <3>4, <3>5, CongruentRules
    <3> QED
      BY <3>2, <3>6 DEF x, z
  <2>4. ASSUME op = "shiftr", call.b <= Width
        PROVE  b' <= Width /\ a' \div 2 ^ b' = call.a \div 2 ^ call.b
    <3>1. b <= Width /\ a \div 2 ^ b = call.a \div 2 ^ call.b
      BY <2>4 DEF IInv, ShiftInv
    <3>2. a' = Shr(a) /\ b' = b - 1 /\ b' <= Width
      BY <2>1, <2>4, <3>1, WordIs DEF Shifted
    <3> QED
      BY <2>2, <2>4, <3>1, <3>2
  <2>5. ShiftInv' /\ ShiftResult'
    BY <1>1, <1>3, <2>3, <2>4 DEF ShiftInv, ShiftResult, Shifts
  <2> QED
    BY <1>2, <2>5 DEF IInv, ResultsRight
<1>4. CASE op' = "returned"
  <2>1. b = 0 /\ a' = a
    BY <1>1, <1>4 DEF ShiftRound, Return, Shifts
  <2>2. 2 ^ b = 1 /\ a * 1 = a /\ a \div 1 = a
    <3>1. a \in Int
      BY <1>1, WordIs DEF Words16
    <3> QED
      BY <2>1, <3>1
  <2>3. ASSUME op = "shiftl", call.b <= Width
        PROVE  a = (Signed(call.a) * 2 ^ call.b) % Word
    <3>1. Congruent(call.a * 2 ^ call.b, a)
      BY <2>2, <2>3 DEF IInv, ShiftInv
    <3> DEFINE P == 2 ^ call.b
               s == Signed(call.a)
    <3>2. P \in Int /\ call.a \in Int /\ a \in Int
      <4>1. call.b \in 0 .. Width
        BY <1>1, <2>3, WordIs DEF Words16
      <4>2. 2 ^ call.b \in Nat \ {0}
        BY <4>1, WordIs
      <4> QED
        BY <1>1, <4>2, WordIs DEF Words16
    <3>3. s \in Int /\ Congruent(call.a, s)
      BY <1>1, SignedCongruent
    <3> HIDE DEF P, s
    <3>4. PICK k \in Int : call.a = s + k * Word
      BY <3>3 DEF Congruent
    <3>5. PICK h \in Int : call.a * P = a + h * Word
      BY <3>1 DEF Congruent, P
    <3>6. h - k * P \in Int /\ s * P = a + (h - k * P) * Word
      BY <3>2, <3>3, <3>4, <3>5, WordIs
    <3>7. Congruent(s * P, a) /\ s * P \in Int
      BY <3>2, <3>3, <3>6 DEF Congruent
    <3>8. a = (s * P) % Word
      <4> DEFINE y == s * P
      <4>1. y \in Int /\ Congruent(y, a)
        BY <3>7
      <4> HIDE DEF y
      <4>2. a = y % Word
        BY <1>1, <4>1, WordIsMod
      <4> QED
        BY <4>2 DEF y
    <3> QED
      BY <3>8 DEF s, P
  <2>4. ASSUME op = "shiftr", call.b <= Width
        PROVE  a = call.a \div 2 ^ call.b
    BY <2>2, <2>4 DEF IInv, ShiftInv
  <2>5. ShiftInv' /\ ShiftResult'
    BY <1>1, <1>4, <2>1, <2>3, <2>4 DEF ShiftInv, ShiftResult, Shifts
  <2> QED
    BY <1>2, <2>5 DEF IInv, ResultsRight
<1> QED
  BY <1>1, <1>3, <1>4
LEMMA RngReturnKeepsIInv ==
  ASSUME IInv, TypeOK', RngReturn
  PROVE  IInv'
<1>1. /\ op = "rng_next" /\ op' = "returned" /\ call' = call /\ call.op = "rng_next"
      /\ call.a \in Words16 /\ a = call.a /\ a' = Plus(SumOfShifts(a), 18000)
  BY DEF RngReturn, Return, IInv, CallInv, RngInv, TypeOK, Routines
<1>2. /\ CallInv' /\ DivInv' /\ MulInv' /\ ShiftInv' /\ RngInv'
      /\ DivResult' /\ MulResult' /\ ShiftResult'
  BY <1>1, OneRoutine DEF IInv, Routines, Shifts
<1> DEFINE random == Plus(SumOfShifts(call.a), 18000)
           x == call.a
           s == Signed(call.a)
<1>3. /\ random \in Words16 /\ random \in Int /\ x \in Int /\ s \in Int
      /\ Congruent(random, 36969 * x + 18000) /\ Congruent(x, s)
  BY <1>1, SumOfShiftsType, RandomNumber, SignedCongruent, WordIs DEF Words16
<1> HIDE DEF random, x, s
<1>4. PICK k \in Int : random = 36969 * x + 18000 + k * Word
  BY <1>3 DEF Congruent
<1>5. PICK h \in Int : x = s + h * Word
  BY <1>3 DEF Congruent
<1> DEFINE m == -(k + 36969 * h)
           y == 36969 * s + 18000
<1>6. m \in Int /\ y = random + m * Word /\ y \in Int
  BY <1>3, <1>4, <1>5, WordIs
<1> HIDE DEF m, y
<1>7. random = y % Word
  BY <1>3, <1>6, WordIsMod DEF Congruent
<1>8. RngResult'
  BY <1>1, <1>7 DEF RngResult, random, y, s
<1> QED
  BY <1>2, <1>8 DEF IInv, ResultsRight

LEMMA IInvNext == IInv /\ [Next]_vars => IInv'
<1> SUFFICES ASSUME IInv, [Next]_vars
             PROVE  IInv'
  OBVIOUS
<1>0. TypeOK /\ TypeOK'
  BY TypeNext DEF IInv
<1>1. CASE DivRound
  BY <1>0, <1>1, DivRoundKeepsIInv
<1>2. CASE DivReturn
  BY <1>0, <1>2, DivReturnKeepsIInv
<1>3. CASE MulRound
  BY <1>0, <1>3, MulRoundKeepsIInv
<1>4. CASE ShiftRound
  BY <1>0, <1>4, ShiftRoundKeepsIInv
<1>5. CASE RngReturn
  BY <1>0, <1>5, RngReturnKeepsIInv
<1>6. CASE Resume
  BY <1>0, <1>6 DEF Resume, IInv, CallInv, DivInv, MulInv, ShiftInv, RngInv, ResultsRight,
       DivResult, MulResult, ShiftResult, RngResult, Routines, Shifts
<1>7. ASSUME NEW c \in Calls, Call(c.op, c.a, c.b)
      PROVE  IInv'
  <2>1. c.op \in Routines /\ c.a \in Words16 /\ c.b \in Words16
    BY OperandsAssumption DEF Calls
  <2> QED
    BY <1>0, <1>7, <2>1, StartOfRoutine
<1>8. CASE UNCHANGED vars
  BY <1>8 DEF vars, IInv, TypeOK, CallInv, DivInv, MulInv, ShiftInv, RngInv, ResultsRight,
       DivResult, MulResult, ShiftResult, RngResult, RoundsLeft, Divides
<1> QED
  BY <1>1, <1>2, <1>3, <1>4, <1>5, <1>6, <1>7, <1>8 DEF Next, Step

\* Whatever words a program passes, a routine that returns has computed what its comment
\* says: the quotient and the remainder of every dividend by every divisor up to the middle
\* of the word, every product, shift and random number modulo the width of the word.
THEOREM ResultsCorrect == Spec => []ResultsRight
<1>1. IInv => ResultsRight
  BY DEF IInv
<1> QED
  BY <1>1, IInvInit, IInvNext, PTL DEF Spec

-----------------------------------------------------------------------------
(* Rows and lines *)

Above(y, n) == (y - n) % max_rows
Below(y) == IF y + 1 < max_rows THEN y + 1 ELSE 0

Screens == [Rows \X Columns -> Nat]

\* The lines, the last of them in row y and the others above it.
Shows(screen, y, lines) ==
  \A n \in 0 .. Len(lines) - 1 : \A c \in Columns :
    screen[<<Above(y, n), c>>] = LineAt(lines[Len(lines) - n], c)

LEMMA AboveIs ==
  ASSUME NEW y \in Rows, NEW n \in 0 .. max_rows - 1
  PROVE  Above(y, n) = IF n <= y THEN y - n ELSE y - n + max_rows
<1>1. max_rows \in Nat \ {0} /\ y - n \in Int
  BY ScreenAssumption DEF Rows
<1>2. n <= y => y - n \in 0 .. max_rows - 1
  BY <1>1 DEF Rows
<1>3. ~ n <= y => y - n \in -max_rows .. -1
  BY <1>1 DEF Rows
<1> QED
  BY <1>1, <1>2, <1>3, ModOnce DEF Above

\* Rows of different lines are different, and no line but the oldest of a full screen is
\* in the row the next line takes.
LEMMA RowsOfLines ==
  ASSUME NEW y \in Rows, NEW n \in 0 .. max_rows - 1
  PROVE  /\ Above(y, n) \in Rows
         /\ Above(y, n) = y <=> n = 0
         /\ Below(y) \in Rows /\ Below(y) # y
         /\ n < max_rows - 1 => /\ Above(y, n) # Below(y)
                                /\ Above(Below(y), n + 1) = Above(y, n)
<1>1. max_rows \in Nat \ {0, 1}
  BY ScreenAssumption
<1>2. Below(y) \in Rows /\ Below(y) # y
  BY <1>1 DEF Rows, Below
<1>3. Above(y, n) = IF n <= y THEN y - n ELSE y - n + max_rows
  BY AboveIs
<1>4. ASSUME n < max_rows - 1
      PROVE  Above(Below(y), n + 1) = IF n + 1 <= Below(y) THEN Below(y) - (n + 1)
                                      ELSE Below(y) - (n + 1) + max_rows
  <2>1. n + 1 \in 0 .. max_rows - 1
    BY <1>1, <1>4
  <2> QED
    BY <1>2, <2>1, AboveIs
<1> QED
  BY <1>1, <1>2, <1>3, <1>4 DEF Rows, Below

PutAt(screen, y, x, char) == [screen EXCEPT ![<<y, x>>] = char]
Longer(lines, char) == [lines EXCEPT ![Len(lines)] = Append(lines[Len(lines)], char)]

\* The character is put behind the last line.
LEMMA CharIsShown ==
  ASSUME NEW screen \in Screens, NEW y \in Rows, NEW x \in Columns, NEW char \in Nat,
         NEW lines \in Seq(Seq(Nat)), Len(lines) \in 1 .. max_rows, Len(lines[Len(lines)]) = x,
         Shows(screen, y, lines)
  PROVE  /\ PutAt(screen, y, x, char) \in Screens
         /\ Longer(lines, char) \in Seq(Seq(Nat)) /\ Len(Longer(lines, char)) = Len(lines)
         /\ Longer(lines, char)[Len(lines)] = Append(lines[Len(lines)], char)
         /\ Shows(PutAt(screen, y, x, char), y, Longer(lines, char))
<1> DEFINE L == Len(lines)
           line == Append(lines[L], char)
           put == PutAt(screen, y, x, char)
           longer == Longer(lines, char)
<1>1. L \in Nat /\ L >= 1 /\ L <= max_rows /\ max_rows \in Nat /\ max_cols \in Nat
  BY ScreenAssumption
<1>2. /\ put \in Screens
      /\ \A w \in Rows, c \in Columns : put[<<w, c>>] = IF w = y /\ c = x THEN char ELSE screen[<<w, c>>]
  BY DEF Screens, PutAt
<1>3. lines[L] \in Seq(Nat)
  BY <1>1
<1>4. /\ line \in Seq(Nat) /\ Len(line) = x + 1 /\ line[x + 1] = char
      /\ \A n \in 1 .. x : line[n] = lines[L][n]
  BY <1>3, AppendProperties
<1>5. /\ longer \in Seq(Seq(Nat)) /\ Len(longer) = L /\ longer[L] = line
      /\ \A n \in 1 .. L - 1 : longer[n] = lines[n]
  BY <1>1, <1>4, ExceptSeq DEF Longer
<1> HIDE DEF L, line, put, longer
<1>6. ASSUME NEW n \in 0 .. L - 1, NEW c \in Columns
      PROVE  put[<<Above(y, n), c>>] = LineAt(longer[L - n], c)
  <2>1. n \in 0 .. max_rows - 1
    BY <1>1
  <2>2. Above(y, n) \in Rows /\ (Above(y, n) = y <=> n = 0)
    BY <2>1, RowsOfLines
  <2>3. screen[<<Above(y, n), c>>] = LineAt(lines[L - n], c)
    BY DEF Shows, L
  <2>4. CASE n # 0
    <3>1. L - n \in 1 .. L - 1
      BY <1>1, <2>4
    <3> QED
      BY <1>2, <1>5, <2>2, <2>3, <2>4, <3>1
  <2>5. CASE n = 0
    <3>1. L - n = L /\ Above(y, n) = y
      BY <1>1, <2>2, <2>5
    <3>2. screen[<<y, c>>] = LineAt(lines[L], c)
      BY <2>3, <3>1
    <3>3. put[<<y, c>>] = IF c = x THEN char ELSE LineAt(lines[L], c)
      BY <1>2, <3>2
    <3>4. c \in Nat /\ x \in Nat /\ Len(lines[L]) = x
      BY <1>1 DEF Columns, L
    <3>5. LineAt(line, c) = IF c = x THEN char ELSE LineAt(lines[L], c)
      <4>1. c < x => c + 1 \in 1 .. x
        BY <3>4
      <4>2. c < x => line[c + 1] = lines[L][c + 1]
        BY <1>4, <4>1
      <4>3. c < Len(line) <=> c < x \/ c = x
        BY <1>4, <3>4
      <4> QED
        BY <1>4, <3>4, <4>2, <4>3 DEF LineAt
    <3> QED
      BY <1>5, <3>1, <3>3, <3>5
  <2> QED
    BY <2>4, <2>5
<1>7. Shows(put, y, longer)
  BY <1>5, <1>6 DEF Shows
<1> QED
  BY <1>2, <1>5, <1>7 DEF L, line, put, longer

\* The next line is begun in the row below, which is cleared; the line it belonged to is
\* the oldest one.
LEMMA LineIsShown ==
  ASSUME NEW screen \in Screens, NEW y \in Rows,
         NEW lines \in Seq(Seq(Nat)), Len(lines) \in 1 .. max_rows, Shows(screen, y, lines)
  PROVE  LET cleared == ClearLine(screen, Below(y))
             next == Last(Append(lines, << >>))
         IN  /\ cleared \in Screens
             /\ next \in Seq(Seq(Nat)) /\ Len(next) \in 1 .. max_rows
             /\ next[Len(next)] = << >>
             /\ Shows(cleared, Below(y), next)
<1> DEFINE L == Len(lines)
           cleared == ClearLine(screen, Below(y))
           more == Append(lines, << >>)
           next == Last(more)
<1>1. L \in Nat /\ L >= 1 /\ L <= max_rows /\ max_rows \in Nat \ {0, 1} /\ max_cols \in Nat
  BY ScreenAssumption
<1>2. /\ cleared \in Screens
      /\ \A w \in Rows, c \in Columns : cleared[<<w, c>>] = IF w = Below(y) THEN 0 ELSE screen[<<w, c>>]
  BY DEF Screens, ClearLine, Blank
<1>3. /\ more \in Seq(Seq(Nat)) /\ Len(more) = L + 1 /\ more[L + 1] = << >>
      /\ \A n \in 1 .. L : more[n] = lines[n]
  BY AppendProperties
<1> DEFINE K == IF L + 1 > max_rows THEN L ELSE L + 1
<1>4. /\ next \in Seq(Seq(Nat)) /\ Len(next) = K
      /\ \A n \in 0 .. K - 1 : next[K - n] = more[L + 1 - n]
  <2>1. CASE L + 1 > max_rows
    <3>1. next = Tail(more) /\ K = L /\ more # << >>
      <4>1. Len(more) > max_rows
        BY <1>3, <2>1
      <4>2. next = Tail(more)
        BY <4>1 DEF Last
      <4> HIDE DEF more
      <4>3. more # << >>
        BY <1>1, <4>1
      <4> QED
        BY <2>1, <4>2, <4>3
    <3> HIDE DEF next, more
    <3>2. next \in Seq(Seq(Nat)) /\ Len(next) = L /\ \A n \in 1 .. L : next[n] = more[n + 1]
      BY <1>1, <1>3, <3>1, HeadTailProperties
    <3>3. ASSUME NEW n \in 0 .. L - 1 PROVE next[L - n] = more[L + 1 - n]
      <4>1. L - n \in 1 .. L /\ (L - n) + 1 = L + 1 - n
        BY <1>1
      <4> QED
        BY <3>2, <4>1
    <3> QED
      BY <3>1, <3>2, <3>3
  <2>2. CASE ~ (L + 1 > max_rows)
    BY <1>1, <1>3, <2>2 DEF Last
  <2> QED
    BY <2>1, <2>2
<1> HIDE DEF L, cleared, more, next
<1>5. K \in 1 .. max_rows /\ K - 1 <= L /\ K \in Nat
  BY <1>1
<1> HIDE DEF K
<1>6. next[K] = << >>
  <2>1. 0 \in 0 .. K - 1 /\ K - 0 = K /\ L + 1 - 0 = L + 1
    BY <1>1, <1>5
  <2> QED
    BY <1>3, <1>4, <2>1
<1>7. ASSUME NEW n \in 0 .. K - 1, NEW c \in Columns
      PROVE  cleared[<<Above(Below(y), n), c>>] = LineAt(next[K - n], c)
  <2>1. Below(y) \in Rows /\ 0 \in 0 .. max_rows - 1
    BY <1>1, RowsOfLines
  <2>2. CASE n = 0
    <3>1. Above(Below(y), 0) = Below(y)
      BY <2>1, RowsOfLines
    <3>2. cleared[<<Below(y), c>>] = 0
      BY <1>2, <2>1
    <3>3. LineAt(<< >>, c) = 0
      BY DEF LineAt, Blank, Columns
    <3>4. K - n = K
      BY <1>5, <2>2
    <3> QED
      BY <1>6, <2>2, <3>1, <3>2, <3>3, <3>4
  <2>3. CASE n # 0
    <3>1. /\ n - 1 \in 0 .. max_rows - 1 /\ n - 1 < max_rows - 1 /\ (n - 1) + 1 = n
          /\ n - 1 \in 0 .. L - 1 /\ L - (n - 1) = L + 1 - n /\ L - (n - 1) \in 1 .. L
      BY <1>1, <1>5, <2>3
    <3>2. /\ Above(y, n - 1) \in Rows /\ Above(y, n - 1) # Below(y)
          /\ Above(Below(y), n) = Above(y, n - 1)
      BY <3>1, RowsOfLines
    <3>3. screen[<<Above(y, n - 1), c>>] = LineAt(lines[L - (n - 1)], c)
      BY <3>1 DEF Shows, L
    <3>4. next[K - n] = lines[L - (n - 1)]
      BY <1>3, <1>4, <3>1
    <3> QED
      BY <1>2, <3>2, <3>3, <3>4
  <2> QED
    BY <2>2, <2>3
<1>8. Shows(cleared, Below(y), next)
  BY <1>4, <1>7 DEF Shows
<1> QED
  BY <1>2, <1>4, <1>5, <1>6, <1>8 DEF cleared, more, next, L

-----------------------------------------------------------------------------
(* The screen under put_char *)

ScreenData ==
  /\ row \in Rows /\ col \in Columns /\ toClear \in Nat
  /\ ATTRIBUTE_RAM \in Screens
  /\ shown \in Seq(Seq(Nat)) /\ Len(shown) \in 1 .. max_rows

\* The cursor is behind the last line.
ShownInv ==
  toClear = 0 => Shows(ATTRIBUTE_RAM, row, shown) /\ Len(shown[Len(shown)]) = col

\* Characters clear.asm has left to write are those from the cursor on; before it the
\* screen is blank.
ClearInv ==
  toClear > 0 =>
    /\ toClear = (max_rows - row) * (max_cols + 1) - col
    /\ \A y \in Rows, x \in Columns :
         y < row \/ (y = row /\ x < col) => ATTRIBUTE_RAM[<<y, x>>] = Blank

LEMMA ShownInvIs == ScreenData /\ ShownInv => ShowsLastLines
  BY DEF ScreenData, ShownInv, ShowsLastLines, Shows, Above, RowAbove

\* Whatever is written, the last lines stay in view.
LEMMA PutKeepsShown ==
  ASSUME NEW char \in Nat, ScreenData, ShownInv, toClear = 0, UNCHANGED toClear,
         put_char(char), Observe(char)
  PROVE  ScreenData' /\ ShownInv'
<1> DEFINE L == Len(shown)
           put == PutAt(ATTRIBUTE_RAM, row, col, char)
           longer == Longer(shown, char)
<1>1. /\ row \in Rows /\ col \in Columns /\ ATTRIBUTE_RAM \in Screens
      /\ shown \in Seq(Seq(Nat)) /\ Len(shown) \in 1 .. max_rows
      /\ Shows(ATTRIBUTE_RAM, row, shown) /\ Len(shown[Len(shown)]) = col
  BY DEF ScreenData, ShownInv
<1>2. /\ put \in Screens /\ longer \in Seq(Seq(Nat)) /\ Len(longer) = L
      /\ longer[L] = Append(shown[L], char) /\ Shows(put, row, longer)
  BY <1>1, CharIsShown
<1>3. Below(row) = NextRow /\ Below(row) \in Rows /\ Below(row) # row
  <2>1. 0 \in 0 .. max_rows - 1
    BY ScreenAssumption
  <2> QED
    BY <1>1, <2>1, RowsOfLines DEF Below, NextRow
<1>4. 0 \in Columns
  BY ScreenAssumption DEF Columns
<1>5. shown = [shown EXCEPT ![L] = shown[L]]
  BY <1>1
<1>6. CASE char = NewLine
  <2>1. /\ row' = Below(row) /\ col' = 0 /\ ATTRIBUTE_RAM' = ClearLine(ATTRIBUTE_RAM, Below(row))
        /\ shown' = Last(Append(shown, << >>))
    BY <1>3, <1>5, <1>6 DEF put_char, Observe, new_line
  <2>2. /\ ATTRIBUTE_RAM' \in Screens /\ shown' \in Seq(Seq(Nat)) /\ Len(shown') \in 1 .. max_rows
        /\ shown'[Len(shown')] = << >> /\ Shows(ATTRIBUTE_RAM', row', shown')
    BY <1>1, <2>1, LineIsShown
  <2> QED
    BY <1>3, <1>4, <2>1, <2>2 DEF ScreenData, ShownInv
<1>7. CASE char # NewLine /\ LineIsFull
  <2>1. /\ row' = Below(row) /\ col' = 0 /\ ATTRIBUTE_RAM' = ClearLine(put, Below(row))
        /\ shown' = Last(Append(longer, << >>))
    BY <1>3, <1>7 DEF put_char, Observe, new_line, PutAt, Longer
  <2>2. /\ ATTRIBUTE_RAM' \in Screens /\ shown' \in Seq(Seq(Nat)) /\ Len(shown') \in 1 .. max_rows
        /\ shown'[Len(shown')] = << >> /\ Shows(ATTRIBUTE_RAM', row', shown')
    BY <1>1, <1>2, <2>1, LineIsShown
  <2> QED
    BY <1>3, <1>4, <2>1, <2>2 DEF ScreenData, ShownInv
<1>8. CASE char # NewLine /\ ~ LineIsFull
  <2>1. row' = row /\ col' = col + 1 /\ ATTRIBUTE_RAM' = put /\ shown' = longer
    BY <1>8 DEF put_char, Observe, PutAt, Longer
  <2>2. col' \in Columns
    BY <1>1, <1>8, <2>1, ScreenAssumption DEF LineIsFull, Columns
  <2>3. Len(shown'[Len(shown')]) = col'
    <3>1. shown[L] \in Seq(Nat)
      BY <1>1
    <3>2. Len(Append(shown[L], char)) = col + 1
      BY <1>1, <3>1, AppendProperties
    <3> QED
      BY <1>2, <2>1, <3>2
  <2> QED
    BY <1>1, <1>2, <2>1, <2>2, <2>3 DEF ScreenData, ShownInv
<1> QED
  BY <1>6, <1>7, <1>8

-----------------------------------------------------------------------------
(* clear.asm *)

\* Of k rows of w columns, the first x characters of which are written, characters are left.
LEMMA CharsLeft ==
  ASSUME NEW k \in Nat \ {0}, NEW w \in Nat \ {0}, NEW x \in 0 .. w - 1
  PROVE  /\ k * w - x >= 1 /\ k * w \in Nat
         /\ k * w - x = 1 <=> k = 1 /\ x = w - 1
         /\ (k - 1) * w = k * w - w
<1>1. k * w \in Nat /\ (k - 1) * w = k * w - w
  OBVIOUS
<1>2. CASE k = 1
  BY <1>1, <1>2
<1>3. CASE k # 1
  <2>1. k - 2 \in Nat /\ (k - 2) * w \in Nat /\ (k - 2) * w = k * w - 2 * w
    BY <1>3
  <2> QED
    BY <1>1, <1>3, <2>1
<1> QED
  BY <1>2, <1>3

LEMMA BlankShows == Shows(BlankScreen, 0, << << >> >>)
<1>1. Above(0, 0) = 0 /\ 0 \in Rows
  <2>1. 0 \in Rows /\ 0 \in 0 .. max_rows - 1
    BY ScreenAssumption DEF Rows
  <2> QED
    BY <2>1, RowsOfLines
<1> SUFFICES ASSUME NEW n \in 0 .. Len(<< << >> >>) - 1, NEW c \in Columns
             PROVE  BlankScreen[<<Above(0, n), c>>] = LineAt(<< << >> >>[Len(<< << >> >>) - n], c)
  BY DEF Shows
<1>2. n = 0 /\ << << >> >>[Len(<< << >> >>) - n] = << >>
  OBVIOUS
<1>3. LineAt(<< >>, c) = Blank
  BY DEF LineAt, Columns
<1>4. BlankScreen[<<0, c>>] = Blank
  BY <1>1 DEF BlankScreen
<1> QED
  BY <1>1, <1>2, <1>3, <1>4

\* Every round of the loop blanks the character under the cursor, the last one the last of
\* the screen.
LEMMA ClearBlanks ==
  ASSUME ScreenData, ClearInv, Clear
  PROVE  /\ ScreenData' /\ ShownInv' /\ ClearInv'
         /\ toClear' = 0 => ATTRIBUTE_RAM' = BlankScreen /\ col' = 0 /\ row' = 0
<1> DEFINE k == max_rows - row
           w == max_cols + 1
           put == [ATTRIBUTE_RAM EXCEPT ![<<row, col>>] = Blank]
<1>1. /\ row \in Rows /\ col \in Columns /\ ATTRIBUTE_RAM \in Screens /\ toClear \in Nat
      /\ shown \in Seq(Seq(Nat)) /\ Len(shown) \in 1 .. max_rows
      /\ toClear = k * w - col /\ toClear > 0
      /\ \A y \in Rows, x \in Columns :
           y < row \/ (y = row /\ x < col) => ATTRIBUTE_RAM[<<y, x>>] = Blank
      /\ toClear' = toClear - 1
      /\ shown' = IF toClear = 1 THEN << << >> >> ELSE shown
  BY DEF ScreenData, ClearInv, Clear
<1>2. max_rows \in Nat \ {0, 1} /\ max_cols \in Nat \ {0}
  BY ScreenAssumption
<1>3. k \in Nat \ {0} /\ w \in Nat \ {0} /\ col \in 0 .. w - 1
  BY <1>1, <1>2 DEF Rows, Columns
<1>4. k * w - col = 1 <=> k = 1 /\ col = w - 1
  BY <1>3, CharsLeft
<1>5. (k - 1) * w = k * w - w /\ k * w \in Nat
  BY <1>3, CharsLeft
<1>6. /\ put \in Screens
      /\ \A y \in Rows, x \in Columns :
           put[<<y, x>>] = IF y = row /\ x = col THEN Blank ELSE ATTRIBUTE_RAM[<<y, x>>]
  BY <1>1 DEF Screens, Blank
<1>7. << << >> >> \in Seq(Seq(Nat)) /\ Len(<< << >> >>) = 1 /\ << << >> >>[1] = << >>
  OBVIOUS
<1>8. CASE ~ LineIsFull
  <2>1. row' = row /\ col' = col + 1 /\ ATTRIBUTE_RAM' = put
    BY <1>8 DEF Clear, put_char, Blank, NewLine
  <2>2. toClear # 1 /\ col' \in Columns
    BY <1>1, <1>2, <1>3, <1>4, <1>8, <2>1 DEF LineIsFull, Columns
  <2> HIDE DEF put
  <2>3. toClear' > 0 /\ toClear' \in Nat /\ shown' = shown
    BY <1>1, <2>2
  <2>4. toClear' = k * w - col'
    BY <1>1, <1>3, <1>5, <2>1
  <2>5. ASSUME NEW y \in Rows, NEW x \in Columns, y < row' \/ (y = row' /\ x < col')
        PROVE  put[<<y, x>>] = Blank
    <3>1. y < row \/ (y = row /\ x < col) \/ (y = row /\ x = col)
      BY <1>1, <1>2, <2>1, <2>5 DEF Rows, Columns
    <3> QED
      BY <1>1, <1>6, <3>1
  <2>6. ScreenData' /\ ShownInv'
    BY <1>1, <1>6, <2>1, <2>2, <2>3 DEF ScreenData, ShownInv
  <2>7. ClearInv'
    BY <2>1, <2>4, <2>5 DEF ClearInv
  <2> QED
    BY <2>3, <2>6, <2>7
<1>9. CASE LineIsFull
  <2>1. row' = NextRow /\ col' = 0 /\ ATTRIBUTE_RAM' = ClearLine(put, NextRow)
    BY <1>9 DEF Clear, put_char, new_line, Blank, NewLine
  <2>2. col = max_cols /\ NextRow \in Rows /\ 0 \in Columns
    BY <1>1, <1>2, <1>9 DEF LineIsFull, Columns, Rows, NextRow
  <2>3. /\ ATTRIBUTE_RAM' \in Screens
        /\ \A y \in Rows, x \in Columns :
             ATTRIBUTE_RAM'[<<y, x>>] = IF y = NextRow THEN Blank ELSE put[<<y, x>>]
    BY <1>6, <2>1 DEF Screens, ClearLine, Blank
  <2>4. CASE toClear = 1
    <3>1. row = max_rows - 1 /\ NextRow = 0 /\ toClear' = 0 /\ shown' = << << >> >>
      <4>1. k = 1
        BY <1>1, <1>4, <2>4
      <4>2. row = max_rows - 1 /\ row \in Nat
        BY <1>1, <1>2, <4>1 DEF Rows
      <4> QED
        BY <1>1, <1>2, <2>4, <4>2 DEF NextRow
    <3>2. ASSUME NEW y \in Rows, NEW x \in Columns
          PROVE  ATTRIBUTE_RAM'[<<y, x>>] = Blank
      <4>1. y < row \/ (y = row /\ x < col) \/ (y = row /\ x = col)
        BY <1>1, <1>2, <2>2, <3>1 DEF Rows, Columns
      <4>2. put[<<y, x>>] = Blank
        BY <1>1, <1>6, <4>1
      <4> QED
        BY <2>3, <4>2
    <3>3. ATTRIBUTE_RAM' = BlankScreen
      <4>1. \A p \in Rows \X Columns : ATTRIBUTE_RAM'[p] = Blank
        BY <3>2
      <4> QED
        BY <2>3, <4>1 DEF Screens, BlankScreen
    <3>4. Shows(ATTRIBUTE_RAM', row', shown')
      BY <2>1, <3>1, <3>3, BlankShows
    <3> QED
      BY <1>2, <1>7, <2>1, <2>2, <2>3, <3>1, <3>3, <3>4 DEF ScreenData, ShownInv, ClearInv
  <2>5. CASE toClear # 1
    <3>1. k # 1 /\ row + 1 < max_rows /\ NextRow = row + 1
      BY <1>1, <1>2, <1>3, <1>4, <2>2, <2>5 DEF Rows, NextRow
    <3>2. toClear' > 0 /\ toClear' \in Nat /\ shown' = shown
      BY <1>1, <2>5
    <3>3. toClear' = (max_rows - row') * w - col'
      <4>1. max_rows - row' = k - 1
        BY <1>1, <1>2, <2>1, <3>1 DEF Rows
      <4>2. toClear' = k * w - w
        BY <1>1, <1>3, <1>5, <2>2
      <4> QED
        BY <1>5, <2>1, <4>1, <4>2
    <3>4. ASSUME NEW y \in Rows, NEW x \in Columns, y < row' \/ (y = row' /\ x < col')
          PROVE  ATTRIBUTE_RAM'[<<y, x>>] = Blank
      <4>1. y < row \/ (y = row /\ x < col) \/ (y = row /\ x = col) \/ y = NextRow
        BY <1>1, <1>2, <2>1, <2>2, <3>1, <3>4 DEF Rows, Columns
      <4> QED
        BY <1>1, <1>6, <2>3, <4>1
    <3>5. ScreenData' /\ ShownInv'
      BY <1>1, <2>1, <2>2, <2>3, <3>2 DEF ScreenData, ShownInv
    <3>6. ClearInv'
      BY <3>3, <3>4 DEF ClearInv
    <3> QED
      BY <3>2, <3>5, <3>6
  <2> QED
    BY <2>4, <2>5
<1> QED
  BY <1>8, <1>9

-----------------------------------------------------------------------------
(* Decimal numbers *)

\* What a function that is defined by recursion comes to is what obeys the same recursion.
Keeps(f, g, L) == f[0] = g[0] /\ \A n \in 1 .. L : f[n - 1] = g[n - 1] => f[n] = g[n]
Agree(f, g, L) == \A n \in 0 .. L : f[n] = g[n]

LEMMA SameRecursion ==
  ASSUME NEW L \in Nat, NEW f, NEW g, Keeps(f, g, L)
  PROVE  Agree(f, g, L)
<1> DEFINE differ == {n \in 0 .. L : f[n] # g[n]}
<1> SUFFICES ASSUME differ # {} PROVE FALSE
  BY DEF Agree
<1>1. differ \in SUBSET Nat
  OBVIOUS
<1> HIDE DEF differ
<1>2. PICK n \in differ : \A m \in differ : <<m, n>> \notin OpToRel(<, Nat)
  BY <1>1, WFMin, NatLessThanWellFounded
<1>3. ASSUME NEW m \in differ PROVE ~ (m < n)
  <2>1. <<m, n>> \notin {pair \in Nat \X Nat : pair[1] < pair[2]}
    BY <1>2, Zenon DEF OpToRel
  <2> QED
    BY <1>1, <2>1
<1>4. n \in 0 .. L /\ f[n] # g[n]
  BY DEF differ
<1>5. n # 0 /\ n \in 1 .. L /\ n - 1 \in 0 .. L
  BY <1>4 DEF Keeps
<1>6. n - 1 \notin differ
  BY <1>3, <1>5
<1> QED
  BY <1>4, <1>5, <1>6 DEF differ, Keeps

LEMMA HalfIs == Half \in Nat /\ Word \in Nat /\ Word = 2 * Half /\ Half >= 128
  BY WordIs, ScreenAssumption

LEMMA DigitIs ==
  ASSUME NEW char \in Digits
  PROVE  is_digit(char) = char - 48 /\ ~ Negative(is_digit(char)) /\ char - 48 \in 0 .. 9
<1>1. char \in 48 .. 57
  BY DEF Digits
<1>2. Minus(char, 48) = char - 48
  <2>1. char - 48 \in 0 .. Word - 1
    BY <1>1, HalfIs
  <2> QED
    BY <2>1, HalfIs, ModOnce DEF Minus
<1>3. Minus(9, char - 48) = 57 - char
  <2>1. 9 - (char - 48) = 57 - char /\ 57 - char \in 0 .. Word - 1
    BY <1>1, HalfIs
  <2> QED
    BY <2>1, HalfIs, ModOnce DEF Minus
<1>4. Minus(9, 57 - char) = char - 48
  <2>1. 9 - (57 - char) = char - 48 /\ char - 48 \in 0 .. Word - 1
    BY <1>1, HalfIs
  <2> QED
    BY <2>1, HalfIs, ModOnce DEF Minus
<1>5. ~ Negative(57 - char) /\ ~ Negative(char - 48)
  BY <1>1, HalfIs DEF Negative
<1> QED
  BY <1>1, <1>2, <1>3, <1>4, <1>5 DEF is_digit

LEMMA ShlOnce ==
  ASSUME NEW x \in Nat, NEW y \in Nat, y = 2 * x, y < Word
  PROVE  Shl(x) = y
<1>1. y \in 0 .. Word - 1 /\ Word \in Nat \ {0}
  BY HalfIs
<1>2. y % Word = y
  BY <1>1, ModOnce, SMTT(30)
<1> QED
  BY <1>2 DEF Shl

LEMMA TimesTenIs ==
  ASSUME NEW x \in Nat, 10 * x < Word
  PROVE  TimesTen(x) = 10 * x
<1> DEFINE x2 == 2 * x  x4 == 4 * x  x5 == 5 * x  x10 == 10 * x
<1>1. /\ x2 \in Nat /\ x4 \in Nat /\ x5 \in Nat /\ x10 \in Nat
      /\ x2 = 2 * x /\ x4 = 2 * x2 /\ x5 = x4 + x /\ x10 = 2 * x5
      /\ x2 < Word /\ x4 < Word /\ x5 < Word /\ x10 < Word
  BY HalfIs
<1> HIDE DEF x2, x4, x5, x10
<1>2. Shl(x) = x2 /\ Shl(x2) = x4 /\ Shl(x5) = x10
  BY <1>1, ShlOnce
<1>3. (x4 + x) % Word = x5
  <2>1. x5 \in 0 .. Word - 1 /\ Word \in Nat \ {0}
    BY <1>1, HalfIs
  <2>2. x5 % Word = x5
    BY <2>1, ModOnce
  <2> QED
    BY <1>1, <2>2
<1>4. TimesTen(x) = x10
  BY <1>2, <1>3 DEF TimesTen
<1> QED
  BY <1>4 DEF x10

\* The values of the beginnings of a text, when they are words: the last one is the value
\* of the text, and parse_int computes the same.
LEMMA ValueOfText ==
  ASSUME NEW text \in Seq(Digits), NEW f \in [0 .. Len(text) -> Words16], f[0] = 0,
         \A n \in 1 .. Len(text) : f[n] = 10 * f[n - 1] + (text[n] - 48)
  PROVE  DecimalValue(text) = f[Len(text)] /\ parse_int(text) = f[Len(text)]
<1> DEFINE L == Len(text)
<1>1. L \in Nat /\ \A n \in 1 .. L : text[n] \in Digits /\ n \in 0 .. L /\ n - 1 \in 0 .. L
  OBVIOUS
<1>2. ASSUME NEW n \in 1 .. L
      PROVE  /\ f[n - 1] \in Nat /\ 10 * f[n - 1] < Word
             /\ is_digit(text[n]) = text[n] - 48 /\ ~ Negative(is_digit(text[n]))
             /\ (TimesTen(f[n - 1]) + is_digit(text[n])) % Word = f[n]
  <2>1. is_digit(text[n]) = text[n] - 48 /\ ~ Negative(is_digit(text[n])) /\ text[n] - 48 \in 0 .. 9
    BY <1>1, DigitIs
  <2>2. f[n] = 10 * f[n - 1] + (text[n] - 48)
    OBVIOUS
  <2>3. f[n] \in 0 .. Word - 1 /\ f[n - 1] \in 0 .. Word - 1
    BY <1>1 DEF Words16
  <2>4. f[n - 1] \in Nat /\ 10 * f[n - 1] < Word
    <3> DEFINE u == f[n - 1]  v == f[n]  d == text[n] - 48
    <3>1. d \in 0 .. 9 /\ v = 10 * u + d /\ u \in 0 .. Word - 1 /\ v \in 0 .. Word - 1
      BY <2>1, <2>2, <2>3
    <3> HIDE DEF u, v, d
    <3>2. u \in Nat /\ 10 * u < Word
      BY <3>1, HalfIs
    <3> QED
      BY <3>2 DEF u
  <2>5. TimesTen(f[n - 1]) = 10 * f[n - 1]
    BY <2>4, TimesTenIs
  <2>6. f[n] % Word = f[n]
    BY <2>3, HalfIs, ModOnce, SMTT(30)
  <2> QED
    BY <2>1, <2>2, <2>4, <2>5, <2>6
<1>3. DecimalValue(text) = f[L]
  <2> DEFINE Equation(g) == g = [n \in 0 .. L |-> IF n = 0 THEN 0 ELSE 10 * g[n - 1] + (text[n] - 48)]
             value == CHOOSE g : Equation(g)
  <2>1. Equation(f)
    <3>1. \A n \in 0 .. L : f[n] = IF n = 0 THEN 0 ELSE 10 * f[n - 1] + (text[n] - 48)
      BY <1>1
    <3> QED
      BY <3>1
  <2>2. Equation(value)
    BY <2>1, Zenon
  <2>3. DecimalValue(text) = value[L]
    BY DEF DecimalValue
  <2> HIDE DEF value
  <2>4. /\ value[0] = 0
        /\ \A n \in 1 .. L : value[n] = 10 * value[n - 1] + (text[n] - 48)
    <3>1. \A n \in 0 .. L : value[n] = IF n = 0 THEN 0 ELSE 10 * value[n - 1] + (text[n] - 48)
      BY <2>2
    <3>2. 0 \in 0 .. L
      BY <1>1
    <3> QED
      BY <1>1, <3>1, <3>2
  <2>5. L \in Nat /\ value[0] = f[0]
    BY <1>1, <2>4
  <2>6. \A n \in 1 .. L : value[n - 1] = f[n - 1] => value[n] = f[n]
    BY <2>4
  <2>7. Keeps(value, f, L)
    BY <2>5, <2>6 DEF Keeps
  <2>8. Agree(value, f, L)
    <3> HIDE DEF L
    <3> QED
      BY <2>5, <2>7, SameRecursion
  <2> QED
    BY <1>1, <2>3, <2>8 DEF Agree
<1>4. parse_int(text) = f[L]
  <2> DEFINE Equation(g) ==
               g = [n \in 0 .. L |-> IF n = 0 THEN 0 ELSE (TimesTen(g[n - 1]) + is_digit(text[n])) % Word]
             parsed == CHOOSE g : Equation(g)
  <2>1. Equation(f)
    <3>1. \A n \in 0 .. L : f[n] = IF n = 0 THEN 0 ELSE (TimesTen(f[n - 1]) + is_digit(text[n])) % Word
      BY <1>1, <1>2
    <3> QED
      BY <3>1
  <2>2. Equation(parsed)
    BY <2>1, Zenon
  <2>3. parse_int(text) = parsed[L]
    <3>1. ~ \E n \in 1 .. Len(text) : Negative(is_digit(text[n]))
      BY <1>2
    <3> QED
      BY <3>1 DEF parse_int
  <2> HIDE DEF parsed
  <2>4. /\ parsed[0] = 0
        /\ \A n \in 1 .. L : parsed[n] = (TimesTen(parsed[n - 1]) + is_digit(text[n])) % Word
    <3>1. \A n \in 0 .. L : parsed[n] = IF n = 0 THEN 0 ELSE (TimesTen(parsed[n - 1]) + is_digit(text[n])) % Word
      BY <2>2
    <3>2. 0 \in 0 .. L
      BY <1>1
    <3> QED
      BY <1>1, <3>1, <3>2
  <2>5. \A n \in 1 .. L : parsed[n - 1] = f[n - 1] => parsed[n] = f[n]
    BY <1>2, <2>4
  <2>6. L \in Nat /\ parsed[0] = f[0]
    BY <1>1, <2>4
  <2>7. Keeps(parsed, f, L)
    BY <2>5, <2>6 DEF Keeps
  <2>8. Agree(parsed, f, L)
    <3> HIDE DEF L
    <3> QED
      BY <2>6, <2>7, SameRecursion
  <2> QED
    BY <1>1, <2>3, <2>8 DEF Agree
<1> QED
  BY <1>3, <1>4

-----------------------------------------------------------------------------
(* print_int *)

\* The number that is left, followed by the digits that are written and those still on
\* the stack, is the number that is printed: f has the value of every beginning.
Decimal(f) ==
  LET k == Len(printed.text)
  IN  /\ f \in [0 .. k + Len(digits) -> Words16]
      /\ f[0] = num /\ f[k + Len(digits)] = printed.num
      /\ \A n \in 1 .. k : f[n] = 10 * f[n - 1] + (printed.text[n] - 48)
      /\ \A n \in 1 .. Len(digits) : f[k + n] = 10 * f[k + n - 1] + digits[n]

PrintData ==
  /\ num \in Words16 /\ digits \in Seq(0 .. 9)
  /\ printed \in [num : Words16, text : Seq(Digits)]

\* Nothing is written before the last division, and no division of another program is
\* under way.
PrintInv ==
  Printing =>
    /\ toClear = 0
    /\ op \in {"none", "div", "returned"}
    /\ op # "none" => num > 0 /\ call.op = "div" /\ call.a = 10 /\ call.b = num
    /\ num > 0 => printed.text = << >>
    /\ num = 0 => IF printed.text = << >> THEN digits[1] # 0 ELSE printed.text[1] # 48
    /\ \E f : Decimal(f)

ScreenInv == IInv /\ ScreenData /\ ShownInv /\ ClearInv /\ PrintData /\ PrintInv

LEMMA ScreenInvInit == ScreenInit => ScreenInv
<1> SUFFICES ASSUME ScreenInit PROVE ScreenInv
  OBVIOUS
<1>1. IInv
  BY IInvInit DEF ScreenInit
<1>2. max_rows \in Nat \ {0, 1} /\ max_cols \in Nat \ {0} /\ 0 \in Words16
  BY ScreenAssumption, WordIs DEF Words16
<1>3. << << >> >> \in Seq(Seq(Nat)) /\ Len(<< << >> >>) = 1 /\ << << >> >>[1] = << >>
  OBVIOUS
<1>4. ScreenData
  BY <1>2, <1>3 DEF ScreenInit, ScreenData, Rows, Columns, BlankScreen, Screens, Blank
<1>5. Shows(BlankScreen, 0, << << >> >>)
  BY BlankShows
<1>6. ShownInv /\ ClearInv
  BY <1>3, <1>5 DEF ScreenInit, ShownInv, ClearInv
<1>7. PrintData /\ PrintInv
  BY <1>2 DEF ScreenInit, PrintData, PrintInv, Printing, NothingPrinted
<1> QED
  BY <1>1, <1>4, <1>6, <1>7 DEF ScreenInv

\* A number that is not 0 is what is left, with no digits behind it.
LEMMA PrintStarts ==
  ASSUME ScreenInv, NEW n \in Numbers, n # 0, num' = n, digits' = << >>, Idle,
         printed' = [num |-> n, text |-> << >>], UNCHANGED <<vars, toClear>>
  PROVE  PrintData' /\ PrintInv'
<1>1. n \in Words16 /\ n > 0
  BY ScreenAssumption, WordIs DEF Words16
<1>2. PrintData'
  BY <1>1 DEF PrintData
<1>3. printed'.text = << >> /\ printed'.num = n /\ Len(digits') = 0 /\ Len(printed'.text) = 0
  OBVIOUS
<1> DEFINE f == [m \in 0 .. 0 |-> n]
<1>4. f \in [0 .. 0 -> Words16] /\ f[0] = n
  BY <1>1
<1> HIDE DEF f
<1>5. Decimal(f)'
  BY <1>3, <1>4 DEF Decimal
<1> QED
  BY <1>1, <1>2, <1>3, <1>5 DEF PrintInv, Idle, vars

\* A division takes the last digit from the number that is left.
LEMMA DigitTaken ==
  ASSUME ScreenInv, DigitToChar
  PROVE  PrintData' /\ PrintInv'
<1>1. /\ num > 0 /\ op = "returned" /\ op' = "none" /\ num' = a /\ digits' = <<b>> \o digits
      /\ UNCHANGED <<toClear, printed>>
  BY DEF DigitToChar, Resume, DigitOnTop
<1>2. /\ num \in Words16 /\ digits \in Seq(0 .. 9) /\ printed \in [num : Words16, text : Seq(Digits)]
      /\ TypeOK /\ ResultsRight
  BY DEF ScreenInv, PrintData, IInv
<1>3. /\ toClear = 0 /\ call.op = "div" /\ call.a = 10 /\ call.b = num /\ printed.text = << >>
      /\ \E f : Decimal(f)
  BY <1>1 DEF ScreenInv, PrintInv, Printing
<1>4. a \in Words16 /\ b \in Words16 /\ Word \in Nat
  BY <1>2, WordIs DEF TypeOK
<1>5. num = 10 * a + b /\ b \in 0 .. 9
  <2>1. 10 \in 1 .. Half
    BY HalfIs
  <2>2. num = a * 10 + b /\ b < 10
    BY <1>1, <1>2, <1>3, <2>1 DEF ResultsRight, DivResult, Divides
  <2> QED
    BY <1>4, <2>2 DEF Words16
<1>6. /\ digits' \in Seq(0 .. 9) /\ Len(digits') = Len(digits) + 1 /\ digits'[1] = b
      /\ \A n \in 1 .. Len(digits) : digits'[n + 1] = digits[n]
  <2>1. << b >> \in Seq(0 .. 9) /\ Len(<< b >>) = 1 /\ << b >>[1] = b
    BY <1>5
  <2>2. ASSUME NEW n \in 1 .. Len(digits) PROVE digits'[n + 1] = digits[n]
    <3>1. n + 1 \in 1 .. Len(<< b >>) + Len(digits) /\ n + 1 > Len(<< b >>) /\ (n + 1) - Len(<< b >>) = n
      BY <1>2, <2>1
    <3> QED
      BY <1>1, <1>2, <2>1, <3>1, ConcatProperties
  <2> QED
    BY <1>1, <1>2, <2>1, <2>2, ConcatProperties
<1>7. PrintData'
  BY <1>1, <1>2, <1>4, <1>6 DEF PrintData
<1>8. \E f : Decimal(f)'
  <2>1. PICK f : Decimal(f)
    BY <1>3
  <2> DEFINE L == Len(digits)
  <2>2. PICK g : g = [m \in 0 .. L + 1 |-> IF m = 0 THEN a ELSE f[m - 1]]
    OBVIOUS
  <2>3. /\ L \in Nat /\ Len(printed.text) = 0 /\ Len(digits') = L + 1
        /\ Len(printed'.text) = 0 /\ printed'.num = printed.num
    BY <1>1, <1>2, <1>3, <1>6
  <2>4. /\ f \in [0 .. L -> Words16] /\ f[0] = num /\ f[L] = printed.num
        /\ \A n \in 1 .. L : f[n] = 10 * f[n - 1] + digits[n]
    <3>1. 0 + L = L /\ \A n \in 1 .. L : 0 + n = n
      BY <2>3
    <3> QED
      BY <2>1, <2>3, <3>1 DEF Decimal
  <2> HIDE DEF L
  <2>5. /\ g \in [0 .. L + 1 -> Words16] /\ g[0] = a /\ g[L + 1] = f[L]
        /\ \A m \in 1 .. L + 1 : g[m] = f[m - 1]
    <3>1. \A m \in 0 .. L + 1 : m # 0 => m - 1 \in 0 .. L
      BY <2>3
    <3>2. \A m \in 1 .. L + 1 : m \in 0 .. L + 1 /\ m # 0
      BY <2>3
    <3>3. L + 1 \in 1 .. L + 1 /\ (L + 1) - 1 = L /\ 0 \in 0 .. L + 1
      BY <2>3
    <3> QED
      BY <1>4, <2>2, <2>4, <3>1, <3>2, <3>3
  <2>6. ASSUME NEW n \in 1 .. L + 1 PROVE g[n] = 10 * g[n - 1] + digits'[n]
    <3>1. CASE n = 1
      BY <1>5, <1>6, <2>3, <2>4, <2>5, <3>1
    <3>2. CASE n # 1
      <4>1. n - 1 \in 1 .. L /\ n - 1 \in 1 .. L + 1 /\ (n - 1) + 1 = n
        BY <2>3, <3>2
      <4>2. digits'[n] = digits[n - 1]
        BY <1>6, <4>1 DEF L
      <4> QED
        BY <2>4, <2>5, <4>1, <4>2
    <3> QED
      BY <3>1, <3>2
  <2>7. Decimal(g)'
    <3>1. Len(printed'.text) + Len(digits') = L + 1
      BY <2>3
    <3>2. /\ g \in [0 .. Len(printed'.text) + Len(digits') -> Words16] /\ g[0] = num'
          /\ g[Len(printed'.text) + Len(digits')] = printed'.num
      BY <1>1, <2>3, <2>4, <2>5, <3>1
    <3>3. \A n \in 1 .. Len(printed'.text) : g[n] = 10 * g[n - 1] + (printed'.text[n] - 48)
      BY <2>3
    <3>4. ASSUME NEW n \in 1 .. Len(digits')
          PROVE  g[Len(printed'.text) + n] = 10 * g[Len(printed'.text) + n - 1] + digits'[n]
      <4>1. Len(printed'.text) + n = n /\ n \in 1 .. L + 1
        BY <2>3
      <4> QED
        BY <2>6, <4>1
    <3> QED
      BY <2>3, <3>2, <3>3, <3>4 DEF Decimal
  <2> QED
    BY <2>7
<1>9. a = 0 => digits'[1] # 0
  BY <1>1, <1>4, <1>5, <1>6 DEF Words16
<1> QED
  BY <1>1, <1>3, <1>7, <1>8, <1>9 DEF PrintInv

\* A digit goes from the stack to the screen.
LEMMA DigitPut ==
  ASSUME ScreenInv, PutDigit
  PROVE  PrintData' /\ PrintInv'
<1> DEFINE char == CharOfDigit(Head(digits))
           k == Len(printed.text)
           L == Len(digits)
<1>1. /\ num = 0 /\ num' = 0 /\ digits # << >> /\ digits' = Tail(digits)
      /\ printed' = IF Len(digits) = 1 THEN NothingPrinted
                    ELSE [printed EXCEPT !.text = Append(@, char)]
      /\ UNCHANGED <<vars, toClear>>
  BY DEF PutDigit
<1>2. /\ num \in Words16 /\ digits \in Seq(0 .. 9) /\ printed \in [num : Words16, text : Seq(Digits)]
      /\ printed.num \in Words16 /\ printed.text \in Seq(Digits)
  BY DEF ScreenInv, PrintData
<1>3. /\ toClear = 0 /\ op = "none"
      /\ IF printed.text = << >> THEN digits[1] # 0 ELSE printed.text[1] # 48
      /\ \E f : Decimal(f)
  BY <1>1, <1>2 DEF ScreenInv, PrintInv, Printing
<1>4. /\ k \in Nat /\ L \in Nat \ {0} /\ Head(digits) = digits[1] /\ digits[1] \in 0 .. 9
      /\ Tail(digits) \in Seq(0 .. 9) /\ Len(Tail(digits)) = L - 1
      /\ \A n \in 1 .. L - 1 : Tail(digits)[n] = digits[n + 1]
  <2>1. L \in Nat \ {0} /\ k \in Nat
    BY <1>1, <1>2, EmptySeq
  <2>2. digits[1] \in 0 .. 9
    BY <1>2, <2>1
  <2> QED
    BY <1>1, <1>2, <2>1, <2>2, HeadTailProperties
<1>5. char = digits[1] + 48 /\ char \in Digits
  BY <1>4 DEF CharOfDigit, Digits
<1>6. CASE L = 1
  <2>1. digits' = << >> /\ printed' = NothingPrinted
    <3>1. Len(Tail(digits)) = 0 /\ Tail(digits) \in Seq(0 .. 9)
      BY <1>4, <1>6
    <3>2. Tail(digits) = << >>
      BY <3>1, EmptySeq
    <3> QED
      BY <1>1, <1>6, <3>2
  <2> QED
    BY <1>1, <1>2, <2>1 DEF PrintData, PrintInv, Printing, NothingPrinted
<1>7. CASE L # 1
  <2>1. printed' = [printed EXCEPT !.text = Append(printed.text, char)]
    BY <1>1, <1>7
  <2> HIDE DEF char
  <2>2. /\ printed'.num = printed.num /\ printed'.text = Append(printed.text, char)
        /\ printed' = [num |-> printed.num, text |-> Append(printed.text, char)]
    BY <1>2, <2>1
  <2>3. /\ printed'.text \in Seq(Digits) /\ Len(printed'.text) = k + 1 /\ printed'.text[k + 1] = char
        /\ \A n \in 1 .. k : printed'.text[n] = printed.text[n]
    BY <1>2, <1>5, <2>2, AppendProperties
  <2>4. PrintData'
    BY <1>1, <1>2, <1>4, <2>2, <2>3 DEF PrintData
  <2> HIDE DEF k, L
  <2>5. printed'.text # << >> /\ printed'.text[1] # 48
    <3>1. printed'.text # << >>
      BY <1>4, <2>3, EmptySeq
    <3>2. CASE printed.text = << >>
      <4>1. k = 0 /\ digits[1] # 0
        BY <1>3, <3>2 DEF k
      <4> QED
        BY <1>4, <1>5, <2>3, <3>1, <4>1
    <3>3. CASE printed.text # << >>
      <4>1. k \in Nat \ {0}
        BY <1>2, <3>3, EmptySeq DEF k
      <4>2. 1 \in 1 .. k
        BY <4>1
      <4> QED
        BY <1>3, <2>3, <3>1, <3>3, <4>2
    <3> QED
      BY <3>2, <3>3
  <2>6. PICK f : Decimal(f)
    BY <1>3
  <2>7. /\ f \in [0 .. k + L -> Words16] /\ f[0] = num /\ f[k + L] = printed.num
        /\ \A n \in 1 .. k : f[n] = 10 * f[n - 1] + (printed.text[n] - 48)
        /\ \A n \in 1 .. L : f[k + n] = 10 * f[k + n - 1] + digits[n]
    BY <2>6 DEF Decimal, k, L
  <2>8. ASSUME NEW n \in 1 .. k + 1 PROVE f[n] = 10 * f[n - 1] + (printed'.text[n] - 48)
    <3>1. CASE n = k + 1
      <4>1. 1 \in 1 .. L
        BY <1>4
      <4>2. f[k + 1] = 10 * f[k + 1 - 1] + digits[1]
        BY <2>7, <4>1, Zenon
      <4>3. char - 48 = digits[1]
        BY <1>4, <1>5
      <4>4. printed'.text[k + 1] = char
        BY <2>3
      <4>5. f[n] = 10 * f[n - 1] + digits[1]
        BY <1>4, <3>1, <4>2
      <4>6. printed'.text[n] - 48 = digits[1]
        BY <3>1, <4>3, <4>4
      <4> QED
        BY <4>5, <4>6
    <3>2. CASE n # k + 1
      <4>1. n \in 1 .. k
        BY <1>4, <3>2
      <4> QED
        BY <2>3, <2>7, <4>1
    <3> QED
      BY <3>1, <3>2
  <2>9. ASSUME NEW n \in 1 .. L - 1
        PROVE  f[k + 1 + n] = 10 * f[k + 1 + n - 1] + Tail(digits)[n]
    <3>1. n + 1 \in 1 .. L /\ k + (n + 1) = k + 1 + n /\ k + (n + 1) - 1 = k + 1 + n - 1
      BY <1>4
    <3>2. f[k + (n + 1)] = 10 * f[k + (n + 1) - 1] + digits[n + 1]
      BY <2>7, <3>1
    <3> QED
      BY <1>4, <3>1, <3>2
  <2>10. Decimal(f)'
    <3>1. k + 1 + (L - 1) = k + L
      BY <1>4
    <3> QED
      BY <1>1, <1>4, <2>2, <2>3, <2>7, <2>8, <2>9, <3>1 DEF Decimal
  <2> QED
    BY <1>1, <1>3, <2>4, <2>5, <2>10 DEF PrintInv, vars
<1> QED
  BY <1>6, <1>7

-----------------------------------------------------------------------------
(* The whole *)

\* The routines compute what they compute for any caller, print_int included.
LEMMA RoutinesRight ==
  ASSUME ScreenInv, [ScreenNext]_allVars
  PROVE  IInv'
<1>1. CASE [Next]_vars
  BY <1>1, IInvNext DEF ScreenInv
<1>2. CASE PrintDigit
  <2>1. /\ Call("div", 10, num) /\ 10 \in Words16 /\ num \in Words16 /\ "div" \in Routines
        /\ TypeOK /\ 0 \in Words16 /\ Width \in Nat
    BY <1>2, HalfIs, WidthAssumption DEF PrintDigit, ScreenInv, PrintData, IInv, Words16, Routines
  <2>2. TypeOK'
    BY <2>1 DEF Call, TypeOK
  <2> QED
    BY <2>1, <2>2, StartOfRoutine
<1> QED
  BY <1>1, <1>2 DEF ScreenNext, allVars, Write, StartClear, Clear, Compute, print_int, Divide,
     DigitToChar, PutDigit, Next

LEMMA ScreenKept ==
  ASSUME ScreenInv, UNCHANGED <<screenVars, toClear>>
  PROVE  ScreenData' /\ ShownInv' /\ ClearInv'
  BY DEF ScreenInv, ScreenData, ShownInv, ClearInv, screenVars

LEMMA CharWritten ==
  ASSUME ScreenInv, NEW char \in Nat, toClear = 0, UNCHANGED toClear, put_char(char), Observe(char)
  PROVE  ScreenData' /\ ShownInv' /\ ClearInv'
<1>1. ScreenData' /\ ShownInv'
  BY PutKeepsShown DEF ScreenInv
<1> QED
  BY <1>1 DEF ClearInv

LEMMA NothingToPrint ==
  ASSUME ScreenInv, ~ Printing, UNCHANGED printVars
  PROVE  PrintData' /\ PrintInv'
  BY DEF ScreenInv, PrintData, PrintInv, Printing, printVars

LEMMA ScreenInvNext == ScreenInv /\ [ScreenNext]_allVars => ScreenInv'
<1> SUFFICES ASSUME ScreenInv, [ScreenNext]_allVars PROVE ScreenInv'
  OBVIOUS
<1>1. IInv'
  BY RoutinesRight
<1>2. ASSUME NEW char \in Chars \cup {NewLine}, Write(char)
      PROVE  ScreenInv'
  <2>1. /\ char \in Nat /\ toClear = 0 /\ UNCHANGED toClear /\ ~ Printing /\ UNCHANGED printVars
        /\ put_char(char) /\ Observe(char)
    BY <1>2, ScreenAssumption DEF Write, Idle, NewLine
  <2> QED
    BY <1>1, <2>1, CharWritten, NothingToPrint DEF ScreenInv
<1>3. CASE StartClear
  <2>1. /\ ~ Printing /\ UNCHANGED printVars /\ row' = 0 /\ col' = 0
        /\ toClear' = (max_cols + 1) * max_rows /\ UNCHANGED <<ATTRIBUTE_RAM, shown>>
    BY <1>3 DEF StartClear, Idle, set_cursor, CharsOfScreen
  <2>2. max_rows \in Nat \ {0, 1} /\ max_cols + 1 \in Nat \ {0}
    BY ScreenAssumption
  <2>3. /\ (max_cols + 1) * max_rows \in Nat /\ (max_cols + 1) * max_rows > 0
        /\ (max_cols + 1) * max_rows = (max_rows - 0) * (max_cols + 1) - 0
    BY <2>2
  <2>4. 0 \in Rows /\ 0 \in Columns
    BY ScreenAssumption DEF Rows, Columns
  <2>5. ScreenData'
    BY <2>1, <2>3, <2>4 DEF ScreenInv, ScreenData
  <2>6. ShownInv' /\ ClearInv'
    BY <2>1, <2>3 DEF ShownInv, ClearInv, Rows, Columns
  <2> QED
    BY <1>1, <2>1, <2>5, <2>6, NothingToPrint DEF ScreenInv
<1>4. CASE Clear
  <2>1. toClear > 0 /\ UNCHANGED printVars
    BY <1>4 DEF Clear
  <2>2. ~ Printing
    BY <2>1 DEF ScreenInv, PrintInv
  <2> QED
    BY <1>1, <1>4, <2>1, <2>2, ClearBlanks, NothingToPrint DEF ScreenInv
<1>5. CASE Compute
  <2>1. ~ Printing /\ UNCHANGED printVars /\ UNCHANGED <<screenVars, toClear>>
    BY <1>5 DEF Compute
  <2> QED
    BY <1>1, <2>1, ScreenKept, NothingToPrint DEF ScreenInv
<1>6. ASSUME NEW n \in Numbers, print_int(n)
      PROVE  ScreenInv'
  <2>1. Idle /\ toClear = 0 /\ ~ Printing /\ UNCHANGED <<vars, toClear>>
    BY <1>6 DEF print_int, Idle
  <2>2. CASE n = 0
    <3>1. CharOfDigit(0) \in Nat /\ put_char(CharOfDigit(0)) /\ Observe(CharOfDigit(0)) /\ UNCHANGED printVars
      BY <1>6, <2>2 DEF print_int, CharOfDigit
    <3> QED
      BY <1>1, <2>1, <3>1, CharWritten, NothingToPrint DEF ScreenInv
  <2>3. CASE n # 0
    <3>1. num' = n /\ digits' = << >> /\ printed' = [num |-> n, text |-> << >>] /\ UNCHANGED screenVars
      BY <1>6, <2>3 DEF print_int
    <3> QED
      BY <1>1, <2>1, <2>3, <3>1, ScreenKept, PrintStarts DEF ScreenInv
  <2> QED
    BY <2>2, <2>3
<1>7. CASE PrintDigit
  <2>1. /\ num > 0 /\ op' = "div" /\ call' = [op |-> "div", a |-> 10, b |-> num]
        /\ UNCHANGED <<screenVars, toClear>> /\ UNCHANGED printVars
    BY <1>7 DEF PrintDigit, Call
  <2>2. PrintData' /\ PrintInv'
    BY <2>1, SMTT(30) DEF ScreenInv, PrintData, PrintInv, Printing, Decimal, printVars
  <2> QED
    BY <1>1, <2>1, <2>2, ScreenKept DEF ScreenInv
<1>8. CASE Divide
  <2>1. Printing /\ Step /\ UNCHANGED <<screenVars, toClear>> /\ UNCHANGED printVars
    BY <1>8 DEF Divide
  <2>2. op \in {"none", "div", "returned"}
    BY <2>1 DEF ScreenInv, PrintInv
  <2>3. op = "div" /\ op' \in {"div", "returned"} /\ call' = call
    BY <2>1, <2>2 DEF Step, DivRound, DivReturn, MulRound, ShiftRound, RngReturn, Return, Shifts
  <2>4. /\ toClear = 0 /\ num > 0 /\ call.op = "div" /\ call.a = 10 /\ call.b = num
        /\ printed.text = << >> /\ \E f : Decimal(f)
    BY <2>1, <2>3 DEF ScreenInv, PrintInv
  <2>5. \E f : Decimal(f)'
    BY <2>1, <2>4 DEF Decimal, printVars
  <2>6. PrintInv'
    <3>1. num' > 0 /\ num' # 0 /\ printed' = printed /\ toClear' = 0
      BY <2>1, <2>4, WordIs DEF ScreenInv, PrintData, Words16, printVars
    <3>2. num' = num /\ call' = call /\ op' \in {"none", "div", "returned"}
      BY <2>1, <2>3 DEF printVars
    <3> QED
      BY <2>4, <2>5, <3>1, <3>2, Zenon DEF PrintInv
  <2>7. PrintData'
    BY <2>1 DEF ScreenInv, PrintData, printVars
  <2> QED
    BY <1>1, <2>1, <2>6, <2>7, ScreenKept DEF ScreenInv
<1>9. CASE DigitToChar
  <2>1. UNCHANGED <<screenVars, toClear>>
    BY <1>9 DEF DigitToChar
  <2> QED
    BY <1>1, <1>9, <2>1, ScreenKept, DigitTaken DEF ScreenInv
<1>10. CASE PutDigit
  <2> DEFINE char == CharOfDigit(Head(digits))
  <2>1. put_char(char) /\ Observe(char) /\ digits # << >> /\ UNCHANGED toClear
    BY <1>10 DEF PutDigit
  <2>2. toClear = 0
    BY <2>1 DEF ScreenInv, PrintInv, Printing
  <2>3. char \in Nat
    <3>1. digits \in Seq(0 .. 9) /\ Head(digits) \in 0 .. 9
      BY <2>1, HeadTailProperties DEF ScreenInv, PrintData
    <3> QED
      BY <3>1 DEF CharOfDigit
  <2> HIDE DEF char
  <2> QED
    BY <1>1, <1>10, <2>1, <2>2, <2>3, CharWritten, DigitPut DEF ScreenInv
<1>11. CASE UNCHANGED allVars
  <2>1. UNCHANGED vars /\ UNCHANGED <<screenVars, toClear>> /\ UNCHANGED printVars
    BY <1>11 DEF allVars
  <2>2. PrintData' /\ PrintInv'
    BY <2>1 DEF ScreenInv, PrintData, PrintInv, Printing, Decimal, printVars, vars
  <2> QED
    BY <1>1, <2>1, <2>2, ScreenKept DEF ScreenInv
<1> QED
  BY <1>2, <1>3, <1>4, <1>5, <1>6, <1>7, <1>8, <1>9, <1>10, <1>11 DEF ScreenNext

\* What print_int has written when the last digit goes to the screen.
LEMMA PrintedRight ==
  ASSUME ScreenInv, PrintReturns
  PROVE  /\ \A n \in 1 .. Len(Printed) : Printed[n] \in Digits
         /\ Printed[1] # CharOfDigit(0)
         /\ DecimalValue(Printed) = printed.num
         /\ parse_int(Printed) = printed.num
<1> DEFINE char == CharOfDigit(Head(digits))
           k == Len(printed.text)
<1>1. /\ num = 0 /\ digits # << >> /\ Tail(digits) = << >>
      /\ digits \in Seq(0 .. 9) /\ printed.text \in Seq(Digits) /\ printed.num \in Words16
  BY DEF PrintReturns, PutDigit, ScreenInv, PrintData
<1>2. /\ IF printed.text = << >> THEN digits[1] # 0 ELSE printed.text[1] # 48
      /\ \E f : Decimal(f)
  BY <1>1 DEF ScreenInv, PrintInv, Printing
<1>3. Len(digits) = 1 /\ Head(digits) = digits[1] /\ digits[1] \in 0 .. 9 /\ k \in Nat
  <2>1. Len(digits) \in Nat \ {0} /\ Len(Tail(digits)) = Len(digits) - 1
    BY <1>1, EmptySeq, HeadTailProperties
  <2>2. Len(Tail(digits)) = 0
    <3>1. Len(<< >>) = 0
      OBVIOUS
    <3> QED
      BY <1>1, <3>1, Zenon
  <2>3. Len(digits) = 1
    BY <2>1, <2>2
  <2> QED
    BY <1>1, <2>3
<1>4. char = digits[1] + 48 /\ char \in Digits /\ char - 48 = digits[1]
  BY <1>3 DEF CharOfDigit, Digits
<1>5. Printed = Append(printed.text, char)
  BY DEF Printed
<1> HIDE DEF char
<1>6. /\ Printed \in Seq(Digits) /\ Len(Printed) = k + 1 /\ Printed[k + 1] = char
      /\ \A n \in 1 .. k : Printed[n] = printed.text[n]
  BY <1>1, <1>4, <1>5, AppendProperties
<1>7. Printed[1] # CharOfDigit(0)
  <2>1. CASE printed.text = << >>
    <3>1. k = 0 /\ digits[1] # 0
      BY <1>2, <2>1
    <3> QED
      BY <1>3, <1>4, <1>6, <3>1 DEF CharOfDigit
  <2>2. CASE printed.text # << >>
    <3>1. k \in Nat \ {0}
      BY <1>1, <2>2, EmptySeq
    <3>2. 1 \in 1 .. k
      BY <3>1
    <3> QED
      BY <1>2, <1>6, <2>2, <3>2 DEF CharOfDigit
  <2> QED
    BY <2>1, <2>2
<1>8. PICK f : Decimal(f)
  BY <1>2
<1>9. /\ f \in [0 .. Len(Printed) -> Words16] /\ f[0] = 0 /\ f[Len(Printed)] = printed.num
      /\ \A n \in 1 .. k : f[n] = 10 * f[n - 1] + (printed.text[n] - 48)
      /\ \A n \in 1 .. 1 : f[k + n] = 10 * f[k + n - 1] + digits[n]
  BY <1>1, <1>3, <1>6, <1>8 DEF Decimal
<1> HIDE DEF k
<1>10. ASSUME NEW n \in 1 .. Len(Printed) PROVE f[n] = 10 * f[n - 1] + (Printed[n] - 48)
  <2>1. CASE n = k + 1
    <3>1. 1 \in 1 .. 1
      OBVIOUS
    <3>2. f[k + 1] = 10 * f[k + 1 - 1] + digits[1]
      BY <1>9, <3>1, Zenon
    <3>3. Printed[n] - 48 = digits[1]
      BY <1>4, <1>6, <2>1
    <3> QED
      BY <1>3, <2>1, <3>2, <3>3
  <2>2. CASE n # k + 1
    <3>1. n \in 1 .. k
      BY <1>3, <1>6, <2>2
    <3> QED
      BY <1>6, <1>9, <3>1
  <2> QED
    BY <2>1, <2>2
<1>11. DecimalValue(Printed) = printed.num /\ parse_int(Printed) = printed.num
  BY <1>6, <1>9, <1>10, ValueOfText
<1>12. \A n \in 1 .. Len(Printed) : Printed[n] \in Digits
  BY <1>6
<1> QED
  BY <1>7, <1>11, <1>12

\* Every state reachable by put_char, print_int, clear and the arithmetic satisfies the
\* inductive invariant.
THEOREM ScreenInductive == ScreenSpec => []ScreenInv
  BY ScreenInvInit, ScreenInvNext, PTL DEF ScreenSpec

\* put_char (asm/print.asm): on a screen of any size the last lines that were written are
\* there, whole, in rows one above the other, with nothing of older lines behind them.
THEOREM LastLinesShown == ScreenSpec => []ShowsLastLines
<1>1. ScreenInv => ShowsLastLines
  BY ShownInvIs DEF ScreenInv
<1> QED
  BY <1>1, ScreenInductive, PTL

\* clear.asm writes as many characters as a screen of any size has.
THEOREM ScreenCleared == ScreenSpec => ClearsAll
<1>1. ScreenInv /\ [ScreenNext]_allVars
        => [Clear /\ toClear' = 0 => ATTRIBUTE_RAM' = BlankScreen /\ col' = 0 /\ row' = 0]_allVars
  BY ClearBlanks DEF ScreenInv
<1> QED
  BY <1>1, ScreenInductive, PTL DEF ScreenSpec, ClearsAll

\* print_int (asm/print.asm) writes every number in decimal and parse_int (asm/string.asm)
\* reads it back, for words of every width that holds a character.
THEOREM NumbersInDecimal == ScreenSpec => PrintsDecimal
<1>1. ScreenInv /\ [ScreenNext]_allVars
        => [PrintReturns =>
              /\ \A n \in 1 .. Len(Printed) : Printed[n] \in Digits
              /\ Printed[1] # CharOfDigit(0)
              /\ DecimalValue(Printed) = printed.num
              /\ parse_int(Printed) = printed.num]_allVars
  BY PrintedRight
<1> QED
  BY <1>1, ScreenInductive, PTL DEF ScreenSpec, PrintsDecimal

\* The routines of asm/math.asm and asm/rng.asm return what their comments say also where
\* print_int calls them, on numbers programs pass to it.
THEOREM ResultsRightOnScreen == ScreenSpec => []ResultsRight
<1>1. ScreenInv => ResultsRight
  BY DEF ScreenInv, IInv
<1> QED
  BY <1>1, ScreenInductive, PTL

=============================================================================
