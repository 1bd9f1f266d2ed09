------------------------------- MODULE Bitmap -------------------------------
(***************************************************************************)
(* The allocation bitmaps of the operating system (the pages in use at     *)
(* 0xF806, the processes in use at 0xF804, the page and block maps of      *)
(* alloc) are machine words whose most significant bit stands for item 0.  *)
(* A word is represented by the set of items whose bit is 1.               *)
(*                                                                         *)
(* The code sets and clears a bit by SUM and SUB of a one-bit mask, never  *)
(* by a logical operation, so a bit set twice carries into its more        *)
(* significant neighbours and a bit cleared twice borrows from them.       *)
(***************************************************************************)
EXTENDS Integers

CONSTANT Width   \* bits of a word: 16 in the machine

ASSUME WidthAssumption == Width \in Nat \ {0}

Items == 0 .. Width - 1

\* The larger of a nonempty finite set of integers.
Greatest(S) == CHOOSE k \in S : \A j \in S : j <= k

\* The first item from 1 on whose bit is 0: the loop that shifts the map left
\* until the carry is 0, starting past the first bit. Zeros are shifted in, so
\* on a map with no clear bit it stops at Width with an empty mask.
FirstClearFromZero(S) == CHOOSE k \in (0 .. Width) \ S : \A j \in (0 .. Width) \ S : k <= j

FirstClear(S) == CHOOSE k \in (1 .. Width) \ S : \A j \in (1 .. Width) \ S : k <= j

\* map := map + mask, where the mask has the bit of item k (no bit past Width).
SetBit(S, k) == IF k \in Items THEN S \cup {k} ELSE S

AddBit(S, k) ==
  LET clear == {i \in 0 .. k - 1 : i \notin S}
      to    == IF clear = {} THEN 0 ELSE Greatest(clear)
  IN  IF k \notin Items THEN S
      ELSE IF k \notin S THEN S \cup {k}
      ELSE IF clear = {} THEN S \ (0 .. k)
      ELSE (S \ (to + 1 .. k)) \cup {to}

\* map := map - mask.
SubBit(S, k) ==
  LET set  == {i \in 0 .. k - 1 : i \in S}
      from == IF set = {} THEN 0 ELSE Greatest(set)
  IN  IF k \notin Items THEN S
      ELSE IF k \in S THEN S \ {k}
      ELSE IF set = {} THEN S \cup (0 .. k)
      ELSE (S \ {from}) \cup (from + 1 .. k)
-----------------------------------------------------------------------------
(* The words maps are *)

ASSUME PowersAssumption ==
  /\ 2 ^ 0 = 1
  /\ \A n \in 0 .. Width - 1 : 2 ^ n \in Nat \ {0} /\ 2 ^ (n + 1) = 2 * 2 ^ n

\* Item 0 is the most significant bit; the mask of item Width was shifted out.
Mask(k) == IF k = Width THEN 0 ELSE 2 ^ (Width - 1 - k)

\* The bits of a map, shifted in one after the other.
Value(S) ==
  LET value[n \in 0 .. Width] == IF n = 0 THEN 0 ELSE 2 * value[n - 1] + (IF n - 1 \in S THEN 1 ELSE 0)
  IN  value[Width]

\* SUM and SUB of a mask, modulo the width of the word: adding a bit that is set and
\* subtracting one that is clear change the map the way carry and borrow do.
SumAndSub(map) ==
  \A k \in 0 .. Width :
    /\ Value(AddBit(map, k)) = (Value(map) + Mask(k)) % 2 ^ Width
    /\ Value(SubBit(map, k)) = (Value(map) - Mask(k)) % 2 ^ Width

\* The search of execute, for a page and for a process: the word, shifted left once, is
\* shifted on until no one is carried out of it, at the latest when nothing is left of it.
SearchLoop(word) ==
  LET shifted[n \in 0 .. Width] == IF n = 0 THEN word ELSE (2 * shifted[n - 1]) % 2 ^ Width
      carry(n) == shifted[n] >= 2 ^ (Width - 1)
  IN  CHOOSE n \in 1 .. Width : (n = Width \/ ~carry(n)) /\ \A i \in 1 .. n - 1 : carry(i)

\* FirstClear is the item whose mask the loop ends with.
FirstClearIsSearch(map) == FirstClear(map) = SearchLoop(Value(map))
=============================================================================
