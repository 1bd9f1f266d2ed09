---------------------------- MODULE StreamStruct ----------------------------
(* The struct of a stream (src/asm/stream.asm) and what programs put in it. *)
EXTENDS Integers, Sequences

CONSTANTS
  Chars,    \* characters programs write
  Size,     \* size of the struct
  Nothing   \* 0xFFFF, which no character is

ASSUME CharsAssumption == Nothing \notin Chars
ASSUME SizeAssumption  == Size \in Nat /\ Size >= 6

\* next_r, next_w and ending come before the data.
Header == 6
=============================================================================
