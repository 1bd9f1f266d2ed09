----------------------------- MODULE MCKeyboard -----------------------------
(***************************************************************************)
(* Every key first, one of each kind after it, and room for less than two  *)
(* shifted keys.                                                           *)
(***************************************************************************)
EXTENDS Keyboard

Kinds == {"a", "A", "d", "^D"}

MCChars == << Decoded, Kinds, Kinds >>
=============================================================================
