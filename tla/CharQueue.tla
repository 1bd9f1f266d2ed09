----------------------------- MODULE CharQueue ------------------------------
(***************************************************************************)
(* What a stream promises to the programs that write and read it: a queue  *)
(* of characters. Nothing is lost, repeated or reordered; room that was    *)
(* used once is not used again, so a stream takes Capacity characters in   *)
(* all, however many were read in between.                                 *)
(***************************************************************************)
EXTENDS Integers, Sequences

CONSTANTS
  Chars,       \* characters programs write
  Capacity,    \* characters a stream takes in all
  Nothing      \* what a read of an empty stream returns

VARIABLES
  queue,     \* characters written and not read yet
  left,      \* characters the stream still takes
  result,    \* what the last read returned
  status     \* "run", or "full" when the machine stopped at a write

vars == <<queue, left, result, status>>

Init ==
  /\ queue  = << >>
  /\ left   = Capacity
  /\ result = Nothing
  /\ status = "run"

Write ==
  /\ status = "run" /\ left > 0
  /\ \E char \in Chars : queue' = Append(queue, char)
  /\ left' = left - 1
  /\ UNCHANGED <<result, status>>

WriteFull ==
  /\ status = "run" /\ left = 0
  /\ status' = "full"
  /\ UNCHANGED <<queue, left, result>>

Read ==
  /\ status = "run"
  /\ IF queue = << >> THEN result' = Nothing /\ queue' = queue
     ELSE result' = Head(queue) /\ queue' = Tail(queue)
  /\ UNCHANGED <<left, status>>

Next == Write \/ WriteFull \/ Read

Spec == Init /\ [][Next]_vars
=============================================================================
