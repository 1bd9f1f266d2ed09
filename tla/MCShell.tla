------------------------------ MODULE MCShell -------------------------------
(***************************************************************************)
(* Every sequence of up to four commands, ended by "|" or a new line: one  *)
(* that writes, one that writes and fails, one that copies and one that is *)
(* not found; and a program that reads the keyboard to its end.            *)
(***************************************************************************)
EXTENDS Shell

Writes(text, code) == [kind |-> "writer", text |-> text, code |-> code]
Copies             == [kind |-> "copier", text |-> << >>, code |-> 0]

Items == [command : {Writes(<<"x", "y">>, 0), Writes(<<"z">>, 1), Copies, NoCommand},
          end : {"|", "newline"}]

Key(char) == [command |-> NoCommand, end |-> char]

MCInputs ==
  UNION {[1 .. n -> Items] : n \in 0 .. 4}
    \cup { << [command |-> Copies, end |-> end], Key("x"), Key("^D"), item >> :
             end \in {"|", "newline"}, item \in Items }

MCChars == {"x", "y", "z", "|", "newline", "prompt", "echo", "not found", "exit code", "NUL"}
=============================================================================
