------------------------------- MODULE Shell --------------------------------
(***************************************************************************)
(* The shell (src/asm/sh.asm) and the programs it runs: command lines,     *)
(* pipelines through its one stream, redirection and its restoration.      *)
(*                                                                         *)
(* A command is a record: "writer" writes its text and exits with its code *)
(* (echo.asm, ls.asm, a failing cat.asm), "copier" writes what it reads    *)
(* until the end of input (tee.asm without its file), "unknown" is not     *)
(* found. A message of the shell is one character.                         *)
(*                                                                         *)
(* written and got, all that went into the stream and came out of it, are  *)
(* only observed.                                                          *)
(***************************************************************************)
EXTENDS StreamStruct

CONSTANTS
  Prompt, Echo, NotFound, ExitCode, \* what the shell writes, the line it has read included
  Nul,           \* the 0 of an empty keyboard
  Inputs,        \* what is typed: sequences of commands with their end, "|" or "newline",
                 \* and of characters and "^D" for programs that read the keyboard
  Terminals      \* where the output of the shell may go

ASSUME MessagesAssumption == {Prompt, Echo, NotFound, ExitCode, Nul} \subseteq Chars

Commands == [kind : {"writer", "copier", "unknown"}, text : Seq(Chars), code : Nat]

ASSUME InputsAssumption == Inputs \subseteq Seq([command : Commands, end : Chars \cup {"^D"}])

VARIABLES
  typed,                   \* what is left in the keyboard
  pc,                      \* where the shell is
  after,                   \* where exe_cmd returns to
  input,                   \* the command exe_cmd runs
  shell,                   \* redirections in the record of the shell
  old_stdout, old_stdin,   \* the variables of the shell that keep them
  child,                   \* the running program
  terminal,                \* what was written outside the stream
  sim,                     \* "running", or "crashed" when the empty keyboard was read again
  next_r, next_w, ending, data, result, status,  \* the stream
  written, got

stream == <<next_r, next_w, ending, data, result, status>>
observed == <<written, got>>
vars == <<typed, pc, after, input, shell, old_stdout, old_stdin, child, terminal, sim, stream, observed>>

S == INSTANCE Stream

NoCommand == [kind |-> "unknown", text |-> << >>, code |-> 0]
Redirected(out, in) == [stdout |-> out, stdin |-> in]

\* The shell saves the redirections it was started with.
Init ==
  /\ typed \in Inputs
  /\ \E out \in Terminals :
       /\ shell = Redirected(out, "keys")
       /\ old_stdout = out
  /\ old_stdin = "keys"
  /\ pc = "main" /\ after = "main"
  /\ input = NoCommand
  /\ child = [redirections |-> shell, text |-> << >>, copies |-> FALSE, starved |-> FALSE, code |-> 0]
  /\ terminal = << >>
  /\ sim = "running"
  /\ S!Init
  /\ written = << >> /\ got = << >>

Running == status = "run" /\ sim = "running"

-----------------------------------------------------------------------------
(* put_char, and get_char of a stream *)

\* The machine stops in stream_write when the stream is full.
put_char(to, char) ==
  IF to = "stream"
  THEN /\ UNCHANGED <<terminal, got>>
       /\ \/ S!stream_write(char) /\ written' = Append(written, char)
          \/ S!stream_write_full /\ UNCHANGED written
  ELSE terminal' = Append(terminal, char) /\ UNCHANGED <<stream, observed>>

get_char_redirected ==
  /\ S!stream_read
  /\ got' = IF result' = Nothing THEN got ELSE Append(got, result')
  /\ UNCHANGED <<terminal, written>>

-----------------------------------------------------------------------------
(* The shell *)

main ==
  /\ Running /\ pc = "main"
  /\ put_char(shell.stdout, Prompt)
  /\ pc' = "echo"
  /\ UNCHANGED <<typed, after, input, shell, old_stdout, old_stdin, child>>

\* A line is echoed while it is read, before the shell redirects itself again.
EchoLine(to) ==
  IF typed = << >> THEN UNCHANGED <<terminal, stream, observed>> ELSE put_char(to, Echo)

NoQuit(place) ==
  /\ pc' = IF typed = << >> THEN "echo" ELSE "exe_cmd"
  /\ typed' = IF typed = << >> THEN typed ELSE Tail(typed)
  /\ input' = IF typed = << >> THEN input ELSE Head(typed).command
  /\ after' = place

\* echo: the end of the keyboard makes the shell exit.
ReadCommand(place) ==
  /\ pc' = IF typed = << >> THEN "exit" ELSE "exe_cmd"
  /\ typed' = IF typed = << >> THEN typed ELSE Tail(typed)
  /\ input' = IF typed = << >> THEN input ELSE Head(typed).command
  /\ after' = place

IsPiped == typed # << >> /\ Head(typed).end = "|"

echo ==
  /\ Running /\ pc = "echo"
  /\ ReadCommand(IF IsPiped THEN "pipe" ELSE "main")
  /\ EchoLine(shell.stdout)
  /\ shell' = IF IsPiped THEN [shell EXCEPT !.stdout = "stream"] ELSE shell
  /\ UNCHANGED <<old_stdout, old_stdin, child>>

NotRestored == shell
RestoredStdout == [shell EXCEPT !.stdout = old_stdout]

\* The rest of pipe: after the first command. What ends the second is compared with the
\* address of the input, so a third command is one of its own.
pipe ==
  /\ Running /\ pc = "pipe"
  /\ ReadCommand("pipe_end")
  /\ shell' = IF typed = << >> THEN RestoredStdout ELSE [RestoredStdout EXCEPT !.stdin = "stream"]
  /\ EchoLine(RestoredStdout.stdout)
  /\ UNCHANGED <<old_stdout, old_stdin, child>>

RestoredSwapped == [shell EXCEPT !.stdin = old_stdout]
RestoredStdin == [shell EXCEPT !.stdin = old_stdin]

pipe_end ==
  /\ Running /\ pc = "pipe_end"
  /\ pc' = "main"
  /\ shell' = RestoredStdin
  /\ UNCHANGED <<typed, after, input, old_stdout, old_stdin, child, terminal, stream, observed>>

exe_cmd ==
  /\ Running /\ pc = "exe_cmd"
  /\ IF input.kind = "unknown"
     THEN /\ put_char(shell.stdout, NotFound)
          /\ pc' = after
          /\ UNCHANGED child
     ELSE /\ child' = [redirections |-> shell, text |-> input.text,
                       copies |-> input.kind = "copier", starved |-> FALSE, code |-> input.code]
          /\ pc' = "execute"
          /\ UNCHANGED <<terminal, stream, observed>>
  /\ UNCHANGED <<typed, after, input, shell, old_stdout, old_stdin>>

\* The exit code is printed when it is not 0.
end_exe_cmd ==
  /\ Running /\ pc = "executed"
  /\ IF child.code = 0 THEN UNCHANGED <<terminal, stream, observed>>
                       ELSE put_char(shell.stdout, ExitCode)
  /\ pc' = after
  /\ UNCHANGED <<typed, after, input, shell, old_stdout, old_stdin, child>>

-----------------------------------------------------------------------------
(* The program the shell runs *)

ChildRuns == Running /\ pc = "execute"

ChildWrites ==
  /\ ChildRuns /\ child.text # << >>
  /\ put_char(child.redirections.stdout, Head(child.text))
  /\ child' = [child EXCEPT !.text = Tail(@)]
  /\ UNCHANGED <<typed, pc, after, input, shell, old_stdout, old_stdin>>

\* A copier holds the character it read until it is written.
ChildReads(char) ==
  child' = IF char \in {Nothing, "^D"} THEN [child EXCEPT !.copies = FALSE]
           ELSE [child EXCEPT !.text = << char >>]

ChildReadsStream ==
  /\ ChildRuns /\ child.text = << >> /\ child.copies
  /\ child.redirections.stdin = "stream"
  /\ get_char_redirected
  /\ ChildReads(result')
  /\ UNCHANGED <<typed, pc, after, input, shell, old_stdout, old_stdin>>

\* A whole command that a program reads is one character here.
ChildReadsKeyboard ==
  /\ ChildRuns /\ child.text = << >> /\ child.copies
  /\ child.redirections.stdin = "keys" /\ typed # << >>
  /\ typed' = Tail(typed)
  /\ ChildReads(Head(typed).end)
  /\ UNCHANGED <<pc, after, input, shell, old_stdout, old_stdin, terminal, stream, observed>>

\* The empty keyboard gives a 0 once; then the simulator crashes (see Keyboard).
ChildReadsNothing ==
  /\ ChildRuns /\ child.text = << >> /\ child.copies
  /\ child.redirections.stdin = "keys" /\ typed = << >>
  /\ IF child.starved THEN sim' = "crashed" /\ UNCHANGED child
     ELSE child' = [child EXCEPT !.text = << Nul >>, !.starved = TRUE] /\ UNCHANGED sim
  /\ UNCHANGED <<typed, pc, after, input, shell, old_stdout, old_stdin, terminal, stream, observed>>

ChildExits ==
  /\ ChildRuns /\ child.text = << >> /\ ~child.copies
  /\ pc' = "executed"
  /\ UNCHANGED <<typed, after, input, shell, old_stdout, old_stdin, child, terminal, stream, observed>>

Next ==
  \/ /\ \/ main \/ echo \/ pipe \/ pipe_end \/ exe_cmd \/ end_exe_cmd
        \/ ChildWrites \/ ChildReadsStream \/ ChildReadsKeyboard \/ ChildExits
     /\ UNCHANGED sim
  \/ ChildReadsNothing

\* The machine never pauses: it runs the next instruction until a HLT.
Spec == Init /\ [][Next]_vars /\ WF_vars(Next)

-----------------------------------------------------------------------------
(* Properties *)

\* Whatever a command line does, a pipeline whose programs fail or are not found and one
\* that is cut by the end of the input included, the shell prompts, reads and exits with
\* the redirections it was started with.
Restored == pc \in {"main", "echo", "exit"} => shell = Redirected(old_stdout, "keys")

\* A program alone in its line writes and reads where the shell does, the first of a
\* pipeline writes to the stream and the second reads it.
ChildIsConnected ==
  pc = "execute" =>
    child.redirections =
      Redirected(IF after = "pipe" THEN "stream" ELSE old_stdout,
                 IF after = "pipe_end" THEN "stream" ELSE "keys")

\* All second programs of all pipelines together read what all first programs, and the
\* shell in their place, wrote, once and in order, and the end of input comes only when
\* there is nothing left: also of the pipelines before.
PipelinesDeliver ==
  [][ChildReadsStream =>
       IF result' = Nothing THEN got = written ELSE got' = SubSeq(written, 1, Len(got'))]_vars

\* Used by the shell and its programs the stream is a queue, also when it is left half
\* read and when it fills up.
ImplementsQueue == S!ImplementsQueue

\* Every command that was typed is run, or the machine stops: no program of a pipeline
\* waits for another forever.
Finishes == <>(pc = "exit" \/ ~Running)
=============================================================================
