---------------------------- MODULE ProcessStack ----------------------------
(***************************************************************************)
(* What execute and exit promise to programs: processes form a stack.      *)
(* Starting a program pushes a frame that inherits directory and           *)
(* redirections of the caller and has a page of its own; exit pops it and  *)
(* the caller goes on from where it was, with everything it had.           *)
(* How frames are numbered, linked and stored is not visible here.         *)
(***************************************************************************)
EXTENDS Integers

CONSTANTS
  FreePages,     \* pages a program may be given
  StackPage,     \* page of the stack of the OS
  PageSize,      \* words of a page
  StackWords,    \* words of stack a program uses at most
  Dirs, RootDir, \* directories, and the one the OS works in
  Redirections, Unset,
  ExitCodes,
  Halts          \* codes a failing system call stops the machine with

VARIABLES
  depth,    \* number of programs started and not finished
  frames,   \* frames[0] is the OS, frames[depth] the running program
  result,   \* exit code of the last program that finished
  status    \* "boot", "run" or why the machine stopped

vars == <<depth, frames, result, status>>

Frame == [page : FreePages \cup {StackPage}, off : 0 .. PageSize - 1, cwd : Dirs,
          stdout : Redirections, stdin : Redirections]

Init ==
  /\ depth  = 0
  /\ frames = [i \in {0} |-> [page |-> StackPage, off |-> PageSize - 1, cwd |-> RootDir,
                              stdout |-> Unset, stdin |-> Unset]]
  /\ result = 0
  /\ status = "boot"

Working == status = "run" /\ depth > 0

\* The running program uses its own stack, within its page.
UseStack ==
  /\ Working
  /\ \E off \in PageSize - 1 - StackWords .. PageSize - 1 :
       frames' = [frames EXCEPT ![depth].off = off]
  /\ UNCHANGED <<depth, result, status>>

Redirect ==
  /\ Working
  /\ \E stream \in Redirections :
       \/ frames' = [frames EXCEPT ![depth].stdout = stream]
       \/ frames' = [frames EXCEPT ![depth].stdin = stream]
  /\ UNCHANGED <<depth, result, status>>

ChangeDir ==
  /\ Working
  /\ \E dir \in Dirs : frames' = [frames EXCEPT ![depth - 1].cwd = dir]
  /\ UNCHANGED <<depth, result, status>>

Start ==
  /\ status = "boot" \/ Working
  /\ \E page \in FreePages \ {frames[i].page : i \in 0 .. depth} :
       frames' = [i \in 0 .. depth + 1 |->
                    IF i <= depth THEN frames[i]
                    ELSE [page |-> page, off |-> PageSize - 1, cwd |-> frames[depth].cwd,
                          stdout |-> frames[depth].stdout, stdin |-> frames[depth].stdin]]
  /\ depth'  = depth + 1
  /\ status' = "run"
  /\ UNCHANGED result

Finish ==
  /\ Working
  /\ result' \in ExitCodes
  /\ depth'  = depth - 1
  /\ frames' = [i \in 0 .. depth - 1 |-> frames[i]]
  /\ UNCHANGED status

\* The machine stops in the middle of a system call, or when no program is left.
Stop ==
  /\ \/ status = "boot" \/ Working
     \/ status = "run" /\ depth = 0
  /\ status' \in Halts
  /\ UNCHANGED <<depth, frames, result>>

Next == UseStack \/ Redirect \/ ChangeDir \/ Start \/ Finish \/ Stop

Spec == Init /\ [][Next]_vars
=============================================================================
