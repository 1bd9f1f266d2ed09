----------------------------- MODULE Processes ------------------------------
(***************************************************************************)
(* The process table of the Aleph0 operating system: execute, exit and the *)
(* writes of programs to process records (cd, sh, pipe).                   *)
(*                                                                         *)
(* One program runs at a time. execute suspends the caller, gives the new  *)
(* program a page of RAM and a slot of the process table and jumps to it;  *)
(* exit gives both back and resumes the caller as if execute returned.     *)
(* Nothing checks that a slot is free, that the page to give back is the   *)
(* one the program got, or that a stack stays in its page.                 *)
(*                                                                         *)
(* An address is split into the page it lies in and the word of that page. *)
(* What a program does between two calls of the system is arbitrary use    *)
(* of at most StackWords words of stack, and the rest of its page has room *)
(* for what exit puts on the stack before it reads the stack pointer.      *)
(***************************************************************************)
EXTENDS Bitmap

CONSTANTS
  OsPages,      \* pages the OS and the stdlib occupy from address 0 on
  PageSize,     \* words of a page: 1024 in the machine
  StackWords,   \* words of stack a program uses at most
  Dirs,         \* directory sectors, the values of cwd
  Streams,      \* addresses of streams, the values of stdout and stdin
  ExitCodes

RootDir == 1         \* sector of the root directory
Unset   == 65535     \* 0xFFFF: no redirection

\* Words on the stack when exit reads the stack pointer: the return address of CALL exit,
\* the exit code and the mask of the process.
WordsOfExit == 3

ASSUME OsPagesAssumption == OsPages \in 1 .. Width
ASSUME StackAssumption   == /\ PageSize \in Nat
                            /\ StackWords \in 1 .. PageSize - 1 - WordsOfExit
ASSUME DirsAssumption    == Dirs \subseteq Nat \ {0} /\ RootDir \in Dirs
ASSUME StreamAssumption  == Streams \subseteq Nat \ {0} /\ Unset \notin Streams

VARIABLES
  iup,          \* map of the pages in use,     word at 0xF806
  processMap,   \* map of the processes in use, word at 0xF804
  current,      \* slot of the running process, pointer at 0xF802
  table,        \* process records, 16 bytes each from 0xF820
  SP,           \* stack pointer of the CPU
  result,       \* register A after execute returned: the exit code
  cpu           \* "boot", "run", or the code loaded for the HLT that stopped it

vars == <<iup, processMap, current, table, SP, result, cpu>>

-----------------------------------------------------------------------------
NoParent == -1       \* 0xFFFF in the record of the OS
Slots    == 0 .. Width   \* slot Width is the first one past the table
Pages    == 0 .. 2 * Width - 1
Address  == [page : Pages, off : 0 .. PageSize - 1]
Redirections == Streams \cup {Unset}

Halts == {"1010",    \* the OS, when the first program exits
          "FFFF",    \* execute: file not found
          "FFFE",    \* execute: file is not an EXE, or no page is free
          "FAFA",    \* execute: dynamic linking with not the stdlib
          "AEDA"}    \* exit: the stack is in the upper half of RAM

Process == [parent : {NoParent} \cup Slots, cwd : Dirs \cup {0}, SP : Address,
            stdout : Redirections \cup {0}, stdin : Redirections \cup {0}]

\* PUSH writes and then moves the stack pointer one word down, POP moves it up.
Down(a) == IF a.off > 0 THEN [a EXCEPT !.off = @ - 1]
           ELSE [page |-> (a.page - 1) % (2 * Width), off |-> PageSize - 1]
Up(a)   == IF a.off < PageSize - 1 THEN [a EXCEPT !.off = @ + 1]
           ELSE [page |-> (a.page + 1) % (2 * Width), off |-> 0]

\* Last word of a page. execute stores argv there and sets the stack pointer one word
\* below it, but then takes argv back with POPB: a program starts with an empty stack.
TopOf(p) == [page |-> p, off |-> PageSize - 1]

\* A record nothing was written to yet.
Blank == [parent |-> NoParent, cwd |-> 0, SP |-> [page |-> 0, off |-> 0],
          stdout |-> 0, stdin |-> 0]

OsProcess == [parent |-> NoParent, cwd |-> RootDir, SP |-> TopOf(2 * Width - 1),
              stdout |-> Unset, stdin |-> Unset]

Init ==
  /\ iup        = 0 .. OsPages - 1
  /\ processMap = {0}
  /\ current    = 0
  /\ table      = [s \in Slots |-> IF s = 0 THEN OsProcess ELSE Blank]
  /\ SP         = TopOf(2 * Width - 1)
  /\ result     = 0
  /\ cpu        = "boot"

-----------------------------------------------------------------------------
(* What the program that runs does on its own.                              *)

InProgram == cpu = "run" /\ current # 0

\* The program keeps within its StackWords words.
HasRoom == SP.off >= PageSize - StackWords

Push ==
  /\ InProgram /\ HasRoom
  /\ SP' = Down(SP)
  /\ UNCHANGED <<iup, processMap, current, table, result, cpu>>

Pop ==
  /\ InProgram /\ SP.off < PageSize - 1
  /\ SP' = Up(SP)
  /\ UNCHANGED <<iup, processMap, current, table, result, cpu>>

\* sh and pipe redirect themselves before they execute a command.
SetStdout(stream) ==
  /\ InProgram
  /\ table' = [table EXCEPT ![current].stdout = stream]
  /\ UNCHANGED <<iup, processMap, current, SP, result, cpu>>

SetStdin(stream) ==
  /\ InProgram
  /\ table' = [table EXCEPT ![current].stdin = stream]
  /\ UNCHANGED <<iup, processMap, current, SP, result, cpu>>

\* cd changes the directory of the process that executed it.
SetGrandparentCwd(dir) ==
  /\ InProgram
  /\ table' = [table EXCEPT ![table[table[current].parent].parent].cwd = dir]
  /\ UNCHANGED <<iup, processMap, current, SP, result, cpu>>

SetParentCwd(dir) ==
  /\ InProgram
  /\ table' = [table EXCEPT ![table[current].parent].cwd = dir]
  /\ UNCHANGED <<iup, processMap, current, SP, result, cpu>>

-----------------------------------------------------------------------------
(* execute *)

\* The OS executes sh once; a program executes whatever and whenever it likes.
CanExecute == cpu = "boot" \/ (InProgram /\ HasRoom)

PageNotChecked == TRUE

PageIsFree == iup # Items

Halt(code) == cpu' = code

\* allocate_page finds every bit of the map set.
ExecuteWithoutPage ==
  /\ CanExecute /\ ~PageIsFree
  /\ Halt("FFFE")
  /\ UNCHANGED <<iup, processMap, current, table, SP, result>>

\* The page is allocated before the file is opened and checked.
ExecuteBadFile(code) ==
  /\ CanExecute /\ PageIsFree
  /\ iup' = AddBit(iup, FirstClear(iup))
  /\ Halt(code)
  /\ UNCHANGED <<processMap, current, table, SP, result>>

NewProcess ==
  [parent |-> current, cwd |-> table[current].cwd, SP |-> [page |-> 0, off |-> 0],
   stdout |-> table[current].stdout, stdin |-> table[current].stdin]

\* CALL execute pushed the return address: the stack pointer saved for the
\* caller is the one RET needs.
SpOfCaller == SP

SpBeforeReturn == Down(SP)

Execute ==
  /\ CanExecute /\ PageIsFree
  /\ LET page == FirstClear(iup)
         slot == FirstClear(processMap)
     IN  /\ iup'        = AddBit(iup, page)
         /\ processMap' = AddBit(processMap, slot)
         /\ current'    = slot
         /\ table'      = [table EXCEPT ![slot] = NewProcess, ![current].SP = SpBeforeReturn]
         /\ SP'         = TopOf(page)
  /\ cpu' = "run"
  /\ UNCHANGED result

-----------------------------------------------------------------------------
(* exit *)

\* The mask is made by shifting 0x8000 right, once and then until the count is 0:
\* a count of 0 goes on until nothing is left of the mask.
ReleaseOffByOne(map, k) == IF k <= 1 THEN map ELSE SubBit(map, k - 1)

Release(map, k) == IF k = 0 THEN map ELSE SubBit(map, k)

\* The stack pointer exit reads, WordsOfExit below that of the program.
SpInExit == Down(Down(Down(SP)))

\* The page given back is the one that stack pointer is in.
Exit(code) ==
  /\ InProgram
  /\ IF SpInExit.page >= Width
     THEN /\ Halt("AEDA")
          /\ UNCHANGED <<iup, processMap, current, table, SP, result>>
     ELSE /\ iup'        = Release(iup, SpInExit.page)
          /\ processMap' = Release(processMap, current)
          /\ current'    = table[current].parent
          /\ SP'         = Up(table[table[current].parent].SP)
          /\ result'     = code
          /\ UNCHANGED <<table, cpu>>

\* The call of execute in the OS returned.
OsStops ==
  /\ cpu = "run" /\ current = 0
  /\ Halt("1010")
  /\ UNCHANGED <<iup, processMap, current, table, SP, result>>

Next ==
  \/ Push
  \/ Pop
  \/ \E stream \in Redirections : SetStdout(stream)
  \/ \E stream \in Redirections : SetStdin(stream)
  \/ \E dir \in Dirs : SetParentCwd(dir)
  \/ ExecuteWithoutPage
  \/ \E code \in {"FFFF", "FFFE", "FAFA"} : ExecuteBadFile(code)
  \/ Execute
  \/ \E code \in ExitCodes : Exit(code)
  \/ OsStops

Spec == Init /\ [][Next]_vars

-----------------------------------------------------------------------------
(* Properties *)

TypeOK ==
  /\ iup \subseteq Items
  /\ processMap \subseteq Items
  /\ current \in Slots
  /\ table \in [Slots -> Process]
  /\ SP \in Address
  /\ result \in ExitCodes \cup {0}
  /\ cpu \in {"boot", "run"} \cup Halts

Programs  == processMap \ {0}
PageOf(s) == IF s = current THEN SP.page ELSE table[s].SP.page

\* While the machine runs, the pages in use are those of the OS and one for each
\* program started and not finished, no two alike: execute never gives out a page
\* that is taken, and exit, which computes the page to give back from the stack
\* pointer, gives back the page of the program that exits and no other.
PagesAccounted ==
  cpu \notin Halts =>
    /\ iup = 0 .. OsPages - 1 \cup {PageOf(s) : s \in Programs}
    /\ \A s \in Programs : PageOf(s) \notin 0 .. OsPages - 1
    /\ \A s, t \in Programs : PageOf(s) = PageOf(t) => s = t

\* The processes in use are the running one and those waiting for it, in one line
\* that ends at the OS: each but the running one waits for exactly one other. The
\* slot execute takes always lies in the table, though execute does not check
\* ("TODO: check if no more processes").
OneLine ==
  /\ {0, current} \subseteq processMap
  /\ \A s \in Programs : table[s].parent \in processMap
  /\ \A s \in Programs : table[s].parent # current
  /\ \A s, t \in Programs : table[s].parent = table[t].parent => s = t

\* No step of a program, of execute or of exit touches what a waiting process will
\* need: its record keeps parent, stack pointer and redirections, its directory
\* is changed by the program it waits for and by no other, and when it goes on, it
\* does so with the stack pointer it had before it called execute.
WaitingKept ==
  [][\A s \in processMap \ {current} :
        /\ s \in processMap'
        /\ [table'[s] EXCEPT !.cwd = table[s].cwd] = table[s]
        /\ table'[s].cwd # table[s].cwd => s = table[current].parent /\ current' = current
        /\ current' = s => SP' = Up(table[s].SP)]_vars

\* asm/execute.asm and asm/exit.asm change the maps by SUM and SUB and search them by
\* shifting: on the words these come to, bits that are set or cleared twice included, the
\* operations on sets of items do the same.
MapsAreWords == \A map \in {iup, processMap} : SumAndSub(map) /\ FirstClearIsSearch(map)

-----------------------------------------------------------------------------
(* The inductive invariant: slots and pages are given out in order.         *)

\* The slots in use are the first ones, each process started by the one before it.
SlotsInOrder ==
  /\ current < Width
  /\ processMap = 0 .. current
  /\ \A s \in 1 .. current : table[s].parent = s - 1

\* The page of a program is as far above the OS as its slot; the page map agrees
\* while the machine runs (a failing execute leaves its page marked).
PagesInOrder ==
  /\ OsPages + current <= Width
  /\ PageOf(0) = 2 * Width - 1
  /\ \A s \in 1 .. current : PageOf(s) = OsPages + s - 1
  /\ cpu \notin Halts => iup = 0 .. OsPages + current - 1

\* No stack leaves its page, and the stack of a waiting process has the return
\* address of execute on it.
StacksInPage ==
  /\ SP.off >= PageSize - 1 - StackWords
  /\ \A s \in 0 .. current - 1 : table[s].SP.off \in PageSize - 1 - StackWords .. PageSize - 2

IInv ==
  /\ TypeOK
  /\ SlotsInOrder
  /\ PagesInOrder
  /\ StacksInPage
  /\ cpu = "boot" => current = 0 /\ SP.off = PageSize - 1
  /\ \A s \in 0 .. current :
       /\ table[s].cwd \in Dirs
       /\ table[s].stdout \in Redirections
       /\ table[s].stdin \in Redirections

-----------------------------------------------------------------------------
(* The refinement *)

\* A process gets, and gives back, the place right after that of its caller.
FrameOf(at, process) ==
  [page |-> at.page, off |-> at.off, cwd |-> process.cwd,
   stdout |-> process.stdout, stdin |-> process.stdin]

Frames ==
  [s \in 0 .. current |->
     FrameOf(IF s = current THEN SP ELSE Up(table[s].SP), table[s])]

Stack == INSTANCE ProcessStack WITH
  FreePages <- OsPages .. Width - 1, StackPage <- 2 * Width - 1,
  depth <- current, frames <- Frames, status <- cpu

\* execute and exit implement a stack of processes.
ImplementsStack == Stack!Spec
=============================================================================
