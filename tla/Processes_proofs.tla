-------------------------- MODULE Processes_proofs --------------------------
(***************************************************************************)
(* Proofs about the process table, for every width of the maps, number of  *)
(* OS pages, page size and stack use the assumptions of Processes allow.   *)
(*                                                                         *)
(* The argument: a process is started by the running one and ends while it *)
(* runs, so slots and pages are taken and given back in the order of a     *)
(* stack and the words of the two maps are always a run of ones from the   *)
(* first bit on (IInv). Every sum sets a clear bit and every subtraction   *)
(* clears a set one: nothing ever carries or borrows.                      *)
(***************************************************************************)
EXTENDS Processes, WellFoundedInduction, TLAPS

(***************************************************************************)
(* Maps whose ones are the first n + 1 bits.                               *)
(***************************************************************************)

\* The loops of allocate_page and search_process stop at the first clear bit.
LEMMA FirstClearOfPrefix ==
  ASSUME NEW n \in 0 .. Width - 1
  PROVE  FirstClear(0 .. n) = n + 1
<1>1. n + 1 \in (1 .. Width) \ (0 .. n)
  BY WidthAssumption
<1>2. \A j \in (1 .. Width) \ (0 .. n) : n + 1 <= j
  BY WidthAssumption
<1>3. \A k \in (1 .. Width) \ (0 .. n) :
        (\A j \in (1 .. Width) \ (0 .. n) : k <= j) => k = n + 1
  BY <1>1, <1>2, WidthAssumption
<1> QED
  BY <1>1, <1>2, <1>3 DEF FirstClear

\* Adding the mask of the first clear bit sets it and carries nowhere.
LEMMA AddBitToPrefix ==
  ASSUME NEW n \in 0 .. Width - 2
  PROVE  AddBit(0 .. n, n + 1) = 0 .. n + 1
<1>1. n + 1 \in Items /\ n + 1 \notin 0 .. n
  BY WidthAssumption DEF Items
<1>2. (0 .. n) \cup {n + 1} = 0 .. n + 1
  BY WidthAssumption
<1> QED
  BY <1>1, <1>2 DEF AddBit

\* Subtracting the mask of the last set bit clears it and borrows nowhere.
LEMMA ReleaseOfPrefix ==
  ASSUME NEW n \in 1 .. Width - 1
  PROVE  Release(0 .. n, n) = 0 .. n - 1
<1>1. n \in Items /\ n \in 0 .. n /\ n # 0
  BY WidthAssumption DEF Items
<1>2. (0 .. n) \ {n} = 0 .. n - 1
  BY WidthAssumption
<1> QED
  BY <1>1, <1>2 DEF SubBit, Release

\* The stack of a program and the word above it fit into a page.
LEMMA StackFits == PageSize \in Nat /\ StackWords \in 1 .. PageSize - 1
BY StackAssumption DEF WordsOfExit

\* Moving the stack pointer within a page.
LEMMA DownInPage ==
  ASSUME NEW a \in Address, a.off > 0
  PROVE  Down(a) \in Address /\ Down(a).page = a.page /\ Down(a).off = a.off - 1
BY StackFits DEF Down, Address

\* The page left below the stack of a program has room for the words of exit.
LEMMA SpInExitInPage ==
  ASSUME SP \in Address, SP.off >= PageSize - 1 - StackWords
  PROVE  SpInExit \in Address /\ SpInExit.page = SP.page
<1>1. SP.off \in Nat /\ SP.off >= 3
  BY StackAssumption DEF Address, WordsOfExit
<1>2. Down(SP) \in Address /\ Down(SP).page = SP.page /\ Down(SP).off = SP.off - 1
  BY <1>1, DownInPage
<1>3. /\ Down(Down(SP)) \in Address /\ Down(Down(SP)).page = SP.page
      /\ Down(Down(SP)).off = SP.off - 2
  <2>1. Down(SP).off > 0
    BY <1>1, <1>2
  <2> QED
    BY <1>1, <1>2, <2>1, DownInPage
<1>4. Down(Down(SP)).off > 0
  BY <1>1, <1>3
<1> QED
  BY <1>3, <1>4, DownInPage DEF SpInExit

LEMMA UpInPage ==
  ASSUME NEW a \in Address, a.off < PageSize - 1
  PROVE  Up(a) \in Address /\ Up(a).page = a.page /\ Up(a).off = a.off + 1
BY StackFits DEF Up, Address

LEMMA TopInPage ==
  ASSUME NEW p \in Pages
  PROVE  TopOf(p) \in Address /\ TopOf(p).page = p /\ TopOf(p).off = PageSize - 1
BY StackFits DEF TopOf, Address

(***************************************************************************)
(* The inductive invariant.                                                *)
(***************************************************************************)

LEMMA InitIInv == Init => IInv
<1> SUFFICES ASSUME Init PROVE IInv
  OBVIOUS
<1> USE WidthAssumption, OsPagesAssumption, StackFits, DirsAssumption DEF Init
<1>1. 2 * Width - 1 \in Pages
  BY DEF Pages
<1>2. SP \in Address /\ SP.page = 2 * Width - 1 /\ SP.off = PageSize - 1
  BY <1>1, TopInPage
<1>3. table \in [Slots -> Process]
  <2>1. Blank \in Process
    BY DEF Blank, Process, Address, Pages, Redirections
  <2>2. OsProcess \in Process
    BY <1>1, TopInPage DEF OsProcess, Process, Redirections
  <2> QED
    BY <2>1, <2>2
<1>4. TypeOK
  <2>1. iup \subseteq Items /\ processMap \subseteq Items
    BY DEF Items
  <2>2. current \in Slots /\ result \in ExitCodes \cup {0} /\ cpu \in {"boot", "run"} \cup Halts
    BY DEF Slots
  <2> QED
    BY <1>2, <1>3, <2>1, <2>2 DEF TypeOK
<1>5. table[0] = OsProcess
  BY DEF Slots
<1>6. SlotsInOrder /\ PagesInOrder /\ StacksInPage
  BY <1>2 DEF SlotsInOrder, PagesInOrder, StacksInPage, PageOf
<1>7. \A s \in 0 .. current : /\ table[s].cwd \in Dirs
                              /\ table[s].stdout \in Redirections
                              /\ table[s].stdin \in Redirections
  BY <1>5 DEF OsProcess, Redirections
<1> QED
  BY <1>2, <1>4, <1>6, <1>7 DEF IInv

\* A step that moves the stack pointer within the page keeps the invariant.
LEMMA StackStepIInv ==
  ASSUME IInv, InProgram, Push \/ Pop
  PROVE  IInv'
<1> USE WidthAssumption, OsPagesAssumption, StackFits
<1>1. SP \in Address /\ SP.off \in 0 .. PageSize - 1
  BY DEF IInv, TypeOK, Address
<1>2. /\ SP' \in Address /\ SP'.page = SP.page
      /\ SP'.off \in PageSize - 1 - StackWords .. PageSize - 1
  <2>1. CASE Push
    <3>1. SP.off > 0
      BY <2>1, <1>1 DEF Push, HasRoom
    <3> QED
      BY <2>1, <3>1, <1>1, DownInPage DEF Push, HasRoom
  <2>2. CASE Pop
    <3>1. SP.off >= PageSize - 1 - StackWords
      BY DEF IInv, StacksInPage
    <3> QED
      BY <2>2, <3>1, <1>1, UpInPage DEF Pop
  <2> QED
    BY <2>1, <2>2
<1>3. UNCHANGED <<iup, processMap, current, table, result, cpu>>
  BY DEF Push, Pop
<1>4. TypeOK'
  BY <1>2, <1>3 DEF IInv, TypeOK
<1>5. (SlotsInOrder /\ PagesInOrder /\ StacksInPage)'
  BY <1>2, <1>3 DEF IInv, SlotsInOrder, PagesInOrder, StacksInPage, PageOf
<1>6. cpu' # "boot"
  BY <1>3 DEF InProgram
<1> QED
  BY <1>3, <1>4, <1>5, <1>6 DEF IInv

\* A program that redirects itself, or changes the directory of its parent, keeps it.
LEMMA RecordStepIInv ==
  ASSUME IInv, InProgram,
         \/ \E stream \in Redirections : SetStdout(stream) \/ SetStdin(stream)
         \/ \E dir \in Dirs : SetParentCwd(dir)
  PROVE  IInv'
<1> USE WidthAssumption, OsPagesAssumption, StackFits
<1>1. /\ table \in [Slots -> Process] /\ current \in 0 .. Width - 1
      /\ current \in Slots
  BY DEF IInv, TypeOK, SlotsInOrder, Slots
<1>2. current # 0 /\ table[current].parent \in Slots
  BY <1>1 DEF IInv, SlotsInOrder, InProgram, Slots
<1>3. UNCHANGED <<iup, processMap, current, SP, result, cpu>>
  BY DEF SetStdout, SetStdin, SetParentCwd
<1>4. /\ table' \in [Slots -> Process]
      /\ \A s \in Slots : /\ table'[s].parent = table[s].parent
                          /\ table'[s].SP = table[s].SP
                          /\ table[s].cwd \in Dirs => table'[s].cwd \in Dirs
                          /\ table[s].stdout \in Redirections => table'[s].stdout \in Redirections
                          /\ table[s].stdin \in Redirections => table'[s].stdin \in Redirections
  <2>1. CASE \E stream \in Redirections : SetStdout(stream)
    BY <2>1, <1>1 DEF SetStdout, Process
  <2>2. CASE \E stream \in Redirections : SetStdin(stream)
    BY <2>2, <1>1 DEF SetStdin, Process
  <2>3. CASE \E dir \in Dirs : SetParentCwd(dir)
    BY <2>3, <1>1, <1>2 DEF SetParentCwd, Process
  <2> QED
    BY <2>1, <2>2, <2>3
<1>5. \A s \in 0 .. current : s \in Slots
  BY <1>1 DEF Slots
<1>6. TypeOK'
  BY <1>3, <1>4 DEF IInv, TypeOK
<1>7. (SlotsInOrder /\ PagesInOrder /\ StacksInPage)'
  <2>1. SlotsInOrder'
    BY <1>1, <1>3, <1>4, <1>5 DEF IInv, SlotsInOrder
  <2>2. \A s \in 0 .. current : PageOf(s)' = PageOf(s)
    BY <1>3, <1>4, <1>5 DEF PageOf
  <2>3. PagesInOrder'
    BY <1>1, <1>3, <2>2 DEF IInv, PagesInOrder
  <2>4. StacksInPage'
    BY <1>1, <1>3, <1>4, <1>5 DEF IInv, StacksInPage
  <2> QED
    BY <2>1, <2>3, <2>4
<1>8. cpu' # "boot"
  BY <1>3 DEF InProgram
<1> QED
  BY <1>3, <1>4, <1>5, <1>6, <1>7, <1>8 DEF IInv

\* A system call that stops the machine keeps it: nothing but the page map moves.
LEMMA HaltIInv ==
  ASSUME IInv,
         \/ ExecuteWithoutPage
         \/ \E code \in {"FFFF", "FFFE", "FAFA"} : ExecuteBadFile(code)
         \/ OsStops
  PROVE  IInv'
<1> USE WidthAssumption, OsPagesAssumption, StackFits
<1>1. UNCHANGED <<processMap, current, table, SP, result>> /\ cpu' \in Halts
  BY DEF ExecuteWithoutPage, ExecuteBadFile, OsStops, Halt, Halts
<1>2. iup' \subseteq Items
  <2>1. CASE \E code \in {"FFFF", "FFFE", "FAFA"} : ExecuteBadFile(code)
    <3>1. cpu \notin Halts
      BY <2>1 DEF ExecuteBadFile, CanExecute, InProgram, Halts
    <3>2. /\ OsPages + current - 1 \in 0 .. Width - 1
          /\ iup = 0 .. OsPages + current - 1
      BY <3>1 DEF IInv, PagesInOrder, TypeOK, Slots
    <3>3. OsPages + current - 1 \in 0 .. Width - 2
      BY <2>1, <3>2 DEF ExecuteBadFile, PageIsFree, Items
    <3>4. iup' = 0 .. OsPages + current - 1 + 1
      BY <2>1, <3>2, <3>3, FirstClearOfPrefix, AddBitToPrefix DEF ExecuteBadFile
    <3> QED
      BY <3>3, <3>4 DEF Items
  <2>2. CASE iup' = iup
    BY <2>2 DEF IInv, TypeOK
  <2> QED
    BY <2>1, <2>2 DEF ExecuteWithoutPage, OsStops
<1>3. TypeOK'
  BY <1>1, <1>2 DEF IInv, TypeOK
<1>4. (SlotsInOrder /\ PagesInOrder /\ StacksInPage)'
  BY <1>1 DEF IInv, SlotsInOrder, PagesInOrder, StacksInPage, PageOf
<1>5. cpu' # "boot"
  BY <1>1 DEF Halts
<1> QED
  BY <1>1, <1>3, <1>4, <1>5 DEF IInv

\* What the caller of execute looks like: it has room for the return address.
LEMMA CallerOfExecute ==
  ASSUME IInv, CanExecute
  PROVE  /\ cpu \notin Halts
         /\ current \in 0 .. Width - 1
         /\ SP \in Address
         /\ SP.off \in PageSize - StackWords .. PageSize - 1
<1> USE StackFits
<1>1. SP \in Address /\ SP.off \in 0 .. PageSize - 1 /\ current \in 0 .. Width - 1
  BY WidthAssumption DEF IInv, TypeOK, Address, SlotsInOrder, Slots
<1>2. CASE cpu = "boot"
  BY <1>1, <1>2 DEF IInv, Halts
<1>3. CASE InProgram /\ HasRoom
  BY <1>1, <1>3 DEF InProgram, HasRoom, Halts
<1> QED
  BY <1>2, <1>3 DEF CanExecute

LEMMA ExecuteIInv ==
  ASSUME IInv, Execute
  PROVE  IInv'
<1> USE WidthAssumption, OsPagesAssumption, StackFits
<1> DEFINE page == OsPages + current
           slot == current + 1
<1>1. /\ cpu \notin Halts /\ current \in 0 .. Width - 1 /\ SP \in Address
      /\ SP.off \in PageSize - StackWords .. PageSize - 1
  BY CallerOfExecute DEF Execute, SpBeforeReturn
<1>2. /\ iup = 0 .. page - 1 /\ page \in OsPages .. Width - 1
  <2>1. iup = 0 .. page - 1 /\ page <= Width
    BY <1>1 DEF IInv, PagesInOrder
  <2>2. page # Width
    BY <2>1 DEF Execute, PageIsFree, Items
  <2> QED
    BY <1>1, <2>1, <2>2
<1>3. processMap = 0 .. current /\ current <= Width - 2
  BY <1>1, <1>2 DEF IInv, SlotsInOrder
<1>4. FirstClear(iup) = page /\ FirstClear(processMap) = slot
  <2>1. page - 1 \in 0 .. Width - 1 /\ page - 1 + 1 = page
    BY <1>1, <1>2
  <2>2. FirstClear(0 .. page - 1) = page - 1 + 1
    BY <2>1, FirstClearOfPrefix
  <2> QED
    BY <1>1, <1>2, <1>3, <2>1, <2>2, FirstClearOfPrefix
<1>5. iup' = 0 .. page /\ processMap' = 0 .. slot
  <2>1. page - 1 \in 0 .. Width - 2 /\ page - 1 + 1 = page
    BY <1>1, <1>2
  <2>2. AddBit(0 .. page - 1, page - 1 + 1) = 0 .. page - 1 + 1
    BY <2>1, AddBitToPrefix
  <2>3. AddBit(0 .. current, current + 1) = 0 .. current + 1
    BY <1>1, <1>3, AddBitToPrefix
  <2> QED
    BY <1>2, <1>3, <1>4, <2>1, <2>2, <2>3 DEF Execute, SpBeforeReturn
<1>6. /\ current' = slot /\ SP' = TopOf(page) /\ cpu' = "run" /\ result' = result
      /\ table' = [table EXCEPT ![slot] = NewProcess, ![current].SP = Down(SP)]
  BY <1>4 DEF Execute, SpBeforeReturn
<1>7. /\ SP' \in Address /\ SP'.page = page /\ SP'.off = PageSize - 1
  <2>1. page \in Pages
    BY <1>1, <1>2 DEF Pages
  <2>2. TopOf(page) \in Address /\ TopOf(page).page = page /\ TopOf(page).off = PageSize - 1
    BY <2>1, TopInPage
  <2> QED
    BY <1>6, <2>2
<1>8. /\ Down(SP) \in Address /\ Down(SP).page = SP.page
      /\ Down(SP).off \in PageSize - 1 - StackWords .. PageSize - 2
  BY <1>1, DownInPage
<1>9. /\ table \in [Slots -> Process]
      /\ current \in Slots /\ slot \in Slots /\ slot # current
      /\ \A s \in 0 .. slot : s \in Slots /\ (s = slot \/ s = current \/ s \in 0 .. current - 1)
  BY <1>1, <1>3 DEF IInv, TypeOK, Slots
<1>10. NewProcess \in Process
  <2>1. [page |-> 0, off |-> 0] \in Address
    BY DEF Address, Pages
  <2>2. table[current] \in Process
    BY <1>9
  <2> QED
    BY <1>9, <2>1, <2>2 DEF NewProcess, Process
<1>11. /\ table' \in [Slots -> Process]
       /\ table'[slot] = NewProcess
       /\ table'[current] = [table[current] EXCEPT !.SP = Down(SP)]
       /\ \A s \in Slots : s # slot /\ s # current => table'[s] = table[s]
  <2>1. [table[current] EXCEPT !.SP = Down(SP)] \in Process
    BY <1>8, <1>9 DEF Process
  <2> QED
    BY <1>6, <1>9, <1>10, <2>1
<1>12. /\ table'[current].parent = table[current].parent
       /\ table'[current].SP = Down(SP)
       /\ table'[current].cwd = table[current].cwd
       /\ table'[current].stdout = table[current].stdout
       /\ table'[current].stdin = table[current].stdin
  BY <1>9, <1>11 DEF Process
<1>13. TypeOK'
  <2>1. iup' \subseteq Items /\ processMap' \subseteq Items
    BY <1>1, <1>2, <1>3, <1>5 DEF Items
  <2>2. current' \in Slots /\ result' \in ExitCodes \cup {0}
    BY <1>6, <1>9 DEF IInv, TypeOK
  <2> QED
    BY <1>6, <1>7, <1>11, <2>1, <2>2 DEF TypeOK
<1>14. SlotsInOrder'
  <2>1. \A s \in 1 .. slot : table'[s].parent = s - 1
    <3> TAKE s \in 1 .. slot
    <3>1. CASE s = slot
      BY <1>1, <1>11, <3>1 DEF NewProcess
    <3>2. CASE s = current
      BY <1>12, <3>2 DEF IInv, SlotsInOrder
    <3>3. CASE s \in 1 .. current - 1
      BY <1>1, <1>9, <1>11, <3>3, SMTT(30) DEF IInv, SlotsInOrder
    <3> QED
      BY <1>1, <3>1, <3>2, <3>3
  <2>2. slot < Width
    BY <1>1, <1>3
  <2> HIDE DEF slot
  <2> QED
    BY <1>5, <1>6, <2>1, <2>2 DEF SlotsInOrder
<1>15. PagesInOrder'
  <2>1. \A s \in 0 .. current : PageOf(s)' = PageOf(s)
    <3> TAKE s \in 0 .. current
    <3>1. CASE s = current
      BY <1>1, <1>6, <1>8, <1>12, <3>1 DEF PageOf
    <3>2. CASE s # current
      BY <1>1, <1>6, <1>9, <1>11, <3>2 DEF PageOf
    <3> QED
      BY <3>1, <3>2
  <2>2. \A s \in 1 .. slot : PageOf(s)' = OsPages + s - 1
    <3> TAKE s \in 1 .. slot
    <3>1. CASE s = slot
      BY <1>1, <1>6, <1>7, <3>1 DEF PageOf
    <3>2. CASE s \in 1 .. current
      BY <1>1, <2>1, <3>2 DEF IInv, PagesInOrder
    <3> QED
      BY <1>1, <3>1, <3>2
  <2>3. PageOf(0)' = 2 * Width - 1
    BY <1>1, <2>1 DEF IInv, PagesInOrder
  <2>4. OsPages + slot - 1 = page /\ OsPages + slot <= Width
    BY <1>1, <1>2
  <2> HIDE DEF slot, page
  <2> QED
    BY <1>5, <1>6, <2>2, <2>3, <2>4 DEF PagesInOrder
<1>16. StacksInPage'
  <2>1. \A s \in 0 .. current : table'[s].SP.off \in PageSize - 1 - StackWords .. PageSize - 2
    <3> TAKE s \in 0 .. current
    <3>1. CASE s = current
      BY <1>8, <1>12, <3>1
    <3>2. CASE s \in 0 .. current - 1
      BY <1>1, <1>9, <1>11, <3>2 DEF IInv, StacksInPage
    <3> QED
      BY <1>1, <3>1, <3>2
  <2>2. slot - 1 = current /\ SP'.off >= PageSize - 1 - StackWords
    BY <1>1, <1>7
  <2> HIDE DEF slot
  <2> QED
    BY <1>6, <2>1, <2>2 DEF StacksInPage
<1>17. \A s \in 0 .. slot : /\ table'[s].cwd \in Dirs
                            /\ table'[s].stdout \in Redirections
                            /\ table'[s].stdin \in Redirections
  <2> TAKE s \in 0 .. slot
  <2>1. CASE s = slot
    BY <1>1, <1>11, <2>1 DEF NewProcess, IInv
  <2>2. CASE s = current
    BY <1>1, <1>12, <2>2 DEF IInv
  <2>3. CASE s \in 0 .. current - 1
    BY <1>1, <1>9, <1>11, <2>3 DEF IInv
  <2> QED
    BY <1>9, <2>1, <2>2, <2>3
<1>18. cpu' # "boot"
  BY <1>6
<1> QED
  BY <1>6, <1>13, <1>14, <1>15, <1>16, <1>17, <1>18 DEF IInv

LEMMA ExitIInv ==
  ASSUME IInv, NEW code \in ExitCodes, Exit(code)
  PROVE  IInv'
<1> USE WidthAssumption, OsPagesAssumption, StackFits
<1> DEFINE page   == OsPages + current - 1
           parent == current - 1
<1>1. /\ cpu \notin Halts /\ cpu = "run" /\ current \in 1 .. Width - 1
  BY DEF Exit, InProgram, IInv, TypeOK, SlotsInOrder, Slots, Halts
<1>2. /\ SpInExit.page = page /\ page \in 1 .. Width - 1
      /\ iup = 0 .. page /\ processMap = 0 .. current
      /\ table[current].parent = parent
  <2>1. SpInExit.page = SP.page
    BY SpInExitInPage DEF IInv, TypeOK, StacksInPage
  <2> QED
    BY <1>1, <2>1 DEF IInv, PagesInOrder, SlotsInOrder, PageOf
<1>3. /\ iup' = Release(0 .. page, page) /\ processMap' = Release(0 .. current, current)
      /\ current' = parent /\ SP' = Up(table[parent].SP) /\ result' = code
      /\ table' = table /\ cpu' = cpu
  BY <1>2 DEF Exit
<1>4. iup' = 0 .. page - 1 /\ processMap' = 0 .. parent
  BY <1>1, <1>2, <1>3, ReleaseOfPrefix
<1>5. /\ parent \in Slots /\ table \in [Slots -> Process]
      /\ table[parent].SP \in Address
      /\ table[parent].SP.off \in PageSize - 1 - StackWords .. PageSize - 2
  BY <1>1 DEF IInv, TypeOK, StacksInPage, Process, Slots
<1>6. /\ SP' \in Address /\ SP'.page = table[parent].SP.page
      /\ SP'.off \in PageSize - 1 - StackWords .. PageSize - 1
  BY <1>3, <1>5, UpInPage
<1>7. TypeOK'
  <2>1. iup' \subseteq Items /\ processMap' \subseteq Items
    BY <1>1, <1>2, <1>4 DEF Items
  <2> QED
    BY <1>3, <1>5, <1>6, <2>1 DEF IInv, TypeOK
<1>8. SlotsInOrder'
  BY <1>1, <1>3, <1>4 DEF IInv, SlotsInOrder
<1>9. PagesInOrder'
  <2>1. \A s \in 0 .. parent : PageOf(s)' = PageOf(s)
    BY <1>1, <1>3, <1>6 DEF PageOf
  <2>2. OsPages + parent - 1 = page - 1 /\ OsPages + parent <= Width
    BY <1>1, <1>2
  <2>3. /\ \A s \in 1 .. parent : PageOf(s)' = OsPages + s - 1
        /\ PageOf(0)' = 2 * Width - 1
    BY <1>1, <2>1 DEF IInv, PagesInOrder
  <2> HIDE DEF parent, page
  <2> QED
    BY <1>3, <1>4, <2>2, <2>3 DEF PagesInOrder
<1>10. StacksInPage'
  BY <1>1, <1>3, <1>6 DEF IInv, StacksInPage
<1> QED
  BY <1>1, <1>3, <1>7, <1>8, <1>9, <1>10 DEF IInv

\* IInv holds in every state the system reaches.
THEOREM Inductive == Spec => []IInv
<1>1. IInv /\ [Next]_vars => IInv'
  <2> SUFFICES ASSUME IInv, [Next]_vars PROVE IInv'
    OBVIOUS
  <2>1. CASE Push \/ Pop
    BY <2>1, StackStepIInv DEF Push, Pop
  <2>2. CASE \/ \E stream \in Redirections : SetStdout(stream)
             \/ \E stream \in Redirections : SetStdin(stream)
             \/ \E dir \in Dirs : SetParentCwd(dir)
    BY <2>2, RecordStepIInv DEF SetStdout, SetStdin, SetParentCwd
  <2>3. CASE \/ ExecuteWithoutPage
             \/ \E code \in {"FFFF", "FFFE", "FAFA"} : ExecuteBadFile(code)
             \/ OsStops
    BY <2>3, HaltIInv
  <2>4. CASE Execute
    BY <2>4, ExecuteIInv
  <2>5. CASE \E code \in ExitCodes : Exit(code)
    BY <2>5, ExitIInv
  <2>6. CASE UNCHANGED vars
    BY <2>6 DEF vars, IInv, TypeOK, SlotsInOrder, PagesInOrder, StacksInPage, PageOf
  <2> QED
    BY <2>1, <2>2, <2>3, <2>4, <2>5, <2>6 DEF Next
<1> QED
  BY InitIInv, <1>1, PTL DEF Spec

(***************************************************************************)
(* The properties of the runs.                                             *)
(***************************************************************************)

\* Type correctness.
THEOREM TypeCorrect == Spec => []TypeOK
<1>1. IInv => TypeOK
  BY DEF IInv
<1> QED
  BY <1>1, Inductive, PTL

\* execute never gives out a page that is taken and exit gives back the page of the
\* program that exits, for any number of programs on a machine of any size.
THEOREM PagesAreAccounted == Spec => []PagesAccounted
<1>1. IInv => PagesAccounted
  <2> SUFFICES ASSUME IInv, cpu \notin Halts
               PROVE  /\ iup = 0 .. OsPages - 1 \cup {PageOf(s) : s \in Programs}
                      /\ \A s \in Programs : PageOf(s) \notin 0 .. OsPages - 1
                      /\ \A s, t \in Programs : PageOf(s) = PageOf(t) => s = t
    BY DEF PagesAccounted
  <2> USE WidthAssumption, OsPagesAssumption
  <2>1. /\ current \in 0 .. Width - 1
        /\ iup = 0 .. OsPages + current - 1
    BY DEF IInv, TypeOK, SlotsInOrder, PagesInOrder, Slots
  <2>2. Programs = 1 .. current
    BY <2>1 DEF Programs, IInv, SlotsInOrder
  <2>3. \A s \in Programs : PageOf(s) = OsPages + s - 1
    BY <2>2 DEF IInv, PagesInOrder
  <2>4. {PageOf(s) : s \in Programs} = OsPages .. OsPages + current - 1
    <3>1. \A p \in OsPages .. OsPages + current - 1 : p - OsPages + 1 \in Programs
      BY <2>1, <2>2
    <3>2. \A p \in OsPages .. OsPages + current - 1 : p = PageOf(p - OsPages + 1)
      BY <2>1, <2>3, <3>1
    <3>3. OsPages .. OsPages + current - 1 \subseteq {PageOf(s) : s \in Programs}
      BY <3>1, <3>2
    <3>4. \A s \in Programs : PageOf(s) \in OsPages .. OsPages + current - 1
      BY <2>1, <2>2, <2>3
    <3> QED
      BY <3>3, <3>4
  <2>5. iup = 0 .. OsPages - 1 \cup (OsPages .. OsPages + current - 1)
    BY <2>1
  <2> QED
    BY <2>1, <2>2, <2>3, <2>4, <2>5
<1> QED
  BY <1>1, Inductive, PTL

\* The processes in use form one line from the running one to the OS, and execute
\* always finds a slot inside the table although it does not look whether one is left:
\* pages run out first, because the OS has at least one.
THEOREM ProcessesInOneLine == Spec => []OneLine
<1>1. IInv => OneLine
  <2> SUFFICES ASSUME IInv PROVE OneLine
    OBVIOUS
  <2> USE WidthAssumption
  <2>1. /\ current \in 0 .. Width - 1
        /\ processMap = 0 .. current
        /\ \A s \in 1 .. current : table[s].parent = s - 1
    BY DEF IInv, TypeOK, SlotsInOrder, Slots
  <2>2. Programs = 1 .. current
    BY <2>1 DEF Programs
  <2> QED
    BY <2>1, <2>2 DEF OneLine
<1> QED
  BY <1>1, Inductive, PTL

\* A waiting process is left alone by the program it waits for, whatever that program
\* starts, except for its directory, and goes on with the stack pointer it called with.
THEOREM WaitingProcessesKept == Spec => WaitingKept
<1> DEFINE Kept(s) ==
      /\ s \in processMap'
      /\ [table'[s] EXCEPT !.cwd = table[s].cwd] = table[s]
      /\ table'[s].cwd # table[s].cwd => s = table[current].parent /\ current' = current
      /\ current' = s => SP' = Up(table[s].SP)
<1>1. ASSUME IInv, [Next]_vars
      PROVE  [\A s \in processMap \ {current} : Kept(s)]_vars
  <2> SUFFICES ASSUME Next, NEW s \in processMap \ {current}
               PROVE  Kept(s)
    BY <1>1
  <2> USE WidthAssumption, OsPagesAssumption
  <2>1. /\ current \in 0 .. Width - 1 /\ current \in Slots
        /\ processMap = 0 .. current
        /\ s \in 0 .. current - 1 /\ s \in Slots
        /\ table \in [Slots -> Process] /\ table[s] \in Process
        /\ current # 0 /\ table[current].parent = current - 1
        /\ table[current].parent \in Slots
    BY <1>1 DEF IInv, TypeOK, SlotsInOrder, Slots
  <2>2. [table[s] EXCEPT !.cwd = table[s].cwd] = table[s]
    BY <2>1 DEF Process
  <2>3. ASSUME Push \/ Pop \/ ExecuteWithoutPage \/ OsStops
               \/ \E code \in {"FFFF", "FFFE", "FAFA"} : ExecuteBadFile(code)
        PROVE  Kept(s)
    BY <2>1, <2>2, <2>3 DEF Push, Pop, ExecuteWithoutPage, ExecuteBadFile, OsStops
  <2>4. ASSUME NEW stream \in Redirections, SetStdout(stream) \/ SetStdin(stream)
        PROVE  Kept(s)
    <3>1. table'[s] = table[s] /\ UNCHANGED <<processMap, current>>
      BY <2>1, <2>4 DEF SetStdout, SetStdin
    <3> QED
      BY <2>1, <2>2, <3>1
  <2>5. ASSUME NEW dir \in Dirs, SetParentCwd(dir)
        PROVE  Kept(s)
    <3>1. /\ UNCHANGED <<processMap, current>>
          /\ s = table[current].parent => table'[s] = [table[s] EXCEPT !.cwd = dir]
          /\ s # table[current].parent => table'[s] = table[s]
      BY <2>1, <2>5 DEF SetParentCwd
    <3>2. [[table[s] EXCEPT !.cwd = dir] EXCEPT !.cwd = table[s].cwd] = table[s]
      BY <2>1 DEF Process
    <3> QED
      BY <2>1, <2>2, <3>1, <3>2
  <2>6. ASSUME Execute
        PROVE  Kept(s)
    <3>1. /\ IInv'
          /\ FirstClear(processMap) = current + 1 /\ current + 1 \in Slots
      BY <1>1, <2>1, <2>6, ExecuteIInv, FirstClearOfPrefix DEF Slots
    <3>2. current' = current + 1 /\ table'[s] = table[s]
      BY <2>1, <2>6, <3>1 DEF Execute, SpBeforeReturn
    <3>3. processMap' = 0 .. current + 1
      BY <3>1, <3>2 DEF IInv, SlotsInOrder
    <3> QED
      BY <2>1, <2>2, <3>2, <3>3
  <2>7. ASSUME NEW code \in ExitCodes, Exit(code)
        PROVE  Kept(s)
    <3>1. CASE SpInExit.page >= Width
      BY <2>1, <2>2, <2>7, <3>1 DEF Exit
    <3>2. CASE ~(SpInExit.page >= Width)
      <4>1. /\ current' = current - 1 /\ table' = table
            /\ SP' = Up(table[current - 1].SP)
            /\ processMap' = Release(0 .. current, current)
        BY <2>1, <2>7, <3>2 DEF Exit
      <4>2. processMap' = 0 .. current - 1
        BY <2>1, <4>1, ReleaseOfPrefix
      <4> QED
        BY <2>1, <2>2, <4>1, <4>2
    <3> QED
      BY <3>1, <3>2
  <2> QED
    BY <2>3, <2>4, <2>5, <2>6, <2>7 DEF Next
<1>2. IInv /\ [Next]_vars => [\A s \in processMap \ {current} : Kept(s)]_vars
  BY <1>1
<1> QED
  BY <1>2, Inductive, PTL DEF Spec, WaitingKept

(***************************************************************************)
(* The refinement: execute and exit implement a stack of processes.        *)
(***************************************************************************)

\* The slots in use lie in the table.
LEMMA SlotsOfIInv ==
  ASSUME IInv
  PROVE  /\ current \in 0 .. Width - 1 /\ current \in Slots /\ current + 1 \in Slots
         /\ table \in [Slots -> Process]
         /\ SP \in Address
         /\ \A s \in 0 .. current - 1 : s \in Slots /\ s # current /\ s # current + 1
BY WidthAssumption DEF IInv, TypeOK, SlotsInOrder, Slots

\* A function that differs from another one at one point.
LEMMA DiffersAt ==
  ASSUME NEW D, NEW f, NEW g, NEW k \in D, NEW v,
         f = [x \in D |-> f[x]], g = [x \in D |-> g[x]],
         g[k] = v, \A x \in D : x # k => g[x] = f[x]
  PROVE  g = [f EXCEPT ![k] = v]
OBVIOUS

\* The frames before and after a step.
LEMMA FrameValues ==
  /\ Frames = [s \in 0 .. current |-> Frames[s]]
  /\ Frames' = [s \in 0 .. current' |-> Frames'[s]]
  /\ \A s \in 0 .. current : Frames[s] =
       FrameOf(IF s = current THEN SP ELSE Up(table[s].SP), table[s])
  /\ \A s \in 0 .. current' : Frames'[s] =
       FrameOf(IF s = current' THEN SP' ELSE Up(table'[s].SP), table'[s])
BY DEF Frames

LEMMA InitRefines == Init => Stack!Init
<1> SUFFICES ASSUME Init PROVE Stack!Init
  OBVIOUS
<1> USE WidthAssumption, StackFits
<1>1. /\ current = 0 /\ result = 0 /\ cpu = "boot"
      /\ SP.page = 2 * Width - 1 /\ SP.off = PageSize - 1
      /\ table[0] = OsProcess
  BY TopInPage DEF Init, Pages, Slots
<1>2. Frames[0] = [page |-> 2 * Width - 1, off |-> PageSize - 1, cwd |-> RootDir,
                   stdout |-> Unset, stdin |-> Unset]
  BY <1>1, FrameValues DEF FrameOf, OsProcess
<1>3. Frames = [i \in {0} |-> Frames[i]]
  <2>1. 0 .. current = {0}
    BY <1>1
  <2> QED
    BY <2>1, FrameValues
<1>4. Frames = [i \in {0} |-> Frames[0]]
  BY <1>3
<1> QED
  BY <1>1, <1>2, <1>4 DEF Stack!Init

\* The page of a frame is the page of its process.
LEMMA PagesOfFrames ==
  ASSUME IInv, NEW s \in 0 .. current
  PROVE  Frames[s].page = PageOf(s)
<1>1. CASE s = current
  BY <1>1, FrameValues DEF FrameOf, PageOf
<1>2. CASE s # current
  <2>1. s \in 0 .. current - 1
    BY <1>2, SlotsOfIInv
  <2>2. table[s].SP \in Address /\ table[s].SP.off < PageSize - 1
    BY <2>1, SlotsOfIInv, StackFits DEF IInv, StacksInPage, Process, Address
  <2>3. Up(table[s].SP).page = table[s].SP.page
    BY <2>2, UpInPage
  <2> QED
    BY <1>2, <2>3, FrameValues DEF FrameOf, PageOf
<1> QED
  BY <1>1, <1>2

LEMMA StackStepRefines ==
  ASSUME IInv, IInv', Push \/ Pop
  PROVE  Stack!UseStack
<1> USE WidthAssumption, StackFits
<1>1. UNCHANGED <<current, table, result, cpu>> /\ cpu = "run" /\ current # 0
  BY DEF Push, Pop, InProgram
<1>2. SP' \in Address /\ SP'.page = SP.page /\ SP'.off \in PageSize - 1 - StackWords .. PageSize - 1
  <2>1. SP' \in Address /\ SP'.off \in 0 .. PageSize - 1 /\ SP'.off >= PageSize - 1 - StackWords
    BY DEF IInv, TypeOK, StacksInPage, Address
  <2>2. SP'.page = SP.page
    BY <1>1 DEF IInv, PagesInOrder, PageOf, SlotsInOrder, TypeOK, Slots
  <2> QED
    BY <2>1, <2>2
<1>3. current \in 0 .. current /\ current > 0
  BY <1>1, SlotsOfIInv
<1>4. \A s \in 0 .. current : s # current => Frames'[s] = Frames[s]
  BY <1>1, FrameValues
<1>5. Frames'[current] = [Frames[current] EXCEPT !.off = SP'.off]
  <2>1. FrameOf(SP', table[current]) = [FrameOf(SP, table[current]) EXCEPT !.off = SP'.off]
    BY <1>2 DEF FrameOf
  <2> QED
    BY <1>1, <1>3, <2>1, FrameValues
<1>6. Frames' = [Frames EXCEPT ![current] = [Frames[current] EXCEPT !.off = SP'.off]]
  BY <1>1, <1>3, <1>4, <1>5, FrameValues, DiffersAt
<1> QED
  BY <1>1, <1>2, <1>3, <1>6 DEF Stack!UseStack, Stack!Working

LEMMA RedirectRefines ==
  ASSUME IInv, NEW stream \in Redirections, SetStdout(stream) \/ SetStdin(stream)
  PROVE  Stack!Redirect
<1> USE WidthAssumption
<1>1. UNCHANGED <<current, SP, result, cpu>> /\ cpu = "run" /\ current > 0
  BY SlotsOfIInv DEF SetStdout, SetStdin, InProgram
<1>2. /\ current \in 0 .. current /\ current \in Slots /\ table[current] \in Process
      /\ \A s \in 0 .. current : s \in Slots
  BY <1>1, SlotsOfIInv
<1>3. \A s \in 0 .. current : s # current => Frames'[s] = Frames[s]
  <2>1. \A s \in 0 .. current : s # current => table'[s] = table[s]
    BY <1>2, SlotsOfIInv DEF SetStdout, SetStdin
  <2> QED
    BY <1>1, <2>1, FrameValues
<1>4. CASE SetStdout(stream)
  <2>1. table'[current] = [table[current] EXCEPT !.stdout = stream]
    BY <1>2, <1>4, SlotsOfIInv DEF SetStdout
  <2>2. Frames'[current] = [Frames[current] EXCEPT !.stdout = stream]
    <3>1. FrameOf(SP, [table[current] EXCEPT !.stdout = stream])
            = [FrameOf(SP, table[current]) EXCEPT !.stdout = stream]
      BY <1>2 DEF FrameOf, Process
    <3>2. /\ Frames[current] = FrameOf(SP, table[current])
          /\ Frames'[current] = FrameOf(SP, table'[current])
      BY <1>1, <1>2, FrameValues
    <3> QED
      BY <2>1, <3>1, <3>2
  <2>3. Frames' = [Frames EXCEPT ![current] = [Frames[current] EXCEPT !.stdout = stream]]
    BY <1>1, <1>2, <1>3, <2>2, FrameValues, DiffersAt
  <2> QED
    BY <1>1, <2>3 DEF Stack!Redirect, Stack!Working
<1>5. CASE SetStdin(stream)
  <2>1. table'[current] = [table[current] EXCEPT !.stdin = stream]
    BY <1>2, <1>5, SlotsOfIInv DEF SetStdin
  <2>2. Frames'[current] = [Frames[current] EXCEPT !.stdin = stream]
    <3>1. FrameOf(SP, [table[current] EXCEPT !.stdin = stream])
            = [FrameOf(SP, table[current]) EXCEPT !.stdin = stream]
      BY <1>2 DEF FrameOf, Process
    <3>2. /\ Frames[current] = FrameOf(SP, table[current])
          /\ Frames'[current] = FrameOf(SP, table'[current])
      BY <1>1, <1>2, FrameValues
    <3> QED
      BY <2>1, <3>1, <3>2
  <2>3. Frames' = [Frames EXCEPT ![current] = [Frames[current] EXCEPT !.stdin = stream]]
    BY <1>1, <1>2, <1>3, <2>2, FrameValues, DiffersAt
  <2> QED
    BY <1>1, <2>3 DEF Stack!Redirect, Stack!Working
<1> QED
  BY <1>4, <1>5

LEMMA ChangeDirRefines ==
  ASSUME IInv, NEW dir \in Dirs, SetParentCwd(dir)
  PROVE  Stack!ChangeDir
<1> USE WidthAssumption
<1>1. UNCHANGED <<current, SP, result, cpu>> /\ cpu = "run" /\ current > 0
  BY SlotsOfIInv DEF SetParentCwd, InProgram
<1>2. table[current].parent = current - 1
  BY <1>1, SlotsOfIInv DEF IInv, SlotsInOrder
<1>3. /\ \A s \in 0 .. current : s \in Slots
      /\ current - 1 \in 0 .. current /\ current - 1 # current
      /\ table[current - 1] \in Process
  BY <1>1, SlotsOfIInv
<1>4. /\ table'[current - 1] = [table[current - 1] EXCEPT !.cwd = dir]
      /\ \A s \in 0 .. current : s # current - 1 => table'[s] = table[s]
  BY <1>2, <1>3, SlotsOfIInv DEF SetParentCwd
<1>5. \A s \in 0 .. current : s # current - 1 => Frames'[s] = Frames[s]
  BY <1>1, <1>4, FrameValues
<1>6. Frames'[current - 1] = [Frames[current - 1] EXCEPT !.cwd = dir]
  <2>1. table'[current - 1].SP = table[current - 1].SP
    BY <1>3, <1>4 DEF Process
  <2>2. FrameOf(Up(table[current - 1].SP), [table[current - 1] EXCEPT !.cwd = dir])
          = [FrameOf(Up(table[current - 1].SP), table[current - 1]) EXCEPT !.cwd = dir]
    BY <1>3 DEF FrameOf, Process
  <2>3. /\ Frames[current - 1] = FrameOf(Up(table[current - 1].SP), table[current - 1])
        /\ Frames'[current - 1] = FrameOf(Up(table'[current - 1].SP), table'[current - 1])
    BY <1>1, <1>3, FrameValues
  <2> QED
    BY <1>4, <2>1, <2>2, <2>3
<1>7. Frames' = [Frames EXCEPT ![current - 1] = [Frames[current - 1] EXCEPT !.cwd = dir]]
  BY <1>1, <1>3, <1>5, <1>6, FrameValues, DiffersAt
<1> QED
  BY <1>1, <1>7 DEF Stack!ChangeDir, Stack!Working

LEMMA ExecuteRefines ==
  ASSUME IInv, Execute
  PROVE  Stack!Start
<1> USE WidthAssumption, OsPagesAssumption, StackFits
<1> DEFINE page == OsPages + current
<1>1. /\ cpu \notin Halts /\ current \in 0 .. Width - 1
      /\ SP \in Address /\ SP.off \in 1 .. PageSize - 1
  BY CallerOfExecute DEF Execute, SpBeforeReturn
<1>2. FirstClear(processMap) = current + 1
  BY <1>1, FirstClearOfPrefix DEF IInv, SlotsInOrder
<1>3. FirstClear(iup) = page
  <2>1. iup = 0 .. page - 1 /\ page - 1 \in 0 .. Width - 1 /\ page - 1 + 1 = page
    BY <1>1 DEF IInv, PagesInOrder
  <2> HIDE DEF page
  <2> QED
    BY <2>1, FirstClearOfPrefix
<1>4. /\ current' = current + 1 /\ cpu' = "run" /\ result' = result
      /\ SP' = TopOf(page)
      /\ table' = [table EXCEPT ![current + 1] = NewProcess, ![current].SP = Down(SP)]
  BY <1>2, <1>3 DEF Execute, SpBeforeReturn
<1>5. page \in OsPages .. Width - 1
  <2>1. OsPages + current' <= Width
    BY ExecuteIInv DEF IInv, PagesInOrder
  <2> QED
    BY <1>1, <1>4, <2>1
<1>6. /\ table'[current + 1] = NewProcess
      /\ table'[current] = [table[current] EXCEPT !.SP = Down(SP)]
      /\ \A s \in 0 .. current - 1 : table'[s] = table[s]
  <2>1. current + 1 # current
    BY <1>1
  <2> QED
    BY <1>4, <2>1, SlotsOfIInv
<1>7. Up(Down(SP)) = SP
  <2>1. Down(SP) \in Address /\ Down(SP).page = SP.page /\ Down(SP).off = SP.off - 1
    BY <1>1, DownInPage
  <2>2. Up(Down(SP)) \in Address /\ Up(Down(SP)).page = SP.page /\ Up(Down(SP)).off = SP.off
    BY <1>1, <2>1, UpInPage
  <2> QED
    BY <1>1, <2>2 DEF Address
<1>8. \A i \in 0 .. current : Frames'[i] = Frames[i]
  <2>1. \A i \in 0 .. current - 1 : Frames'[i] = Frames[i]
    <3> TAKE i \in 0 .. current - 1
    <3>1. i \in 0 .. current' /\ i # current' /\ i \in 0 .. current /\ i # current
      BY <1>1, <1>4
    <3> QED
      BY <1>6, <3>1, FrameValues
  <2>2. Frames'[current] = Frames[current]
    <3>1. current \in 0 .. current' /\ current # current' /\ current \in 0 .. current
      BY <1>1, <1>4
    <3>2. table[current] \in Process /\ table'[current].SP = Down(SP)
      BY <1>6, SlotsOfIInv DEF Process
    <3>3. FrameOf(SP, table'[current]) = FrameOf(SP, table[current])
      BY <1>6, <3>2 DEF FrameOf, Process
    <3> QED
      BY <1>7, <3>1, <3>2, <3>3, FrameValues
  <2> QED
    BY <1>1, <2>1, <2>2
<1>9. Frames'[current + 1] = [page |-> page, off |-> PageSize - 1, cwd |-> Frames[current].cwd,
                              stdout |-> Frames[current].stdout, stdin |-> Frames[current].stdin]
  <2>1. current + 1 \in 0 .. current' /\ current + 1 = current' /\ current \in 0 .. current
    BY <1>1, <1>4
  <2>2. Frames'[current + 1] = FrameOf(TopOf(page), NewProcess)
    BY <1>4, <1>6, <2>1, FrameValues
  <2>3. Frames[current] = FrameOf(SP, table[current])
    BY <2>1, FrameValues
  <2> HIDE DEF page
  <2> QED
    BY <2>2, <2>3 DEF FrameOf, NewProcess, TopOf
<1>10. Frames' = [i \in 0 .. current + 1 |->
                    IF i <= current THEN Frames[i]
                    ELSE [page |-> page, off |-> PageSize - 1, cwd |-> Frames[current].cwd,
                          stdout |-> Frames[current].stdout, stdin |-> Frames[current].stdin]]
  <2> DEFINE new == [page |-> page, off |-> PageSize - 1, cwd |-> Frames[current].cwd,
                          stdout |-> Frames[current].stdout, stdin |-> Frames[current].stdin]
  <2>1. Frames'[current + 1] = new
    BY <1>9
  <2>2. Frames' = [i \in 0 .. current + 1 |-> Frames'[i]]
    BY <1>4, FrameValues
  <2> HIDE DEF new
  <2>3. \A i \in 0 .. current + 1 : Frames'[i] = IF i <= current THEN Frames[i] ELSE new
    BY <1>1, <1>8, <2>1
  <2>4. Frames' = [i \in 0 .. current + 1 |-> IF i <= current THEN Frames[i] ELSE new]
    BY <2>2, <2>3
  <2> QED
    BY <2>4 DEF new
<1>11. page \notin {Frames[i].page : i \in 0 .. current}
  <2>1. \A i \in 0 .. current : Frames[i].page = PageOf(i)
    BY PagesOfFrames
  <2>2. \A i \in 1 .. current : PageOf(i) = OsPages + i - 1
    BY DEF IInv, PagesInOrder
  <2>3. PageOf(0) = 2 * Width - 1
    BY DEF IInv, PagesInOrder
  <2> QED
    BY <1>1, <1>5, <2>1, <2>2, <2>3
<1>12. cpu = "boot" \/ (cpu = "run" /\ current > 0)
  BY <1>1 DEF Execute, CanExecute, InProgram
<1> HIDE DEF page
<1> QED
  BY <1>4, <1>5, <1>10, <1>11, <1>12 DEF Stack!Start, Stack!Working

LEMMA ExitRefines ==
  ASSUME IInv, NEW code \in ExitCodes, Exit(code)
  PROVE  Stack!Finish
<1> USE WidthAssumption, OsPagesAssumption, StackFits
<1>1. /\ cpu = "run" /\ current \in 1 .. Width - 1 /\ cpu \notin Halts
  BY SlotsOfIInv DEF Exit, InProgram, Halts
<1>2. ~(SpInExit.page >= Width) /\ table[current].parent = current - 1
  <2>1. SpInExit.page = SP.page
    BY SpInExitInPage DEF IInv, TypeOK, StacksInPage
  <2> QED
    BY <1>1, <2>1 DEF IInv, PagesInOrder, PageOf, SlotsInOrder
<1>3. /\ current' = current - 1 /\ table' = table /\ result' = code /\ cpu' = cpu
      /\ SP' = Up(table[current - 1].SP)
  BY <1>1, <1>2, SlotsOfIInv DEF Exit
<1>4. \A i \in 0 .. current - 1 : Frames'[i] = Frames[i]
  <2> TAKE i \in 0 .. current - 1
  <2>1. i \in 0 .. current' /\ i \in 0 .. current /\ i # current
    BY <1>1, <1>3
  <2> QED
    BY <1>3, <2>1, FrameValues
<1>5. Frames' = [i \in 0 .. current - 1 |-> Frames[i]]
  BY <1>3, <1>4, FrameValues
<1> QED
  BY <1>1, <1>3, <1>5 DEF Stack!Finish, Stack!Working

LEMMA HaltRefines ==
  ASSUME IInv,
         \/ ExecuteWithoutPage
         \/ \E code \in {"FFFF", "FFFE", "FAFA"} : ExecuteBadFile(code)
         \/ OsStops
  PROVE  Stack!Stop
<1>1. UNCHANGED <<current, table, SP, result>> /\ cpu' \in Halts
  BY DEF ExecuteWithoutPage, ExecuteBadFile, OsStops, Halt, Halts
<1>2. Frames' = Frames
  BY <1>1 DEF Frames
<1>3. cpu = "boot" \/ (cpu = "run" /\ current > 0) \/ (cpu = "run" /\ current = 0)
  BY WidthAssumption, SlotsOfIInv
     DEF ExecuteWithoutPage, ExecuteBadFile, OsStops, CanExecute, InProgram
<1> QED
  BY <1>1, <1>2, <1>3 DEF Stack!Stop, Stack!Working

\* execute and exit implement a stack of processes: whatever programs do, what they
\* see of the system is a behavior of ProcessStack.
THEOREM RefinesProcessStack == Spec => ImplementsStack
<1>1. ASSUME IInv, IInv', [Next]_vars
      PROVE  [Stack!Next]_(Stack!vars)
  <2>1. CASE Push \/ Pop
    BY <1>1, <2>1, StackStepRefines DEF Stack!Next
  <2>2. CASE \/ \E stream \in Redirections : SetStdout(stream)
             \/ \E stream \in Redirections : SetStdin(stream)
    BY <1>1, <2>2, RedirectRefines DEF Stack!Next
  <2>3. CASE \E dir \in Dirs : SetParentCwd(dir)
    BY <1>1, <2>3, ChangeDirRefines DEF Stack!Next
  <2>4. CASE Execute
    BY <1>1, <2>4, ExecuteRefines DEF Stack!Next
  <2>5. CASE \E code \in ExitCodes : Exit(code)
    BY <1>1, <2>5, ExitRefines DEF Stack!Next
  <2>6. CASE \/ ExecuteWithoutPage
             \/ \E code \in {"FFFF", "FFFE", "FAFA"} : ExecuteBadFile(code)
             \/ OsStops
    BY <1>1, <2>6, HaltRefines DEF Stack!Next
  <2>7. CASE UNCHANGED vars
    BY <2>7 DEF vars, Stack!vars, Frames
  <2> QED
    BY <1>1, <2>1, <2>2, <2>3, <2>4, <2>5, <2>6, <2>7 DEF Next
<1>2. IInv /\ IInv' /\ [Next]_vars => [Stack!Next]_(Stack!vars)
  BY <1>1
<1> QED
  BY InitRefines, Inductive, <1>2, PTL DEF Spec, Stack!Spec, ImplementsStack

(***************************************************************************)
(* Maps as words. The word of a map is that of all its first bits in turn  *)
(* (Prefixes). A sum changes the bits from one position to another and     *)
(* none behind: what the words up to there differ by, one, is doubled by   *)
(* each further bit, as the mask is (DifferenceDoubles), so the whole      *)
(* words differ by the mask. A word shifted left is that of the map with   *)
(* its first bit dropped (ShiftLeft), and the search meets the bits of the *)
(* map one by one.                                                         *)
(***************************************************************************)

LEMMA LeastElement ==
  ASSUME NEW T \in SUBSET Nat, T # {}
  PROVE  \E x \in T : \A y \in T : x <= y
<1>1. PICK x \in T : \A y \in T : <<y, x>> \notin OpToRel(<, Nat)
  BY WFMin, NatLessThanWellFounded
<1>2. ASSUME NEW y \in T PROVE x <= y
  <2>1. <<y, x>> \notin {pair \in Nat \X Nat : pair[1] < pair[2]}
    BY <1>1, Zenon DEF OpToRel
  <2> QED
    BY <2>1
<1> QED
  BY <1>2

\* Induction over a set of numbers.
LEMMA AllNumbers ==
  ASSUME NEW T \in SUBSET Nat, 0 \in T, \A n \in Nat : n \in T => n + 1 \in T
  PROVE  \A n \in Nat : n \in T
<1> DEFINE missing == Nat \ T
<1> SUFFICES ASSUME missing # {} PROVE FALSE
  OBVIOUS
<1>1. PICK n \in missing : \A m \in missing : n <= m
  BY LeastElement
<1>2. n \in Nat /\ n \notin T
  OBVIOUS
<1>3. n # 0
  BY <1>2
<1>4. n - 1 \in Nat /\ (n - 1) + 1 = n
  BY <1>2, <1>3
<1>5. n - 1 \in missing
  BY <1>2, <1>4
<1> QED
  BY <1>1, <1>2, <1>4, <1>5

\* A function given by its first value and by each value from the one before.
Steps(step, start, S) == start \in S /\ step \in [Nat \X S -> S]

Recursive(f, step, start, L) == f[0] = start /\ \A n \in 1 .. L : f[n] = step[<<n, f[n - 1]>>]

LEMMA Recursion ==
  ASSUME NEW S, NEW start, NEW step, Steps(step, start, S), NEW L \in Nat
  PROVE  \E f \in [0 .. L -> S] : Recursive(f, step, start, L)
<1> USE DEF Steps, Recursive
<1> DEFINE Upto(f, l) == f \in [0 .. l -> S] /\ f[0] = start /\ \A n \in 1 .. l : f[n] = step[<<n, f[n - 1]>>]
           T == {l \in Nat : \E f : Upto(f, l)}
<1>1. 0 \in T
  <2>1. Upto([n \in 0 .. 0 |-> start], 0)
    OBVIOUS
  <2> QED
    BY <2>1
<1>2. ASSUME NEW l \in Nat, l \in T PROVE l + 1 \in T
  <2>1. PICK f : Upto(f, l)
    BY <1>2
  <2> DEFINE g == [n \in 0 .. l + 1 |-> IF n <= l THEN f[n] ELSE step[<<n, f[l]>>]]
  <2>2. g \in [0 .. l + 1 -> S]
    BY <2>1
  <2>3. ASSUME NEW n \in 1 .. l + 1 PROVE g[n] = step[<<n, g[n - 1]>>]
    <3>1. n - 1 \in 0 .. l /\ g[n - 1] = f[n - 1]
      OBVIOUS
    <3>2. CASE n <= l
      BY <2>1, <3>1, <3>2
    <3>3. CASE n = l + 1
      BY <2>1, <3>1, <3>3
    <3> QED
      BY <3>2, <3>3
  <2>4. g[0] = start
    BY <2>1
  <2>5. Upto(g, l + 1)
    BY <2>2, <2>3, <2>4
  <2>6. \E h : Upto(h, l + 1)
    BY <2>5, Zenon
  <2> QED
    BY <2>6
<1>3. \A l \in Nat : l \in T
  <2> HIDE DEF T
  <2>1. T \in SUBSET Nat
    BY DEF T
  <2> QED
    BY <1>1, <1>2, <2>1, AllNumbers
<1>4. L \in T
  BY <1>3
<1> QED
  BY <1>4

-----------------------------------------------------------------------------
(* Maps as words *)

Bit(S, n) == IF n \in S THEN 1 ELSE 0

\* The words of the first bits of a map.
Prefixes(v, S) ==
  /\ v \in [0 .. Width -> Nat]
  /\ v[0] = 0
  /\ \A n \in 1 .. Width : v[n] = 2 * v[n - 1] + Bit(S, n - 1)

LEMMA ValueIs ==
  ASSUME NEW S
  PROVE  \E v : Prefixes(v, S) /\ Value(S) = v[Width]
<1> USE WidthAssumption
<1> DEFINE step == [p \in Nat \X Nat |-> 2 * p[2] + Bit(S, p[1] - 1)]
           Equation(g) == g = [n \in 0 .. Width |-> IF n = 0 THEN 0 ELSE 2 * g[n - 1] + (IF n - 1 \in S THEN 1 ELSE 0)]
           value == CHOOSE g : Equation(g)
<1>1. step \in [Nat \X Nat -> Nat]
  BY DEF Bit
<1>2. PICK f \in [0 .. Width -> Nat] : f[0] = 0 /\ \A n \in 1 .. Width : f[n] = step[<<n, f[n - 1]>>]
  <2> DEFINE values == Nat
             zero   == 0
  <2>1. Steps(step, zero, values) /\ Width \in Nat
    BY <1>1 DEF Steps
  <2> HIDE DEF step, values, zero
  <2>2. \E f \in [0 .. Width -> values] : Recursive(f, step, zero, Width)
    BY <2>1, Recursion
  <2> QED
    BY <2>2 DEF values, zero, Recursive
<1>3. ASSUME NEW n \in 1 .. Width
      PROVE  n - 1 \in 0 .. Width /\ f[n] = 2 * f[n - 1] + Bit(S, n - 1)
  <2>1. n \in Nat /\ n - 1 \in 0 .. Width /\ f[n - 1] \in Nat
    BY <1>2
  <2> DEFINE pair == <<n, f[n - 1]>>
  <2>3. pair \in Nat \X Nat /\ pair[1] = n /\ pair[2] = f[n - 1]
    BY <2>1
  <2>2. step[pair] = 2 * f[n - 1] + Bit(S, n - 1)
    <3> HIDE DEF pair
    <3> QED
      BY <2>3
  <2> QED
    BY <1>2, <2>1, <2>2
<1>4. Equation(f)
  BY <1>2, <1>3 DEF Bit
<1>5. Equation(value)
  BY <1>4, Zenon
<1>6. Value(S) = value[Width]
  BY DEF Value
<1> HIDE DEF value
<1>7. value[0] = 0 /\ \A n \in 1 .. Width : n - 1 \in 0 .. Width /\ value[n] = 2 * value[n - 1] + Bit(S, n - 1)
  <2>1. \A n \in 0 .. Width : value[n] = IF n = 0 THEN 0 ELSE 2 * value[n - 1] + (IF n - 1 \in S THEN 1 ELSE 0)
    BY <1>5
  <2>2. 0 \in 0 .. Width
    OBVIOUS
  <2> QED
    BY <2>1, <2>2 DEF Bit
<1>8. \A n \in 0 .. Width : value[n] \in Nat
  <2> DEFINE T == {n \in Nat : n <= Width => value[n] \in Nat}
  <2>1. 0 \in T
    BY <1>7
  <2>2. ASSUME NEW n \in Nat, n \in T PROVE n + 1 \in T
    <3>1. CASE n + 1 <= Width
      <4>1. value[n] \in Nat /\ n + 1 \in 1 .. Width /\ (n + 1) - 1 = n
        BY <2>2, <3>1
      <4>2. value[n + 1] = 2 * value[n] + Bit(S, n)
        BY <1>7, <4>1
      <4> QED
        BY <4>1, <4>2 DEF Bit
    <3> QED
      BY <3>1
  <2>3. \A l \in Nat : l \in T
    <3> HIDE DEF T
    <3>1. T \in SUBSET Nat
      BY DEF T
    <3> QED
      BY <2>1, <2>2, <3>1, AllNumbers
  <2> QED
    BY <2>3
<1>9. value \in [0 .. Width -> Nat]
  BY <1>5, <1>8
<1> QED
  BY <1>6, <1>7, <1>9 DEF Prefixes

\* Maps with the same bits up to a position have the same words up to there.
LEMMA SamePrefixes ==
  ASSUME NEW v, NEW S, Prefixes(v, S), NEW w, NEW T, Prefixes(w, T),
         NEW m \in 0 .. Width, \A i \in 0 .. m - 1 : i \in S <=> i \in T
  PROVE  w[m] = v[m]
<1> USE WidthAssumption DEF Prefixes
<1> DEFINE N == {n \in Nat : n <= m => w[n] = v[n]}
<1>1. 0 \in N
  OBVIOUS
<1>2. ASSUME NEW n \in Nat, n \in N PROVE n + 1 \in N
  <2>1. CASE n + 1 <= m
    <3>1. n + 1 \in 1 .. Width /\ (n + 1) - 1 = n /\ n \in 0 .. m - 1 /\ w[n] = v[n]
      BY <1>2, <2>1
    <3>2. w[n + 1] = 2 * w[n] + Bit(T, n) /\ v[n + 1] = 2 * v[n] + Bit(S, n)
      BY <3>1
    <3>3. Bit(T, n) = Bit(S, n)
      BY <3>1 DEF Bit
    <3> QED
      BY <3>1, <3>2, <3>3
  <2> QED
    BY <2>1
<1>3. \A l \in Nat : l \in N
  <2> HIDE DEF N
  <2>1. N \in SUBSET Nat
    BY DEF N
  <2> QED
    BY <1>1, <1>2, <2>1, AllNumbers
<1>4. m \in N
  BY <1>3
<1> QED
  BY <1>4

Doubles(a, m) == a \in [m .. Width -> Int] /\ \A n \in m .. Width - 1 : a[n + 1] = 2 * a[n]

\* What the words up to a position differ by is doubled by every bit they share behind it.
LEMMA DifferenceDoubles ==
  ASSUME NEW v, NEW S, Prefixes(v, S), NEW w, NEW T, Prefixes(w, T),
         NEW m \in 0 .. Width, \A i \in m .. Width - 1 : i \in S <=> i \in T,
         NEW a, NEW b, Doubles(a, m), Doubles(b, m),
         w[m] + a[m] = v[m] + b[m]
  PROVE  w[Width] + a[Width] = v[Width] + b[Width]
<1> USE WidthAssumption DEF Prefixes, Doubles
<1> DEFINE N == {n \in Nat : m + n <= Width => w[m + n] + a[m + n] = v[m + n] + b[m + n]}
<1>1. 0 \in N
  OBVIOUS
<1>2. ASSUME NEW n \in Nat, n \in N PROVE n + 1 \in N
  <2>1. CASE m + (n + 1) <= Width
    <3> DEFINE p == m + n
    <3>1. m + (n + 1) = p + 1 /\ p \in m .. Width - 1 /\ p + 1 \in 1 .. Width /\ (p + 1) - 1 = p /\ p \in 0 .. Width
      BY <2>1
    <3>2. w[p] + a[p] = v[p] + b[p]
      BY <1>2, <2>1
    <3>3. /\ w[p + 1] = 2 * w[p] + Bit(T, p) /\ v[p + 1] = 2 * v[p] + Bit(S, p)
          /\ a[p + 1] = 2 * a[p] /\ b[p + 1] = 2 * b[p]
      BY <3>1
    <3>4. w[p] \in Int /\ v[p] \in Int /\ a[p] \in Int /\ b[p] \in Int
      BY <3>1, SMTT(30)
    <3>5. Bit(T, p) = Bit(S, p) /\ Bit(S, p) \in Int
      BY <3>1, SMTT(30) DEF Bit
    <3> HIDE DEF p
    <3>6. PICK i \in Int, j \in Int, k \in Int, l \in Int, c \in Int :
                 i = w[p] /\ j = a[p] /\ k = v[p] /\ l = b[p] /\ c = Bit(S, p)
      BY <3>4, <3>5, Zenon
    <3>10. i + j = k + l
      BY <3>2, <3>6, Zenon
    <3>7. (2 * i + c) + 2 * j = (2 * k + c) + 2 * l
      BY <3>10
    <3>8. w[p + 1] + a[p + 1] = v[p + 1] + b[p + 1]
      BY <3>3, <3>5, <3>6, <3>7, Zenon
    <3>9. w[m + (n + 1)] + a[m + (n + 1)] = v[m + (n + 1)] + b[m + (n + 1)]
      BY <3>1, <3>8, Zenon
    <3> QED
      BY <3>9, n + 1 \in Nat
  <2> QED
    BY <2>1
<1>3. \A l \in Nat : l \in N
  <2> HIDE DEF N
  <2>1. N \in SUBSET Nat
    BY DEF N
  <2> QED
    BY <1>1, <1>2, <2>1, AllNumbers
<1>4. Width - m \in Nat /\ m + (Width - m) = Width
  OBVIOUS
<1>5. Width - m \in N
  BY <1>3, <1>4
<1> QED
  BY <1>4, <1>5

Power(n) == 2 ^ n

LEMMA Powers ==
  /\ Power(0) = 1
  /\ \A n \in 0 .. Width : Power(n) \in Nat \ {0}
  /\ \A n \in 0 .. Width - 1 : Power(n + 1) = 2 * Power(n)
<1> USE WidthAssumption
<1>1. \A n \in 0 .. Width - 1 : Power(n) \in Nat \ {0} /\ Power(n + 1) = 2 * Power(n)
  BY PowersAssumption DEF Power
<1>2. Width - 1 \in 0 .. Width - 1 /\ (Width - 1) + 1 = Width
  OBVIOUS
<1>3. Power(Width - 1) \in Nat \ {0} /\ Power(Width) = 2 * Power(Width - 1)
  BY <1>1, <1>2
<1>4. Power(Width) \in Nat \ {0}
  BY <1>3
<1>5. ASSUME NEW n \in 0 .. Width PROVE Power(n) \in Nat \ {0}
  <2>1. n = Width \/ n \in 0 .. Width - 1
    OBVIOUS
  <2> QED
    BY <1>1, <1>4, <2>1
<1>6. Power(0) = 1
  BY PowersAssumption DEF Power
<1> QED
  BY <1>1, <1>5, <1>6

\* So many bits make a number less than that power of two.
LEMMA PrefixBound ==
  ASSUME NEW v, NEW S, Prefixes(v, S), NEW m \in 0 .. Width
  PROVE  v[m] \in 0 .. Power(m) - 1
<1> USE WidthAssumption DEF Prefixes
<1> DEFINE N == {n \in Nat : n <= Width => v[n] \in 0 .. Power(n) - 1}
<1>1. 0 \in N
  BY Powers
<1>2. ASSUME NEW n \in Nat, n \in N PROVE n + 1 \in N
  <2>1. CASE n + 1 <= Width
    <3>1. n + 1 \in 1 .. Width /\ (n + 1) - 1 = n /\ n \in 0 .. Width - 1 /\ v[n] \in 0 .. Power(n) - 1
      BY <1>2, <2>1
    <3>2. v[n + 1] = 2 * v[n] + Bit(S, n) /\ Bit(S, n) \in 0 .. 1
      BY <3>1 DEF Bit
    <3>3. Power(n + 1) = 2 * Power(n) /\ Power(n) \in Nat
      BY <3>1, Powers
    <3>5. PICK i \in Nat, p \in Nat, b \in 0 .. 1 : i = v[n] /\ p = Power(n) /\ b = Bit(S, n) /\ i \in 0 .. p - 1
      <4>1. v[n] \in Nat /\ Power(n) \in Nat /\ Bit(S, n) \in 0 .. 1 /\ v[n] \in 0 .. Power(n) - 1
        BY <3>1, <3>2, <3>3
      <4> QED
        BY <4>1, Zenon
    <3>7. i \in 0 .. p - 1
      BY <3>5, Zenon
    <3>6. 2 * i + b \in 0 .. 2 * p - 1
      BY <3>7
    <3>4. v[n + 1] \in 0 .. Power(n + 1) - 1
      BY <3>2, <3>3, <3>5, <3>6, Zenon
    <3> QED
      BY <3>4
  <2> QED
    BY <2>1
<1>3. \A l \in Nat : l \in N
  <2> HIDE DEF N
  <2>1. N \in SUBSET Nat
    BY DEF N
  <2> QED
    BY <1>1, <1>2, <2>1, AllNumbers
<1>4. m \in N
  BY <1>3
<1> QED
  BY <1>4

LEMMA ValueBound ==
  ASSUME NEW S
  PROVE  Value(S) \in 0 .. Power(Width) - 1
<1>1. Width \in 0 .. Width
  BY WidthAssumption
<1> QED
  BY <1>1, ValueIs, PrefixBound

\* The mask of a position, of the words up to each position behind it.
MaskFrom(k) == [n \in k + 1 .. Width |-> Power(n - 1 - k)]
NoMask(k)   == [n \in k + 1 .. Width |-> 0]
PastAll(k)  == [n \in k + 1 .. Width |-> Power(n)]

LEMMA MasksDouble ==
  ASSUME NEW k \in Items
  PROVE  /\ Doubles(MaskFrom(k), k + 1) /\ Doubles(NoMask(k), k + 1) /\ Doubles(PastAll(k), k + 1)
         /\ MaskFrom(k)[k + 1] = 1 /\ MaskFrom(k)[Width] = Mask(k)
<1> USE WidthAssumption DEF Items, Doubles
<1>1. Doubles(MaskFrom(k), k + 1)
  <2>1. MaskFrom(k) \in [k + 1 .. Width -> Int]
    <3>1. ASSUME NEW n \in k + 1 .. Width PROVE Power(n - 1 - k) \in Int
      <4>1. n - 1 - k \in 0 .. Width
        OBVIOUS
      <4> QED
        BY <4>1, Powers
    <3> QED
      BY <3>1 DEF MaskFrom
  <2>2. ASSUME NEW n \in k + 1 .. Width - 1 PROVE MaskFrom(k)[n + 1] = 2 * MaskFrom(k)[n]
    <3>1. n - 1 - k \in 0 .. Width - 1 /\ (n + 1) - 1 - k = (n - 1 - k) + 1 /\ n \in k + 1 .. Width /\ n + 1 \in k + 1 .. Width
      OBVIOUS
    <3>2. Power((n + 1) - 1 - k) = 2 * Power(n - 1 - k)
      BY <3>1, Powers
    <3> QED
      BY <3>1, <3>2 DEF MaskFrom
  <2> QED
    BY <2>1, <2>2
<1>2. Doubles(NoMask(k), k + 1)
  BY DEF NoMask
<1>3. Doubles(PastAll(k), k + 1)
  <2>1. ASSUME NEW n \in k + 1 .. Width PROVE Power(n) \in Int
    BY Powers
  <2>2. ASSUME NEW n \in k + 1 .. Width - 1 PROVE Power(n + 1) = 2 * Power(n)
    <3>1. n \in 0 .. Width - 1
      OBVIOUS
    <3> QED
      BY <3>1, Powers
  <2>3. PastAll(k) \in [k + 1 .. Width -> Int]
    BY <2>1 DEF PastAll
  <2>4. ASSUME NEW n \in k + 1 .. Width - 1 PROVE PastAll(k)[n + 1] = 2 * PastAll(k)[n]
    <3>1. n \in k + 1 .. Width /\ n + 1 \in k + 1 .. Width
      OBVIOUS
    <3>2. PastAll(k)[n + 1] = Power(n + 1) /\ PastAll(k)[n] = Power(n)
      BY <3>1 DEF PastAll
    <3> QED
      BY <2>2, <3>2
  <2> QED
    BY <2>3, <2>4
<1>4. MaskFrom(k)[k + 1] = 1
  <2>1. k + 1 \in k + 1 .. Width /\ (k + 1) - 1 - k = 0
    OBVIOUS
  <2> QED
    BY <2>1, Powers DEF MaskFrom
<1>5. MaskFrom(k)[Width] = Mask(k)
  <2>1. Width \in k + 1 .. Width /\ k # Width
    OBVIOUS
  <2>2. MaskFrom(k)[Width] = Power(Width - 1 - k)
    BY <2>1 DEF MaskFrom
  <2> QED
    BY <2>1, <2>2 DEF Mask, Power
<1> QED
  BY <1>1, <1>2, <1>3, <1>4, <1>5

\* One more at a position changes the ones from the last clear bit in front of it on.
LEMMA CarryUp ==
  ASSUME NEW S, NEW k \in Items, NEW to \in 0 .. k, to \notin S, to + 1 .. k \subseteq S,
         NEW T, T = (S \ (to + 1 .. k)) \cup {to}
  PROVE  Value(T) = Value(S) + Mask(k)
<1> USE WidthAssumption DEF Items
<1>1. PICK v : Prefixes(v, S) /\ Value(S) = v[Width]
  BY ValueIs
<1>2. PICK w : Prefixes(w, T) /\ Value(T) = w[Width]
  BY ValueIs
<1>3. w[to] = v[to]
  <2>1. to \in 0 .. Width /\ \A i \in 0 .. to - 1 : i \in S <=> i \in T
    OBVIOUS
  <2> QED
    BY <1>1, <1>2, <2>1, SamePrefixes
<1>4. w[k + 1] = v[k + 1] + 1
  <2> DEFINE N == {n \in Nat : to + 1 + n <= k + 1 => w[to + 1 + n] = v[to + 1 + n] + 1}
  <2>1. 0 \in N
    <3>1. to + 1 \in 1 .. Width /\ (to + 1) - 1 = to /\ to \in 0 .. Width
      OBVIOUS
    <3>2. w[to + 1] = 2 * w[to] + 1 /\ v[to + 1] = 2 * v[to] /\ v[to] \in Nat
      BY <1>1, <1>2, <3>1 DEF Prefixes, Bit
    <3> QED
      BY <1>3, <3>2
  <2>2. ASSUME NEW n \in Nat, n \in N PROVE n + 1 \in N
    <3>1. CASE to + 1 + (n + 1) <= k + 1
      <4> DEFINE p == to + 1 + n
      <4>1. /\ to + 1 + (n + 1) = p + 1 /\ p \in to + 1 .. k /\ p + 1 \in 1 .. Width /\ (p + 1) - 1 = p
            /\ p \in 0 .. Width /\ p \in S /\ p \notin T
        BY <3>1
      <4>2. w[p] = v[p] + 1
        BY <2>2, <3>1
      <4> HIDE DEF p
      <4>6. w[p + 1] = 2 * w[p] + 0 /\ w[p] \in Nat
        BY <1>2, <4>1 DEF Prefixes, Bit
      <4>3. w[p + 1] = 2 * w[p] /\ v[p + 1] = 2 * v[p] + 1 /\ v[p] \in Nat
        <5>1. Bit(S, p) = 1 /\ v[p + 1] = 2 * v[(p + 1) - 1] + Bit(S, (p + 1) - 1) /\ v[p] \in Nat
          BY <1>1, <4>1 DEF Prefixes, Bit
        <5>2. v[p + 1] = 2 * v[p] + 1
          BY <4>1, <5>1, Zenon
        <5> QED
          BY <4>6, <5>1, <5>2
      <4>4. w[p + 1] = v[p + 1] + 1
        BY <4>2, <4>3
      <4>5. w[to + 1 + (n + 1)] = v[to + 1 + (n + 1)] + 1
        BY <4>1, <4>4, Zenon
      <4> QED
        BY <4>5
    <3> QED
      BY <3>1
  <2>3. \A l \in Nat : l \in N
    <3> HIDE DEF N
    <3>1. N \in SUBSET Nat
      BY DEF N
    <3> QED
      BY <2>1, <2>2, <3>1, AllNumbers
  <2>4. k - to \in N /\ to + 1 + (k - to) = k + 1
    BY <2>3
  <2> QED
    BY <2>4
<1>5. /\ k + 1 \in 0 .. Width /\ k + 1 \in k + 1 .. Width /\ Width \in k + 1 .. Width
      /\ \A i \in k + 1 .. Width - 1 : i \in S <=> i \in T
  OBVIOUS
<1>6. w[k + 1] \in Nat /\ v[k + 1] \in Nat /\ w[Width] \in Nat /\ v[Width] \in Nat
  BY <1>1, <1>2 DEF Prefixes
<1>7. NoMask(k)[k + 1] = 0 /\ NoMask(k)[Width] = 0
  BY <1>5 DEF NoMask
<1>8. w[k + 1] + NoMask(k)[k + 1] = v[k + 1] + MaskFrom(k)[k + 1]
  BY <1>4, <1>6, <1>7, MasksDouble
<1>9. w[Width] + NoMask(k)[Width] = v[Width] + MaskFrom(k)[Width]
  BY <1>1, <1>2, <1>5, <1>8, MasksDouble, DifferenceDoubles
<1> QED
  BY <1>1, <1>2, <1>6, <1>7, <1>9, MasksDouble

\* With no clear bit in front, the carry leaves the word.
LEMMA CarryOut ==
  ASSUME NEW S, NEW k \in Items, 0 .. k \subseteq S, NEW T, T = S \ (0 .. k)
  PROVE  Value(T) + Power(Width) = Value(S) + Mask(k)
<1> USE WidthAssumption DEF Items
<1>1. PICK v : Prefixes(v, S) /\ Value(S) = v[Width]
  BY ValueIs
<1>2. PICK w : Prefixes(w, T) /\ Value(T) = w[Width]
  BY ValueIs
<1>3. w[k + 1] + Power(k + 1) = v[k + 1] + 1
  <2> DEFINE N == {n \in Nat : n <= k + 1 => w[n] + Power(n) = v[n] + 1}
  <2>1. 0 \in N
    BY <1>1, <1>2, Powers DEF Prefixes
  <2>2. ASSUME NEW n \in Nat, n \in N PROVE n + 1 \in N
    <3>1. CASE n + 1 <= k + 1
      <4>1. /\ n + 1 \in 1 .. Width /\ (n + 1) - 1 = n /\ n \in 0 .. Width /\ n \in 0 .. Width - 1
            /\ n \in S /\ n \notin T /\ w[n] + Power(n) = v[n] + 1
        BY <2>2, <3>1
      <4>5. w[n + 1] = 2 * w[n] + 0 /\ w[n] \in Nat
        BY <1>2, <4>1 DEF Prefixes, Bit
      <4>2. w[n + 1] = 2 * w[n] /\ v[n + 1] = 2 * v[n] + 1 /\ v[n] \in Nat /\ w[n] \in Nat
        <5>1. Bit(S, n) = 1 /\ v[n + 1] = 2 * v[(n + 1) - 1] + Bit(S, (n + 1) - 1) /\ v[n] \in Nat
          BY <1>1, <4>1 DEF Prefixes, Bit
        <5>2. v[n + 1] = 2 * v[n] + 1
          BY <4>1, <5>1, Zenon
        <5> QED
          BY <4>5, <5>1, <5>2
      <4>3. Power(n + 1) = 2 * Power(n) /\ Power(n) \in Nat
        BY <4>1, Powers
      <4>6. PICK i \in Nat, j \in Nat, p \in Nat : i = w[n] /\ j = v[n] /\ p = Power(n)
        BY <4>2, <4>3
      <4>7. i + p = j + 1
        BY <4>1, <4>6, Zenon
      <4>8. 2 * i + 2 * p = (2 * j + 1) + 1
        BY <4>7
      <4>4. w[n + 1] + Power(n + 1) = v[n + 1] + 1
        BY <4>2, <4>3, <4>6, <4>8, Zenon
      <4> QED
        BY <4>4
    <3> QED
      BY <3>1
  <2>3. \A l \in Nat : l \in N
    <3> HIDE DEF N
    <3>1. N \in SUBSET Nat
      BY DEF N
    <3> QED
      BY <2>1, <2>2, <3>1, AllNumbers
  <2>4. k + 1 \in N
    BY <2>3
  <2> QED
    BY <2>4
<1>5. /\ k + 1 \in 0 .. Width /\ k + 1 \in k + 1 .. Width /\ Width \in k + 1 .. Width
      /\ \A i \in k + 1 .. Width - 1 : i \in S <=> i \in T
  OBVIOUS
<1>7. PastAll(k)[k + 1] = Power(k + 1) /\ PastAll(k)[Width] = Power(Width)
  BY <1>5 DEF PastAll
<1>8. w[k + 1] + PastAll(k)[k + 1] = v[k + 1] + MaskFrom(k)[k + 1]
  BY <1>3, <1>7, MasksDouble
<1>9. w[Width] + PastAll(k)[Width] = v[Width] + MaskFrom(k)[Width]
  BY <1>1, <1>2, <1>5, <1>8, MasksDouble, DifferenceDoubles
<1> QED
  BY <1>1, <1>2, <1>7, <1>9, MasksDouble

LEMMA Wrapped ==
  ASSUME NEW w \in Nat \ {0}, NEW x \in Int, NEW z \in 0 .. w - 1, x = z \/ x = z + w \/ x = z - w
  PROVE  x % w = z
<1>1. CASE x = z
  BY <1>1
<1>2. CASE x = z + w
  <2>1. (1 * w + z) % w = z /\ 1 * w + z = x
    BY <1>2
  <2> QED
    BY <2>1
<1>3. CASE x = z - w
  <2>1. ((-1) * w + z) % w = z /\ (-1) * w + z = x
    BY <1>3
  <2> QED
    BY <2>1
<1> QED
  BY <1>1, <1>2, <1>3

LEMMA GreatestIs ==
  ASSUME NEW k \in Nat, NEW C \in SUBSET (0 .. k - 1), C # {}
  PROVE  Greatest(C) \in C /\ \A j \in C : j <= Greatest(C)
<1> DEFINE distances == {k - j : j \in C}
<1>1. distances \in SUBSET Nat /\ distances # {}
  <2>1. \A j \in C : k - j \in Nat
    OBVIOUS
  <2> QED
    BY <2>1
<1>2. PICK x \in distances : \A y \in distances : x <= y
  <2> HIDE DEF distances
  <2> QED
    BY <1>1, LeastElement
<1>3. PICK i \in C : x = k - i
  BY <1>2
<1>4. ASSUME NEW j \in C PROVE j <= i
  <2>1. k - j \in distances
    OBVIOUS
  <2>2. k - i <= k - j /\ i \in Int /\ j \in Int
    BY <1>2, <1>3, <2>1
  <2> QED
    BY <2>2
<1> QED
  BY <1>4, Zenon DEF Greatest

LEMMA MaskBound ==
  ASSUME NEW k \in 0 .. Width
  PROVE  Mask(k) \in 0 .. Power(Width) - 1
<1> USE WidthAssumption
<1>1. CASE k = Width
  BY <1>1, Powers DEF Mask
<1>2. CASE k # Width
  <2>1. k \in Items
    BY <1>2 DEF Items
  <2>2. {k} \in SUBSET Items
    BY <2>1
  <2>3. Value({k}) = Value({}) + Mask(k)
    <3>1. k \in 0 .. k /\ k \notin {} /\ k + 1 .. k \subseteq {} /\ {k} = ({} \ (k + 1 .. k)) \cup {k}
      OBVIOUS
    <3> QED
      BY <2>1, <3>1, CarryUp
  <2>4. Value({k}) \in 0 .. Power(Width) - 1 /\ Value({}) \in 0 .. Power(Width) - 1
    BY ValueBound
  <2>5. Mask(k) = Power(Width - 1 - k) /\ Width - 1 - k \in 0 .. Width
    BY <1>2 DEF Mask, Power
  <2>6. Mask(k) \in Nat /\ Power(Width) \in Nat
    BY <2>5, Powers
  <2> QED
    BY <2>3, <2>4, <2>6
<1> QED
  BY <1>1, <1>2

\* SUM of a mask.
LEMMA AddBitIsSum ==
  ASSUME NEW S \in SUBSET Items, NEW k \in 0 .. Width
  PROVE  Value(AddBit(S, k)) = (Value(S) + Mask(k)) % Power(Width)
<1> USE WidthAssumption DEF Items
<1> DEFINE clear == {i \in 0 .. k - 1 : i \notin S}
           to == Greatest(clear)
           T == AddBit(S, k)
<1>1. /\ Power(Width) \in Nat \ {0} /\ Value(S) \in 0 .. Power(Width) - 1 /\ Mask(k) \in 0 .. Power(Width) - 1
      /\ Value(T) \in 0 .. Power(Width) - 1
  BY Powers, ValueBound, MaskBound
<1>2. CASE k = Width
  <2>1. k \notin Items /\ Mask(k) = 0
    BY <1>2 DEF Mask
  <2>2. T = S
    BY <2>1 DEF AddBit
  <2> HIDE DEF T
  <2>3. Value(T) = Value(S) + Mask(k) /\ Value(S) = Value(T) + Mask(k)
    BY <1>1, <2>1, <2>2
  <2> QED
    <3> DEFINE x == Value(S) + Mask(k)
               z == Value(T)
               w == Power(Width)
    <3>1. w \in Nat \ {0} /\ x \in Int /\ z \in 0 .. w - 1 /\ (x = z \/ x = z + w \/ x = z - w)
      BY <1>1, <2>3 DEF T
    <3>2. x % w = z
      <4> HIDE DEF x, z, w
      <4> QED
        BY <3>1, Wrapped
    <3> QED
      BY <3>2 DEF T
<1>3. CASE k # Width /\ (k \notin S \/ clear # {})
  <2>1. k \in Items
    BY <1>3
  <2>2. \E t \in 0 .. k : t \notin S /\ t + 1 .. k \subseteq S /\ T = (S \ (t + 1 .. k)) \cup {t}
    <3>1. CASE k \notin S
      <4>1. T = (S \ (k + 1 .. k)) \cup {k} /\ k + 1 .. k = {} /\ k \in 0 .. k
        BY <2>1, <3>1 DEF AddBit
      <4> QED
        BY <3>1, <4>1
    <3>2. CASE k \in S
      <4>1. clear # {} /\ clear \in SUBSET (0 .. k - 1) /\ k \in Nat
        BY <1>3, <3>2
      <4>2. to \in clear /\ \A j \in clear : j <= to
        <5> HIDE DEF clear
        <5> QED
          BY <4>1, GreatestIs
      <4>3. T = (S \ (to + 1 .. k)) \cup {to}
        BY <2>1, <3>2, <4>1 DEF AddBit
      <4>4. to \in 0 .. k /\ to \notin S
        BY <4>2
      <4>5. ASSUME NEW i \in to + 1 .. k PROVE i \in S
        <5> HIDE DEF to
        <5>1. i = k \/ (i \in 0 .. k - 1 /\ ~(i <= to))
          BY <4>4
        <5> QED
          BY <3>2, <4>2, <5>1
      <4> HIDE DEF to, clear, T
      <4> QED
        BY <4>3, <4>4, <4>5
    <3> QED
      BY <3>1, <3>2
  <2>3. PICK t \in 0 .. k : t \notin S /\ t + 1 .. k \subseteq S /\ T = (S \ (t + 1 .. k)) \cup {t}
    BY <2>2
  <2> HIDE DEF T
  <2>4. Value(T) = Value(S) + Mask(k)
    BY <2>1, <2>3, CarryUp
  <2> QED
    <3> DEFINE x == Value(S) + Mask(k)
               z == Value(T)
               w == Power(Width)
    <3>1. w \in Nat \ {0} /\ x \in Int /\ z \in 0 .. w - 1 /\ (x = z \/ x = z + w \/ x = z - w)
      BY <1>1, <2>4 DEF T
    <3>2. x % w = z
      <4> HIDE DEF x, z, w
      <4> QED
        BY <3>1, Wrapped
    <3> QED
      BY <3>2 DEF T
<1>4. CASE k # Width /\ k \in S /\ clear = {}
  <2>1. k \in Items /\ 0 .. k \subseteq S
    BY <1>4
  <2>2. T = S \ (0 .. k)
    BY <1>4, <2>1 DEF AddBit
  <2> HIDE DEF T
  <2>3. Value(T) + Power(Width) = Value(S) + Mask(k)
    BY <2>1, <2>2, CarryOut
  <2> QED
    <3> DEFINE x == Value(S) + Mask(k)
               z == Value(T)
               w == Power(Width)
    <3>1. w \in Nat \ {0} /\ x \in Int /\ z \in 0 .. w - 1 /\ (x = z \/ x = z + w \/ x = z - w)
      BY <1>1, <2>3 DEF T
    <3>2. x % w = z
      <4> HIDE DEF x, z, w
      <4> QED
        BY <3>1, Wrapped
    <3> QED
      BY <3>2 DEF T
<1> QED
  BY <1>2, <1>3, <1>4

\* SUB of a mask.
LEMMA SubBitIsDifference ==
  ASSUME NEW S \in SUBSET Items, NEW k \in 0 .. Width
  PROVE  Value(SubBit(S, k)) = (Value(S) - Mask(k)) % Power(Width)
<1> USE WidthAssumption DEF Items
<1> DEFINE set == {i \in 0 .. k - 1 : i \in S}
           from == Greatest(set)
           T == SubBit(S, k)
<1>1. /\ Power(Width) \in Nat \ {0} /\ Value(S) \in 0 .. Power(Width) - 1 /\ Mask(k) \in 0 .. Power(Width) - 1
      /\ Value(T) \in 0 .. Power(Width) - 1
  BY Powers, ValueBound, MaskBound
<1>2. CASE k = Width
  <2>1. k \notin Items /\ Mask(k) = 0
    BY <1>2 DEF Mask
  <2>2. T = S
    BY <2>1 DEF SubBit
  <2> HIDE DEF T
  <2>3. Value(T) = Value(S) - Mask(k) /\ Value(S) = Value(T) + Mask(k)
    BY <1>1, <2>1, <2>2
  <2> QED
    <3> DEFINE x == Value(S) - Mask(k)
               z == Value(T)
               w == Power(Width)
    <3>1. w \in Nat \ {0} /\ x \in Int /\ z \in 0 .. w - 1 /\ (x = z \/ x = z + w \/ x = z - w)
      BY <1>1, <2>3 DEF T
    <3>2. x % w = z
      <4> HIDE DEF x, z, w
      <4> QED
        BY <3>1, Wrapped
    <3> QED
      BY <3>2 DEF T
<1>3. CASE k # Width /\ (k \in S \/ set # {})
  <2>1. k \in Items
    BY <1>3
  <2>2. \E f \in 0 .. k : f \notin T /\ f + 1 .. k \subseteq T /\ S = (T \ (f + 1 .. k)) \cup {f}
    <3>1. CASE k \in S
      <4>1. T = S \ {k} /\ k + 1 .. k = {} /\ k \in 0 .. k
        BY <2>1, <3>1 DEF SubBit
      <4> HIDE DEF T
      <4> QED
        BY <3>1, <4>1
    <3>2. CASE k \notin S
      <4>1. set # {} /\ set \in SUBSET (0 .. k - 1) /\ k \in Nat
        BY <1>3, <3>2
      <4>2. from \in set /\ \A j \in set : j <= from
        <5> HIDE DEF set
        <5> QED
          BY <4>1, GreatestIs
      <4>3. T = (S \ {from}) \cup (from + 1 .. k)
        BY <2>1, <3>2, <4>1 DEF SubBit
      <4>4. from \in 0 .. k /\ from \in S
        BY <4>2
      <4>5. ASSUME NEW i \in from + 1 .. k PROVE i \notin S
        <5> HIDE DEF from
        <5>1. i = k \/ (i \in 0 .. k - 1 /\ ~(i <= from))
          BY <4>4
        <5> QED
          BY <3>2, <4>2, <5>1
      <4> HIDE DEF from, set, T
      <4>6. from \notin T /\ from + 1 .. k \subseteq T
        BY <4>3, <4>4
      <4>7. S = (T \ (from + 1 .. k)) \cup {from}
        BY <4>3, <4>4, <4>5
      <4> QED
        BY <4>4, <4>6, <4>7
    <3> QED
      BY <3>1, <3>2
  <2>3. PICK f \in 0 .. k : f \notin T /\ f + 1 .. k \subseteq T /\ S = (T \ (f + 1 .. k)) \cup {f}
    BY <2>2
  <2> HIDE DEF T
  <2>4. Value(S) = Value(T) + Mask(k)
    BY <2>1, <2>3, CarryUp
  <2> QED
    <3> DEFINE x == Value(S) - Mask(k)
               z == Value(T)
               w == Power(Width)
    <3>1. w \in Nat \ {0} /\ x \in Int /\ z \in 0 .. w - 1 /\ (x = z \/ x = z + w \/ x = z - w)
      BY <1>1, <2>4 DEF T
    <3>2. x % w = z
      <4> HIDE DEF x, z, w
      <4> QED
        BY <3>1, Wrapped
    <3> QED
      BY <3>2 DEF T
<1>4. CASE k # Width /\ k \notin S /\ set = {}
  <2>1. k \in Items /\ S \cap (0 .. k) = {}
    BY <1>4
  <2>2. T = S \cup (0 .. k)
    BY <1>4, <2>1 DEF SubBit
  <2> HIDE DEF T
  <2>3. 0 .. k \subseteq T /\ S = T \ (0 .. k)
    BY <2>1, <2>2
  <2>4. Value(S) + Power(Width) = Value(T) + Mask(k)
    BY <2>1, <2>3, CarryOut
  <2> QED
    <3> DEFINE x == Value(S) - Mask(k)
               z == Value(T)
               w == Power(Width)
    <3>1. w \in Nat \ {0} /\ x \in Int /\ z \in 0 .. w - 1 /\ (x = z \/ x = z + w \/ x = z - w)
      BY <1>1, <2>4 DEF T
    <3>2. x % w = z
      <4> HIDE DEF x, z, w
      <4> QED
        BY <3>1, Wrapped
    <3> QED
      BY <3>2 DEF T
<1> QED
  BY <1>2, <1>3, <1>4

\* What is left of a map that was shifted left so many times.
Behind(S, n) == {j \in Items : j + n \in S}

\* Shifting a word left once: its first bit is the carry.
LEMMA ShiftLeft ==
  ASSUME NEW S \in SUBSET Items
  PROVE  /\ Value(Behind(S, 1)) = (2 * Value(S)) % Power(Width)
         /\ Value(S) >= Power(Width - 1) <=> 0 \in S
<1> USE WidthAssumption DEF Items
<1> DEFINE T == Behind(S, 1)
<1>1. PICK v : Prefixes(v, S) /\ Value(S) = v[Width]
  BY ValueIs
<1>2. PICK w : Prefixes(w, T) /\ Value(T) = w[Width]
  BY ValueIs
<1> HIDE DEF T
<1> DEFINE Top(n) == IF 0 \in S THEN Power(n) ELSE 0
           N == {n \in Nat : n <= Width - 1 => w[n] + Top(n) = v[n + 1]}
<1>3. \A n \in 0 .. Width - 1 : Bit(T, n) = Bit(S, n + 1)
  BY DEF T, Behind, Bit
<1>4. Top(0) \in Nat /\ \A n \in 0 .. Width - 1 : Top(n) \in Nat /\ Top(n + 1) = 2 * Top(n)
  BY Powers
<1> HIDE DEF Top
<1>5. 0 \in N
  <2>1. 1 \in 1 .. Width /\ 1 - 1 = 0 /\ 0 + 1 = 1
    OBVIOUS
  <2>2. v[1] = 2 * v[0] + Bit(S, 0) /\ v[0] = 0 /\ w[0] = 0
    BY <1>1, <1>2, <2>1 DEF Prefixes
  <2>3. Bit(S, 0) = Top(0) /\ Top(0) \in Nat
    BY Powers DEF Bit, Top
  <2> QED
    BY <2>1, <2>2, <2>3
<1>6. ASSUME NEW n \in Nat, n \in N PROVE n + 1 \in N
  <2>1. CASE n + 1 <= Width - 1
    <3>1. /\ n \in 0 .. Width - 1 /\ n + 1 \in 1 .. Width /\ (n + 1) - 1 = n
          /\ (n + 1) + 1 \in 1 .. Width /\ ((n + 1) + 1) - 1 = n + 1
      BY <2>1
    <3>2. w[n + 1] = 2 * w[n] + Bit(T, n) /\ w[n] \in Nat
      BY <1>2, <3>1 DEF Prefixes
    <3>3. v[(n + 1) + 1] = 2 * v[n + 1] + Bit(S, n + 1) /\ v[n + 1] \in Nat
      BY <1>1, <3>1 DEF Prefixes
    <3>4. Bit(T, n) = Bit(S, n + 1) /\ Bit(S, n + 1) \in Nat /\ Top(n + 1) = 2 * Top(n) /\ Top(n) \in Nat
      BY <1>3, <1>4, <3>1 DEF Bit
    <3>5. w[n] + Top(n) = v[n + 1]
      BY <1>6, <3>1
    <3>6. PICK i \in Nat, t \in Nat, b \in Nat : i = w[n] /\ t = Top(n) /\ b = Bit(S, n + 1)
      BY <3>2, <3>4, Zenon
    <3>7. (2 * i + b) + 2 * t = 2 * (i + t) + b
      OBVIOUS
    <3>8. w[n + 1] + Top(n + 1) = v[(n + 1) + 1]
      BY <3>2, <3>3, <3>4, <3>5, <3>6, <3>7, Zenon
    <3> QED
      BY <3>8
  <2> QED
    BY <2>1
<1>7. \A l \in Nat : l \in N
  <2> HIDE DEF N
  <2>1. N \in SUBSET Nat
    BY DEF N
  <2> QED
    BY <1>5, <1>6, <2>1, AllNumbers
<1>8. w[Width - 1] + Top(Width - 1) = v[Width]
  <2>1. Width - 1 \in N /\ (Width - 1) + 1 = Width
    BY <1>7
  <2> QED
    BY <2>1
<1>9. /\ Width \in 1 .. Width /\ Width - 1 \in 0 .. Width /\ Width - 1 \in 0 .. Width - 1 /\ (Width - 1) + 1 = Width
      /\ Width \notin S
  OBVIOUS
<1>10. w[Width] = 2 * w[Width - 1]
  <2>1. Bit(T, Width - 1) = 0
    BY <1>3, <1>9 DEF Bit
  <2> QED
    BY <1>2, <1>9, <2>1 DEF Prefixes
<1>11. /\ Power(Width) = 2 * Power(Width - 1) /\ Power(Width - 1) \in Nat \ {0}
       /\ Top(Width - 1) = IF 0 \in S THEN Power(Width - 1) ELSE 0
  BY <1>9, Powers DEF Top
<1>12. w[Width - 1] \in 0 .. Power(Width - 1) - 1 /\ w[Width] \in 0 .. Power(Width) - 1 /\ v[Width] \in 0 .. Power(Width) - 1
  BY <1>1, <1>2, <1>9, PrefixBound
<1>13. Value(S) >= Power(Width - 1) <=> 0 \in S
  BY <1>1, <1>8, <1>11, <1>12
<1>14. Value(T) = (2 * Value(S)) % Power(Width)
  <2> DEFINE x == 2 * v[Width]
             z == w[Width]
             m == Power(Width)
  <2>1. m \in Nat \ {0} /\ x \in Int /\ z \in 0 .. m - 1 /\ (x = z \/ x = z + m)
    BY <1>8, <1>10, <1>11, <1>12
  <2>2. x % m = z
    <3> HIDE DEF x, z, m
    <3> QED
      BY <2>1, Wrapped
  <2> QED
    BY <1>1, <1>2, <2>2
<1> QED
  BY <1>13, <1>14 DEF T

\* The loop ends at the first bit behind the first one that is clear.
LEMMA SearchFindsClear ==
  ASSUME NEW S \in SUBSET Items
  PROVE  FirstClearIsSearch(S)
<1> USE WidthAssumption DEF Items
<1> DEFINE word == Value(S)
           Equation(g) == g = [n \in 0 .. Width |-> IF n = 0 THEN word ELSE (2 * g[n - 1]) % 2 ^ Width]
           shifted == CHOOSE g : Equation(g)
           f == [n \in 0 .. Width |-> Value(Behind(S, n))]
<1>1. Behind(S, 0) = S
  <2>1. \A j \in Items : j + 0 = j
    OBVIOUS
  <2>2. Behind(S, 0) = {j \in Items : j \in S}
    BY <2>1 DEF Behind
  <2> QED
    BY <2>2
<1>2. ASSUME NEW n \in 1 .. Width PROVE f[n] = (2 * f[n - 1]) % 2 ^ Width
  <2>1. n - 1 \in 0 .. Width /\ Behind(S, n - 1) \in SUBSET Items
    BY DEF Behind
  <2>2. Behind(Behind(S, n - 1), 1) = Behind(S, n)
    BY DEF Behind
  <2>3. Value(Behind(S, n)) = (2 * Value(Behind(S, n - 1))) % Power(Width)
    BY <2>1, <2>2, ShiftLeft
  <2> QED
    BY <2>1, <2>3 DEF Power
<1>3. Equation(f)
  <2> HIDE DEF f, word
  <2>1. f[0] = word
    BY <1>1 DEF f, word
  <2>2. f = [n \in 0 .. Width |-> f[n]]
    BY DEF f
  <2>3. \A n \in 0 .. Width : f[n] = IF n = 0 THEN word ELSE (2 * f[n - 1]) % 2 ^ Width
    <3>1. \A n \in 0 .. Width : n = 0 \/ n \in 1 .. Width
      OBVIOUS
    <3> QED
      BY <1>2, <2>1, <3>1
  <2> QED
    BY <2>2, <2>3
<1>4. Equation(shifted)
  BY <1>3, Zenon
<1>5. \A n \in 0 .. Width : shifted[n] = f[n]
  <2> HIDE DEF shifted, f, word
  <2>1. \A n \in 0 .. Width : shifted[n] = IF n = 0 THEN word ELSE (2 * shifted[n - 1]) % 2 ^ Width
    BY <1>4
  <2>2. \A n \in 0 .. Width : f[n] = IF n = 0 THEN word ELSE (2 * f[n - 1]) % 2 ^ Width
    BY <1>3
  <2> DEFINE N == {n \in Nat : n <= Width => shifted[n] = f[n]}
  <2>3. 0 \in N
    <3>1. 0 \in 0 .. Width
      OBVIOUS
    <3> QED
      BY <2>1, <2>2, <3>1
  <2>4. ASSUME NEW n \in Nat, n \in N PROVE n + 1 \in N
    <3>1. CASE n + 1 <= Width
      <4>1. n + 1 \in 0 .. Width /\ n + 1 # 0 /\ (n + 1) - 1 = n /\ shifted[n] = f[n]
        BY <2>4, <3>1
      <4>2. shifted[n + 1] = f[n + 1]
        BY <2>1, <2>2, <4>1
      <4> QED
        BY <4>2
    <3> QED
      BY <3>1
  <2>5. \A l \in Nat : l \in N
    <3> HIDE DEF N
    <3>1. N \in SUBSET Nat
      BY DEF N
    <3> QED
      BY <2>3, <2>4, <3>1, AllNumbers
  <2> QED
    BY <2>5
<1> DEFINE carry(n) == shifted[n] >= 2 ^ (Width - 1)
<1>6. ASSUME NEW n \in 0 .. Width PROVE carry(n) <=> n \in S
  <2>1. Behind(S, n) \in SUBSET Items
    BY DEF Behind
  <2>2. Value(Behind(S, n)) >= Power(Width - 1) <=> 0 \in Behind(S, n)
    BY <2>1, ShiftLeft
  <2>3. 0 \in Behind(S, n) <=> n \in S
    BY DEF Behind
  <2>4. shifted[n] = Value(Behind(S, n))
    BY <1>5
  <2> QED
    BY <2>2, <2>3, <2>4 DEF Power
<1> DEFINE Ends(n) == (n = Width \/ ~carry(n)) /\ \A i \in 1 .. n - 1 : carry(i)
<1>7. SearchLoop(word) = CHOOSE n \in 1 .. Width : Ends(n)
  BY DEF SearchLoop
<1> HIDE DEF shifted, word, carry
<1> DEFINE clear == (1 .. Width) \ S
<1>8. clear \in SUBSET Nat /\ Width \in clear
  OBVIOUS
<1>9. PICK first \in clear : \A j \in clear : first <= j
  <2> HIDE DEF clear
  <2> QED
    BY <1>8, LeastElement
<1>10. Ends(first)
  <2>1. first \in 1 .. Width /\ ~carry(first)
    BY <1>6, <1>9
  <2>2. ASSUME NEW i \in 1 .. first - 1 PROVE carry(i)
    BY <1>6, <1>9
  <2> QED
    BY <2>1, <2>2
<1>11. ASSUME NEW n \in 1 .. Width, Ends(n) PROVE n = first
  <2>1. n \notin S
    BY <1>6, <1>11
  <2>2. first <= n
    BY <1>9, <2>1
  <2>3. ~ (first < n)
    <3>1. ASSUME first < n PROVE FALSE
      <4>1. first \in 1 .. n - 1 /\ first \in 0 .. Width
        BY <1>9, <3>1
      <4>2. carry(first)
        BY <1>11, <4>1
      <4> QED
        BY <1>6, <1>9, <4>1, <4>2
    <3> QED
      BY <3>1
  <2> QED
    BY <1>9, <2>2, <2>3
<1>12. (CHOOSE n \in 1 .. Width : Ends(n)) = first
  <2> HIDE DEF Ends
  <2> QED
    BY <1>9, <1>10, <1>11
<1>13. FirstClear(S) = first
  <2>1. \A k \in clear : (\A j \in clear : k <= j) => k = first
    BY <1>9
  <2> QED
    BY <1>9, <2>1 DEF FirstClear
<1> QED
  BY <1>7, <1>12, <1>13 DEF FirstClearIsSearch, word

\* The operations on a map, as a set of items, are those of the code on its word.
LEMMA MapIsWord ==
  ASSUME NEW S \in SUBSET Items
  PROVE  SumAndSub(S) /\ FirstClearIsSearch(S)
  BY AddBitIsSum, SubBitIsDifference, SearchFindsClear DEF SumAndSub, Power

\* Whatever bits the maps have, what execute and exit do to sets of items is what the code
\* does to words: SUM, SUB and the search by shifting (asm/execute.asm, asm/exit.asm).
THEOREM MapsStayWords == Spec => []MapsAreWords
<1>1. IInv => MapsAreWords
  <2> SUFFICES ASSUME IInv PROVE MapsAreWords
    OBVIOUS
  <2>1. iup \in SUBSET Items /\ processMap \in SUBSET Items
    BY DEF IInv, TypeOK
  <2> QED
    BY <2>1, MapIsWord DEF MapsAreWords
<1> QED
  BY <1>1, Inductive, PTL
=============================================================================
