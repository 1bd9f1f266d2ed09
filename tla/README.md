# A verification model of Aleph0

The repository holds Aleph0, a 16-bit computer: a simulator of its CPU with microcode
(`src/src/runtime.c`, `src/src/sim.c`), the tools that build programs and memory images for
it (assembler, linker, image and font encoders, a code analyzer), and the software that runs
on it, in its own assembly (`src/asm`): a bootloader, an operating system, a standard
library and programs. The modules here model its parts from that source. Paths below are
relative to `src/`.

## 1. The system

| component | source | state | operations |
|---|---|---|---|
| process management | `asm/execute.asm`, `asm/exit.asm`, `asm/os.asm`, `asm/cd.asm` | page map 0xF806, process map 0xF804, current process 0xF802, process records from 0xF820, SP | execute, exit, set redirections, set directory |
| block allocator | `asm/alloc.asm`, `asm/dynamic_array.asm` | page map 0xF808, `pages_map`, `block_map_list`, array structs | alloc, free; append to and free a dynamic array |
| streams | `asm/stream.asm` | next_r, next_w, ending and the data of a STREAM | stream_init, stream_write, stream_read |
| shell and pipelines | `asm/sh.asm`, `asm/pipe.asm`, `asm/tee.asm`, ... | input line, saved redirections, one stream | read a line, run a command, run a pipeline |
| keyboard | `asm/get_char.asm`, `src/runtime.c` | KEY_FIFO, key_fifo_i | load_input_string, KEY_A, get_char |
| screen | `asm/print.asm`, `asm/clear.asm`, `src/runtime.c` | cursor, GPU address, attribute RAM | put_char, set_cursor, print_int, clear |
| CPU and microcode | `src/runtime.c`, `src/runtime.h` | registers, SC, IR, FR, RAM, control ROM | tick |
| file system | `asm/open_file.asm`, `asm/read_file.asm`, `asm/write_file.asm`, `asm/solve_path.asm`, `src/encodemem.c`, `src/decodemem.c` | sectors of 256 bytes, SEC and NDX registers, FILE structs | solve_path, open_file, open_create_file, read_u8, write_u8; encode and decode an image |
| assembler | `src/assemble.c`, `src/instructions.c` | tokens, bytecodes, labels, code, relocations | tokenize, parse, compile |
| linker and object files | `src/link.c`, `src/files.c` | objects, symbols, relocations | link, encode, decode |
| code analyzer | `src/code_analyzer.c` | graph of bytecodes, visited nodes, stack depth of each | make the graph of a source or of a binary file, walk its paths |
| formatter | `src/asm_formatter.c` | tokens in four lists | sort the declarations of a source to its head |
| bootloader | `asm/bootloader.asm` | RAM being filled, SEC and NDX | read sectors, load OS and stdlib |
| arithmetic, strings | `asm/math.asm`, `asm/rng.asm`, `asm/string.asm` | registers and stack | div, mul, shifts, rng_next, parse_int, ... |
| simulator | `src/sim.c`, `src/runtime.c` | mode of the loop, expected RAM of the tests | step, continue, skip; relocate files, find labels |

**How they interact.** There is one CPU, no interrupt and no preemption. Programs call the
standard library through addresses that `execute` links; the library reads and writes the
variables of the OS at fixed addresses (0xF800...). `execute` and `exit` are coroutine-like:
`execute` suspends its caller in the middle of a call, and `exit`, called by another program
on another stack, resumes it. `put_char` and `get_char` follow the `stdout` and `stdin` of
the current process record: screen or stream, keyboard or stream. `sh` and `pipe` write
those fields of their own record before they execute a command, which inherits them. The
file system has no lock, no cache and no recovery: every write goes to its sector at once.
`alloc` keeps its maps in the data of the library, and no one frees the blocks of a program
that ends.

**What is hard here.** No concurrency, but long protocols of small steps over shared words:
the state one program leaves is what the next finds. Words wrap, comparisons are signed,
maps are changed by SUM and SUB rather than by logical operations, searches have no bound,
limits (pages, slots, blocks, stream, sector, KEY_FIFO) are mostly unchecked, errors stop
the machine (HLT). `PROJECT.json` lists the hazards, each at its line.

**What makes each part correct.** Process management: pages and slots are neither shared nor
lost, a waiting caller resumes exactly as it was. Allocator: blocks belong to one owner, the
maps are what is held. Streams, keyboard, files: what is read is what was written, in order,
once. Shell: redirections are restored, the second command of a pipeline reads the output of
the first. CPU: the microcode of an instruction does what the instruction is said to do,
whatever the flags. Assembler, linker, loader: a name refers to the same place in memory as
in the source. Analyzer: it sees the instructions the machine runs, with the stack it has
there, whatever file it is given. Arithmetic: what the comments say, for every operand.

## 2. The modules

| module | what it is | of the source |
|---|---|---|
| `Bitmap` | the maps of pages, slots and blocks as sets of positions, with the search for a clear bit; the words they stand for, with SUM, SUB and the loop of shifts | `execute.asm`, `exit.asm`, `alloc.asm` |
| `Processes` | the process table: `Execute`, `Exit`, the writes of programs to records, the HLTs | `execute.asm`, `exit.asm`, `os.asm`, `cd.asm`, `sh.asm`, `pipe.asm` |
| `ProcessStack` | abstract: a stack of processes, each with its pages | what `Processes` promises |
| `Alloc`, `DynamicArray` | `alloc` and `free`; arrays on blocks | `alloc.asm`, `dynamic_array.asm` |
| `StreamStruct`, `Stream` | the struct of a stream and its operations | `stream.asm` |
| `CharQueue` | abstract: a queue with room for a number of characters in its life | what `Stream` promises |
| `Shell` | `sh` with commands, pipelines and the programs at both ends of the stream; uses `Stream` | `sh.asm`, `echo.asm`, `tee.asm`, `cat.asm`, `execute.asm` |
| `Keyboard` | input, KEY_FIFO, `get_char` with both tables of scancodes | `get_char.asm`, `runtime.c` |
| `Arithmetic` | `div`, `mul`, the shifts, one step per round; `rng_next` | `math.asm`, `rng.asm` |
| `Screen` | `put_char`, `set_cursor`, `clear`, and `print_int`, which divides by `Arithmetic`; `parse_int` | `print.asm`, `clear.asm`, `string.asm` |
| `Words`, `Cpu` | words, bytes of RAM; the control ROM and `tick` | `runtime.c`, `runtime.h`, `instructions.h` |
| `Isa` | abstract: what each instruction is said to do | `docs/README.md`, `instructions.h` |
| `CpuIsa` | both next to each other, the microcode mapped to the instruction set | `runtime.c` |
| `StepMode` | the loop of the simulator, under step, continue and skip, with a window that may be closed | `runtime.c`, `sim.c` |
| `Sectors` | sectors, their headers, entries of directories; `solve_path` on them, from character to character | `open_file.asm`, `read_file.asm`, `encodemem.c`, `solve_path.asm` |
| `Storage` | encoding of a tree, decoding of the image; the bootloader's reader, `ls` and `cd` on it | `encodemem.c`, `decodemem.c`, `bootloader.asm`, `ls.asm`, `cd.asm` |
| `FileStore` | abstract: files that are sequences of bytes, structs with a position | what `Files` promises |
| `Files` | open, create, read, write on the sectors | `open_file.asm`, `read_file.asm`, `write_file.asm` |
| `Assemble` | tokens with macros to statements; statements to an object | `assemble.c` |
| `ObjectFiles` | objects, libraries and executables as bytes | `files.c` |
| `Link` | `exe_link_obj`, `exe_link_so`, `exe_state_check_exe` | `link.c` |
| `Load` | relocation and linking at run time, by the machine and by the tests of the simulator | `bootloader.asm`, `execute.asm`, `runtime.c` |
| `SourceImage` | reference: sources laid out in memory, every name the address it stands for; which sources make sense | the text of the programs |
| `Toolchain` | formatter (what it does to the tokens of a source), assembler, linker, bootloader and `execute` one after the other, files in any order | `asm_formatter.c`, `assembler.c`, `linker.c`, `asm/Makefile` |
| `CodeAnalyzer` | the walk over a graph, one call of `path` per step, its edges, depths and warnings | `code_analyzer.c` |
| `CodeGraphs` | the graphs made of a source, an object, a library, an executable, bare code | `code_analyzer.c` |
| `CodeAnalysis` | sources, what the toolchain makes of them, what the machine does with the bytes | `code_analyzer.c`, `assemble.c`, `link.c`, `files.c` |
| `MC...` | values for the constants | |
| `Processes_proofs`, `Alloc_proofs`, `Shell_proofs`, `Keyboard_proofs`, `Screen_proofs`, `CpuIsa_proofs`, `CodeAnalyzer_proofs`, `Storage_proofs` | theorems; `Shell_proofs` begins with those of `Stream`, `Screen_proofs` with those of `Arithmetic`, `Storage_proofs` with what is true of every image `Sectors` makes; `CpuIsa_proofs` is about `CpuIsa` and `StepMode` | |

Actions have the names of routines where one action is one routine. Where the routine waits
or can be interleaved with something else it is split: `get_char` reads scancodes one by one
because input is loaded meanwhile; the CPU makes a step per microcode; the shell a step per
character that goes through the stream; the routines of `math.asm` a step per round of their
loop; the analyzer a step per call of `path`. Everything else, like the whole of `execute`, is one
action, since nothing runs between its instructions.

What stands for what:

- Characters, names, directories and redirections are values of small sets. A file of the
  toolchain is a sequence of numbers below `BYTE`, which plays the role of 256; so do `BYTE`
  and `SECTOR_COUNT` in the file system, where a byte is the index in a sector.
- A map is the set of positions of its bits. `MapsAreWords` ties the sets to the words.
- Addresses in `Processes` are a page and an offset; in `Alloc` they count blocks.
- An HLT stops the machine: `cpu` (or `how`) is then the value the code loaded into A.
- The argument of a `CALL` is read after the return address is pushed, which may have
  overwritten it (`Callee`): so the microcode has it, and so `Isa` says.
- Words of the CPU have 16 bits and wrap; so do stream offsets relative to their struct and
  lengths in the toolchain.

`Cpu` reads RAM from a function that is defined where the program or its data are and 0
elsewhere. A read of the empty keyboard leaves the index of the queue at -1. The next
scancode then goes to the byte before the queue, which is the last one of MEM
(`runtime.h`), and the next read, a `memcpy` of -1 bytes, is undefined behaviour, taken to crash the
simulator. `memcpy` of overlapping bytes in `KEYo` behaves as `memmove`.

## 3. What is checked

| run | what is asked | bounds |
|---|---|---|
| `processes` | pages and slots accounted for, waiting processes left alone, the table is a stack | maps of 5 bits, 2 OS pages, 3 programs deep, 2 words of stack and the 3 of `exit` in pages of 6, a stream, 2 directories |
| `alloc` | blocks belong to one owner, maps are what is held, arrays keep to their blocks | page of 7 blocks, counts 0 to 8, 2 arrays of at most 4 bytes |
| `alloc_overfull` | *refuted:* blocks lie in the page `alloc` took | page of 4 blocks |
| `cpu_isa` | the microcode implements the instruction set, one output on the bus, every instruction ends and takes the bytes the tools encode, under every mix of commands of the step mode that does not tear an instruction; skip ends at the return | every opcode and one without microcode, 6 states of registers at boundaries, all flags, 2 places, 4 arguments; a program with calls two deep and one byte above the opcodes; the window closed anywhere before the first HLT |
| `keyboard` | programs get what was typed | 3 keys, every key first, KEY_FIFO of 8 codes |
| `shell` | redirections restored, pipelines deliver, the session ends | 4 commands, stream with room for 3 characters (`Size` 8, its header and the place behind it included) |
| `screen` | the last lines are shown whole, numbers in decimal and as `parse_int` reads them; the arithmetic computes what it says | 2 columns, 3 rows, 2 characters, 4 numbers; words of 16 bits, 11 operands and 5 amounts of shifts at the ends of words and of their halves |
| `storage` | what is encoded is decoded, read by the bootloader and listed by `ls`; paths lead where they say | trees of 5 nodes, 3 names, also one name twice, files of 0, `Room-1`, `Room`, `2*Room` bytes, typed paths of 6 characters, decoded paths up to and past the length of the array |
| `files` | sectors implement a store of files | sector of 22 bytes, 2 structs, 5 starting images |
| `files_empty_dir` | *refuted:* a created file is found | a storage with an empty directory |
| `toolchain` | memory holds what the sources say and what the tests of the simulator expect | 2308 choices of sources in up to 5 files, as they are, formatted, or with `-g` |
| `code_analyzer` | the walk sees what the machine runs, warns of what goes wrong, ends | bodies of two or three statements of 13 kinds between an entry and 6 ends, each as a source and as every kind of file |

**Why the bounds are enough.** They are chosen so that each limit of the code is met in the
run. The page map fills before the process map does, so `execute` meets "no page" with slots
left; allocations leave holes of all sizes and meet the end of the page (but for one in one
piece too large, which `alloc_overfull` shows to go wrong); the stream fills and is read to
its end within one pipeline and over two; files end before, at and behind a sector; KEY_FIFO
takes one shifted key but not the next. For `toolchain`, the body of the first file is every
pair of statements behind every choice of declarations, next to second files that define,
use, declare twice, shadow or forget the names, so that each of the errors `link.c` reports
happens, and its limits are met. The option of the assembler to take an opcode as an argument
(`ASM_ALLOWED_INST_AS_ARG`) is on, and the second file of the library uses it. Numbers without such limits (of pages, of
characters, of processes) are what the theorems are for.

**Properties worth a note.**

- `WaitingKept` and `ImplementsStack` (`Processes`): while a program and its children run,
  nothing a waiting process needs changes, except `cwd`, which `cd` writes on purpose, and
  the caller continues with the SP it had.
- `PipelinesDeliver` (`Shell`): the second command of a pipeline gets what the first wrote,
  in order, behind what an earlier pipeline left unread; `ChildIsConnected`: each program
  runs with the redirections its place in the pipeline calls for.
- `Finishes` (`Shell`): every command that is typed is run to the end of the session, or the
  machine stops. A program that reads the keyboard to its end is among the inputs.
- `ImplementsIsa` (`StepMode`) holds under the step mode too: whatever mix of commands, the
  machine does what the instruction set says, but where the step mode itself tears an
  instruction (`Torn`; section 5). `SkipEndsAtReturn`: skip stops behind the call
  it began at, in the frame it began in. `FetchesAsEncoded`: an instruction takes as many
  bytes as `instruction_stat`, by which the tools encode and decode, says.
- `PrintsDecimal` (`Screen`): the digits `print_int` leaves on the screen are the
  number, and `parse_int` reads it again, modulo the word. The arithmetic is called by
  programs while nothing is written (`Compute`), and by `print_int` at any moment.
- `SeesExecution`, `WarnsOfWrong` (`CodeAnalysis`): the walk is compared with the bytes of the
  file as the machine runs them (`Executions`), with the layout of `SourceImage`; `SpecMade` keeps
  that file beside the walk, as `made`. Where ways
  with different stacks meet, the analyzer knows the first one only: what it warns of is
  wrong there too, but what is wrong on the other way alone it does not see. Objects and
  libraries made without `-g` have no list of the distances to their labels (`Stripped`):
  there the analyzer reads the numbers in the jumps. `AnalyzesWhatWasMade` says which files it aborts on.
- `TestsAgree` (`Toolchain`): `exe_reloc`, `so_reloc` and `test_find_symbol` of the simulator
  expect the code and the labels that bootloader and `execute` leave in RAM.
- `ReadersAgree`, `SolvesPaths` (`Storage`): `decodemem` (`DecodesAll`), bootloader
  (`BootloaderReads`), `ls` (`ListsDirectory`) and the library, each with a reader of its own,
  agree on an image. `DecodesAll` is about images whose sectors have low bytes that
  `decodemem` reads right, from 1 to 127 in the machine (`SmallSectors`), whose paths it does
  not cut (`ShortPaths`) and which have no name twice in a directory (`DifferentNames`);
  section 5 says what becomes of the others. In `SolvesPaths` the first of several entries
  with one name is meant.
- `RefusesNonsense` (`Toolchain`): an output is made only if every name is defined once
  where it is used and no limit is passed; `LinkedRuns`: what is linked runs when it uses
  the library; `LoadedIsSource`: RAM, byte by byte, is what `SourceImage` says.

**Deadlock** is checked in `alloc_overfull` and `screen`, and left unchecked where the code stops: at a
HLT, at the end of the input, at a full array, after the one instruction of `cpu_isa`, after
`execute` in `toolchain`, when the walk of `code_analyzer` is over.

**Fairness** is weak fairness of the whole next-state relation, in `Shell` and
`CodeAnalysis` (with `CodeAnalyzer`). The simulator ticks for ever and the CPU does one thing
at a time; the analyzer is a sequential program: a step that can be taken is taken. No other
specification needs it: none but `Finishes`, of both, says that something happens.

**Starts.** `CpuIsa` starts from states between two instructions, not only reset: its start
is any combination a program can have left. `Storage` boots from three images, which
`encodemem` made in the same run from trees of `MCBooted`. `Files` starts from images that
`Accepted`, the checks of `encodemem`, lets through. The harness of the repository
(`src/test.c`) starts programs with the process records set up by hand; the records it
writes satisfy `IInv`, so that what is said of `Processes` holds there too.

## 4. What is proved

`tlapm` proves, with no assumption but the named ones of the modules:

| theorem | of | says |
|---|---|---|
| `Inductive` | `Processes` | `IInv`, of which `TypeOK` is a part, always holds |
| `TypeCorrect`, `PagesAreAccounted`, `ProcessesInOneLine` | `Processes` | the invariants of the run, for every `Width`, `OsPages`, page size |
| `WaitingProcessesKept` | `Processes` | no step disturbs a waiting process |
| `MapsStayWords` | `Processes` | what the code does to the words of the maps, by sums, differences and shifts, is what the model does to sets, for words of any width |
| `RefinesProcessStack` | `Processes` | `Spec` implements `ProcessStack` |
| `BlocksHaveOneOwner` | `Alloc` | blocks have one owner and the maps are exact, for maps of any width and any programs |
| `BlocksAreDisjoint`, `MapsAreExact`, `ArraysKeepToTheirBlocks` | `DynamicArray` | the same with any number of arrays among the programs; each array writes only to its own block |
| `StreamTypeCorrect`, `StreamRefinesCharQueue` | `Stream` | offsets stay in order; a stream of any size implements the queue |
| `Inductive`, `RedirectionsRestored`, `ProgramsConnected` | `Shell` | the redirections follow from where the shell is, for every input |
| `PipelinesDeliverAll`, `RefinesCharQueue` | `Shell` | for every input and size of the stream it is a queue from the first program to the second |
| `Inductive`, `TypeCorrect`, `GetsWhatWasTyped` | `Keyboard` | `get_char` returns what was typed, for every input and length of KEY_FIFO |
| `TypeCorrect`, `EveryEdgeFollowed` | `CodeAnalyzer` | on a graph of any size no edge of a visited node is forgotten |
| `DepthsKnown`, `WarningsExact` | `CodeAnalyzer` | where each node has one depth, the walk finds it; it is then silent if and only if nothing is wrong |
| `TypeCorrect`, `ResultsCorrect` | `Arithmetic` | the results of `div`, `mul`, the shifts and `rng_next`, for words of any width and all operands |
| `ScreenInductive`, `LastLinesShown`, `ScreenCleared` | `Screen` | the last lines are there, nothing is left by clear, on a screen of any size |
| `Inductive`, `DoesWhatIsSaid` | `CpuIsa`, `StepMode` | the microcode implements the instruction set, tick by tick, for every program, state and mix of step mode commands, but for the instructions the step mode tears |
| `OnePartOnTheBus`, `AllEndInTime`, `ArgumentsAreSkipped` | `CpuIsa`, `StepMode` | one output on the bus, instructions end within 8 ticks, and where the tools think the next one begins |
| `NumbersInDecimal`, `ResultsRightOnScreen` | `Screen` | `print_int` and `parse_int` are inverse, for every number and words of any width |
| `Inductive`, `StaysInDirectories` | `Storage` | image, sectors and the current directory fit together, whatever paths are typed |
| `SolvesEveryPath` | `Storage` | `solve_path` finds in the bytes what the walk over the names finds, for every image, directory and path |
| `ReadersAlwaysAgree` | `Storage` | `decodemem`, under the three premises of `DecodesAll`, the bootloader and `ls`, without any, read from the sectors what was described, for images of any size and depth |

*Processes.* The code finds a free slot and a free page by search and gives a page back by
computing it from the stack pointer; nothing in it says they correspond. That pages are
accounted for is not inductive: if a page were given back out of order, the next process
would get it while its slot is another one. `IInv` adds what makes it so: the slots in use
are `0 .. current` and each has the one before it as parent; the pages in use are those of
the OS followed by one per process, in the order of slots (`SlotsInOrder`, `PagesInOrder`);
each stack pointer is in the page of its process with the return address of `execute` below
it (`StacksInPage`). Then the first clear bit is the next place (`FirstClearOfPrefix`),
adding and clearing it keeps the order (`AddBitToPrefix`, `ReleaseOfPrefix`), and the page
`exit` computes is the one of the process, although it reads the stack pointer with a return
address and two words of its own below the program's (`SpInExitInPage`). Assumed: the OS fits
into RAM with a page for its stack (`OsPagesAssumption`), and programs use at most
`StackWords` words of stack and leave those three in their page (`StackAssumption`); the code
enforces neither. That maps are words is an
induction over the bits, most significant first: maps that agree up to a bit have the same
value up to it (`Prefixes`), a mask added to a bit that is set is carried through the ones in
front of it to the first zero (`CarryUp`), or out of the word (`CarryOut`), and what the search
shifts out of the word is the value of the items it has passed (`ShiftLeft`). Assumed:
`PowersAssumption`, that `2 ^ 0` is 1 and the next power is twice the last: `tlapm` knows
nothing of `^`, TLC evaluates it.

*Alloc, DynamicArray.* `alloc` looks for a run of clear bits by shifting a mask, `free`
subtracts a mask from the map; neither looks at who holds what. `AllocInv` says that `alloc`
takes page 1 and never another (`PagesInv`), that what programs hold are pieces of that page
of which no two meet (`LiveInv`), and that its map is what they cover (`MapInv`). Then the
first place where the mask fits is free (`FirstFitIsFree`), and the subtraction of bits that
are set takes away those and no others (`SubtractOfSubset`). `ArraysInv` adds that each array
that is not empty has a block to itself and is not full. What programs may do is part of the
specifications: they ask for what fits (`Fits`; `alloc_overfull` shows what becomes of the
others) and free what they hold.

*Stream.* `Unread`, the bytes between `next_r` and `next_w`, is the queue: a write appends
to it (`WriteAppends`), a read takes its head (`ReadTakesHead`), and 0xFFFF comes only of
the empty one (`EmptyUnread`). Assumed: the size is at least the header's, and the value
"nothing" is no character.

*Shell.* The stream of the shell is an instance of `Stream`, so what is proved there of one
step holds here, once every step of the shell and of its programs is shown to be a step of
the stream or to leave it alone (`StepOfStream`, `StepIsStreams`). `StreamInv` ties the bytes
of the struct to all that was written and all that was read, `CharsInv` says that programs
write characters only, and so never the value that stands for "nothing". `RedirectionsInv`
tells from where the shell is, or where the command it runs returns to, what its
redirections are: `pipe` undoes those of the output and sets those of the input,
`pipe_end` undoes these. Assumed: `InputsAssumption`, `MessagesAssumption`.

*Keyboard.* After any mix of loading and reading, KEY_FIFO is what is left of the scancodes
of the characters typed: `Layout` gives the index where those of each character start,
`Place` how many characters `get_char` is done with and what it may still find of the last
one, releases which it skips. In the middle of a character `pc` knows about shift and control, and what
comes next says which key it is (`TellsIt`). A scancode is lost if the queue was read empty;
then only the release of what was read meanwhile can be mistaken, which is why
`ReturnsTyped` ends at the first read of an empty queue (`EmptyReadIsLast`). `PlainTable`,
`ShiftTable` and `CodesOfChar` compare the tables of the simulator with those of the library,
code by code. Assumed: `CharsAssumption`, that what is typed are characters both have
(`Decoded`: no tab, no tilde), and `LimitAssumption`.

*CodeAnalyzer.* A recursive `path` is a sequence of calls to come. `FollowsEdges` (the target
of every edge of a visited node is visited, waits in that sequence, or is outside and warned
of) is preserved because taking a call adds all of the node's edges at once (`KeptByPath`).
The other two speak of a *solution*, a set of nodes closed under edges with one depth for
each: the run cannot state them, since they quantify over all sets of numbers. `SolutionsFit`
is the invariant: every visited node and every waiting call is in each solution with the
depth it has there. At the end the visited nodes are closed themselves, by `FollowsEdges`, so
silence of the walk makes them a solution without a fault. Assumed: `GraphAssumption`, that
the front ends make graphs, which TLC evaluates for all files of the run.

*Arithmetic.* `div` has the invariant of long division with `i - 1` bits to go: what has been
shifted out of the dividend is `q` times the divisor plus a remainder below it (`DivInv`). The
sign of a difference tells which is larger as long as the divisor is at most half a word and
the remainder below it, and doubling keeps the difference in range (`RoundOfDivision`); this
is the premise in `Divides`. `mul` keeps `q + a * b` modulo the word (`RoundOfProduct`), the
shifts keep what is left of them (`RoundOfShift`), and the five sums of `rng_next` are one
product by 36969 (`RandomNumber`). Products are stated of signed numbers, which is the same
modulo the word. Assumed: `WidthAssumption`, `OperandsAssumption`, and its own
`PowersAssumption`.

*Screen.* `Shows` says of a screen, a row and some lines that the last one is in that row and
the others above it, around the edge if need be. A new line clears the row it goes to
before it is one of them, so it hides the oldest only (`LineIsShown`); a character goes behind
the last line (`CharIsShown`). `clear` has no loop over the screen but writes blanks by
`put_char` from the cursor at the top: what it has left to write is what is behind the cursor
(`ClearInv`), and all before it is blank. `print_int` pushes digits until nothing is
left and pops them: a number stays the value of what is left, the digits written and
those on the stack, read in this order (`Decimal`, a function to the value of every beginning
of them). Its invariant contains the one of `Arithmetic`, since `div` runs between its steps
and others call it when it does not (`StartOfRoutine`). That `parse_int` reads the same number
is an induction over the text: `parse_int` is a recursive function, `Decimal` gives another
function that obeys the same recursion, and the smallest place where they differ would have
one before it (`SameRecursion`). Assumed: `ScreenAssumption`; that a word holds a character
(`Word > 255`) is part of it.

*CpuIsa, StepMode.* An instruction takes up to 16 ticks, the flags may change under it, and
the control ROM looks at them again in every tick; a HLT leaves the step counter at 1; and
the step mode stops and goes on in the middle of instructions. The invariant `UnderWay` says
that there is a run: states of the machine from what programs saw last to the present one,
each made of the one before by the word looked up in it, of which none before the last ends
an instruction (`History`). `Micro` is what one word does to a state, as a function, and a
tick is that function (`TickIsMicro`), so a run can be reasoned about without actions. For
each kind of instruction a lemma tells the words of its run and its length: those that look
at no flags (`BodyCourse`), jumps that are taken (`JumpCourse`: the sum of the address may
change the flags, then no reset comes and the counter overflows), jumps that are not
(`SkipCourse`), opcodes without microcode (`NoneCourse`) and HLT (`HaltCourse`). For each of
the 60 instructions `Does_...` then says that those words, from any state at all, do to what
programs see what `Isa` says; X, Y, MAR, IR and the GPU address may hold anything. A tick that
ends the run is thus a step of `Isa`, any other none (`TickStep`), and the commands of the
step mode change only who ticks, but for one that starts the machine behind a HLT
(`StartStep`, `AfterHalt`). A HLT whose byte is 64 or more is not known to the step mode, which
leaves its step counter at 1: a step then runs the same HLT once more (`Repeating`, part of
`Torn`). The program of the run has no such HLT; this case is proved only. The other three theorems follow from the words of runs. Assumed:
`StartsAssumption` and `ImageAssumption`, that registers hold words, NDX and memories bytes,
SEC 12 bits, before the first instruction.

*Storage.* The state is simple, the invariant too: `image` is a tree that `encodemem` accepts,
`MEM` what it encodes to, and `cwd` the sector of a directory (`Inv`). What is hard is in the
operators, all recursive functions over bytes, and is proved of any such tree. A recursive
function is a CHOOSE that says nothing until a function with its equation is shown to exist:
`Recursion` and `RecursionFrom1` give one for a recursion over numbers, `Loop` for a loop that
may never end (a search that finds nothing runs for ever on a bad sector), `Collection` for a
traversal that collects a set. Then, from the bottom up:

- the sectors of two nodes never meet (`InOrder`, `NodeInIs`), a sector of a file holds its
  piece (`Pieces`, `PieceIsRead`), and a directory has its entries at places that follow one
  another, with a 0 behind the last (`Layout`);
- at an entry the search compares bytes up to where name and path differ and then goes to the
  next entry, or finds all of them equal (`EntrySearched`): so it finds the one entry of that
  name, or none (`DirectorySearched`);
- an induction over what is left of the path gives the walk (`SearchIsWalk`); a path through
  a file, through the parent of the root, or with an empty name stops both at the same place;
- the bootloader's registers after `n` bytes are a sector and an index that `n` determines
  (`GetsByte`), so it gets byte after byte (`FileIsRead`); `decodemem` has after each sector a
  beginning of the file (`FileDecoded`); `ls` shows after each entry the names so far
  (`DirectoryShown`);
- `decode_dir` writes for each entry of a directory the node and, if it is a directory, what
  is in it (`DirectoryListed`). An induction from the last node to the first shows that nothing
  else is written, one from the first to the last that all of it is (`WholeRoot`).

Assumed: sectors have room for the entries of the root (`SectorsAssumption`), names are not
empty, are neither "." nor ".." and are without a separator (`EntryNamesAssumption`),
`ContentsAssumption` and `PathCharsAssumption`.

**What stays with TLC.** Liveness (`Finishes` in `Shell` and `CodeAnalysis`) is out of the
prover's reach. Induction with a predicate as a parameter is too: where an induction is needed
it is done with the smallest counterexample of a set of numbers, which serves when the
statement is about numbers, as in `SameRecursion`, `SubtractOfSubset`, `DivInv` and all of
`Storage`, but not over token lists. The tokenizer of `Assemble` is a set of RECURSIVE operators,
so nothing that reaches it, `Toolchain`, `CodeGraphs` and `CodeAnalysis` included, can be
proved about: `RefusesNonsense`, `LinkedRuns`, `LoadedIsSource`, `TestsAgree`,
`SeesExecution`, `WarnsOfWrong` and `AnalyzesWhatWasMade` are checked only. So are
`TypeOK` and `ImplementsStore` of `Files`. `SkipEndsAtReturn` of `StepMode` is about programs that leave the stack as
they found it, which is nothing the machine ensures: TLC checks it for one with nested calls.

## 5. Where the source does otherwise than it says

Two runs refute what a comment or document says:

- `alloc_overfull` (`asm/alloc.asm:118`): a request that does not fit in the page gets
  blocks behind it; the comment promises blocks in the page or a crash.
- `files_empty_dir` (`asm/open_file.asm:58`): the first file created in an empty directory
  goes behind an empty entry and is never found.

The rest is modelled as the code does it:

- After a path through a file, SEC is the sector of that file: `solve_path` writes it
  (`asm/solve_path.asm:54`) before it looks whether it is a directory (`:56`). Its comment
  (`:18`) says that SEC is at the last directory it searched in, as it is after a missing
  entry. `Walk` follows the comment, `solve_path` the code, and `SolvesPaths` compares SEC in
  every result but this one (`IsNotDirectory`). Nothing in the repository reads SEC then.
- `decodemem` prints a path into an array of `SECTOR_SIZE` characters (`decodemem.c:95`): a
  longer one is cut (`Below`, `Cut`) and what is written goes to the wrong place.
- Nothing keeps a name from being given twice in a directory (`encodemem.c:231`, `:296`). The
  machine finds the first; of two files `decodemem` keeps the second, and it ends at a
  directory whose name is taken (`decodemem.c:83`). `decode_entries` collects what is written
  and does not say which of two survives: `DifferentNames`.
- The step mode compares and looks up all eight bits of IR (`runtime.c:1068`, `:1073`, `:1080`,
  `:1088`, `:1094`), where `tick` takes six. The tools write no byte from 64 on as an opcode; at
  such a byte a step may end early or late, skip does not count it as a call or return, and a
  HLT is run again. A window that is closed (`sim.c:570`) leaves main in the middle of an
  instruction, which a skip then cuts. `Torn` are these cases, and the properties say nothing
  of them.
- `decodemem` puts the sector of an entry together from signed chars (`decodemem.c:94`), so a
  low byte from 128 on makes it read far outside of the image (`Crashed`), though its help
  promises the whole root (`:120`). `DecodesAll` leaves such images out, and those with a low
  byte of 0.
- `execute.asm:155` halts with 0xFFFE where its head (`:24`) says 0xFFFA; no page is
  reported as "not an EXE".
- `exit` takes the page to give back from a stack pointer three words below that of the program
  (`exit.asm:24`): a program that leaves less of its page gives back the page below, whoever
  has it. `Processes` is about programs that leave enough.
- `alloc.asm:69` rejects a count of 16, which `:66` allows.
- A step over a taken conditional jump runs two instructions (`runtime.c:1095`; `:1020` says
  one).
- `stream_write` writes at the offset `size`, one behind what `stream_init` was given
  (`stream.asm:27`).
- `get_char` returns a backquote for a tilde (`get_char.asm:62`), nothing for tab: both keys
  are left out of `keyboard`.
- The screen wraps at column 0x4F (`print.asm:41`), the terminal of the tests at 0x4A.
- `solve_path` finds neither "/" nor a path with a slash at its end (`solve_path.asm:66`);
  ".." of the root is sector 0xFFFF.
- An existing file is opened by `open_create_file` at index 3 (`open_file.asm:105`), a
  directory so opened is truncated, a full directory wraps over its header (`:81`), a file
  in a directory that does not exist is created where the search stopped, and no free sector
  sends the search past the storage. `tee` does not look at the error (`tee.asm:19`).
- Overwriting the last byte of a file makes it longer by one (`write_file.asm:20`). The
  `files` run creates only paths that do not resolve, and rewrites only leading bytes
  (`RewriteLimit`); `Writers` are the structs that write.
- A file that fills its sector gets an empty one more; `docs/README.md:259` has it
  otherwise.
- The listing of `decodemem` matches prefixes (`decodemem.c:44`) and ends at a sector whose
  low byte is 0 (`:91`).
- A name both GLOBAL and EXTERN in a file that does not define it gets a bogus place
  (`link.c:130`); such sources are left out of `toolchain`.
- A library name declared but not used makes an entry without relocations, over which the
  loaders loop 65536 times (`execute.asm:72`, `bootloader.asm:41`); a program that uses no
  name of the library stops with 0xFAFA. Only one library can be linked. `LinkedRuns` says
  when neither happens. The loops over the code of a file, over the relocations of the OS and
  over the code of the library (`bootloader.asm:28`, `:36`, `:64`, `execute.asm:48`) do the same
  with nothing (`"lost"` in `boot` and `load`); the code that the linker puts in front of
  every executable keeps all but the last from happening, and an OS that uses a library has
  one with code.
- `div` is wrong for divisors over 0x8000 and does not end early for 0: 5 by 0x9000 gives
  58254, rest 8197, and anything by 0 gives 0xFFFF. The comment (`math.asm:6`) has no limit;
  no caller in `src/asm` passes such a divisor. `Divides` says where the result is right.
- `parse_int` leaves 9 in B where its comment says 0 (`string.asm:57`), and returns numbers
  from 0x8000 on that `stack.asm:79` takes for errors.
- The code analyzer (`code_analyzer.c`): an absolute jump to a number goes to the node of that
  index, not to the address (`:169`); in a binary file a label in front of a jump, whose
  symbol is the address of the jump, makes the jump end the walk; ways with different stacks
  that meet are not noticed (`:98`); a label at the end of the code, or behind data that looks
  like an instruction, aborts it (`:503`); padding and a last NOP count as data (`:495`).
- The formatter never ends on a decimal number (`asm_formatter.c:111`), and takes the first
  closing brace for the end of a macro, also of one with a macro defined in it. The assembler
  reads such a macro (`MacroBody`); the sources of the run have none.
- `dynamic_array_free` returns 0 where its head (`dynamic_array.asm:59`) says the array, and
  the last place of an array is never used (`:31`, `:47`).

## 6. What is not modelled, and the plan

Built so far, in this order: process table and allocator; streams, shell, keyboard, screen;
CPU and step mode; file system; the toolchain up to running code; code analyzer and
formatter; arithmetic with the numbers that are printed and read; the bootloader's reader, the
relocation of the tests.

Next, in order of importance:

1. The files and arguments of `tee` and `cat` in `Shell`, joining `Files` and `Shell`; `pipe`,
   the program, which runs the pipeline of its argument.
2. `execute` reading its file through `read_u16`, joining `Files` to `Load` as `Storage` does
   for the bootloader.
3. `str_find_char`, `str_eq`, `str_len`, against sequences.

Proofs: `Files`, for which `Storage_proofs` has the groundwork, since the storage under programs
that write stays the encoding of a tree, of which the contents of files change; it takes that
directories have room for what is created, which the code does not look at.

Left out: text as characters (the lexer, numbers, the tables of instruction names in
`instructions.c`, `.mem` files), since no property is about it; code over 64 KiB, which
nothing in the tools looks for; relative relocations that are only written for debugging;
descriptions of an image that end in an open directory, to the entry of which
`encodemem.c:321` gives sector 1, the root's, and `setbootloader`, which fills sector 0 and
leaves out the number of a sector where it stands (`:175`);
dumps, the disassembler, the graphs for dot, the layout the formatter writes and the font encoder; the printing options of `sim`;
user programs, which `Processes` and `Alloc` take as arbitrary; the Makefiles, Python and
shell scripts. The branch of `solve_path` and `open_file` for directories that continue in a
second sector is modelled but not exercised, since `encodemem` makes none.
