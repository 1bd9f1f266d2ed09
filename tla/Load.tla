-------------------------------- MODULE Load --------------------------------
(***************************************************************************)
(* The two loaders. The bootloader (asm/bootloader.asm) copies the OS to   *)
(* the start of RAM with the library behind it; execute (asm/execute.asm)  *)
(* copies a program to its page. Both then write the words the file lists: *)
(* those that move with the file and those that point into the library.    *)
(* Loops over a count test it behind their first round: a count of 0 that  *)
(* is not looked at before makes 65536 rounds, through the file or RAM.    *)
(***************************************************************************)
EXTENDS Link

LOCAL INSTANCE SequencesExt

LOCAL INSTANCE FiniteSetsExt

CONSTANT RamSize

ASSUME RamAssumption == RamSize \in Nat

Addresses16 == 0 .. RamSize - 1
Blank == [a \in Addresses16 |-> 0]

PutWordAt(ram, reloc) ==
  [ram EXCEPT ![reloc.where] = reloc.what % BYTE, ![reloc.where + 1] = (reloc.what \div BYTE) % BYTE]

PutAll(ram, relocs) == FoldLeft(PutWordAt, ram, relocs)

CopiedTo(ram, code, base) ==
  [a \in DOMAIN ram |-> IF a - base \in 0 .. Len(code) - 1 THEN code[a - base + 1] ELSE ram[a]]

\* where += base, what += offset
MovedTo(relocs, base, offset) ==
  [j \in DOMAIN relocs |-> [where |-> (relocs[j].where + base) % Word, what |-> (relocs[j].what + offset) % Word]]

\* The name of the library in a file, its length and 0x01.
IsLibrary(name) == name = 1 + BYTE

\* Where the bytes behind a header of n letters are.
Sections(file, n) ==
  LET code   == ReadCode(From(file, n))
      relocs == ReadRelocs(code.rest)
  IN  [code |-> code.value, relocs |-> relocs.value, rest |-> relocs.rest]

\* The list of words into the library: how many there are is its first byte.
LibraryRelocs(list) == LET count == ReadByte(list) IN ReadMany(ReadReloc, count.rest, count.value).value

\* how: "runs", the value of A where the machine stops, or "lost" in a loop over nothing.
\* The OS stays where it was linked and only its words into the library change; the
\* library moves to the end of the OS.
boot(ram, os_file, stdlib_file) ==
  LET os      == Sections(os_file, 3)
      stdlib  == Sections(stdlib_file, 2)
      count   == ReadWord(os.rest)
      name    == ReadWord(count.rest)
      os_size == Len(os.code)
      linked  == PutAll(CopiedTo(ram, os.code, 0), MovedTo(LibraryRelocs(name.rest), 0, os_size))
      stdlibs == CopiedTo(linked, stdlib.code, os_size)
      stopped == count.value # 1 \/ ~IsLibrary(name.value)
  IN  CASE << >> \in {os.code, os.relocs} -> [ram |-> ram, how |-> "lost", stdlib |-> 0]
        [] << >> \notin {os.code, os.relocs} /\ stopped -> [ram |-> ram, how |-> "FFFF", stdlib |-> 0]
        [] << >> \notin {os.code, os.relocs} /\ ~stopped /\ << >> \in {LibraryRelocs(name.rest), stdlib.code} ->
             [ram |-> ram, how |-> "lost", stdlib |-> 0]
        [] OTHER -> [ram    |-> PutAll(stdlibs, MovedTo(stdlib.relocs, os_size, os_size)),
                     how    |-> "runs",
                     stdlib |-> os_size]

StaysLinked(relocs, ram_start) == relocs

WithStart(relocs, ram_start) == MovedTo(relocs, ram_start, ram_start)

\* The name is looked at before the count of libraries.
load(ram, file, ram_start, stdlib_start) ==
  LET exe       == Sections(file, 3)
      count     == ReadWord(exe.rest)
      name      == ReadWord(count.rest)
      relocated == PutAll(CopiedTo(ram, exe.code, ram_start), WithStart(exe.relocs, ram_start))
  IN  CASE exe.code = << >> -> [ram |-> ram, how |-> "lost"]
        [] exe.code # << >> /\ ~IsLibrary(name.value) -> [ram |-> relocated, how |-> "FAFA"]
        [] exe.code # << >> /\ IsLibrary(name.value) /\ LibraryRelocs(name.rest) = << >> ->
             [ram |-> relocated, how |-> "lost"]
        [] OTHER ->
             [ram |-> PutAll(relocated, MovedTo(LibraryRelocs(name.rest), ram_start, stdlib_start)), how |-> "runs"]

-----------------------------------------------------------------------------
(* What the tests of the simulator expect in RAM (src/runtime.c, src/sim.c): they relocate *)
(* the files by code of their own and look labels up in the symbols.                       *)

exe_relocOfProgram(exe, start_pos, stdlib_pos) == PatchedAll(exe.code, MovedTo(exe.relocs, 0, start_pos))

\* The assertion that there is one library holds where a file runs.
exe_reloc(exe, start_pos, stdlib_pos) ==
  PatchedAll(exe.code, MovedTo(exe.relocs, 0, start_pos) \o MovedTo(exe.dynamics[1], 0, stdlib_pos))

so_reloc(so, start_pos) == PatchedAll(so.code, MovedTo(so.relocs, 0, start_pos))

\* A symbol of that name, or else a label of that name in one of the files; the first one.
LabelOfFile(symbol, image) == Len(symbol.image) > 1 /\ Tail(symbol.image) = image

test_find_symbol(symbols, image) ==
  LET named    == Indexed(symbols, image)
      labelled == {i \in DOMAIN symbols : LabelOfFile(symbols[i], image)}
  IN  CASE named # {}                       -> symbols[Min(named)].pos
        [] named = {} /\ labelled # {}      -> symbols[Min(labelled)].pos
        [] named = {} /\ labelled = {}      -> Unset

=============================================================================
