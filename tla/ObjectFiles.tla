----------------------------- MODULE ObjectFiles -----------------------------
(***************************************************************************)
(* The files the tools hand to each other (src/files.c): objects,          *)
(* libraries and executables, a sequence of bytes each. A file has no      *)
(* marks but its first letters: what is read where depends on the lengths  *)
(* and counts read before. Characters of names are bytes like any other,   *)
(* kept as letters here.                                                   *)
(***************************************************************************)
EXTENDS Assemble

LOCAL INSTANCE SequencesExt

-----------------------------------------------------------------------------
(* fwrite *)

Words(list) == FlattenSeq([i \in DOMAIN list |-> WordBytes(list[i])])
RelocBytes(relocs) == FlattenSeq([i \in DOMAIN relocs |-> WordBytes(relocs[i].where) \o WordBytes(relocs[i].what)])

symbols_list_encode(symbols) ==
  WordBytes(Len(symbols)) \o
  FlattenSeq([i \in DOMAIN symbols |->
    << Len(symbols[i].image) >> \o symbols[i].image \o WordBytes(symbols[i].pos)
      \o << Len(symbols[i].relocs) >> \o Words(symbols[i].relocs)
      \o << Len(symbols[i].relrelocs) >> \o Words(symbols[i].relrelocs)])

\* Indices count from 0 in a file.
IndexBytes(list) == << Len(list) >> \o Words([i \in DOMAIN list |-> list[i] - 1])

CodeAndRelocs(obj) ==
  WordBytes(Len(obj.code)) \o obj.code \o WordBytes(Len(obj.relocs)) \o RelocBytes(obj.relocs)

obj_encode_file(obj) ==
  << "O", "B", "J" >> \o CodeAndRelocs(obj) \o IndexBytes(obj.globals) \o IndexBytes(obj.externs)
    \o symbols_list_encode(obj.symbols)

so_encode_file(so) ==
  << "S", "O" >> \o CodeAndRelocs(so) \o IndexBytes(so.globals) \o symbols_list_encode(so.symbols)

\* The library goes by the name 0x01.
DynamicBytes(relocs) == << 1, 1 >> \o << Len(relocs) >> \o RelocBytes(relocs)

exe_encode_file(exe) ==
  << "E", "X", "E" >> \o CodeAndRelocs(exe) \o WordBytes(Len(exe.dynamics))
    \o FlattenSeq([i \in DOMAIN exe.dynamics |-> DynamicBytes(exe.dynamics[i])])
    \o symbols_list_encode(exe.symbols)

-----------------------------------------------------------------------------
(* fread: what was read, and what is left of the file *)

From(file, n) == SubSeq(file, n + 1, Len(file))
ReadByte(file) == [value |-> file[1], rest |-> From(file, 1)]
ReadWord(file) == [value |-> file[1] + file[2] * BYTE, rest |-> From(file, 2)]
ReadBytes(file, n) == [value |-> SubSeq(file, 1, n), rest |-> From(file, n)]

ReadMany(Read(_), file, n) ==
  FoldLeft(LAMBDA done, i : LET next == Read(done.rest)
                            IN  [value |-> Append(done.value, next.value), rest |-> next.rest],
           [value |-> << >>, rest |-> file], [i \in 1 .. n |-> i])

ReadCode(file) == LET size == ReadWord(file) IN ReadBytes(size.rest, size.value)

ReadReloc(file) ==
  LET where == ReadWord(file)
      what  == ReadWord(where.rest)
  IN  [value |-> [where |-> where.value, what |-> what.value], rest |-> what.rest]

ReadRelocs(file) == LET count == ReadWord(file) IN ReadMany(ReadReloc, count.rest, count.value)

ReadIndex(file) == LET index == ReadWord(file) IN [index EXCEPT !.value = @ + 1]
ReadIndices(file) == LET count == ReadByte(file) IN ReadMany(ReadIndex, count.rest, count.value)

ReadSymbol(file) ==
  LET len    == ReadByte(file)
      image  == ReadBytes(len.rest, len.value)
      pos    == ReadWord(image.rest)
      count  == ReadByte(pos.rest)
      relocs == ReadMany(ReadWord, count.rest, count.value)
      relcount == ReadByte(relocs.rest)
      relrelocs == ReadMany(ReadWord, relcount.rest, relcount.value)
  IN  [value |-> [image |-> image.value, pos |-> pos.value, relocs |-> relocs.value, relrelocs |-> relrelocs.value],
       rest  |-> relrelocs.rest]

symbols_list_decode(file) == LET count == ReadWord(file) IN ReadMany(ReadSymbol, count.rest, count.value)

obj_decode(file) ==
  LET code    == ReadCode(From(file, 3))
      relocs  == ReadRelocs(code.rest)
      globals == ReadIndices(relocs.rest)
      externs == ReadIndices(globals.rest)
  IN  [code |-> code.value, relocs |-> relocs.value, globals |-> globals.value, externs |-> externs.value,
       symbols |-> symbols_list_decode(externs.rest).value]

so_decode(file) ==
  LET code    == ReadCode(From(file, 2))
      relocs  == ReadRelocs(code.rest)
      globals == ReadIndices(relocs.rest)
  IN  [code |-> code.value, relocs |-> relocs.value, globals |-> globals.value,
       symbols |-> symbols_list_decode(globals.rest).value]

ReadDynamic(file) ==
  LET len    == ReadByte(file)
      name   == ReadBytes(len.rest, len.value)
      count  == ReadByte(name.rest)
  IN  ReadMany(ReadReloc, count.rest, count.value)

exe_decode(file) ==
  LET code     == ReadCode(From(file, 3))
      relocs   == ReadRelocs(code.rest)
      count    == ReadWord(relocs.rest)
      dynamics == ReadMany(ReadDynamic, count.rest, count.value)
  IN  [code |-> code.value, relocs |-> relocs.value, dynamics |-> dynamics.value,
       symbols |-> symbols_list_decode(dynamics.rest).value]

\* Bare code has no place for relocations: the linker refuses to write it.
bin_encode_file(exe) == exe.code

=============================================================================
