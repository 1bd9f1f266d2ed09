------------------------------- MODULE Files --------------------------------
(***************************************************************************)
(* Files on the storage: open_file, open_create_file (src/asm/             *)
(* open_file.asm), read_u8, read_u16 (read_file.asm), write_u8, write_u16  *)
(* (write_file.asm), by programs with several FILE structs at the root.    *)
(*                                                                         *)
(* found, what solve_path gives, is computed again when a directory        *)
(* changes; view, the storage as FileStore sees it, is only observed.      *)
(***************************************************************************)
EXTENDS Sectors

CONSTANTS
  Handles,       \* FILE structs
  Starts,        \* images there are at the start, each with those the program has
  Writers,       \* bound: those that are written through
  Paths,         \* bound: paths that are opened
  NewPaths,      \* bound: those of them that are created
  TextBytes,     \* bound: bytes of texts
  TextOf,        \* bound: the byte a program writes through a handle at an index
  FilePaths,     \* those of them a file may have
  RewriteLimit,  \* bound: bytes behind it are written once
  EOF

VARIABLES
  MEM,
  FILE,       \* the structs of the program
  A,          \* what the last call returned
  halted,     \* "" or the code of the HLT; "outside" when sectors past the last are used
  found, view

observed == <<found, view>>
vars == <<MEM, FILE, A, halted, observed>>

Unopened == [sec |-> 0, ndx |-> 0]

\* What a call returns: a word or bytes.
Said(word) == [said |-> word, bytes |-> << >>]
Got(bytes) == [said |-> "bytes", bytes |-> bytes]

-----------------------------------------------------------------------------
(* The storage as files under paths *)

Solved == [path \in Paths |-> solve_path(MEM, Root, path)]

DirectoriesKept ==
  \A sec \in Sectors : MEM'[sec] = MEM[sec] \/ (ByteAt(MEM, sec, 0) = F /\ ByteAt(MEM', sec, 0) = F)

Resolved(path) == found[path]

\* The sectors of the file that starts at a sector.
Chain(sec) ==
  LET chain[s \in Sectors] ==
        IF WordOf(MEM, s, NextIndex) \in Sectors THEN << s >> \o chain[WordOf(MEM, s, NextIndex)] ELSE << s >>
  IN  chain[sec]

Content(chain) ==
  FlattenSeq([i \in DOMAIN chain |->
    SubSeq(MEM[chain[i]], DataStart + 1, ByteAt(MEM, chain[i], MaxIndex) + 1)])

\* For every FILE the path of the file it is in and the position in it.
Position(file, chains) ==
  LET in == {path \in DOMAIN chains : \E i \in DOMAIN chains[path] : chains[path][i] = file.sec}
      path == CHOOSE p \in in : TRUE
      nth  == CHOOSE i \in DOMAIN chains[path] : chains[path][i] = file.sec
  IN  IF in = {} THEN [path |-> << >>, pos |-> 0]
      ELSE [path |-> path, pos |-> (nth - 1) * Room + file.ndx - DataStart]

View ==
  LET sec == [path \in FilePaths |-> Resolved(path).A]
      existing == {path \in FilePaths : sec[path] \in Sectors \ {0} /\ ByteAt(MEM, sec[path], 0) = F}
      chains == [path \in existing |-> Chain(sec[path])]
  IN  [store |-> [path \in existing |-> Content(chains[path])],
       FILE  |-> [h \in DOMAIN FILE |-> Position(FILE[h], chains)]]

Observe ==
  /\ found' = IF DirectoriesKept THEN found ELSE Solved'
  /\ view' = View'

Init ==
  /\ \E start \in Starts :
       /\ MEM = Encode(start.image)
       /\ FILE = [h \in start.handles |-> Unopened]
  /\ A = Said("nothing") /\ halted = ""
  /\ found = Solved /\ view = View

Running == halted = ""

-----------------------------------------------------------------------------
(* open_file and open_create_file *)

open_file(h, path) ==
  /\ Running
  /\ LET sec == Resolved(path).A
     IN  IF sec = 0 THEN A' = Said("not found") /\ UNCHANGED FILE
         ELSE IF ByteAt(MEM, sec, 0) # F THEN A' = Said("is not a file") /\ UNCHANGED FILE
         ELSE FILE' = [FILE EXCEPT ![h] = [sec |-> sec, ndx |-> DataStart]] /\ A' = Said("file")
  /\ UNCHANGED <<MEM, halted>>

\* Behind the first entry with nothing after it: names are taken to have a character.
Slot(sec) ==
  LET loop[ndx \in Nat] ==
        LET after == ndx + 1 + ToZero(MEM, sec, ndx + 1) + 3
        IN  IF ByteAt(MEM, sec, after) = 0 THEN after ELSE loop[after]
  IN  loop[FirstEntry]

path_find_name(path) ==
  SubSeq(path, 1 + CHOOSE i \in 0 .. Len(path) :
    /\ i = 0 \/ path[i] = Slash
    /\ \A k \in i + 1 .. Len(path) : path[k] # Slash, Len(path))

FreeSectors == {sec \in Sectors \ {0, Root} : ByteAt(MEM, sec, 0) = 0}

FirstFree == CHOOSE sec \in FreeSectors : \A other \in FreeSectors : sec <= other

NewFile == << F >> \o AsBytes(NoSector) \o << MaxIndex >>

\* The entry and the empty name behind it.
Linked(M, dir, name, sec) == PutAll(M, dir, Slot(dir), EntryBytes(name, sec) \o << 0 >>)

Create(h, path, dir) ==
  IF FreeSectors = {} THEN halted' = "outside" /\ UNCHANGED <<MEM, FILE, A>>
  ELSE /\ MEM' = PutAll(Linked(MEM, dir, path_find_name(path), FirstFree), FirstFree, 0, NewFile)
       /\ FILE' = [FILE EXCEPT ![h] = [sec |-> FirstFree, ndx |-> DataStart]]
       /\ A' = Said("file")
       /\ UNCHANGED halted

\* What is found is emptied, whatever it is, and the struct is set before its data.
Truncate(h, sec) ==
  /\ MEM' = Put(MEM, sec, MaxIndex, 3)
  /\ FILE' = [FILE EXCEPT ![h] = [sec |-> sec, ndx |-> 3]]
  /\ A' = Said("file")
  /\ UNCHANGED halted

open_create_file(h, path) ==
  /\ Running
  /\ LET result == Resolved(path)
     IN  IF result.A # 0 THEN Truncate(h, result.A)
         ELSE IF result.B # NoSector THEN A' = Said("is not a file") /\ UNCHANGED <<MEM, FILE, halted>>
         ELSE Create(h, path, result.SEC)

-----------------------------------------------------------------------------
(* read_u8 and read_u16 *)

MaxNdx(file) == ByteAt(MEM, file.sec, MaxIndex)
NextSector(file) == WordOf(MEM, file.sec, NextIndex)
Start(sec) == [sec |-> sec, ndx |-> DataStart]

AtMaxNdx(file)  == file.ndx = MaxNdx(file)
PastMax(file) == file.ndx = MaxNdx(file) + 1

\* The struct after reading a byte and the byte, or EOF. The sector is left with its last
\* index, or when the position is past the last byte and there is another one.
u8(file) ==
  LET byte == ByteAt(MEM, file.sec, file.ndx)
      next == NextSector(file)
  IN  IF PastMax(file)
      THEN IF next = NoSector THEN [file |-> file, got |-> EOF] ELSE [file |-> Start(next), got |-> byte]
      ELSE IF file.ndx + 1 # BYTE THEN [file |-> [file EXCEPT !.ndx = @ + 1], got |-> byte]
      ELSE IF next = NoSector THEN [file |-> [file EXCEPT !.ndx = 0], got |-> EOF]
      ELSE [file |-> Start(next), got |-> byte]

IsOpen(h) == FILE[h] # Unopened

read_u8(h) ==
  /\ Running /\ IsOpen(h)
  /\ A' = Got(<< u8(FILE[h]).got >>)
  /\ FILE' = [FILE EXCEPT ![h] = u8(FILE[h]).file]
  /\ UNCHANGED <<MEM, halted>>

read_u16(h) ==
  /\ Running /\ IsOpen(h)
  /\ LET first == u8(FILE[h])
         second == u8(first.file)
     IN  IF first.got = EOF
         THEN A' = Got(<< EOF >>) /\ FILE' = [FILE EXCEPT ![h] = first.file]
         ELSE /\ A' = Got(IF second.got = EOF THEN << first.got >> ELSE << first.got, second.got >>)
              /\ FILE' = [FILE EXCEPT ![h] = second.file]
  /\ UNCHANGED <<MEM, halted>>

-----------------------------------------------------------------------------
(* write_u8 and write_u16 *)

NeedsNoSector(file) == FALSE
NeedsSector(file) == file.ndx = BYTE - 1

NotCounted(M, file) == M
\* The index of the last byte grows by one when the new position is past it.
Counted(M, file) ==
  IF ByteAt(M, file.sec, MaxIndex) < file.ndx + 1
  THEN Put(M, file.sec, MaxIndex, ByteAt(M, file.sec, MaxIndex) + 1) ELSE M

Written(M, file, byte) == Counted(Put(M, file.sec, file.ndx, byte), file)

write_u8(h, byte) ==
  /\ Running
  /\ IF NeedsSector(FILE[h]) THEN halted' = "3402" /\ UNCHANGED <<MEM, FILE, A>>
     ELSE /\ MEM' = Written(MEM, FILE[h], byte)
          /\ FILE' = [FILE EXCEPT ![h].ndx = @ + 1]
          /\ A' = Said("file")
          /\ UNCHANGED halted

write_u16(h, low, high) ==
  LET second == [FILE[h] EXCEPT !.ndx = @ + 1]
      once == Written(MEM, FILE[h], low)
  IN  /\ Running
      /\ \/ /\ NeedsSector(FILE[h])
            /\ halted' = "3402" /\ UNCHANGED <<MEM, FILE, A>>
         \/ /\ ~NeedsSector(FILE[h]) /\ NeedsSector(second)
            /\ MEM' = once /\ FILE' = [FILE EXCEPT ![h] = second]
            /\ halted' = "3402" /\ UNCHANGED A
         \/ /\ ~NeedsSector(FILE[h]) /\ ~NeedsSector(second)
            /\ MEM' = Written(once, second, high)
            /\ FILE' = [FILE EXCEPT ![h].ndx = @ + 2]
            /\ A' = Said("file") /\ UNCHANGED halted

-----------------------------------------------------------------------------
(* Programs *)

Text(h, n) == TextOf[h][(FILE[h].ndx + n) % BYTE]
WriteNext(h)     == write_u8(h, Text(h, 0))
WriteNextTwo(h)  == write_u16(h, Text(h, 0), Text(h, 1))

\* Bytes at the end of the file, or first ones that are not the last.
Proper(file) == file.ndx > MaxNdx(file) \/ (file.ndx < RewriteLimit /\ ~AtMaxNdx(file))
WritesProperly(h, n) == IsOpen(h) /\ \A k \in 0 .. n - 1 : Proper([FILE[h] EXCEPT !.ndx = @ + k])

Next ==
  \E h \in DOMAIN FILE :
    \/ \E path \in Paths : open_file(h, path)
    \/ h \in Writers /\ \E path \in NewPaths : Resolved(path).A = 0 /\ open_create_file(h, path)
    \/ read_u8(h) \/ read_u16(h)
    \/ h \in Writers /\ WritesProperly(h, 1) /\ WriteNext(h)
    \/ h \in Writers /\ WritesProperly(h, 2) /\ WriteNextTwo(h)

\* Programs that create new files and overwrite only what has something behind it.
Spec == Init /\ [][Next /\ Observe]_vars

NextAny ==
  \E h \in DOMAIN FILE :
    \/ \E path \in Paths : open_file(h, path)
    \/ \E path \in NewPaths : open_create_file(h, path)
    \/ read_u8(h) \/ read_u16(h)
    \/ IsOpen(h) /\ (WriteNext(h) \/ WriteNextTwo(h))

\* Programs that call them in any way.
SpecAny == Init /\ [][NextAny /\ Observe]_vars

-----------------------------------------------------------------------------
(* Properties *)

Store == INSTANCE FileStore WITH
  OtherPaths <- Paths \ FilePaths,
  Bytes <- TextBytes,
  store <- view.store,
  FILE <- view.FILE,
  returned <- A,
  stopped <- halted # ""

\* Whatever programs create, read and write through several structs at a time, also of the
\* same file and over the end of sectors, every file holds what was written to it and
\* reading gives it byte by byte; no call touches another file.
ImplementsStore == Store!Spec

\* Every FILE is in a file, between its first byte and the place behind its last one, and
\* never on the header of a sector.
TypeOK ==
  /\ MEM \in [Sectors -> [1 .. BYTE -> 0 .. BYTE - 1]]
  /\ \A h \in DOMAIN FILE : FILE[h] # Unopened =>
       /\ FILE[h].ndx \in DataStart .. BYTE - 1
       /\ view.FILE[h].path \in DOMAIN view.store
       /\ FILE[h].ndx <= MaxNdx(FILE[h]) + 1

\* docs/README.md:247: nothing is behind the entry with the empty name, so what
\* open_create_file made is found by its path.
CreatedIsFound ==
  [][\A h \in DOMAIN FILE : \A path \in NewPaths :
       open_create_file(h, path) /\ A'.said = "file" => Resolved(path)'.A = FILE'[h].sec]_vars
=============================================================================
