------------------------------ MODULE Sectors -------------------------------
(***************************************************************************)
(* The storage of the machine: sectors of bytes, directories and files in  *)
(* them, the image src/encodemem.c makes of a description, and solve_path  *)
(* (src/asm/solve_path.asm), the search for a path, byte by byte, in the   *)
(* entries of directories.                                                 *)
(*                                                                         *)
(* A directory is a byte D, the next sector, the entry ".." with the       *)
(* parent, the entry "." with the directory itself, and an entry per name; *)
(* an entry is its name, a 0 and a sector. A file sector is a byte F, the  *)
(* next sector, the index of its last byte, and bytes.                     *)
(*                                                                         *)
(* An image is described by a sequence of nodes, the root first and every  *)
(* directory followed by what is in it: records with the index of the      *)
(* parent, the name, whether it is a directory, and the content.           *)
(***************************************************************************)
EXTENDS Integers, Sequences, SequencesExt

CONSTANTS
  BYTE,           \* number of values of a byte, and of bytes of a sector: 256
  SECTOR_COUNT,   \* 2048
  D, F,           \* the letters that mark directories and files
  Dot, Slash

ASSUME SectorsAssumption ==
  /\ BYTE \in Nat /\ BYTE > 16 /\ SECTOR_COUNT \in Nat \ {0, 1}
  /\ SECTOR_COUNT < BYTE * BYTE
  /\ {D, F, Dot, Slash} \subseteq 1 .. BYTE - 1
  /\ D # F /\ Dot # Slash

NoSector == BYTE * BYTE - 1
Root == 1
EntryStart == 3
FirstEntry == 12
NextIndex == 1
MaxIndex == 3
DataStart == 4

Sectors == 0 .. SECTOR_COUNT - 1

\* Indexes in a sector wrap like the register NDX.
ByteAt(MEM, sec, ndx) == MEM[sec][(ndx % BYTE) + 1]
WordOf(MEM, sec, ndx) == ByteAt(MEM, sec, ndx) + BYTE * ByteAt(MEM, sec, ndx + 1)
Put(MEM, sec, ndx, byte) == [MEM EXCEPT ![sec][(ndx % BYTE) + 1] = byte]

PutAll(MEM, sec, ndx, bytes) ==
  [MEM EXCEPT ![sec] = [n \in DOMAIN @ |->
    IF (n - 1 - ndx) % BYTE < Len(bytes) THEN bytes[((n - 1 - ndx) % BYTE) + 1] ELSE @[n]]]

AsBytes(word) == << word % BYTE, word \div BYTE >>

\* How many bytes from ndx on are before the first 0. No sector is without one where the
\* code looks for it: it would look for ever.
ToZero(MEM, sec, ndx) ==
  LET zeros == {n \in 0 .. BYTE - 1 : ByteAt(MEM, sec, ndx + n) = 0}
  IN  IF zeros = {} THEN BYTE ELSE CHOOSE n \in zeros : \A k \in zeros : n <= k

-----------------------------------------------------------------------------
(* encodemem *)

Room == BYTE - DataStart

\* A file that fills its last sector gets another, empty one.
SectorsFor(content) == (Len(content) \div Room) + 1

SectorsOf(node) == IF node.dir THEN 1 ELSE SectorsFor(node.content)

\* SECTORI when the node is encoded.
SectorOf(image) ==
  LET first[i \in 1 .. Len(image)] == IF i = 1 THEN Root ELSE first[i - 1] + SectorsOf(image[i - 1])
  IN  first

Piece(content, k) == SubSeq(content, k * Room + 1, IF Len(content) < (k + 1) * Room THEN Len(content) ELSE (k + 1) * Room)

encode_file(content, sec, k) ==
  LET more == k + 1 < SectorsFor(content)
  IN  << F >> \o AsBytes(IF more THEN sec + 1 ELSE NoSector)
        \o << IF more THEN BYTE - 1 ELSE Len(Piece(content, k)) + 3 >> \o Piece(content, k)

EntryBytes(name, sec) == name \o << 0 >> \o AsBytes(sec)

\* The entries of a directory are pushed one after the other.
Pushed(image, i) ==
  LET pushed[j \in 1 .. Len(image)] ==
        IF j = 1
        THEN << D >> \o AsBytes(NoSector)
               \o EntryBytes(<< Dot, Dot >>, IF i = 1 THEN NoSector ELSE SectorOf(image)[image[i].parent])
               \o EntryBytes(<< Dot >>, SectorOf(image)[i])
        ELSE IF image[j].parent = i THEN pushed[j - 1] \o EntryBytes(image[j].name, SectorOf(image)[j])
        ELSE pushed[j - 1]
  IN  pushed

encode_dir(image, i) == Pushed(image, i)[Len(image)]

Padded(bytes) == [n \in 1 .. BYTE |-> IF n <= Len(bytes) THEN bytes[n] ELSE 0]

\* The node a sector belongs to, 0 if it is free; sector 0 holds the bootloader.
NodeIn(image, sec) ==
  LET owners == {i \in 1 .. Len(image) : sec \in SectorOf(image)[i] .. SectorOf(image)[i] + SectorsOf(image[i]) - 1}
  IN  IF owners = {} THEN 0 ELSE CHOOSE i \in owners : TRUE

Encode(image) ==
  [sec \in Sectors |->
     LET i == NodeIn(image, sec)
     IN  IF sec = 0 THEN [n \in 1 .. BYTE |-> BYTE - 1]
         ELSE IF i = 0 THEN Padded(<< >>)
         ELSE IF image[i].dir THEN Padded(encode_dir(image, i))
         ELSE Padded(encode_file(image[i].content, sec, sec - SectorOf(image)[i]))]

\* What the assertions of encodemem accept: after every entry a byte of the sector is free.
Accepted(image) ==
  /\ \A i \in 1 .. Len(image) : image[i].dir => Len(encode_dir(image, i)) + 1 < BYTE
  /\ SectorOf(image)[Len(image)] + SectorsOf(image[Len(image)]) <= SECTOR_COUNT

-----------------------------------------------------------------------------
(* solve_path *)

CharAt(p, i) == IF i > Len(p) THEN 0 ELSE p[i]

\* The registers solve_path returns; the contents of B say something only on an error.
Found(sec, dir)       == [A |-> sec, B |-> 0, SEC |-> dir]
NotFound(dir)         == [A |-> 0, B |-> NoSector, SEC |-> dir]
NotDirectory(sec)     == [A |-> 0, B |-> NoSector - 1, SEC |-> sec]
OutsideOfStorage(sec) == [A |-> 0, B |-> 0, SEC |-> sec]

StillMatches(byte) == TRUE
EntryEnds(byte) == byte = 0

PathAgain(s, first) == [s EXCEPT !.pathi = first]

\* Where the search goes on after a byte that does not match: the next entry, compared
\* with the path from the last separator that was passed.
NextEntry(M, s) ==
  PathAgain([s EXCEPT !.ndx = @ + ToZero(M, s.SEC, s.ndx) + 3], s.path)

Entries(sec, first) == [SEC |-> sec, ndx |-> EntryStart, path |-> first, pathi |-> first]

\* The search from the registers s on.
check_entry(M, p) ==
  LET check[s \in [SEC : Sectors, ndx : Nat, path : Nat, pathi : Nat]] ==
        LET byte == ByteAt(M, s.SEC, s.ndx)
            char == CharAt(p, s.pathi)
            sector == WordOf(M, s.SEC, s.ndx + 1)
            next == NextEntry(M, s)
            chained == WordOf(M, s.SEC, NextIndex)
        IN  IF char = 0 /\ EntryEnds(byte) THEN Found(sector, s.SEC)
            ELSE IF char = Slash /\ EntryEnds(byte)
            THEN IF sector \notin Sectors THEN OutsideOfStorage(sector)
                 ELSE IF ByteAt(M, sector, 0) # D THEN NotDirectory(sector)
                 ELSE check[Entries(sector, s.pathi + 1)]
            ELSE IF char \notin {0, Slash} /\ byte = char
            THEN check[[s EXCEPT !.ndx = @ + 1, !.pathi = @ + 1]]
            ELSE IF ByteAt(M, s.SEC, next.ndx) # 0 THEN check[next]
            ELSE IF chained = NoSector THEN NotFound(s.SEC)
            ELSE check[[next EXCEPT !.SEC = chained, !.ndx = EntryStart]]
  IN  check

solve_path(M, dir, p) ==
  check_entry(M, p)[IF CharAt(p, 1) = Slash THEN Entries(Root, 2) ELSE Entries(dir, 1)]
=============================================================================
