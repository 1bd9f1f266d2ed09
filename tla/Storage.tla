------------------------------ MODULE Storage -------------------------------
(***************************************************************************)
(* An image of the storage from its description to the machine that uses   *)
(* it: src/encodemem.c makes it command by command, src/decodemem.c writes *)
(* its files back, and on the machine the bootloader reads a file          *)
(* (src/asm/bootloader.asm), ls lists a directory (src/asm/ls.asm), and a  *)
(* path is typed and given to cd (src/asm/cd.asm), again and again.        *)
(***************************************************************************)
EXTENDS Sectors, FiniteSets

CONSTANTS
  EntryNames,  \* bound: of files and directories
  Contents,    \* bound: of files
  Destination, \* the path decodemem is told to write to
  MaxNodes,    \* bound: files and directories
  Booted,      \* bound: images the machine is started with
  PathChars,   \* characters of paths
  MaxPath      \* bound: length of a path

Bytes == 0 .. BYTE - 1
CharBytes == 1 .. BYTE - 1

\* Names are tokens of the description that a path can say: not those encodemem writes into
\* every directory, and without the separator.
ASSUME EntryNamesAssumption ==
  /\ EntryNames \subseteq Seq(CharBytes \ {Slash})
  /\ {<< >>, << Dot >>, << Dot, Dot >>} \cap EntryNames = {}
ASSUME ContentsAssumption == Contents \subseteq Seq(Bytes)
ASSUME DestinationAssumption == Destination \in Seq(CharBytes)
ASSUME PathCharsAssumption == PathChars \subseteq CharBytes

VARIABLES
  image,   \* the description so far
  MEM,     \* the sectors
  cwd,     \* in the record of the process that executes cd
  path,    \* the argument of cd that is being typed
  sim      \* "encoding", "running", or "outside" when a sector that does not exist was read

vars == <<image, MEM, cwd, path, sim>>

-----------------------------------------------------------------------------
(* encodemem *)

Directory(parent, name) == [parent |-> parent, name |-> name, dir |-> TRUE, content |-> << >>]
File(parent, name, content) == [parent |-> parent, name |-> name, dir |-> FALSE, content |-> content]

Init ==
  /\ image = << Directory(1, << >>) >>
  /\ MEM = Encode(image)
  /\ cwd = Root /\ path = << >>
  /\ sim = "encoding"

\* newdir and newfile, in a directory that has not ended.
OpenDirectories ==
  LET up[j \in 1 .. Len(image)] == {j} \cup IF j = 1 THEN {} ELSE up[image[j].parent]
  IN  {i \in 1 .. Len(image) : image[i].dir /\ i \in up[Len(image)]}

Add(node) ==
  /\ Accepted(Append(image, node))
  /\ image' = Append(image, node) /\ MEM' = Encode(image')
  /\ UNCHANGED <<cwd, path, sim>>

\* Nothing keeps a name from being given twice in a directory.
NewEntry(parent, name) ==
  /\ sim = "encoding" /\ Len(image) < MaxNodes
  /\ \/ Add(Directory(parent, name))
     \/ \E content \in Contents : Add(File(parent, name, content))

\* The description ends, an enddir given for every newdir; the image is written, and the
\* machine started with it.
Boot ==
  /\ sim = "encoding" /\ image \in Booted
  /\ sim' = "running"
  /\ UNCHANGED <<image, MEM, cwd, path>>

-----------------------------------------------------------------------------
(* decodemem *)

Data(M, sec) == SubSeq(M[sec], DataStart + 1, ByteAt(M, sec, MaxIndex) + 1)

\* s: the sector, and what is in the output.
decode_loop(M) ==
  LET loop[s \in [sec : Sectors, file : Seq(Nat)]] ==
        LET file == s.file \o Data(M, s.sec)
            next == WordOf(M, s.sec, NextIndex)
        IN  IF next = NoSector THEN file ELSE loop[[sec |-> next, file |-> file]]
  IN  loop

decode_file(M, sec) == decode_loop(M)[[sec |-> sec, file |-> << >>]]

NameAt(M, sec, ndx) == [n \in 1 .. ToZero(M, sec, ndx) |-> ByteAt(M, sec, ndx + n - 1)]

\* The path of an entry is printed into an array of BYTE characters, the last of which is a 0.
Cut(outpath) == SubSeq(outpath, 1, IF Len(outpath) < BYTE THEN Len(outpath) ELSE BYTE - 1)
Below(outpath, name) == Cut(outpath \o << Slash >> \o name)

Entry(outpath, dir, content) == [path |-> outpath, dir |-> dir, content |-> content]

\* A char is signed: the low byte of a sector, from BYTE \div 2 on, is extended by a high byte
\* of ones.
EntrySector(M, sec, ndx) ==
  LET low == ByteAt(M, sec, ndx)
  IN  IF low < BYTE \div 2 THEN WordOf(M, sec, ndx) ELSE low + BYTE * (BYTE - 1)

\* A sector behind the last one was read: an entry that nothing describes.
Crashed == Entry(<< >>, FALSE, << >>)

\* What is written, in the order of the image. The listing of a directory ends at an empty
\* name, and at an entry whose sector has a low byte of 0.
decode_entries(M) ==
  LET entries[e \in [sec : Sectors, ndx : Nat, outpath : Seq(Nat)]] ==
        LET length == ToZero(M, e.sec, e.ndx)
            sector == EntrySector(M, e.sec, e.ndx + length + 1)
            outpath == Below(e.outpath, NameAt(M, e.sec, e.ndx))
            inside == IF sector \notin Sectors THEN {Crashed}
                      ELSE IF ByteAt(M, sector, 0) = D
                      THEN {Entry(outpath, TRUE, << >>)}
                             \cup entries[[sec |-> sector, ndx |-> FirstEntry, outpath |-> outpath]]
                      ELSE {Entry(outpath, FALSE, decode_file(M, sector))}
        IN  IF length = 0 \/ ByteAt(M, e.sec, e.ndx + length + 1) = 0 THEN {}
            ELSE inside \cup entries[[e EXCEPT !.ndx = @ + length + 3]]
  IN  entries

decode_dir(M, root) == decode_entries(M)[[sec |-> root, ndx |-> FirstEntry, outpath |-> Destination]]

-----------------------------------------------------------------------------
(* The bootloader and ls *)

AfterLastOfSector(M, at) == at.ndx > ByteAt(M, at.sec, MaxIndex)
LastOfSector(M, at) == at.ndx >= ByteAt(M, at.sec, MaxIndex)

\* at: the registers SEC and NDX.
get_8(M, at) ==
  [byte |-> ByteAt(M, at.sec, at.ndx),
   at   |-> IF LastOfSector(M, at) THEN [sec |-> WordOf(M, at.sec, NextIndex), ndx |-> DataStart]
            ELSE [at EXCEPT !.ndx = @ + 1]]

Get(M, read) ==
  LET got == get_8(M, read.at)
  IN  [bytes |-> Append(read.bytes, got.byte), at |-> got.at]

\* What count calls of get_8 return.
ReadBytes(M, sec, count) ==
  LET read[n \in 0 .. count] ==
        IF n = 0 THEN [bytes |-> << >>, at |-> [sec |-> sec, ndx |-> DataStart]] ELSE Get(M, read[n - 1])
  IN  read[count].bytes

EndOfEntry(length) == length + 3

\* s: the registers SEC and NDX, and the names that are shown.
ls_entries(M) ==
  LET entry[s \in [sec : Sectors, ndx : Nat, names : Seq(Seq(Nat))]] ==
        LET name == NameAt(M, s.sec, s.ndx)
        IN  IF name = << >> THEN s.names
            ELSE entry[[s EXCEPT !.ndx = @ + EndOfEntry(Len(name)), !.names = Append(@, name)]]
  IN  entry

\* The names of a directory behind the entries ".." and ".", up to an empty one.
ls(M, sec) == ls_entries(M)[[sec |-> sec, ndx |-> FirstEntry, names |-> << >>]]

-----------------------------------------------------------------------------
(* A path is typed and cd is given it *)

Type(char) ==
  /\ sim = "running" /\ Len(path) < MaxPath
  /\ path' = Append(path, char)
  /\ UNCHANGED <<image, MEM, cwd, sim>>

AnySector(sec) == TRUE
IsDirectory(sec) == ByteAt(MEM, sec, 0) = D

\* Without an argument cd goes to the root.
cd ==
  /\ sim = "running"
  /\ LET result == solve_path(MEM, cwd, path)
         outside == result.A \notin Sectors \/ result.SEC \notin Sectors
     IN  /\ sim' = IF path # << >> /\ outside THEN "outside" ELSE sim
         /\ cwd' = IF path = << >> THEN Root
                   ELSE IF ~outside /\ result.A # 0 /\ IsDirectory(result.A) THEN result.A
                   ELSE cwd
  /\ path' = << >>
  /\ UNCHANGED <<image, MEM>>

Next ==
  \/ \E parent \in OpenDirectories, name \in EntryNames : NewEntry(parent, name)
  \/ Boot
  \/ \E char \in PathChars : Type(char)
  \/ cd

Spec == Init /\ [][Next]_vars

-----------------------------------------------------------------------------
(* The walk over the description *)

OutOfTree == 0

\* Where the name that begins at first ends, before a separator or with the path.
End(p, first) ==
  CHOOSE e \in first .. Len(p) + 1 :
    /\ e = Len(p) + 1 \/ p[e] = Slash
    /\ \A k \in first .. e - 1 : p[k] # Slash

\* Of two entries with one name it is the first.
Child(i, name) ==
  LET named == {j \in 2 .. Len(image) : image[j].parent = i /\ image[j].name = name}
  IN  IF name = << Dot >> THEN {i}
      ELSE IF name = << Dot, Dot >> THEN {IF i = 1 THEN OutOfTree ELSE image[i].parent}
      ELSE {j \in named : \A k \in named : j <= k}

SectorOfNode(i) == IF i = OutOfTree THEN NoSector ELSE SectorOf(image)[i]

\* From the node s.at, the rest of the path from s.first on. A name may be empty: there is
\* no entry for it.
WalkFrom(p) ==
  LET walk[s \in [at : 1 .. Len(image), first : 1 .. Len(p) + 1]] ==
        LET end == End(p, s.first)
            in == Child(s.at, SubSeq(p, s.first, end - 1))
            child == CHOOSE j \in in : TRUE
        IN  IF in = {} THEN NotFound(SectorOfNode(s.at))
            ELSE IF end > Len(p) THEN Found(SectorOfNode(child), SectorOfNode(s.at))
            ELSE IF child = OutOfTree THEN OutsideOfStorage(NoSector)
            ELSE IF ~image[child].dir THEN NotDirectory(SectorOfNode(s.at))
            ELSE walk[[at |-> child, first |-> end + 1]]
  IN  walk

NodeAt(sec) == CHOOSE i \in 1 .. Len(image) : SectorOfNode(i) = sec

Walk(p) ==
  WalkFrom(p)[IF CharAt(p, 1) = Slash THEN [at |-> NodeAt(Root), first |-> 2]
              ELSE [at |-> NodeAt(cwd), first |-> 1]]

-----------------------------------------------------------------------------
(* Properties *)

IsNotDirectory(result) == result.A = 0 /\ result.B = NoSector - 1

\* SEC, in which solve_path leaves the file it found in the place of a directory, is
\* compared in every other result.
SameResult(result, walked) ==
  /\ result.A = walked.A /\ result.B = walked.B
  /\ IsNotDirectory(walked) \/ result.SEC = walked.SEC

\* Paths of every shape, from every directory, through names that begin with one another:
\* solve_path finds what the walk finds, tells a missing entry from a file in the place of
\* a directory, and leaves SEC at the directory a missing entry belongs to.
SolvesPaths == sim = "running" => SameResult(solve_path(MEM, cwd, path), Walk(path))

\* After any sequence of cd the current directory is a directory of the image.
CwdIsDirectory == \E i \in 1 .. Len(image) : image[i].dir /\ SectorOfNode(i) = cwd

Paths ==
  LET above[j \in 1 .. Len(image)] ==
        IF j = 1 THEN Destination ELSE above[image[j].parent] \o << Slash >> \o image[j].name
  IN  above

Described == {Entry(Paths[i], image[i].dir, image[i].content) : i \in 2 .. Len(image)}

WholeRootDecoded == sim = "encoding" => decode_dir(MEM, Root) = Described

\* The sectors whose low byte decodemem reads right.
SmallSectors == \A i \in 2 .. Len(image) : SectorOf(image)[i] % BYTE \in 1 .. BYTE \div 2 - 1

\* The paths that decodemem does not cut.
ShortPaths == \A i \in 2 .. Len(image) : Len(Paths[i]) < BYTE

\* A file that has the path of another replaces it, and a directory that does ends decodemem.
DifferentNames ==
  \A i, j \in 2 .. Len(image) : image[i].parent = image[j].parent /\ image[i].name = image[j].name => i = j

\* What decodemem writes is what encodemem was given, whatever the sizes of files and the
\* depth of directories ("if no path provided the whole root is decoded",
\* src/src/decodemem.c:120), where the paths can be said and the sectors read.
DecodesAll == SmallSectors /\ ShortPaths /\ DifferentNames => WholeRootDecoded

\* The bootloader, which has its own reader of files, gets from the sectors of any file
\* the bytes it was encoded from, also where they end with a sector.
BootloaderReads ==
  sim = "encoding" =>
    \A i \in 1 .. Len(image) :
      ~image[i].dir => ReadBytes(MEM, SectorOf(image)[i], Len(image[i].content)) = image[i].content

\* The names that were put into a directory.
NamesIn(i) ==
  LET names[j \in 1 .. Len(image)] ==
        IF j = 1 THEN << >>
        ELSE IF image[j].parent = i THEN Append(names[j - 1], image[j].name)
        ELSE names[j - 1]
  IN  names[Len(image)]

\* ls shows the names that were put into a directory, all and in order.
ListsDirectory ==
  sim = "encoding" =>
    \A i \in 1 .. Len(image) : image[i].dir => ls(MEM, SectorOf(image)[i]) = NamesIn(i)

\* Everything that reads directories and files by steps of its own finds in an image what
\* encodemem was given: decodemem, the bootloader and ls.
ReadersAgree == DecodesAll /\ BootloaderReads /\ ListsDirectory
=============================================================================
