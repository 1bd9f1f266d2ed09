------------------------------ MODULE MCFiles -------------------------------
(* Small storages, paths and texts for Files. *)
EXTENDS Files

a == 5
b == 6
d == 7

Directory(parent, name) == [parent |-> parent, name |-> name, dir |-> TRUE, content |-> << >>]
File(parent, name, size) ==
  [parent |-> parent, name |-> name, dir |-> FALSE, content |-> [n \in 1 .. size |-> 8 + (n % 2)]]
TheRoot == Directory(1, << >>)

\* /d/a of a size, and nothing or a directory at /b.
ImageWith(size) == << TheRoot, Directory(1, << d >>), File(2, << a >>, size) >>
WithoutB(size)  == Append(ImageWith(size), Directory(1, << b >>))

\* A program with one struct and files of a byte, of exactly a sector and over it; one that
\* creates a file beside a full one; one with two structs on the same file.
MCStarts ==
  {[image |-> WithoutB(size), handles |-> {1}] : size \in {1, Room, Room + 2}}
    \cup {[image |-> ImageWith(Room - 1), handles |-> {1}]}
    \cup {[image |-> WithoutB(Room - 3), handles |-> {1, 2}]}

\* The directory /d is empty.
EmptyDirectory == {[image |-> << TheRoot, Directory(1, << d >>) >>, handles |-> {1}]}

ASSUME \A start \in MCStarts \cup EmptyDirectory : Accepted(start.image)

pathA  == << Slash, d, Slash, a >>
pathB  == << b >>
pathDB == << d, Slash, b >>
pathD  == << d >>
below  == << Slash, d, Slash, a, Slash, b >>

MCPaths     == {pathA, pathB, pathD, below}
MCFilePaths == {pathA, pathB}
MCNewPaths  == {pathB, below}
PathOfDB    == {pathDB}

MCTextBytes == 8 .. 9

MCTextOf == [h \in Handles |-> [n \in 0 .. BYTE - 1 |-> 8 + (n % 2)]]
=============================================================================
