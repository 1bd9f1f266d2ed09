----------------------------- MODULE FileStore ------------------------------
(***************************************************************************)
(* What open_file, open_create_file, read_u8, read_u16, write_u8 and       *)
(* write_u16 promise (src/asm/open_file.asm, read_file.asm,                *)
(* write_file.asm): files are sequences of bytes under paths, a FILE is a  *)
(* position in one.                                                        *)
(***************************************************************************)
EXTENDS Integers, Sequences

CONSTANTS
  Handles,    \* FILE structs
  FilePaths,  \* paths files may have
  OtherPaths, \* paths of directories, and below files
  Bytes,
  Room,       \* bytes in a sector of a file
  EOF

VARIABLES
  store,      \* content of the files that exist, by path
  FILE,       \* for every handle the path it was opened with and the position
  returned,   \* what the last call returned
  stopped     \* a byte was written that needs another sector

vars == <<store, FILE, returned, stopped>>

Said(word) == [said |-> word, bytes |-> << >>]
Got(bytes) == [said |-> "bytes", bytes |-> bytes]

Closed == [path |-> << >>, pos |-> 0]

\* A failed call leaves the struct as it was.
Open(h, path) ==
  /\ IF path \in DOMAIN store
     THEN FILE' = [FILE EXCEPT ![h] = [path |-> path, pos |-> 0]] /\ returned' = Said("file")
     ELSE UNCHANGED FILE /\ returned' \in {Said("not found"), Said("is not a file")}
  /\ UNCHANGED <<store, stopped>>

\* Only a path where no file can be is refused.
Create(h, path) ==
  /\ path \notin DOMAIN store
  /\ IF path \in FilePaths
     THEN /\ store' = [p \in DOMAIN store \cup {path} |-> IF p = path THEN << >> ELSE store[p]]
          /\ FILE' = [FILE EXCEPT ![h] = [path |-> path, pos |-> 0]] /\ returned' = Said("file")
     ELSE UNCHANGED <<store, FILE>> /\ returned' = Said("is not a file")
  /\ UNCHANGED stopped

Content(h) == store[FILE[h].path]

\* One byte, or the next two; the last of an odd number of bytes comes alone.
Read(h, n) ==
  LET left == Len(Content(h)) - FILE[h].pos
      got  == SubSeq(Content(h), FILE[h].pos + 1, FILE[h].pos + IF left < n THEN left ELSE n)
  IN  /\ FILE[h].path \in DOMAIN store
      /\ returned' = Got(IF got = << >> THEN << EOF >> ELSE got)
      /\ FILE' = [FILE EXCEPT ![h].pos = @ + Len(got)]
      /\ UNCHANGED <<store, stopped>>

Overwritten(content, pos, byte) ==
  [i \in 1 .. Len(content) + (IF pos = Len(content) THEN 1 ELSE 0) |-> IF i = pos + 1 THEN byte ELSE content[i]]

\* A byte replaces the one at the position or is added at the end. Writing never goes past
\* the last but one byte of a sector.
LastOfSector(pos) == pos % Room = Room - 1

Write(h, byte) ==
  /\ FILE[h].path \in DOMAIN store
  /\ IF LastOfSector(FILE[h].pos)
     THEN stopped' = TRUE /\ UNCHANGED <<store, FILE, returned>>
     ELSE /\ store' = [store EXCEPT ![FILE[h].path] = Overwritten(@, FILE[h].pos, byte)]
          /\ FILE' = [FILE EXCEPT ![h].pos = @ + 1]
          /\ returned' = Said("file")
          /\ UNCHANGED stopped

\* write_u16: both bytes or, at the end of a sector, the first of them or none.
WriteWord(h, low, high) ==
  LET pos == FILE[h].pos
      written == IF LastOfSector(pos) THEN 0 ELSE IF LastOfSector(pos + 1) THEN 1 ELSE 2
      first  == IF written = 0 THEN Content(h) ELSE Overwritten(Content(h), pos, low)
      second == IF written < 2 THEN first ELSE Overwritten(first, pos + 1, high)
  IN  /\ FILE[h].path \in DOMAIN store
      /\ store' = [store EXCEPT ![FILE[h].path] = second]
      /\ FILE' = [FILE EXCEPT ![h].pos = @ + written]
      /\ returned' = IF written = 2 THEN Said("file") ELSE returned
      /\ stopped' = (written < 2)

Next ==
  /\ ~stopped
  /\ \E h \in DOMAIN FILE :
       \/ \E path \in FilePaths \cup OtherPaths : Open(h, path) \/ Create(h, path)
       \/ \E n \in {1, 2} : Read(h, n)
       \/ \E low \in Bytes : Write(h, low) \/ \E high \in Bytes : WriteWord(h, low, high)

Init ==
  /\ DOMAIN store \subseteq FilePaths
  /\ \A path \in DOMAIN store : store[path] \in Seq(Bytes)
  /\ DOMAIN FILE \subseteq Handles /\ \A h \in DOMAIN FILE : FILE[h] = Closed
  /\ returned = Said("nothing") /\ stopped = FALSE

Spec == Init /\ [][Next]_vars
=============================================================================
