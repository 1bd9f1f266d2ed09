----------------------------- MODULE MCStorage ------------------------------
(* Names, contents and images for Storage. *)
EXTENDS Storage

a == 5
b == 6

\* One begins with the other.
MCEntryNames == {<< a >>, << b >>, << a, b >>}

\* Three names of one character below it are a path that just fits.
MCDestination == [n \in 1 .. 24 |-> a]

OfSize(size) == [n \in 1 .. size |-> 7 + (n % 2)]

\* Around the ends of the first and the second sector.
MCContents == {OfSize(size) : size \in {0, Room - 1, Room, 2 * Room}}

\* Names that begin with another one, before and after it; a file as long as its sector
\* between two directories; an empty directory; a file and a directory of one name.
MCBooted ==
  { << Directory(1, << >>), File(1, << a, b >>, OfSize(0)), Directory(1, << a >>), File(3, << b >>, OfSize(Room)), Directory(3, << a >>) >>,
    << Directory(1, << >>), Directory(1, << a >>), File(2, << b >>, OfSize(Room - 1)), Directory(1, << a, b >>), File(4, << b >>, OfSize(0)) >>,
    << Directory(1, << >>), File(1, << b >>, OfSize(0)), Directory(1, << b >>), Directory(3, << a >>), Directory(1, << a >>) >> }
=============================================================================
