----------------------------- MODULE SourceImage -----------------------------
(***************************************************************************)
(* What the tools promise: source files put one behind the other at their  *)
(* place in memory, every name standing for the address of its label. The  *)
(* tools come to the same bytes through objects, files, relocations and    *)
(* two loaders; this definition knows none of them.                        *)
(*                                                                         *)
(* A file sees its own labels, the names it declares EXTERN if another     *)
(* file of the same output defines them, and those of the library else.    *)
(***************************************************************************)
EXTENDS Integers, Sequences, FiniteSets

CONSTANT BYTE

LOCAL INSTANCE SequencesExt

HasArgument(bc) == bc.kind \in {"word", "label", "rel"}
Bytes(bc) == IF bc.kind \in {"label", "rel"} THEN bc.bytes \o <<0, 0>> ELSE bc.bytes

\* Bytes in front of a statement at an address: its argument lies at an even one.
Gap(bc, at) ==
  IF (HasArgument(bc) /\ at % 2 = 0) \/ (bc.kind = "align" /\ at % 2 = 1) THEN 1 ELSE 0

\* The address of every statement of a file, and the first one behind it.
Layout(source, base) ==
  FoldLeft(LAMBDA at, bc : Append(at, at[Len(at)] + Gap(bc, at[Len(at)]) + Len(Bytes(bc))), << base >>, source)

EndOf(source, base) == LET at == Layout(source, base) IN at[Len(at)] + (at[Len(at)] % 2)

\* The first address of every file.
Bases(sources, base) ==
  FoldLeft(LAMBDA at, source : Append(at, EndOf(source, at[Len(at)])), << base >>, sources)

Declares(source, kind, image) == \E i \in DOMAIN source : source[i].kind = kind /\ source[i].image = image

LabelsOf(source, base) ==
  {[image |-> source[i].image, pos |-> Layout(source, base)[i]] : i \in {j \in DOMAIN source : source[j].kind = "set"}}

GlobalsOf(sources, base) ==
  UNION {{l \in LabelsOf(sources[k], Bases(sources, base)[k]) : Declares(sources[k], "global", l.image)} :
           k \in DOMAIN sources}

\* What a name stands for in file k: a set, of one element in a program that makes sense.
Meaning(sources, base, library, k, image) ==
  LET own    == {l \in LabelsOf(sources[k], Bases(sources, base)[k]) : l.image = image}
      others == {l \in GlobalsOf(sources, base) : l.image = image}
  IN  {l.pos : l \in IF ~Declares(sources[k], "extern", image) THEN own
                     ELSE IF others # {} THEN others
                     ELSE {n \in library : n.image = image}}

Named(source) == {source[i].image : i \in {j \in DOMAIN source : source[j].kind \in {"label", "rel"}}}
Declared(source, kind) == {source[i].image : i \in {j \in DOMAIN source : source[j].kind = kind}}

\* Every name is declared once and stands for one label.
MakesSense(sources, library) ==
  /\ \A k \in DOMAIN sources :
       /\ \A i, j \in DOMAIN sources[k] :
            sources[k][i].kind = "set" /\ sources[k][j].kind = "set" /\ sources[k][i].image = sources[k][j].image => i = j
       /\ \A i \in DOMAIN sources[k] : sources[k][i].kind = "global" =>
            \E j \in DOMAIN sources[k] : j > i /\ sources[k][j].kind = "set" /\ sources[k][j].image = sources[k][i].image
       /\ Declared(sources[k], "extern") \cap
            {sources[k][i].image : i \in {j \in DOMAIN sources[k] : sources[k][j].kind \in {"set", "rel"}}} = {}
       /\ \A image \in Named(sources[k]) \cup Declared(sources[k], "extern") :
            Cardinality(Meaning(sources, 0, library, k, image)) = 1
  /\ \A k, l \in DOMAIN sources : k # l => Declared(sources[k], "global") \cap Declared(sources[l], "global") = {}

At(source, base, i) == Layout(source, base)[i] + Gap(source[i], Layout(source, base)[i])

\* The words that are addresses or distances of labels.
ReferencesOf(sources, base, library, k) ==
  LET source == sources[k]
      where(i) == At(source, Bases(sources, base)[k], i) + Len(source[i].bytes)
      meaning(i) == CHOOSE pos \in Meaning(sources, base, library, k, source[i].image) : TRUE
  IN  {[where |-> where(i), what |-> IF source[i].kind = "rel" THEN meaning(i) - where(i) ELSE meaning(i)] :
         i \in {j \in DOMAIN source : source[j].kind \in {"label", "rel"}}}

References(sources, base, library) == UNION {ReferencesOf(sources, base, library, k) : k \in DOMAIN sources}

\* The bytes the source gives itself.
GivenBytes(sources, base) ==
  UNION {UNION {{[where |-> At(sources[k], Bases(sources, base)[k], i) + n - 1, what |-> sources[k][i].bytes[n]] :
                   n \in DOMAIN sources[k][i].bytes} : i \in DOMAIN sources[k]} : k \in DOMAIN sources}

Word == BYTE * BYTE

\* Memory holds the sources at base, with their names resolved.
Holds(ram, sources, base, library) ==
  /\ \A given \in GivenBytes(sources, base) : ram[given.where] = given.what
  /\ \A r \in References(sources, base, library) : ram[r.where] + ram[r.where + 1] * BYTE = r.what % Word

=============================================================================
