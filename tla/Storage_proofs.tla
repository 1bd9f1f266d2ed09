----------------------------- MODULE Storage_proofs -------------------------
(***************************************************************************)
(* What is put into an image is found in it, whatever it describes, and cd *)
(* stays in its directories.                                               *)
(***************************************************************************)
EXTENDS Storage, SequenceTheorems, WellFoundedInduction, TLAPS

-----------------------------------------------------------------------------
(* Recursive functions *)

LEMMA LeastElement ==
  ASSUME NEW T \in SUBSET Nat, T # {}
  PROVE  \E x \in T : \A y \in T : x <= y
<1>1. PICK x \in T : \A y \in T : <<y, x>> \notin OpToRel(<, Nat)
  BY WFMin, NatLessThanWellFounded
<1>2. ASSUME NEW y \in T PROVE x <= y
  <2>1. <<y, x>> \notin {pair \in Nat \X Nat : pair[1] < pair[2]}
    BY <1>1, Zenon DEF OpToRel
  <2> QED
    BY <2>1
<1> QED
  BY <1>2

\* Induction over a set of numbers.
LEMMA AllNumbers ==
  ASSUME NEW T \in SUBSET Nat, 0 \in T, \A n \in Nat : n \in T => n + 1 \in T
  PROVE  \A n \in Nat : n \in T
<1> DEFINE missing == Nat \ T
<1> SUFFICES ASSUME missing # {} PROVE FALSE
  OBVIOUS
<1>1. PICK n \in missing : \A m \in missing : n <= m
  BY LeastElement
<1>2. n \in Nat /\ n \notin T
  OBVIOUS
<1>3. n # 0
  BY <1>2
<1>4. n - 1 \in Nat /\ (n - 1) + 1 = n
  BY <1>2, <1>3
<1>5. n - 1 \in missing
  BY <1>2, <1>4
<1> QED
  BY <1>1, <1>2, <1>4, <1>5

\* Induction over a range, up and down.
LEMMA Upward ==
  ASSUME NEW L \in Nat, NEW T, 1 \in T, \A j \in 2 .. L : j - 1 \in T => j \in T
  PROVE  \A j \in 1 .. L : j \in T
<1> DEFINE U == {n \in Nat : n + 1 <= L => n + 1 \in T}
<1>1. 0 \in U
  OBVIOUS
<1>2. ASSUME NEW n \in Nat, n \in U PROVE n + 1 \in U
  <2>1. CASE (n + 1) + 1 <= L
    <3>1. PICK m \in 2 .. L : m = (n + 1) + 1
      BY <2>1
    <3>2. m - 1 = n + 1 /\ n + 1 <= L
      BY <3>1
    <3> QED
      BY <1>2, <3>1, <3>2
  <2> QED
    BY <2>1
<1>3. U \in SUBSET Nat
  OBVIOUS
<1>4. \A n \in Nat : n \in U
  <2> HIDE DEF U
  <2> QED
    BY <1>1, <1>2, <1>3, AllNumbers
<1>5. ASSUME NEW j \in 1 .. L PROVE j \in T
  <2>1. PICK n \in Nat : n + 1 = j /\ n + 1 <= L
    <3>1. j - 1 \in Nat /\ (j - 1) + 1 = j /\ (j - 1) + 1 <= L
      OBVIOUS
    <3> QED
      BY <3>1
  <2> QED
    BY <2>1, <1>4
<1> QED
  BY <1>5

LEMMA Downward ==
  ASSUME NEW L \in Nat, NEW T, L \in T, \A j \in 0 .. L - 1 : j + 1 \in T => j \in T
  PROVE  \A j \in 0 .. L : j \in T
<1> DEFINE U == {n \in Nat : n <= L => L - n \in T}
<1>1. 0 \in U
  OBVIOUS
<1>2. ASSUME NEW n \in Nat, n \in U PROVE n + 1 \in U
  <2>1. CASE n + 1 <= L
    <3>1. PICK m \in 0 .. L - 1 : m = L - (n + 1)
      BY <2>1
    <3>2. m + 1 = L - n /\ n <= L
      BY <3>1
    <3> QED
      BY <1>2, <3>1, <3>2
  <2> QED
    BY <2>1
<1>3. U \in SUBSET Nat
  OBVIOUS
<1>4. \A n \in Nat : n \in U
  <2> HIDE DEF U
  <2> QED
    BY <1>1, <1>2, <1>3, AllNumbers
<1>5. ASSUME NEW j \in 0 .. L PROVE j \in T
  <2>1. PICK n \in Nat : n <= L /\ L - n = j
    <3>1. L - j \in Nat /\ L - j <= L /\ L - (L - j) = j
      OBVIOUS
    <3> QED
      BY <3>1
  <2> QED
    BY <2>1, <1>4
<1> QED
  BY <1>5

\* A function given by its first value and by each value from the one before.
Steps(step, start, S) == start \in S /\ step \in [Nat \X S -> S]

Recursive(f, step, start, L) == f[0] = start /\ \A n \in 1 .. L : f[n] = step[<<n, f[n - 1]>>]

LEMMA Recursion ==
  ASSUME NEW S, NEW start, NEW step, Steps(step, start, S), NEW L \in Nat
  PROVE  \E f \in [0 .. L -> S] : Recursive(f, step, start, L)
<1> USE DEF Steps, Recursive
<1> DEFINE Upto(f, l) == f \in [0 .. l -> S] /\ f[0] = start /\ \A n \in 1 .. l : f[n] = step[<<n, f[n - 1]>>]
           T == {l \in Nat : \E f : Upto(f, l)}
<1>1. 0 \in T
  <2>1. Upto([n \in 0 .. 0 |-> start], 0)
    OBVIOUS
  <2> QED
    BY <2>1
<1>2. ASSUME NEW l \in Nat, l \in T PROVE l + 1 \in T
  <2>1. PICK f : Upto(f, l)
    BY <1>2
  <2> DEFINE g == [n \in 0 .. l + 1 |-> IF n <= l THEN f[n] ELSE step[<<n, f[l]>>]]
  <2>2. g \in [0 .. l + 1 -> S]
    BY <2>1
  <2>3. ASSUME NEW n \in 1 .. l + 1 PROVE g[n] = step[<<n, g[n - 1]>>]
    <3>1. n - 1 \in 0 .. l /\ g[n - 1] = f[n - 1]
      OBVIOUS
    <3>2. CASE n <= l
      BY <2>1, <3>1, <3>2
    <3>3. CASE n = l + 1
      BY <2>1, <3>1, <3>3
    <3> QED
      BY <3>2, <3>3
  <2>4. g[0] = start
    BY <2>1
  <2>5. Upto(g, l + 1)
    BY <2>2, <2>3, <2>4
  <2>6. \E h : Upto(h, l + 1)
    BY <2>5, Zenon
  <2> QED
    BY <2>6
<1>3. \A l \in Nat : l \in T
  <2> HIDE DEF T
  <2>1. T \in SUBSET Nat
    BY DEF T
  <2> QED
    BY <1>1, <1>2, <2>1, AllNumbers
<1>4. L \in T
  BY <1>3
<1> QED
  BY <1>4

\* A function of sets that collects what is there and at what comes next.
Collects(g, Dom, X, here, next) ==
  /\ g \in [Dom -> SUBSET X]
  /\ \A s \in Dom : g[s] = here[s] \cup UNION {g[t] : t \in next[s]}

LEMMA Collection ==
  ASSUME NEW Dom, NEW X, NEW here \in [Dom -> SUBSET X], NEW next \in [Dom -> SUBSET Dom]
  PROVE  \E g : Collects(g, Dom, X, here, next)
<1> DEFINE Collected(h, s) == here[s] \cup UNION {h[t] : t \in next[s]}
           C == {h \in [Dom -> SUBSET X] : \A s \in Dom : Collected(h, s) \subseteq h[s]}
           g == [s \in Dom |-> {x \in X : \A h \in C : x \in h[s]}]
<1>1. g \in [Dom -> SUBSET X]
  OBVIOUS
<1>2. \A h, s, x : x \in Collected(h, s) <=> x \in here[s] \/ \E t \in next[s] : x \in h[t]
  OBVIOUS
<1>3. \A h \in [Dom -> SUBSET X], s \in Dom : Collected(h, s) \subseteq X
  OBVIOUS
<1>4. \A s \in Dom : \A x : x \in g[s] <=> x \in X /\ \A h \in C : x \in h[s]
  OBVIOUS
<1>5. \A h : h \in C <=> h \in [Dom -> SUBSET X] /\ \A s \in Dom : Collected(h, s) \subseteq h[s]
  OBVIOUS
<1>6. \A s \in Dom : next[s] \subseteq Dom
  OBVIOUS
<1> HIDE DEF Collected, C, g
<1>7. ASSUME NEW s \in Dom PROVE Collected(g, s) \subseteq g[s]
  <2>1. ASSUME NEW x \in Collected(g, s), NEW h \in C PROVE x \in h[s]
    <3>1. x \in Collected(h, s)
      BY <2>1, <1>2, <1>4, <1>6
    <3> QED
      BY <3>1, <1>5
  <2> QED
    BY <2>1, <1>1, <1>3, <1>4
<1>8. ASSUME NEW s \in Dom PROVE g[s] \subseteq Collected(g, s)
  <2> DEFINE h == [t \in Dom |-> Collected(g, t)]
  <2>1. h \in [Dom -> SUBSET X] /\ \A t \in Dom : h[t] = Collected(g, t)
    BY <1>1, <1>3
  <2> HIDE DEF h
  <2>2. ASSUME NEW t \in Dom, NEW x \in Collected(h, t) PROVE x \in Collected(g, t)
    BY <2>1, <2>2, <1>2, <1>6, <1>7
  <2>3. h \in C
    BY <2>1, <2>2, <1>5
  <2> QED
    BY <2>1, <2>3, <1>4
<1>9. \A s \in Dom : g[s] = Collected(g, s)
  BY <1>7, <1>8
<1>10. Collects(g, Dom, X, here, next)
  BY <1>1, <1>9 DEF Collects, Collected
<1> QED
  BY <1>10, Zenon

\* A function given by its values where it stops and by what comes next elsewhere, however
\* long that goes on.
Loops(g, Dom, stop, out, next) == \A s \in Dom : g[s] = IF s \in stop THEN out[s] ELSE g[next[s]]

LEMMA Loop ==
  ASSUME NEW Dom, NEW stop, NEW out, NEW next, \A s \in Dom \ stop : next[s] \in Dom
  PROVE  \E g : g = [s \in Dom |-> g[s]] /\ Loops(g, Dom, stop, out, next)
<1> DEFINE X == {out[s] : s \in Dom}
           here == [s \in Dom |-> IF s \in stop THEN {out[s]} ELSE {}]
           after == [s \in Dom |-> IF s \in stop THEN {} ELSE {next[s]}]
<1>1. here \in [Dom -> SUBSET X] /\ after \in [Dom -> SUBSET Dom]
  OBVIOUS
<1>2. PICK c : Collects(c, Dom, X, here, after)
  <2> HIDE DEF here, after, X
  <2> QED
    BY <1>1, Collection
<1> DEFINE g == [s \in Dom |-> CHOOSE x : x \in c[s]]
<1>3. ASSUME NEW s \in Dom PROVE g[s] = IF s \in stop THEN out[s] ELSE g[next[s]]
  <2>1. c[s] = here[s] \cup UNION {c[t] : t \in after[s]}
    BY <1>2 DEF Collects
  <2>2. CASE s \in stop
    <3>1. c[s] = {out[s]}
      BY <2>1, <2>2
    <3> QED
      BY <2>2, <3>1
  <2>3. CASE s \notin stop
    <3>2. here[s] = {} /\ after[s] = {next[s]} /\ next[s] \in Dom
      BY <2>3
    <3>1. c[s] = c[next[s]] /\ next[s] \in Dom
      <4> HIDE DEF here, after
      <4> QED
        BY <2>1, <3>2
    <3> QED
      BY <2>3, <3>1
  <2> QED
    BY <2>2, <2>3
<1>4. g = [s \in Dom |-> g[s]]
  OBVIOUS
<1>5. Loops(g, Dom, stop, out, next)
  <2> HIDE DEF g
  <2> QED
    BY <1>3 DEF Loops
<1> QED
  BY <1>4, <1>5, Zenon

\* The same from 1 on.
RecursiveFrom1(f, step, start, L) == f[1] = start /\ \A n \in 2 .. L : f[n] = step[<<n, f[n - 1]>>]

LEMMA RecursionFrom1 ==
  ASSUME NEW S, NEW start, NEW step, Steps(step, start, S), NEW L \in Nat \ {0}
  PROVE  \E f \in [1 .. L -> S] : RecursiveFrom1(f, step, start, L)
<1> DEFINE shifted == [p \in Nat \X S |-> step[<<p[1] + 1, p[2]>>]]
<1>1. Steps(shifted, start, S)
  BY DEF Steps
<1>2. L - 1 \in Nat
  OBVIOUS
<1>3. \A n \in Nat, x \in S : shifted[<<n, x>>] = step[<<n + 1, x>>]
  OBVIOUS
<1> HIDE DEF shifted
<1>4. PICK g \in [0 .. L - 1 -> S] : Recursive(g, shifted, start, L - 1)
  BY <1>1, <1>2, Recursion
<1> DEFINE f == [n \in 1 .. L |-> g[n - 1]]
<1>5. f \in [1 .. L -> S]
  BY <1>4
<1>6. f[1] = start
  BY <1>4 DEF Recursive
<1>7. ASSUME NEW n \in 2 .. L PROVE f[n] = step[<<n, f[n - 1]>>]
  <2>1. /\ n - 1 \in 1 .. L - 1 /\ n - 1 \in Nat /\ (n - 1) + 1 = n /\ (n - 1) - 1 \in 0 .. L - 1
        /\ f[n] = g[n - 1] /\ f[n - 1] = g[(n - 1) - 1]
    OBVIOUS
  <2> DEFINE m == n - 1
  <2>2. m \in 1 .. L - 1 /\ m \in Nat /\ m + 1 = n /\ g[m - 1] \in S
    BY <2>1, <1>4
  <2> HIDE DEF m, f
  <2>3. g[m] = shifted[<<m, g[m - 1]>>]
    BY <2>2, <1>4 DEF Recursive
  <2>4. g[m] = step[<<n, g[m - 1]>>]
    BY <2>2, <2>3, <1>3
  <2> QED
    BY <2>1, <2>4 DEF m
<1> HIDE DEF f
<1>8. RecursiveFrom1(f, step, start, L)
  BY <1>6, <1>7 DEF RecursiveFrom1
<1> QED
  BY <1>5, <1>8, Zenon

-----------------------------------------------------------------------------
(* Images *)

Nodes == [parent : Nat, name : Seq(Bytes), dir : BOOLEAN, content : Seq(Bytes)]

\* What encodemem accepts: every entry is in a directory before it.
IsImage(im) ==
  /\ im \in Seq(Nodes) /\ Len(im) \in Nat \ {0}
  /\ im[1] = Directory(1, << >>)
  /\ \A i \in 2 .. Len(im) :
       /\ im[i].parent \in 1 .. i - 1 /\ im[im[i].parent].dir
       /\ im[i].name \in EntryNames
       /\ im[i].dir => im[i].content = << >>

LEMMA Quotient ==
  ASSUME NEW x \in Nat, NEW d \in Nat \ {0}
  PROVE  x \div d \in Nat /\ x % d \in 0 .. d - 1 /\ x = d * (x \div d) + (x % d)
  OBVIOUS

LEMMA Constants ==
  /\ BYTE \in Nat /\ BYTE > 16 /\ Room \in Nat \ {0} /\ Room = BYTE - 4
  /\ D \in CharBytes /\ F \in CharBytes /\ Dot \in CharBytes /\ Slash \in CharBytes
  /\ D # F /\ Dot # Slash
  /\ CharBytes \subseteq Bytes /\ Bytes \subseteq Nat
  BY SectorsAssumption DEF Room, DataStart, CharBytes, Bytes

LEMMA SizesOfNodes ==
  ASSUME NEW node \in Nodes
  PROVE  SectorsOf(node) \in Nat \ {0} /\ (node.dir => SectorsOf(node) = 1)
<1>1. Len(node.content) \in Nat
  BY DEF Nodes
<1>2. Len(node.content) \div Room \in Nat
  BY <1>1, Constants, Quotient
<1>3. SectorsFor(node.content) \in Nat \ {0}
  BY <1>2 DEF SectorsFor
<1> QED
  BY <1>3 DEF SectorsOf, Nodes

FirstSectors(first, im) ==
  /\ first \in [1 .. Len(im) -> Nat]
  /\ first[1] = 1
  /\ \A i \in 2 .. Len(im) : first[i] = first[i - 1] + SectorsOf(im[i - 1])

LEMMA SectorOfIs ==
  ASSUME NEW im \in Seq(Nodes), Len(im) \in Nat \ {0}
  PROVE  FirstSectors(SectorOf(im), im)
<1> DEFINE L == Len(im)
           values == Nat
           step == [p \in Nat \X values |-> IF p[1] \in 2 .. L THEN p[2] + SectorsOf(im[p[1] - 1]) ELSE 0]
           one == 1
           Equation(g) == g = [i \in 1 .. Len(im) |-> IF i = 1 THEN Root ELSE g[i - 1] + SectorsOf(im[i - 1])]
           first == CHOOSE g : Equation(g)
<1>1. \A i \in 1 .. L : SectorsOf(im[i]) \in Nat
  BY SizesOfNodes
<1>2. Steps(step, one, values)
  <2>1. ASSUME NEW p \in Nat \X values, p[1] \in 2 .. L PROVE p[2] + SectorsOf(im[p[1] - 1]) \in values
    BY <2>1, <1>1
  <2> QED
    BY <2>1 DEF Steps
<1>3. \A n \in 2 .. L, x \in values : step[<<n, x>>] = x + SectorsOf(im[n - 1])
  OBVIOUS
<1>4. L \in Nat \ {0}
  OBVIOUS
<1>5. PICK f \in [1 .. L -> values] : RecursiveFrom1(f, step, one, L)
  <2> HIDE DEF step, L, one, values
  <2> QED
    BY <1>2, <1>4, RecursionFrom1
<1>6. FirstSectors(f, im)
  <2>1. ASSUME NEW i \in 2 .. L PROVE f[i] = f[i - 1] + SectorsOf(im[i - 1])
    <3>1. f[i] = step[<<i, f[i - 1]>>]
      BY <1>5 DEF RecursiveFrom1
    <3>2. f[i - 1] \in values
      <4>1. i - 1 \in 1 .. L
        BY <1>4
      <4> HIDE DEF L, values
      <4> QED
        BY <4>1, <1>5
    <3> QED
      BY <3>1, <3>2, <1>3
  <2> QED
    BY <1>4, <1>5, <2>1 DEF RecursiveFrom1, FirstSectors
<1>7. Equation(f)
  BY <1>6 DEF FirstSectors, Root
<1>8. Equation(first)
  BY <1>7, Zenon
<1>9. SectorOf(im) = first
  BY DEF SectorOf
<1> HIDE DEF first, step
<1>10. first[1] = 1 /\ \A i \in 2 .. L : first[i] = first[i - 1] + SectorsOf(im[i - 1])
  BY <1>8 DEF Root
<1>11. \A i \in Nat : i \in {n \in Nat : n + 1 \in 1 .. L => first[n + 1] \in Nat}
  <2> DEFINE T == {n \in Nat : n + 1 \in 1 .. L => first[n + 1] \in Nat}
  <2>1. 0 \in T
    BY <1>10
  <2>2. ASSUME NEW n \in Nat, n \in T PROVE n + 1 \in T
    <3>1. CASE (n + 1) + 1 \in 1 .. L
      <4>1. first[n + 1] \in Nat /\ (n + 1) + 1 \in 2 .. L /\ ((n + 1) + 1) - 1 = n + 1
        BY <2>2, <3>1
      <4>2. first[(n + 1) + 1] = first[n + 1] + SectorsOf(im[n + 1])
        BY <4>1, <1>10
      <4>3. SectorsOf(im[n + 1]) \in Nat
        BY <1>1, <4>1
      <4> QED
        BY <4>1, <4>2, <4>3
    <3> QED
      BY <3>1
  <2>3. T \in SUBSET Nat
    OBVIOUS
  <2> HIDE DEF T
  <2> QED
    BY <2>1, <2>2, <2>3, AllNumbers DEF T
<1>12. ASSUME NEW i \in 1 .. L PROVE first[i] \in Nat
  <2>1. i - 1 \in Nat /\ (i - 1) + 1 = i
    OBVIOUS
  <2> QED
    BY <2>1, <1>11
<1>13. first \in [1 .. L -> Nat]
  BY <1>8, <1>12
<1> QED
  BY <1>9, <1>10, <1>13 DEF FirstSectors

\* Nodes are one behind the other.
LEMMA InOrder ==
  ASSUME NEW im \in Seq(Nodes), Len(im) \in Nat \ {0}
  PROVE  \A i, j \in 1 .. Len(im) : i < j => SectorOf(im)[i] + SectorsOf(im[i]) <= SectorOf(im)[j]
<1> DEFINE first == SectorOf(im)
           size == [i \in 1 .. Len(im) |-> SectorsOf(im[i])]
           L == Len(im)
<1>1. /\ first \in [1 .. L -> Nat] /\ L \in Nat
      /\ \A i \in 2 .. L : first[i] = first[i - 1] + size[i - 1]
  BY SectorOfIs DEF FirstSectors
<1>2. \A i \in 1 .. L : size[i] \in Nat
  BY SizesOfNodes
<1> HIDE DEF first, size, L
<1> SUFFICES ASSUME NEW i \in 1 .. L PROVE \A j \in 1 .. L : i < j => first[i] + size[i] <= first[j]
  BY DEF first, size, L
<1> DEFINE T == {n \in Nat : (i + 1) + n <= L => first[i] + size[i] <= first[(i + 1) + n]}
<1>3. 0 \in T
  BY <1>1, <1>2
<1>4. ASSUME NEW n \in Nat, n \in T PROVE n + 1 \in T
  <2>1. CASE (i + 1) + (n + 1) <= L
    <3>1. PICK m \in 1 .. L : m = (i + 1) + n
      BY <1>1, <2>1
    <3>2. m + 1 \in 2 .. L /\ (m + 1) - 1 = m /\ m + 1 = (i + 1) + (n + 1)
      BY <1>1, <2>1, <3>1
    <3>3. first[i] + size[i] <= first[m]
      BY <1>4, <3>1, <1>1
    <3>4. first[m + 1] = first[m] + size[m]
      BY <1>1, <3>2
    <3>6. /\ first[i] \in Nat /\ size[i] \in Nat /\ first[m] \in Nat /\ size[m] \in Nat
          /\ first[m + 1] \in Nat
      BY <1>1, <1>2, <3>2
    <3>5. first[i] + size[i] <= first[m + 1]
      BY <3>3, <3>4, <3>6
    <3> QED
      BY <3>2, <3>5
  <2> QED
    BY <2>1
<1>5. T \in SUBSET Nat
  OBVIOUS
<1>6. \A n \in Nat : n \in T
  <2> HIDE DEF T
  <2> QED
    BY <1>3, <1>4, <1>5, AllNumbers
<1>7. ASSUME NEW j \in 1 .. L, i < j PROVE first[i] + size[i] <= first[j]
  <2>1. PICK n \in Nat : n = j - i - 1
    BY <1>7, <1>1
  <2>2. j = (i + 1) + n /\ (i + 1) + n <= L
    BY <2>1, <1>1
  <2>3. (i + 1) + n <= L => first[i] + size[i] <= first[(i + 1) + n]
    BY <1>6
  <2> QED
    BY <2>2, <2>3
<1> QED
  BY <1>7

\* The sectors of a node.
Owned(im, i) == SectorOf(im)[i] .. SectorOf(im)[i] + SectorsOf(im[i]) - 1

LEMMA NodeInIs ==
  ASSUME NEW im \in Seq(Nodes), Len(im) \in Nat \ {0}, NEW sec \in Nat
  PROVE  /\ \A i \in 1 .. Len(im) : sec \in Owned(im, i) => NodeIn(im, sec) = i
         /\ NodeIn(im, sec) # 0 => NodeIn(im, sec) \in 1 .. Len(im) /\ sec \in Owned(im, NodeIn(im, sec))
<1> DEFINE first == SectorOf(im)
           L == Len(im)
           owners == {i \in 1 .. Len(im) : sec \in first[i] .. first[i] + SectorsOf(im[i]) - 1}
<1>1. first \in [1 .. L -> Nat] /\ L \in Nat
  BY SectorOfIs DEF FirstSectors
<1>2. \A i, j \in 1 .. L : i < j => first[i] + SectorsOf(im[i]) <= first[j]
  BY InOrder
<1>3. \A i \in 1 .. L : SectorsOf(im[i]) \in Nat
  BY SizesOfNodes
<1>4. NodeIn(im, sec) = IF owners = {} THEN 0 ELSE CHOOSE i \in owners : TRUE
  BY DEF NodeIn
<1>5. \A i \in 1 .. L : i \in owners <=> sec \in Owned(im, i)
  BY DEF Owned
<1>6. \A i \in owners : i \in 1 .. L /\ first[i] <= sec /\ sec < first[i] + SectorsOf(im[i])
  BY <1>1, <1>3
<1> HIDE DEF first, owners, L
<1>7. ASSUME NEW i \in owners, NEW j \in owners PROVE i = j
  <2>1. \A k, l \in owners : ~(k < l)
    <3> SUFFICES ASSUME NEW k \in owners, NEW l \in owners, k < l PROVE FALSE
      OBVIOUS
    <3>1. k \in 1 .. L /\ l \in 1 .. L /\ first[k] \in Nat /\ first[l] \in Nat /\ SectorsOf(im[k]) \in Nat
      BY <1>6, <1>1, <1>3
    <3>2. first[k] + SectorsOf(im[k]) <= first[l]
      BY <3>1, <1>2
    <3>3. sec < first[k] + SectorsOf(im[k]) /\ first[l] <= sec
      BY <1>6
    <3> QED
      BY <3>1, <3>2, <3>3
  <2> QED
    BY <2>1, <1>6, <1>1
<1>8. CASE owners = {}
  BY <1>8, <1>4, <1>5 DEF L
<1>9. CASE owners # {}
  <2>1. NodeIn(im, sec) \in owners
    BY <1>4, <1>9
  <2> QED
    BY <2>1, <1>5, <1>6, <1>7 DEF L
<1> QED
  BY <1>8, <1>9

\* A description that goes on leaves the sectors of its nodes where they are.
LEMMA SectorsStay ==
  ASSUME NEW im \in Seq(Nodes), Len(im) \in Nat \ {0}, NEW node \in Nodes
  PROVE  \A i \in 1 .. Len(im) : SectorOf(Append(im, node))[i] = SectorOf(im)[i]
<1> DEFINE longer == Append(im, node)
           first == SectorOf(im)
           second == SectorOf(longer)
           L == Len(im)
<1>1. longer \in Seq(Nodes) /\ Len(longer) = L + 1 /\ L \in Nat /\ \A i \in 1 .. L : longer[i] = im[i]
  BY AppendProperties
<1>2. first[1] = 1 /\ \A i \in 2 .. L : first[i] = first[i - 1] + SectorsOf(im[i - 1])
  BY SectorOfIs DEF FirstSectors
<1>3. second[1] = 1 /\ \A i \in 2 .. L : second[i] = second[i - 1] + SectorsOf(im[i - 1])
  <2> HIDE DEF longer
  <2>1. FirstSectors(second, longer)
    BY <1>1, SectorOfIs
  <2>2. \A i \in 2 .. L : i \in 2 .. L + 1 /\ i - 1 \in 1 .. L
    BY <1>1
  <2> QED
    BY <2>1, <2>2, <1>1 DEF FirstSectors
<1> HIDE DEF longer, first, second, L
<1> DEFINE T == {n \in Nat : n + 1 <= L => second[n + 1] = first[n + 1]}
<1>4. 0 \in T
  BY <1>2, <1>3
<1>5. ASSUME NEW n \in Nat, n \in T PROVE n + 1 \in T
  <2>1. CASE (n + 1) + 1 <= L
    <3>1. PICK m \in 2 .. L : m = (n + 1) + 1
      BY <2>1, <1>1
    <3>2. m - 1 = n + 1 /\ n + 1 <= L
      BY <3>1, <1>1
    <3>3. second[m - 1] = first[m - 1]
      BY <1>5, <3>2
    <3> QED
      BY <3>1, <3>3, <1>2, <1>3
  <2> QED
    BY <2>1
<1>6. T \in SUBSET Nat
  OBVIOUS
<1>7. \A n \in Nat : n \in T
  <2> HIDE DEF T
  <2> QED
    BY <1>4, <1>5, <1>6, AllNumbers
<1>8. ASSUME NEW i \in 1 .. L PROVE second[i] = first[i]
  <2>1. i - 1 \in Nat /\ (i - 1) + 1 = i /\ (i - 1) + 1 <= L
    BY <1>1
  <2> QED
    BY <2>1, <1>7
<1> QED
  BY <1>8 DEF first, second, longer, L

-----------------------------------------------------------------------------
(* Bytes *)

LEMMA WordBytes ==
  ASSUME NEW word \in 0 .. BYTE * BYTE - 1
  PROVE  /\ AsBytes(word) \in Seq(Bytes) /\ Len(AsBytes(word)) = 2
         /\ AsBytes(word)[1] + BYTE * AsBytes(word)[2] = word
<1>1. word \in Nat /\ BYTE \in Nat \ {0}
  BY Constants
<1>2. /\ word \div BYTE \in Nat /\ word % BYTE \in 0 .. BYTE - 1
      /\ word = BYTE * (word \div BYTE) + (word % BYTE)
  BY <1>1, Quotient
<1>3. word \div BYTE < BYTE
  <2>1. PICK q \in Nat : q = word \div BYTE
    BY <1>2
  <2>2. PICK r \in Nat : r = word % BYTE
    BY <1>2
  <2>3. word = BYTE * q + r
    BY <1>2, <2>1, <2>2
  <2>4. ~(q >= BYTE)
    <3> SUFFICES ASSUME q >= BYTE PROVE FALSE
      OBVIOUS
    <3>1. PICK e \in Nat : q = BYTE + e
      BY <1>1
    <3>2. BYTE * q = BYTE * BYTE + BYTE * e /\ BYTE * e \in Nat /\ BYTE * BYTE \in Nat
      BY <1>1, <3>1
    <3> QED
      BY <3>2, <2>3, <1>1
  <2> QED
    BY <2>1, <2>4, <1>1
<1>4. word % BYTE \in Bytes /\ word \div BYTE \in Bytes
  BY <1>1, <1>2, <1>3 DEF Bytes
<1> QED
  BY <1>2, <1>4, <1>1 DEF AsBytes

LEMMA Between ==
  ASSUME NEW r \in Nat \ {0}, NEW n \in Nat, NEW k \in Nat, k < n
  PROVE  k * r \in Nat /\ n * r \in Nat /\ (k + 1) * r = k * r + r /\ (k + 1) * r <= n * r
<1>1. PICK e \in Nat : n = (k + 1) + e
  OBVIOUS
<1>2. n * r = (k + 1) * r + e * r /\ e * r \in Nat /\ (k + 1) * r \in Nat /\ n * r \in Nat /\ k * r \in Nat
  BY <1>1
<1>3. (k + 1) * r = k * r + r
  OBVIOUS
<1> QED
  BY <1>2, <1>3

\* The sectors of a file but for the last are full, and the last one is not.
LEMMA Pieces ==
  ASSUME NEW content \in Seq(Bytes), NEW k \in Nat, k < SectorsFor(content)
  PROVE  /\ Piece(content, k) \in Seq(Bytes)
         /\ Len(Piece(content, k)) = IF k + 1 < SectorsFor(content) THEN Room ELSE Len(content) - k * Room
         /\ Len(Piece(content, k)) \in 0 .. Room
         /\ k * Room \in Nat /\ k * Room + Len(Piece(content, k)) <= Len(content)
         /\ (k + 1) * Room = k * Room + Room
         /\ k + 1 < SectorsFor(content) => k * Room + Room <= Len(content)
         /\ ~(k + 1 < SectorsFor(content)) => Len(content) < k * Room + Room
         /\ \A i \in 1 .. Len(Piece(content, k)) : Piece(content, k)[i] = content[k * Room + i]
<1>1. PICK len \in Nat : len = Len(content)
  BY LenProperties
<1>2. PICK n \in Nat : n = len \div Room
  BY Constants, Quotient
<1>3. Room \in Nat \ {0} /\ SectorsFor(content) = n + 1
  BY <1>1, <1>2, Constants DEF SectorsFor
<1>4. PICK rest \in 0 .. Room - 1 : len = Room * n + rest
  BY <1>2, <1>3, Quotient
<1>5. n * Room \in Nat /\ n * Room = Room * n /\ (n + 1) * Room = n * Room + Room
  BY <1>3
<1>6. PICK from \in Nat : from = k * Room
  BY <1>3
<1>7. (k + 1) * Room = from + Room
  BY <1>3, <1>6
<1>8. /\ k < n => from + Room <= n * Room
      /\ k = n => from = n * Room
      /\ k < n \/ k = n
  BY <1>3, <1>5, <1>6, <1>7, Between
<1>9. /\ k < n => from + Room <= len
      /\ k = n => from <= len /\ len < from + Room
  BY <1>4, <1>5, <1>8, <1>3
<1> DEFINE to == IF len < from + Room THEN len ELSE from + Room
<1>10. to \in Nat /\ to <= len /\ from <= to /\ to - from <= Room
       /\ to - from = IF k < n THEN Room ELSE len - from
  BY <1>3, <1>8, <1>9
<1>11. Piece(content, k) = SubSeq(content, from + 1, to)
  BY <1>1, <1>6, <1>7 DEF Piece
<1> HIDE DEF to
<1>12. \A i \in from + 1 .. to : content[i] \in Bytes
  BY <1>1, <1>10, LenProperties
<1>13. /\ SubSeq(content, from + 1, to) \in Seq(Bytes)
       /\ Len(SubSeq(content, from + 1, to)) = to - from
       /\ \A i \in 1 .. to - from : SubSeq(content, from + 1, to)[i] = content[from + i]
  <2>1. from + 1 \in Int /\ to \in Int
    BY <1>10
  <2>2. /\ SubSeq(content, from + 1, to) \in Seq(Bytes)
        /\ Len(SubSeq(content, from + 1, to)) = IF from + 1 <= to THEN to - (from + 1) + 1 ELSE 0
        /\ \A i \in 1 .. to - (from + 1) + 1 : SubSeq(content, from + 1, to)[i] = content[(from + 1) + i - 1]
    <3> DEFINE one == from + 1
    <3> HIDE DEF one
    <3>1. one \in Int /\ \A i \in one .. to : content[i] \in Bytes
      BY <2>1, <1>12 DEF one
    <3>2. /\ SubSeq(content, one, to) \in Seq(Bytes)
          /\ Len(SubSeq(content, one, to)) = IF one <= to THEN to - one + 1 ELSE 0
          /\ \A i \in 1 .. to - one + 1 : SubSeq(content, one, to)[i] = content[one + i - 1]
      BY <2>1, <3>1, SubSeqProperties
    <3> QED
      BY <3>2 DEF one
  <2>3. to - (from + 1) + 1 = to - from /\ (IF from + 1 <= to THEN to - (from + 1) + 1 ELSE 0) = to - from
    BY <1>10
  <2>4. \A i \in 1 .. to - from : (from + 1) + i - 1 = from + i
    BY <1>10
  <2> QED
    BY <2>2, <2>3, <2>4
<1>14. k + 1 < SectorsFor(content) <=> k < n
  BY <1>3
<1>15. to - from \in 0 .. Room /\ from + (to - from) <= len
  BY <1>10, <1>3
<1> DEFINE piece == Piece(content, k)
<1>16. piece \in Seq(Bytes) /\ Len(piece) = to - from /\ \A i \in 1 .. to - from : piece[i] = content[from + i]
  BY <1>11, <1>13
<1>17. Len(piece) = IF k + 1 < SectorsFor(content) THEN Room ELSE len - from
  BY <1>10, <1>14, <1>16
<1>18. ~(k < n) => k = n
  BY <1>8
<1> HIDE DEF piece
<1> QED
  BY <1>16, <1>17, <1>1, <1>6, <1>7, <1>15, <1>14, <1>9, <1>18 DEF piece

\* joined is s followed by t.
Joins(joined, s, t) ==
  /\ Len(joined) = Len(s) + Len(t)
  /\ \A i \in 1 .. Len(s) : joined[i] = s[i]
  /\ \A i \in 1 .. Len(t) : joined[Len(s) + i] = t[i]

LEMMA Joined ==
  ASSUME NEW S, NEW s \in Seq(S), NEW t \in Seq(S)
  PROVE  s \o t \in Seq(S) /\ Joins(s \o t, s, t)
<1>1. Len(s) \in Nat /\ Len(t) \in Nat
  BY LenProperties
<1>2. /\ s \o t \in Seq(S) /\ Len(s \o t) = Len(s) + Len(t)
      /\ \A i \in 1 .. Len(s) + Len(t) : (s \o t)[i] = IF i <= Len(s) THEN s[i] ELSE t[i - Len(s)]
  BY ConcatProperties
<1>3. ASSUME NEW i \in 1 .. Len(s) PROVE (s \o t)[i] = s[i]
  BY <1>1, <1>2
<1>4. ASSUME NEW i \in 1 .. Len(t) PROVE (s \o t)[Len(s) + i] = t[i]
  <2>1. PICK j \in 1 .. Len(s) + Len(t) : j = Len(s) + i
    BY <1>1
  <2>2. ~(j <= Len(s)) /\ j - Len(s) = i
    BY <2>1, <1>1
  <2> QED
    BY <2>1, <2>2, <1>2
<1> QED
  BY <1>2, <1>3, <1>4 DEF Joins

LEMMA One ==
  ASSUME NEW S, NEW x \in S
  PROVE  << x >> \in Seq(S) /\ Len(<< x >>) = 1 /\ << x >>[1] = x
  OBVIOUS

LEMMA NoSectorIsWord == NoSector \in 0 .. BYTE * BYTE - 1 /\ \A sec \in Sectors : sec \in 0 .. BYTE * BYTE - 1 /\ sec < NoSector
<1>1. BYTE * BYTE \in Nat /\ BYTE * BYTE > 0
  BY Constants
<1> QED
  BY <1>1, SectorsAssumption DEF NoSector, Sectors

\* What is in a sector of a file.
FileSector(bytes, piece, next) ==
  /\ bytes \in Seq(Bytes) /\ Len(bytes) = 4 + Len(piece)
  /\ bytes[1] = F /\ bytes[2] + BYTE * bytes[3] = next /\ bytes[4] = Len(piece) + 3
  /\ \A i \in 1 .. Len(piece) : bytes[4 + i] = piece[i]

LEMMA FileBytes ==
  ASSUME NEW content \in Seq(Bytes), NEW k \in Nat, k < SectorsFor(content),
         NEW sec, NEW next, next = IF k + 1 < SectorsFor(content) THEN sec + 1 ELSE NoSector,
         next \in 0 .. BYTE * BYTE - 1
  PROVE  FileSector(encode_file(content, sec, k), Piece(content, k), next)
<1> DEFINE piece == Piece(content, k)
           word == AsBytes(next)
           last == << IF k + 1 < SectorsFor(content) THEN BYTE - 1 ELSE Len(piece) + 3 >>
<1>1. piece \in Seq(Bytes) /\ Len(piece) \in 0 .. Room
  BY Pieces
<1>2. last = << Len(piece) + 3 >>
  <2>1. k + 1 < SectorsFor(content) => Len(piece) = Room
    BY Pieces, Zenon
  <2>2. Room + 3 = BYTE - 1
    BY Constants
  <2> HIDE DEF piece
  <2> QED
    BY <2>1, <2>2
<1>3. Len(piece) + 3 \in Bytes /\ F \in Bytes
  BY <1>1, Constants DEF Bytes, CharBytes
<1>4. last \in Seq(Bytes) /\ Len(last) = 1 /\ last[1] = Len(piece) + 3
  BY <1>2, <1>3, One
<1>5. << F >> \in Seq(Bytes) /\ Len(<< F >>) = 1 /\ << F >>[1] = F
  BY <1>3, One
<1>6. word \in Seq(Bytes) /\ Len(word) = 2 /\ word[1] + BYTE * word[2] = next
  BY WordBytes
<1>7. encode_file(content, sec, k) = << F >> \o word \o last \o piece
  BY DEF encode_file
<1> DEFINE mark == << F >>
           a == mark \o word
           b == a \o last
           c == b \o piece
<1> HIDE DEF piece, word, last, mark
<1>8. a \in Seq(Bytes) /\ Len(a) = 3 /\ a[1] = F /\ a[2] = word[1] /\ a[3] = word[2]
  <2>0. a \in Seq(Bytes) /\ Joins(a, mark, word)
    BY <1>5, <1>6, Joined, Zenon DEF mark
  <2>1. /\ a \in Seq(Bytes) /\ Len(a) = Len(mark) + Len(word)
        /\ \A i \in 1 .. Len(mark) : a[i] = mark[i]
        /\ \A i \in 1 .. Len(word) : a[Len(mark) + i] = word[i]
    BY <2>0 DEF Joins
  <2>2. Len(mark) = 1 /\ mark[1] = F
    BY <1>5 DEF mark
  <2> HIDE DEF a
  <2>3. a[1] = mark[1] /\ a[1 + 1] = word[1] /\ a[1 + 2] = word[2]
    BY <2>1, <2>2, <1>6
  <2> QED
    BY <2>1, <2>2, <2>3, <1>6
<1> HIDE DEF a
<1>9. b \in Seq(Bytes) /\ Len(b) = 4 /\ b[1] = a[1] /\ b[2] = a[2] /\ b[3] = a[3] /\ b[4] = last[1]
  <2>0. b \in Seq(Bytes) /\ Joins(b, a, last)
    BY <1>4, <1>8, Joined, Zenon
  <2>1. /\ b \in Seq(Bytes) /\ Len(b) = Len(a) + Len(last)
        /\ \A i \in 1 .. Len(a) : b[i] = a[i]
        /\ \A i \in 1 .. Len(last) : b[Len(a) + i] = last[i]
    BY <2>0 DEF Joins
  <2> HIDE DEF b
  <2>2. b[3 + 1] = last[1]
    BY <2>1, <1>4, <1>8
  <2> QED
    BY <2>1, <2>2, <1>4, <1>8
<1> HIDE DEF b
<1>10. /\ c \in Seq(Bytes) /\ Len(c) = 4 + Len(piece)
       /\ c[1] = b[1] /\ c[2] = b[2] /\ c[3] = b[3] /\ c[4] = b[4]
       /\ \A i \in 1 .. Len(piece) : c[4 + i] = piece[i]
  <2>0. c \in Seq(Bytes) /\ Joins(c, b, piece)
    BY <1>1, <1>9, Joined, Zenon
  <2>1. /\ c \in Seq(Bytes) /\ Len(c) = Len(b) + Len(piece)
        /\ \A i \in 1 .. Len(b) : c[i] = b[i]
        /\ \A i \in 1 .. Len(piece) : c[Len(b) + i] = piece[i]
    BY <2>0 DEF Joins
  <2> HIDE DEF c
  <2> QED
    BY <2>1, <1>9
<1>11. encode_file(content, sec, k) = c
  BY <1>7 DEF a, b, c, mark
<1> HIDE DEF c
<1>12. c[2] + BYTE * c[3] = next
  BY <1>6, <1>8, <1>9, <1>10
<1> QED
  BY <1>4, <1>8, <1>9, <1>10, <1>11, <1>12 DEF FileSector, piece

-----------------------------------------------------------------------------
(* Sectors of an image *)

LEMMA ByteOf ==
  ASSUME NEW M, NEW sec, NEW ndx \in 0 .. BYTE - 1
  PROVE  ByteAt(M, sec, ndx) = M[sec][ndx + 1]
<1>1. ndx % BYTE = ndx
  BY Constants
<1> QED
  BY <1>1 DEF ByteAt

LEMMA EncodedFile ==
  ASSUME NEW im, IsImage(im), NEW i \in 1 .. Len(im), ~im[i].dir,
         NEW k \in Nat, k < SectorsFor(im[i].content), SectorOf(im)[i] + k \in Sectors
  PROVE  Encode(im)[SectorOf(im)[i] + k] = Padded(encode_file(im[i].content, SectorOf(im)[i] + k, k))
<1>1. im \in Seq(Nodes) /\ Len(im) \in Nat \ {0}
  BY DEF IsImage
<1>2. im[i] \in Nodes /\ SectorsOf(im[i]) = SectorsFor(im[i].content) /\ SectorsOf(im[i]) \in Nat
  BY <1>1, SizesOfNodes DEF SectorsOf
<1>3. PICK from \in Nat : from = SectorOf(im)[i] /\ from # 0
  <2>1. SectorOf(im)[i] \in Nat
    BY <1>1, SectorOfIs DEF FirstSectors
  <2>2. SectorOf(im)[i] # 0
    <3>1. SectorOf(im)[1] = 1 /\ SectorsOf(im[1]) \in Nat
      BY <1>1, SectorOfIs, SizesOfNodes DEF FirstSectors
    <3>2. i = 1 \/ SectorOf(im)[1] + SectorsOf(im[1]) <= SectorOf(im)[i]
      BY <1>1, InOrder
    <3> QED
      BY <3>1, <3>2, <2>1
  <2> QED
    BY <2>1, <2>2
<1>4. PICK sec \in Nat : sec = from + k /\ sec # 0 /\ sec \in Sectors
  BY <1>3
<1>5. sec \in Owned(im, i)
  BY <1>2, <1>3, <1>4 DEF Owned
<1>6. NodeIn(im, sec) = i
  BY <1>1, <1>5, NodeInIs
<1>7. Encode(im)[sec] = Padded(encode_file(im[i].content, sec, sec - SectorOf(im)[i]))
  BY <1>4, <1>6, <1>1 DEF Encode
<1>8. sec - SectorOf(im)[i] = k
  BY <1>3, <1>4
<1> QED
  BY <1>3, <1>4, <1>7, <1>8

LEMMA EncodedDirectory ==
  ASSUME NEW im, IsImage(im), NEW i \in 1 .. Len(im), im[i].dir, SectorOf(im)[i] \in Sectors
  PROVE  SectorOf(im)[i] # 0 /\ Encode(im)[SectorOf(im)[i]] = Padded(encode_dir(im, i))
<1>1. im \in Seq(Nodes) /\ Len(im) \in Nat \ {0}
  BY DEF IsImage
<1>2. im[i] \in Nodes /\ SectorsOf(im[i]) = 1
  BY <1>1, SizesOfNodes
<1>3. SectorOf(im)[i] \in Nat /\ SectorOf(im)[1] = 1 /\ SectorsOf(im[1]) \in Nat
  BY <1>1, SectorOfIs, SizesOfNodes, SMTT(30) DEF FirstSectors
<1>4. i = 1 \/ SectorOf(im)[1] + SectorsOf(im[1]) <= SectorOf(im)[i]
  BY <1>1, InOrder
<1>5. SectorOf(im)[i] # 0
  BY <1>3, <1>4
<1>6. SectorOf(im)[i] \in Owned(im, i)
  BY <1>2, <1>3 DEF Owned
<1>7. NodeIn(im, SectorOf(im)[i]) = i
  BY <1>1, <1>3, <1>6, NodeInIs
<1> QED
  BY <1>1, <1>5, <1>7 DEF Encode

LEMMA FileStartsWithF ==
  ASSUME NEW content \in Seq(Bytes), NEW k \in Nat, k < SectorsFor(content), NEW sec \in Sectors
  PROVE  Padded(encode_file(content, sec, k))[1] = F
<1> DEFINE next == IF k + 1 < SectorsFor(content) THEN sec + 1 ELSE NoSector
<1>1. next \in 0 .. BYTE * BYTE - 1
  <2>1. sec \in Nat /\ sec < NoSector
    BY NoSectorIsWord DEF Sectors
  <2>2. NoSector = BYTE * BYTE - 1 /\ BYTE * BYTE \in Nat
    BY Constants DEF NoSector
  <2> QED
    BY <2>1, <2>2
<1>2. FileSector(encode_file(content, sec, k), Piece(content, k), next)
  <2> HIDE DEF next
  <2>1. next = IF k + 1 < SectorsFor(content) THEN sec + 1 ELSE NoSector
    BY DEF next
  <2> QED
    BY <1>1, <2>1, FileBytes
<1>3. Len(Piece(content, k)) \in Nat
  BY Pieces
<1>4. 1 <= Len(encode_file(content, sec, k)) /\ 1 \in 1 .. BYTE /\ encode_file(content, sec, k)[1] = F
  BY <1>2, <1>3, Constants DEF FileSector
<1> QED
  BY <1>4 DEF Padded

\* Only the sectors of directories begin with D.
LEMMA DirectoryFound ==
  ASSUME NEW im, IsImage(im), NEW sec \in Sectors, sec # 0, ByteAt(Encode(im), sec, 0) = D
  PROVE  \E i \in 1 .. Len(im) : im[i].dir /\ SectorOf(im)[i] = sec
<1>1. im \in Seq(Nodes) /\ Len(im) \in Nat \ {0} /\ sec \in Nat
  BY DEF IsImage, Sectors
<1>2. Encode(im)[sec][1] = D
  BY ByteOf, Constants
<1>3. D # 0 /\ 1 \in 1 .. BYTE
  BY Constants DEF CharBytes
<1> DEFINE i == NodeIn(im, sec)
<1>4. i # 0
  <2> SUFFICES ASSUME i = 0 PROVE FALSE
    OBVIOUS
  <2>1. Encode(im)[sec] = Padded(<< >>)
    BY DEF Encode
  <2>2. Padded(<< >>)[1] = 0
    BY <1>3 DEF Padded
  <2> QED
    BY <2>1, <2>2, <1>2, <1>3
<1>5. i \in 1 .. Len(im) /\ sec \in Owned(im, i)
  BY <1>1, <1>4, NodeInIs
<1>6. im[i] \in Nodes /\ SectorOf(im)[i] \in Nat
  BY <1>1, <1>5, SectorOfIs DEF FirstSectors
<1> HIDE DEF i
<1>7. CASE im[i].dir
  <2>1. SectorsOf(im[i]) = 1
    BY <1>6, <1>7, SizesOfNodes
  <2>2. SectorOf(im)[i] = sec
    BY <2>1, <1>5, <1>6, <1>1 DEF Owned
  <2> QED
    BY <2>2, <1>5, <1>7
<1>8. CASE ~im[i].dir
  <2>1. SectorsOf(im[i]) = SectorsFor(im[i].content) /\ SectorsOf(im[i]) \in Nat
    BY <1>6, <1>8, SizesOfNodes DEF SectorsOf
  <2>2. PICK k \in Nat : k = sec - SectorOf(im)[i]
    BY <1>5, <1>6, <1>1, <2>1 DEF Owned
  <2>3. k < SectorsFor(im[i].content)
    BY <2>1, <2>2, <1>5, <1>6, <1>1 DEF Owned
  <2>4. im[i].content \in Seq(Bytes)
    BY <1>6 DEF Nodes
  <2>5. Padded(encode_file(im[i].content, sec, k))[1] = F
    BY <2>3, <2>4, FileStartsWithF
  <2>6. Encode(im)[sec] = Padded(encode_file(im[i].content, sec, k))
    BY <1>4, <1>8, <2>2 DEF Encode, i
  <2> QED
    BY <2>5, <2>6, <1>2, Constants
<1> QED
  BY <1>7, <1>8

-----------------------------------------------------------------------------
(* The sectors of directories *)

LEMMA LargerSeq ==
  ASSUME NEW S, NEW T, S \subseteq T, NEW s \in Seq(S)
  PROVE  s \in Seq(T)
<1>1. Len(s) \in Nat /\ s \in [1 .. Len(s) -> S]
  BY LenProperties
<1>2. s \in [1 .. Len(s) -> T]
  BY <1>1
<1> QED
  BY <1>1, <1>2, SeqDef

LEMMA Names ==
  ASSUME NEW name \in EntryNames
  PROVE  /\ name \in Seq(Bytes) /\ Len(name) \in Nat \ {0}
         /\ name \notin {<< Dot >>, << Dot, Dot >>}
         /\ \A n \in 1 .. Len(name) : name[n] \in CharBytes /\ name[n] # Slash
<1> DEFINE chars == CharBytes \ {Slash}
<1>1. name \in Seq(chars) /\ chars \subseteq Bytes /\ name # << >> /\ name \notin {<< Dot >>, << Dot, Dot >>}
  BY EntryNamesAssumption, Constants
<1> HIDE DEF chars
<1>2. name \in Seq(Bytes)
  BY <1>1, LargerSeq
<1>3. Len(name) \in Nat \ {0}
  BY <1>1, EmptySeq, LenProperties
<1>4. \A n \in 1 .. Len(name) : name[n] \in chars
  BY <1>1, ElementOfSeq
<1> QED
  BY <1>1, <1>2, <1>3, <1>4 DEF chars

\* The sectors of an image that encodemem accepts exist.
LEMMA SectorsExist ==
  ASSUME NEW im, IsImage(im), Accepted(im), NEW i \in 1 .. Len(im)
  PROVE  /\ SectorOf(im)[i] \in Nat \ {0} /\ SectorsOf(im[i]) \in Nat \ {0}
         /\ SectorOf(im)[i] + SectorsOf(im[i]) <= SECTOR_COUNT
         /\ SectorOf(im)[i] \in Sectors /\ SectorOf(im)[i] \in 0 .. BYTE * BYTE - 1
<1> DEFINE L == Len(im)
<1>1. im \in Seq(Nodes) /\ L \in Nat \ {0}
  BY DEF IsImage
<1>2. /\ SectorOf(im) \in [1 .. L -> Nat] /\ SectorOf(im)[1] = 1
      /\ \A j \in 1 .. L : SectorsOf(im[j]) \in Nat \ {0}
  BY <1>1, SectorOfIs, SizesOfNodes DEF FirstSectors
<1>3. \A j, k \in 1 .. L : j < k => SectorOf(im)[j] + SectorsOf(im[j]) <= SectorOf(im)[k]
  BY <1>1, InOrder
<1>4. SectorOf(im)[L] + SectorsOf(im[L]) <= SECTOR_COUNT
  BY DEF Accepted
<1>5. i = L \/ SectorOf(im)[i] + SectorsOf(im[i]) <= SectorOf(im)[L]
  BY <1>1, <1>3
<1>6. i = 1 \/ SectorOf(im)[1] + SectorsOf(im[1]) <= SectorOf(im)[i]
  BY <1>1, <1>3
<1>7. /\ SectorOf(im)[i] \in Nat /\ SectorsOf(im[i]) \in Nat \ {0}
      /\ SectorOf(im)[L] \in Nat /\ SectorsOf(im[L]) \in Nat \ {0}
      /\ SectorsOf(im[1]) \in Nat \ {0}
  BY <1>1, <1>2
<1>8. SectorOf(im)[i] # 0
  BY <1>2, <1>6, <1>7
<1>9. SectorOf(im)[i] + SectorsOf(im[i]) <= SECTOR_COUNT
  <2>1. CASE i = L
    BY <2>1, <1>4, Zenon
  <2>2. CASE i # L
    <3> DEFINE behind == SectorOf(im)[i] + SectorsOf(im[i])
               last == SectorOf(im)[L]
               size == SectorsOf(im[L])
    <3>1. behind <= last /\ last + size <= SECTOR_COUNT
      BY <2>2, <1>4, <1>5, Zenon
    <3>2. behind \in Nat /\ last \in Nat /\ size \in Nat
      BY <1>7
    <3> HIDE DEF behind, last, size
    <3>3. behind <= SECTOR_COUNT
      BY <3>1, <3>2, SectorsAssumption
    <3> QED
      BY <3>3 DEF behind
  <2> QED
    BY <2>1, <2>2, Zenon
<1>10. SectorOf(im)[i] \in Sectors
  BY <1>7, <1>9, SectorsAssumption, SMTT(30) DEF Sectors
<1> QED
  BY <1>7, <1>8, <1>9, <1>10, NoSectorIsWord

LEMMA AppendedEntry ==
  ASSUME NEW name \in Seq(Bytes), NEW sec \in 0 .. BYTE * BYTE - 1
  PROVE  /\ EntryBytes(name, sec) \in Seq(Bytes) /\ Len(EntryBytes(name, sec)) = Len(name) + 3
         /\ \A n \in 1 .. Len(name) : EntryBytes(name, sec)[n] = name[n]
         /\ EntryBytes(name, sec)[Len(name) + 1] = 0
         /\ EntryBytes(name, sec)[Len(name) + 2] + BYTE * EntryBytes(name, sec)[Len(name) + 3] = sec
<1> DEFINE zero == << 0 >>
           word == AsBytes(sec)
           a == name \o zero
           b == a \o word
<1>1. word \in Seq(Bytes) /\ Len(word) = 2 /\ word[1] + BYTE * word[2] = sec
  BY WordBytes
<1>2. zero \in Seq(Bytes) /\ Len(zero) = 1 /\ zero[1] = 0
  <2>1. 0 \in Bytes
    BY Constants DEF Bytes
  <2> QED
    BY <2>1, One
<1>3. Len(name) \in Nat
  BY LenProperties
<1>4. EntryBytes(name, sec) = b
  BY DEF EntryBytes
<1> HIDE DEF zero, word
<1>5. a \in Seq(Bytes) /\ Joins(a, name, zero)
  BY <1>2, Joined, Zenon
<1> HIDE DEF a
<1>6. b \in Seq(Bytes) /\ Joins(b, a, word)
  BY <1>1, <1>5, Joined, Zenon
<1> HIDE DEF b
<1>7. Len(a) = Len(name) + 1 /\ (\A n \in 1 .. Len(name) : a[n] = name[n]) /\ a[Len(name) + 1] = 0
  BY <1>2, <1>5 DEF Joins
<1>8. /\ Len(b) = Len(name) + 3 /\ \A n \in 1 .. Len(name) + 1 : b[n] = a[n]
      /\ b[(Len(name) + 1) + 1] = word[1] /\ b[(Len(name) + 1) + 2] = word[2]
  BY <1>1, <1>3, <1>6, <1>7 DEF Joins
<1>9. (Len(name) + 1) + 1 = Len(name) + 2 /\ (Len(name) + 1) + 2 = Len(name) + 3
  BY <1>3
<1>10. b[Len(name) + 1] = 0 /\ \A n \in 1 .. Len(name) : b[n] = name[n]
  BY <1>3, <1>7, <1>8
<1>11. b[Len(name) + 2] + BYTE * b[Len(name) + 3] = sec
  BY <1>1, <1>8, <1>9
<1> QED
  BY <1>4, <1>6, <1>8, <1>10, <1>11

\* In the bytes of a sector an entry follows the first at bytes.
EntryIn(bytes, at, name, sec) ==
  /\ at \in Nat /\ at + Len(name) + 3 <= Len(bytes)
  /\ \A n \in 1 .. Len(name) : bytes[at + n] = name[n]
  /\ bytes[at + Len(name) + 1] = 0
  /\ bytes[at + Len(name) + 2] + BYTE * bytes[at + Len(name) + 3] = sec

\* joined is bytes with an entry at the end.
EndsWithEntry(joined, bytes, name, sec) ==
  /\ joined \in Seq(Bytes) /\ Len(joined) = Len(bytes) + Len(name) + 3
  /\ \A n \in 1 .. Len(bytes) : joined[n] = bytes[n]
  /\ EntryIn(joined, Len(bytes), name, sec)

LEMMA EntryJoined ==
  ASSUME NEW bytes \in Seq(Bytes), NEW name \in Seq(Bytes), NEW sec \in 0 .. BYTE * BYTE - 1
  PROVE  EndsWithEntry(bytes \o EntryBytes(name, sec), bytes, name, sec)
<1> DEFINE entry == EntryBytes(name, sec)
           joined == bytes \o entry
<1>1. /\ entry \in Seq(Bytes) /\ Len(entry) = Len(name) + 3
      /\ \A n \in 1 .. Len(name) : entry[n] = name[n]
      /\ entry[Len(name) + 1] = 0
      /\ entry[Len(name) + 2] + BYTE * entry[Len(name) + 3] = sec
  BY AppendedEntry
<1>2. Len(name) \in Nat /\ Len(bytes) \in Nat
  BY LenProperties
<1> HIDE DEF entry
<1>4. joined \in Seq(Bytes) /\ Joins(joined, bytes, entry)
  BY <1>1, Joined, Zenon
<1> HIDE DEF joined
<1>5. PICK l \in Nat : l = Len(name)
  BY <1>2
<1>6. PICK m \in Nat : m = Len(bytes)
  BY <1>2
<1>7. Len(joined) = m + l + 3 /\ \A n \in 1 .. l + 3 : joined[m + n] = entry[n]
  BY <1>1, <1>4, <1>5, <1>6 DEF Joins
<1>8. /\ \A n \in 1 .. l : joined[m + n] = name[n]
      /\ joined[m + l + 1] = 0 /\ joined[m + l + 2] = entry[l + 2] /\ joined[m + l + 3] = entry[l + 3]
  <2>1. l + 1 \in 1 .. l + 3 /\ l + 2 \in 1 .. l + 3 /\ l + 3 \in 1 .. l + 3
    OBVIOUS
  <2>2. m + (l + 1) = m + l + 1 /\ m + (l + 2) = m + l + 2 /\ m + (l + 3) = m + l + 3
    OBVIOUS
  <2>3. joined[m + (l + 1)] = entry[l + 1] /\ joined[m + (l + 2)] = entry[l + 2] /\ joined[m + (l + 3)] = entry[l + 3]
    BY <1>7, <2>1, Zenon
  <2>4. \A n \in 1 .. l : n \in 1 .. l + 3
    OBVIOUS
  <2>5. entry[l + 1] = 0 /\ \A n \in 1 .. l : entry[n] = name[n]
    BY <1>1, <1>5
  <2>6. \A n \in 1 .. l : joined[m + n] = name[n]
    BY <1>7, <2>4, <2>5, Zenon
  <2> QED
    BY <2>2, <2>3, <2>5, <2>6
<1>9. entry[l + 2] + BYTE * entry[l + 3] = sec
  BY <1>1, <1>5
<1>10. EntryIn(joined, m, name, sec)
  BY <1>5, <1>7, <1>8, <1>9 DEF EntryIn
<1>11. EndsWithEntry(joined, bytes, name, sec)
  BY <1>4, <1>5, <1>6, <1>7, <1>10 DEF Joins, EndsWithEntry
<1> QED
  BY <1>11 DEF joined, entry

\* An entry stays where it is when more follows.
LEMMA EntryStays ==
  ASSUME NEW bytes, NEW at, NEW name, NEW sec, EntryIn(bytes, at, name, sec), Len(name) \in Nat,
         NEW longer, Len(bytes) \in Nat, Len(longer) \in Nat, Len(bytes) <= Len(longer),
         \A n \in 1 .. Len(bytes) : longer[n] = bytes[n]
  PROVE  EntryIn(longer, at, name, sec)
<1>1. PICK l \in Nat : l = Len(name)
  OBVIOUS
<1>2. at \in Nat /\ at + l + 3 <= Len(bytes)
  BY <1>1 DEF EntryIn
<1>3. \A n \in 1 .. l + 3 : at + n \in 1 .. Len(bytes)
  BY <1>2
<1>4. \A n \in 1 .. l + 3 : longer[at + n] = bytes[at + n]
  BY <1>3
<1>5. /\ at + (l + 1) = at + l + 1 /\ at + (l + 2) = at + l + 2 /\ at + (l + 3) = at + l + 3
      /\ l + 1 \in 1 .. l + 3 /\ l + 2 \in 1 .. l + 3 /\ l + 3 \in 1 .. l + 3
  BY <1>2
<1>6. longer[at + l + 1] = bytes[at + l + 1] /\ longer[at + l + 2] = bytes[at + l + 2] /\ longer[at + l + 3] = bytes[at + l + 3]
  BY <1>4, <1>5
<1> QED
  BY <1>1, <1>2, <1>4, <1>6 DEF EntryIn

\* The parent of a directory, as its first entry has it.
Up(im, i) == IF i = 1 THEN NoSector ELSE SectorOf(im)[im[i].parent]

\* What is pushed first.
Dots(up, self) ==
  << D >> \o AsBytes(NoSector) \o EntryBytes(<< Dot, Dot >>, up) \o EntryBytes(<< Dot >>, self)

LEMMA DotEntries ==
  ASSUME NEW up \in 0 .. BYTE * BYTE - 1, NEW self \in 0 .. BYTE * BYTE - 1
  PROVE  /\ Dots(up, self) \in Seq(Bytes) /\ Len(Dots(up, self)) = FirstEntry
         /\ Dots(up, self)[1] = D /\ Dots(up, self)[2] + BYTE * Dots(up, self)[3] = NoSector
         /\ EntryIn(Dots(up, self), EntryStart, << Dot, Dot >>, up)
         /\ EntryIn(Dots(up, self), EntryStart + 5, << Dot >>, self)
<1> DEFINE dots == Dots(up, self)
           mark == << D >>
           word == AsBytes(NoSector)
           two == << Dot, Dot >>
           one == << Dot >>
           a == mark \o word
           b == a \o EntryBytes(two, up)
<1>1. D \in Bytes /\ Dot \in Bytes
  BY Constants
<1>2. mark \in Seq(Bytes) /\ Len(mark) = 1 /\ mark[1] = D
  BY <1>1, One
<1>3. word \in Seq(Bytes) /\ Len(word) = 2 /\ word[1] + BYTE * word[2] = NoSector
  BY NoSectorIsWord, WordBytes
<1>4. two \in Seq(Bytes) /\ Len(two) = 2 /\ one \in Seq(Bytes) /\ Len(one) = 1
  BY <1>1
<1>5. dots = b \o EntryBytes(one, self)
  BY DEF Dots
<1> HIDE DEF mark, word, two, one, dots
<1>6. a \in Seq(Bytes) /\ Joins(a, mark, word)
  BY <1>2, <1>3, Joined, Zenon
<1> HIDE DEF a
<1>7. Len(a) = 3 /\ a[1] = D /\ a[2] = word[1] /\ a[3] = word[2]
  <2>1. Len(a) = 1 + 2 /\ a[1] = mark[1] /\ a[1 + 1] = word[1] /\ a[1 + 2] = word[2]
    BY <1>2, <1>3, <1>6 DEF Joins
  <2> QED
    BY <2>1, <1>2
<1>8. /\ b \in Seq(Bytes) /\ Len(b) = Len(a) + Len(two) + 3
      /\ \A n \in 1 .. Len(a) : b[n] = a[n]
      /\ EntryIn(b, Len(a), two, up)
  <2>1. EndsWithEntry(b, a, two, up)
    BY <1>4, <1>6, EntryJoined, Zenon
  <2> HIDE DEF b
  <2> QED
    BY <2>1 DEF EndsWithEntry
<1> HIDE DEF b
<1>9. /\ dots \in Seq(Bytes) /\ Len(dots) = Len(b) + Len(one) + 3
      /\ \A n \in 1 .. Len(b) : dots[n] = b[n]
      /\ EntryIn(dots, Len(b), one, self)
  <2>1. EndsWithEntry(dots, b, one, self)
    BY <1>4, <1>5, <1>8, EntryJoined, Zenon
  <2> QED
    BY <2>1 DEF EndsWithEntry
<1>10. Len(b) = 8 /\ Len(dots) = 12
  BY <1>4, <1>7, <1>8, <1>9
<1>11. EntryIn(dots, 3, two, up)
  <2>1. EntryIn(b, 3, two, up)
    BY <1>7, <1>8
  <2>2. Len(two) \in Nat /\ Len(b) \in Nat /\ Len(dots) \in Nat /\ Len(b) <= Len(dots)
    BY <1>4, <1>10
  <2> QED
    BY <2>1, <2>2, <1>9, EntryStays
<1>12. dots[1] = D /\ dots[2] = word[1] /\ dots[3] = word[2]
  <2>1. (\A n \in 1 .. 3 : b[n] = a[n]) /\ (\A n \in 1 .. 8 : dots[n] = b[n])
    BY <1>7, <1>8, <1>9, <1>10
  <2> QED
    BY <2>1, <1>7
<1>13. EntryIn(dots, 8, one, self)
  BY <1>9, <1>10
<1>14. EntryStart = 3 /\ EntryStart + 5 = 8 /\ FirstEntry = 12
  BY DEF EntryStart, FirstEntry
<1> QED
  BY <1>3, <1>9, <1>10, <1>11, <1>12, <1>13, <1>14 DEF one, two, dots

LEMMA NodeFacts ==
  ASSUME NEW im, IsImage(im), Accepted(im), NEW j \in 2 .. Len(im)
  PROVE  /\ j \in 1 .. Len(im) /\ j - 1 \in 1 .. Len(im) /\ im[j] \in Nodes
         /\ im[j].parent \in 1 .. Len(im) /\ im[j].parent < j /\ im[im[j].parent].dir
         /\ im[j].name \in EntryNames /\ im[j].name \in Seq(Bytes) /\ Len(im[j].name) \in Nat \ {0}
         /\ SectorOf(im)[j] \in 0 .. BYTE * BYTE - 1
<1>1. Len(im) \in Nat \ {0} /\ im \in Seq(Nodes)
  BY DEF IsImage
<1>2. j \in 1 .. Len(im) /\ j - 1 \in 1 .. Len(im)
  BY <1>1
<1>3. im[j] \in Nodes
  BY <1>1, <1>2
<1>4. im[j].parent \in 1 .. j - 1 /\ im[im[j].parent].dir /\ im[j].name \in EntryNames
  BY DEF IsImage
<1>5. im[j].parent \in 1 .. Len(im) /\ im[j].parent < j
  BY <1>1, <1>4
<1>6. im[j].name \in Seq(Bytes) /\ Len(im[j].name) \in Nat \ {0}
  BY <1>4, Names
<1>7. SectorOf(im)[j] \in 0 .. BYTE * BYTE - 1
  BY <1>2, SectorsExist
<1> QED
  BY <1>2, <1>3, <1>4, <1>5, <1>6, <1>7

\* What the bytes of a directory are after each node.
PushedBytes(pushed, im, i) ==
  /\ pushed \in [1 .. Len(im) -> Seq(Bytes)]
  /\ pushed[1] = Dots(Up(im, i), SectorOf(im)[i])
  /\ \A j \in 2 .. Len(im) :
       pushed[j] = IF im[j].parent = i THEN pushed[j - 1] \o EntryBytes(im[j].name, SectorOf(im)[j])
                   ELSE pushed[j - 1]

LEMMA PushedIs ==
  ASSUME NEW im, IsImage(im), Accepted(im), NEW i \in 1 .. Len(im), im[i].dir
  PROVE  PushedBytes(Pushed(im, i), im, i)
<1> DEFINE L == Len(im)
           S == Seq(Bytes)
           entry(j) == EntryBytes(im[j].name, SectorOf(im)[j])
           dots == Dots(Up(im, i), SectorOf(im)[i])
           step == [p \in Nat \X S |-> IF p[1] \in 2 .. L THEN IF im[p[1]].parent = i THEN p[2] \o entry(p[1]) ELSE p[2]
                                       ELSE p[2]]
           Equation(g) ==
             g = [j \in 1 .. Len(im) |->
                   IF j = 1
                   THEN << D >> \o AsBytes(NoSector)
                          \o EntryBytes(<< Dot, Dot >>, IF i = 1 THEN NoSector ELSE SectorOf(im)[im[i].parent])
                          \o EntryBytes(<< Dot >>, SectorOf(im)[i])
                   ELSE IF im[j].parent = i THEN g[j - 1] \o EntryBytes(im[j].name, SectorOf(im)[j])
                   ELSE g[j - 1]]
           pushed == CHOOSE g : Equation(g)
<1>1. L \in Nat \ {0}
  BY DEF IsImage
<1>2. dots \in S
  <2>1. SectorOf(im)[i] \in 0 .. BYTE * BYTE - 1
    BY SectorsExist
  <2>2. Up(im, i) \in 0 .. BYTE * BYTE - 1
    <3>1. CASE i = 1
      BY <3>1, NoSectorIsWord DEF Up
    <3>2. CASE i # 1
      <4>1. i \in 2 .. Len(im)
        BY <1>1, <3>2
      <4>2. im[i].parent \in 1 .. Len(im)
        BY <4>1, NodeFacts
      <4>3. SectorOf(im)[im[i].parent] \in 0 .. BYTE * BYTE - 1
        BY <4>2, SectorsExist
      <4> QED
        BY <3>2, <4>3 DEF Up
    <3> QED
      BY <3>1, <3>2
  <2> QED
    BY <2>1, <2>2, DotEntries
<1>3. \A j \in 2 .. L, x \in S : x \o entry(j) \in S
  <2> SUFFICES ASSUME NEW j \in 2 .. L, NEW x \in S PROVE x \o entry(j) \in S
    OBVIOUS
  <2>1. im[j].name \in Seq(Bytes) /\ SectorOf(im)[j] \in 0 .. BYTE * BYTE - 1
    BY NodeFacts
  <2>2. EndsWithEntry(x \o entry(j), x, im[j].name, SectorOf(im)[j])
    BY <2>1, EntryJoined
  <2> QED
    BY <2>2 DEF EndsWithEntry
<1> HIDE DEF S, dots, entry
<1>4. Steps(step, dots, S)
  BY <1>2, <1>3 DEF Steps
<1>5. \A j \in 2 .. L, x \in S : step[<<j, x>>] = IF im[j].parent = i THEN x \o entry(j) ELSE x
  OBVIOUS
<1> HIDE DEF step
<1>6. PICK f \in [1 .. L -> S] : RecursiveFrom1(f, step, dots, L)
  <2> HIDE DEF L
  <2> QED
    BY <1>1, <1>4, RecursionFrom1
<1>7. f[1] = dots /\ \A j \in 2 .. L : f[j] = IF im[j].parent = i THEN f[j - 1] \o entry(j) ELSE f[j - 1]
  <2>1. \A j \in 2 .. L : j - 1 \in 1 .. L
    BY <1>1
  <2>2. \A j \in 2 .. L : f[j - 1] \in S
    BY <1>6, <2>1
  <2> QED
    BY <1>5, <1>6, <2>2 DEF RecursiveFrom1
<1>8. Equation(f)
  <2>1. f = [j \in 1 .. L |-> IF j = 1 THEN dots ELSE IF im[j].parent = i THEN f[j - 1] \o entry(j) ELSE f[j - 1]]
    <3>1. \A j \in 1 .. L : j = 1 \/ j \in 2 .. L
      BY <1>1
    <3> QED
      BY <1>6, <1>7, <3>1
  <2> QED
    BY <2>1 DEF entry, dots, Dots, Up
<1>9. Equation(pushed)
  BY <1>8, Zenon
<1>10. Pushed(im, i) = pushed
  BY DEF Pushed
<1>11. pushed = [j \in 1 .. L |-> IF j = 1 THEN dots ELSE IF im[j].parent = i THEN pushed[j - 1] \o entry(j) ELSE pushed[j - 1]]
  <2> HIDE DEF pushed
  <2> QED
    BY <1>9, Zenon DEF entry, dots, Dots, Up
<1> HIDE DEF pushed, Equation
<1>12. pushed[1] = dots /\ \A j \in 2 .. L : pushed[j] = IF im[j].parent = i THEN pushed[j - 1] \o entry(j) ELSE pushed[j - 1]
  <2>1. 1 \in 1 .. L /\ \A j \in 2 .. L : j \in 1 .. L /\ j # 1
    BY <1>1
  <2> QED
    BY <1>11, <2>1, Zenon
<1> DEFINE T == {n \in Nat : n + 1 <= L => pushed[n + 1] \in S}
<1>13. 0 \in T
  BY <1>2, <1>12
<1>14. ASSUME NEW n \in Nat, n \in T PROVE n + 1 \in T
  <2>1. CASE (n + 1) + 1 <= L
    <3>1. PICK m \in 2 .. L : m = (n + 1) + 1
      BY <2>1, <1>1
    <3>2. m - 1 = n + 1 /\ n + 1 <= L
      BY <3>1, <1>1
    <3>3. pushed[m - 1] \in S
      BY <1>14, <3>2
    <3>4. pushed[m] \in S
      <4>1. pushed[m] = IF im[m].parent = i THEN pushed[m - 1] \o entry(m) ELSE pushed[m - 1]
        BY <1>12
      <4>2. pushed[m - 1] \o entry(m) \in S
        BY <1>3, <3>3
      <4> QED
        BY <3>3, <4>1, <4>2
    <3> QED
      BY <3>1, <3>4
  <2> QED
    BY <2>1
<1>15. T \in SUBSET Nat
  OBVIOUS
<1>16. \A n \in Nat : n \in T
  <2> HIDE DEF T
  <2> QED
    BY <1>13, <1>14, <1>15, AllNumbers
<1>17. ASSUME NEW j \in 1 .. L PROVE pushed[j] \in S
  <2>1. j - 1 \in Nat /\ (j - 1) + 1 = j /\ (j - 1) + 1 <= L
    BY <1>1
  <2>2. (j - 1) + 1 <= L => pushed[(j - 1) + 1] \in S
    BY <2>1, <1>16
  <2> QED
    BY <2>1, <2>2
<1>18. pushed \in [1 .. L -> S]
  BY <1>11, <1>17
<1> QED
  BY <1>10, <1>12, <1>18 DEF PushedBytes, S, dots, entry

\* The bytes that are pushed later come behind those that are there.
Begins(longer, bytes) ==
  /\ Len(bytes) \in Nat /\ Len(longer) \in Nat /\ Len(bytes) <= Len(longer)
  /\ \A n \in 1 .. Len(bytes) : longer[n] = bytes[n]

LEMMA BeginsFurther ==
  ASSUME NEW a, NEW b, NEW c, Begins(a, b), Begins(b, c)
  PROVE  Begins(a, c)
<1>1. /\ Len(a) \in Nat /\ Len(b) \in Nat /\ Len(c) \in Nat /\ Len(b) <= Len(a) /\ Len(c) <= Len(b)
      /\ \A n \in 1 .. Len(b) : a[n] = b[n]
      /\ \A n \in 1 .. Len(c) : b[n] = c[n]
  BY DEF Begins
<1>2. Len(c) <= Len(a)
  BY <1>1
<1>3. ASSUME NEW n \in 1 .. Len(c) PROVE a[n] = c[n]
  <2>1. n \in 1 .. Len(b)
    BY <1>1
  <2> QED
    BY <1>1, <2>1
<1> QED
  BY <1>1, <1>2, <1>3 DEF Begins

LEMMA PushedStay ==
  ASSUME NEW im, IsImage(im), Accepted(im), NEW i \in 1 .. Len(im), im[i].dir, NEW j \in 1 .. Len(im)
  PROVE  Begins(encode_dir(im, i), Pushed(im, i)[j])
<1> DEFINE L == Len(im)
           pushed == Pushed(im, i)
           T == {k \in Nat : k >= j => Begins(pushed[k], pushed[j])}
<1>1. L \in Nat \ {0}
  BY DEF IsImage
<1>2. PushedBytes(pushed, im, i)
  BY PushedIs
<1> HIDE DEF pushed
<1>3. \A k \in 1 .. L : pushed[k] \in Seq(Bytes) /\ Len(pushed[k]) \in Nat
  <2>1. pushed \in [1 .. L -> Seq(Bytes)]
    BY <1>2 DEF PushedBytes
  <2> QED
    BY <2>1, LenProperties
<1>4. ASSUME NEW k \in 1 .. L, k <= j PROVE k \in T
  <2>1. k >= j => k = j
    BY <1>4
  <2> QED
    BY <2>1, <1>3 DEF Begins
<1>5. 1 \in T
  <2>1. 1 \in 1 .. L /\ 1 <= j
    BY <1>1
  <2> QED
    BY <1>4, <2>1
<1>6. ASSUME NEW k \in 2 .. L, k - 1 \in T PROVE k \in T
  <2>1. CASE k <= j
    BY <1>4, <2>1
  <2>2. CASE k > j
    <3>1. k - 1 \in 1 .. L /\ k \in 1 .. L /\ k - 1 >= j
      BY <2>2, <1>1
    <3>2. Begins(pushed[k - 1], pushed[j])
      BY <1>6, <3>1
    <3>3. pushed[k] = IF im[k].parent = i THEN pushed[k - 1] \o EntryBytes(im[k].name, SectorOf(im)[k]) ELSE pushed[k - 1]
      BY <1>2 DEF PushedBytes
    <3>4. Begins(pushed[k], pushed[k - 1])
      <4>1. CASE im[k].parent = i
        <5>1. im[k].name \in Seq(Bytes) /\ SectorOf(im)[k] \in 0 .. BYTE * BYTE - 1 /\ Len(im[k].name) \in Nat
          BY NodeFacts
        <5>2. EndsWithEntry(pushed[k], pushed[k - 1], im[k].name, SectorOf(im)[k])
          BY <3>1, <3>3, <4>1, <5>1, <1>3, EntryJoined
        <5>3. Len(pushed[k - 1]) \in Nat /\ Len(pushed[k]) \in Nat
          BY <1>3, <3>1
        <5>4. /\ Len(pushed[k]) = Len(pushed[k - 1]) + Len(im[k].name) + 3
              /\ \A n \in 1 .. Len(pushed[k - 1]) : pushed[k][n] = pushed[k - 1][n]
          BY <5>2 DEF EndsWithEntry
        <5>5. Len(pushed[k - 1]) <= Len(pushed[k])
          <6>1. PICK a \in Nat, b \in Nat : a = Len(pushed[k - 1]) /\ b = Len(im[k].name)
            BY <5>1, <5>3
          <6>2. Len(pushed[k]) = a + b + 3
            BY <5>4, <6>1, Zenon
          <6>3. a <= a + b + 3
            OBVIOUS
          <6> QED
            BY <6>1, <6>2, <6>3, Zenon
        <5> QED
          BY <5>3, <5>4, <5>5, Zenon DEF Begins
      <4>2. CASE im[k].parent # i
        <5>1. pushed[k] = pushed[k - 1] /\ Len(pushed[k]) \in Nat
          BY <3>1, <3>3, <4>2, <1>3
        <5> QED
          BY <5>1 DEF Begins
      <4> QED
        BY <4>1, <4>2
    <3>5. Begins(pushed[k], pushed[j])
      BY <3>2, <3>4, BeginsFurther
    <3> QED
      BY <3>1, <3>5
  <2> QED
    BY <2>1, <2>2, <1>1
<1>7. \A k \in 1 .. L : k \in T
  <2> HIDE DEF T
  <2> QED
    BY <1>1, <1>5, <1>6, Upward
<1>8. L \in 1 .. L /\ L >= j /\ encode_dir(im, i) = pushed[L]
  BY <1>1 DEF encode_dir, pushed
<1> QED
  BY <1>7, <1>8 DEF pushed

\* The entries of a directory: "..", ".", and those of the nodes in it.
IsEntry(im, i, e) == e \in 2 .. Len(im) => im[e].parent = i
EntryName(im, e) == IF e = 0 THEN << Dot, Dot >> ELSE IF e = 1 THEN << Dot >> ELSE im[e].name
EntryNode(im, i, e) == IF e = 0 THEN IF i = 1 THEN OutOfTree ELSE im[i].parent ELSE IF e = 1 THEN i ELSE e
SectorOfEntry(im, i, e) ==
  IF EntryNode(im, i, e) = OutOfTree THEN NoSector ELSE SectorOf(im)[EntryNode(im, i, e)]

\* Where they are: at[e] is where the next entry from e on begins, the last one where they end.
Entered(bytes, im, i, at) ==
  /\ at \in [0 .. Len(im) + 1 -> Nat] /\ at[0] = EntryStart /\ at[2] = FirstEntry
  /\ \A e \in 0 .. Len(im) :
       IF IsEntry(im, i, e)
       THEN EntryIn(bytes, at[e], EntryName(im, e), SectorOfEntry(im, i, e)) /\ at[e + 1] = at[e] + Len(EntryName(im, e)) + 3
       ELSE at[e + 1] = at[e]
  /\ at[Len(im) + 1] = Len(bytes)

LEMMA UpIsSector ==
  ASSUME NEW im, IsImage(im), Accepted(im), NEW i \in 1 .. Len(im)
  PROVE  Up(im, i) \in 0 .. BYTE * BYTE - 1 /\ Up(im, i) = SectorOfEntry(im, i, 0)
         /\ SectorOf(im)[i] \in 0 .. BYTE * BYTE - 1 /\ SectorOf(im)[i] = SectorOfEntry(im, i, 1)
<1>1. Len(im) \in Nat \ {0}
  BY DEF IsImage
<1>2. i # 1 => i \in 2 .. Len(im)
  BY <1>1
<1>3. i # 1 => im[i].parent \in 1 .. Len(im)
  BY <1>2, NodeFacts
<1>4. i # 1 => SectorOf(im)[im[i].parent] \in 0 .. BYTE * BYTE - 1
  BY <1>3, SectorsExist
<1>5. SectorOf(im)[i] \in 0 .. BYTE * BYTE - 1
  BY SectorsExist
<1> QED
  BY <1>3, <1>4, <1>5, NoSectorIsWord DEF Up, SectorOfEntry, EntryNode, OutOfTree

LEMMA EntriesOf ==
  ASSUME NEW im, IsImage(im), Accepted(im), NEW i \in 1 .. Len(im), im[i].dir
  PROVE  \E at : Entered(encode_dir(im, i), im, i, at)
<1> DEFINE L == Len(im)
           pushed == Pushed(im, i)
           bytes == encode_dir(im, i)
           at == [e \in 0 .. L + 1 |-> IF e = 0 THEN 3 ELSE IF e = 1 THEN 8 ELSE Len(pushed[e - 1])]
<1>1. L \in Nat \ {0}
  BY DEF IsImage
<1>2. PushedBytes(pushed, im, i)
  BY PushedIs
<1>3. \A j \in 1 .. L : Begins(bytes, pushed[j])
  BY PushedStay
<1>4. bytes = pushed[L]
  BY DEF encode_dir
<1> HIDE DEF pushed, bytes
<1>5. \A k \in 1 .. L : pushed[k] \in Seq(Bytes) /\ Len(pushed[k]) \in Nat
  <2>1. pushed \in [1 .. L -> Seq(Bytes)]
    BY <1>2 DEF PushedBytes
  <2> QED
    BY <2>1, LenProperties
<1>6. /\ Up(im, i) \in 0 .. BYTE * BYTE - 1 /\ Up(im, i) = SectorOfEntry(im, i, 0)
      /\ SectorOf(im)[i] \in 0 .. BYTE * BYTE - 1 /\ SectorOf(im)[i] = SectorOfEntry(im, i, 1)
  BY UpIsSector
<1>7. /\ Len(pushed[1]) = FirstEntry
      /\ EntryIn(pushed[1], EntryStart, << Dot, Dot >>, Up(im, i))
      /\ EntryIn(pushed[1], EntryStart + 5, << Dot >>, SectorOf(im)[i])
  <2>1. pushed[1] = Dots(Up(im, i), SectorOf(im)[i])
    BY <1>2 DEF PushedBytes
  <2> QED
    BY <2>1, <1>6, DotEntries
<1>8. /\ at \in [0 .. L + 1 -> Nat] /\ at[0] = 3 /\ at[1] = 8 /\ at[2] = 12
      /\ \A e \in 2 .. L + 1 : at[e] = Len(pushed[e - 1])
  <2>1. \A e \in 2 .. L + 1 : e - 1 \in 1 .. L
    BY <1>1
  <2>2. at \in [0 .. L + 1 -> Nat]
    BY <2>1, <1>1, <1>5
  <2>3. 2 \in 2 .. L + 1 /\ 0 \in 0 .. L + 1 /\ 1 \in 0 .. L + 1 /\ 2 - 1 = 1
    BY <1>1
  <2>4. \A e \in 2 .. L + 1 : at[e] = Len(pushed[e - 1])
    OBVIOUS
  <2>5. at[2] = 12
    BY <2>3, <2>4, <1>7 DEF FirstEntry
  <2> QED
    BY <2>2, <2>3, <2>4, <2>5
<1> HIDE DEF at
<1>9. ASSUME NEW e, NEW name, NEW sec, NEW ndx, EntryIn(pushed[1], ndx, name, sec), Len(name) \in Nat
      PROVE  EntryIn(bytes, ndx, name, sec)
  <2>1. 1 \in 1 .. L
    BY <1>1
  <2> QED
    BY <1>3, <1>9, <2>1, EntryStays DEF Begins
<1>10. EntryIn(bytes, 3, << Dot, Dot >>, SectorOfEntry(im, i, 0)) /\ EntryIn(bytes, 8, << Dot >>, SectorOfEntry(im, i, 1))
  <2>1. Len(<< Dot, Dot >>) \in Nat /\ Len(<< Dot >>) \in Nat
    OBVIOUS
  <2>2. EntryStart = 3 /\ EntryStart + 5 = 8
    BY DEF EntryStart
  <2> QED
    BY <1>6, <1>7, <1>9, <2>1, <2>2
<1>11. ASSUME NEW e \in 2 .. L
       PROVE  IF IsEntry(im, i, e)
              THEN EntryIn(bytes, at[e], EntryName(im, e), SectorOfEntry(im, i, e)) /\ at[e + 1] = at[e] + Len(EntryName(im, e)) + 3
              ELSE at[e + 1] = at[e]
  <2>1. e + 1 \in 2 .. L + 1 /\ (e + 1) - 1 = e /\ e \in 2 .. L + 1 /\ e - 1 \in 1 .. L /\ e \in 1 .. L /\ e # 0 /\ e # 1
    BY <1>1
  <2>2. at[e] = Len(pushed[e - 1]) /\ at[e + 1] = Len(pushed[e])
    <3>1. at[e + 1] = Len(pushed[(e + 1) - 1])
      BY <1>8, <2>1
    <3> QED
      BY <1>8, <2>1, <3>1
  <2>3. EntryName(im, e) = im[e].name /\ SectorOfEntry(im, i, e) = SectorOf(im)[e] /\ (IsEntry(im, i, e) <=> im[e].parent = i)
    BY <2>1 DEF EntryName, SectorOfEntry, EntryNode, IsEntry, OutOfTree
  <2>4. pushed[e] = IF im[e].parent = i THEN pushed[e - 1] \o EntryBytes(im[e].name, SectorOf(im)[e]) ELSE pushed[e - 1]
    BY <1>2 DEF PushedBytes
  <2>5. CASE im[e].parent = i
    <3>1. im[e].name \in Seq(Bytes) /\ SectorOf(im)[e] \in 0 .. BYTE * BYTE - 1 /\ Len(im[e].name) \in Nat
      BY NodeFacts
    <3>2. EndsWithEntry(pushed[e], pushed[e - 1], im[e].name, SectorOf(im)[e])
      BY <2>1, <2>4, <2>5, <3>1, <1>5, EntryJoined
    <3>3. EntryIn(pushed[e], Len(pushed[e - 1]), im[e].name, SectorOf(im)[e]) /\ Len(pushed[e]) = Len(pushed[e - 1]) + Len(im[e].name) + 3
      BY <3>2 DEF EndsWithEntry
    <3>4. EntryIn(bytes, Len(pushed[e - 1]), im[e].name, SectorOf(im)[e])
      BY <3>1, <3>3, <1>3, <2>1, EntryStays DEF Begins
    <3> QED
      BY <2>2, <2>3, <2>5, <3>3, <3>4
  <2>6. CASE im[e].parent # i
    BY <2>2, <2>3, <2>4, <2>6
  <2> QED
    BY <2>5, <2>6
<1>12. ASSUME NEW e \in 0 .. L
       PROVE  IF IsEntry(im, i, e)
              THEN EntryIn(bytes, at[e], EntryName(im, e), SectorOfEntry(im, i, e)) /\ at[e + 1] = at[e] + Len(EntryName(im, e)) + 3
              ELSE at[e + 1] = at[e]
  <2>1. CASE e = 0
    <3>1. IsEntry(im, i, e) /\ EntryName(im, e) = << Dot, Dot >> /\ Len(<< Dot, Dot >>) = 2 /\ e + 1 = 1
      BY <2>1 DEF IsEntry, EntryName
    <3>4. at[e] = 3 /\ at[e + 1] = 8
      BY <2>1, <3>1, <1>8, Zenon
    <3>5. Len(EntryName(im, e)) = 2
      BY <3>1, Zenon
    <3>2. at[e] = 3 /\ at[e + 1] = at[e] + Len(EntryName(im, e)) + 3
      BY <3>4, <3>5
    <3>3. EntryIn(bytes, at[e], EntryName(im, e), SectorOfEntry(im, i, e))
      BY <2>1, <3>1, <3>2, <1>10
    <3> QED
      BY <3>1, <3>2, <3>3
  <2>2. CASE e = 1
    <3>1. IsEntry(im, i, e) /\ EntryName(im, e) = << Dot >> /\ Len(<< Dot >>) = 1 /\ e + 1 = 2
      BY <2>2 DEF IsEntry, EntryName
    <3>4. at[e] = 8 /\ at[e + 1] = 12
      BY <2>2, <3>1, <1>8, Zenon
    <3>5. Len(EntryName(im, e)) = 1
      BY <3>1, Zenon
    <3>2. at[e] = 8 /\ at[e + 1] = at[e] + Len(EntryName(im, e)) + 3
      BY <3>4, <3>5
    <3>3. EntryIn(bytes, at[e], EntryName(im, e), SectorOfEntry(im, i, e))
      BY <2>2, <3>1, <3>2, <1>10
    <3> QED
      BY <3>1, <3>2, <3>3
  <2> QED
    BY <2>1, <2>2, <1>11, <1>1
<1>13. at[L + 1] = Len(bytes)
  <2>1. L + 1 \in 2 .. L + 1 /\ (L + 1) - 1 = L
    BY <1>1
  <2>2. at[L + 1] = Len(pushed[(L + 1) - 1])
    BY <1>8, <2>1
  <2> QED
    BY <2>1, <2>2, <1>4
<1>14. Entered(bytes, im, i, at)
  <2>1. at[0] = EntryStart /\ at[2] = FirstEntry
    BY <1>8 DEF EntryStart, FirstEntry
  <2> QED
    BY <1>8, <1>12, <1>13, <2>1 DEF Entered
<1> QED
  BY <1>14 DEF bytes

\* The bytes of a sector, and of an entry in one.
HasBytes(M, sec, bytes) == M[sec] = Padded(bytes) /\ Len(bytes) \in Nat /\ Len(bytes) + 1 < BYTE

EntryAt(M, sec, ndx, name, target) ==
  /\ ndx \in Nat /\ ndx + Len(name) + 3 < BYTE
  /\ \A n \in 1 .. Len(name) : ByteAt(M, sec, ndx + (n - 1)) = name[n]
  /\ ByteAt(M, sec, ndx + Len(name)) = 0
  /\ WordOf(M, sec, ndx + Len(name) + 1) = target

LEMMA PaddedByte ==
  ASSUME NEW M, NEW sec, NEW bytes, HasBytes(M, sec, bytes), NEW ndx \in 0 .. BYTE - 1
  PROVE  ByteAt(M, sec, ndx) = IF ndx < Len(bytes) THEN bytes[ndx + 1] ELSE 0
<1>1. ByteAt(M, sec, ndx) = M[sec][ndx + 1]
  BY ByteOf
<1>2. PICK n \in 1 .. BYTE : n = ndx + 1
  BY Constants
<1>3. M[sec][n] = IF n <= Len(bytes) THEN bytes[n] ELSE 0
  BY DEF HasBytes, Padded
<1>4. Len(bytes) \in Nat
  BY DEF HasBytes
<1>5. n <= Len(bytes) <=> ndx < Len(bytes)
  BY <1>2, <1>4
<1> QED
  BY <1>1, <1>2, <1>3, <1>5

LEMMA PaddedEntry ==
  ASSUME NEW M, NEW sec, NEW bytes, HasBytes(M, sec, bytes),
         NEW ndx, NEW name, NEW target, Len(name) \in Nat, EntryIn(bytes, ndx, name, target)
  PROVE  EntryAt(M, sec, ndx, name, target)
<1>1. PICK l \in Nat : l = Len(name)
  OBVIOUS
<1>2. PICK m \in Nat : m = Len(bytes) /\ m + 1 < BYTE
  BY DEF HasBytes
<1>3. /\ ndx \in Nat /\ ndx + l + 3 <= m
      /\ \A n \in 1 .. l : bytes[ndx + n] = name[n]
      /\ bytes[ndx + l + 1] = 0
      /\ bytes[ndx + l + 2] + BYTE * bytes[ndx + l + 3] = target
  BY <1>1, <1>2 DEF EntryIn
<1>4. BYTE \in Nat
  BY Constants
<1>5. ASSUME NEW k \in 0 .. l + 2 PROVE ByteAt(M, sec, ndx + k) = bytes[ndx + k + 1]
  <2>1. PICK x \in 0 .. BYTE - 1 : x = ndx + k /\ x < m
    BY <1>2, <1>3, <1>4
  <2> QED
    BY <2>1, <1>2, PaddedByte
<1>6. ASSUME NEW n \in 1 .. l PROVE ByteAt(M, sec, ndx + (n - 1)) = name[n]
  <2>1. n - 1 \in 0 .. l + 2 /\ ndx + (n - 1) + 1 = ndx + n
    BY <1>3
  <2>2. ByteAt(M, sec, ndx + (n - 1)) = bytes[ndx + (n - 1) + 1]
    BY <1>5, <2>1
  <2> QED
    BY <1>3, <2>1, <2>2
<1>7. ByteAt(M, sec, ndx + l) = 0
  <2>1. l \in 0 .. l + 2
    OBVIOUS
  <2> QED
    BY <1>3, <1>5, <2>1
<1>8. WordOf(M, sec, ndx + l + 1) = target
  <2>1. /\ l + 1 \in 0 .. l + 2 /\ l + 2 \in 0 .. l + 2
        /\ ndx + (l + 1) = ndx + l + 1 /\ ndx + (l + 2) = ndx + l + 1 + 1
        /\ ndx + (l + 1) + 1 = ndx + l + 2 /\ ndx + (l + 2) + 1 = ndx + l + 3
    BY <1>3
  <2>2. ByteAt(M, sec, ndx + (l + 1)) = bytes[ndx + (l + 1) + 1] /\ ByteAt(M, sec, ndx + (l + 2)) = bytes[ndx + (l + 2) + 1]
    BY <1>5, <2>1
  <2>3. ByteAt(M, sec, ndx + l + 1) = bytes[ndx + l + 2] /\ ByteAt(M, sec, ndx + l + 1 + 1) = bytes[ndx + l + 3]
    BY <2>1, <2>2
  <2> QED
    BY <1>3, <2>3 DEF WordOf
<1>9. ndx + l + 3 < BYTE
  BY <1>2, <1>3, <1>4
<1> QED
  BY <1>1, <1>3, <1>6, <1>7, <1>8, <1>9 DEF EntryAt

\* A directory in the storage.
Listed(M, im, i, at) ==
  /\ ByteAt(M, SectorOf(im)[i], 0) = D /\ WordOf(M, SectorOf(im)[i], NextIndex) = NoSector
  /\ at \in [0 .. Len(im) + 1 -> Nat] /\ at[0] = EntryStart /\ at[2] = FirstEntry
  /\ \A e \in 0 .. Len(im) :
       IF IsEntry(im, i, e)
       THEN /\ EntryAt(M, SectorOf(im)[i], at[e], EntryName(im, e), SectorOfEntry(im, i, e))
            /\ at[e + 1] = at[e] + Len(EntryName(im, e)) + 3
       ELSE at[e + 1] = at[e]
  /\ ByteAt(M, SectorOf(im)[i], at[Len(im) + 1]) = 0

LEMMA NamesOfEntries ==
  ASSUME NEW im, IsImage(im), Accepted(im), NEW e \in 0 .. Len(im)
  PROVE  /\ EntryName(im, e) \in Seq(Bytes) /\ Len(EntryName(im, e)) \in Nat \ {0}
         /\ \A n \in 1 .. Len(EntryName(im, e)) : EntryName(im, e)[n] \in CharBytes /\ EntryName(im, e)[n] # Slash
<1>1. Len(im) \in Nat \ {0} /\ Dot \in CharBytes /\ Dot \in Bytes /\ Dot # Slash
  BY Constants DEF IsImage
<1>2. CASE e = 0
  <2> DEFINE name == << Dot, Dot >>
  <2>1. name \in Seq(Bytes) /\ Len(name) \in Nat \ {0} /\ \A n \in 1 .. Len(name) : name[n] = Dot
    BY <1>1
  <2>2. EntryName(im, e) = name
    BY <1>2 DEF EntryName
  <2> HIDE DEF name
  <2> QED
    BY <1>1, <2>1, <2>2, Zenon
<1>3. CASE e = 1
  <2> DEFINE name == << Dot >>
  <2>1. name \in Seq(Bytes) /\ Len(name) \in Nat \ {0} /\ \A n \in 1 .. Len(name) : name[n] = Dot
    BY <1>1
  <2>2. EntryName(im, e) = name
    BY <1>3 DEF EntryName
  <2> HIDE DEF name
  <2> QED
    BY <1>1, <2>1, <2>2, Zenon
<1>4. CASE e \in 2 .. Len(im)
  <2>1. EntryName(im, e) = im[e].name /\ im[e].name \in EntryNames
    BY <1>4, NodeFacts DEF EntryName
  <2> QED
    BY <2>1, Names
<1> QED
  BY <1>1, <1>2, <1>3, <1>4

LEMMA Layout ==
  ASSUME NEW im, IsImage(im), Accepted(im), NEW i \in 1 .. Len(im), im[i].dir
  PROVE  \E at : Listed(Encode(im), im, i, at)
<1> DEFINE L == Len(im)
           bytes == encode_dir(im, i)
           M == Encode(im)
           sec == SectorOf(im)[i]
<1>1. L \in Nat \ {0} /\ BYTE \in Nat
  BY Constants DEF IsImage
<1>2. PICK at : Entered(bytes, im, i, at)
  BY EntriesOf
<1>3. HasBytes(M, sec, bytes)
  <2>1. sec \in Sectors
    BY SectorsExist
  <2>2. M[sec] = Padded(bytes)
    BY <2>1, EncodedDirectory
  <2>3. Len(bytes) + 1 < BYTE
    BY DEF Accepted
  <2>4. Len(bytes) \in Nat
    <3>1. L + 1 \in 0 .. L + 1
      BY <1>1
    <3>2. at \in [0 .. L + 1 -> Nat] /\ at[L + 1] = Len(bytes)
      BY <1>2 DEF Entered
    <3> QED
      BY <3>1, <3>2
  <2> QED
    BY <2>2, <2>3, <2>4 DEF HasBytes
<1>4. bytes[1] = D /\ bytes[2] + BYTE * bytes[3] = NoSector /\ 12 <= Len(bytes)
  <2>1. 1 \in 1 .. L
    BY <1>1
  <2> DEFINE dots == Dots(Up(im, i), SectorOf(im)[i])
  <2>2. Pushed(im, i)[1] = dots
    BY PushedIs DEF PushedBytes
  <2>3. Begins(bytes, dots)
    BY <2>1, <2>2, PushedStay
  <2>4. Len(dots) = 12 /\ dots[1] = D /\ dots[2] + BYTE * dots[3] = NoSector
    BY UpIsSector, DotEntries DEF FirstEntry
  <2> HIDE DEF dots, bytes
  <2>5. 12 <= Len(bytes) /\ bytes[1] = dots[1] /\ bytes[2] = dots[2] /\ bytes[3] = dots[3]
    BY <2>3, <2>4 DEF Begins
  <2> QED
    BY <2>4, <2>5
<1> HIDE DEF bytes, M, sec
<1>5. ByteAt(M, sec, 0) = D /\ ByteAt(M, sec, 1) = bytes[2] /\ ByteAt(M, sec, 2) = bytes[3]
  <2>1. 0 \in 0 .. BYTE - 1 /\ 1 \in 0 .. BYTE - 1 /\ 2 \in 0 .. BYTE - 1
    BY Constants
  <2>2. Len(bytes) \in Nat
    BY <1>3 DEF HasBytes
  <2>3. 0 < Len(bytes) /\ 1 < Len(bytes) /\ 2 < Len(bytes)
    BY <1>4, <2>2
  <2>4. ByteAt(M, sec, 0) = bytes[0 + 1] /\ ByteAt(M, sec, 1) = bytes[1 + 1] /\ ByteAt(M, sec, 2) = bytes[2 + 1]
    BY <1>3, <2>1, <2>3, PaddedByte, ZenonT(30)
  <2> QED
    BY <1>4, <2>4
<1>6. WordOf(M, sec, NextIndex) = NoSector
  <2>1. 1 + 1 = 2
    OBVIOUS
  <2> QED
    BY <1>4, <1>5, <2>1 DEF WordOf, NextIndex
<1>7. ByteAt(M, sec, at[L + 1]) = 0
  <2>1. at[L + 1] = Len(bytes)
    BY <1>2 DEF Entered
  <2>2. Len(bytes) \in 0 .. BYTE - 1 /\ ~(Len(bytes) < Len(bytes))
    BY <1>1, <1>3 DEF HasBytes
  <2> QED
    BY <1>3, <2>1, <2>2, PaddedByte
<1>8. ASSUME NEW e \in 0 .. L, IsEntry(im, i, e)
      PROVE  EntryAt(M, sec, at[e], EntryName(im, e), SectorOfEntry(im, i, e))
  <2>1. EntryIn(bytes, at[e], EntryName(im, e), SectorOfEntry(im, i, e))
    BY <1>2, <1>8 DEF Entered
  <2>2. Len(EntryName(im, e)) \in Nat
    BY NamesOfEntries
  <2> QED
    BY <1>3, <2>1, <2>2, PaddedEntry
<1>9. Listed(M, im, i, at)
  BY <1>2, <1>5, <1>6, <1>7, <1>8 DEF Listed, Entered, sec
<1> QED
  BY <1>9 DEF M

-----------------------------------------------------------------------------
(* The search for a path *)

LEMMA ToZeroIs ==
  ASSUME NEW M, NEW sec, NEW ndx \in Nat, NEW length \in 0 .. BYTE - 1,
         ByteAt(M, sec, ndx + length) = 0,
         \A n \in 0 .. length - 1 : ByteAt(M, sec, ndx + n) # 0
  PROVE  ToZero(M, sec, ndx) = length
<1> DEFINE zeros == {n \in 0 .. BYTE - 1 : ByteAt(M, sec, ndx + n) = 0}
           Least(x) == \A k \in zeros : x <= k
<1>1. length \in zeros /\ zeros # {} /\ length \in Nat /\ BYTE \in Nat
  <2>1. length \in zeros
    OBVIOUS
  <2>2. length \in Nat /\ BYTE \in Nat
    BY Constants
  <2> QED
    BY <2>1, <2>2, Zenon
<1>2. Least(length)
  <2>1. ASSUME NEW k \in zeros PROVE length <= k
    <3>1. k \in Nat /\ ByteAt(M, sec, ndx + k) = 0
      BY <1>1
    <3> QED
      BY <1>1, <3>1
  <2> QED
    BY <2>1
<1>3. \A x \in zeros : Least(x) => x = length
  <2>1. \A x \in zeros : x \in Int
    BY <1>1
  <2> QED
    BY <1>1, <1>2, <2>1
<1>4. ToZero(M, sec, ndx) = CHOOSE n \in zeros : Least(n)
  BY <1>1, Zenon DEF ToZero
<1> HIDE DEF zeros, Least
<1>5. (CHOOSE n \in zeros : Least(n)) = length
  BY <1>1, <1>2, <1>3, Zenon
<1> QED
  BY <1>4, <1>5

LEMMA ToZeroInNat ==
  ASSUME NEW M, NEW sec, NEW ndx \in Nat
  PROVE  ToZero(M, sec, ndx) \in Nat
<1> DEFINE zeros == {n \in 0 .. BYTE - 1 : ByteAt(M, sec, ndx + n) = 0}
           Least(x) == \A k \in zeros : x <= k
<1>1. BYTE \in Nat /\ zeros \in SUBSET Nat
  BY Constants
<1>2. ToZero(M, sec, ndx) = IF zeros = {} THEN BYTE ELSE CHOOSE n \in zeros : Least(n)
  BY DEF ToZero
<1> HIDE DEF zeros
<1>3. CASE zeros = {}
  BY <1>1, <1>2, <1>3
<1>4. CASE zeros # {}
  <2>1. \E x \in zeros : Least(x)
    BY <1>1, <1>4, LeastElement
  <2> HIDE DEF Least
  <2>2. (CHOOSE n \in zeros : Least(n)) \in zeros
    BY <2>1, Zenon
  <2> QED
    BY <1>1, <1>2, <1>4, <2>2
<1> QED
  BY <1>3, <1>4

LEMMA ToZeroInEntry ==
  ASSUME NEW M, NEW sec, NEW ndx, NEW name, NEW target, EntryAt(M, sec, ndx, name, target),
         Len(name) \in Nat, \A n \in 1 .. Len(name) : name[n] # 0, NEW k \in 0 .. Len(name)
  PROVE  ToZero(M, sec, ndx + k) = Len(name) - k
<1>1. PICK l \in Nat : l = Len(name)
  OBVIOUS
<1>2. /\ ndx \in Nat /\ ndx + l + 3 < BYTE /\ BYTE \in Nat
      /\ \A n \in 1 .. l : ByteAt(M, sec, ndx + (n - 1)) = name[n]
      /\ ByteAt(M, sec, ndx + l) = 0
  BY <1>1, Constants DEF EntryAt
<1>3. k \in 0 .. l
  BY <1>1
<1>4. ASSUME NEW n \in 0 .. (l - k) - 1 PROVE ByteAt(M, sec, (ndx + k) + n) # 0
  <2>1. PICK m \in 1 .. l : m = k + n + 1
    BY <1>3
  <2>2. ndx + (m - 1) = (ndx + k) + n
    BY <1>2, <1>3, <2>1
  <2>3. ByteAt(M, sec, ndx + (m - 1)) = name[m] /\ name[m] # 0
    BY <1>1, <1>2
  <2> QED
    BY <2>2, <2>3
<1>5. ndx + k \in Nat /\ l - k \in 0 .. BYTE - 1 /\ (ndx + k) + (l - k) = ndx + l
  BY <1>2, <1>3
<1>6. ToZero(M, sec, ndx + k) = l - k
  <2>1. PICK x \in Nat : x = ndx + k
    BY <1>5
  <2>2. PICK y \in 0 .. BYTE - 1 : y = l - k
    BY <1>5
  <2>3. ByteAt(M, sec, x + y) = 0
    BY <1>2, <1>5, <2>1, <2>2
  <2>4. \A n \in 0 .. y - 1 : ByteAt(M, sec, x + n) # 0
    BY <1>4, <2>1, <2>2
  <2>5. ToZero(M, sec, x) = y
    BY <2>3, <2>4, ToZeroIs
  <2> QED
    BY <2>1, <2>2, <2>5
<1> QED
  BY <1>1, <1>6

\* The next sector of a sector exists, or there is none.
Chains(M) == \A sec \in Sectors : WordOf(M, sec, NextIndex) \in Sectors \cup {NoSector}

LEMMA ChainsOfImages ==
  ASSUME NEW im, IsImage(im), Accepted(im)
  PROVE  Chains(Encode(im))
<1> SUFFICES ASSUME NEW sec \in Sectors PROVE WordOf(Encode(im), sec, NextIndex) \in Sectors \cup {NoSector}
  BY DEF Chains
<1> DEFINE i == NodeIn(im, sec)
           M == Encode(im)
<1>1. im \in Seq(Nodes) /\ Len(im) \in Nat \ {0} /\ sec \in Nat /\ 0 \in Sectors
  BY SectorsAssumption DEF IsImage, Sectors
<1>2. WordOf(M, sec, NextIndex) = M[sec][2] + BYTE * M[sec][3] /\ 2 \in 1 .. BYTE /\ 3 \in 1 .. BYTE
  <2>1. 1 \in 0 .. BYTE - 1 /\ 2 \in 0 .. BYTE - 1 /\ 1 + 1 = 2 /\ 2 + 1 = 3
    BY Constants
  <2>2. ByteAt(M, sec, 1) = M[sec][1 + 1] /\ ByteAt(M, sec, 2) = M[sec][2 + 1]
    BY <2>1, ByteOf, Zenon
  <2>3. WordOf(M, sec, 1) = ByteAt(M, sec, 1) + BYTE * ByteAt(M, sec, 1 + 1)
    BY DEF WordOf
  <2> QED
    BY <2>1, <2>2, <2>3, Constants DEF NextIndex
<1>3. CASE sec = 0
  <2>1. M[sec] = [n \in 1 .. BYTE |-> BYTE - 1]
    BY <1>3 DEF Encode
  <2>2. M[sec][2] = BYTE - 1 /\ M[sec][3] = BYTE - 1
    BY <1>2, <2>1
  <2>3. (BYTE - 1) + BYTE * (BYTE - 1) = BYTE * BYTE - 1
    BY Constants
  <2> QED
    BY <1>2, <2>2, <2>3 DEF NoSector
<1>4. CASE sec # 0 /\ i = 0
  <2>1. M[sec] = Padded(<< >>)
    BY <1>4 DEF Encode
  <2>2. Padded(<< >>)[2] = 0 /\ Padded(<< >>)[3] = 0
    BY <1>2 DEF Padded
  <2>3. 0 + BYTE * 0 = 0
    BY Constants
  <2> QED
    BY <1>1, <1>2, <2>1, <2>2, <2>3
<1>5. CASE sec # 0 /\ i # 0
  <2>1. i \in 1 .. Len(im) /\ sec \in Owned(im, i)
    BY <1>1, <1>5, NodeInIs
  <2>2. im[i] \in Nodes /\ SectorOf(im)[i] \in Nat /\ SectorOf(im)[i] + SectorsOf(im[i]) <= SECTOR_COUNT /\ SectorsOf(im[i]) \in Nat
    BY <1>1, <2>1, SectorsExist
  <2> HIDE DEF i
  <2>3. CASE im[i].dir
    <3>1. SectorsOf(im[i]) = 1
      BY <2>2, <2>3, SizesOfNodes
    <3>2. SectorOf(im)[i] = sec
      BY <3>1, <2>1, <2>2, <1>1 DEF Owned
    <3>3. \E at : Listed(Encode(im), im, i, at)
      BY <2>1, <2>3, Layout
    <3> QED
      BY <3>2, <3>3 DEF Listed
  <2>4. CASE ~im[i].dir
    <3>1. SectorsOf(im[i]) = SectorsFor(im[i].content)
      BY <2>4 DEF SectorsOf
    <3> DEFINE parts == SectorsFor(im[i].content)
    <3>13. PICK first \in Nat, n \in Nat : first = SectorOf(im)[i] /\ n = SectorsOf(im[i])
      BY <2>2
    <3>14. sec \in first .. first + n - 1 /\ n = parts /\ first + n <= SECTOR_COUNT
      BY <2>1, <2>2, <3>1, <3>13, Zenon DEF Owned
    <3>2. PICK k \in Nat : k = sec - first
      BY <3>14, <1>1
    <3>15. k < n /\ first + k = sec /\ (k + 1 < n => sec + 1 < SECTOR_COUNT)
      <4>1. SECTOR_COUNT \in Nat /\ sec \in Nat /\ sec >= first /\ sec <= first + n - 1 /\ first + n <= SECTOR_COUNT
        BY <3>14, <1>1, SectorsAssumption
      <4> QED
        BY <3>2, <4>1
    <3>3. k < SectorsFor(im[i].content) /\ SectorOf(im)[i] + k = sec
      BY <3>13, <3>14, <3>15, Zenon
    <3>4. im[i].content \in Seq(Bytes)
      BY <2>2 DEF Nodes
    <3> DEFINE next == IF k + 1 < SectorsFor(im[i].content) THEN sec + 1 ELSE NoSector
               bytes == encode_file(im[i].content, sec, k)
    <3>5. next \in Sectors \cup {NoSector}
      <4>1. k + 1 < SectorsFor(im[i].content) => sec + 1 \in Sectors
        <5>1. k + 1 < SectorsFor(im[i].content) => sec + 1 < SECTOR_COUNT
          BY <3>14, <3>15, Zenon
        <5>2. sec + 1 < SECTOR_COUNT => sec + 1 \in Sectors
          BY <1>1, SectorsAssumption DEF Sectors
        <5> QED
          BY <5>1, <5>2, Zenon
      <4> QED
        BY <4>1
    <3>6. next = IF k + 1 < SectorsFor(im[i].content) THEN sec + 1 ELSE NoSector
      OBVIOUS
    <3>7. M[sec] = Padded(bytes)
      BY <3>3, <2>1, <2>4, EncodedFile
    <3> HIDE DEF next
    <3>8. next \in 0 .. BYTE * BYTE - 1
      BY <3>5, NoSectorIsWord
    <3>9. FileSector(bytes, Piece(im[i].content, k), next)
      BY <3>3, <3>4, <3>6, <3>8, FileBytes
    <3>10. Len(Piece(im[i].content, k)) \in Nat
      BY <3>3, <3>4, Pieces
    <3> HIDE DEF bytes
    <3>11. 2 <= Len(bytes) /\ 3 <= Len(bytes) /\ bytes[2] + BYTE * bytes[3] = next
      BY <3>9, <3>10 DEF FileSector
    <3>12. M[sec][2] = bytes[2] /\ M[sec][3] = bytes[3]
      BY <3>7, <3>11, <1>2 DEF Padded
    <3> QED
      BY <3>5, <3>11, <3>12, <1>2
  <2> QED
    BY <2>3, <2>4
<1> QED
  BY <1>3, <1>4, <1>5

States == [SEC : Sectors, ndx : Nat, path : Nat, pathi : Nat]

State(sec, ndx, first, at) == [SEC |-> sec, ndx |-> ndx, path |-> first, pathi |-> at]

LEMMA StateIs ==
  ASSUME NEW sec, NEW ndx, NEW first, NEW at
  PROVE  /\ State(sec, ndx, first, at).SEC = sec /\ State(sec, ndx, first, at).ndx = ndx
         /\ State(sec, ndx, first, at).path = first /\ State(sec, ndx, first, at).pathi = at
         /\ State(sec, ndx, first, at) \in States <=> sec \in Sectors /\ ndx \in Nat /\ first \in Nat /\ at \in Nat
  BY DEF State, States

LEMMA EveryState ==
  ASSUME NEW s \in States
  PROVE  \E sec \in Sectors, ndx \in Nat, first \in Nat, at \in Nat : s = State(sec, ndx, first, at)
<1>1. s = [SEC |-> s.SEC, ndx |-> s.ndx, path |-> s.path, pathi |-> s.pathi]
  BY DEF States
<1>2. s.SEC \in Sectors /\ s.ndx \in Nat /\ s.path \in Nat /\ s.pathi \in Nat
  BY DEF States
<1> QED
  BY <1>1, <1>2, Zenon DEF State

\* The states the search goes on in.
Advanced(s) == [s EXCEPT !.ndx = @ + 1, !.pathi = @ + 1]
Followed(M, s, sec) == [NextEntry(M, s) EXCEPT !.SEC = sec, !.ndx = EntryStart]

LEMMA EntriesState == \A sec, first : Entries(sec, first) = State(sec, EntryStart, first, first)
  BY DEF Entries, State

LEMMA AdvancedState ==
  ASSUME NEW sec, NEW ndx, NEW first, NEW at
  PROVE  Advanced(State(sec, ndx, first, at)) = State(sec, ndx + 1, first, at + 1)
<1> DEFINE s == State(sec, ndx, first, at)
<1>1. s.ndx = ndx /\ s.pathi = at
  BY DEF State
<1>2. [s EXCEPT !.ndx = ndx + 1] = State(sec, ndx + 1, first, at)
  BY DEF State
<1>3. [State(sec, ndx + 1, first, at) EXCEPT !.pathi = at + 1] = State(sec, ndx + 1, first, at + 1)
  BY DEF State
<1> HIDE DEF s
<1>4. Advanced(s) = [[s EXCEPT !.ndx = ndx + 1] EXCEPT !.pathi = at + 1]
  BY <1>1, Zenon DEF Advanced
<1>5. Advanced(s) = State(sec, ndx + 1, first, at + 1)
  BY <1>2, <1>3, <1>4, Zenon
<1> QED
  BY <1>5 DEF s

LEMMA NextEntryState ==
  ASSUME NEW sec, NEW ndx, NEW first, NEW at, NEW M
  PROVE  NextEntry(M, State(sec, ndx, first, at)) = State(sec, ndx + ToZero(M, sec, ndx) + 3, first, first)
<1> DEFINE s == State(sec, ndx, first, at)
<1>2. s.SEC = sec /\ s.ndx = ndx /\ s.path = first
  BY DEF State
<1>4. PICK n : n = ToZero(M, sec, ndx)
  OBVIOUS
<1>5. [s EXCEPT !.ndx = @ + n + 3] = State(sec, ndx + n + 3, first, at)
  BY DEF State
<1>6. \A x : PathAgain(State(sec, x, first, at), first) = State(sec, x, first, first)
  BY DEF State, PathAgain
<1> HIDE DEF s
<1>7. NextEntry(M, s) = PathAgain([s EXCEPT !.ndx = @ + n + 3], first)
  BY <1>2, <1>4, Zenon DEF NextEntry
<1> QED
  BY <1>4, <1>5, <1>6, <1>7, Zenon DEF s

LEMMA FollowedState ==
  ASSUME NEW sec, NEW ndx, NEW first, NEW at, NEW M, NEW chained
  PROVE  Followed(M, State(sec, ndx, first, at), chained) = State(chained, EntryStart, first, first)
<1> DEFINE s == State(sec, ndx, first, at)
<1>1. PICK n : NextEntry(M, s) = State(sec, n, first, first)
  BY NextEntryState
<1>2. [State(sec, n, first, first) EXCEPT !.SEC = chained] = State(chained, n, first, first)
  BY DEF State
<1>3. [State(chained, n, first, first) EXCEPT !.ndx = EntryStart] = State(chained, EntryStart, first, first)
  BY DEF State
<1> HIDE DEF s
<1> QED
  BY <1>1, <1>2, <1>3, Zenon DEF Followed, s

LEMMA StatesAreClosed ==
  ASSUME NEW s \in States, NEW M, NEW sec \in Sectors, NEW first \in Nat
  PROVE  /\ Entries(sec, first) \in States /\ Advanced(s) \in States
         /\ NextEntry(M, s) \in States /\ Followed(M, s, sec) \in States
<1>1. PICK x \in Sectors, ndx \in Nat, f \in Nat, at \in Nat : s = State(x, ndx, f, at)
  BY EveryState, Zenon
<1>2. EntryStart \in Nat
  BY DEF EntryStart
<1>3. PICK n \in Nat : n = ToZero(M, x, ndx)
  BY ToZeroInNat
<1>4. Entries(sec, first) = State(sec, EntryStart, first, first)
  BY EntriesState
<1>5. Advanced(s) = State(x, ndx + 1, f, at + 1)
  BY <1>1, AdvancedState
<1>6. NextEntry(M, s) = State(x, ndx + n + 3, f, f)
  BY <1>1, <1>3, NextEntryState
<1>7. Followed(M, s, sec) = State(sec, EntryStart, f, f)
  BY <1>1, FollowedState
<1>8. \A y \in Sectors, k \in Nat, g \in Nat, h \in Nat : State(y, k, g, h) \in States
  BY StateIs
<1>9. ndx + 1 \in Nat /\ at + 1 \in Nat /\ ndx + n + 3 \in Nat
  OBVIOUS
<1> QED
  BY <1>2, <1>4, <1>5, <1>6, <1>7, <1>8, <1>9, ZenonT(30)

\* What solve_path does in a state, and c from the state it goes to.
CheckStep(c, M, p, s) ==
  LET byte == ByteAt(M, s.SEC, s.ndx)
      char == CharAt(p, s.pathi)
      sector == WordOf(M, s.SEC, s.ndx + 1)
      next == NextEntry(M, s)
      chained == WordOf(M, s.SEC, NextIndex)
  IN  IF char = 0 /\ EntryEnds(byte) THEN Found(sector, s.SEC)
      ELSE IF char = Slash /\ EntryEnds(byte)
      THEN IF sector \notin Sectors THEN OutsideOfStorage(sector)
           ELSE IF ByteAt(M, sector, 0) # D THEN NotDirectory(sector)
           ELSE c[Entries(sector, s.pathi + 1)]
      ELSE IF char \notin {0, Slash} /\ byte = char
      THEN c[Advanced(s)]
      ELSE IF ByteAt(M, s.SEC, next.ndx) # 0 THEN c[next]
      ELSE IF chained = NoSector THEN NotFound(s.SEC)
      ELSE c[Followed(M, s, chained)]

LEMMA Checks ==
  ASSUME NEW M, NEW p, Chains(M)
  PROVE  \A s \in States : check_entry(M, p)[s] = CheckStep(check_entry(M, p), M, p, s)
<1> DEFINE byte(s) == ByteAt(M, s.SEC, s.ndx)
           char(s) == CharAt(p, s.pathi)
           sector(s) == WordOf(M, s.SEC, s.ndx + 1)
           next(s) == NextEntry(M, s)
           chained(s) == WordOf(M, s.SEC, NextIndex)
           ends(s) == char(s) = 0 /\ EntryEnds(byte(s))
           deeper(s) == char(s) = Slash /\ EntryEnds(byte(s))
           outside(s) == sector(s) \notin Sectors
           file(s) == ByteAt(M, sector(s), 0) # D
           matches(s) == char(s) \notin {0, Slash} /\ byte(s) = char(s)
           more(s) == ByteAt(M, s.SEC, next(s).ndx) # 0
           last(s) == chained(s) = NoSector
           entered(s) == Entries(sector(s), s.pathi + 1)
           advanced(s) == Advanced(s)
           followed(s) == Followed(M, s, chained(s))
           found(s) == Found(sector(s), s.SEC)
           none(s) == OutsideOfStorage(sector(s))
           refused(s) == NotDirectory(sector(s))
           missing(s) == NotFound(s.SEC)
           stop == {s \in States : \/ ends(s)
                                   \/ ~ends(s) /\ deeper(s) /\ (outside(s) \/ file(s))
                                   \/ ~ends(s) /\ ~deeper(s) /\ ~matches(s) /\ ~more(s) /\ last(s)}
           out == [s \in States |-> IF ends(s) THEN found(s)
                                    ELSE IF deeper(s) THEN IF outside(s) THEN none(s) ELSE refused(s)
                                    ELSE missing(s)]
           after == [s \in States |-> IF deeper(s) THEN entered(s)
                                      ELSE IF matches(s) THEN advanced(s)
                                      ELSE IF more(s) THEN next(s)
                                      ELSE followed(s)]
           Equation(g) == g = [s \in States |-> CheckStep(g, M, p, s)]
           step(g, s) == IF ends(s) THEN found(s)
                         ELSE IF deeper(s)
                         THEN IF outside(s) THEN none(s) ELSE IF file(s) THEN refused(s) ELSE g[entered(s)]
                         ELSE IF matches(s) THEN g[advanced(s)]
                         ELSE IF more(s) THEN g[next(s)]
                         ELSE IF last(s) THEN missing(s) ELSE g[followed(s)]
<1>1. ASSUME NEW s \in States PROVE
        /\ ~outside(s) => entered(s) \in States
        /\ advanced(s) \in States
        /\ next(s) \in States
        /\ ~last(s) => followed(s) \in States
  <2>1. s.pathi + 1 \in Nat /\ s.SEC \in Sectors
    BY DEF States
  <2>2. ~last(s) => chained(s) \in Sectors
    BY <2>1 DEF Chains
  <2>3. \A sec \in Sectors : Entries(sec, s.pathi + 1) \in States /\ Followed(M, s, sec) \in States
    BY <2>1, StatesAreClosed
  <2>4. ~outside(s) => entered(s) \in States
    BY <2>3, Zenon
  <2>5. ~last(s) => followed(s) \in States
    BY <2>2, <2>3, Zenon
  <2>6. advanced(s) \in States /\ next(s) \in States
    <3>1. 0 \in Sectors /\ 0 \in Nat
      BY SectorsAssumption DEF Sectors
    <3> QED
      BY <3>1, StatesAreClosed
  <2> QED
    BY <2>4, <2>5, <2>6
<1>2. \A g, s : CheckStep(g, M, p, s) = step(g, s)
  BY Zenon DEF CheckStep
<1> HIDE DEF byte, char, sector, next, chained, ends, deeper, outside, file, matches, more, last, entered, advanced, followed, found, none, refused, missing
<1>3. \A s \in States \ stop : after[s] \in States
  <2> SUFFICES ASSUME NEW s \in States, s \notin stop PROVE after[s] \in States
    OBVIOUS
  <2>1. ~ends(s) /\ ~(deeper(s) /\ (outside(s) \/ file(s))) /\ ~(~deeper(s) /\ ~matches(s) /\ ~more(s) /\ last(s))
    BY Zenon
  <2>2. after[s] = IF deeper(s) THEN entered(s) ELSE IF matches(s) THEN advanced(s) ELSE IF more(s) THEN next(s) ELSE followed(s)
    BY Zenon
  <2> HIDE DEF after, stop
  <2> QED
    BY <1>1, <2>1, <2>2, Zenon
<1>4. PICK c : c = [s \in States |-> c[s]] /\ Loops(c, States, stop, out, after)
  <2> HIDE DEF stop, out, after
  <2> QED
    BY <1>3, Loop, Zenon
<1>5. ASSUME NEW s \in States PROVE c[s] = step(c, s)
  <2>1. c[s] = IF s \in stop THEN out[s] ELSE c[after[s]]
    BY <1>4 DEF Loops
  <2>2. s \in stop <=> \/ ends(s)
                       \/ ~ends(s) /\ deeper(s) /\ (outside(s) \/ file(s))
                       \/ ~ends(s) /\ ~deeper(s) /\ ~matches(s) /\ ~more(s) /\ last(s)
    BY Zenon
  <2>3. out[s] = IF ends(s) THEN found(s) ELSE IF deeper(s) THEN IF outside(s) THEN none(s) ELSE refused(s) ELSE missing(s)
    BY Zenon
  <2>4. after[s] = IF deeper(s) THEN entered(s) ELSE IF matches(s) THEN advanced(s) ELSE IF more(s) THEN next(s) ELSE followed(s)
    BY Zenon
  <2> HIDE DEF stop, out, after
  <2>5. CASE ends(s)
    BY <2>1, <2>2, <2>3, <2>5, Zenon
  <2>6. CASE ~ends(s) /\ deeper(s)
    <3>1. step(c, s) = IF outside(s) THEN none(s) ELSE IF file(s) THEN refused(s) ELSE c[entered(s)]
      BY <2>6, Zenon
    <3>2. CASE outside(s)
      BY <2>1, <2>2, <2>3, <2>6, <3>1, <3>2, Zenon
    <3>3. CASE ~outside(s) /\ file(s)
      BY <2>1, <2>2, <2>3, <2>6, <3>1, <3>3, Zenon
    <3>4. CASE ~outside(s) /\ ~file(s)
      BY <2>1, <2>2, <2>4, <2>6, <3>1, <3>4, Zenon
    <3> QED
      BY <3>2, <3>3, <3>4, Zenon
  <2>7. CASE ~ends(s) /\ ~deeper(s) /\ matches(s)
    BY <2>1, <2>2, <2>4, <2>7, Zenon
  <2>8. CASE ~ends(s) /\ ~deeper(s) /\ ~matches(s)
    <3>1. step(c, s) = IF more(s) THEN c[next(s)] ELSE IF last(s) THEN missing(s) ELSE c[followed(s)]
      BY <2>8, Zenon
    <3>2. CASE more(s)
      BY <2>1, <2>2, <2>4, <2>8, <3>1, <3>2, Zenon
    <3>3. CASE ~more(s) /\ last(s)
      BY <2>1, <2>2, <2>3, <2>8, <3>1, <3>3, Zenon
    <3>4. CASE ~more(s) /\ ~last(s)
      BY <2>1, <2>2, <2>4, <2>8, <3>1, <3>4, Zenon
    <3> QED
      BY <3>2, <3>3, <3>4, Zenon
  <2> QED
    BY <2>5, <2>6, <2>7, <2>8, Zenon
<1>6. Equation(c)
  <2>1. \A s \in States : c[s] = CheckStep(c, M, p, s)
    BY <1>2, <1>5, Zenon
  <2> QED
    BY <1>4, <2>1
<1> DEFINE check == CHOOSE g : Equation(g)
<1>7. Equation(check)
  BY <1>6, Zenon
<1>8. check_entry(M, p) = check
  BY DEF check_entry, CheckStep, States, Advanced, Followed
<1> HIDE DEF check
<1>9. \A s \in States : check[s] = CheckStep(check, M, p, s)
  BY <1>7
<1> QED
  BY <1>8, <1>9

\* A step of the search in a directory of one sector.
StepIs(M, p, sec, ndx, first, at) ==
  LET c == check_entry(M, p)
      byte == ByteAt(M, sec, ndx)
      char == CharAt(p, at)
      target == WordOf(M, sec, ndx + 1)
      after == ndx + ToZero(M, sec, ndx) + 3
  IN  /\ byte = 0 /\ char = 0 => c[State(sec, ndx, first, at)] = Found(target, sec)
      /\ byte = 0 /\ char = Slash =>
           c[State(sec, ndx, first, at)] =
             IF target \notin Sectors THEN OutsideOfStorage(target)
             ELSE IF ByteAt(M, target, 0) # D THEN NotDirectory(target)
             ELSE c[Entries(target, at + 1)]
      /\ char \notin {0, Slash} /\ byte = char => c[State(sec, ndx, first, at)] = c[State(sec, ndx + 1, first, at + 1)]
      /\ (char \in {0, Slash} /\ byte # 0) \/ (char \notin {0, Slash} /\ byte # char) =>
           c[State(sec, ndx, first, at)] =
             IF ByteAt(M, sec, after) # 0 THEN c[State(sec, after, first, first)] ELSE NotFound(sec)

LEMMA CheckCases ==
  ASSUME NEW M, NEW p, Chains(M), NEW sec \in Sectors, WordOf(M, sec, NextIndex) = NoSector,
         NEW ndx \in Nat, NEW first \in Nat, NEW at \in Nat
  PROVE  StepIs(M, p, sec, ndx, first, at)
<1> PICK c : c = check_entry(M, p)
  OBVIOUS
<1> PICK byte : byte = ByteAt(M, sec, ndx)
  OBVIOUS
<1> PICK char : char = CharAt(p, at)
  OBVIOUS
<1> PICK target : target = WordOf(M, sec, ndx + 1)
  OBVIOUS
<1> PICK after : after = ndx + ToZero(M, sec, ndx) + 3
  OBVIOUS
<1> DEFINE s == State(sec, ndx, first, at)
<1>1. s \in States /\ s.SEC = sec /\ s.ndx = ndx /\ s.path = first /\ s.pathi = at
  BY StateIs
<1>2. Advanced(s) = State(sec, ndx + 1, first, at + 1) /\ NextEntry(M, s) = State(sec, after, first, first)
  BY AdvancedState, NextEntryState
<1>3. State(sec, after, first, first).ndx = after
  BY StateIs
<1> HIDE DEF s
<1>4. c[s] = CheckStep(c, M, p, s)
  BY <1>1, Checks
<1>5. CheckStep(c, M, p, s) =
        IF char = 0 /\ EntryEnds(byte) THEN Found(target, sec)
        ELSE IF char = Slash /\ EntryEnds(byte)
        THEN IF target \notin Sectors THEN OutsideOfStorage(target)
             ELSE IF ByteAt(M, target, 0) # D THEN NotDirectory(target)
             ELSE c[Entries(target, at + 1)]
        ELSE IF char \notin {0, Slash} /\ byte = char THEN c[State(sec, ndx + 1, first, at + 1)]
        ELSE IF ByteAt(M, sec, after) # 0 THEN c[State(sec, after, first, first)]
        ELSE IF WordOf(M, sec, NextIndex) = NoSector THEN NotFound(sec)
        ELSE c[Followed(M, s, WordOf(M, sec, NextIndex))]
  <2>1. NextEntry(M, s).ndx = after
    BY <1>2, <1>3, Zenon
  <2> QED
    BY <1>1, <1>2, <2>1 DEF CheckStep
<1>6. Slash # 0 /\ (EntryEnds(byte) <=> byte = 0)
  BY Constants DEF EntryEnds, CharBytes
<1> HIDE DEF CheckStep
<1>7. byte = 0 /\ char = 0 => c[s] = Found(target, sec)
  BY <1>4, <1>5, <1>6
<1>8. byte = 0 /\ char = Slash =>
        c[s] = IF target \notin Sectors THEN OutsideOfStorage(target)
               ELSE IF ByteAt(M, target, 0) # D THEN NotDirectory(target)
               ELSE c[Entries(target, at + 1)]
  BY <1>4, <1>5, <1>6
<1>9. char \notin {0, Slash} /\ byte = char => c[s] = c[State(sec, ndx + 1, first, at + 1)]
  BY <1>4, <1>5, <1>6
<1>10. (char \in {0, Slash} /\ byte # 0) \/ (char \notin {0, Slash} /\ byte # char) =>
         c[s] = IF ByteAt(M, sec, after) # 0 THEN c[State(sec, after, first, first)] ELSE NotFound(sec)
  BY <1>4, <1>5, <1>6
<1> QED
  BY <1>7, <1>8, <1>9, <1>10 DEF s, StepIs

\* The characters of a name in a path.
LEMMA EndIs ==
  ASSUME NEW p \in Seq(CharBytes), NEW first \in 1 .. Len(p) + 1
  PROVE  /\ End(p, first) \in first .. Len(p) + 1
         /\ CharAt(p, End(p, first)) = IF End(p, first) = Len(p) + 1 THEN 0 ELSE Slash
         /\ \A k \in first .. End(p, first) - 1 :
              /\ k \in 1 .. Len(p) /\ CharAt(p, k) = p[k] /\ p[k] \in CharBytes
              /\ CharAt(p, k) \notin {0, Slash}
<1> DEFINE L == Len(p)
           T == {k \in first .. L + 1 : k = L + 1 \/ p[k] = Slash}
           Ends(e) == /\ e = L + 1 \/ p[e] = Slash
                      /\ \A k \in first .. e - 1 : p[k] # Slash
           end == CHOOSE e \in first .. L + 1 : Ends(e)
<1>1. L \in Nat /\ first \in Nat
  BY LenProperties
<1>2. L + 1 \in T /\ T \in SUBSET Nat
  BY <1>1
<1>3. PICK x \in T : \A y \in T : x <= y
  <2> HIDE DEF T
  <2> QED
    BY <1>2, LeastElement
<1>4. x \in first .. L + 1 /\ Ends(x)
  <2>1. x \in first .. L + 1 /\ (x = L + 1 \/ p[x] = Slash)
    BY <1>3
  <2>2. ASSUME NEW k \in first .. x - 1 PROVE p[k] # Slash
    <3>1. k \in first .. L + 1 /\ k < x /\ k \in Int /\ x \in Int
      BY <2>1, <1>1
    <3>2. p[k] = Slash => k \in T
      BY <3>1
    <3>3. k \in T => x <= k
      BY <1>3, Zenon
    <3> QED
      BY <3>1, <3>2, <3>3
  <2> QED
    BY <2>1, <2>2
<1>5. end \in first .. L + 1 /\ Ends(end)
  <2> HIDE DEF Ends
  <2> QED
    BY <1>4, Zenon
<1>6. End(p, first) = end
  BY DEF End
<1> HIDE DEF end
<1>7. CharAt(p, end) = IF end = L + 1 THEN 0 ELSE Slash
  <2>1. end > L <=> end = L + 1
    BY <1>1, <1>5
  <2> QED
    BY <1>5, <2>1 DEF CharAt
<1>8. ASSUME NEW k \in first .. end - 1
      PROVE  k \in 1 .. L /\ CharAt(p, k) = p[k] /\ p[k] \in CharBytes /\ CharAt(p, k) \notin {0, Slash}
  <2>1. k \in 1 .. L /\ ~(k > L)
    BY <1>1, <1>5
  <2>2. p[k] \in CharBytes
    BY <2>1, ElementOfSeq
  <2>3. p[k] # Slash
    BY <1>5
  <2>4. CharAt(p, k) = p[k] /\ p[k] # 0
    BY <2>1, <2>2 DEF CharAt, CharBytes
  <2> QED
    BY <2>1, <2>2, <2>3, <2>4
<1> QED
  BY <1>5, <1>6, <1>7, <1>8

\* The name that begins at first.
Name(p, first) == SubSeq(p, first, End(p, first) - 1)

LEMMA NameIs ==
  ASSUME NEW p \in Seq(CharBytes), NEW first \in 1 .. Len(p) + 1
  PROVE  /\ Name(p, first) \in Seq(CharBytes) /\ Len(Name(p, first)) = End(p, first) - first
         /\ \A k \in 1 .. End(p, first) - first : Name(p, first)[k] = CharAt(p, first + (k - 1))
<1>1. PICK end : end = End(p, first)
  OBVIOUS
<1>2. /\ end \in first .. Len(p) + 1 /\ Len(p) \in Nat
      /\ \A k \in first .. end - 1 : k \in 1 .. Len(p) /\ CharAt(p, k) = p[k] /\ p[k] \in CharBytes
  BY <1>1, EndIs, LenProperties
<1> DEFINE name == SubSeq(p, first, end - 1)
<1>3. /\ name \in Seq(CharBytes) /\ Len(name) = end - first
      /\ \A k \in 1 .. end - first : name[k] = p[first + (k - 1)]
  <2>1. name = [k \in 1 .. end - first |-> p[first + k - 1]]
    BY <1>2
  <2>2. ASSUME NEW k \in 1 .. end - first PROVE first + k - 1 \in first .. end - 1 /\ first + k - 1 = first + (k - 1)
    BY <1>2
  <2>3. end - first \in Nat
    BY <1>2
  <2>4. name \in Seq(CharBytes) /\ Len(name) = end - first
    BY <2>1, <2>2, <2>3, <1>2
  <2> QED
    BY <2>1, <2>2, <2>4
<1>4. ASSUME NEW k \in 1 .. end - first PROVE name[k] = CharAt(p, first + (k - 1))
  <2>1. PICK j \in first .. end - 1 : j = first + (k - 1)
    BY <1>2
  <2> QED
    BY <2>1, <1>2, <1>3
<1> HIDE DEF name
<1> QED
  BY <1>1, <1>3, <1>4 DEF Name, name

\* Where the search goes from an entry with the name that begins at first.
AtName(M, p, sec, first, target) ==
  IF End(p, first) = Len(p) + 1 THEN Found(target, sec)
  ELSE IF target \notin Sectors THEN OutsideOfStorage(target)
  ELSE IF ByteAt(M, target, 0) # D THEN NotDirectory(target)
  ELSE check_entry(M, p)[Entries(target, End(p, first) + 1)]

\* Whether another entry is at ndx, and what the search finds from it on.
AtNext(M, p, sec, first, ndx) ==
  IF ByteAt(M, sec, ndx) # 0 THEN check_entry(M, p)[State(sec, ndx, first, first)] ELSE NotFound(sec)

LEMMA EntrySearched ==
  ASSUME NEW M, NEW p \in Seq(CharBytes), Chains(M), NEW sec \in Sectors, WordOf(M, sec, NextIndex) = NoSector,
         NEW first \in 1 .. Len(p) + 1, NEW ndx, NEW name \in Seq(Bytes), NEW target,
         EntryAt(M, sec, ndx, name, target),
         \A n \in 1 .. Len(name) : name[n] \in CharBytes /\ name[n] # Slash
  PROVE  check_entry(M, p)[State(sec, ndx, first, first)] =
           IF name = Name(p, first) THEN AtName(M, p, sec, first, target)
           ELSE AtNext(M, p, sec, first, ndx + Len(name) + 3)
<1>1. PICK l \in Nat : l = Len(name)
  BY LenProperties
<1>2. /\ ndx \in Nat /\ ndx + l + 3 < BYTE
      /\ \A n \in 1 .. l : ByteAt(M, sec, ndx + (n - 1)) = name[n]
      /\ ByteAt(M, sec, ndx + l) = 0
      /\ WordOf(M, sec, ndx + l + 1) = target
  BY <1>1 DEF EntryAt
<1>3. \A n \in 1 .. l : name[n] # 0 /\ name[n] # Slash
  BY <1>1 DEF CharBytes
<1>4. PICK end : end = End(p, first)
  OBVIOUS
<1>5. /\ end \in first .. Len(p) + 1 /\ Len(p) \in Nat /\ first \in Nat \ {0}
      /\ CharAt(p, end) = IF end = Len(p) + 1 THEN 0 ELSE Slash
      /\ \A k \in first .. end - 1 : CharAt(p, k) \notin {0, Slash}
  <2>1. Len(p) \in Nat
    BY LenProperties
  <2> QED
    BY <1>4, <2>1, EndIs
<1>6. PICK wanted : wanted = Name(p, first)
  OBVIOUS
<1>7. PICK w \in Nat : /\ w = end - first /\ Len(wanted) = w /\ wanted \in Seq(CharBytes)
                       /\ \A k \in 1 .. w : wanted[k] = CharAt(p, first + (k - 1))
  <2>1. /\ Name(p, first) \in Seq(CharBytes) /\ Len(Name(p, first)) = End(p, first) - first
        /\ \A k \in 1 .. End(p, first) - first : Name(p, first)[k] = CharAt(p, first + (k - 1))
    BY NameIs
  <2>2. PICK w \in Nat : w = end - first
    BY <1>5
  <2>3. Len(wanted) = w /\ wanted \in Seq(CharBytes) /\ \A k \in 1 .. w : wanted[k] = CharAt(p, first + (k - 1))
    BY <2>1, <2>2, <1>4, <1>6, Zenon
  <2> QED
    BY <2>2, <2>3
<1>8. PICK c : c = check_entry(M, p)
  OBVIOUS
<1>9. Slash # 0
  BY Constants DEF CharBytes
\* How many characters agree.
<1> DEFINE K == {k \in 0 .. l : k = l \/ k = w \/ name[k + 1] # wanted[k + 1]}
<1>10. PICK m \in K : \A k \in K : m <= k
  <2>1. l \in K /\ K \in SUBSET Nat
    OBVIOUS
  <2> HIDE DEF K
  <2> QED
    BY <2>1, LeastElement
<1>11. m \in 0 .. l /\ (m = l \/ m = w \/ name[m + 1] # wanted[m + 1])
  OBVIOUS
<1>12. \A k \in 0 .. l : k < m => k # l /\ k # w /\ name[k + 1] = wanted[k + 1]
  <2> SUFFICES ASSUME NEW k \in 0 .. l, k < m PROVE k \notin K
    OBVIOUS
  <2>1. k \in K => m <= k
    BY <1>10, Zenon
  <2> QED
    BY <2>1, <1>11
<1> HIDE DEF K
<1>13. m <= w
  <2> SUFFICES ASSUME w < m PROVE FALSE
    BY <1>11
  <2>1. w \in 0 .. l
    BY <1>11
  <2> QED
    BY <2>1, <1>12
<1> DEFINE at(k) == State(sec, ndx + k, first, first + k)
\* What is compared after k characters.
<1>14. ASSUME NEW k \in 0 .. m
       PROVE  /\ ByteAt(M, sec, ndx + k) = IF k < l THEN name[k + 1] ELSE 0
              /\ CharAt(p, first + k) = IF k < w THEN wanted[k + 1] ELSE CharAt(p, end)
              /\ k < w => CharAt(p, first + k) \notin {0, Slash}
              /\ ndx + k \in Nat /\ first + k \in Nat
              /\ ndx + k + ToZero(M, sec, ndx + k) + 3 = ndx + l + 3
  <2>1. k \in 0 .. l /\ k \in Nat /\ k <= w
    BY <1>11, <1>13
  <2>2. ByteAt(M, sec, ndx + k) = IF k < l THEN name[k + 1] ELSE 0
    <3>1. CASE k < l
      <4>1. PICK n \in 1 .. l : n = k + 1
        BY <2>1, <3>1
      <4>2. ndx + (n - 1) = ndx + k
        BY <4>1, <2>1, <1>2
      <4>3. ByteAt(M, sec, ndx + (n - 1)) = name[n]
        BY <1>2
      <4> QED
        BY <3>1, <4>1, <4>2, <4>3
    <3>2. CASE ~(k < l)
      <4>1. k = l
        BY <2>1, <3>2
      <4> QED
        BY <3>2, <4>1, <1>2
    <3> QED
      BY <3>1, <3>2
  <2>3. CharAt(p, first + k) = (IF k < w THEN wanted[k + 1] ELSE CharAt(p, end)) /\ (k < w => CharAt(p, first + k) \notin {0, Slash})
    <3>1. CASE k < w
      <4>1. PICK n \in 1 .. w : n = k + 1
        BY <2>1, <3>1
      <4>2. first + (n - 1) = first + k /\ first + k \in first .. end - 1
        BY <4>1, <2>1, <1>5, <1>7, <3>1
      <4>3. wanted[n] = CharAt(p, first + (n - 1))
        BY <1>7
      <4>4. CharAt(p, first + k) \notin {0, Slash}
        BY <4>2, <1>5
      <4> QED
        BY <3>1, <4>1, <4>2, <4>3, <4>4
    <3>2. CASE ~(k < w)
      <4>1. k = w /\ first + k = end
        BY <2>1, <3>2, <1>5, <1>7
      <4> QED
        BY <3>2, <4>1
    <3> QED
      BY <3>1, <3>2
  <2>4. ndx + k \in Nat /\ first + k \in Nat
    BY <2>1, <1>2, <1>5
  <2>5. ToZero(M, sec, ndx + k) = l - k
    <3>1. k \in 0 .. Len(name) /\ Len(name) \in Nat /\ \A n \in 1 .. Len(name) : name[n] # 0
      BY <2>1, <1>1, <1>3
    <3> QED
      BY <3>1, <1>1, ToZeroInEntry
  <2>6. ndx + k + (l - k) + 3 = ndx + l + 3
    BY <2>1, <1>2
  <2> QED
    BY <2>2, <2>3, <2>4, <2>5, <2>6
<1>15. ASSUME NEW k \in 0 .. m - 1 PROVE c[at(k)] = c[at(k + 1)]
  <2>1. k \in 0 .. m /\ k \in 0 .. l /\ k < m /\ k < w /\ k < l
    <3>1. m \in Nat /\ m <= l
      BY <1>11
    <3> QED
      BY <3>1, <1>13
  <2>2. name[k + 1] = wanted[k + 1]
    BY <2>1, <1>12
  <2>3. PICK x \in Nat, y \in Nat : x = ndx + k /\ y = first + k
    BY <2>1, <1>14
  <2>4. ByteAt(M, sec, x) = CharAt(p, y) /\ CharAt(p, y) \notin {0, Slash}
    BY <2>1, <2>2, <2>3, <1>14
  <2>7. StepIs(M, p, sec, x, first, y)
    BY <1>5, CheckCases
  <2>5. c[State(sec, x, first, y)] = c[State(sec, x + 1, first, y + 1)]
    BY <2>4, <2>7, <1>8 DEF StepIs
  <2>6. x + 1 = ndx + (k + 1) /\ y + 1 = first + (k + 1)
    BY <2>1, <2>3, <1>2, <1>5
  <2> QED
    BY <2>3, <2>5, <2>6
<1>16. c[State(sec, ndx, first, first)] = c[at(m)]
  <2> DEFINE T == {k \in Nat : k <= m => c[at(k)] = c[at(0)]}
  <2>1. 0 \in T
    OBVIOUS
  <2>2. ASSUME NEW k \in Nat, k \in T PROVE k + 1 \in T
    <3>1. k + 1 <= m => k \in 0 .. m - 1 /\ k <= m
      BY <1>11
    <3>2. k \in 0 .. m - 1 => c[at(k)] = c[at(k + 1)]
      BY <1>15
    <3> HIDE DEF at
    <3> QED
      BY <2>2, <3>1, <3>2
  <2>3. T \in SUBSET Nat
    OBVIOUS
  <2>4. \A k \in Nat : k \in T
    <3> HIDE DEF T
    <3> QED
      BY <2>1, <2>2, <2>3, AllNumbers
  <2>5. m \in Nat /\ m <= m
    BY <1>11
  <2>6. c[at(m)] = c[at(0)]
    <3> HIDE DEF at
    <3> QED
      BY <2>4, <2>5
  <2>7. ndx + 0 = ndx /\ first + 0 = first
    BY <1>2, <1>5
  <2> QED
    BY <2>6, <2>7
<1>17. PICK x \in Nat, y \in Nat : x = ndx + m /\ y = first + m
  <2>1. m \in 0 .. m
    BY <1>11
  <2> QED
    BY <2>1, <1>14
<1>18. PICK byte, char :
         /\ byte = ByteAt(M, sec, x) /\ char = CharAt(p, y)
         /\ byte = (IF m < l THEN name[m + 1] ELSE 0)
         /\ char = (IF m < w THEN wanted[m + 1] ELSE CharAt(p, end))
         /\ m < w => char \notin {0, Slash}
         /\ x + ToZero(M, sec, x) + 3 = ndx + l + 3
  <2>1. m \in 0 .. m
    BY <1>11
  <2> QED
    BY <2>1, <1>14, <1>17
<1>19. m < l => byte # 0
  <2>1. m < l => m + 1 \in 1 .. l
    BY <1>11
  <2> QED
    BY <2>1, <1>3, <1>18
<1> HIDE DEF at
<1>20. c[State(sec, ndx, first, first)] = c[State(sec, x, first, y)]
  BY <1>16, <1>17 DEF at
<1>23. StepIs(M, p, sec, x, first, y)
  BY <1>5, CheckCases
<1>21. CASE m = l /\ m = w
  <2>1. name = wanted
    <3>1. \A k \in 1 .. l : name[k] = wanted[k]
      <4> SUFFICES ASSUME NEW k \in 1 .. l PROVE name[k] = wanted[k]
        OBVIOUS
      <4>1. PICK j \in 0 .. l : j + 1 = k /\ j < m
        <5>1. k - 1 \in 0 .. l /\ (k - 1) + 1 = k /\ k - 1 < m
          BY <1>21
        <5> QED
          BY <5>1
      <4> QED
        BY <4>1, <1>12
    <3>2. name \in Seq(Bytes) /\ wanted \in Seq(Bytes) /\ Len(name) = Len(wanted)
      <4>1. CharBytes \subseteq Bytes
        BY Constants
      <4>2. wanted \in Seq(Bytes)
        BY <4>1, <1>7, LargerSeq
      <4> QED
        BY <4>2, <1>1, <1>7, <1>21
    <3> QED
      BY <3>1, <3>2, <1>1, SeqEqual
  <2>2. byte = 0 /\ char = CharAt(p, end) /\ y = end
    <3>1. ~(m < l) /\ ~(m < w) /\ y = end
      BY <1>21, <1>17, <1>7, <1>5
    <3> QED
      BY <3>1, <1>18
  <2>3. WordOf(M, sec, x + 1) = target
    <3>1. x + 1 = ndx + l + 1
      BY <1>17, <1>21, <1>2
    <3> QED
      BY <3>1, <1>2
  <2>4. CASE end = Len(p) + 1
    <3>1. char = 0
      BY <2>2, <2>4, <1>5
    <3>2. c[State(sec, x, first, y)] = Found(target, sec)
      BY <2>2, <2>3, <3>1, <1>8, <1>18, <1>23 DEF StepIs
    <3> QED
      BY <2>1, <2>4, <3>2, <1>4, <1>6, <1>8, <1>20 DEF AtName
  <2>5. CASE end # Len(p) + 1
    <3>1. char = Slash
      BY <2>2, <2>5, <1>5
    <3>2. c[State(sec, x, first, y)] =
            IF target \notin Sectors THEN OutsideOfStorage(target)
            ELSE IF ByteAt(M, target, 0) # D THEN NotDirectory(target)
            ELSE c[Entries(target, y + 1)]
      BY <2>2, <2>3, <3>1, <1>8, <1>18, <1>23 DEF StepIs
    <3>3. AtName(M, p, sec, first, target) =
            IF target \notin Sectors THEN OutsideOfStorage(target)
            ELSE IF ByteAt(M, target, 0) # D THEN NotDirectory(target)
            ELSE c[Entries(target, y + 1)]
      BY <2>2, <2>5, <1>4, <1>8 DEF AtName
    <3> QED
      BY <2>1, <3>2, <3>3, <1>6, <1>8, <1>20
  <2> QED
    BY <2>4, <2>5
<1>22. CASE ~(m = l /\ m = w)
  <2>1. name # wanted
    <3> SUFFICES ASSUME name = wanted PROVE FALSE
      OBVIOUS
    <3>1. l = w
      BY <1>1, <1>7
    <3>2. m = l \/ m = w
      BY <1>11
    <3> QED
      BY <3>1, <3>2, <1>22
  <2>2. (char \in {0, Slash} /\ byte # 0) \/ (char \notin {0, Slash} /\ byte # char)
    <3>1. CASE m < w
      <4>1. CASE m < l
        <5>1. m # l /\ m # w
          BY <3>1, <4>1, <1>11
        <5>2. byte # char
          BY <3>1, <4>1, <5>1, <1>11, <1>18
        <5> QED
          BY <3>1, <5>2, <1>18
      <4>2. CASE ~(m < l)
        <5>1. byte = 0 /\ char \notin {0, Slash}
          BY <3>1, <4>2, <1>18
        <5> QED
          BY <5>1
      <4> QED
        BY <4>1, <4>2
    <3>2. CASE ~(m < w)
      <4>1. m = w /\ m # l /\ m < l
        BY <3>2, <1>11, <1>13, <1>22
      <4>2. char = CharAt(p, end)
        BY <3>2, <1>18
      <4>3. char \in {0, Slash}
        BY <4>2, <1>5
      <4> QED
        BY <4>1, <4>3, <1>19
    <3> QED
      BY <3>1, <3>2
  <2>3. PICK after : after = x + ToZero(M, sec, x) + 3 /\ after = ndx + l + 3
    BY <1>18
  <2>4. c[State(sec, x, first, y)] =
          IF ByteAt(M, sec, after) # 0 THEN c[State(sec, after, first, first)] ELSE NotFound(sec)
    BY <2>2, <2>3, <1>8, <1>18, <1>23 DEF StepIs
  <2>5. c[State(sec, x, first, y)] = AtNext(M, p, sec, first, after)
    BY <2>4, <1>8 DEF AtNext
  <2> QED
    BY <2>1, <2>3, <2>5, <1>1, <1>6, <1>8, <1>20
<1> QED
  BY <1>21, <1>22

\* The entries of a directory with a name, and the first of them.
Named(im, i, name, e) == IsEntry(im, i, e) /\ EntryName(im, e) = name
First(im, i, name, e) == Named(im, i, name, e) /\ \A r \in 0 .. Len(im) : r < e => ~Named(im, i, name, r)

LEMMA FirstOfName ==
  ASSUME NEW im, Len(im) \in Nat, NEW i, NEW name, NEW e \in 0 .. Len(im), Named(im, i, name, e)
  PROVE  \E f \in 0 .. Len(im) : First(im, i, name, f)
<1> DEFINE T == {r \in 0 .. Len(im) : Named(im, i, name, r)}
<1>1. T \in SUBSET Nat /\ T # {}
  OBVIOUS
<1> HIDE DEF T
<1>2. PICK f \in T : \A r \in T : f <= r
  BY <1>1, LeastElement
<1> USE DEF T
<1>3. f \in 0 .. Len(im) /\ Named(im, i, name, f)
  OBVIOUS
<1>4. ASSUME NEW r \in 0 .. Len(im), r < f PROVE ~Named(im, i, name, r)
  <2>1. r \in T => f <= r
    BY <1>2
  <2> QED
    BY <2>1, <1>3, <1>4
<1> QED
  BY <1>3, <1>4 DEF First

\* The search among the entries of a directory.
Searched(im, i, p, first) ==
  LET M == Encode(im)
      sec == SectorOf(im)[i]
      c == check_entry(M, p)
      name == Name(p, first)
  IN  /\ \A e \in 0 .. Len(im) : First(im, i, name, e) => c[Entries(sec, first)] = AtName(M, p, sec, first, SectorOfEntry(im, i, e))
      /\ (\A e \in 0 .. Len(im) : ~Named(im, i, name, e)) => c[Entries(sec, first)] = NotFound(sec)

LEMMA DirectorySearched ==
  ASSUME NEW im, IsImage(im), Accepted(im), NEW i \in 1 .. Len(im), im[i].dir,
         NEW p \in Seq(CharBytes), NEW first \in 1 .. Len(p) + 1
  PROVE  Searched(im, i, p, first)
<1> DEFINE L == Len(im)
           M == Encode(im)
           sec == SectorOf(im)[i]
           Here(e) == Named(im, i, Name(p, first), e)
           target(e) == SectorOfEntry(im, i, e)
<1>1. L \in Nat \ {0}
  BY DEF IsImage
<1>2. PICK at : Listed(M, im, i, at)
  BY Layout
<1>3. /\ ByteAt(M, sec, 0) = D /\ WordOf(M, sec, NextIndex) = NoSector
      /\ at \in [0 .. L + 1 -> Nat] /\ at[0] = EntryStart
      /\ ByteAt(M, sec, at[L + 1]) = 0
  BY <1>2 DEF Listed
<1>4. ASSUME NEW e \in 0 .. L
      PROVE  IF IsEntry(im, i, e) THEN EntryAt(M, sec, at[e], EntryName(im, e), target(e)) /\ at[e + 1] = at[e] + Len(EntryName(im, e)) + 3
             ELSE at[e + 1] = at[e]
  BY <1>2 DEF Listed
<1>5. sec \in Sectors /\ Chains(M)
  BY SectorsExist, ChainsOfImages
<1> HIDE DEF M, sec
<1> DEFINE next(e) == AtNext(M, p, sec, first, at[e])
           found(e) == AtName(M, p, sec, first, target(e))
<1>6. ASSUME NEW e \in 0 .. L, IsEntry(im, i, e)
      PROVE  /\ ByteAt(M, sec, at[e]) # 0
             /\ next(e) = IF EntryName(im, e) = Name(p, first) THEN found(e) ELSE next(e + 1)
  <2> DEFINE name == EntryName(im, e)
  <2>1. /\ name \in Seq(Bytes) /\ Len(name) \in Nat \ {0}
        /\ \A n \in 1 .. Len(name) : name[n] \in CharBytes /\ name[n] # Slash
    BY NamesOfEntries
  <2>2. EntryAt(M, sec, at[e], name, target(e)) /\ at[e + 1] = at[e] + Len(name) + 3
    BY <1>4, <1>6
  <2> HIDE DEF name
  <2>3. ByteAt(M, sec, at[e]) # 0
    <3>1. 1 \in 1 .. Len(name) /\ at[e] \in Nat
      BY <2>1, <1>1, <1>3
    <3>2. at[e] + (1 - 1) = at[e]
      BY <3>1
    <3>3. ByteAt(M, sec, at[e] + (1 - 1)) = name[1]
      BY <2>2, <3>1 DEF EntryAt
    <3>4. name[1] # 0
      BY <2>1, <3>1 DEF CharBytes
    <3> QED
      BY <3>2, <3>3, <3>4
  <2>4. check_entry(M, p)[State(sec, at[e], first, first)] =
          IF name = Name(p, first) THEN AtName(M, p, sec, first, target(e))
          ELSE AtNext(M, p, sec, first, at[e] + Len(name) + 3)
    BY <2>1, <2>2, <1>3, <1>5, EntrySearched
  <2>5. next(e) = check_entry(M, p)[State(sec, at[e], first, first)]
    BY <2>3 DEF AtNext
  <2> QED
    BY <2>2, <2>3, <2>4, <2>5 DEF name
<1>7. ASSUME NEW e \in 0 .. L, ~IsEntry(im, i, e) PROVE next(e) = next(e + 1)
  BY <1>4, <1>7
<1> HIDE DEF next, found, target
<1> DEFINE Right(e) == /\ \A r \in e .. L : Here(r) /\ (\A q \in e .. r - 1 : ~Here(q)) => next(e) = found(r)
                       /\ (\A r \in e .. L : ~Here(r)) => next(e) = NotFound(sec)
           T == {e \in 0 .. L + 1 : Right(e)}
<1>8. L + 1 \in T
  <2>1. \A r \in L + 1 .. L : FALSE
    BY <1>1
  <2>2. next(L + 1) = NotFound(sec)
    BY <1>3 DEF next, AtNext
  <2>3. L + 1 \in 0 .. L + 1
    BY <1>1
  <2> QED
    BY <2>1, <2>2, <2>3
<1>9. ASSUME NEW e \in 0 .. (L + 1) - 1, e + 1 \in T PROVE e \in T
  <2>1. e \in 0 .. L /\ e \in 0 .. L + 1 /\ \A r \in e .. L : r = e \/ r \in e + 1 .. L
    BY <1>1
  <2>2. Right(e + 1)
    BY <1>9
  <2>3. e \in e .. L /\ \A r \in e + 1 .. L : r \in e .. L /\ r \in 0 .. L
    BY <2>1, <1>1
  <2>4. CASE Here(e)
    <3>1. next(e) = found(e)
      BY <2>1, <2>4, <1>6 DEF Named
    <3> HIDE DEF Here
    <3>2. ASSUME NEW k \in e .. L, \A q \in e .. k - 1 : ~Here(q) PROVE k = e
      <4>1. k # e => e \in e .. k - 1
        BY <2>1, <1>1
      <4> QED
        BY <4>1, <3>2, <2>4
    <3>3. ~(\A r \in e .. L : ~Here(r))
      BY <2>3, <2>4
    <3>4. Right(e)
      BY <3>1, <3>2, <3>3
    <3> QED
      BY <2>1, <3>4
  <2>5. CASE ~Here(e)
    <3>1. next(e) = next(e + 1)
      BY <2>1, <2>5, <1>6, <1>7 DEF Named
    <3> HIDE DEF Here
    <3>2. ASSUME NEW k \in e .. L, Here(k), \A q \in e .. k - 1 : ~Here(q) PROVE next(e) = found(k)
      <4>1. k \in e + 1 .. L
        BY <2>1, <2>5, <3>2
      <4>2. \A q \in e + 1 .. k - 1 : q \in e .. k - 1
        BY <2>1
      <4> QED
        BY <4>1, <4>2, <3>1, <3>2, <2>2
    <3>3. (\A r \in e .. L : ~Here(r)) => next(e) = NotFound(sec)
      BY <2>2, <2>3, <3>1
    <3>4. Right(e)
      BY <3>2, <3>3
    <3> QED
      BY <2>1, <3>4
  <2> QED
    BY <2>4, <2>5
<1>10. \A e \in 0 .. L + 1 : e \in T
  <2> HIDE DEF T
  <2>1. L + 1 \in Nat
    BY <1>1
  <2> QED
    BY <2>1, <1>8, <1>9, Downward
<1>11. Right(0)
  <2>1. 0 \in 0 .. L + 1
    BY <1>1
  <2> HIDE DEF Right
  <2> QED
    BY <2>1, <1>10
<1>12. next(0) = check_entry(M, p)[Entries(sec, first)]
  <2>1. 0 \in 0 .. L /\ IsEntry(im, i, 0)
    BY <1>1 DEF IsEntry
  <2>2. ByteAt(M, sec, at[0]) # 0
    BY <2>1, <1>6
  <2>3. Entries(sec, first) = State(sec, EntryStart, first, first)
    BY EntriesState
  <2> QED
    BY <2>2, <2>3, <1>3 DEF next, AtNext
<1>13. ASSUME NEW e \in 0 .. L, First(im, i, Name(p, first), e)
       PROVE  check_entry(M, p)[Entries(sec, first)] = AtName(M, p, sec, first, SectorOfEntry(im, i, e))
  <2>1. Here(e) /\ \A q \in 0 .. L : q < e => ~Here(q)
    BY <1>13 DEF First
  <2> HIDE DEF Here
  <2>2. \A q \in 0 .. e - 1 : q \in 0 .. L /\ q < e
    BY <1>1
  <2>3. next(0) = found(e)
    BY <2>1, <2>2, <1>11
  <2> QED
    BY <2>3, <1>12 DEF found, target
<1>14. (\A r \in 0 .. L : ~Here(r)) => check_entry(M, p)[Entries(sec, first)] = NotFound(sec)
  BY <1>11, <1>12
<1> QED
  BY <1>13, <1>14 DEF Searched, M, sec

-----------------------------------------------------------------------------
(* The walk *)

\* The children the walk sees are the entries the search sees.
LEMMA ChildIs ==
  ASSUME IsImage(image), Accepted(image), NEW i \in 1 .. Len(image), NEW name
  PROVE  /\ \A e \in 0 .. Len(image) : First(image, i, name, e) => Child(i, name) = {EntryNode(image, i, e)}
         /\ (\A e \in 0 .. Len(image) : ~Named(image, i, name, e)) => Child(i, name) = {}
<1> DEFINE L == Len(image)
           named == {j \in 2 .. L : image[j].parent = i /\ image[j].name = name}
<1>1. L \in Nat \ {0}
  BY DEF IsImage
<1>2. EntryName(image, 0) = << Dot, Dot >> /\ EntryName(image, 1) = << Dot >> /\ << Dot, Dot >> # << Dot >>
  BY DEF EntryName
<1>3. \A e \in 2 .. L : /\ EntryName(image, e) = image[e].name /\ image[e].name \notin {<< Dot >>, << Dot, Dot >>}
                        /\ EntryNode(image, i, e) = e /\ (IsEntry(image, i, e) <=> image[e].parent = i)
  <2> SUFFICES ASSUME NEW e \in 2 .. L
               PROVE  /\ EntryName(image, e) = image[e].name /\ image[e].name \notin {<< Dot >>, << Dot, Dot >>}
                      /\ EntryNode(image, i, e) = e /\ (IsEntry(image, i, e) <=> image[e].parent = i)
    OBVIOUS
  <2>1. e # 0 /\ e # 1
    OBVIOUS
  <2>2. image[e].name \notin {<< Dot >>, << Dot, Dot >>}
    BY NodeFacts, Names
  <2> QED
    BY <2>1, <2>2 DEF EntryName, EntryNode, IsEntry
<1>4. ASSUME NEW e \in 0 .. L, First(image, i, name, e) PROVE Child(i, name) = {EntryNode(image, i, e)}
  <2>0. IsEntry(image, i, e) /\ EntryName(image, e) = name
    BY <1>4 DEF First, Named
  <2>1. CASE e = 0
    <3>1. name = << Dot, Dot >> /\ name # << Dot >>
      BY <2>0, <2>1, <1>2
    <3>2. EntryNode(image, i, e) = IF i = 1 THEN OutOfTree ELSE image[i].parent
      BY <2>1 DEF EntryNode
    <3> QED
      BY <3>1, <3>2 DEF Child
  <2>2. CASE e = 1
    <3>1. name = << Dot >>
      BY <2>0, <2>2, <1>2
    <3>2. EntryNode(image, i, e) = i
      BY <2>2 DEF EntryNode
    <3> QED
      BY <3>1, <3>2 DEF Child
  <2>3. CASE e \in 2 .. L
    <3>1. name = image[e].name /\ name \notin {<< Dot >>, << Dot, Dot >>} /\ EntryNode(image, i, e) = e /\ image[e].parent = i
      BY <2>0, <2>3, <1>3
    <3>2. Child(i, name) = {j \in named : \A k \in named : j <= k}
      BY <3>1 DEF Child
    <3>3. \A k \in 2 .. L : image[k].parent = i /\ image[k].name = name => Named(image, i, name, k) /\ k \in 0 .. L
      BY <1>1, <1>3 DEF Named
    <3>4. \A k \in named : e <= k
      <4> SUFFICES ASSUME NEW k \in named, k < e PROVE FALSE
        BY <2>3
      <4>1. Named(image, i, name, k) /\ k \in 0 .. L
        BY <3>3
      <4> QED
        BY <4>1, <1>4 DEF First
    <3>5. e \in named
      BY <2>3, <3>1
    <3>6. \A k \in named : k \in Int
      OBVIOUS
    <3> HIDE DEF named
    <3>7. {j \in named : \A k \in named : j <= k} = {e}
      <4>1. ASSUME NEW j \in named, \A k \in named : j <= k PROVE j = e
        <5>1. j <= e /\ e <= j /\ j \in Int /\ e \in Int
          BY <3>4, <3>5, <3>6, <4>1
        <5> QED
          BY ONLY <5>1, SMT
      <4> QED
        BY ONLY <4>1, <3>4, <3>5, Zenon
    <3> QED
      BY <3>1, <3>2, <3>7
  <2> QED
    BY <2>1, <2>2, <2>3, <1>1
<1>5. ASSUME \A e \in 0 .. L : ~Named(image, i, name, e) PROVE Child(i, name) = {}
  <2>1. 0 \in 0 .. L /\ 1 \in 0 .. L /\ \A e \in 2 .. L : e \in 0 .. L
    BY <1>1
  <2>2. IsEntry(image, i, 0) /\ IsEntry(image, i, 1)
    BY DEF IsEntry
  <2>3. name # << Dot >> /\ name # << Dot, Dot >>
    BY <2>1, <2>2, <1>2, <1>5 DEF Named
  <2>4. Child(i, name) = {j \in named : \A k \in named : j <= k}
    BY <2>3 DEF Child
  <2>5. named = {}
    BY <2>1, <1>3, <1>5 DEF Named
  <2> QED
    BY <2>4, <2>5
<1> QED
  BY <1>4, <1>5

LEMMA SectorsDiffer ==
  ASSUME NEW im, IsImage(im), Accepted(im), NEW i \in 1 .. Len(im), NEW j \in 1 .. Len(im), SectorOf(im)[i] = SectorOf(im)[j]
  PROVE  i = j
<1>1. im \in Seq(Nodes) /\ Len(im) \in Nat \ {0}
  BY DEF IsImage
<1>2. \A k, m \in 1 .. Len(im) : k < m => SectorOf(im)[k] + SectorsOf(im[k]) <= SectorOf(im)[m]
  BY <1>1, InOrder
<1>3. \A k \in 1 .. Len(im) : SectorOf(im)[k] \in Nat /\ SectorsOf(im[k]) \in Nat \ {0}
  BY SectorsExist
<1>4. \A k, m \in 1 .. Len(im) : k < m => SectorOf(im)[k] # SectorOf(im)[m]
  <2> SUFFICES ASSUME NEW k \in 1 .. Len(im), NEW m \in 1 .. Len(im), k < m PROVE SectorOf(im)[k] # SectorOf(im)[m]
    OBVIOUS
  <2>1. PICK a \in Nat, b \in Nat, c \in Nat \ {0} : a = SectorOf(im)[k] /\ b = SectorOf(im)[m] /\ c = SectorsOf(im[k])
    BY <1>3
  <2>2. a + c <= b
    BY <2>1, <1>2
  <2>3. a # b
    BY <2>2
  <2> QED
    BY <2>1, <2>3
<1>5. ~(i < j) /\ ~(j < i)
  BY <1>4
<1> QED
  BY <1>1, <1>5

\* A sector that a node begins in begins with D if the node is a directory.
LEMMA MarkOfNode ==
  ASSUME NEW im, IsImage(im), Accepted(im), NEW i \in 1 .. Len(im)
  PROVE  ByteAt(Encode(im), SectorOf(im)[i], 0) = D <=> im[i].dir
<1>1. CASE im[i].dir
  <2>1. \E at : Listed(Encode(im), im, i, at)
    BY <1>1, Layout
  <2> QED
    BY <1>1, <2>1 DEF Listed
<1>2. CASE ~im[i].dir
  <2> SUFFICES ASSUME ByteAt(Encode(im), SectorOf(im)[i], 0) = D PROVE FALSE
    BY <1>2
  <2>1. SectorOf(im)[i] \in Sectors /\ SectorOf(im)[i] # 0
    BY SectorsExist
  <2>2. PICK j \in 1 .. Len(im) : im[j].dir /\ SectorOf(im)[j] = SectorOf(im)[i]
    BY <2>1, DirectoryFound
  <2>3. i = j
    BY <2>2, SectorsDiffer
  <2> QED
    BY <2>2, <2>3, <1>2
<1> QED
  BY <1>1, <1>2

Places(p) == [at : 1 .. Len(image), first : 1 .. Len(p) + 1]

Place(at, first) == [at |-> at, first |-> first]

LEMMA PlaceIs ==
  ASSUME NEW p, NEW at, NEW first
  PROVE  /\ Place(at, first).at = at /\ Place(at, first).first = first
         /\ Place(at, first) \in Places(p) <=> at \in 1 .. Len(image) /\ first \in 1 .. Len(p) + 1
  BY DEF Place, Places

\* What the walk does at a node, and w from the place it goes to.
WalkOn(w, p, at, in, end) ==
  LET child == CHOOSE j \in in : TRUE
  IN  IF in = {} THEN NotFound(SectorOfNode(at))
      ELSE IF end > Len(p) THEN Found(SectorOfNode(child), SectorOfNode(at))
      ELSE IF child = OutOfTree THEN OutsideOfStorage(NoSector)
      ELSE IF ~image[child].dir THEN NotDirectory(SectorOfNode(at))
      ELSE w[Place(child, end + 1)]

WalkStep(w, p, s) == WalkOn(w, p, s.at, Child(s.at, Name(p, s.first)), End(p, s.first))

LEMMA Walks ==
  ASSUME IsImage(image), Accepted(image), NEW p \in Seq(CharBytes)
  PROVE  \A s \in Places(p) : WalkFrom(p)[s] = WalkStep(WalkFrom(p), p, s)
<1> DEFINE Dom == Places(p)
           end(s) == End(p, s.first)
           in(s) == Child(s.at, SubSeq(p, s.first, end(s) - 1))
           child(s) == CHOOSE j \in in(s) : TRUE
           none(s) == in(s) = {}
           last(s) == end(s) > Len(p)
           outside(s) == child(s) = OutOfTree
           file(s) == ~image[child(s)].dir
           missing(s) == NotFound(SectorOfNode(s.at))
           found(s) == Found(SectorOfNode(child(s)), SectorOfNode(s.at))
           out(s) == OutsideOfStorage(NoSector)
           refused(s) == NotDirectory(SectorOfNode(s.at))
           next(s) == Place(child(s), end(s) + 1)
           ends(s) == none(s) \/ last(s) \/ outside(s) \/ file(s)
           value(s) == IF none(s) THEN missing(s) ELSE IF last(s) THEN found(s) ELSE IF outside(s) THEN out(s) ELSE refused(s)
           stop == {s \in Dom : ends(s)}
           values == [s \in Dom |-> value(s)]
           after == [s \in Dom |-> next(s)]
           Equation(g) == g = [s \in Dom |-> WalkStep(g, p, s)]
           walk == CHOOSE g : Equation(g)
<1>1. Len(image) \in Nat \ {0} /\ Len(p) \in Nat
  BY LenProperties DEF IsImage
<1>2. \A s \in Dom \ stop : after[s] \in Dom
  <2> SUFFICES ASSUME NEW s \in Dom, ~ends(s) PROVE next(s) \in Dom
    OBVIOUS
  <2>1. s.at \in 1 .. Len(image) /\ s.first \in 1 .. Len(p) + 1
    BY DEF Places
  <2>2. end(s) \in s.first .. Len(p) + 1
    BY <2>1, EndIs
  <2>3. end(s) + 1 \in 1 .. Len(p) + 1
    <3>1. PICK e, f : e = end(s) /\ f = s.first
      OBVIOUS
    <3>2. ~(e > Len(p))
      BY <3>1
    <3>3. e \in f .. Len(p) + 1 /\ f \in 1 .. Len(p) + 1
      BY <2>1, <2>2, <3>1
    <3>4. e + 1 \in 1 .. Len(p) + 1
      BY <3>2, <3>3, <1>1
    <3> QED
      BY <3>1, <3>4
  <2>4. child(s) \in in(s)
    <3>1. in(s) # {}
      BY Zenon
    <3> HIDE DEF in
    <3> QED
      BY <3>1, Zenon
  <2>5. child(s) \in 1 .. Len(image)
    <3>1. PICK name : in(s) = Child(s.at, name)
      OBVIOUS
    <3>2. child(s) # 0
      BY DEF OutOfTree
    <3>3. \A e \in 0 .. Len(image) : EntryNode(image, s.at, e) \in 0 .. Len(image)
      <4> SUFFICES ASSUME NEW e \in 0 .. Len(image) PROVE EntryNode(image, s.at, e) \in 0 .. Len(image)
        OBVIOUS
      <4>1. CASE e = 0
        <5>1. s.at # 1 => s.at \in 2 .. Len(image)
          BY <2>1, <1>1
        <5>2. s.at # 1 => image[s.at].parent \in 1 .. Len(image)
          BY <5>1, NodeFacts
        <5>3. EntryNode(image, s.at, e) = IF s.at = 1 THEN 0 ELSE image[s.at].parent
          BY <4>1 DEF EntryNode, OutOfTree
        <5> QED
          BY <5>2, <5>3, <1>1
      <4>2. CASE e = 1
        <5>1. EntryNode(image, s.at, e) = s.at
          BY <4>2 DEF EntryNode
        <5> QED
          BY <5>1, <2>1, <1>1
      <4>3. CASE e # 0 /\ e # 1
        BY <4>3 DEF EntryNode
      <4> QED
        BY <4>1, <4>2, <4>3
    <3>4. PICK e \in 0 .. Len(image) : Child(s.at, name) = {EntryNode(image, s.at, e)}
      <4>1. Child(s.at, name) # {}
        BY <2>4, <3>1
      <4>2. PICK e \in 0 .. Len(image) : Named(image, s.at, name, e)
        BY <4>1, <2>1, ChildIs
      <4>3. PICK f \in 0 .. Len(image) : First(image, s.at, name, f)
        BY <4>2, <1>1, FirstOfName
      <4> QED
        BY <4>3, <2>1, ChildIs
    <3>5. child(s) \in {EntryNode(image, s.at, e)}
      <4> HIDE DEF child, in
      <4> QED
        BY <2>4, <3>1, <3>4
    <3> HIDE DEF child, in
    <3> QED
      BY <3>2, <3>3, <3>5, <1>1
  <2> HIDE DEF child, end
  <2> QED
    BY <2>3, <2>5, PlaceIs
<1>3. PICK w : w = [s \in Dom |-> w[s]] /\ Loops(w, Dom, stop, values, after)
  <2> HIDE DEF Dom, stop, values, after
  <2> QED
    BY <1>2, Loop, Zenon
<1>4. \A g, s : WalkStep(g, p, s) = IF ends(s) THEN value(s) ELSE g[next(s)]
  <2> SUFFICES ASSUME NEW g, NEW s PROVE WalkStep(g, p, s) = IF ends(s) THEN value(s) ELSE g[next(s)]
    OBVIOUS
  <2>1. WalkStep(g, p, s) = IF none(s) THEN missing(s) ELSE IF last(s) THEN found(s) ELSE IF outside(s) THEN out(s)
                            ELSE IF file(s) THEN refused(s) ELSE g[next(s)]
    BY Zenon DEF WalkStep, WalkOn, Name
  <2> HIDE DEF none, last, outside, file, missing, found, out, refused, next
  <2> QED
    BY <2>1, Zenon
<1> HIDE DEF value, ends, next
<1>5. ASSUME NEW s \in Dom PROVE w[s] = WalkStep(w, p, s)
  <2>1. w[s] = IF s \in stop THEN values[s] ELSE w[after[s]]
    BY <1>3 DEF Loops
  <2>2. (s \in stop <=> ends(s)) /\ values[s] = value(s) /\ after[s] = next(s)
    OBVIOUS
  <2> HIDE DEF stop, values, after
  <2> QED
    BY <2>1, <2>2, <1>4, Zenon
<1>6. Equation(w)
  <2> HIDE DEF Dom
  <2> QED
    BY <1>3, <1>5
<1>7. Equation(walk)
  BY <1>6, Zenon
<1>8. WalkFrom(p) = walk
  BY DEF WalkFrom, WalkStep, WalkOn, Name, Places, Place
<1> HIDE DEF walk
<1>9. \A s \in Dom : walk[s] = WalkStep(walk, p, s)
  <2> HIDE DEF Dom
  <2> QED
    BY <1>7
<1> QED
  BY <1>8, <1>9

LEMMA SameResults ==
  /\ \A result : SameResult(result, result)
  /\ \A sec, dir : SameResult(NotDirectory(sec), NotDirectory(dir))
BY DEF SameResult, IsNotDirectory, NotDirectory

\* The search in the entries of a directory is the walk from its node.
Agrees(p, i, first) ==
  SameResult(check_entry(Encode(image), p)[Entries(SectorOf(image)[i], first)], WalkFrom(p)[Place(i, first)])

LEMMA SearchIsWalk ==
  ASSUME IsImage(image), Accepted(image), NEW p \in Seq(CharBytes)
  PROVE  \A i \in 1 .. Len(image), first \in 1 .. Len(p) + 1 : image[i].dir => Agrees(p, i, first)
<1> DEFINE L == Len(image)
           length == Len(p)
           M == Encode(image)
           T == {n \in Nat : \A i \in 1 .. L, first \in 1 .. length + 1 :
                   image[i].dir /\ length + 1 - first < n => Agrees(p, i, first)}
<1>1. L \in Nat \ {0} /\ length \in Nat
  BY LenProperties DEF IsImage
<1>2. 0 \in T
  <2>1. \A first \in 1 .. length + 1 : ~(length + 1 - first < 0)
    BY <1>1
  <2> QED
    BY <2>1
<1>3. ASSUME NEW n \in Nat, n \in T PROVE n + 1 \in T
  <2> SUFFICES ASSUME NEW i \in 1 .. L, NEW first \in 1 .. length + 1, image[i].dir, length + 1 - first < n + 1
               PROVE  Agrees(p, i, first)
    OBVIOUS
  <2>1. PICK end : end = End(p, first) /\ end \in first .. length + 1
    BY EndIs
  <2>2. PICK walk : walk = WalkFrom(p)
    OBVIOUS
  <2>3. PICK name : name = Name(p, first)
    OBVIOUS
  <2> DEFINE sec == SectorOf(image)[i]
             in == Child(i, name)
             child == CHOOSE j \in in : TRUE
  <2>4. walk[Place(i, first)] =
          IF in = {} THEN NotFound(SectorOfNode(i))
          ELSE IF end > length THEN Found(SectorOfNode(child), SectorOfNode(i))
          ELSE IF child = OutOfTree THEN OutsideOfStorage(NoSector)
          ELSE IF ~image[child].dir THEN NotDirectory(SectorOfNode(i))
          ELSE walk[Place(child, end + 1)]
    <3>1. Place(i, first) \in Places(p) /\ Place(i, first).at = i /\ Place(i, first).first = first
      BY PlaceIs
    <3>2. walk[Place(i, first)] = WalkStep(walk, p, Place(i, first))
      BY <2>2, <3>1, Walks
    <3>3. walk[Place(i, first)] = WalkOn(walk, p, i, Child(i, name), end)
      BY <2>1, <2>3, <3>1, <3>2, Zenon DEF WalkStep
    <3> QED
      BY <3>3, Zenon DEF WalkOn
  <2>5. SectorOfNode(i) = sec
    <3>1. i # 0
      OBVIOUS
    <3> QED
      BY <3>1 DEF SectorOfNode, OutOfTree
  <2>6. CASE \A e \in 0 .. L : ~Named(image, i, name, e)
    <3>1. Searched(image, i, p, first)
      BY DirectorySearched
    <3>2. check_entry(M, p)[Entries(sec, first)] = NotFound(sec)
      BY <2>3, <2>6, <3>1 DEF Searched
    <3>3. in = {}
      BY <2>6, ChildIs
    <3> HIDE DEF in, child
    <3> QED
      BY <2>2, <2>4, <2>5, <3>2, <3>3, SameResults DEF Agrees
  <2>7. ASSUME NEW e \in 0 .. L, First(image, i, name, e) PROVE Agrees(p, i, first)
    <3>1. Searched(image, i, p, first)
      BY DirectorySearched
    <3> DEFINE j == EntryNode(image, i, e)
               target == SectorOfEntry(image, i, e)
    <3>2. check_entry(M, p)[Entries(sec, first)] = AtName(M, p, sec, first, target)
      BY <2>3, <2>7, <3>1 DEF Searched
    <3>3. in = {j}
      BY <2>7, ChildIs
    <3>4. child = j /\ in # {}
      BY <3>3
    <3>5. target = SectorOfNode(j)
      BY DEF SectorOfEntry, SectorOfNode
    <3>6. AtName(M, p, sec, first, target) =
            IF end = length + 1 THEN Found(target, sec)
            ELSE IF target \notin Sectors THEN OutsideOfStorage(target)
            ELSE IF ByteAt(M, target, 0) # D THEN NotDirectory(target)
            ELSE check_entry(M, p)[Entries(target, end + 1)]
      BY <2>1 DEF AtName
    <3>7. j \in 0 .. L
      <4>1. CASE e = 0
        <5>1. i # 1 => i \in 2 .. L
          BY <1>1
        <5>2. i # 1 => image[i].parent \in 1 .. L
          BY <5>1, NodeFacts
        <5>3. j = IF i = 1 THEN 0 ELSE image[i].parent
          BY <4>1 DEF EntryNode, OutOfTree
        <5> HIDE DEF j
        <5> QED
          BY <5>2, <5>3, <1>1
      <4>2. CASE e = 1
        <5>1. j = i
          BY <4>2 DEF EntryNode
        <5> HIDE DEF j
        <5> QED
          BY <5>1, <1>1
      <4>3. CASE e # 0 /\ e # 1
        BY <4>3 DEF EntryNode
      <4> QED
        BY <4>1, <4>2, <4>3
    <3> HIDE DEF in, child, j, target
    <3>8. CASE end = length + 1
      <4>1. end > length
        BY <3>8, <1>1
      <4>2. walk[Place(i, first)] = Found(target, sec)
        BY <2>4, <2>5, <3>4, <3>5, <4>1, Zenon
      <4> QED
        BY <2>2, <3>2, <3>6, <3>8, <4>2, SameResults DEF Agrees
    <3>9. CASE end # length + 1 /\ j = OutOfTree
      <4>1. ~(end > length)
        BY <2>1, <3>9, <1>1
      <4>2. walk[Place(i, first)] = OutsideOfStorage(NoSector)
        BY <2>4, <3>4, <3>9, <4>1, Zenon
      <4>3. target = NoSector /\ target \notin Sectors
        <5>1. target = NoSector
          BY <3>5, <3>9 DEF SectorOfNode
        <5>2. NoSector \in Sectors => NoSector < NoSector
          BY NoSectorIsWord
        <5>3. NoSector \in Int
          BY NoSectorIsWord
        <5> QED
          BY <5>1, <5>2, <5>3
      <4> QED
        BY <2>2, <3>2, <3>6, <3>9, <4>2, <4>3, SameResults DEF Agrees
    <3>10. CASE end # length + 1 /\ j # OutOfTree
      <4>1. ~(end > length) /\ end + 1 \in 1 .. length + 1 /\ length + 1 - (end + 1) < n
        <5>1. end \in first .. length + 1 /\ first \in 1 .. length + 1 /\ length + 1 - first < n + 1
          BY <2>1
        <5>2. PICK len \in Nat, f \in Nat : len = length /\ f = first
          BY <1>1
        <5>3. end \in f .. len + 1 /\ len + 1 - f < n + 1 /\ end # len + 1
          BY <3>10, <5>1, <5>2, Zenon
        <5>4. ~(end > len) /\ end + 1 \in 1 .. len + 1 /\ len + 1 - (end + 1) < n
          BY <5>3
        <5> QED
          BY <5>2, <5>4, Zenon
      <4>2. j \in 1 .. L /\ target = SectorOf(image)[j]
        <5>1. j \in 1 .. L
          BY <3>7, <3>10, <1>1 DEF OutOfTree
        <5> QED
          BY <3>5, <3>10, <5>1 DEF SectorOfNode
      <4>3. target \in Sectors /\ (ByteAt(M, target, 0) = D <=> image[j].dir)
        BY <4>2, SectorsExist, MarkOfNode
      <4>4. walk[Place(i, first)] = IF ~image[j].dir THEN NotDirectory(sec) ELSE walk[Place(j, end + 1)]
        BY <2>4, <2>5, <3>4, <3>5, <3>10, <4>1, Zenon
      <4>5. image[j].dir => Agrees(p, j, end + 1)
        BY <1>3, <4>1, <4>2
      <4>6. AtName(M, p, sec, first, target) = IF ~image[j].dir THEN NotDirectory(target) ELSE check_entry(M, p)[Entries(target, end + 1)]
        BY <3>6, <3>10, <4>3
      <4> QED
        BY <2>2, <3>2, <4>2, <4>4, <4>5, <4>6, SameResults DEF Agrees
    <3> QED
      BY <3>8, <3>9, <3>10
  <2>8. ASSUME NEW e \in 0 .. L, Named(image, i, name, e) PROVE Agrees(p, i, first)
    <3>1. \E f \in 0 .. L : First(image, i, name, f)
      BY <2>8, <1>1, FirstOfName
    <3> QED
      BY <3>1, <2>7
  <2> QED
    BY <2>6, <2>8
<1>4. T \in SUBSET Nat
  OBVIOUS
<1>5. \A n \in Nat : n \in T
  <2> HIDE DEF T
  <2> QED
    BY <1>2, <1>3, <1>4, AllNumbers
<1>6. ASSUME NEW i \in 1 .. L, NEW first \in 1 .. length + 1, image[i].dir PROVE Agrees(p, i, first)
  <2>1. PICK n \in Nat : n = length + 1
    BY <1>1
  <2>2. length + 1 - first < n
    BY <2>1, <1>1
  <2> QED
    BY <2>2, <1>5, <1>6
<1> QED
  BY <1>6

\* solve_path finds what the walk finds.
LEMMA Solved ==
  ASSUME IsImage(image), Accepted(image), CwdIsDirectory, NEW p \in Seq(CharBytes)
  PROVE  SameResult(solve_path(Encode(image), cwd, p), Walk(p))
<1>1. Len(image) \in Nat \ {0} /\ Len(p) \in Nat
  BY LenProperties DEF IsImage
<1>2. ASSUME NEW i \in 1 .. Len(image) PROVE NodeAt(SectorOf(image)[i]) = i
  <2>1. \A j \in 1 .. Len(image) : SectorOfNode(j) = SectorOf(image)[j]
    <3>1. \A j \in 1 .. Len(image) : j # 0
      OBVIOUS
    <3> QED
      BY <3>1 DEF SectorOfNode, OutOfTree
  <2>2. \A j \in 1 .. Len(image) : SectorOfNode(j) = SectorOf(image)[i] <=> j = i
    BY <2>1, SectorsDiffer
  <2> QED
    BY <2>2, Zenon DEF NodeAt
<1>3. CASE CharAt(p, 1) = Slash
  <2>1. 2 \in 1 .. Len(p) + 1
    <3>1. ~(1 > Len(p))
      BY <1>3, Constants DEF CharAt, CharBytes
    <3> QED
      BY <3>1, <1>1
  <2>2. 1 \in 1 .. Len(image) /\ image[1].dir /\ SectorOf(image)[1] = Root
    <3>1. FirstSectors(SectorOf(image), image)
      BY <1>1, SectorOfIs DEF IsImage
    <3> QED
      BY <3>1, <1>1 DEF FirstSectors, IsImage, Directory, Root
  <2>3. NodeAt(Root) = 1
    BY <1>2, <2>2
  <2>4. Agrees(p, 1, 2)
    BY <2>1, <2>2, SearchIsWalk
  <2>5. solve_path(Encode(image), cwd, p) = check_entry(Encode(image), p)[Entries(Root, 2)]
    BY <1>3 DEF solve_path
  <2>6. Walk(p) = WalkFrom(p)[Place(1, 2)]
    BY <1>3, <2>3 DEF Walk, Place
  <2> QED
    BY <2>2, <2>4, <2>5, <2>6 DEF Agrees
<1>4. CASE CharAt(p, 1) # Slash
  <2>1. PICK i \in 1 .. Len(image) : image[i].dir /\ SectorOfNode(i) = cwd
    BY DEF CwdIsDirectory
  <2>2. SectorOf(image)[i] = cwd
    <3>1. i # 0
      OBVIOUS
    <3> QED
      BY <2>1, <3>1 DEF SectorOfNode, OutOfTree
  <2>3. NodeAt(cwd) = i /\ 1 \in 1 .. Len(p) + 1
    BY <1>1, <1>2, <2>2
  <2>4. Agrees(p, i, 1)
    BY <2>1, <2>3, SearchIsWalk
  <2>5. solve_path(Encode(image), cwd, p) = check_entry(Encode(image), p)[Entries(cwd, 1)]
    BY <1>4 DEF solve_path
  <2>6. Walk(p) = WalkFrom(p)[Place(i, 1)]
    BY <1>4, <2>3 DEF Walk, Place
  <2> QED
    BY <2>2, <2>4, <2>5, <2>6 DEF Agrees
<1> QED
  BY <1>3, <1>4

-----------------------------------------------------------------------------
(* All bytes of the storage *)

LEMMA PaddedBytes ==
  ASSUME NEW bytes \in Seq(Bytes)
  PROVE  Padded(bytes) \in [1 .. BYTE -> Bytes]
<1>1. 0 \in Bytes /\ Len(bytes) \in Nat
  BY Constants, LenProperties DEF Bytes
<1>2. ASSUME NEW n \in 1 .. BYTE PROVE (IF n <= Len(bytes) THEN bytes[n] ELSE 0) \in Bytes
  <2>1. CASE n <= Len(bytes)
    <3>1. n \in 1 .. Len(bytes)
      BY <1>1, <2>1, Constants
    <3> QED
      BY <2>1, <3>1, ElementOfSeq
  <2> QED
    BY <1>1, <2>1
<1> QED
  BY <1>2 DEF Padded

\* A sector of a file is one of its pieces.
LEMMA SectorOfPiece ==
  ASSUME NEW im, IsImage(im), Accepted(im), NEW i \in 1 .. Len(im), ~im[i].dir, NEW sec \in Owned(im, i), sec \in Sectors
  PROVE  \E k \in Nat : k < SectorsFor(im[i].content) /\ SectorOf(im)[i] + k = sec
<1>1. PICK first \in Nat, n \in Nat : first = SectorOf(im)[i] /\ n = SectorsOf(im[i])
  BY SectorsExist
<1>2. n = SectorsFor(im[i].content) /\ sec \in first .. first + n - 1
  BY <1>1 DEF SectorsOf, Owned
<1>3. PICK k \in Nat : k = sec - first /\ k < n /\ first + k = sec
  BY <1>2
<1> QED
  BY <1>1, <1>2, <1>3, Zenon

\* A piece of a file in its sector.
PieceAt(M, sec, piece, next) ==
  \E bytes \in Seq(Bytes) : FileSector(bytes, piece, next) /\ M[sec] = Padded(bytes)

LEMMA PieceOf ==
  ASSUME NEW im, IsImage(im), Accepted(im), NEW i \in 1 .. Len(im), ~im[i].dir,
         NEW k \in Nat, k < SectorsFor(im[i].content)
  PROVE  /\ SectorOf(im)[i] + k \in Sectors
         /\ k + 1 < SectorsFor(im[i].content) => SectorOf(im)[i] + k + 1 \in Sectors
         /\ im[i].content \in Seq(Bytes)
         /\ PieceAt(Encode(im), SectorOf(im)[i] + k, Piece(im[i].content, k),
                    IF k + 1 < SectorsFor(im[i].content) THEN SectorOf(im)[i] + k + 1 ELSE NoSector)
<1>1. PICK first \in Nat, n \in Nat : first = SectorOf(im)[i] /\ n = SectorsOf(im[i])
  BY SectorsExist
<1>2. n = SectorsFor(im[i].content) /\ first + n <= SECTOR_COUNT /\ SECTOR_COUNT \in Nat
  <2>1. SectorsOf(im[i]) = SectorsFor(im[i].content) /\ SectorOf(im)[i] + SectorsOf(im[i]) <= SECTOR_COUNT
    BY SectorsExist DEF SectorsOf
  <2>2. SECTOR_COUNT \in Nat
    BY SectorsAssumption
  <2> QED
    BY <1>1, <2>1, <2>2, Zenon
<1>3. PICK sec \in Nat : sec = first + k
  OBVIOUS
<1>4. sec \in Sectors /\ (k + 1 < n => sec + 1 \in Sectors)
  <2>1. k < n
    BY <1>2, Zenon
  <2> QED
    BY <1>2, <1>3, <2>1 DEF Sectors
<1>5. im[i].content \in Seq(Bytes)
  <2>1. im \in Seq(Nodes)
    BY DEF IsImage
  <2>2. im[i] \in Nodes
    BY <2>1, ElementOfSeq
  <2> QED
    BY <2>2 DEF Nodes
<1> DEFINE next == IF k + 1 < SectorsFor(im[i].content) THEN sec + 1 ELSE NoSector
           bytes == encode_file(im[i].content, sec, k)
           piece == Piece(im[i].content, k)
<1>6. next \in 0 .. BYTE * BYTE - 1
  <2>1. next \in Sectors \cup {NoSector}
    BY <1>2, <1>4, Zenon
  <2> HIDE DEF next
  <2> QED
    BY <2>1, NoSectorIsWord
<1>7. FileSector(bytes, piece, next)
  <2>1. next = IF k + 1 < SectorsFor(im[i].content) THEN sec + 1 ELSE NoSector
    OBVIOUS
  <2> HIDE DEF next
  <2> QED
    BY <1>5, <1>6, <2>1, FileBytes
<1>8. SectorOf(im)[i] + k = sec
  BY <1>1, <1>3, Zenon
<1>9. Encode(im)[sec] = Padded(bytes)
  BY <1>4, <1>8, EncodedFile
<1>10. PieceAt(Encode(im), sec, piece, next)
  <2>1. bytes \in Seq(Bytes)
    BY <1>7 DEF FileSector
  <2> HIDE DEF bytes, piece, next
  <2> QED
    BY <1>7, <1>9, <2>1 DEF PieceAt
<1> QED
  BY <1>1, <1>2, <1>3, <1>4, <1>5, <1>8, <1>10, Zenon

LEMMA BytesOfImage ==
  ASSUME NEW im, IsImage(im), Accepted(im), NEW sec \in Sectors
  PROVE  Encode(im)[sec] \in [1 .. BYTE -> Bytes]
<1> DEFINE i == NodeIn(im, sec)
           M == Encode(im)
<1>1. im \in Seq(Nodes) /\ Len(im) \in Nat \ {0} /\ sec \in Nat
  BY SectorsAssumption DEF IsImage, Sectors
<1>2. CASE sec = 0
  <2>1. M[sec] = [n \in 1 .. BYTE |-> BYTE - 1]
    BY <1>2 DEF Encode
  <2>2. BYTE - 1 \in Bytes
    BY Constants DEF Bytes
  <2> QED
    BY <2>1, <2>2
<1>3. CASE sec # 0 /\ i = 0
  <2>1. M[sec] = Padded(<< >>)
    BY <1>3 DEF Encode
  <2>2. << >> \in Seq(Bytes)
    OBVIOUS
  <2> QED
    BY <2>1, <2>2, PaddedBytes
<1>4. CASE sec # 0 /\ i # 0
  <2>1. i \in 1 .. Len(im) /\ sec \in Owned(im, i)
    BY <1>1, <1>4, NodeInIs
  <2> HIDE DEF i
  <2>2. CASE im[i].dir
    <3>1. SectorOf(im)[i] \in Nat /\ SectorsOf(im[i]) = 1
      <4>1. im[i] \in Nodes
        BY <1>1, <2>1, ElementOfSeq
      <4> QED
        BY <2>1, <2>2, <4>1, SectorsExist, SizesOfNodes
    <3>2. SectorOf(im)[i] = sec
      BY <3>1, <2>1, <1>1 DEF Owned
    <3>3. M[sec] = Padded(encode_dir(im, i))
      BY <2>1, <2>2, <3>2, EncodedDirectory
    <3>4. encode_dir(im, i) \in Seq(Bytes)
      <4>1. Pushed(im, i) \in [1 .. Len(im) -> Seq(Bytes)]
        BY <2>1, <2>2, PushedIs DEF PushedBytes
      <4> QED
        BY <1>1, <4>1 DEF encode_dir
    <3> QED
      BY <3>3, <3>4, PaddedBytes
  <2>3. CASE ~im[i].dir
    <3>1. PICK k \in Nat : k < SectorsFor(im[i].content) /\ SectorOf(im)[i] + k = sec
      BY <2>1, <2>3, SectorOfPiece
    <3>2. PICK bytes \in Seq(Bytes) : M[sec] = Padded(bytes)
      BY <2>1, <2>3, <3>1, PieceOf DEF PieceAt
    <3> QED
      BY <3>2, PaddedBytes
  <2> QED
    BY <2>2, <2>3
<1> QED
  BY <1>2, <1>3, <1>4

LEMMA ByteOfImage ==
  ASSUME NEW im, IsImage(im), Accepted(im), NEW sec \in Sectors, NEW ndx \in Nat
  PROVE  ByteAt(Encode(im), sec, ndx) \in Bytes
<1>1. ndx % BYTE \in 0 .. BYTE - 1
  BY Constants, Quotient
<1>2. PICK n \in 1 .. BYTE : n = (ndx % BYTE) + 1
  <2>1. PICK r : r = ndx % BYTE
    OBVIOUS
  <2>2. r + 1 \in 1 .. BYTE
    BY <1>1, <2>1, Constants
  <2> QED
    BY <2>1, <2>2, Zenon
<1> QED
  BY <1>2, BytesOfImage DEF ByteAt

LEMMA NameOfImage ==
  ASSUME NEW im, IsImage(im), Accepted(im), NEW sec \in Sectors, NEW ndx \in Nat
  PROVE  NameAt(Encode(im), sec, ndx) \in Seq(Nat)
<1>1. PICK l \in Nat : l = ToZero(Encode(im), sec, ndx)
  BY ToZeroInNat
<1>2. ASSUME NEW n \in 1 .. l PROVE ByteAt(Encode(im), sec, ndx + n - 1) \in Nat
  <2>1. ndx + n - 1 \in Nat
    OBVIOUS
  <2>2. ByteAt(Encode(im), sec, ndx + n - 1) \in Bytes
    BY <2>1, ByteOfImage
  <2> QED
    BY <2>2, Constants
<1>3. NameAt(Encode(im), sec, ndx) = [n \in 1 .. l |-> ByteAt(Encode(im), sec, ndx + n - 1)]
  BY <1>1 DEF NameAt
<1> QED
  BY <1>2, <1>3

\* The name of an entry, and the empty one where the entries end.
LEMMA NameOfEntry ==
  ASSUME NEW M, NEW sec, NEW ndx, NEW name \in Seq(Bytes), NEW target, EntryAt(M, sec, ndx, name, target),
         \A n \in 1 .. Len(name) : name[n] # 0
  PROVE  NameAt(M, sec, ndx) = name /\ ToZero(M, sec, ndx) = Len(name)
<1>1. ndx \in Nat /\ Len(name) \in Nat /\ ndx + 0 = ndx /\ Len(name) - 0 = Len(name) /\ 0 \in 0 .. Len(name)
  BY LenProperties DEF EntryAt
<1>2. ToZero(M, sec, ndx) = Len(name)
  <2>1. ToZero(M, sec, ndx + 0) = Len(name) - 0
    BY <1>1, ToZeroInEntry
  <2> QED
    BY <1>1, <2>1
<1>3. \A n \in 1 .. Len(name) : ByteAt(M, sec, ndx + n - 1) = name[n]
  <2> SUFFICES ASSUME NEW n \in 1 .. Len(name) PROVE ByteAt(M, sec, ndx + n - 1) = name[n]
    OBVIOUS
  <2>1. ndx + n - 1 = ndx + (n - 1)
    BY <1>1
  <2> QED
    BY <2>1 DEF EntryAt
<1>4. NameAt(M, sec, ndx) = [n \in 1 .. Len(name) |-> name[n]]
  BY <1>2, <1>3 DEF NameAt
<1>5. name = [n \in 1 .. Len(name) |-> name[n]]
  OBVIOUS
<1> QED
  BY <1>2, <1>4, <1>5

LEMMA NameAtEnd ==
  ASSUME NEW M, NEW sec, NEW ndx \in Nat, ByteAt(M, sec, ndx) = 0
  PROVE  NameAt(M, sec, ndx) = << >> /\ ToZero(M, sec, ndx) = 0
<1>1. 0 \in 0 .. BYTE - 1 /\ ndx + 0 = ndx
  BY Constants
<1>2. ToZero(M, sec, ndx) = 0
  <2>1. \A n \in 0 .. 0 - 1 : ByteAt(M, sec, ndx + n) # 0
    OBVIOUS
  <2>2. ByteAt(M, sec, ndx + 0) = 0
    BY <1>1
  <2> QED
    BY <1>1, <2>1, <2>2, ToZeroIs
<1> QED
  BY <1>2 DEF NameAt

-----------------------------------------------------------------------------
(* The bootloader *)

\* What is read in a sector of a file.
Holds(M, sec, piece, next) ==
  /\ ByteAt(M, sec, 0) = F /\ ByteAt(M, sec, MaxIndex) = Len(piece) + 3
  /\ WordOf(M, sec, NextIndex) = next
  /\ \A r \in 0 .. Len(piece) - 1 : ByteAt(M, sec, DataStart + r) = piece[r + 1]
  /\ Data(M, sec) = piece

LEMMA PieceIsRead ==
  ASSUME NEW M, NEW sec, NEW piece \in Seq(Bytes), Len(piece) \in 0 .. Room, NEW next, PieceAt(M, sec, piece, next)
  PROVE  Holds(M, sec, piece, next)
<1>1. PICK bytes \in Seq(Bytes) : FileSector(bytes, piece, next) /\ M[sec] = Padded(bytes)
  BY DEF PieceAt
<1>2. PICK l \in 0 .. Room : l = Len(piece)
  OBVIOUS
<1>3. PICK m \in Nat : m = Len(bytes)
  BY LenProperties
<1>4. /\ m = 4 + l /\ bytes[1] = F /\ bytes[2] + BYTE * bytes[3] = next /\ bytes[4] = l + 3
      /\ \A i \in 1 .. l : bytes[4 + i] = piece[i]
  BY <1>1, <1>2, <1>3 DEF FileSector
<1>5. BYTE \in Nat /\ BYTE > 16 /\ Room = BYTE - 4
  BY Constants
<1>6. m \in 4 .. BYTE
  BY <1>2, <1>4, <1>5
<1>7. ASSUME NEW n \in 1 .. m PROVE M[sec][n] = bytes[n] /\ n \in 1 .. BYTE
  <2>1. n \in 1 .. BYTE /\ n <= m
    BY <1>5, <1>6
  <2>2. Padded(bytes)[n] = IF n <= Len(bytes) THEN bytes[n] ELSE 0
    BY <2>1 DEF Padded
  <2> QED
    BY <1>1, <1>3, <2>1, <2>2, Zenon
<1>8. ASSUME NEW n \in 0 .. m - 1 PROVE ByteAt(M, sec, n) = bytes[n + 1]
  <2>1. PICK k \in 1 .. m : k = n + 1
    BY <1>6
  <2>2. n \in 0 .. BYTE - 1
    BY <1>6, <1>5
  <2>3. ByteAt(M, sec, n) = M[sec][n + 1]
    BY <2>2, ByteOf
  <2> QED
    BY <1>7, <2>1, <2>3
<1>9. ByteAt(M, sec, 0) = F /\ ByteAt(M, sec, 3) = l + 3
  <2>1. 0 \in 0 .. m - 1 /\ 3 \in 0 .. m - 1 /\ 0 + 1 = 1 /\ 3 + 1 = 4
    BY <1>6
  <2> QED
    BY <1>4, <1>8, <2>1
<1>10. WordOf(M, sec, 1) = next
  <2>1. 1 \in 0 .. m - 1 /\ 2 \in 0 .. m - 1 /\ 1 + 1 = 2 /\ 2 + 1 = 3
    BY <1>6
  <2>2. ByteAt(M, sec, 1) = bytes[2] /\ ByteAt(M, sec, 1 + 1) = bytes[3]
    BY <1>8, <2>1
  <2> QED
    BY <1>4, <2>2 DEF WordOf
<1>11. ASSUME NEW r \in 0 .. l - 1 PROVE ByteAt(M, sec, 4 + r) = piece[r + 1]
  <2>1. PICK n \in 0 .. m - 1 : n = 4 + r
    BY <1>4, <1>2
  <2>2. PICK i \in 1 .. l : i = r + 1 /\ n + 1 = 4 + i
    BY <2>1
  <2>3. ByteAt(M, sec, n) = bytes[4 + i]
    BY <1>8, <2>2
  <2> QED
    BY <1>4, <2>1, <2>2, <2>3
<1>12. Data(M, sec) = piece
  <2>1. Data(M, sec) = SubSeq(M[sec], 5, l + 4)
    <3>1. (l + 3) + 1 = l + 4 /\ 4 + 1 = 5
      BY <1>2
    <3>2. Data(M, sec) = SubSeq(M[sec], 4 + 1, (l + 3) + 1)
      BY <1>9 DEF Data, DataStart, MaxIndex
    <3> QED
      BY <3>1, <3>2
  <2>2. \A i \in 1 .. l : M[sec][5 + i - 1] = piece[i]
    <3> SUFFICES ASSUME NEW i \in 1 .. l PROVE M[sec][5 + i - 1] = piece[i]
      OBVIOUS
    <3>1. PICK n \in 1 .. m : n = 4 + i
      BY <1>4, <1>2
    <3>2. 5 + i - 1 = n
      BY <3>1
    <3> QED
      BY <1>4, <1>7, <3>1, <3>2
  <2>3. SubSeq(M[sec], 5, l + 4) = [i \in 1 .. l |-> M[sec][5 + i - 1]]
    <3>1. 5 - 1 = 4 /\ (l + 4) - 5 + 1 = l
      BY <1>2
    <3>2. SubSeq(M[sec], 5, l + 4) = [i \in 1 .. (l + 4) - 5 + 1 |-> M[sec][5 + i - 1]]
      BY <1>2
    <3> QED
      BY <3>1, <3>2
  <2>4. piece = [i \in 1 .. l |-> piece[i]]
    BY <1>2
  <2> QED
    BY <2>1, <2>2, <2>3, <2>4
<1> QED
  BY <1>2, <1>9, <1>10, <1>11, <1>12 DEF Holds, MaxIndex, NextIndex, DataStart

\* The piece of a file that holds a byte.
LEMMA Division ==
  ASSUME NEW r \in Nat \ {0}, NEW k \in Nat, NEW m \in 0 .. r - 1
  PROVE  (k * r + m) \div r = k /\ (k * r + m) % r = m
<1>1. PICK x \in Nat : x = k * r + m
  OBVIOUS
<1>2. PICK q \in Nat, s \in 0 .. r - 1 : q = x \div r /\ s = x % r /\ x = r * q + s
  BY Quotient
<1>3. r * q = q * r
  BY <1>2
<1>4. ~(k < q)
  <2> SUFFICES ASSUME k < q PROVE FALSE
    OBVIOUS
  <2>1. PICK a \in Nat, b \in Nat : a = k * r /\ b = q * r /\ a + r <= b
    BY Between
  <2> QED
    BY <1>1, <1>2, <1>3, <2>1
<1>5. ~(q < k)
  <2> SUFFICES ASSUME q < k PROVE FALSE
    OBVIOUS
  <2>1. PICK a \in Nat, b \in Nat : a = k * r /\ b = q * r /\ b + r <= a
    BY Between
  <2> QED
    BY <1>1, <1>2, <1>3, <2>1
<1>6. q = k
  BY <1>4, <1>5
<1>7. s = m
  <2>1. PICK a \in Nat : a = k * r
    OBVIOUS
  <2> QED
    BY <1>1, <1>2, <1>3, <1>6, <2>1
<1> QED
  BY <1>1, <1>2, <1>6, <1>7

LEMMA OneByteMore ==
  ASSUME NEW S, NEW content \in Seq(S), NEW n \in Nat, n < Len(content)
  PROVE  SubSeq(content, 1, n + 1) = Append(SubSeq(content, 1, n), content[n + 1])
<1>1. PICK c \in Nat : c = Len(content)
  BY LenProperties
<1>2. SubSeq(content, 1, n) = [j \in 1 .. n |-> content[j]]
  BY <1>1
<1>3. SubSeq(content, 1, n + 1) = [j \in 1 .. n + 1 |-> content[j]]
  BY <1>1
<1> DEFINE s == [j \in 1 .. n |-> content[j]]
<1>4. Append(s, content[n + 1]) = [j \in 1 .. n + 1 |-> IF j <= n THEN s[j] ELSE content[n + 1]]
  <2>1. Len(s) = n
    OBVIOUS
  <2> QED
    BY <2>1
<1>5. \A j \in 1 .. n + 1 : (IF j <= n THEN s[j] ELSE content[n + 1]) = content[j]
  OBVIOUS
<1> HIDE DEF s
<1>6. Append(s, content[n + 1]) = [j \in 1 .. n + 1 |-> content[j]]
  BY <1>4, <1>5
<1> QED
  BY <1>2, <1>3, <1>6 DEF s

\* The piece and the place in it of a byte of a file.
ByteIn(content, n, k, r) ==
  /\ k \in Nat /\ k < SectorsFor(content) /\ r \in Nat
  /\ k = n \div Room /\ r = n % Room
  /\ r < Len(Piece(content, k)) /\ Piece(content, k)[r + 1] = content[n + 1]
  /\ r + 1 < Len(Piece(content, k)) => (n + 1) \div Room = k /\ (n + 1) % Room = r + 1
  /\ r + 1 >= Len(Piece(content, k)) /\ n + 1 < Len(content) =>
       /\ (n + 1) \div Room = k + 1 /\ (n + 1) % Room = 0
       /\ k + 1 < SectorsFor(content)

LEMMA PlaceOfByte ==
  ASSUME NEW content \in Seq(Bytes), NEW n \in Nat, n < Len(content)
  PROVE  \E k, r : ByteIn(content, n, k, r)
<1>1. PICK c \in Nat : c = Len(content)
  BY LenProperties
<1>2. PICK R \in Nat \ {0} : R = Room
  BY Constants
<1>3. PICK k \in Nat, r \in 0 .. R - 1 : k = n \div R /\ r = n % R /\ n = R * k + r
  <2>1. n \div R \in Nat /\ n % R \in 0 .. R - 1 /\ n = R * (n \div R) + (n % R)
    BY Quotient
  <2> QED
    BY <2>1, Zenon
<1>4. PICK q \in Nat, s \in 0 .. R - 1 : q = c \div R /\ c = R * q + s
  <2>1. c \div R \in Nat /\ c % R \in 0 .. R - 1 /\ c = R * (c \div R) + (c % R)
    BY Quotient
  <2> QED
    BY <2>1, Zenon
<1>5. SectorsFor(content) = q + 1
  BY <1>1, <1>2, <1>4, Zenon DEF SectorsFor
<1>6. PICK a \in Nat : a = k * R /\ n = a + r /\ (k + 1) * R = a + R
  <2>1. R * k = k * R /\ k * R \in Nat /\ (k + 1) * R = k * R + R
    BY <1>3
  <2> QED
    BY <1>3, <2>1
<1>7. k < q + 1
  <2> SUFFICES ASSUME q < k PROVE FALSE
    BY <1>3, <1>4
  <2>1. PICK b \in Nat : b = q * R /\ b + R <= a
    BY <1>6, Between
  <2>2. R * q = q * R
    BY <1>4
  <2> QED
    BY <1>1, <1>4, <1>6, <2>1, <2>2
<1>8. PICK more \in BOOLEAN : more <=> k + 1 < SectorsFor(content)
  OBVIOUS
<1>9. PICK l \in 0 .. R : /\ l = Len(Piece(content, k)) /\ a + l <= c
                          /\ more => l = R /\ a + R <= c
                          /\ ~more => l = c - a
                          /\ \A i \in 1 .. l : Piece(content, k)[i] = content[a + i]
  <2>1. k < SectorsFor(content)
    BY <1>5, <1>7
  <2>2. /\ Len(Piece(content, k)) = IF k + 1 < SectorsFor(content) THEN R ELSE c - a
        /\ Len(Piece(content, k)) \in 0 .. R
        /\ a + Len(Piece(content, k)) <= c
        /\ k + 1 < SectorsFor(content) => a + R <= c
        /\ \A i \in 1 .. Len(Piece(content, k)) : Piece(content, k)[i] = content[a + i]
    <3>1. /\ Len(Piece(content, k)) = IF k + 1 < SectorsFor(content) THEN Room ELSE Len(content) - k * Room
          /\ Len(Piece(content, k)) \in 0 .. Room
          /\ k * Room + Len(Piece(content, k)) <= Len(content)
          /\ k + 1 < SectorsFor(content) => k * Room + Room <= Len(content)
          /\ \A i \in 1 .. Len(Piece(content, k)) : Piece(content, k)[i] = content[k * Room + i]
      BY <2>1, Pieces
    <3>2. R = Room /\ a = k * Room /\ c = Len(content)
      BY <1>1, <1>2, <1>6, Zenon
    <3> QED
      BY <3>1, <3>2, Zenon
  <2> QED
    BY <1>8, <2>2
<1>10. r < l /\ n < c
  <2>1. n < c
    BY <1>1, Zenon
  <2>2. CASE more
    BY <2>1, <2>2, <1>9
  <2>3. CASE ~more
    BY <2>1, <2>3, <1>6, <1>9
  <2> QED
    BY <2>1, <2>2, <2>3
<1>11. Piece(content, k)[r + 1] = content[n + 1]
  <2>1. PICK i \in 1 .. l : i = r + 1 /\ a + i = n + 1
    BY <1>6, <1>10
  <2> QED
    BY <1>9, <2>1
<1>12. r + 1 < l => (n + 1) \div R = k /\ (n + 1) % R = r + 1
  <2> SUFFICES ASSUME r + 1 < l PROVE (n + 1) \div R = k /\ (n + 1) % R = r + 1
    OBVIOUS
  <2>1. PICK m \in 0 .. R - 1 : m = r + 1
    BY <1>9
  <2>2. (k * R + m) \div R = k /\ (k * R + m) % R = m
    BY Division
  <2>3. a + m = n + 1
    BY <1>6, <2>1
  <2> QED
    BY <1>6, <2>1, <2>2, <2>3
<1>13. r + 1 >= l /\ n + 1 < c => (n + 1) \div R = k + 1 /\ (n + 1) % R = 0 /\ more
  <2> SUFFICES ASSUME r + 1 >= l, n + 1 < c PROVE (n + 1) \div R = k + 1 /\ (n + 1) % R = 0 /\ more
    OBVIOUS
  <2>1. more
    BY <1>6, <1>9, <1>10
  <2>2. n + 1 = a + R
    BY <1>6, <1>9, <1>10, <2>1
  <2>3. PICK j \in Nat, z \in 0 .. R - 1 : j = k + 1 /\ z = 0
    OBVIOUS
  <2>4. (j * R + z) \div R = j /\ (j * R + z) % R = z
    BY Division
  <2>5. j * R + z = n + 1
    BY <1>6, <2>2, <2>3
  <2> QED
    BY <2>1, <2>3, <2>4, <2>5
<1>14. ByteIn(content, n, k, r)
  <2>1. k < SectorsFor(content) /\ r \in Nat
    BY <1>5, <1>7
  <2>2. k = n \div Room /\ r = n % Room
    BY <1>2, <1>3, Zenon
  <2>3. r < Len(Piece(content, k)) /\ l = Len(Piece(content, k))
    BY <1>9, <1>10, Zenon
  <2>4. r + 1 < Len(Piece(content, k)) => (n + 1) \div Room = k /\ (n + 1) % Room = r + 1
    BY <1>2, <1>12, <2>3, Zenon
  <2>5. r + 1 >= Len(Piece(content, k)) /\ n + 1 < Len(content) =>
          (n + 1) \div Room = k + 1 /\ (n + 1) % Room = 0 /\ k + 1 < SectorsFor(content)
    BY <1>1, <1>2, <1>8, <1>13, <2>3, Zenon
  <2> QED
    BY <1>11, <2>1, <2>2, <2>3, <2>4, <2>5, Zenon DEF ByteIn
<1> QED
  BY <1>14

\* The registers and the bytes after n calls of get_8.
Reading(content, first, n) ==
  [bytes |-> SubSeq(content, 1, n), at |-> [sec |-> first + n \div Room, ndx |-> DataStart + (n % Room)]]

LEMMA GetsByte ==
  ASSUME NEW im, IsImage(im), Accepted(im), NEW i \in 1 .. Len(im), ~im[i].dir,
         NEW n \in Nat, n < Len(im[i].content)
  PROVE  /\ Get(Encode(im), Reading(im[i].content, SectorOf(im)[i], n)).bytes = SubSeq(im[i].content, 1, n + 1)
         /\ n + 1 < Len(im[i].content) =>
              Get(Encode(im), Reading(im[i].content, SectorOf(im)[i], n)) = Reading(im[i].content, SectorOf(im)[i], n + 1)
<1> DEFINE content == im[i].content
           first == SectorOf(im)[i]
           M == Encode(im)
           got == Get(M, Reading(content, first, n))
<1>1. content \in Seq(Bytes) /\ first \in Nat
  <2>1. im \in Seq(Nodes)
    BY DEF IsImage
  <2>2. im[i] \in Nodes
    BY <2>1, ElementOfSeq
  <2> QED
    BY <2>2, SectorsExist DEF Nodes
<1>2. PICK k, r : ByteIn(content, n, k, r)
  BY <1>1, PlaceOfByte
<1>3. k \in Nat /\ k < SectorsFor(content) /\ r \in Nat /\ k = n \div Room /\ r = n % Room
  BY <1>2 DEF ByteIn
<1> DEFINE piece == Piece(content, k)
           next == IF k + 1 < SectorsFor(content) THEN first + k + 1 ELSE NoSector
<1>4. piece \in Seq(Bytes) /\ Len(piece) \in 0 .. Room
  BY <1>1, <1>3, Pieces
<1>5. PieceAt(M, first + k, piece, next)
  BY <1>3, PieceOf
<1>6. Holds(M, first + k, piece, next)
  <2> HIDE DEF piece, next, content, first, M
  <2> QED
    BY <1>4, <1>5, PieceIsRead
<1> HIDE DEF piece, next, content, first, M
<1>7. PICK l \in Nat : l = Len(piece) /\ r < l
  BY <1>2, <1>4 DEF ByteIn, piece
<1> DEFINE at == [sec |-> first + k, ndx |-> 4 + r]
<1>8. ByteAt(M, first + k, 4 + r) = content[n + 1]
  <2>1. r \in 0 .. Len(piece) - 1
    <3>1. r \in 0 .. l - 1
      BY <1>3, <1>7
    <3> QED
      BY <1>7, <3>1, Zenon
  <2>2. ByteAt(M, first + k, 4 + r) = piece[r + 1]
    BY <1>6, <2>1 DEF Holds, DataStart
  <2>3. piece[r + 1] = content[n + 1]
    BY <1>2 DEF ByteIn, piece
  <2> QED
    BY <2>2, <2>3, Zenon
<1>9. LastOfSector(M, at) <=> r + 1 >= l
  <2>1. LastOfSector(M, at) <=> 4 + r >= ByteAt(M, first + k, MaxIndex)
    BY DEF LastOfSector
  <2>2. ByteAt(M, first + k, MaxIndex) = l + 3
    BY <1>6, <1>7 DEF Holds
  <2>3. 4 + r >= l + 3 <=> r + 1 >= l
    <3>1. r \in Nat /\ l \in Nat
      BY <1>3
    <3> QED
      BY <3>1
  <2> QED
    BY <2>1, <2>2, <2>3, Zenon
<1>10. Reading(content, first, n) = [bytes |-> SubSeq(content, 1, n), at |-> at]
  BY <1>3, Zenon DEF Reading, DataStart
<1>11. got = [bytes |-> Append(SubSeq(content, 1, n), content[n + 1]),
              at |-> IF r + 1 >= l THEN [sec |-> next, ndx |-> 4] ELSE [sec |-> first + k, ndx |-> (4 + r) + 1]]
  <2>1. got = [bytes |-> Append(SubSeq(content, 1, n), get_8(M, at).byte), at |-> get_8(M, at).at]
    <3> HIDE DEF at
    <3> QED
      BY <1>10 DEF Get
  <2>2. get_8(M, at).byte = content[n + 1]
    BY <1>8 DEF get_8
  <2>3. get_8(M, at).at = IF LastOfSector(M, at) THEN [sec |-> WordOf(M, first + k, NextIndex), ndx |-> 4] ELSE [at EXCEPT !.ndx = @ + 1]
    BY DEF get_8, DataStart
  <2>4. WordOf(M, first + k, NextIndex) = next
    BY <1>6 DEF Holds
  <2>5. [at EXCEPT !.ndx = @ + 1] = [sec |-> first + k, ndx |-> (4 + r) + 1]
    OBVIOUS
  <2> HIDE DEF at, got
  <2> QED
    BY <1>9, <2>1, <2>2, <2>3, <2>4, <2>5, Zenon
<1>12. SubSeq(content, 1, n + 1) = Append(SubSeq(content, 1, n), content[n + 1])
  <2>1. n < Len(content)
    BY DEF content
  <2> QED
    BY <1>1, <2>1, OneByteMore
<1>13. got.bytes = SubSeq(content, 1, n + 1)
  <2> HIDE DEF got
  <2> QED
    BY <1>11, <1>12
<1>14. ASSUME n + 1 < Len(content) PROVE got = Reading(content, first, n + 1)
  <2>1. CASE r + 1 < l
    <3>1. (n + 1) \div Room = k /\ (n + 1) % Room = r + 1
      BY <1>2, <1>7, <2>1 DEF ByteIn, piece
    <3>2. ~(r + 1 >= l) /\ (4 + r) + 1 = 4 + (r + 1)
      BY <1>3, <1>7, <2>1
    <3>3. got = [bytes |-> SubSeq(content, 1, n + 1), at |-> [sec |-> first + k, ndx |-> 4 + (r + 1)]]
      <4> HIDE DEF got
      <4> QED
        BY <1>11, <1>12, <3>2, Zenon
    <3> HIDE DEF got
    <3> QED
      BY <3>1, <3>3, Zenon DEF Reading, DataStart
  <2>2. CASE r + 1 >= l
    <3>1. (n + 1) \div Room = k + 1 /\ (n + 1) % Room = 0 /\ k + 1 < SectorsFor(content)
      BY <1>2, <1>7, <1>14, <2>2, Zenon DEF ByteIn, piece
    <3>2. next = first + (k + 1) /\ 4 = 4 + 0
      <4>1. next = first + k + 1
        BY <3>1, Zenon DEF next
      <4>2. first + k + 1 = first + (k + 1)
        BY <1>1, <1>3
      <4> QED
        BY <4>1, <4>2
    <3>3. got = [bytes |-> SubSeq(content, 1, n + 1), at |-> [sec |-> first + (k + 1), ndx |-> 4 + 0]]
      <4> HIDE DEF got
      <4> QED
        BY <1>11, <1>12, <2>2, <3>2, Zenon
    <3> HIDE DEF got
    <3> QED
      BY <3>1, <3>3, Zenon DEF Reading, DataStart
  <2> QED
    BY <1>3, <1>7, <2>1, <2>2
<1> QED
  BY <1>13, <1>14 DEF got, content, first, M

\* What the bootloader reads are the bytes of the file.
LEMMA FileIsRead ==
  ASSUME NEW im, IsImage(im), Accepted(im), NEW i \in 1 .. Len(im), ~im[i].dir
  PROVE  ReadBytes(Encode(im), SectorOf(im)[i], Len(im[i].content)) = im[i].content
<1> DEFINE content == im[i].content
           first == SectorOf(im)[i]
           M == Encode(im)
           start == [bytes |-> << >>, at |-> [sec |-> first, ndx |-> DataStart]]
           Equation(g, c) == g = [n \in 0 .. c |-> IF n = 0 THEN start ELSE Get(M, g[n - 1])]
           read(c) == CHOOSE g : Equation(g, c)
<1>1. content \in Seq(Bytes) /\ first \in Nat
  <2>1. im \in Seq(Nodes)
    BY DEF IsImage
  <2>2. im[i] \in Nodes
    BY <2>1, ElementOfSeq
  <2> QED
    BY <2>2, SectorsExist DEF Nodes
<1>2. PICK c \in Nat : c = Len(content)
  BY <1>1, LenProperties
<1>3. ASSUME NEW n \in Nat, n < c
      PROVE  /\ Get(M, Reading(content, first, n)).bytes = SubSeq(content, 1, n + 1)
             /\ n + 1 < c => Get(M, Reading(content, first, n)) = Reading(content, first, n + 1)
  <2>1. n < Len(content)
    BY <1>2, <1>3, Zenon
  <2> QED
    BY <1>2, <2>1, GetsByte
<1>4. ReadBytes(M, first, Len(content)) = read(c)[c].bytes
  BY <1>2 DEF ReadBytes
<1> HIDE DEF content, first, M
<1>5. start = Reading(content, first, 0)
  <2>1. PICK R \in Nat \ {0} : R = Room
    BY Constants
  <2>2. 0 \div R = 0 /\ 0 % R = 0
    <3>1. 0 \in Nat /\ 0 \in 0 .. R - 1 /\ 0 * R + 0 = 0
      OBVIOUS
    <3> QED
      BY <3>1, Division
  <2>3. first + 0 = first /\ 4 + 0 = 4
    BY <1>1
  <2>4. SubSeq(content, 1, 0) = << >>
    BY <1>1
  <2> QED
    BY <2>1, <2>2, <2>3, <2>4, Zenon DEF Reading, DataStart
<1> DEFINE g == [n \in 0 .. c |-> IF n < c \/ n = 0 THEN Reading(content, first, n) ELSE Get(M, Reading(content, first, n - 1))]
<1>6. Equation(g, c)
  <2>1. ASSUME NEW n \in 0 .. c PROVE g[n] = IF n = 0 THEN start ELSE Get(M, g[n - 1])
    <3>1. CASE n = 0
      BY <3>1, <1>5
    <3>2. CASE n # 0
      <4>1. PICK m \in 0 .. c - 1 : m = n - 1 /\ n = m + 1
        BY <3>2
      <4>2. m \in 0 .. c /\ m \in Nat /\ m < c
        BY <4>1
      <4>3. g[m] = Reading(content, first, m)
        BY <4>2
      <4>4. CASE n < c
        <5>1. g[n] = Reading(content, first, n)
          BY <4>4
        <5>2. Get(M, Reading(content, first, m)) = Reading(content, first, n)
          <6>1. m + 1 < c
            BY <4>1, <4>4
          <6> QED
            BY <4>1, <4>2, <6>1, <1>3, Zenon
        <5> HIDE DEF g, start
        <5> QED
          BY <3>2, <4>1, <4>3, <5>1, <5>2, Zenon
      <4>5. CASE ~(n < c)
        <5>1. g[n] = Get(M, Reading(content, first, n - 1))
          BY <4>5, <3>2
        <5> HIDE DEF g, start
        <5> QED
          BY <3>2, <4>1, <4>3, <5>1, Zenon
      <4> QED
        BY <4>4, <4>5
    <3> QED
      BY <3>1, <3>2
  <2>2. g = [n \in 0 .. c |-> g[n]]
    OBVIOUS
  <2> HIDE DEF g, start
  <2> QED
    BY <2>1, <2>2
<1> DEFINE f == read(c)
<1>7. Equation(f, c)
  <2> HIDE DEF g, start, Equation
  <2> QED
    BY <1>6, Zenon
<1> HIDE DEF f, g, start
<1>8. f[0] = Reading(content, first, 0) /\ \A n \in 1 .. c : f[n] = Get(M, f[n - 1])
  <2>1. 0 \in 0 .. c /\ \A n \in 1 .. c : n \in 0 .. c /\ n # 0
    OBVIOUS
  <2> QED
    BY <1>5, <1>7, <2>1, Zenon
<1> HIDE DEF Equation
<1> DEFINE T == {n \in Nat : n < c => f[n] = Reading(content, first, n)}
<1>9. \A n \in Nat : n \in T
  <2>1. 0 \in T
    BY <1>8
  <2>2. ASSUME NEW n \in Nat, n \in T PROVE n + 1 \in T
    <3> SUFFICES ASSUME n + 1 < c PROVE f[n + 1] = Reading(content, first, n + 1)
      OBVIOUS
    <3>1. PICK m \in 1 .. c : m = n + 1 /\ m - 1 = n /\ n < c
      OBVIOUS
    <3>2. f[n] = Reading(content, first, n)
      BY <2>2, <3>1
    <3>3. f[m] = Get(M, f[n])
      BY <1>8, <3>1
    <3> QED
      BY <1>3, <3>1, <3>2, <3>3, Zenon
  <2> HIDE DEF T
  <2> QED
    BY <2>1, <2>2, AllNumbers DEF T
<1>10. f[c].bytes = content
  <2>1. SubSeq(content, 1, c) = content
    BY <1>1, <1>2
  <2>2. CASE c = 0
    BY <1>8, <2>1, <2>2 DEF Reading
  <2>3. CASE c # 0
    <3>1. PICK m \in Nat : m = c - 1 /\ c = m + 1 /\ m < c /\ c \in 1 .. c
      BY <2>3
    <3>2. f[m] = Reading(content, first, m)
      BY <1>9, <3>1
    <3>3. f[c] = Get(M, f[m])
      BY <1>8, <3>1
    <3>4. Get(M, Reading(content, first, m)).bytes = SubSeq(content, 1, m + 1)
      BY <1>3, <3>1
    <3> QED
      BY <2>1, <3>1, <3>2, <3>3, <3>4, Zenon
  <2> QED
    BY <2>2, <2>3
<1> QED
  BY <1>4, <1>10 DEF f, content, first, M

-----------------------------------------------------------------------------
(* ls *)

Showings == [sec : Sectors, ndx : Nat, names : Seq(Seq(Nat))]

Showing(sec, ndx, names) == [sec |-> sec, ndx |-> ndx, names |-> names]

LEMMA ShowingIs ==
  ASSUME NEW sec, NEW ndx, NEW names
  PROVE  /\ Showing(sec, ndx, names).sec = sec /\ Showing(sec, ndx, names).ndx = ndx
         /\ Showing(sec, ndx, names).names = names
         /\ Showing(sec, ndx, names) \in Showings <=> sec \in Sectors /\ ndx \in Nat /\ names \in Seq(Seq(Nat))
  BY DEF Showing, Showings

\* The registers behind an entry.
Shown(M, s) ==
  [s EXCEPT !.ndx = @ + EndOfEntry(Len(NameAt(M, s.sec, s.ndx))), !.names = Append(@, NameAt(M, s.sec, s.ndx))]

LEMMA ShownIs ==
  ASSUME NEW M, NEW sec, NEW ndx, NEW names
  PROVE  Shown(M, Showing(sec, ndx, names)) =
           Showing(sec, ndx + (Len(NameAt(M, sec, ndx)) + 3), Append(names, NameAt(M, sec, ndx)))
<1> DEFINE s == Showing(sec, ndx, names)
<1>1. s.sec = sec /\ s.ndx = ndx /\ s.names = names
  BY DEF Showing
<1>2. PICK name : name = NameAt(M, sec, ndx)
  OBVIOUS
<1>3. \A x : [s EXCEPT !.ndx = x] = Showing(sec, x, names)
  BY DEF Showing
<1>4. \A x, y : [Showing(sec, x, names) EXCEPT !.names = y] = Showing(sec, x, y)
  BY DEF Showing
<1> HIDE DEF s
<1>5. Shown(M, s) = [[s EXCEPT !.ndx = ndx + (Len(name) + 3)] EXCEPT !.names = Append(names, name)]
  BY <1>1, <1>2, Zenon DEF Shown, EndOfEntry
<1> QED
  BY <1>2, <1>3, <1>4, <1>5, Zenon DEF s

LEMMA EveryShowing ==
  ASSUME NEW s \in Showings
  PROVE  \E sec \in Sectors, ndx \in Nat, names \in Seq(Seq(Nat)) : s = Showing(sec, ndx, names)
<1>1. s = [sec |-> s.sec, ndx |-> s.ndx, names |-> s.names]
  BY DEF Showings
<1>2. s.sec \in Sectors /\ s.ndx \in Nat /\ s.names \in Seq(Seq(Nat))
  BY DEF Showings
<1> QED
  BY <1>1, <1>2, Zenon DEF Showing

\* What ls does at an entry.
Lists(M, s) == ls_entries(M)[s] = IF NameAt(M, s.sec, s.ndx) = << >> THEN s.names ELSE ls_entries(M)[Shown(M, s)]

LEMMA ListStep ==
  ASSUME NEW im, IsImage(im), Accepted(im)
  PROVE  \A s \in Showings : Lists(Encode(im), s)
<1> DEFINE M == Encode(im)
           Dom == Showings
           ends(s) == NameAt(M, s.sec, s.ndx) = << >>
           next(s) == Shown(M, s)
           stop == {s \in Dom : ends(s)}
           values == [s \in Dom |-> s.names]
           after == [s \in Dom |-> next(s)]
           Equation(g) == g = [s \in Dom |-> IF ends(s) THEN s.names ELSE g[next(s)]]
           entry == CHOOSE g : Equation(g)
<1>1. ASSUME NEW s \in Dom PROVE next(s) \in Dom
  <2>1. PICK sec \in Sectors, ndx \in Nat, names \in Seq(Seq(Nat)) : s = Showing(sec, ndx, names)
    BY EveryShowing, Zenon
  <2>2. PICK name \in Seq(Nat) : name = NameAt(M, sec, ndx)
    BY NameOfImage
  <2>3. Append(names, name) \in Seq(Seq(Nat)) /\ ndx + (Len(name) + 3) \in Nat
    OBVIOUS
  <2>4. next(s) = Showing(sec, ndx + (Len(name) + 3), Append(names, name))
    BY <2>1, <2>2, ShownIs, Zenon
  <2>5. Showing(sec, ndx + (Len(name) + 3), Append(names, name)) \in Showings
    BY <2>3, ShowingIs, Zenon
  <2> QED
    BY <2>4, <2>5, Zenon
<1> HIDE DEF ends, next
<1>2. \A s \in Dom \ stop : after[s] \in Dom
  <2>1. \A s \in Dom : after[s] = next(s)
    BY Zenon
  <2> HIDE DEF after, Dom
  <2> QED
    BY <1>1, <2>1, Zenon
<1>3. PICK w : w = [s \in Dom |-> w[s]] /\ Loops(w, Dom, stop, values, after)
  <2> HIDE DEF Dom, stop, values, after
  <2> QED
    BY <1>2, Loop, Zenon
<1>4. ASSUME NEW s \in Dom PROVE w[s] = IF ends(s) THEN s.names ELSE w[next(s)]
  <2>1. w[s] = IF s \in stop THEN values[s] ELSE w[after[s]]
    BY <1>3 DEF Loops
  <2>2. (s \in stop <=> ends(s)) /\ values[s] = s.names /\ after[s] = next(s)
    BY Zenon
  <2> HIDE DEF stop, values, after
  <2> QED
    BY <2>1, <2>2, Zenon
<1>5. Equation(w)
  <2> HIDE DEF Dom
  <2> QED
    BY <1>3, <1>4
<1>6. Equation(entry)
  BY <1>5, Zenon
<1>7. ls_entries(M) = entry
  BY DEF ls_entries, ends, next, Shown, Showings
<1> HIDE DEF entry
<1>8. \A s \in Dom : entry[s] = IF ends(s) THEN s.names ELSE entry[next(s)]
  <2> HIDE DEF Dom
  <2> QED
    BY <1>6
<1> QED
  BY <1>7, <1>8 DEF Lists, ends, next

\* The names that were put into a directory, after each node.
NamesSoFar(names, i) ==
  /\ names \in [1 .. Len(image) -> Seq(Seq(Nat))]
  /\ names[1] = << >> /\ names[Len(image)] = NamesIn(i)
  /\ \A j \in 2 .. Len(image) :
       names[j] = IF image[j].parent = i THEN Append(names[j - 1], image[j].name) ELSE names[j - 1]

LEMMA NamesAre ==
  ASSUME IsImage(image), NEW i
  PROVE  \E names : NamesSoFar(names, i)
<1> DEFINE L == Len(image)
           S == Seq(Seq(Nat))
           step == [x \in Nat \X S |-> IF x[1] \in 2 .. L /\ image[x[1]].parent = i THEN Append(x[2], image[x[1]].name) ELSE x[2]]
           next(g, j) == IF image[j].parent = i THEN Append(g[j - 1], image[j].name) ELSE g[j - 1]
           Equation(g) == g = [j \in 1 .. L |-> IF j = 1 THEN << >> ELSE next(g, j)]
           names == CHOOSE g : Equation(g)
<1>1. L \in Nat \ {0} /\ \A j \in 2 .. L : image[j].name \in Seq(Nat)
  <2>1. \A j \in 2 .. L : image[j].name \in Seq(Bytes)
    BY Names DEF IsImage
  <2>2. Bytes \subseteq Nat
    BY Constants
  <2> QED
    BY <2>1, <2>2, LargerSeq DEF IsImage
<1>2. Steps(step, << >>, S)
  <2>1. << >> \in S
    OBVIOUS
  <2>2. ASSUME NEW x \in Nat \X S PROVE step[x] \in S
    BY <1>1
  <2> QED
    BY <2>1, <2>2 DEF Steps
<1>3. PICK f \in [1 .. L -> S] : RecursiveFrom1(f, step, << >>, L)
  <2> HIDE DEF step, S, L
  <2> QED
    BY <1>1, <1>2, RecursionFrom1, Zenon
<1>4. \A j \in 2 .. L : f[j] = next(f, j)
  <2> SUFFICES ASSUME NEW j \in 2 .. L PROVE f[j] = next(f, j)
    OBVIOUS
  <2>1. f[j] = step[<<j, f[j - 1]>>]
    BY <1>3 DEF RecursiveFrom1
  <2>2. f[j - 1] \in S /\ j \in Nat
    BY <1>1
  <2>3. step[<<j, f[j - 1]>>] = IF j \in 2 .. L /\ image[j].parent = i THEN Append(f[j - 1], image[j].name) ELSE f[j - 1]
    BY <2>2
  <2> QED
    BY <2>1, <2>3
<1> HIDE DEF step, next
<1>5. Equation(f)
  <2>1. \A j \in 1 .. L : f[j] = IF j = 1 THEN << >> ELSE next(f, j)
    <3>1. \A j \in 1 .. L : j = 1 \/ j \in 2 .. L
      BY <1>1
    <3>2. f[1] = << >>
      BY <1>3 DEF RecursiveFrom1
    <3> QED
      BY <1>4, <3>1, <3>2
  <2> HIDE DEF L, S
  <2> QED
    BY <1>3, <2>1
<1>6. Equation(names)
  BY <1>5, Zenon
<1>7. NamesIn(i) = names[L]
  BY DEF NamesIn, next
<1> HIDE DEF names
<1>8. names[1] = << >> /\ \A j \in 2 .. L : names[j] = next(names, j)
  <2>1. 1 \in 1 .. L /\ \A j \in 2 .. L : j \in 1 .. L /\ j # 1
    BY <1>1
  <2> HIDE DEF L
  <2> QED
    BY <1>6, <2>1
<1> HIDE DEF Equation
<1>9. \A j \in 1 .. L : names[j] = f[j]
  <2> DEFINE T == {j \in 1 .. L : names[j] = f[j]}
  <2>1. 1 \in T
    BY <1>1, <1>3, <1>8 DEF RecursiveFrom1
  <2>2. ASSUME NEW j \in 2 .. L, j - 1 \in T PROVE j \in T
    <3>1. names[j - 1] = f[j - 1] /\ j \in 1 .. L
      BY <2>2, <1>1
    <3>2. names[j] = f[j]
      BY <1>4, <1>8, <3>1 DEF next
    <3> QED
      BY <3>1, <3>2
  <2> HIDE DEF T
  <2>3. \A j \in 1 .. L : j \in T
    <3>1. L \in Nat
      BY <1>1
    <3> HIDE DEF L
    <3> QED
      BY <2>1, <2>2, <3>1, Upward
  <2> QED
    BY <2>3 DEF T
<1>10. f[L] = NamesIn(i) /\ f[1] = << >>
  BY <1>1, <1>3, <1>7, <1>9 DEF RecursiveFrom1
<1> QED
  BY <1>3, <1>4, <1>10 DEF next, NamesSoFar

\* ls shows the names that are in a directory.
LEMMA DirectoryShown ==
  ASSUME IsImage(image), Accepted(image), NEW i \in 1 .. Len(image), image[i].dir
  PROVE  ls(Encode(image), SectorOf(image)[i]) = NamesIn(i)
<1> DEFINE L == Len(image)
           M == Encode(image)
           sec == SectorOf(image)[i]
           shows == ls_entries(M)
<1>1. L \in Nat \ {0}
  BY DEF IsImage
<1>2. sec \in Sectors
  BY SectorsExist
<1>3. PICK at : Listed(M, image, i, at)
  BY Layout
<1>4. PICK names :
        /\ names \in [1 .. L -> Seq(Seq(Nat))]
        /\ names[1] = << >> /\ names[L] = NamesIn(i)
        /\ \A j \in 2 .. L : names[j] = IF image[j].parent = i THEN Append(names[j - 1], image[j].name) ELSE names[j - 1]
  <2>1. PICK names : NamesSoFar(names, i)
    BY NamesAre
  <2> QED
    BY <2>1 DEF NamesSoFar
<1>5. at \in [0 .. L + 1 -> Nat] /\ at[2] = 12 /\ ByteAt(M, sec, at[L + 1]) = 0
  BY <1>3 DEF Listed, FirstEntry
<1>6. ASSUME NEW ndx \in Nat, NEW shown \in Seq(Seq(Nat))
      PROVE  shows[Showing(sec, ndx, shown)] =
               IF NameAt(M, sec, ndx) = << >> THEN shown
               ELSE shows[Showing(sec, ndx + (Len(NameAt(M, sec, ndx)) + 3), Append(shown, NameAt(M, sec, ndx)))]
  <2> DEFINE s == Showing(sec, ndx, shown)
  <2>1. s \in Showings /\ s.sec = sec /\ s.ndx = ndx /\ s.names = shown
    BY <1>2, ShowingIs
  <2>2. Lists(M, s)
    BY <2>1, ListStep
  <2>3. Shown(M, s) = Showing(sec, ndx + (Len(NameAt(M, sec, ndx)) + 3), Append(shown, NameAt(M, sec, ndx)))
    BY ShownIs
  <2> HIDE DEF s
  <2>4. shows[s] = IF NameAt(M, sec, ndx) = << >> THEN shown ELSE shows[Shown(M, s)]
    BY <2>1, <2>2, Zenon DEF Lists
  <2> QED
    BY <2>3, <2>4, Zenon DEF s
<1> DEFINE T == {e \in 1 .. L : shows[Showing(sec, 12, << >>)] = shows[Showing(sec, at[e + 1], names[e])]}
<1> HIDE DEF shows, sec, M
<1>7. 1 \in T
  <2>1. 1 \in 1 .. L /\ 1 + 1 = 2
    BY <1>1
  <2>2. at[1 + 1] = 12 /\ names[1] = << >>
    BY <1>4, <1>5, <2>1
  <2> QED
    BY <2>1, <2>2, Zenon
<1>8. ASSUME NEW e \in 2 .. L, e - 1 \in T PROVE e \in T
  <2>1. e \in 0 .. L /\ e \in 1 .. L /\ e - 1 \in 1 .. L /\ (e - 1) + 1 = e /\ e + 1 \in 0 .. L + 1 /\ e \in 0 .. L + 1
    BY <1>1
  <2>2. at[e] \in Nat /\ names[e - 1] \in Seq(Seq(Nat))
    BY <1>4, <1>5, <2>1
  <2>3. shows[Showing(sec, 12, << >>)] = shows[Showing(sec, at[e], names[e - 1])]
    BY <1>8, <2>1, Zenon
  <2>4. CASE image[e].parent = i
    <3> DEFINE name == image[e].name
    <3>1. IsEntry(image, i, e) /\ EntryName(image, e) = name
      BY <2>4 DEF IsEntry, EntryName
    <3>2. EntryAt(M, sec, at[e], name, SectorOfEntry(image, i, e)) /\ at[e + 1] = at[e] + Len(name) + 3
      BY <1>3, <2>1, <3>1 DEF Listed, sec
    <3>3. name \in Seq(Bytes) /\ Len(name) \in Nat \ {0} /\ \A n \in 1 .. Len(name) : name[n] # 0
      <4>1. name \in EntryNames
        BY DEF IsImage
      <4>2. name \in Seq(Bytes) /\ Len(name) \in Nat \ {0} /\ \A n \in 1 .. Len(name) : name[n] \in CharBytes
        BY <4>1, Names
      <4>3. 0 \notin CharBytes
        BY DEF CharBytes
      <4> QED
        BY <4>2, <4>3
    <3> HIDE DEF name
    <3>4. NameAt(M, sec, at[e]) = name
      BY <3>2, <3>3, NameOfEntry
    <3>5. name # << >>
      BY <3>3
    <3>6. at[e] + (Len(name) + 3) = at[e + 1]
      <4>1. PICK x \in Nat, l \in Nat : x = at[e] /\ l = Len(name)
        BY <2>2, <3>3
      <4>2. x + (l + 3) = x + l + 3
        OBVIOUS
      <4> QED
        BY <3>2, <4>1, <4>2, Zenon
    <3>7. names[e] = Append(names[e - 1], name)
      BY <1>4, <2>4 DEF name
    <3>8. shows[Showing(sec, at[e], names[e - 1])] = shows[Showing(sec, at[e] + (Len(name) + 3), Append(names[e - 1], name))]
      BY <1>6, <2>2, <3>4, <3>5, Zenon
    <3> QED
      BY <2>1, <2>3, <3>6, <3>7, <3>8, Zenon
  <2>5. CASE image[e].parent # i
    <3>1. ~IsEntry(image, i, e)
      BY <2>5 DEF IsEntry
    <3>2. at[e + 1] = at[e]
      BY <1>3, <2>1, <3>1 DEF Listed
    <3>3. names[e] = names[e - 1]
      BY <1>4, <2>5
    <3> QED
      BY <2>1, <2>3, <3>2, <3>3, Zenon
  <2> QED
    BY <2>4, <2>5
<1>9. L \in T
  <2>1. L \in Nat /\ L \in 1 .. L
    BY <1>1
  <2> HIDE DEF L, T
  <2>2. \A e \in 1 .. L : e \in T
    BY <1>7, <1>8, <2>1, Upward
  <2> QED
    BY <2>1, <2>2
<1>10. shows[Showing(sec, at[L + 1], names[L])] = names[L]
  <2>1. L + 1 \in 0 .. L + 1 /\ L \in 1 .. L
    BY <1>1
  <2>2. at[L + 1] \in Nat /\ names[L] \in Seq(Seq(Nat))
    BY <1>4, <1>5, <2>1
  <2>3. NameAt(M, sec, at[L + 1]) = << >>
    BY <1>5, <2>2, NameAtEnd
  <2> QED
    BY <1>6, <2>2, <2>3, Zenon
<1>11. ls(M, sec) = shows[Showing(sec, 12, << >>)]
  BY DEF ls, shows, Showing, FirstEntry
<1>12. ls(M, sec) = NamesIn(i)
  BY <1>4, <1>9, <1>10, <1>11, Zenon
<1> QED
  BY <1>12 DEF M, sec

-----------------------------------------------------------------------------
(* decodemem: files *)

Outputs == [sec : Sectors, file : Seq(Nat)]

Output(sec, file) == [sec |-> sec, file |-> file]

LEMMA OutputIs ==
  ASSUME NEW sec, NEW file
  PROVE  /\ Output(sec, file).sec = sec /\ Output(sec, file).file = file
         /\ Output(sec, file) \in Outputs <=> sec \in Sectors /\ file \in Seq(Nat)
  BY DEF Output, Outputs

LEMMA DataOfImage ==
  ASSUME NEW im, IsImage(im), Accepted(im), NEW sec \in Sectors
  PROVE  Data(Encode(im), sec) \in Seq(Nat)
<1>1. PICK s : s = Encode(im)[sec] /\ s \in [1 .. BYTE -> Bytes]
  BY BytesOfImage
<1>2. PICK m \in 0 .. BYTE - 1 : m = ByteAt(Encode(im), sec, MaxIndex)
  <2>1. MaxIndex \in Nat
    BY DEF MaxIndex
  <2> QED
    BY <2>1, ByteOfImage DEF Bytes
<1>3. BYTE \in Nat /\ Bytes \subseteq Nat
  BY Constants
<1>4. Data(Encode(im), sec) = SubSeq(s, 5, m + 1)
  <2>1. 4 + 1 = 5
    OBVIOUS
  <2> QED
    BY <1>1, <1>2, <2>1 DEF Data, DataStart
<1>5. PICK k \in Nat : 1 .. k = 1 .. (m + 1) - 5 + 1
  <2>1. CASE m - 3 \in Nat
    <3>1. m - 3 = (m + 1) - 5 + 1
      BY <1>2, <1>3
    <3> QED
      BY <2>1, <3>1
  <2>2. CASE m - 3 \notin Nat
    <3>1. 1 .. 0 = 1 .. (m + 1) - 5 + 1
      BY <2>2, <1>2, <1>3
    <3> QED
      BY <3>1
  <2> QED
    BY <2>1, <2>2
<1>6. SubSeq(s, 5, m + 1) = [j \in 1 .. k |-> s[5 + j - 1]]
  <2>1. SubSeq(s, 5, m + 1) = [j \in 1 .. (m + 1) - 5 + 1 |-> s[5 + j - 1]]
    BY <1>2, <1>3
  <2> QED
    BY <1>5, <2>1, Zenon
<1>7. ASSUME NEW j \in 1 .. k PROVE s[5 + j - 1] \in Nat
  <2>1. j \in 1 .. (m + 1) - 5 + 1
    BY <1>5
  <2>2. PICK n \in 1 .. BYTE : n = 5 + j - 1
    BY <2>1, <1>2, <1>3
  <2> QED
    BY <1>1, <1>3, <2>2
<1>8. [j \in 1 .. k |-> s[5 + j - 1]] \in Seq(Nat)
  BY <1>7
<1> QED
  BY <1>4, <1>6, <1>8

\* What decode_file does with a sector.
Decodes(M, s) ==
  decode_loop(M)[s] =
    IF WordOf(M, s.sec, NextIndex) = NoSector THEN s.file \o Data(M, s.sec)
    ELSE decode_loop(M)[Output(WordOf(M, s.sec, NextIndex), s.file \o Data(M, s.sec))]

LEMMA DecodeStep ==
  ASSUME NEW im, IsImage(im), Accepted(im)
  PROVE  \A s \in Outputs : Decodes(Encode(im), s)
<1> DEFINE M == Encode(im)
           Dom == Outputs
           ends(s) == WordOf(M, s.sec, NextIndex) = NoSector
           file(s) == s.file \o Data(M, s.sec)
           next(s) == Output(WordOf(M, s.sec, NextIndex), file(s))
           stop == {s \in Dom : ends(s)}
           values == [s \in Dom |-> file(s)]
           after == [s \in Dom |-> next(s)]
           Equation(g) == g = [s \in Dom |-> IF ends(s) THEN file(s) ELSE g[next(s)]]
           loop == CHOOSE g : Equation(g)
<1>1. ASSUME NEW s \in Dom, ~ends(s) PROVE next(s) \in Dom
  <2>1. s.sec \in Sectors /\ s.file \in Seq(Nat)
    BY DEF Outputs
  <2>2. WordOf(M, s.sec, NextIndex) \in Sectors
    BY <1>1, <2>1, ChainsOfImages DEF Chains
  <2>3. Data(M, s.sec) \in Seq(Nat)
    BY <2>1, DataOfImage
  <2>4. file(s) \in Seq(Nat)
    BY <2>1, <2>3, Joined
  <2> HIDE DEF file
  <2> QED
    BY <2>2, <2>4, OutputIs, Zenon
<1> HIDE DEF ends, next, file
<1>2. \A s \in Dom \ stop : after[s] \in Dom
  <2> SUFFICES ASSUME NEW s \in Dom, s \notin stop PROVE after[s] \in Dom
    OBVIOUS
  <2>1. ~ends(s) /\ after[s] = next(s)
    OBVIOUS
  <2> HIDE DEF after, Dom
  <2> QED
    BY <1>1, <2>1, Zenon
<1>3. PICK w : w = [s \in Dom |-> w[s]] /\ Loops(w, Dom, stop, values, after)
  <2> HIDE DEF Dom, stop, values, after
  <2> QED
    BY <1>2, Loop, Zenon
<1>4. ASSUME NEW s \in Dom PROVE w[s] = IF ends(s) THEN file(s) ELSE w[next(s)]
  <2>1. w[s] = IF s \in stop THEN values[s] ELSE w[after[s]]
    BY <1>3 DEF Loops
  <2>2. (s \in stop <=> ends(s)) /\ values[s] = file(s) /\ after[s] = next(s)
    BY Zenon
  <2> HIDE DEF stop, values, after
  <2> QED
    BY <2>1, <2>2, Zenon
<1>5. Equation(w)
  <2> HIDE DEF Dom
  <2> QED
    BY <1>3, <1>4
<1>6. Equation(loop)
  BY <1>5, Zenon
<1>7. decode_loop(M) = loop
  BY DEF decode_loop, ends, next, file, Output, Outputs
<1> HIDE DEF loop
<1>8. \A s \in Dom : loop[s] = IF ends(s) THEN file(s) ELSE loop[next(s)]
  <2> HIDE DEF Dom
  <2> QED
    BY <1>6
<1> QED
  BY <1>7, <1>8 DEF Decodes, ends, next, file

LEMMA PrefixAndMore ==
  ASSUME NEW S, NEW content \in Seq(S), NEW a \in Nat, NEW piece \in Seq(S), a + Len(piece) <= Len(content),
         \A j \in 1 .. Len(piece) : piece[j] = content[a + j]
  PROVE  SubSeq(content, 1, a) \o piece = SubSeq(content, 1, a + Len(piece))
<1>1. PICK c \in Nat, l \in Nat : c = Len(content) /\ l = Len(piece) /\ a + l <= c
  BY LenProperties
<1>2. SubSeq(content, 1, a) = [j \in 1 .. a |-> content[j]]
  BY <1>1
<1>3. SubSeq(content, 1, a + l) = [j \in 1 .. a + l |-> content[j]]
  BY <1>1
<1> DEFINE s == [j \in 1 .. a |-> content[j]]
<1>4. s \in Seq(S) /\ Len(s) = a
  BY <1>1
<1>5. s \o piece = [j \in 1 .. a + l |-> IF j <= a THEN s[j] ELSE piece[j - a]]
  <2>1. s \o piece = [j \in 1 .. Len(s) + Len(piece) |-> IF j <= Len(s) THEN s[j] ELSE piece[j - Len(s)]]
    OBVIOUS
  <2> HIDE DEF s
  <2> QED
    BY <1>1, <1>4, <2>1
<1>6. ASSUME NEW j \in 1 .. a + l PROVE (IF j <= a THEN s[j] ELSE piece[j - a]) = content[j]
  <2>1. CASE j <= a
    BY <2>1
  <2>2. CASE ~(j <= a)
    <3>1. PICK n \in 1 .. l : n = j - a /\ a + n = j
      BY <2>2, <1>1
    <3> QED
      BY <2>2, <3>1, <1>1
  <2> QED
    BY <2>1, <2>2
<1> HIDE DEF s
<1>7. s \o piece = [j \in 1 .. a + l |-> content[j]]
  BY <1>5, <1>6
<1> QED
  BY <1>1, <1>2, <1>3, <1>7 DEF s

\* decodemem writes the bytes of the file.
LEMMA FileDecoded ==
  ASSUME NEW im, IsImage(im), Accepted(im), NEW i \in 1 .. Len(im), ~im[i].dir
  PROVE  decode_file(Encode(im), SectorOf(im)[i]) = im[i].content
<1> DEFINE content == im[i].content
           first == SectorOf(im)[i]
           M == Encode(im)
           loop == decode_loop(M)
           piece(k) == Piece(content, k)
           next(k) == IF k + 1 < SectorsFor(content) THEN first + k + 1 ELSE NoSector
<1>1. content \in Seq(Bytes) /\ content \in Seq(Nat) /\ first \in Nat /\ SectorsFor(content) \in Nat \ {0}
  <2>1. im \in Seq(Nodes)
    BY DEF IsImage
  <2>2. im[i] \in Nodes /\ SectorsOf(im[i]) = SectorsFor(content)
    BY <2>1, ElementOfSeq DEF SectorsOf
  <2>3. content \in Seq(Bytes)
    BY <2>2 DEF Nodes
  <2>4. content \in Seq(Nat)
    BY <2>3, LargerSeq, Constants
  <2>5. first \in Nat /\ SectorsOf(im[i]) \in Nat \ {0}
    BY SectorsExist
  <2> QED
    BY <2>2, <2>3, <2>4, <2>5
<1>2. PICK n \in Nat \ {0} : n = SectorsFor(content)
  BY <1>1
<1>3. ASSUME NEW k \in Nat, k < n
      PROVE  /\ first + k \in Sectors /\ piece(k) \in Seq(Nat) /\ Len(piece(k)) \in Nat
             /\ k * Room \in Nat /\ k * Room + Len(piece(k)) <= Len(content)
             /\ WordOf(M, first + k, NextIndex) = next(k) /\ Data(M, first + k) = piece(k)
             /\ SubSeq(content, 1, k * Room) \o piece(k) = SubSeq(content, 1, k * Room + Len(piece(k)))
             /\ k + 1 < n => k * Room + Len(piece(k)) = (k + 1) * Room
             /\ ~(k + 1 < n) => k * Room + Len(piece(k)) = Len(content)
  <2>1. k < SectorsFor(content)
    BY <1>2, <1>3, Zenon
  <2>2. first + k \in Sectors /\ PieceAt(M, first + k, piece(k), next(k))
    BY <2>1, PieceOf
  <2>3. /\ piece(k) \in Seq(Bytes) /\ Len(piece(k)) \in 0 .. Room
        /\ Len(piece(k)) = IF k + 1 < SectorsFor(content) THEN Room ELSE Len(content) - k * Room
        /\ k * Room \in Nat /\ k * Room + Len(piece(k)) <= Len(content)
        /\ (k + 1) * Room = k * Room + Room
        /\ \A j \in 1 .. Len(piece(k)) : piece(k)[j] = content[k * Room + j]
    BY <1>1, <2>1, Pieces
  <2> HIDE DEF piece, next, content, first, M
  <2>4. Holds(M, first + k, piece(k), next(k))
    BY <2>2, <2>3, PieceIsRead
  <2>5. piece(k) \in Seq(Nat)
    BY <2>3, LargerSeq, Constants
  <2>6. SubSeq(content, 1, k * Room) \o piece(k) = SubSeq(content, 1, k * Room + Len(piece(k)))
    <3>1. Len(piece(k)) \in Nat
      BY <2>5
    <3> QED
      BY <1>1, <2>3, <2>5, PrefixAndMore
  <2>7. PICK a \in Nat, l \in Nat, c \in Nat : a = k * Room /\ l = Len(piece(k)) /\ c = Len(content)
    BY <1>1, <2>3, <2>5, LenProperties
  <2>8. CASE k + 1 < n
    <3>1. a + l = (k + 1) * Room
      BY <1>2, <2>3, <2>7, <2>8, Zenon
    <3> QED
      BY <2>2, <2>3, <2>4, <2>5, <2>6, <2>7, <2>8, <3>1, Zenon DEF Holds
  <2>9. CASE ~(k + 1 < n)
    <3>1. l = c - a
      BY <1>2, <2>3, <2>7, <2>9, Zenon
    <3>2. a + l = c
      BY <3>1
    <3> QED
      BY <2>2, <2>3, <2>4, <2>5, <2>6, <2>7, <2>9, <3>2, Zenon DEF Holds
  <2> QED
    BY <2>8, <2>9
<1>4. ASSUME NEW sec \in Sectors, NEW file \in Seq(Nat)
      PROVE  loop[Output(sec, file)] =
               IF WordOf(M, sec, NextIndex) = NoSector THEN file \o Data(M, sec)
               ELSE loop[Output(WordOf(M, sec, NextIndex), file \o Data(M, sec))]
  <2> DEFINE s == Output(sec, file)
  <2>1. s \in Outputs /\ s.sec = sec /\ s.file = file
    BY OutputIs
  <2>2. Decodes(M, s)
    BY <2>1, DecodeStep
  <2> HIDE DEF s
  <2>3. loop[s] = IF WordOf(M, s.sec, NextIndex) = NoSector THEN s.file \o Data(M, s.sec)
                  ELSE loop[Output(WordOf(M, s.sec, NextIndex), s.file \o Data(M, s.sec))]
    BY <2>2, Zenon DEF Decodes
  <2> QED
    BY <2>1, <2>3, Zenon DEF s
<1>5. decode_file(M, first) = loop[Output(first, << >>)]
  BY DEF decode_file, Output
<1>6. \A k \in Nat : k < n => first + k # NoSector
  BY <1>3, NoSectorIsWord
<1> DEFINE T == {k \in Nat : k < n => loop[Output(first, << >>)] = loop[Output(first + k, SubSeq(content, 1, k * Room))]}
<1> HIDE DEF content, first, M, loop, piece
<1>7. \A k \in Nat : SubSeq(content, 1, k * Room) \in Seq(Nat) \/ ~(k < n)
  <2> SUFFICES ASSUME NEW k \in Nat, k < n PROVE SubSeq(content, 1, k * Room) \in Seq(Nat)
    OBVIOUS
  <2>1. PICK a \in Nat, c \in Nat : a = k * Room /\ c = Len(content) /\ a <= c
    <3>1. PICK a \in Nat, l \in Nat, c \in Nat : a = k * Room /\ l = Len(piece(k)) /\ c = Len(content) /\ a + l <= c
      BY <1>1, <1>3, LenProperties
    <3>2. a <= c
      <4>1. a + l <= c
        BY <3>1
      <4> QED
        BY <4>1
    <3> QED
      BY <3>1, <3>2, Zenon
  <2>2. SubSeq(content, 1, a) = [j \in 1 .. a |-> content[j]]
    BY <1>1, <2>1
  <2>3. \A j \in 1 .. a : content[j] \in Nat
    BY <1>1, <2>1
  <2> QED
    BY <2>1, <2>2, <2>3
<1>8. 0 \in T
  <2>1. 0 * Room = 0 /\ first + 0 = first
    BY <1>1, Constants
  <2>2. SubSeq(content, 1, 0) = << >>
    BY <1>1
  <2> QED
    BY <2>1, <2>2, Zenon
<1>9. ASSUME NEW k \in Nat, k \in T PROVE k + 1 \in T
  <2> SUFFICES ASSUME k + 1 < n
               PROVE  loop[Output(first, << >>)] = loop[Output(first + (k + 1), SubSeq(content, 1, (k + 1) * Room))]
    OBVIOUS
  <2>1. k < n
    OBVIOUS
  <2>2. loop[Output(first, << >>)] = loop[Output(first + k, SubSeq(content, 1, k * Room))]
    BY <1>9, <2>1
  <2>3. next(k) = first + (k + 1)
    <3>1. k + 1 < SectorsFor(content)
      BY <1>2, Zenon
    <3>2. next(k) = first + k + 1
      BY <3>1, Zenon
    <3>3. first + k + 1 = first + (k + 1)
      BY <1>1
    <3> QED
      BY <3>2, <3>3
  <2>4. next(k) # NoSector
    BY <1>6, <2>3
  <2> HIDE DEF next
  <2>5. loop[Output(first + k, SubSeq(content, 1, k * Room))] = loop[Output(next(k), SubSeq(content, 1, k * Room) \o piece(k))]
    BY <1>3, <1>4, <1>7, <2>1, <2>4, Zenon
  <2>6. SubSeq(content, 1, k * Room) \o piece(k) = SubSeq(content, 1, (k + 1) * Room)
    BY <1>3, <2>1, Zenon
  <2> QED
    BY <2>2, <2>3, <2>5, <2>6, Zenon
<1>10. \A k \in Nat : k \in T
  <2> HIDE DEF T
  <2> QED
    BY <1>8, <1>9, AllNumbers DEF T
<1>11. loop[Output(first, << >>)] = content
  <2>1. PICK k \in Nat : k + 1 = n /\ k < n /\ ~(k + 1 < n)
    <3>1. n - 1 \in Nat /\ (n - 1) + 1 = n /\ n - 1 < n /\ ~(n < n)
      OBVIOUS
    <3> QED
      BY <3>1
  <2>2. loop[Output(first, << >>)] = loop[Output(first + k, SubSeq(content, 1, k * Room))]
    BY <1>10, <2>1
  <2>3. next(k) = NoSector
    BY <1>2, <2>1, Zenon
  <2> HIDE DEF next
  <2>4. loop[Output(first + k, SubSeq(content, 1, k * Room))] = SubSeq(content, 1, k * Room) \o piece(k)
    BY <1>3, <1>4, <1>7, <2>1, <2>3, Zenon
  <2>5. SubSeq(content, 1, k * Room) \o piece(k) = SubSeq(content, 1, Len(content))
    BY <1>3, <2>1, Zenon
  <2>6. SubSeq(content, 1, Len(content)) = content
    BY <1>1
  <2> QED
    BY <2>2, <2>4, <2>5, <2>6, Zenon
<1> QED
  BY <1>5, <1>11 DEF M, first, content

-----------------------------------------------------------------------------
(* decodemem: directories *)

\* A path that fits is not cut.
LEMMA BelowIs ==
  ASSUME NEW outpath \in Seq(Nat), NEW name \in Seq(Nat)
  PROVE  /\ outpath \o << Slash >> \o name \in Seq(Nat)
         /\ Below(outpath, name) \in Seq(Nat)
         /\ Len(outpath \o << Slash >> \o name) < BYTE => Below(outpath, name) = outpath \o << Slash >> \o name
<1> DEFINE all == outpath \o << Slash >> \o name
<1>1. all \in Seq(Nat)
  <2>1. Slash \in Nat
    BY Constants
  <2>2. << Slash >> \in Seq(Nat)
    BY <2>1
  <2>3. outpath \o << Slash >> \in Seq(Nat)
    BY <2>2, ConcatProperties
  <2> QED
    BY <2>3, ConcatProperties
<1> HIDE DEF all
<1>2. PICK n \in Nat : n = Len(all)
  BY <1>1, LenProperties
<1>3. PICK last \in Int : last = (IF n < BYTE THEN n ELSE BYTE - 1) /\ last <= n
  BY Constants
<1>4. Cut(all) = SubSeq(all, 1, last)
  BY <1>2, <1>3, Zenon DEF Cut
<1>5. \A k \in 1 .. last : all[k] \in Nat
  <2>1. \A k \in 1 .. last : k \in 1 .. Len(all)
    BY <1>2, <1>3
  <2> QED
    BY <1>1, <2>1, ElementOfSeq
<1>6. SubSeq(all, 1, last) \in Seq(Nat)
  BY <1>5, SubSeqProperties
<1>7. n < BYTE => SubSeq(all, 1, last) = all
  BY <1>1, <1>2, <1>3, SubSeqFull
<1>8. Below(outpath, name) = Cut(all)
  BY Zenon DEF Below, all
<1>9. Below(outpath, name) \in Seq(Nat) /\ (Len(all) < BYTE => Below(outpath, name) = all)
  BY <1>2, <1>4, <1>6, <1>7, <1>8
<1> QED
  BY <1>1, <1>9 DEF all

Listings == [sec : Sectors, ndx : Nat, outpath : Seq(Nat)]

Listing(sec, ndx, outpath) == [sec |-> sec, ndx |-> ndx, outpath |-> outpath]

LEMMA ListingIs ==
  ASSUME NEW sec, NEW ndx, NEW outpath
  PROVE  /\ Listing(sec, ndx, outpath).sec = sec /\ Listing(sec, ndx, outpath).ndx = ndx
         /\ Listing(sec, ndx, outpath).outpath = outpath
         /\ Listing(sec, ndx, outpath) \in Listings <=> sec \in Sectors /\ ndx \in Nat /\ outpath \in Seq(Nat)
  BY DEF Listing, Listings

LEMMA EveryListing ==
  ASSUME NEW e \in Listings
  PROVE  \E sec \in Sectors, ndx \in Nat, outpath \in Seq(Nat) : e = Listing(sec, ndx, outpath)
<1>1. e = [sec |-> e.sec, ndx |-> e.ndx, outpath |-> e.outpath]
  BY DEF Listings
<1>2. e.sec \in Sectors /\ e.ndx \in Nat /\ e.outpath \in Seq(Nat)
  BY DEF Listings
<1> QED
  BY <1>1, <1>2, Zenon DEF Listing

\* The listing goes on behind an entry, and in the directory the entry is of.
Behind(M, e) == [e EXCEPT !.ndx = @ + ToZero(M, e.sec, e.ndx) + 3]
SectorOfListed(M, e) == EntrySector(M, e.sec, e.ndx + ToZero(M, e.sec, e.ndx) + 1)
PathOfListed(M, e) == Below(e.outpath, NameAt(M, e.sec, e.ndx))
Inside(M, e) == Listing(SectorOfListed(M, e), FirstEntry, PathOfListed(M, e))
ListingEnds(M, e) == ToZero(M, e.sec, e.ndx) = 0 \/ ByteAt(M, e.sec, e.ndx + ToZero(M, e.sec, e.ndx) + 1) = 0

LEMMA BehindIs ==
  ASSUME NEW M, NEW sec, NEW ndx, NEW outpath
  PROVE  Behind(M, Listing(sec, ndx, outpath)) = Listing(sec, ndx + ToZero(M, sec, ndx) + 3, outpath)
<1> DEFINE e == Listing(sec, ndx, outpath)
<1>1. e.sec = sec /\ e.ndx = ndx
  BY DEF Listing
<1>2. PICK n : n = ToZero(M, sec, ndx)
  OBVIOUS
<1>3. [e EXCEPT !.ndx = @ + n + 3] = Listing(sec, ndx + n + 3, outpath)
  BY DEF Listing
<1> HIDE DEF e
<1>4. Behind(M, e) = [e EXCEPT !.ndx = @ + n + 3]
  BY <1>1, <1>2, Zenon DEF Behind
<1> QED
  BY <1>2, <1>3, <1>4, Zenon DEF e

\* What decode_dir writes from an entry on, with g for what comes next.
Written(g, M, e) ==
  IF ListingEnds(M, e) THEN {}
  ELSE (IF SectorOfListed(M, e) \notin Sectors THEN {Crashed}
        ELSE IF ByteAt(M, SectorOfListed(M, e), 0) = D
        THEN {Entry(PathOfListed(M, e), TRUE, << >>)} \cup g[Inside(M, e)]
        ELSE {Entry(PathOfListed(M, e), FALSE, decode_file(M, SectorOfListed(M, e)))})
       \cup g[Behind(M, e)]

LEMMA EntriesStep ==
  ASSUME NEW im, IsImage(im), Accepted(im)
  PROVE  \A e \in Listings : decode_entries(Encode(im))[e] = Written(decode_entries(Encode(im)), Encode(im), e)
<1> DEFINE M == Encode(im)
           Dom == Listings
           ends(e) == ListingEnds(M, e)
           crashes(e) == SectorOfListed(M, e) \notin Sectors
           dir(e) == ByteAt(M, SectorOfListed(M, e), 0) = D
           entered(e) == Entry(PathOfListed(M, e), TRUE, << >>)
           file(e) == Entry(PathOfListed(M, e), FALSE, decode_file(M, SectorOfListed(M, e)))
           behind(e) == Behind(M, e)
           inside(e) == Inside(M, e)
           step(g, e) == IF ends(e) THEN {}
                         ELSE (IF crashes(e) THEN {Crashed} ELSE IF dir(e) THEN {entered(e)} \cup g[inside(e)] ELSE {file(e)})
                              \cup g[behind(e)]
           own(e) == IF ends(e) THEN {} ELSE IF crashes(e) THEN {Crashed} ELSE IF dir(e) THEN {entered(e)} ELSE {file(e)}
           X == UNION {own(e) : e \in Dom}
           here == [e \in Dom |-> own(e)]
           goes(e) == IF ends(e) THEN {} ELSE IF ~crashes(e) /\ dir(e) THEN {inside(e), behind(e)} ELSE {behind(e)}
           next == [e \in Dom |-> goes(e)]
           Equation(g) == g = [e \in Dom |-> step(g, e)]
           entries == CHOOSE g : Equation(g)
<1>1. ASSUME NEW e \in Dom PROVE behind(e) \in Dom /\ (~crashes(e) => inside(e) \in Dom)
  <2>1. PICK sec \in Sectors, ndx \in Nat, outpath \in Seq(Nat) : e = Listing(sec, ndx, outpath)
    BY EveryListing, Zenon
  <2>2. PICK n \in Nat : n = ToZero(M, sec, ndx)
    BY ToZeroInNat
  <2>3. ndx + n + 3 \in Nat /\ FirstEntry \in Nat
    BY DEF FirstEntry
  <2>4. Behind(M, e) = Listing(sec, ndx + n + 3, outpath)
    <3>1. Behind(M, Listing(sec, ndx, outpath)) = Listing(sec, ndx + ToZero(M, sec, ndx) + 3, outpath)
      BY BehindIs
    <3> HIDE DEF M
    <3> QED
      BY <2>1, <2>2, <3>1, Zenon
  <2>5. behind(e) \in Dom
    <3>1. Listing(sec, ndx + n + 3, outpath) \in Listings
      BY <2>3, ListingIs
    <3> QED
      BY <2>4, <3>1, Zenon
  <2>6. PathOfListed(M, e) \in Seq(Nat)
    <3>1. e.sec = sec /\ e.ndx = ndx /\ e.outpath = outpath
      BY <2>1, ListingIs
    <3>2. NameAt(M, sec, ndx) \in Seq(Nat)
      BY NameOfImage
    <3> QED
      BY <2>1, <3>1, <3>2, BelowIs DEF PathOfListed
  <2>7. ~crashes(e) => inside(e) \in Dom
    BY <2>3, <2>6, ListingIs, Zenon DEF Inside
  <2> QED
    BY <2>5, <2>7
<1> HIDE DEF ends, crashes, dir, entered, file, behind, inside
<1>2. here \in [Dom -> SUBSET X]
  <2>1. \A e \in Dom : own(e) \in SUBSET X
    <3> HIDE DEF own
    <3> QED
      BY Zenon
  <2> HIDE DEF X, own, Dom
  <2> QED
    BY <2>1
<1>3. next \in [Dom -> SUBSET Dom]
  <2>1. \A e \in Dom : goes(e) \in SUBSET Dom
    <3> HIDE DEF Dom
    <3> QED
      BY <1>1, Zenon
  <2> HIDE DEF goes, Dom
  <2> QED
    BY <2>1
<1>4. PICK w : Collects(w, Dom, X, here, next)
  <2> HIDE DEF Dom, X, here, next
  <2> QED
    BY <1>2, <1>3, Collection, Zenon
<1>5. w \in [Dom -> SUBSET X] /\ \A e \in Dom : w[e] = here[e] \cup UNION {w[t] : t \in next[e]}
  BY <1>4 DEF Collects
<1>6. ASSUME NEW e \in Dom PROVE w[e] = step(w, e)
  <2>1. w[e] = own(e) \cup UNION {w[t] : t \in goes(e)}
    <3>1. here[e] = own(e) /\ next[e] = goes(e)
      BY Zenon
    <3> HIDE DEF own, goes, here, next, Dom, X
    <3> QED
      BY <1>5, <3>1, Zenon
  <2>2. CASE ends(e)
    <3>1. own(e) = {} /\ goes(e) = {} /\ step(w, e) = {}
      BY <2>2, Zenon
    <3> HIDE DEF own, goes, step
    <3> QED
      BY <2>1, <3>1, Zenon
  <2>3. CASE ~ends(e) /\ crashes(e)
    <3>1. own(e) = {Crashed} /\ goes(e) = {behind(e)} /\ step(w, e) = {Crashed} \cup w[behind(e)]
      BY <2>3, Zenon
    <3> HIDE DEF own, goes, step
    <3> QED
      BY <2>1, <3>1, Zenon
  <2>4. CASE ~ends(e) /\ ~crashes(e) /\ dir(e)
    <3>1. own(e) = {entered(e)} /\ goes(e) = {inside(e), behind(e)} /\ step(w, e) = ({entered(e)} \cup w[inside(e)]) \cup w[behind(e)]
      BY <2>4, Zenon
    <3> HIDE DEF own, goes, step
    <3>2. UNION {w[t] : t \in goes(e)} = w[inside(e)] \cup w[behind(e)]
      BY <3>1, Zenon
    <3> QED
      BY <2>1, <3>1, <3>2, Zenon
  <2>5. CASE ~ends(e) /\ ~crashes(e) /\ ~dir(e)
    <3>1. own(e) = {file(e)} /\ goes(e) = {behind(e)} /\ step(w, e) = {file(e)} \cup w[behind(e)]
      BY <2>5, Zenon
    <3> HIDE DEF own, goes, step
    <3> QED
      BY <2>1, <3>1, Zenon
  <2> QED
    BY <2>2, <2>3, <2>4, <2>5, Zenon
<1>7. Equation(w)
  <2>1. w = [e \in Dom |-> w[e]]
    BY <1>5, Zenon
  <2> HIDE DEF Dom, step
  <2> QED
    BY <1>6, <2>1
<1>8. Equation(entries)
  BY <1>7, Zenon
<1>9. \A g, e : step(g, e) = Written(g, M, e)
  BY Zenon DEF Written, ends, crashes, dir, entered, file, behind, inside
<1>10. decode_entries(M) = entries
  BY DEF decode_entries, ends, crashes, dir, entered, file, behind, inside, ListingEnds, SectorOfListed, PathOfListed, Inside, Behind, Listing, Listings
<1> HIDE DEF entries
<1>11. \A e \in Dom : entries[e] = step(entries, e)
  <2> HIDE DEF Dom, step
  <2> QED
    BY <1>8
<1> HIDE DEF step
<1> QED
  BY <1>9, <1>10, <1>11, Zenon

\* The paths of the nodes.
PathsFromParents(paths) ==
  /\ paths[1] = Destination
  /\ \A j \in 2 .. Len(image) : paths[j] = paths[image[j].parent] \o << Slash >> \o image[j].name
  /\ \A j \in 1 .. Len(image) : paths[j] \in Seq(Nat)

LEMMA PathsAre ==
  ASSUME IsImage(image)
  PROVE  PathsFromParents(Paths)
<1> DEFINE L == Len(image)
           S == [1 .. L -> Seq(Nat)]
           start == [j \in 1 .. L |-> Destination]
           longer(g, n) == g[image[n].parent] \o << Slash >> \o image[n].name
           step == [x \in Nat \X S |-> IF x[1] \in 2 .. L THEN [x[2] EXCEPT ![x[1]] = longer(x[2], x[1])] ELSE x[2]]
           Equation(g) == g = [j \in 1 .. L |-> IF j = 1 THEN Destination ELSE longer(g, j)]
           above == CHOOSE g : Equation(g)
<1>1. /\ L \in Nat \ {0}
      /\ \A j \in 2 .. L : image[j].name \in Seq(Nat) /\ image[j].parent \in 1 .. j - 1 /\ image[j].parent \in 1 .. L
  <2>1. \A j \in 2 .. L : image[j].name \in Seq(Bytes)
    BY Names DEF IsImage
  <2>2. Bytes \subseteq Nat
    BY Constants
  <2>3. L \in Nat \ {0} /\ \A j \in 2 .. L : image[j].parent \in 1 .. j - 1
    BY DEF IsImage
  <2>4. \A j \in 2 .. L : image[j].parent \in 1 .. L
    BY <2>3
  <2> QED
    BY <2>1, <2>2, <2>3, <2>4, LargerSeq
<1>2. \A g \in S, n \in 2 .. L : longer(g, n) \in Seq(Nat)
  <2> SUFFICES ASSUME NEW g \in S, NEW n \in 2 .. L PROVE longer(g, n) \in Seq(Nat)
    OBVIOUS
  <2>1. g[image[n].parent] \in Seq(Nat) /\ image[n].name \in Seq(Nat)
    BY <1>1
  <2> QED
    BY <2>1, BelowIs
<1> HIDE DEF longer
<1>3. Steps(step, start, S)
  <2>1. start \in S
    <3>1. CharBytes \subseteq Nat
      BY Constants
    <3>2. Destination \in Seq(Nat)
      BY <3>1, DestinationAssumption, LargerSeq
    <3> QED
      BY <3>2
  <2>2. ASSUME NEW x \in Nat \X S PROVE (IF x[1] \in 2 .. L THEN [x[2] EXCEPT ![x[1]] = longer(x[2], x[1])] ELSE x[2]) \in S
    <3>1. CASE x[1] \in 2 .. L
      <4>1. PICK g \in S, n \in 2 .. L : g = x[2] /\ n = x[1]
        BY <3>1
      <4>2. longer(g, n) \in Seq(Nat) /\ n \in 1 .. L
        BY <1>1, <1>2
      <4>3. [g EXCEPT ![n] = longer(g, n)] \in S
        BY <4>2
      <4> QED
        BY <3>1, <4>1, <4>3
    <3>2. CASE x[1] \notin 2 .. L
      BY <3>2
    <3> QED
      BY <3>1, <3>2
  <2>3. step \in [Nat \X S -> S]
    <3> HIDE DEF S
    <3> QED
      BY <2>2
  <2> HIDE DEF step, start, S
  <2> QED
    BY <2>1, <2>3 DEF Steps
<1>4. PICK f \in [1 .. L -> S] : RecursiveFrom1(f, step, start, L)
  <2> HIDE DEF step, start, S, L
  <2> QED
    BY <1>1, <1>3, RecursionFrom1, Zenon
<1>5. f[1] = start
  BY <1>4 DEF RecursiveFrom1
<1>6. ASSUME NEW n \in 2 .. L
      PROVE  /\ n - 1 \in 1 .. L /\ f[n - 1] \in S /\ f[n] \in S
             /\ f[n] = [f[n - 1] EXCEPT ![n] = longer(f[n - 1], n)]
  <2>1. f[n] = step[<<n, f[n - 1]>>]
    BY <1>4 DEF RecursiveFrom1
  <2>2. n - 1 \in 1 .. L /\ n \in Nat /\ n \in 1 .. L
    BY <1>1
  <2>3. f[n - 1] \in S /\ f[n] \in S
    BY <1>4, <2>2
  <2>4. step[<<n, f[n - 1]>>] = [f[n - 1] EXCEPT ![n] = longer(f[n - 1], n)]
    <3>1. PICK x \in Nat \X S : x = <<n, f[n - 1]>> /\ x[1] = n /\ x[2] = f[n - 1]
      <4> HIDE DEF S, step
      <4>1. PICK g \in S : g = f[n - 1]
        BY <2>3
      <4>2. <<n, g>> \in Nat \X S /\ <<n, g>>[1] = n /\ <<n, g>>[2] = g
        BY <2>2
      <4> QED
        BY <4>1, <4>2
    <3>2. step[x] = IF x[1] \in 2 .. L THEN [x[2] EXCEPT ![x[1]] = longer(x[2], x[1])] ELSE x[2]
      BY Zenon
    <3> HIDE DEF step
    <3> QED
      BY <3>1, <3>2, Zenon
  <2> QED
    BY <2>1, <2>2, <2>3, <2>4, Zenon
<1> HIDE DEF step
<1>7. \A n \in 2 .. L : f[n][n] = longer(f[n - 1], n) /\ \A j \in 1 .. L : j # n => f[n][j] = f[n - 1][j]
  <2> SUFFICES ASSUME NEW n \in 2 .. L
               PROVE  f[n][n] = longer(f[n - 1], n) /\ \A j \in 1 .. L : j # n => f[n][j] = f[n - 1][j]
    OBVIOUS
  <2>1. PICK g \in S : g = f[n - 1]
    BY <1>6
  <2>2. n \in 1 .. L
    BY <1>1
  <2>3. f[n] = [g EXCEPT ![n] = longer(g, n)]
    BY <1>6, <2>1
  <2> QED
    BY <2>1, <2>2, <2>3
\* Once given, a path stays.
<1> DEFINE Good(n) == f[n][1] = Destination /\ \A j \in 2 .. n : f[n][j] = longer(f[n], j)
           T == {n \in 1 .. L : Good(n)}
<1>8. 1 \in T
  <2>1. 1 \in 1 .. L /\ \A j \in 2 .. 1 : FALSE
    BY <1>1
  <2>2. f[1][1] = Destination
    BY <1>5, <2>1
  <2> QED
    BY <2>1, <2>2
<1>9. ASSUME NEW n \in 2 .. L, n - 1 \in T PROVE n \in T
  <2>1. n \in 1 .. L /\ 1 \in 1 .. L /\ n - 1 \in 1 .. L /\ 1 # n
    BY <1>1
  <2>2. f[n - 1][1] = Destination /\ \A j \in 2 .. n - 1 : f[n - 1][j] = longer(f[n - 1], j)
    BY <1>9
  <2>3. f[n][1] = Destination
    BY <1>7, <2>1, <2>2
  <2>4. ASSUME NEW j \in 2 .. n PROVE f[n][j] = longer(f[n], j)
    <3>1. j \in 2 .. L /\ j \in 1 .. L
      BY <1>1
    <3>2. image[j].parent \in 1 .. L /\ image[j].parent # n
      <4>1. PICK q : q = image[j].parent
        OBVIOUS
      <4>2. q \in 1 .. j - 1 /\ q \in 1 .. L
        BY <1>1, <3>1, <4>1
      <4>3. q # n
        BY <4>2
      <4> QED
        BY <4>1, <4>2, <4>3
    <3>3. longer(f[n], j) = longer(f[n - 1], j)
      <4>1. f[n][image[j].parent] = f[n - 1][image[j].parent]
        BY <1>7, <3>2
      <4> QED
        BY <4>1 DEF longer
    <3>4. CASE j = n
      BY <1>7, <3>3, <3>4
    <3>5. CASE j # n
      <4>1. j \in 2 .. n - 1
        BY <3>5, <1>1
      <4>2. f[n][j] = f[n - 1][j]
        BY <1>7, <3>1, <3>5
      <4> QED
        BY <2>2, <3>3, <4>1, <4>2
    <3> QED
      BY <3>4, <3>5
  <2> QED
    BY <2>1, <2>3, <2>4
<1>10. Good(L)
  <2>1. L \in Nat /\ L \in 1 .. L
    BY <1>1
  <2> HIDE DEF L, T
  <2>2. \A n \in 1 .. L : n \in T
    BY <1>8, <1>9, <2>1, Upward
  <2> QED
    BY <2>1, <2>2 DEF T
<1> DEFINE p == f[L]
<1>11. p \in S /\ p[1] = Destination /\ \A j \in 2 .. L : p[j] = longer(p, j)
  <2>1. L \in 1 .. L
    BY <1>1
  <2> QED
    BY <1>4, <1>10, <2>1
<1> HIDE DEF p, Good, T
<1>12. Equation(p)
  <2>1. \A j \in 1 .. L : p[j] = IF j = 1 THEN Destination ELSE longer(p, j)
    <3>1. \A j \in 1 .. L : j = 1 \/ j \in 2 .. L
      BY <1>1
    <3> QED
      BY <1>11, <3>1
  <2>2. p = [j \in 1 .. L |-> p[j]]
    BY <1>11
  <2> HIDE DEF L, S
  <2> QED
    BY <2>1, <2>2
<1>13. Equation(above)
  BY <1>12, Zenon
<1>14. Paths = above
  BY DEF Paths, longer
<1> HIDE DEF above
<1>15. above[1] = Destination /\ \A j \in 2 .. L : above[j] = longer(above, j)
  <2>1. 1 \in 1 .. L /\ \A j \in 2 .. L : j \in 1 .. L /\ j # 1
    BY <1>1
  <2> HIDE DEF L
  <2> QED
    BY <1>13, <2>1
<1> HIDE DEF Equation
\* The values of both are the same.
<1> DEFINE Same(n) == \A j \in 1 .. n : above[j] = p[j]
           U == {n \in 1 .. L : Same(n)}
<1>16. 1 \in U
  <2>1. 1 \in 1 .. L /\ \A j \in 1 .. 1 : j = 1
    BY <1>1
  <2> QED
    BY <1>11, <1>15, <2>1
<1>17. ASSUME NEW n \in 2 .. L, n - 1 \in U PROVE n \in U
  <2>1. n \in 1 .. L /\ image[n].parent \in 1 .. n - 1 /\ \A j \in 1 .. n : j \in 1 .. n - 1 \/ j = n
    BY <1>1
  <2>2. \A j \in 1 .. n - 1 : above[j] = p[j]
    BY <1>17
  <2>3. longer(above, n) = longer(p, n)
    BY <2>1, <2>2 DEF longer
  <2>4. above[n] = p[n]
    BY <1>11, <1>15, <2>3
  <2> QED
    BY <2>1, <2>2, <2>4
<1>18. \A n \in 1 .. L : above[n] = p[n]
  <2>1. L \in Nat /\ L \in 1 .. L
    BY <1>1
  <2> HIDE DEF L, U
  <2>2. \A n \in 1 .. L : n \in U
    BY <1>16, <1>17, <2>1, Upward
  <2> QED
    BY <2>1, <2>2 DEF U
<1>19. \A j \in 1 .. L : above[j] \in Seq(Nat)
  BY <1>11, <1>18
<1> QED
  BY <1>14, <1>15, <1>19 DEF PathsFromParents, longer

\* The sector of an entry is read right when its low byte is neither 0 nor taken for a
\* negative number.
LEMMA SectorIsRead ==
  ASSUME NEW im, IsImage(im), Accepted(im), NEW sec \in Sectors, NEW ndx \in Nat, NEW target,
         WordOf(Encode(im), sec, ndx) = target, target % BYTE \in 1 .. BYTE \div 2 - 1
  PROVE  EntrySector(Encode(im), sec, ndx) = target /\ ByteAt(Encode(im), sec, ndx) # 0
<1> DEFINE M == Encode(im)
<1>1. PICK low, high : low = ByteAt(M, sec, ndx) /\ high = ByteAt(M, sec, ndx + 1)
  OBVIOUS
<1>2. low \in Bytes /\ high \in Bytes
  <2>1. ndx + 1 \in Nat
    OBVIOUS
  <2>2. ByteAt(M, sec, ndx) \in Bytes /\ ByteAt(M, sec, ndx + 1) \in Bytes
    BY <2>1, ByteOfImage
  <2> HIDE DEF M
  <2> QED
    BY <1>1, <2>2, Zenon
<1>3. BYTE \in Nat \ {0} /\ low \in 0 .. BYTE - 1 /\ high \in Nat
  BY <1>2, Constants DEF Bytes
<1>4. target = low + BYTE * high
  BY <1>1 DEF WordOf
<1>5. target % BYTE = low
  <2>1. (high * BYTE + low) % BYTE = low
    BY <1>3, Division
  <2>2. target = high * BYTE + low
    BY <1>3, <1>4
  <2> QED
    BY <2>1, <2>2
<1>6. PICK half : half = BYTE \div 2
  OBVIOUS
<1>7. half \in Nat
  BY <1>3, <1>6, Quotient
<1>8. low \in 1 .. half - 1
  BY <1>5, <1>6
<1>9. low < half /\ low # 0
  BY <1>7, <1>8
<1>10. ByteAt(M, sec, ndx) < BYTE \div 2 /\ ByteAt(M, sec, ndx) # 0
  BY <1>1, <1>6, <1>9
<1> HIDE DEF M
<1>11. EntrySector(M, sec, ndx) = WordOf(M, sec, ndx)
  BY <1>10, Zenon DEF EntrySector
<1> QED
  BY <1>10, <1>11, Zenon DEF M

\* What is written for a node with the path outpath, with g for what is in directories.
Wrote(g, im, e, outpath) ==
  IF im[e].dir
  THEN {Entry(outpath, TRUE, << >>)} \cup g[Listing(SectorOf(im)[e], FirstEntry, outpath)]
  ELSE {Entry(outpath, FALSE, im[e].content)}

ListedAs(g, im, sec, ndx, after, e, outpath) ==
  g[Listing(sec, ndx, outpath)] = Wrote(g, im, e, Below(outpath, im[e].name)) \cup g[Listing(sec, after, outpath)]

LEMMA EntryWritten ==
  ASSUME NEW im, IsImage(im), Accepted(im), NEW sec \in Sectors, NEW ndx \in Nat, NEW e \in 2 .. Len(im),
         EntryAt(Encode(im), sec, ndx, im[e].name, SectorOf(im)[e]),
         SectorOf(im)[e] % BYTE \in 1 .. BYTE \div 2 - 1, NEW outpath \in Seq(Nat)
  PROVE  ListedAs(decode_entries(Encode(im)), im, sec, ndx, ndx + Len(im[e].name) + 3, e, outpath)
<1> DEFINE M == Encode(im)
           name == im[e].name
           own == SectorOf(im)[e]
           s == Listing(sec, ndx, outpath)
           o == Below(outpath, name)
           g == decode_entries(M)
<1>1. /\ e \in 1 .. Len(im) /\ im[e] \in Nodes /\ name \in Seq(Bytes) /\ Len(name) \in Nat \ {0}
      /\ \A n \in 1 .. Len(name) : name[n] # 0
  <2>1. e \in 1 .. Len(im) /\ im[e] \in Nodes /\ name \in EntryNames /\ name \in Seq(Bytes) /\ Len(name) \in Nat \ {0}
    BY NodeFacts
  <2>2. \A n \in 1 .. Len(name) : name[n] \in CharBytes
    BY <2>1, Names
  <2>3. 0 \notin CharBytes
    BY DEF CharBytes
  <2>4. \A n \in 1 .. Len(name) : name[n] # 0
    <3> HIDE DEF name
    <3> QED
      BY <2>2, <2>3, Zenon
  <2> QED
    BY <2>1, <2>4, Zenon
<1>2. own \in Sectors
  BY <1>1, SectorsExist
<1>3. NameAt(M, sec, ndx) = name /\ ToZero(M, sec, ndx) = Len(name)
  <2> HIDE DEF M, name, own
  <2> QED
    BY <1>1, NameOfEntry DEF M, name, own
<1>4. EntrySector(M, sec, ndx + Len(name) + 1) = own /\ ByteAt(M, sec, ndx + Len(name) + 1) # 0
  <2>1. PICK n \in Nat : n = ndx + Len(name) + 1
    BY <1>1
  <2>2. WordOf(M, sec, n) = own
    BY <2>1 DEF EntryAt
  <2>3. EntrySector(M, sec, n) = own /\ ByteAt(M, sec, n) # 0
    BY <2>2, SectorIsRead
  <2> HIDE DEF M, name, own
  <2> QED
    BY <2>1, <2>3, Zenon
<1>5. s \in Listings
  BY ListingIs
<1>6. s.sec = sec /\ s.ndx = ndx /\ s.outpath = outpath
  BY ListingIs
<1>7. decode_entries(M)[s] = Written(decode_entries(M), M, s)
  <2> HIDE DEF s
  <2> QED
    BY <1>5, EntriesStep
<1>8. Behind(M, s) = Listing(sec, ndx + Len(name) + 3, outpath)
  <2>1. Behind(M, s) = Listing(sec, ndx + ToZero(M, sec, ndx) + 3, outpath)
    BY BehindIs
  <2> HIDE DEF M, name, s
  <2> QED
    BY <1>3, <2>1, Zenon
<1>9. ByteAt(M, own, 0) = D <=> im[e].dir
  BY <1>1, MarkOfNode
<1>10. ~im[e].dir => decode_file(M, own) = im[e].content
  BY <1>1, FileDecoded
<1> HIDE DEF M, name, own, s
<1>11. SectorOfListed(M, s) = own /\ PathOfListed(M, s) = o
  BY <1>3, <1>4, <1>6, Zenon DEF SectorOfListed, PathOfListed
<1>12. ~ListingEnds(M, s)
  <2>1. Len(name) # 0
    BY <1>1
  <2> QED
    BY <1>3, <1>4, <1>6, <2>1, Zenon DEF ListingEnds
<1>13. Inside(M, s) = Listing(own, FirstEntry, o)
  BY <1>11, Zenon DEF Inside
<1> HIDE DEF o, g
<1>14. Written(g, M, s) =
        (IF im[e].dir THEN {Entry(o, TRUE, << >>)} \cup g[Listing(own, FirstEntry, o)] ELSE {Entry(o, FALSE, im[e].content)})
        \cup g[Behind(M, s)]
  <2>1. CASE im[e].dir
    BY <1>2, <1>9, <1>11, <1>12, <1>13, <2>1, Zenon DEF Written
  <2>2. CASE ~im[e].dir
    BY <1>2, <1>9, <1>10, <1>11, <1>12, <2>2, Zenon DEF Written
  <2> QED
    BY <2>1, <2>2
<1>15. Wrote(g, im, e, o) =
        IF im[e].dir THEN {Entry(o, TRUE, << >>)} \cup g[Listing(own, FirstEntry, o)] ELSE {Entry(o, FALSE, im[e].content)}
  BY Zenon DEF Wrote, own
<1>16. g[s] = Wrote(g, im, e, o) \cup g[Listing(sec, ndx + Len(name) + 3, outpath)]
  BY <1>7, <1>8, <1>14, <1>15, Zenon DEF g
<1> QED
  BY <1>16, Zenon DEF ListedAs, g, s, o, M, name

\* No listing goes on at a 0.
LEMMA NothingWritten ==
  ASSUME NEW im, IsImage(im), Accepted(im), NEW sec \in Sectors, NEW ndx \in Nat, NEW outpath \in Seq(Nat),
         ByteAt(Encode(im), sec, ndx) = 0
  PROVE  decode_entries(Encode(im))[Listing(sec, ndx, outpath)] = {}
<1> DEFINE M == Encode(im)
           s == Listing(sec, ndx, outpath)
<1>1. s \in Listings /\ s.sec = sec /\ s.ndx = ndx
  BY ListingIs
<1>2. ToZero(M, sec, ndx) = 0
  BY NameAtEnd
<1>3. decode_entries(M)[s] = Written(decode_entries(M), M, s)
  <2> HIDE DEF s
  <2> QED
    BY <1>1, EntriesStep
<1> HIDE DEF M, s
<1>4. ListingEnds(M, s)
  BY <1>1, <1>2, Zenon DEF ListingEnds
<1> QED
  BY <1>3, <1>4, Zenon DEF Written, M, s

\* The entries of directory i from node e on, and what is written for them.
EntriesFrom(i, e) == {j \in 2 .. Len(image) : j >= e /\ image[j].parent = i}
WrittenFrom(i, e) == UNION {Wrote(decode_entries(Encode(image)), image, j, Paths[j]) : j \in EntriesFrom(i, e)}
ListingOf(i) == decode_entries(Encode(image))[Listing(SectorOf(image)[i], FirstEntry, Paths[i])]

LEMMA DirectoryListed ==
  ASSUME IsImage(image), Accepted(image), SmallSectors, ShortPaths, NEW i \in 1 .. Len(image), image[i].dir
  PROVE  ListingOf(i) = WrittenFrom(i, 2)
<1> DEFINE M == Encode(image)
           L == Len(image)
           sec == SectorOf(image)[i]
           g == decode_entries(M)
           outpath == Paths[i]
<1>1. L \in Nat \ {0} /\ sec \in Sectors /\ outpath \in Seq(Nat)
  BY SectorsExist, PathsAre DEF IsImage, PathsFromParents
<1>2. PICK at : Listed(M, image, i, at)
  BY Layout
<1>3. at \in [0 .. L + 1 -> Nat] /\ at[2] = FirstEntry /\ ByteAt(M, sec, at[L + 1]) = 0
  BY <1>2 DEF Listed
<1> DEFINE T == {e \in 0 .. L + 1 : e >= 2 => g[Listing(sec, at[e], outpath)] = WrittenFrom(i, e)}
<1>4. L + 1 \in T
  <2>1. L + 1 \in 0 .. L + 1 /\ at[L + 1] \in Nat
    <3> HIDE DEF L, M, sec, outpath
    <3>1. L + 1 \in 0 .. L + 1
      BY <1>1
    <3> QED
      BY <1>3, <3>1, Zenon
  <2>2. g[Listing(sec, at[L + 1], outpath)] = {}
    <3>1. PICK ndx \in Nat : ndx = at[L + 1]
      BY <2>1
    <3>2. ByteAt(M, sec, ndx) = 0
      BY <1>3, <3>1
    <3>3. g[Listing(sec, ndx, outpath)] = {}
      <4> HIDE DEF sec, outpath
      <4> QED
        BY <1>1, <3>2, NothingWritten
    <3> QED
      BY <3>1, <3>3
  <2>3. EntriesFrom(i, L + 1) = {}
    BY <1>1 DEF EntriesFrom
  <2>4. WrittenFrom(i, L + 1) = {}
    BY <2>3, Zenon DEF WrittenFrom
  <2> HIDE DEF g, sec, outpath
  <2> QED
    BY <2>1, <2>2, <2>4
<1>5. ASSUME NEW e \in 0 .. L, e + 1 \in T, e >= 2
      PROVE  g[Listing(sec, at[e], outpath)] = WrittenFrom(i, e)
  <2>1. e \in 2 .. L /\ e \in 0 .. L /\ e # 0 /\ e # 1 /\ at[e] \in Nat
    <3> HIDE DEF L, M, sec, outpath, T
    <3>1. e \in 2 .. L /\ e \in 0 .. L /\ e # 0 /\ e # 1 /\ e \in 0 .. L + 1
      BY <1>1, <1>5
    <3> QED
      BY <1>3, <3>1, Zenon
  <2>2. g[Listing(sec, at[e + 1], outpath)] = WrittenFrom(i, e + 1)
    <3>1. e + 1 >= 2
      BY <1>5
    <3> HIDE DEF g, sec, outpath
    <3> QED
      BY <1>5, <3>1
  <2>3. CASE image[e].parent = i
    <3>1. IsEntry(image, i, e) /\ EntryName(image, e) = image[e].name /\ EntryNode(image, i, e) = e
      BY <2>1, <2>3 DEF IsEntry, EntryName, EntryNode
    <3>2. SectorOfEntry(image, i, e) = SectorOf(image)[e]
      <4>1. e # OutOfTree
        BY <2>1 DEF OutOfTree
      <4> QED
        BY <3>1, <4>1, Zenon DEF SectorOfEntry
    <3>3. EntryAt(M, sec, at[e], image[e].name, SectorOf(image)[e]) /\ at[e + 1] = at[e] + Len(image[e].name) + 3
      <4>1. EntryAt(M, sec, at[e], EntryName(image, e), SectorOfEntry(image, i, e))
            /\ at[e + 1] = at[e] + Len(EntryName(image, e)) + 3
        <5> HIDE DEF M
        <5> QED
          BY <1>2, <2>1, <3>1, Zenon DEF Listed
      <4> HIDE DEF M, sec
      <4> QED
        BY <3>1, <3>2, <4>1, Zenon
    <3>4. SectorOf(image)[e] % BYTE \in 1 .. BYTE \div 2 - 1
      BY <2>1 DEF SmallSectors
    <3>5. PICK ndx \in Nat : ndx = at[e]
      BY <2>1
    <3>6. ListedAs(g, image, sec, ndx, ndx + Len(image[e].name) + 3, e, outpath)
      <4>1. EntryAt(M, sec, ndx, image[e].name, SectorOf(image)[e])
        BY <3>3, <3>5
      <4> HIDE DEF sec, outpath
      <4> QED
        BY <1>1, <2>1, <3>4, <4>1, EntryWritten
    <3>7. Below(outpath, image[e].name) = Paths[e]
      <4>1. Paths[e] = outpath \o << Slash >> \o image[e].name
        BY <2>1, <2>3, PathsAre DEF PathsFromParents
      <4>2. Len(Paths[e]) < BYTE
        BY <2>1 DEF ShortPaths
      <4>3. image[e].name \in Seq(Nat)
        <5>1. image[e].name \in Seq(Bytes)
          BY <2>1, NodeFacts
        <5> QED
          BY <5>1, Constants, LargerSeq
      <4> HIDE DEF outpath
      <4> QED
        BY <1>1, <4>1, <4>2, <4>3, BelowIs
    <3> HIDE DEF sec, outpath, M, g
    <3>8. g[Listing(sec, at[e], outpath)] = Wrote(g, image, e, Paths[e]) \cup g[Listing(sec, at[e + 1], outpath)]
      BY <3>3, <3>5, <3>6, <3>7, Zenon DEF ListedAs
    <3>9. EntriesFrom(i, e) = {e} \cup EntriesFrom(i, e + 1)
      BY <2>1, <2>3 DEF EntriesFrom
    <3>10. WrittenFrom(i, e) = Wrote(g, image, e, Paths[e]) \cup WrittenFrom(i, e + 1)
      BY <3>9, Zenon DEF WrittenFrom, g, M
    <3> QED
      BY <2>2, <3>8, <3>10, Zenon
  <2>4. CASE image[e].parent # i
    <3>1. ~IsEntry(image, i, e)
      BY <2>1, <2>4 DEF IsEntry
    <3>2. at[e + 1] = at[e]
      <4> HIDE DEF M
      <4> QED
        BY <1>2, <2>1, <3>1, Zenon DEF Listed
    <3>3. EntriesFrom(i, e) = EntriesFrom(i, e + 1)
      BY <2>1, <2>4 DEF EntriesFrom
    <3>4. WrittenFrom(i, e) = WrittenFrom(i, e + 1)
      BY <3>3, Zenon DEF WrittenFrom
    <3> HIDE DEF g, sec, outpath
    <3> QED
      BY <2>2, <3>2, <3>4, Zenon
  <2> QED
    BY <2>3, <2>4
<1>6. 2 \in T
  <2> HIDE DEF L, g, sec, outpath
  <2>1. \A e \in 0 .. (L + 1) - 1 : e + 1 \in T => e \in T
    <3>1. \A e \in 0 .. (L + 1) - 1 : e \in 0 .. L /\ e \in 0 .. L + 1
      BY <1>1
    <3> QED
      BY <1>5, <3>1
  <2>2. L + 1 \in Nat /\ 2 \in 0 .. L + 1
    BY <1>1
  <2> HIDE DEF T
  <2>3. PICK last \in Nat : last = L + 1
    BY <2>2
  <2>4. \A e \in 0 .. last : e \in T
    BY <1>4, <2>1, <2>3, Downward
  <2> QED
    BY <2>2, <2>3, <2>4
<1>7. g[Listing(sec, at[2], outpath)] = WrittenFrom(i, 2)
  <2> HIDE DEF g, sec, outpath
  <2> QED
    BY <1>6
<1> QED
  BY <1>3, <1>7, Zenon DEF ListingOf

\* Only what is described, and all of it.
LEMMA WholeRoot ==
  ASSUME IsImage(image), Accepted(image), SmallSectors, ShortPaths
  PROVE  decode_dir(Encode(image), Root) = Described
<1> DEFINE L == Len(image)
           g == decode_entries(Encode(image))
           W(j) == Wrote(g, image, j, Paths[j])
           E(j) == Entry(Paths[j], image[j].dir, image[j].content)
<1>1. /\ L \in Nat \ {0} /\ image[1].dir /\ Paths[1] = Destination /\ SectorOf(image)[1] = Root
      /\ \A j \in 2 .. L : image[j].parent \in 1 .. j - 1 /\ image[j].parent \in 1 .. L /\ image[image[j].parent].dir
  <2>1. L \in Nat \ {0} /\ image[1] = Directory(1, << >>) /\ image \in Seq(Nodes)
    BY DEF IsImage
  <2>2. image[1].dir
    BY <2>1 DEF Directory
  <2>3. SectorOf(image)[1] = Root
    BY <2>1, SectorOfIs DEF FirstSectors, Root
  <2>4. \A j \in 2 .. L : image[j].parent \in 1 .. j - 1 /\ image[image[j].parent].dir
    BY DEF IsImage
  <2>5. \A j \in 2 .. L : image[j].parent \in 1 .. L
    BY <2>1, <2>4
  <2>6. Paths[1] = Destination
    BY PathsAre DEF PathsFromParents
  <2> QED
    BY <2>1, <2>2, <2>3, <2>4, <2>5, <2>6
<1>2. \A i \in 1 .. L : image[i].dir => ListingOf(i) = WrittenFrom(i, 2)
  BY DirectoryListed
<1>3. ASSUME NEW j \in 2 .. L
      PROVE  /\ E(j) \in Described /\ E(j) \in W(j)
             /\ image[j].dir => W(j) = {E(j)} \cup ListingOf(j)
             /\ ~image[j].dir => W(j) = {E(j)}
  <2>1. E(j) \in Described
    BY DEF Described
  <2>2. image[j].dir = TRUE => image[j].content = << >>
    BY DEF IsImage
  <2>3. image[j].dir \in BOOLEAN
    <3>1. image \in Seq(Nodes) /\ j \in 1 .. Len(image)
      BY <1>1 DEF IsImage
    <3>2. image[j] \in Nodes
      BY <3>1, ElementOfSeq
    <3> QED
      BY <3>2 DEF Nodes
  <2> HIDE DEF g
  <2>4. CASE image[j].dir = TRUE
    <3>1. E(j) = Entry(Paths[j], TRUE, << >>)
      BY <2>2, <2>4, Zenon
    <3>2. W(j) = {E(j)} \cup ListingOf(j)
      BY <2>4, <3>1, Zenon DEF Wrote, ListingOf, g
    <3> HIDE DEF W, E
    <3> QED
      BY <2>1, <2>4, <3>2
  <2>5. CASE image[j].dir = FALSE
    <3>1. E(j) = Entry(Paths[j], FALSE, image[j].content)
      BY <2>5, Zenon
    <3>2. W(j) = {E(j)}
      BY <2>5, <3>1, Zenon DEF Wrote
    <3> HIDE DEF W, E
    <3> QED
      BY <2>1, <2>5, <3>2
  <2> QED
    BY <2>3, <2>4, <2>5
<1>4. \A i \in 1 .. L, j \in 2 .. L : image[i].dir /\ image[j].parent = i => W(j) \subseteq ListingOf(i)
  <2> SUFFICES ASSUME NEW i \in 1 .. L, NEW j \in 2 .. L, image[i].dir, image[j].parent = i
               PROVE  W(j) \subseteq ListingOf(i)
    OBVIOUS
  <2>1. j \in EntriesFrom(i, 2)
    BY <1>1 DEF EntriesFrom
  <2>2. W(j) \subseteq WrittenFrom(i, 2)
    BY <2>1, Zenon DEF WrittenFrom
  <2> QED
    BY <1>2, <2>2, Zenon
\* Downward, as what is in a directory comes behind it.
<1> DEFINE Good(k) == image[k].dir => ListingOf(k) \subseteq Described
           T == {n \in 0 .. L : \A k \in 1 .. L : k > n => Good(k)}
<1>5. L \in T
  BY <1>1
<1>6. ASSUME NEW n \in 0 .. L - 1, n + 1 \in T PROVE n \in T
  <2>1. n \in 0 .. L /\ n + 1 \in 1 .. L /\ \A k \in 1 .. L : k > n => k > n + 1 \/ k = n + 1
    BY <1>1
  <2>2. \A k \in 1 .. L : k > n + 1 => Good(k)
    BY <1>6
  <2>3. Good(n + 1)
    <3>1. PICK i \in 1 .. L : i = n + 1
      BY <2>1
    <3>2. SUFFICES ASSUME image[i].dir, NEW j \in EntriesFrom(i, 2) PROVE W(j) \subseteq Described
      <4>1. image[i].dir => ListingOf(i) \subseteq Described
        <5> SUFFICES ASSUME image[i].dir PROVE ListingOf(i) \subseteq Described
          OBVIOUS
        <5>1. ListingOf(i) = UNION {W(j) : j \in EntriesFrom(i, 2)}
          BY <1>2, Zenon DEF WrittenFrom
        <5>2. \A j \in EntriesFrom(i, 2) : W(j) \subseteq Described
          BY <3>2
        <5> HIDE DEF W
        <5> QED
          BY <5>1, <5>2, Zenon
      <4> QED
        BY <3>1, <4>1
    <3>3. j \in 2 .. L /\ image[j].parent = i
      BY DEF EntriesFrom
    <3>4. j \in 1 .. L /\ j > n + 1
      <4>1. i \in 1 .. j - 1
        BY <1>1, <3>3
      <4> QED
        BY <1>1, <3>1, <3>3, <4>1
    <3>5. image[j].dir => ListingOf(j) \subseteq Described
      BY <2>2, <3>4
    <3>6. /\ E(j) \in Described
          /\ image[j].dir => W(j) = {E(j)} \cup ListingOf(j)
          /\ ~image[j].dir => W(j) = {E(j)}
      BY <1>3, <3>3, Zenon
    <3> HIDE DEF W, E
    <3> QED
      BY <3>5, <3>6, Zenon
  <2>4. \A k \in 1 .. L : k > n => Good(k)
    <3> HIDE DEF Good
    <3> QED
      BY <2>1, <2>2, <2>3
  <2> HIDE DEF Good
  <2> QED
    BY <2>1, <2>4
<1>7. ListingOf(1) \subseteq Described
  <2> HIDE DEF T, L
  <2>1. \A n \in 0 .. L : n \in T
    BY <1>1, <1>5, <1>6, Downward
  <2>2. 0 \in 0 .. L /\ 1 \in 1 .. L /\ 1 > 0
    BY <1>1
  <2>3. Good(1)
    <3> HIDE DEF Good
    <3> QED
      BY <2>1, <2>2 DEF T
  <2> QED
    BY <1>1, <2>3
\* Upward, as every directory but the root is in another.
<1> DEFINE Reached(k) == image[k].dir => ListingOf(k) \subseteq ListingOf(1)
           V == {n \in 1 .. L : \A k \in 1 .. n : Reached(k)}
<1>8. 1 \in V
  <2>1. 1 \in 1 .. L /\ \A k \in 1 .. 1 : k = 1
    BY <1>1
  <2> QED
    BY <2>1
<1>9. ASSUME NEW n \in 2 .. L, n - 1 \in V PROVE n \in V
  <2>1. n \in 1 .. L /\ \A k \in 1 .. n : k \in 1 .. n - 1 \/ k = n
    BY <1>1
  <2>2. \A k \in 1 .. n - 1 : Reached(k)
    BY <1>9
  <2>3. Reached(n)
    <3>1. PICK i \in 1 .. L : i = image[n].parent
      BY <1>1
    <3>2. i \in 1 .. n - 1 /\ image[i].dir
      BY <1>1, <3>1
    <3>3. ListingOf(i) \subseteq ListingOf(1)
      BY <2>2, <3>2
    <3>4. W(n) \subseteq ListingOf(i)
      BY <1>4, <3>1, <3>2
    <3>5. image[n].dir => W(n) = {E(n)} \cup ListingOf(n)
      BY <1>3, Zenon
    <3> HIDE DEF W, E
    <3> QED
      BY <3>3, <3>4, <3>5, Zenon
  <2> HIDE DEF Reached
  <2> QED
    BY <2>1, <2>2, <2>3
<1>10. \A n \in 1 .. L : Reached(n)
  <2> HIDE DEF V, L, Reached
  <2>1. \A n \in 1 .. L : n \in V
    BY <1>1, <1>8, <1>9, Upward
  <2>2. \A n \in 1 .. L : n \in 1 .. n
    OBVIOUS
  <2> QED
    BY <2>1, <2>2 DEF V
<1>11. Described \subseteq ListingOf(1)
  <2>1. ASSUME NEW j \in 2 .. L PROVE E(j) \in ListingOf(1)
    <3>1. PICK i \in 1 .. L : i = image[j].parent /\ image[i].dir
      BY <1>1
    <3>2. ListingOf(i) \subseteq ListingOf(1)
      BY <1>10, <3>1
    <3>3. W(j) \subseteq ListingOf(i)
      BY <1>4, <3>1
    <3>4. E(j) \in W(j)
      BY <1>3, Zenon
    <3> HIDE DEF W, E
    <3> QED
      BY <3>2, <3>3, <3>4, Zenon
  <2>2. Described = {E(j) : j \in 2 .. L}
    BY Zenon DEF Described
  <2> HIDE DEF E, L
  <2> QED
    BY <2>1, <2>2, Zenon
<1>12. ListingOf(1) = decode_dir(Encode(image), Root)
  BY <1>1, Zenon DEF ListingOf, decode_dir, Listing
<1> QED
  BY <1>7, <1>11, <1>12, Zenon

-----------------------------------------------------------------------------
(* The invariant *)

Inv ==
  /\ IsImage(image) /\ Accepted(image)
  /\ MEM = Encode(image)
  /\ CwdIsDirectory
  /\ path \in Seq(CharBytes)

\* There is room for the root.
LEMMA RootAccepted ==
  ASSUME NEW im, IsImage(im), Len(im) = 1
  PROVE  Accepted(im)
<1> DEFINE one == 1
           dots == Dots(NoSector, SectorOf(im)[one])
           Equation(g) ==
             g = [j \in 1 .. Len(im) |->
                   IF j = 1
                   THEN << D >> \o AsBytes(NoSector)
                          \o EntryBytes(<< Dot, Dot >>, IF one = 1 THEN NoSector ELSE SectorOf(im)[im[one].parent])
                          \o EntryBytes(<< Dot >>, SectorOf(im)[one])
                   ELSE IF im[j].parent = one THEN g[j - 1] \o EntryBytes(im[j].name, SectorOf(im)[j])
                   ELSE g[j - 1]]
           pushed == CHOOSE g : Equation(g)
           f == [j \in 1 .. Len(im) |-> dots]
<1>1. im \in Seq(Nodes) /\ Len(im) \in Nat \ {0} /\ im[1].dir /\ im[1] \in Nodes
  <2>1. im \in Seq(Nodes) /\ Len(im) \in Nat \ {0} /\ im[1] = Directory(1, << >>)
    BY DEF IsImage
  <2>2. im[1] \in Nodes
    BY <2>1, ElementOfSeq
  <2> QED
    BY <2>1, <2>2 DEF Directory
<1>2. SectorOf(im)[1] = 1 /\ SectorsOf(im[1]) = 1
  BY <1>1, SectorOfIs, SizesOfNodes DEF FirstSectors
<1>3. \A j \in 1 .. Len(im) : j = 1
  OBVIOUS
<1>4. Equation(f)
  BY <1>3 DEF Dots
<1>5. Equation(pushed)
  <2> HIDE DEF Equation, f
  <2> QED
    BY <1>4, Zenon
<1>6. Pushed(im, 1) = pushed
  BY DEF Pushed
<1> HIDE DEF pushed
<1>7. encode_dir(im, 1) = dots
  <2>1. pushed[1] = dots
    BY <1>3, <1>5 DEF Dots
  <2> QED
    BY <2>1, <1>6 DEF encode_dir
<1>8. Len(dots) = 12
  <2>1. SectorOf(im)[one] \in 0 .. BYTE * BYTE - 1
    <3>1. 1 \in Sectors
      BY SectorsAssumption DEF Sectors
    <3> QED
      BY <3>1, <1>2, NoSectorIsWord
  <2> QED
    BY <2>1, NoSectorIsWord, DotEntries DEF FirstEntry
<1> HIDE DEF dots
<1>9. Len(encode_dir(im, 1)) + 1 < BYTE
  <2>1. Len(encode_dir(im, 1)) = 12
    BY <1>7, <1>8, Zenon
  <2>2. PICK n : n = Len(encode_dir(im, 1))
    OBVIOUS
  <2>3. n = 12
    BY <2>1, <2>2, Zenon
  <2>4. BYTE \in Nat /\ BYTE > 16
    BY Constants
  <2>5. n + 1 < BYTE
    BY <2>3, <2>4
  <2> QED
    BY <2>2, <2>5, Zenon
<1>10. SectorOf(im)[Len(im)] + SectorsOf(im[Len(im)]) <= SECTOR_COUNT
  BY <1>2, SectorsAssumption
<1> QED
  BY <1>3, <1>9, <1>10 DEF Accepted

LEMMA InvInit == Init => Inv
<1> SUFFICES ASSUME Init PROVE Inv
  OBVIOUS
<1> DEFINE root == Directory(1, << >>)
<1>1. root \in Nodes
  BY DEF Nodes, Directory
<1>2. image = << root >> /\ Len(image) = 1 /\ image[1] = root
  BY DEF Init
<1>3. image \in Seq(Nodes)
  <2> HIDE DEF root
  <2> QED
    BY <1>1, <1>2, One
<1>4. IsImage(image)
  BY <1>2, <1>3 DEF IsImage
<1>5. SectorOf(image)[1] = 1
  <2>1. Len(image) \in Nat \ {0}
    BY <1>2
  <2>2. FirstSectors(SectorOf(image), image)
    BY <1>3, <2>1, SectorOfIs
  <2> QED
    BY <2>2 DEF FirstSectors
<1>6. 1 \in 1 .. Len(image) /\ image[1].dir /\ SectorOfNode(1) = cwd
  BY <1>2, <1>5 DEF Init, Directory, SectorOfNode, OutOfTree, Root
<1>7. Accepted(image)
  BY <1>2, <1>4, RootAccepted
<1>8. path \in Seq(CharBytes)
  BY DEF Init
<1> QED
  BY <1>4, <1>6, <1>7, <1>8 DEF Inv, Init, CwdIsDirectory

\* An image stays one with a further entry.
LEMMA LongerImage ==
  ASSUME NEW im, IsImage(im), NEW node \in Nodes,
         node.parent \in 1 .. Len(im), im[node.parent].dir, node.name \in EntryNames,
         node.dir => node.content = << >>
  PROVE  IsImage(Append(im, node))
<1> DEFINE longer == Append(im, node)
           L == Len(im)
<1>1. im \in Seq(Nodes) /\ L \in Nat \ {0}
  BY DEF IsImage
<1>2. /\ longer \in Seq(Nodes) /\ Len(longer) = L + 1
      /\ \A i \in 1 .. L : longer[i] = im[i]
      /\ longer[L + 1] = node
  BY <1>1, AppendProperties
<1> HIDE DEF longer
<1>3. \A i \in 2 .. L + 1 : i \in 2 .. L \/ i = L + 1
  BY <1>1
<1>4. longer[1] = Directory(1, << >>)
  BY <1>1, <1>2 DEF IsImage
<1>5. ASSUME NEW i \in 2 .. L + 1
      PROVE  /\ longer[i].parent \in 1 .. i - 1 /\ longer[longer[i].parent].dir
             /\ longer[i].name \in EntryNames
             /\ longer[i].dir => longer[i].content = << >>
  <2>1. CASE i \in 2 .. L
    <3>1. longer[i] = im[i] /\ im[i].parent \in 1 .. i - 1 /\ im[im[i].parent].dir
      BY <2>1, <1>2 DEF IsImage
    <3>2. im[i].parent \in 1 .. L
      BY <3>1, <2>1, <1>1
    <3> QED
      BY <2>1, <3>1, <3>2, <1>2 DEF IsImage
  <2>2. CASE i = L + 1
    BY <2>2, <1>1, <1>2
  <2> QED
    BY <2>1, <2>2, <1>3
<1>6. IsImage(longer)
  BY <1>1, <1>2, <1>4, <1>5 DEF IsImage
<1> QED
  BY <1>6 DEF longer

LEMMA InvNext == Inv /\ [Next]_vars => Inv'
<1> SUFFICES ASSUME Inv, [Next]_vars PROVE Inv'
  OBVIOUS
<1>1. ASSUME NEW parent \in OpenDirectories, NEW name \in EntryNames, NewEntry(parent, name)
      PROVE  Inv'
  <2>1. PICK node \in Nodes :
          /\ Add(node) /\ node.parent = parent /\ node.name = name
          /\ node.dir => node.content = << >>
    <3>1. name \in Seq(Bytes) /\ parent \in Nat /\ << >> \in Seq(Bytes)
      BY Names DEF OpenDirectories, Inv, IsImage
    <3>2. CASE Add(Directory(parent, name))
      <4>1. Directory(parent, name) \in Nodes
        BY <3>1 DEF Directory, Nodes
      <4> QED
        BY <4>1, <3>2 DEF Directory
    <3>3. ASSUME NEW content \in Contents, Add(File(parent, name, content))
          PROVE  \E node \in Nodes :
                   /\ Add(node) /\ node.parent = parent /\ node.name = name
                   /\ node.dir => node.content = << >>
      <4>1. content \in Seq(Bytes)
        BY ContentsAssumption
      <4>2. File(parent, name, content) \in Nodes
        BY <3>1, <4>1 DEF File, Nodes
      <4> QED
        BY <4>2, <3>3 DEF File
    <3> QED
      BY <1>1, <3>2, <3>3 DEF NewEntry
  <2>2. parent \in 1 .. Len(image) /\ image[parent].dir
    BY DEF OpenDirectories
  <2>3. IsImage(Append(image, node))
    BY <2>1, <2>2, LongerImage DEF Inv
  <2>4. image' = Append(image, node) /\ MEM' = Encode(image') /\ cwd' = cwd /\ path' = path /\ Accepted(image')
    BY <2>1 DEF Add
  <2>5. PICK i \in 1 .. Len(image) : image[i].dir /\ SectorOfNode(i) = cwd
    BY DEF Inv, CwdIsDirectory
  <2>6. SectorOf(image')[i] = SectorOf(image)[i]
    BY <2>4, SectorsStay DEF Inv, IsImage
  <2>7. i \in 1 .. Len(image') /\ image'[i] = image[i]
    BY <2>4, AppendProperties DEF Inv, IsImage
  <2>8. CwdIsDirectory'
    BY <2>4, <2>5, <2>6, <2>7 DEF CwdIsDirectory, SectorOfNode, OutOfTree
  <2> QED
    BY <2>3, <2>4, <2>8 DEF Inv
<1>2. ASSUME image' = image, MEM' = MEM, cwd' = cwd, path' \in Seq(CharBytes) PROVE Inv'
  BY <1>2 DEF Inv, CwdIsDirectory, SectorOfNode
<1>3. CASE Boot
  BY <1>2, <1>3 DEF Boot, Inv
<1>4. ASSUME NEW char \in PathChars, Type(char) PROVE Inv'
  <2>1. char \in CharBytes /\ path \in Seq(CharBytes)
    BY PathCharsAssumption DEF Inv
  <2>2. Append(path, char) \in Seq(CharBytes)
    BY <2>1, AppendProperties
  <2> QED
    BY <1>2, <1>4, <2>2 DEF Type
<1>5. CASE cd
  <2>1. image' = image /\ MEM' = MEM /\ path' \in Seq(CharBytes)
    BY <1>5 DEF cd
  <2>2. \/ cwd' = Root
        \/ cwd' = cwd
        \/ cwd' \in Sectors /\ cwd' # 0 /\ IsDirectory(cwd')
    <3> DEFINE result == solve_path(MEM, cwd, path)
    <3>1. cwd' = IF path = << >> THEN Root
                 ELSE IF ~(result.A \notin Sectors \/ result.SEC \notin Sectors) /\ result.A # 0 /\ IsDirectory(result.A)
                 THEN result.A ELSE cwd
      BY <1>5 DEF cd
    <3> HIDE DEF result
    <3> QED
      BY <3>1
  <2>3. \E i \in 1 .. Len(image) : image[i].dir /\ SectorOfNode(i) = cwd'
    <3>1. CASE cwd' = Root
      <4>1. 1 \in 1 .. Len(image) /\ image[1].dir /\ SectorOf(image)[1] = 1
        BY SectorOfIs DEF Inv, IsImage, Directory, FirstSectors
      <4> QED
        BY <3>1, <4>1 DEF SectorOfNode, OutOfTree, Root
    <3>2. CASE cwd' = cwd
      BY <3>2 DEF Inv, CwdIsDirectory
    <3>3. CASE cwd' \in Sectors /\ cwd' # 0 /\ IsDirectory(cwd')
      <4>1. PICK i \in 1 .. Len(image) : image[i].dir /\ SectorOf(image)[i] = cwd'
        BY <3>3, DirectoryFound DEF Inv, IsDirectory
      <4> QED
        BY <4>1 DEF SectorOfNode, OutOfTree
    <3> QED
      BY <2>2, <3>1, <3>2, <3>3
  <2> QED
    BY <2>1, <2>3 DEF Inv, CwdIsDirectory, SectorOfNode
<1> QED
  <2>1. CASE UNCHANGED vars
    BY <1>2, <2>1 DEF vars, Inv
  <2> QED
    BY <1>1, <1>3, <1>4, <1>5, <2>1 DEF Next

\* What every image, the storage made of it, the current directory and the path that is
\* typed have in common, in every reachable state.
THEOREM Inductive == Spec => []Inv
  BY InvInit, InvNext, PTL DEF Spec

\* Whatever paths are given to cd, the current directory is a directory of the image.
THEOREM StaysInDirectories == Spec => []CwdIsDirectory
<1>1. Inv => CwdIsDirectory
  BY DEF Inv
<1> QED
  BY <1>1, Inductive, PTL

\* Whatever is in the image, whichever directory cd starts from and whatever path it is
\* given, solve_path (src/asm/solve_path.asm) finds what the walk over the names finds, the
\* first of the entries that have one name.
THEOREM SolvesEveryPath == Spec => []SolvesPaths
<1>1. Inv => SolvesPaths
  BY Solved DEF Inv, SolvesPaths
<1> QED
  BY <1>1, Inductive, PTL

\* Whatever directories and files an image is made of: decodemem (src/src/decodemem.c) writes
\* them all and nothing else, where the low bytes of their sectors are those it reads right,
\* no path is longer than it can print and no name is given twice in a directory; the
\* bootloader (src/asm/bootloader.asm) reads every file; ls (src/asm/ls.asm) shows every
\* directory.
THEOREM ReadersAlwaysAgree == Spec => []ReadersAgree
<1>1. Inv => ReadersAgree
  <2> SUFFICES ASSUME Inv PROVE ReadersAgree
    OBVIOUS
  <2>1. IsImage(image) /\ Accepted(image) /\ MEM = Encode(image)
    BY DEF Inv
  <2>2. DecodesAll
    <3>1. SmallSectors /\ ShortPaths => decode_dir(MEM, Root) = Described
      BY <2>1, WholeRoot
    <3> QED
      BY <3>1, Zenon DEF DecodesAll, WholeRootDecoded
  <2>3. BootloaderReads
    BY <2>1, FileIsRead DEF BootloaderReads
  <2>4. ListsDirectory
    BY <2>1, DirectoryShown DEF ListsDirectory
  <2> QED
    BY <2>2, <2>3, <2>4 DEF ReadersAgree
<1> QED
  BY <1>1, Inductive, PTL

=============================================================================
