---------------------------- MODULE Alloc_proofs ----------------------------
(***************************************************************************)
(* Blocks of the allocator belong to one owner and its maps are exact, for *)
(* pages of any number of blocks and requests of any size that fit; arrays *)
(* on top of it keep to their blocks.                                      *)
(***************************************************************************)
EXTENDS DynamicArray, WellFoundedInduction, TLAPS

-----------------------------------------------------------------------------
(* Searching and clearing maps *)

LEMMA LeastElement ==
  ASSUME NEW T \in SUBSET Nat, T # {}
  PROVE  \E x \in T : \A y \in T : x <= y
<1>1. PICK x \in T : \A y \in T : <<y, x>> \notin OpToRel(<, Nat)
  BY WFMin, NatLessThanWellFounded
<1>2. ASSUME NEW y \in T PROVE x <= y
  <2>1. <<y, x>> \notin {pair \in Nat \X Nat : pair[1] < pair[2]}
    BY <1>1, Zenon DEF OpToRel
  <2> QED
    BY <2>1
<1> QED
  BY <1>2

\* The mask of count blocks, n positions down, is the blocks from n on.
LEMMA ShiftedMask ==
  ASSUME NEW count \in 1 .. Width, NEW n \in 0 .. Width - count
  PROVE  Shifted(BlocksMask(count), n) = n .. n + count - 1
<1> USE WidthAssumption DEF Items
<1>1. BlocksMask(count) = 0 .. count - 1
  BY DEF BlocksMask
<1>2. ASSUME NEW k \in n .. n + count - 1 PROVE k \in Shifted(BlocksMask(count), n)
  <2>1. k - n \in 0 .. count - 1 /\ k = (k - n) + n /\ k \in Items
    OBVIOUS
  <2> QED
    BY <1>1, <2>1 DEF Shifted
<1>3. ASSUME NEW k \in Shifted(BlocksMask(count), n) PROVE k \in n .. n + count - 1
  <2>1. PICK j \in 0 .. count - 1 : k = j + n
    BY <1>1 DEF Shifted
  <2> QED
    BY <2>1
<1> QED
  BY <1>2, <1>3

\* If some place in the page is free, the search stops at one, the first.
LEMMA FirstFitIsFree ==
  ASSUME NEW map, NEW count \in 1 .. Width,
         \E n \in 0 .. Width - count : map \cap (n .. n + count - 1) = {}
  PROVE  /\ FirstFit(map, count) \in 0 .. Width - count
         /\ map \cap (FirstFit(map, count) .. FirstFit(map, count) + count - 1) = {}
<1> USE WidthAssumption
<1> DEFINE IsFree(n) == map \cap Shifted(BlocksMask(count), n) = {}
           free == {n \in 0 .. Width - count : IsFree(n)}
<1>1. free # {}
  <2>1. PICK n \in 0 .. Width - count : map \cap (n .. n + count - 1) = {}
    OBVIOUS
  <2>2. IsFree(n)
    BY <2>1, ShiftedMask
  <2> QED
    BY <2>2
<1>2. PICK n \in free : \A m \in free : n <= m
  BY <1>1, LeastElement, free \in SUBSET Nat
<1>3. \A m \in 0 .. n - 1 : ~ IsFree(m)
  BY <1>2
<1>4. n \in 0 .. Width /\ IsFree(n)
  BY <1>2
<1> DEFINE first == FirstFit(map, count)
<1>5. first \in 0 .. Width /\ IsFree(first) /\ \A m \in 0 .. first - 1 : ~ IsFree(m)
  BY <1>3, <1>4, Zenon DEF FirstFit
<1> HIDE DEF first, IsFree
<1>6. first <= n
  BY <1>4, <1>5
<1>7. first \in 0 .. Width - count
  BY <1>2, <1>5, <1>6
<1> QED
  BY <1>5, <1>7, ShiftedMask DEF first, IsFree

\* SUB of bits that are all set clears them and no other one.
LEMMA SubtractOfSubset ==
  ASSUME NEW map \in SUBSET Items, NEW mask \in SUBSET map
  PROVE  Subtract(map, mask) = map \ mask
<1> USE WidthAssumption DEF Items
<1> DEFINE Equation(f) ==
             f = [k \in -1 .. Width - 1 |->
                    IF k = -1 THEN map
                    ELSE IF k \in mask THEN SubBit(f[k - 1], k) ELSE f[k - 1]]
           cleared == [k \in -1 .. Width - 1 |-> map \ (mask \cap 0 .. k)]
<1>1. Equation(cleared)
  <2> SUFFICES ASSUME NEW k \in -1 .. Width - 1
               PROVE  cleared[k] = IF k = -1 THEN map
                                   ELSE IF k \in mask THEN SubBit(cleared[k - 1], k)
                                   ELSE cleared[k - 1]
    OBVIOUS
  <2>1. CASE k = -1
    BY <2>1
  <2>2. CASE k # -1
    <3>1. k - 1 \in -1 .. Width - 1 /\ k \in Items
      BY <2>2
    <3>2. 0 .. k = (0 .. k - 1) \cup {k}
      BY <2>2
    <3>3. cleared[k] = cleared[k - 1] \ (mask \cap {k})
      BY <3>1, <3>2
    <3>4. k \in mask => k \in cleared[k - 1]
      BY <3>1
    <3> QED
      BY <2>2, <3>1, <3>3, <3>4 DEF SubBit
  <2> QED
    BY <2>1, <2>2
<1> DEFINE without == CHOOSE f : Equation(f)
<1>2. Equation(without)
  BY <1>1, Zenon
<1>3. Subtract(map, mask) = without[Width - 1]
  BY DEF Subtract
<1> HIDE DEF without, cleared
<1>4. \A k \in -1 .. Width - 1 : without[k] =
         IF k = -1 THEN map ELSE IF k \in mask THEN SubBit(without[k - 1], k) ELSE without[k - 1]
  BY <1>2
<1>5. \A k \in -1 .. Width - 1 : cleared[k] =
         IF k = -1 THEN map ELSE IF k \in mask THEN SubBit(cleared[k - 1], k) ELSE cleared[k - 1]
  BY <1>1
<1> DEFINE differ == {k \in Nat : k - 1 \in -1 .. Width - 1 /\ without[k - 1] # cleared[k - 1]}
<1>6. differ = {}
  <2> SUFFICES ASSUME differ # {} PROVE FALSE
    OBVIOUS
  <2>1. PICK k \in differ : \A j \in differ : k <= j
    BY LeastElement
  <2>2. CASE k = 0
    BY <2>2, <2>1, <1>4, <1>5
  <2>3. CASE k # 0
    <3>1. k - 1 \in Nat /\ k - 1 \in 0 .. Width - 1 /\ k - 1 \notin differ
      BY <2>1, <2>3
    <3>2. without[(k - 1) - 1] = cleared[(k - 1) - 1]
      BY <3>1
    <3> QED
      BY <2>1, <3>1, <3>2, <1>4, <1>5
  <2> QED
    BY <2>2, <2>3
<1>7. Width \in Nat /\ Width - 1 \in -1 .. Width - 1
  OBVIOUS
<1>8. without[Width - 1] = cleared[Width - 1]
  BY <1>6, <1>7
<1>9. mask \cap 0 .. Width - 1 = mask
  OBVIOUS
<1> QED
  BY <1>3, <1>8, <1>9 DEF cleared

-----------------------------------------------------------------------------
(* Addresses *)

LEMMA DivModUnique ==
  ASSUME NEW w \in Nat \ {0}, NEW k \in Int, NEW m \in 0 .. w - 1
  PROVE  (k * w + m) \div w = k /\ (k * w + m) % w = m
  OBVIOUS

\* The page alloc takes is page 1, if there is more than the page of the OS: where its
\* first block is.
FirstBlock == (2 * Width - 2) * Width

\* Block n of page 1 is n behind the first one.
LEMMA Addresses ==
  ASSUME Width > 1
  PROVE  /\ FirstBlock \in Nat \ {0}
         /\ \A n \in Items : /\ PointerOf(1, n) = FirstBlock + n
                             /\ PageOf(FirstBlock + n) = 1
                             /\ BlockOf(FirstBlock + n) = n
<1> DEFINE pages == 2 * Width - 2
<1>1. Width \in Nat \ {0} /\ pages \in Nat \ {0}
  BY WidthAssumption
<1>2. pages * Width \in Nat \ {0}
  BY <1>1
<1> SUFFICES ASSUME NEW n \in Items
             PROVE  /\ PointerOf(1, n) = pages * Width + n
                    /\ PageOf(pages * Width + n) = 1
                    /\ BlockOf(pages * Width + n) = n
  BY <1>2 DEF FirstBlock
<1>3. n \in 0 .. Width - 1 /\ pages = 2 * Width - 2
  BY DEF Items
<1> HIDE DEF pages
<1>4. (pages * Width + n) \div Width = pages /\ (pages * Width + n) % Width = n
  BY <1>1, <1>3, DivModUnique, SMTT(30)
<1> DEFINE start == pages * Width
           total == 2 * Width * Width
<1>5. total = start + 2 * Width /\ start \in Nat
  BY <1>1, <1>2, <1>3
<1>6. (start + n) % total = start + n
  <2> HIDE DEF start, total
  <2>1. total \in Nat \ {0} /\ start + n \in 0 .. total - 1 /\ 0 * total + (start + n) = start + n
    BY <1>1, <1>3, <1>5
  <2>2. (0 * total + (start + n)) % total = start + n
    BY <2>1, DivModUnique
  <2> QED
    BY <2>1, <2>2
<1>7. PointerOf(1, n) = pages * Width + n
  <2>1. 2 * Width - 1 - 1 = pages
    BY <1>1, <1>3
  <2> QED
    BY <2>1, <1>6 DEF PointerOf
<1>8. PageOf(pages * Width + n) = 1
  BY <1>1, <1>3, <1>4 DEF PageOf
<1> QED
  BY <1>4, <1>7, <1>8 DEF BlockOf

-----------------------------------------------------------------------------
(* The inductive invariant of the allocator *)

\* alloc takes page 1 and no other one.
PagesInv ==
  /\ pagesMap \in {{}, {1}} /\ pagesMap \subseteq Items
  /\ iup2 = {0} \cup pagesMap
  /\ blockMap \in [Items -> SUBSET Items]
  /\ \A p \in Items \ {1} : blockMap[p] = {}

\* The blocks n to n + c - 1 of the page.
Piece(n, c) == [ptr |-> FirstBlock + n, count |-> c]

\* What programs hold are pieces of that page that do not meet.
LiveInv ==
  /\ live # {} => pagesMap = {1}
  /\ \A a \in live : \E n \in Items, c \in 1 .. Width : a = Piece(n, c) /\ n + c <= Width
  /\ \A a, b \in live : a # b => Blocks(a) \cap Blocks(b) = {}

\* The map of the page has what is held.
MapInv == 1 \in Items => blockMap[1] = {k \in Items : \E a \in live : FirstBlock + k \in Blocks(a)}

AllocInv == PagesInv /\ LiveInv /\ MapInv

LEMMA AllocInit == Init => AllocInv
  BY WidthAssumption DEF Init, AllocInv, PagesInv, LiveInv, MapInv, Items

LEMMA PageIsOne ==
  ASSUME PagesInv, Width > 1
  PROVE  PageToUse = 1 /\ (pagesMap = {} => TakenPage = 1 /\ FreePages # {})
<1> USE WidthAssumption DEF Items, PagesInv
<1>1. CASE pagesMap = {}
  <2>1. FreePages = 1 .. Width - 1
    BY <1>1 DEF FreePages
  <2>2. \A p \in FreePages : (\A q \in FreePages : p <= q) => p = 1
    BY <2>1
  <2>3. 1 \in FreePages /\ \A q \in FreePages : 1 <= q
    BY <2>1
  <2>4. TakenPage = 1
    <3>1. TakenPage \in FreePages /\ \A q \in FreePages : TakenPage <= q
      BY <2>3, Zenon DEF TakenPage
    <3> QED
      BY <2>2, <3>1
  <2> QED
    BY <1>1, <2>3, <2>4 DEF PageToUse
<1>2. CASE pagesMap = {1}
  BY <1>2 DEF PageToUse
<1> QED
  BY <1>1, <1>2

\* The blocks of a piece of the page.
LEMMA BlocksOfPiece ==
  ASSUME Width > 1, NEW n \in Items, NEW c \in 1 .. Width, n + c <= Width
  PROVE  /\ Blocks(Piece(n, c)) = FirstBlock + n .. FirstBlock + (n + c - 1)
         /\ Piece(n, c).ptr = FirstBlock + n /\ Piece(n, c).count = c
         /\ BlockOf(Piece(n, c).ptr) = n /\ PageOf(Piece(n, c).ptr) = 1
         /\ Shifted(BlocksMask(c), n) = n .. n + c - 1
         /\ n .. n + c - 1 \subseteq Items
         /\ {k \in Items : FirstBlock + k \in Blocks(Piece(n, c))} = n .. n + c - 1
<1>1. FirstBlock \in Nat /\ Width \in Nat
  BY Addresses, WidthAssumption
<1>2. Piece(n, c).ptr = FirstBlock + n /\ Piece(n, c).count = c
  BY DEF Piece
<1>3. Blocks(Piece(n, c)) = FirstBlock + n .. FirstBlock + (n + c - 1)
  <2>1. FirstBlock + n + c - 1 = FirstBlock + (n + c - 1)
    BY <1>1 DEF Items
  <2> QED
    BY <1>2, <2>1 DEF Blocks
<1>4. n \in 0 .. Width - c
  BY <1>1 DEF Items
<1>5. Shifted(BlocksMask(c), n) = n .. n + c - 1
  BY <1>4, ShiftedMask
<1> QED
  BY <1>1, <1>2, <1>3, <1>5, Addresses DEF Items

\* What is held begins with a block of its own that the map has.
LEMMA HeldIsMapped ==
  ASSUME AllocInv, NEW x \in live
  PROVE  /\ Width > 1 /\ x.ptr \in Blocks(x) /\ x.count # 0
         /\ \E n \in blockMap[1] : x.ptr = FirstBlock + n
<1>1. PICK n \in Items, c \in 1 .. Width : x = Piece(n, c) /\ n + c <= Width
  BY DEF AllocInv, LiveInv
<1>2. Width > 1
  BY WidthAssumption DEF AllocInv, LiveInv, PagesInv, Items
<1>3. n \in n .. n + c - 1 /\ n \in Nat
  BY <1>1 DEF Items
<1>4. x.ptr = FirstBlock + n /\ x.count = c /\ FirstBlock + n \in Blocks(x)
  BY <1>1, <1>2, <1>3, BlocksOfPiece
<1>5. n \in blockMap[1]
  BY <1>4, <1>2, WidthAssumption DEF AllocInv, MapInv, Items
<1> QED
  BY <1>2, <1>4, <1>5

\* A piece of which no block is in use can be added to the map and to what is held.
LEMMA AddPiece ==
  ASSUME AllocInv, Width > 1,
         NEW n \in Items, NEW c \in 1 .. Width, n + c <= Width,
         blockMap[1] \cap (n .. n + c - 1) = {},
         pagesMap' = {1}, iup2' = {0, 1},
         blockMap' = [blockMap EXCEPT ![1] = @ \cup (n .. n + c - 1)],
         live' = live \cup {Piece(n, c)}
  PROVE  AllocInv'
<1> DEFINE new == Piece(n, c)
<1>1. 1 \in Items /\ n .. n + c - 1 \subseteq Items
  BY WidthAssumption DEF Items
<1>2. PagesInv'
  BY <1>1 DEF AllocInv, PagesInv
<1>3. ASSUME NEW x \in live PROVE Blocks(x) \cap Blocks(new) = {}
  <2> SUFFICES ASSUME NEW block \in Blocks(new), block \in Blocks(x) PROVE FALSE
    OBVIOUS
  <2>1. FirstBlock \in Nat /\ Blocks(new) = FirstBlock + n .. FirstBlock + (n + c - 1)
    BY Addresses, BlocksOfPiece
  <2>2. block - FirstBlock \in n .. n + c - 1 /\ block = FirstBlock + (block - FirstBlock)
    BY <2>1 DEF Items
  <2>3. block - FirstBlock \in blockMap[1]
    BY <1>1, <2>2 DEF AllocInv, MapInv
  <2> QED
    BY <2>2, <2>3
<1>4. LiveInv'
  BY <1>3 DEF AllocInv, LiveInv
<1>5. MapInv'
  <2>1. blockMap'[1] = blockMap[1] \cup (n .. n + c - 1)
    BY <1>1 DEF AllocInv, PagesInv
  <2>2. {k \in Items : FirstBlock + k \in Blocks(new)} = n .. n + c - 1
    BY BlocksOfPiece
  <2> QED
    BY <2>1, <2>2, <1>1 DEF AllocInv, MapInv
<1> QED
  BY <1>2, <1>4, <1>5 DEF AllocInv

\* alloc of what fits returns a new piece of the page; nothing stops the machine.
LEMMA AllocOfFitting ==
  ASSUME AllocInv, NEW count \in Nat, Fits(count), Alloc(count)
  PROVE  /\ Width > 1 /\ cpu' = "run"
         /\ \E n \in Items : AllocatedPtr(count) = FirstBlock + n /\ n \notin blockMap[1]
         /\ count \in 1 .. Width
         /\ live' = live \cup {[ptr |-> AllocatedPtr(count), count |-> count]}
         /\ AllocInv'
<1>1. PICK n \in 0 .. Width - count : pagesMap = {} \/ blockMap[PageToUse] \cap (n .. n + count - 1) = {}
  BY DEF Fits
<1>2. count \in 1 .. Width /\ Width > 1
  <2>1. ~ RejectsCount(count)
    BY DEF Alloc
  <2>2. count # 0
    BY <2>1 DEF RejectsCount
  <2>3. Width # 1
    <3>1. SUFFICES ASSUME Width = 1 PROVE FALSE
      OBVIOUS
    <3>2. count = 1
      BY <1>1, <2>2, <3>1
    <3>3. (1 - 1) % Word < Word \div 2
      BY DEF Word
    <3> QED
      BY <2>1, <3>1, <3>2, <3>3 DEF RejectsCount
  <2> QED
    BY <1>1, <2>2, <2>3, WidthAssumption
<1>3. PageToUse = 1 /\ (pagesMap = {} => TakenPage = 1 /\ FreePages # {})
  BY <1>2, PageIsOne DEF AllocInv
<1>4. 1 \in Items /\ FirstBlock \in Nat
  BY <1>2, Addresses, WidthAssumption DEF Items
<1>5. blockMap[1] \cap (n .. n + count - 1) = {}
  <2>1. CASE pagesMap = {}
    <3>1. live = {}
      BY <2>1 DEF AllocInv, LiveInv
    <3> QED
      BY <3>1, <1>4 DEF AllocInv, MapInv
  <2>2. CASE pagesMap # {}
    BY <2>2, <1>1, <1>3
  <2> QED
    BY <2>1, <2>2
<1> DEFINE block == FirstFit(blockMap[1], count)
<1>6. /\ block \in 0 .. Width - count
      /\ blockMap[1] \cap (block .. block + count - 1) = {}
  BY <1>2, <1>5, FirstFitIsFree
<1>7. block \in Items /\ block + count <= Width /\ block \in block .. block + count - 1
  <2> HIDE DEF block
  <2> QED
    BY <1>2, <1>6, WidthAssumption DEF Items
<1>8. AllocatedPtr(count) = FirstBlock + block
  BY <1>2, <1>3, <1>7, Addresses DEF AllocatedPtr
<1>9. Shifted(BlocksMask(count), block) = block .. block + count - 1
  BY <1>2, <1>6, ShiftedMask
<1>10. /\ pagesMap' = {1} /\ iup2' = {0, 1}
       /\ blockMap' = [blockMap EXCEPT ![1] = @ \cup (block .. block + count - 1)]
       /\ live' = live \cup {[ptr |-> AllocatedPtr(count), count |-> count]}
       /\ cpu' = "run"
  <2>1. ~ (pagesMap = {} /\ FreePages = {})
    BY <1>3
  <2> HIDE DEF block
  <2>2. /\ pagesMap' = pagesMap \cup (IF pagesMap = {} THEN {TakenPage} ELSE {})
        /\ iup2' = iup2 \cup (IF pagesMap = {} THEN {TakenPage} ELSE {})
        /\ blockMap' = [blockMap EXCEPT ![1] = @ \cup (block .. block + count - 1)]
        /\ live' = live \cup {[ptr |-> AllocatedPtr(count), count |-> count]}
        /\ cpu' = "run"
    BY <2>1, <1>3, <1>9 DEF Alloc, block
  <2> QED
    BY <2>2, <1>3 DEF AllocInv, PagesInv
<1> HIDE DEF block
<1>11. AllocInv'
  BY <1>2, <1>6, <1>7, <1>8, <1>10, AddPiece DEF Piece
<1> QED
  BY <1>2, <1>6, <1>7, <1>8, <1>10, <1>11

\* free of what is held takes its blocks from the map and leaves the others there.
LEMMA FreeOfHeld ==
  ASSUME AllocInv, NEW x \in live, Free(x)
  PROVE  AllocInv' /\ live' = live \ {x} /\ cpu' = "run"
<1>1. PICK n \in Items, c \in 1 .. Width : x = Piece(n, c) /\ n + c <= Width
  BY DEF AllocInv, LiveInv
<1>2. Width > 1 /\ 1 \in Items /\ FirstBlock \in Nat
  BY HeldIsMapped, Addresses, WidthAssumption DEF Items
<1>3. /\ PageOf(x.ptr) = 1 /\ BlockOf(x.ptr) = n /\ x.count = c
      /\ Shifted(BlocksMask(c), n) = n .. n + c - 1
      /\ {k \in Items : FirstBlock + k \in Blocks(x)} = n .. n + c - 1
  BY <1>1, <1>2, BlocksOfPiece
<1>4. blockMap[1] \in SUBSET Items /\ n .. n + c - 1 \in SUBSET blockMap[1]
  BY <1>2, <1>3 DEF AllocInv, PagesInv, MapInv
<1>5. Subtract(blockMap[1], n .. n + c - 1) = blockMap[1] \ (n .. n + c - 1)
  BY <1>4, SubtractOfSubset
<1>6. /\ blockMap' = [blockMap EXCEPT ![1] = blockMap[1] \ (n .. n + c - 1)]
      /\ live' = live \ {x} /\ iup2' = iup2 /\ pagesMap' = pagesMap /\ cpu' = "run"
  BY <1>3, <1>5 DEF Free
<1>7. PagesInv'
  BY <1>2, <1>4, <1>6 DEF AllocInv, PagesInv
<1>8. LiveInv'
  BY <1>6 DEF AllocInv, LiveInv
<1>9. MapInv'
  <2>1. blockMap'[1] = blockMap[1] \ {k \in Items : FirstBlock + k \in Blocks(x)}
    BY <1>2, <1>3, <1>6 DEF AllocInv, PagesInv
  <2>2. \A y \in live : y # x => Blocks(y) \cap Blocks(x) = {}
    BY DEF AllocInv, LiveInv
  <2> QED
    BY <2>1, <2>2, <1>2, <1>6 DEF AllocInv, MapInv
<1> QED
  BY <1>6, <1>7, <1>8, <1>9 DEF AllocInv

\* A call that is refused, and a step of something else, changes nothing.
LEMMA AllocStutters ==
  ASSUME AllocInv, UNCHANGED <<iup2, pagesMap, blockMap, live>>
  PROVE  AllocInv'
  BY DEF AllocInv, PagesInv, LiveInv, MapInv

\* The invariant is worth what follows from it.
LEMMA AllocInvImplies == AllocInv => Disjoint /\ MapsExact
<1> SUFFICES ASSUME AllocInv PROVE Disjoint /\ MapsExact
  OBVIOUS
<1>1. ASSUME NEW x \in live, NEW block \in Blocks(x)
      PROVE  /\ 1 \in pagesMap /\ PageOf(block) = 1
             /\ \E k \in Items : block = FirstBlock + k /\ BlockOf(block) = k
  <2>1. PICK n \in Items, c \in 1 .. Width : x = Piece(n, c) /\ n + c <= Width
    BY DEF AllocInv, LiveInv
  <2>2. Width > 1 /\ FirstBlock \in Nat
    BY HeldIsMapped, Addresses
  <2>3. /\ Blocks(x) = FirstBlock + n .. FirstBlock + (n + c - 1)
        /\ n .. n + c - 1 \subseteq Items
    BY <2>1, <2>2, BlocksOfPiece
  <2>4. block - FirstBlock \in n .. n + c - 1 /\ block = FirstBlock + (block - FirstBlock)
    BY <2>2, <2>3 DEF Items
  <2>5. pagesMap = {1}
    BY DEF AllocInv, LiveInv
  <2> QED
    BY <2>2, <2>3, <2>4, <2>5, Addresses
<1>2. Disjoint
  BY <1>1 DEF Disjoint, AllocInv, LiveInv
<1>3. ASSUME NEW p \in Items
      PROVE  blockMap[p] = {BlockOf(block) : block \in {y \in UNION {Blocks(x) : x \in live} : PageOf(y) = p}}
  <2> DEFINE held == {y \in UNION {Blocks(x) : x \in live} : PageOf(y) = p}
  <2>1. CASE p # 1
    <3>1. held = {}
      BY <2>1, <1>1
    <3>2. blockMap[p] = {}
      BY <2>1 DEF AllocInv, PagesInv
    <3> QED
      BY <3>1, <3>2
  <2>2. CASE p = 1
    <3>1. blockMap[1] = {k \in Items : \E x \in live : FirstBlock + k \in Blocks(x)}
      BY <2>2 DEF AllocInv, MapInv
    <3>2. \A block \in held : BlockOf(block) \in blockMap[1]
      BY <3>1, <1>1
    <3>3. ASSUME NEW k \in blockMap[1] PROVE \E block \in held : k = BlockOf(block)
      <4>1. PICK x \in live : FirstBlock + k \in Blocks(x)
        BY <3>1
      <4>2. k \in Items /\ Width > 1
        BY <3>1, HeldIsMapped
      <4>3. FirstBlock + k \in held
        BY <4>1, <2>2, <1>1
      <4> QED
        BY <4>2, <4>3, Addresses
    <3> QED
      BY <2>2, <3>2, <3>3
  <2> QED
    BY <2>1, <2>2
<1>4. MapsExact
  BY <1>3 DEF MapsExact
<1> QED
  BY <1>2, <1>4

\* Programs that ask for any sizes that fit, and free in any order: no block has two
\* owners, and the maps of alloc are what is held.
THEOREM BlocksHaveOneOwner == SpecFitting => [](Disjoint /\ MapsExact)
<1>1. AllocInv /\ [NextFitting]_vars => AllocInv'
  <2> SUFFICES ASSUME AllocInv, [NextFitting]_vars PROVE AllocInv'
    OBVIOUS
  <2>1. ASSUME NEW count \in Counts, AllocRejected(count) PROVE AllocInv'
    BY <2>1, AllocStutters DEF AllocRejected, vars
  <2>2. ASSUME NEW count \in Counts, Fits(count), Alloc(count) PROVE AllocInv'
    BY <2>2, AllocOfFitting, CountsAssumption
  <2>3. ASSUME NEW x \in live, Free(x) PROVE AllocInv'
    BY <2>3, FreeOfHeld
  <2>4. CASE UNCHANGED vars
    BY <2>4, AllocStutters DEF vars
  <2> QED
    BY <2>1, <2>2, <2>3, <2>4 DEF NextFitting
<1> QED
  BY <1>1, AllocInit, AllocInvImplies, PTL DEF SpecFitting

-----------------------------------------------------------------------------
(* Arrays *)

\* An array that is not empty has one block of its own and is not full.
ArraysInv ==
  /\ lists \in [Lists -> [data : Nat, size : Nat, capacity : Nat]]
  /\ \A l \in Lists :
       lists[l] # Empty => /\ lists[l].capacity = BlockSize /\ lists[l].size < BlockSize
                           /\ DataOf(l) \in live
  /\ \A l, m \in Lists :
       l # m /\ lists[l] # Empty /\ lists[m] # Empty => lists[l].data # lists[m].data

IInv == AllocInv /\ ArraysInv

LEMMA ArraysInit == InitArrays => IInv
  BY AllocInit DEF InitArrays, IInv, ArraysInv, Empty

LEMMA InitArrayKeeps ==
  ASSUME IInv, NEW l \in Lists, InitArray(l)
  PROVE  IInv'
<1> USE BlockSizeAssumption DEF IInv
<1> DEFINE new == [data |-> AllocatedPtr(1), size |-> 0, capacity |-> BlockSize]
<1>1. lists[l] = Empty /\ Fits(1) /\ Alloc(1)
  BY DEF InitArray
<1>2. /\ cpu' = "run" /\ AllocInv' /\ Width > 1
      /\ live' = live \cup {[ptr |-> AllocatedPtr(1), count |-> 1]}
  BY <1>1, AllocOfFitting
<1>3. PICK n \in Items : AllocatedPtr(1) = FirstBlock + n /\ n \notin blockMap[1]
  BY <1>1, AllocOfFitting
<1>4. lists' = [lists EXCEPT ![l] = new]
  BY <1>2 DEF InitArray
<1>5. FirstBlock \in Nat /\ AllocatedPtr(1) \in Nat
  BY <1>2, <1>3, Addresses DEF Items
<1>6. ASSUME NEW m \in Lists, lists[m] # Empty PROVE lists[m].data # AllocatedPtr(1)
  <2>1. DataOf(m) \in live /\ DataOf(m).ptr = lists[m].data
    BY <1>6 DEF ArraysInv, DataOf
  <2>2. PICK k \in blockMap[1] : lists[m].data = FirstBlock + k
    BY <2>1, HeldIsMapped
  <2>3. k \in Items
    BY <1>2, <2>2, WidthAssumption DEF AllocInv, MapInv, Items
  <2> QED
    BY <1>3, <1>5, <2>2, <2>3 DEF Items
<1>7. lists'[l] = new /\ \A m \in Lists \ {l} : lists'[m] = lists[m]
  BY <1>4 DEF ArraysInv
<1>8. ASSUME NEW m \in Lists, lists'[m] # Empty
      PROVE  /\ lists'[m].capacity = BlockSize /\ lists'[m].size < BlockSize
             /\ DataOf(m)' \in live'
  <2>1. CASE m = l
    BY <2>1, <1>2, <1>7 DEF DataOf
  <2>2. CASE m # l
    BY <2>2, <1>2, <1>7, <1>8 DEF DataOf, ArraysInv
  <2> QED
    BY <2>1, <2>2
<1>9. ArraysInv'
  <2>1. lists' \in [Lists -> [data : Nat, size : Nat, capacity : Nat]]
    BY <1>4, <1>5 DEF ArraysInv
  <2>2. \A k, m \in Lists :
          k # m /\ lists'[k] # Empty /\ lists'[m] # Empty => lists'[k].data # lists'[m].data
    BY <1>1, <1>6, <1>7 DEF ArraysInv
  <2> QED
    BY <2>1, <2>2, <1>8 DEF ArraysInv
<1> QED
  BY <1>2, <1>9

\* dynamic_array_free of an empty struct frees nothing: address 0 is in no page of the
\* upper half.
LEMMA FreeOfNothing ==
  ASSUME AllocInv, Free([ptr |-> 0, count |-> 0])
  PROVE  UNCHANGED <<iup2, pagesMap, blockMap, live>>
<1>1. PageOf(0) \notin Items
  <2>1. 0 * Width + 0 = 0 /\ 0 \in 0 .. Width - 1 /\ Width \in Nat \ {0}
    BY WidthAssumption
  <2>2. 0 \div Width = 0
    BY <2>1, DivModUnique
  <2> QED
    BY <2>1, <2>2 DEF PageOf, Items
<1>2. blockMap' = blockMap
  BY <1>1 DEF Free, AllocInv, PagesInv
<1>3. [ptr |-> 0, count |-> 0] \notin live
  BY HeldIsMapped
<1> QED
  BY <1>2, <1>3 DEF Free

LEMMA FreeArrayKeeps ==
  ASSUME IInv, NEW l \in Lists, FreeArray(l)
  PROVE  IInv'
<1> USE BlockSizeAssumption DEF IInv
<1>1. lists' = [lists EXCEPT ![l] = Empty]
  BY DEF FreeArray
<1>2. lists'[l] = Empty /\ \A m \in Lists \ {l} : lists'[m] = lists[m]
  BY <1>1 DEF ArraysInv
<1>3. lists' \in [Lists -> [data : Nat, size : Nat, capacity : Nat]]
  BY <1>1 DEF ArraysInv, Empty
<1>4. CASE lists[l] = Empty
  <2>1. lists[l].data = 0 /\ lists[l].capacity \div BlockSize = 0
    BY <1>4 DEF Empty
  <2>2. UNCHANGED <<iup2, pagesMap, blockMap, live>>
    BY <2>1, FreeOfNothing DEF FreeArray
  <2>3. AllocInv'
    BY <2>2, AllocStutters
  <2>4. lists' = lists
    BY <1>1, <1>4 DEF ArraysInv
  <2> QED
    BY <2>2, <2>3, <2>4 DEF ArraysInv, DataOf
<1>5. CASE lists[l] # Empty
  <2>1. BlockSize \div BlockSize = 1
    <3>1. 1 * BlockSize + 0 = BlockSize /\ 0 \in 0 .. BlockSize - 1
      OBVIOUS
    <3> QED
      BY <3>1, DivModUnique
  <2>2. DataOf(l) \in live /\ Free(DataOf(l))
    BY <1>5, <2>1 DEF ArraysInv, FreeArray, DataOf
  <2>3. AllocInv' /\ live' = live \ {DataOf(l)}
    BY <2>2, FreeOfHeld
  <2>4. ASSUME NEW m \in Lists, lists'[m] # Empty PROVE DataOf(m)' \in live'
    <3>1. m # l /\ lists'[m] = lists[m] /\ lists[m] # Empty
      BY <2>4, <1>2
    <3>2. DataOf(m)' = DataOf(m) /\ DataOf(m) # DataOf(l)
      BY <1>5, <3>1 DEF ArraysInv, DataOf
    <3> QED
      BY <2>3, <3>1, <3>2 DEF ArraysInv
  <2> QED
    BY <1>2, <1>3, <2>3, <2>4 DEF ArraysInv
<1> QED
  BY <1>4, <1>5

LEMMA PushKeeps ==
  ASSUME IInv, NEW l \in Lists, NEW bytes \in {1, 2}, Push(l, bytes)
  PROVE  IInv'
<1> USE BlockSizeAssumption DEF IInv
<1>1. AllocInv' /\ live' = live
  BY AllocStutters DEF Push
<1>2. CASE HasRoom(lists[l], bytes)
  <2>1. lists' = [lists EXCEPT ![l].size = @ + bytes]
    BY <1>2 DEF Push
  <2>2. lists' \in [Lists -> [data : Nat, size : Nat, capacity : Nat]]
    BY <2>1 DEF ArraysInv
  <2>3. \A m \in Lists : lists'[m].data = lists[m].data /\ lists'[m].capacity = lists[m].capacity
    BY <2>1 DEF ArraysInv
  <2>4. lists[l].size + bytes < lists[l].capacity /\ lists[l] # Empty
    BY <1>2 DEF HasRoom, Empty, ArraysInv
  <2>5. lists'[l].size < BlockSize
    BY <2>1, <2>4 DEF ArraysInv
  <2>6. \A m \in Lists \ {l} : lists'[m] = lists[m]
    BY <2>1 DEF ArraysInv
  <2>7. \A m \in Lists : DataOf(m)' = DataOf(m)
    BY <2>3 DEF DataOf
  <2> QED
    BY <1>1, <2>2, <2>3, <2>4, <2>5, <2>6, <2>7 DEF ArraysInv
<1>3. CASE ~ HasRoom(lists[l], bytes)
  BY <1>1, <1>3 DEF Push, ArraysInv, DataOf
<1> QED
  BY <1>2, <1>3

LEMMA ArraysNext == IInv /\ [NextArrays]_arrayVars => IInv'
<1> SUFFICES ASSUME IInv, [NextArrays]_arrayVars PROVE IInv'
  OBVIOUS
<1> USE DEF IInv
<1>1. ASSUME NEW count \in Counts, AllocRejected(count), UNCHANGED lists PROVE IInv'
  BY <1>1, AllocStutters DEF AllocRejected, vars, ArraysInv, DataOf
<1>2. ASSUME NEW count \in Counts, Fits(count), Alloc(count), UNCHANGED lists PROVE IInv'
  <2>1. AllocInv' /\ live \subseteq live'
    BY <1>2, AllocOfFitting, CountsAssumption
  <2> QED
    BY <1>2, <2>1 DEF ArraysInv, DataOf
<1>3. ASSUME NEW x \in Held, Free(x), UNCHANGED lists PROVE IInv'
  <2>1. x \in live /\ \A l \in Lists : DataOf(l) # x
    BY DEF Held
  <2>2. AllocInv' /\ live' = live \ {x}
    BY <1>3, <2>1, FreeOfHeld
  <2> QED
    BY <1>3, <2>1, <2>2 DEF ArraysInv, DataOf
<1>4. CASE UNCHANGED arrayVars
  BY <1>4, AllocStutters DEF arrayVars, vars, ArraysInv, DataOf
<1> QED
  BY <1>1, <1>2, <1>3, <1>4, InitArrayKeeps, FreeArrayKeeps, PushKeeps DEF NextArrays

LEMMA BytesOfBlock ==
  ASSUME NEW block \in Nat, NEW size \in 0 .. BlockSize,
         NEW byte \in block * BlockSize .. block * BlockSize + size - 1
  PROVE  byte \div BlockSize = block
<1> DEFINE start == block * BlockSize
           rest  == byte - start
<1>1. start \in Nat /\ BlockSize \in Nat \ {0}
  BY BlockSizeAssumption
<1> HIDE DEF start
<1>2. rest \in 0 .. BlockSize - 1 /\ byte = start + rest
  BY <1>1 DEF start
<1> HIDE DEF rest
<1>3. (block * BlockSize + rest) \div BlockSize = block
  BY <1>1, <1>2, DivModUnique
<1> QED
  BY <1>2, <1>3 DEF start

\* The bytes of an array are bytes of its block.
LEMMA BytesInBlock ==
  ASSUME IInv, NEW l \in Lists, NEW byte \in BytesOf(l)
  PROVE  lists[l] # Empty /\ byte \div BlockSize = lists[l].data
<1> USE BlockSizeAssumption DEF IInv
<1>1. lists[l].data \in Nat /\ lists[l].size \in Nat
  BY DEF ArraysInv
<1>2. lists[l] # Empty
  BY DEF Empty, BytesOf
<1>3. lists[l].size \in 0 .. BlockSize
  BY <1>1, <1>2 DEF ArraysInv
<1> QED
  BY <1>1, <1>2, <1>3, BytesOfBlock DEF BytesOf

LEMMA IInvImplies == IInv => ArraysOwnTheirBytes
<1> SUFFICES ASSUME IInv, NEW l \in Lists, lists[l].size > 0
             PROVE  /\ DataOf(l) \in live
                    /\ \A byte \in BytesOf(l) : byte \div BlockSize \in Blocks(DataOf(l))
                    /\ \A m \in Lists \ {l} : BytesOf(l) \cap BytesOf(m) = {}
                    /\ \A x \in live \ {DataOf(l)} : \A byte \in BytesOf(l) : byte \div BlockSize \notin Blocks(x)
  BY DEF ArraysOwnTheirBytes
<1>1. lists[l] # Empty /\ DataOf(l) \in live
  BY DEF IInv, ArraysInv, Empty
<1>2. lists[l].data \in Blocks(DataOf(l))
  BY <1>1, HeldIsMapped DEF IInv, DataOf
<1>3. \A byte \in BytesOf(l) : byte \div BlockSize \in Blocks(DataOf(l))
  BY <1>2, BytesInBlock
<1>4. \A m \in Lists \ {l} : BytesOf(l) \cap BytesOf(m) = {}
  BY <1>1, BytesInBlock DEF IInv, ArraysInv
<1>5. \A x \in live \ {DataOf(l)} : \A byte \in BytesOf(l) : byte \div BlockSize \notin Blocks(x)
  BY <1>1, <1>3 DEF IInv, AllocInv, LiveInv
<1> QED
  BY <1>1, <1>3, <1>4, <1>5

LEMMA ArraysInvariant == SpecArrays => []IInv
  BY ArraysInit, ArraysNext, PTL DEF SpecArrays

\* The same with dynamic arrays among the programs: no block has two owners.
THEOREM BlocksAreDisjoint == SpecArrays => []Disjoint
  BY ArraysInvariant, AllocInvImplies, PTL DEF IInv

\* And what free clears is what alloc set: no block is lost or given twice.
THEOREM MapsAreExact == SpecArrays => []MapsExact
  BY ArraysInvariant, AllocInvImplies, PTL DEF IInv

\* What is pushed to an array lies in a block that nobody else has.
THEOREM ArraysKeepToTheirBlocks == SpecArrays => []ArraysOwnTheirBytes
  BY ArraysInvariant, IInvImplies, PTL
=============================================================================
