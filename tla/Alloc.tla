-------------------------------- MODULE Alloc --------------------------------
(***************************************************************************)
(* alloc and free of the standard library (asm/alloc.asm): blocks of 128   *)
(* bytes in pages of the upper half of RAM.                                *)
(*                                                                         *)
(* The maps alloc searches from the least significant bit (iup2 and        *)
(* pages_map) have page 31 - i at bit i; the block map of a page has block *)
(* n at bit 15 - n. Addresses are counted in blocks. The machine has as    *)
(* many pages in the upper half as a page has blocks, 16: Width here.      *)
(*                                                                         *)
(* live is what the programs got and did not give back; the code keeps no  *)
(* such record. Programs free what they got, once and with its count.      *)
(***************************************************************************)
EXTENDS Bitmap

CONSTANTS
  Counts       \* block counts programs ask for

Word == 65536

ASSUME CountsAssumption == Counts \subseteq 0 .. Word - 1

VARIABLES
  iup2,        \* pages of the upper half in use, word at 0xF808
  pagesMap,    \* pages of the upper half alloc took
  blockMap,    \* block_map_list: per page, the blocks in use
  live,        \* [ptr, count] of what programs hold
  cpu          \* "run" or the value of A at the HLT that stopped the machine: here
               \* or in the dynamic arrays

vars == <<iup2, pagesMap, blockMap, live, cpu>>

-----------------------------------------------------------------------------
\* block_num << 7 + (31 - page_num) << 11, in blocks.
PointerOf(page, block) == ((2 * Width - 1 - page) * Width + block) % (2 * Width * Width)
PageOf(ptr)  == 2 * Width - 1 - ptr \div Width
BlockOf(ptr) == ptr % Width

\* The OS has one page of the upper half, the top one, for its variables and stack.
Init ==
  /\ iup2     = {0}
  /\ pagesMap = {}
  /\ blockMap = [p \in Items |-> {}]
  /\ live     = {}
  /\ cpu      = "run"

-----------------------------------------------------------------------------
(* alloc *)

\* count - 16 is compared with 0 as a signed word.
RejectsCount(count) == count = 0 \/ (count - Width) % Word < Word \div 2

\* 0xFFFF - ((1 << (16 - count)) - 1): the first count bits, none if 16 - count
\* is so large that the 1 is shifted out.
BlocksMaskShort(count) == IF count <= Width THEN 0 .. count - 2 ELSE {}

BlocksMask(count) == IF count <= Width THEN 0 .. count - 1 ELSE {}

\* mask >> n
Shifted(mask, n) == {k + n : k \in mask} \cap Items

\* search_block shifts the mask until it meets no block in use. Blocks shifted out
\* on the right count as free and the loop has no bound.
FirstFit(map, count) ==
  CHOOSE n \in 0 .. Width :
    /\ map \cap Shifted(BlocksMask(count), n) = {}
    /\ \A m \in 0 .. n - 1 : map \cap Shifted(BlocksMask(count), m) # {}

FreePages == Items \ iup2

\* A page is taken only if alloc has none yet: the first clear bit of iup2 from the
\* least significant one.
TakenPage == CHOOSE p \in FreePages : \A q \in FreePages : p <= q

\* The loop at has_pages looks at bit 0 of the map and, if it is 0, goes on with
\* what SUB left in A, page_num - 16, which is odd: it stops at page 1 whatever is
\* in the map.
PageToUse == IF pagesMap = {} THEN TakenPage ELSE IF 0 \in pagesMap THEN 0 ELSE 1

\* What alloc returns if it does not stop the machine.
AllocatedPtr(count) == PointerOf(PageToUse, FirstFit(blockMap[PageToUse], count))

AllocRejected(count) ==
  /\ cpu = "run" /\ RejectsCount(count)
  /\ UNCHANGED vars

Alloc(count) ==
  /\ cpu = "run" /\ ~RejectsCount(count)
  /\ IF pagesMap = {} /\ FreePages = {}
     THEN /\ cpu' = "DFFA"
          /\ UNCHANGED <<iup2, pagesMap, blockMap, live>>
     ELSE LET block == FirstFit(blockMap[PageToUse], count)
              taken == IF pagesMap = {} THEN {TakenPage} ELSE {}
          IN  /\ pagesMap' = pagesMap \cup taken
              /\ iup2'     = iup2 \cup taken
              /\ blockMap' = [blockMap EXCEPT ![PageToUse] =
                                @ \cup Shifted(BlocksMask(count), block)]
              /\ live'     = live \cup {[ptr |-> AllocatedPtr(count), count |-> count]}
              /\ UNCHANGED cpu

-----------------------------------------------------------------------------
(* free *)

SubtractOne(map, mask) ==
  IF mask = {} THEN map ELSE SubBit(map, CHOOSE k \in mask : \A j \in mask : k <= j)

\* map - mask, the bits of the mask one after the other.
Subtract(map, mask) ==
  LET without[k \in -1 .. Width - 1] ==
        IF k = -1 THEN map
        ELSE IF k \in mask THEN SubBit(without[k - 1], k) ELSE without[k - 1]
  IN  without[Width - 1]

Free(a) ==
  /\ cpu = "run"
  /\ blockMap' = [blockMap EXCEPT ![PageOf(a.ptr)] =
                    Subtract(@, Shifted(BlocksMask(a.count), BlockOf(a.ptr)))]
  /\ live' = live \ {a}
  /\ UNCHANGED <<iup2, pagesMap, cpu>>

-----------------------------------------------------------------------------
Next ==
  \/ \E count \in Counts : AllocRejected(count) \/ Alloc(count)
  \/ \E a \in live : Free(a)

Spec == Init /\ [][Next]_vars

\* Programs that ask only for what fits in one piece in the page alloc has: nothing
\* in alloc lets a program find out (see BlocksLieInPage).
Fits(count) ==
  \E n \in 0 .. Width - count :
    pagesMap = {} \/ blockMap[PageToUse] \cap (n .. n + count - 1) = {}

NextFitting ==
  \/ \E count \in Counts : AllocRejected(count) \/ (Fits(count) /\ Alloc(count))
  \/ \E a \in live : Free(a)

SpecFitting == Init /\ [][NextFitting]_vars

-----------------------------------------------------------------------------
(* Properties *)

Blocks(a) == a.ptr .. a.ptr + a.count - 1

\* No block belongs to two allocations, or to one and to the page of the OS, whatever
\* the order in which allocations of different sizes come and go.
Disjoint ==
  /\ \A a, b \in live : a # b => Blocks(a) \cap Blocks(b) = {}
  /\ \A a \in live : \A block \in Blocks(a) : PageOf(block) \in pagesMap \ {0}

\* The block maps have exactly the blocks of the allocations: a free clears what its
\* allocation set, without a borrow into blocks of another one, so that no block is
\* lost and none is free that somebody holds.
MapsExact ==
  \A p \in Items :
    blockMap[p] = {BlockOf(block) : block \in {x \in UNION {Blocks(a) : a \in live} : PageOf(x) = p}}

\* "allocate `count` contiguous blocks (128 bytes wide) in a page reserved for it"
\* (asm/alloc.asm:63): what alloc returns lies in one page alloc took.
BlocksLieInPage ==
  \A a \in live : \A block \in Blocks(a) : PageOf(block) = PageOf(a.ptr)
=============================================================================
