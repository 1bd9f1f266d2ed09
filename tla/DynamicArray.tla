---------------------------- MODULE DynamicArray ----------------------------
(***************************************************************************)
(* Dynamic arrays (asm/dynamic_array.asm) on top of alloc and free: a      *)
(* struct with the place of its data, its size and its capacity, which is  *)
(* one block and never grows. Programs initialize a struct that is empty,  *)
(* zero as it was assembled or as dynamic_array_free left it.              *)
(*                                                                         *)
(* Sizes are counted in bytes, data in blocks, as Alloc counts pointers.   *)
(***************************************************************************)
EXTENDS Alloc

CONSTANTS
  Lists,       \* the structs of the programs
  BlockSize    \* bytes in a block, 128

ASSUME BlockSizeAssumption == BlockSize \in Nat \ {0}

VARIABLE lists \* per struct: data, size, capacity

arrayVars == <<vars, lists>>

Empty == [data |-> 0, size |-> 0, capacity |-> 0]

InitArrays == Init /\ lists = [l \in Lists |-> Empty]

-----------------------------------------------------------------------------
\* dynamic_array_init
InitArray(l) ==
  /\ lists[l] = Empty
  /\ Fits(1)
  /\ Alloc(1)
  /\ lists' = IF cpu' = "run"
              THEN [lists EXCEPT ![l] = [data |-> AllocatedPtr(1), size |-> 0, capacity |-> BlockSize]]
              ELSE lists

HasRoomForOneMore(list, bytes) == list.size <= list.capacity

\* size + bytes - capacity is below 0: the last element that would fit is refused.
HasRoom(list, bytes) == list.size + bytes < list.capacity

\* dynamic_array_push8 and dynamic_array_push16; an array does not grow but stops
\* the machine.
Push(l, bytes) ==
  /\ cpu = "run"
  /\ IF HasRoom(lists[l], bytes)
     THEN lists' = [lists EXCEPT ![l].size = @ + bytes] /\ UNCHANGED cpu
     ELSE cpu' = "AB03" /\ UNCHANGED lists
  /\ UNCHANGED <<iup2, pagesMap, blockMap, live>>

\* dynamic_array_free. Of an empty struct it frees 0 blocks at 0, which changes nothing.
FreeArray(l) ==
  /\ Free([ptr |-> lists[l].data, count |-> lists[l].capacity \div BlockSize])
  /\ lists' = [lists EXCEPT ![l] = Empty]

DataOf(l) == [ptr |-> lists[l].data, count |-> 1]

\* Programs free what they allocated themselves; the data of an array goes with it.
Held == live \ {DataOf(l) : l \in Lists}

NextArrays ==
  \/ /\ \/ \E count \in Counts : AllocRejected(count) \/ (Fits(count) /\ Alloc(count))
        \/ \E a \in Held : Free(a)
     /\ UNCHANGED lists
  \/ \E l \in Lists : InitArray(l) \/ FreeArray(l) \/ \E bytes \in {1, 2} : Push(l, bytes)

SpecArrays == InitArrays /\ [][NextArrays]_arrayVars

-----------------------------------------------------------------------------
(* Properties *)

\* The bytes of an array, in bytes from the start of RAM.
BytesOf(l) == lists[l].data * BlockSize .. lists[l].data * BlockSize + lists[l].size - 1

\* What an array keeps lies in blocks that were allocated for it and that neither
\* another array nor a program holds, whatever was allocated and freed meanwhile.
ArraysOwnTheirBytes ==
  \A l \in Lists : lists[l].size > 0 =>
    /\ DataOf(l) \in live
    /\ \A byte \in BytesOf(l) : byte \div BlockSize \in Blocks(DataOf(l))
    /\ \A m \in Lists \ {l} : BytesOf(l) \cap BytesOf(m) = {}
    /\ \A a \in live \ {DataOf(l)} : \A byte \in BytesOf(l) : byte \div BlockSize \notin Blocks(a)
=============================================================================
