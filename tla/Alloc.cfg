\* Pages of 7 blocks: allocations of up to 6 blocks leave holes of every size.
CONSTANTS
  Width     = 7
  Counts    = {0, 1, 2, 3, 4, 5, 6, 7, 8}
  Lists     = {l1, l2}
  BlockSize = 5
SPECIFICATION SpecArrays
INVARIANTS Disjoint MapsExact ArraysOwnTheirBytes
\* A full array or no page left stops the machine.
CHECK_DEADLOCK FALSE
