\* Every pair of small sizes, some of them with a common divisor.
SPECIFICATION Spec
CONSTANTS
  Sizes = {1, 2, 3, 4, 6, 8}
  MaxBytes = 24
INVARIANTS
  NoOverflow
  Kept
PROPERTY
  WholeBlocks
