\* The allocator over small memories, with kernels that end inside a word, at
\* its end, inside a later one, and at the end of memory.
SPECIFICATION Spec
CONSTANTS
  BlockBits = 4
  Layouts <- MCLayouts
  KernelEnds = {1, 5, 8, 9, 10, 12, 16}
INVARIANTS
  UsedExact
  PagesExclusive
  NothingLeaks
  FailsOnlyWhenFull
