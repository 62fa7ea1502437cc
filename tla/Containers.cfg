SPECIFICATION Spec
CONSTANTS
  k1 = k1
  k2 = k2
  k3 = k3
  k4 = k4
  k5 = k5
  Keys = {k1, k2, k3, k4, k5}
  Values = {a, b}
  Fibonacci <- MCFibonacci
  HashBits = 5
  Jumps <- MCJumps
  MinGrow = 3
  Hash <- MCHash
  MinBuckets = 4
  Batches <- MCBatches
  Sizes = {0, 5, 9}
SYMMETRY Symmetry
INVARIANTS
  OpenTableIsTheMap
  BytellIsTheMap
  ProbingEnds
