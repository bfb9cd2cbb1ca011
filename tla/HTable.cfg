CONSTANTS
  Width = 5
  MaxBits = 3
  Elements <- HeapPointers
  Hashes <- SomeHashes
SPECIFICATION Spec
INVARIANTS ProbesEnd FindsMembers
PROPERTIES IsASet
