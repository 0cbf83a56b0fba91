\* Every key can collide with every other; values of two lengths; an iterator
\* asks for two of the keys and gets one at a time.
CONSTANTS
  k1 = k1
  k2 = k2
  k3 = k3
  Keys = {k1, k2, k3}
  HashSlots = 4
  Hash <- Collisions
  Data = {d1, d2}
  Lengths = {1, 2}
  SmallLength = 2
  StorageSize = 6
  NrHandles = 1
  Filters <- TwoKeys
  BufKeys = 1
  Careful = TRUE
  NoKey = NoKey
  NoValue = NoValue
SYMMETRY DataSymmetry
SPECIFICATION Spec
CHECK_DEADLOCK FALSE
INVARIANTS IterationIsComplete RetrievesWhatWasStored
