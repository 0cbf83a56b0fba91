\* The host deletes and updates as it likes.
CONSTANTS
  k1 = k1
  k2 = k2
  k3 = k3
  Keys = {k1, k2, k3}
  HashSlots = 4
  Hash <- Collisions
  Data = {d1, d2}
  Lengths = {1}
  SmallLength = 2
  StorageSize = 5
  NrHandles = 1
  Filters <- TwoKeys
  BufKeys = 1
  Careful = FALSE
  NoKey = NoKey
  NoValue = NoValue
SPECIFICATION Spec
INVARIANTS RetrievesWhatWasStored
