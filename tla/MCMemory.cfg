CONSTANTS
  s = s
  array = array
  storage = storage
  reference = reference
  missing = missing
  Storages = {s}
  MaxHandles = 4
  MaxViews = 4
  StorageLength = 1
  MaxLength = 2
  MaxThings = 3
  Positions = {0, 1, 2}
  MaxBuffers = 3
  MaxSize = 3
  MaxPointers = 2
  Elements <- BytesAndPairs
  Kinds = {"ownership", "views", "native"}
SPECIFICATION AllSpec
INVARIANTS
  OwnershipIsSound
  AccessStaysInside
PROPERTIES
  NothingStaleIsReached
CHECK_DEADLOCK FALSE
