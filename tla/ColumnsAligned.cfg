SPECIFICATION StorageSpec
CONSTANTS
  Keys = {k1, k2}
  Values = {v1, v2}
  Absent = Absent
  FlushThreshold = 2
  MaxSequence = 4
  LruKeys = {"a", "b", "c", "d"}
  LruCapacity = 2
  LfuKeys = {"a", "b", "c"}
  LfuCapacity = 2
  MaxFreq = 3
  StoreKeys = {1, 2}
  TTLs = {0, 1, 2}
  MaxVersion = 4
  MaxTime = 5
  RingNodes = {"a", "b", "c"}
  Points <- PointsCollide
  KeyHashes = {0, 1, 2, 3, 4, 5, 6, 7}
  HighestHash = 7
  HashKeys = {"a", "b", "c", "d", "e"}
  Hash <- FiveHashes
  SmallestTable = 4
  LaneKeys = {1, 2, 3, 4}
  HighestLane = 2
  MaxLSN = 3
  ShardHash <- OddAndEven
  Columns = {"c", "d"}
  MaxRows = 3
  DocIds = {1, 2}
  DocFields = {"f", "g"}
  TextIds = {1, 2}
  Terms = {"s", "t"}
  TrieWords <- FiveWords
  Letters = {1, 2}
  LongestWord = 3
  GraphIds = {1, 2, 3, 4, 5}
  Links <- TwoWays
  Queries <- FarAndNear
  FilterH1 <- FirstHashes
  FilterH2 <- SecondHashes
  FilterWord = 16
  BitSize = 11
  HashCount = 3
CHECK_DEADLOCK FALSE
INVARIANT ColumnsAligned
