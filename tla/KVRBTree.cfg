\* Trees of up to ten nodes: deletions whose repainting climbs to the root; sets
\* of key 1 may find no memory.
SPECIFICATION Spec
CONSTANTS
  Keys = {1, 2, 3, 4, 5, 6, 7, 8, 9, 10}
  v1 = v1
  v2 = v2
  Values = {v1, v2}
  Sets <- MCSets
  ShortKeys = {1}
  Nodes = {1, 2, 3, 4, 5, 6, 7, 8, 9, 10}
  Malloc <- LowestFree
  nil = nil
  NULL = NULL
VIEW Contents
INVARIANTS TypeOK SearchOrder PointersAgree RedBlack
PROPERTY ImplementsMap
