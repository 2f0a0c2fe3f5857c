CONSTANTS
  f1 = f1
  f2 = f2
  d1 = d1
  d2 = d2
  d3 = d3
  Files = {f1, f2}
  Descs = {d1, d2, d3}
  InodeOf <- Inodes
  p1 = p1
  p2 = p2
  Procs = {p1, p2}
  NDIRECT = 1
  BSIZE = 2
  MAXOPBLOCKS = 6
  NBLOCKS = 8
  BPB = 4
  Lens = {1, 4}
  MaxCalls = 3
  None = None
SPECIFICATION Spec
SYMMETRY Symmetry
CHECK_DEADLOCK FALSE
INVARIANTS
  BlocksOwned
  ReadsBack
  ChunkFits
