SPECIFICATION ResourcesSpec
SYMMETRY Symmetry
VIEW View
CONSTANTS
  t1 = t1
  t2 = t2
  Nothing = Nothing
  Thread <- MCThread
  KernelPages = 3
  UserPages = 1
  Desc <- MCDesc
  blocks_per_arena <- MCBlocks
  BigCounts = {2}
  PageCounts = {1}
  p1 = p1
  p2 = p2
  Loader <- MCLoader
  nobody = nobody
  PGSIZE = 2
  PTSIZE = 2
  PHYS_BASE = 8
  Width = 4
  Nil = Nil
  Setups <- MCSetups
  Lines <- MCLines
  MAX_ARGS = 4
  STACK_TOP = 64
  STACK_SIZE = 36
  Caller = {u1, u2}
  File = {f1, f2}
  Name = {a, b}
  NULL = NULL
  NoFile = NoFile
  MapSize = 3
  Length = 1
  Sizes = {1}
  Half = 4
  ELEM_BITS = 3
  TypeBits <- MCTypeBits
  BufSize = 8
  per_line = 4
  Arrays <- MCArrays
  Keys = {0, 1, 2, 3, 4}
  Memories <- MCMemories
  Copies <- FitCopies
  Buffers <- MCBuffers
  Bitmaps <- MCBitmaps
  Items <- MCItems
  Formats <- MCFormats
  e1 = e1
  e2 = e2
  e3 = e3
  e4 = e4
  Elem <- MCElem
  List <- MCTwoLists
  head <- MChead
  tail <- MCtail
  Key <- MCKey
  HashElem <- MCHashElem
  MIN_BUCKET_CNT = 2
  BEST_ELEMS_PER_BUCKET = 1
  NoElem = NoElem
INVARIANTS
  MemoryOwnedOnce LockOrder
  PagesGivenBack ImageRight ActivePagedir AssertionsHold
  FilesOwnedOnce DescriptorMeansFile
  ArgumentsRight FunctionsRight LinksMirror HashRight
PROPERTIES ListRefines
\* SYS_HALT, a panic and a stack without a page stop the machine, and a pure
\* function is called once.
CHECK_DEADLOCK FALSE
