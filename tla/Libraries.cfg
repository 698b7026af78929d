SPECIFICATION Spec
CONSTANTS
  Elems = {e1, e2, e3, e4}
  Heads = {h1, h2}
  Prio = {1, 2}
  NULL = NULL
  HASH_MINSIZE = 4
  MAXSIZE = 8
  ADDRESSES = {4, 20, 36, 39}
  VALUES = {7, 8}
  text <- MCText
  hfunc <- MCHfunc
  mem_heap = 36
  mem_heap_end = 256
  ULONG = 512
  MIN_LARGE_SIZE = 64
  DEFAULT_MXFAST = 20
  DEFAULT_TRIM_THRESHOLD = 128
  pagesize = 64
  Lengths = {0, 4, 16, 44, 200, 510}
  MaxBlocks = 4
  MaxCalls = 5
  WORD = 32
  PRINTF_BUFMAX = 2
  BUFMAX = 8
  RUNMAX = 98
  PAGE = 2
  NPTES = 4
  NPDES = 4
  FAR = 255
  AREA = 5
  TEXT = 5
  Letters <- MCLetters
  Dividends <- MCDividends
  Divisors <- MCDivisors
INVARIANTS LinksTyped OneQueueEach HighestFirstCome Counted EndsUnlessRefused BlocksAreWhole HeapIsConsistent RefusesOnlyWhenFull BestFit StringsConform NumbersConform PacketsConform MemoryConforms
PROPERTIES ImplementsQueue ImplementsMap
CHECK_DEADLOCK FALSE
