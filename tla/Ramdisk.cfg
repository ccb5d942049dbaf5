CONSTANTS
  Names = {a, b}
  Bytes = {x, y}
  NUL = NUL
  MaxDepth = 2
  MaxFiles = 3
  MaxWrite = 2
  INT_MAX = 3
  max_bytes = 3
  DIRECTORY_BYTES = 2
  BYTES_PER_BLOCK = 4
  NULL = NULL
SPECIFICATION Spec
SYMMETRY Symmetry
INVARIANTS
  Accounting
PROPERTIES
  ImplementsFileSystem
