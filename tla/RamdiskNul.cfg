CONSTANTS
  Names = {a, b}
  Bytes = {x, NUL}
  NUL = NUL
  MaxDepth = 2
  MaxFiles = 1
  MaxWrite = 2
  INT_MAX = 3
  max_bytes = 3
  DIRECTORY_BYTES = 1
  BYTES_PER_BLOCK = 4
  NULL = NULL
SPECIFICATION Spec
PROPERTIES
  ImplementsFileSystem
