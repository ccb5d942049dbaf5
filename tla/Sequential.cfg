CONSTANTS
  Nodes = {n1, n2, n3}
  Threads = {t1, t2, t3}
  NULL = NULL
  Chars = {a, c}
  NL = NL
  Close = c
  MaxSent = 6
  MaxRecv = 4
  Large = {"WRITE", "NOTIFY_REPLY", "SETXATTR", "SYMLINK", "IOCTL", "BATCH_FORGET"}
  Programs <- AllPrograms
  Owners = {p, q}
  OFFSET_MAX = 3
  SrcSizes = {1, 3}
  DstSizes = {0, 1, 3}
  MaxCount = 2
  TmpSize = 2
SPECIFICATION SeqSpec
INVARIANTS
  LinesKept
  AnsweredOnce
  
  KernelKnows
  
  RightsInOrder
  LocksPerByte
  CopiedInOrder
PROPERTIES
  ImplementsFifo
CHECK_DEADLOCK FALSE
