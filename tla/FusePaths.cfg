SPECIFICATION Spec
CONSTANTS
  Threads = {1, 2, 3}
  Names = {"a", "b"}
  HiddenNames = {"h1", "h2"}
  MaxNode = 6
  MaxObj = 6
  MaxRequests = 3
  Operations = {"lookup", "create", "open", "release", "unlink", "rmdir", "rename", "link", "forget"}
  RenamesDirs = FALSE
  NULL = "NULL"
INVARIANTS PathsHold LocksMatch NodesCounted HiddenGone NotStuck
