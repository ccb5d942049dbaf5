SPECIFICATION Spec
CONSTANTS
  Threads = {1, 2, 3}
  Names = {"a", "b"}
  HiddenNames = {"h1", "h2"}
  MaxNode = 6
  MaxObj = 6
  MaxRequests = 4
  Operations = {"getattr", "rename"}
  RenamesDirs = TRUE
  NULL = "NULL"
INVARIANTS NotStuck
