CONSTANTS
  Threads = {t1, t2}
  MaxWrite = 2
  max_bytes = 3
SPECIFICATION Spec
INVARIANTS
  WithinCapacity
