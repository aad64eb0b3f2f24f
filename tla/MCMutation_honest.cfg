\* Calls of two files, under every fault but changes by others.
CONSTANTS
  p1 = p1  p2 = p2  root = root  nested = nested  f = f  g = g  a = a  b = b
  Procs = {p1, p2}
  Scopes = {root}
  Targets = {f, g}
  Contents = {a, b}
  Absent = Absent
  Nobody = Nobody
  MaxEntries = 2
  MaxBytes = 4
  Size <- MCSize
  Kinds = {"mutate", "restore", "clear", "list"}
  MaxOps = 2
  Faults = {"crash", "io", "sync", "save", "torn_save", "torn_clear", "blob"}
  MaxCalls = 2
  MaxEdits = 0
SPECIFICATION Spec
INVARIANTS SettledHonest NoOrphanBlobs PartialReportHonest
SYMMETRY Symmetric
