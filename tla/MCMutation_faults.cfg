\* One file, every fault that leaves the history store whole.
CONSTANTS
  p1 = p1  p2 = p2  root = root  nested = nested  f = f  g = g  a = a  b = b
  Procs = {p1, p2}
  Scopes = {root}
  Targets = {f}
  Contents = {a, b}
  Absent = Absent
  Nobody = Nobody
  MaxEntries = 2
  MaxBytes = 3
  Size <- MCSize
  Kinds = {"mutate", "restore", "clear", "list"}
  MaxOps = 1
  Faults = {"edit", "crash", "io", "sync", "save", "blob"}
  MaxCalls = 3
  MaxEdits = 1
SPECIFICATION Spec
INVARIANTS TypeOK ReplacesWhatItChecked OwnEntryKept BlobBacked SettledHonest
PROPERTIES UncertainIsSticky KeepsUndoLog
SYMMETRY Symmetric
