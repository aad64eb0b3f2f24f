\* A plan with a cwd writes a file the root engine writes too.
CONSTANTS
  p1 = p1  p2 = p2  root = root  nested = nested  f = f  g = g  a = a  b = b
  Procs = {p1, p2}
  Scopes = {root, nested}
  Targets = {f}
  Contents = {a, b}
  Absent = Absent
  Nobody = Nobody
  MaxEntries = 2
  MaxBytes = 3
  Size <- MCSize
  Kinds = {"mutate", "list"}
  MaxOps = 1
  Faults = {}
  MaxCalls = 2
  MaxEdits = 1
SPECIFICATION Spec
INVARIANTS ReplacesWhatItChecked
SYMMETRY Symmetric
