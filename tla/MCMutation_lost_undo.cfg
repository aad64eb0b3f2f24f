\* A crash between the rename and the mark, and an undo list.
CONSTANTS
  p1 = p1  p2 = p2  root = root  nested = nested  f = f  g = g  a = a  b = b
  Procs = {p1, p2}
  Scopes = {root}
  Targets = {f}
  Contents = {a, b}
  Absent = Absent
  Nobody = Nobody
  MaxEntries = 2
  MaxBytes = 3
  Size <- MCSize
  Kinds = {"mutate", "list"}
  MaxOps = 1
  Faults = {"crash"}
  MaxCalls = 3
  MaxEdits = 1
SPECIFICATION Spec
INVARIANTS AppliedStaysUndoable
SYMMETRY Symmetric
