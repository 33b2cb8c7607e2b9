SPECIFICATION Spec
CONSTANTS
  Heads = {h1, h2}
  Elems = {e1, e2, e3, e4}
  NULL = NULL
  Garbage = Garbage
INVARIANTS
  ListInv
  LoopVisitsAll
