CONSTANTS
  Procs = {p1, p2, p3}
  Blocks = {b1, b2, b3, b4}
  NoBlk = NoBlk
  Cap = 2
SPECIFICATION Spec
SYMMETRY Symmetry
INVARIANTS BlocksAccounted FlockHeld
PROPERTY ImplementsFreeSet
