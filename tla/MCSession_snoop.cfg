SPECIFICATION Spec
CONSTANTS
  d1 = d1  d2 = d2  d3 = d3  p1 = p1  p2 = p2  p3 = p3  m1 = m1
  alice = alice  bob = bob  carol = carol
  NULL = NULL
  Desc <- Desc3
  PC <- PC3
  Mob <- NoMob
  Name <- ThreeNames
  Existing <- ThreeNames
  MaxRev = 1
  Commands <- Gossip
INVARIANT NoSnoopLoop
SYMMETRY CellsAndNames
