SPECIFICATION Spec
CONSTANTS
  f1 = f1
  f2 = f2
  f3 = f3
  f4 = f4
  n1 = n1
  n2 = n2
  n3 = n3
  n4 = n4
  a = a
  b = b
  long = long
  None = None
  Field <- FourFields
  Node <- FourNodes
  Text <- ThreeTexts
  Len <- Lengths
  HashSize = 2
  LenWidth = 4
  MaxLinks = 3
INVARIANT LinksAreHolders
PROPERTY OwnSpec
CHECK_DEADLOCK FALSE
