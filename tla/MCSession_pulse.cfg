SPECIFICATION FairSpec
CONSTANTS
  d1 = d1  d2 = d2  d3 = d3  p1 = p1  p2 = p2  p3 = p3  m1 = m1
  alice = alice  bob = bob  carol = carol
  NULL = NULL
  Desc <- Desc2
  PC <- PC2
  Mob <- OneMob
  Name <- OneName
  Existing <- Nobody
  MaxRev = 1
  Commands <- Staff
INVARIANT DescriptorsAgree
PROPERTIES EveryoneServed ExtractedFreed
