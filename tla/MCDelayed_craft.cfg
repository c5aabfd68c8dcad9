SPECIFICATION Spec
CONSTANTS
  p1 = p1
  p2 = p2
  p3 = p3
  c1 = c1
  None = None
  Player <- ThreePlayers
  Clan <- OneClan
  Start <- Scenes
  Purse = 2
  Price = 2
  AppCost = 1
  Share = 2
  Cut = 2
  Mana = 2
  Participants = 2
  MaxPets = 3
  MaxSnippets = 2
  MaxFabric = 1
INVARIANTS BufferBelongsToJob NotOverdrawn
PROPERTIES CreditsNeverGrow NothingFromNothing 
CHECK_DEADLOCK FALSE
