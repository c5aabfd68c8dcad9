SPECIFICATION ClansSpec
CONSTANTS
  p1 = p1
  p2 = p2
  c1 = c1
  NULL = NULL
  Player <- TwoPlayers
  Clan <- OneClan
  Powers <- TwoPowers
  Purse = 0
  Price = 0
  Limit = 1
  MinFunds = 1
  Wages <- OneWage
  Rate = 1
  Taxes <- UpAndDown
  Crowd = 2
  Ceiling = 1
SYMMETRY Alike
INVARIANTS    FilesNameClans PowersInClan NobodyOwes
