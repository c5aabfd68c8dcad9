SPECIFICATION AuctionSpec
CONSTANTS
  a = a
  b = b
  x = x
  None = None
  Player <- ThreePlayers
  DestroysParties = FALSE
  CanCrash = FALSE
  c = c
  Item <- OneItem
  Immortal <- Gods
  Purse = 2
  Belongings <- Has
  Raise = 1
  Fee = 1
PROPERTY ReturnedAtReboot
