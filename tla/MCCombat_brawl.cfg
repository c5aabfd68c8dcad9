SPECIFICATION Spec
CONSTANTS
  p1 = p1
  n1 = n1
  n2 = n2
  street = street
  alley = alley
  refuge = refuge
  home = home
  Nowhere = Nowhere
  NoOne = NoOne
  Player <- OnePlayer
  Npc <- TwoNpcs
  Room <- TwoRooms
  Safe <- Nobody
  Home <- Nobody
  Stray = alley
  Trait <- Various
  MaxFight = 1
  Between <- Rescues
INVARIANT CursorInWorld
PROPERTIES EveryoneTurns 
