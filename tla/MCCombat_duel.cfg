SPECIFICATION Spec
CONSTANTS
  p1 = p1
  n1 = n1
  n2 = n2
  street = street
  alley = alley
  refuge = refuge
  home = home
  Nowhere = Nowhere
  NoOne = NoOne
  Player <- OnePlayer
  Npc <- OneNpc
  Room <- Refuge
  Safe <- SafeRefuge
  Home <- AtHome
  Stray = refuge
  Trait <- Magic
  MaxFight = 1
  Between <- Everything
INVARIANTS FightingPosition FoeInWorld
