SPECIFICATION WalkSpec
CONSTANTS
  p1 = p1  p2 = p2  m1 = m1  m2 = m2  r1 = r1  r2 = r2
  None = None
  Player <- TwoPlayers
  Npc <- OneNpc
  Room <- TwoRooms
  Home = r1
  Exit <- Maze
  Drunk <- OneDrunk
INVARIANTS NoFollowLoop FollowedInWorld PassOnce
