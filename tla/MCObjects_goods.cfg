SPECIFICATION Spec
CONSTANTS
  p1 = p1  p2 = p2  c1 = c1  c2 = c2  c3 = c3  c4 = c4
  Player = {p1, p2}
  Cell = {c1, c2, c3, c4}
  Good <- MCGood
  Bag = {"bag"}
  Magic = {"buckler"}
  SlotOf <- MCSlot
  Bonus <- MCBonus
  WeightOf <- MCWeight
  Holds = 3
  Lift = 1
  CarryN = 2
  CarryW = 3
  MaxGoods = 3
SYMMETRY Symmetry
INVARIANTS WellPlaced CountsAgree StrengthAgrees SaveChangesNothing CursorLive
 
