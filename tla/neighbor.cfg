SPECIFICATION Spec
CONSTANTS
  n1 = n1
  n2 = n2
  here = here
  there = there
  NoPlace = NoPlace
  Nodes <- MCNodes
  Places = {here, there}
  Near <- MCNear
  Depth = 2
  MaxDelay = 3
  MaxMoves = 2
INVARIANTS TypeOK PositionsAreTheLast FreshWhileInRange
PROPERTY NoBeaconOnceStopped
SYMMETRY MCSymmetry
