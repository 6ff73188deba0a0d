CONSTANTS
  Machines = {"rc2014", "rc2014SB", "rc2014LL", "Llichen80"}
  RomLen = 1
  HalfLen = 2
  Image = 7
  Value = {1}
SPECIFICATION Spec
INVARIANTS TypeOK MapsFollowPorts
PROPERTY ImplementsPaged
