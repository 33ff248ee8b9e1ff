CONSTANTS
  Experiments = {"E1", "E2", "E7"}
  Runs = {r1, r2}
  r1 = r1
  r2 = r2
  Count = 2
  Windows = 2
  Calls = 2
  Configs = {c1, c2}
  c1 = c1
  c2 = c2
  NoConfig = NoConfig
  MaxTrouble = 1
  Whole = {"E2"}
  MaxFollowers = 1
SPECIFICATION Spec
SYMMETRY Alike
INVARIANTS
  EvidenceBound
  LossBounded
PROPERTIES
  NeverAskedAgain
