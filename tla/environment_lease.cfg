SPECIFICATION FairSpec
CONSTANTS
  Generations = {g1, g2}
  Containers = {k1, k2}
  Changers = {c1, c2}
  Holders = {h1}
  Tasks = {t1, t2}
  MaxLives = 3
  None = none
INVARIANTS
  NoStragglers
  OneGeneration
PROPERTIES
  FailClosed
  ChangeEnds
  ContractSpec
