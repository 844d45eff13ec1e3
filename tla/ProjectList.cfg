SPECIFICATION Spec
CONSTANTS
  c1 = c1
  NoSize = NoSize
  Client = {c1}
  MaxKey = 4
  DefaultPageSize = 1
  MaxPageSize = 2
  AskedSize <- MCAskedSize
  MaxFaults = 1
INVARIANTS TypeOK WalkIsComplete NoRepeats TokenMeansMore
PROPERTIES ImplementsWalk
