SPECIFICATION FairSpec
CONSTANTS
  old = old
  new = new
  cli = cli
  NoProc = NoProc
  Proc <- MCProc
  Cli = {cli}
  Latest <- MCLatest
  MaxVersion = 2
  MaxFaults = 1
INVARIANTS TypeOK AppliedOnce CleanIsComplete
PROPERTIES HalfWayFreezes UpEnds ImplementsUpgrade
