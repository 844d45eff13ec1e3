SPECIFICATION FairSpec
CONSTANTS
  l1 = l1
  l2 = l2
  probe = probe
  health = health
  Req <- MCReq
  Kind <- MCKind
  MaxConns = 2
  MaxFaults = 2
INVARIANTS TypeOK ConnectionsComeBack DrainsBeforeClosing
PROPERTIES RequestsEnd SignalEnds HealthWithoutDatabase ImplementsGracefulStop
CHECK_DEADLOCK FALSE
