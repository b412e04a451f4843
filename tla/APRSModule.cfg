\* Three stations, two of them one to APRS; users go stale before reports are due again.
SPECIFICATION APRSFairSpec
CONSTANTS
  c1 = c1
  c2 = c2
  c3 = c3
  n1 = n1
  n2 = n2
  Callsigns = {c1, c2, c3}
  Names = {n1, n2}
  aprsCallsign <- MCAprsCallsign
  Nobody = Nobody
  StaleTimeout = 1
  ReportPeriod = 2
INVARIANTS FilterCoversUsers
PROPERTIES PositionRate UserReached
