SPECIFICATION FairSpec
CONSTANTS
  k1 = k1
  k2 = k2
  k3 = k3
  Keys = {k1, k2, k3}
  OwnPool = {k1, k2}
  Principal <- OneAtom
  Fees = {0, 1}
  Surplus = 1
  DueDates = {1}
  Grace = 1
  KeeperGrace = 1
  Skews <- Drift
  MaxAssets = 2
  MaxTime = 3
INVARIANTS
  KeeperTypeOK
  ReportedIsLiquidated
PROPERTY OverdueGetClosed
CHECK_DEADLOCK FALSE
