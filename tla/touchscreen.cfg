CONSTANTS
  Samples <- Places
  ERR_LIMIT = 10
SPECIFICATION FairSpec
INVARIANT ReleaseComing
INVARIANT MeasureEnds
INVARIANT NoOutlier
INVARIANT PointsWhole
PROPERTY StillPenReported
PROPERTY ReleaseReported
PROPERTY LongPressMeasured
