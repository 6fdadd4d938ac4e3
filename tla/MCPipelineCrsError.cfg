\* As MCPipeline.cfg: CRS may answer an error other than UNAVAILABLE, and
\* every DatePackage is still expected to be notified.
CONSTANTS
    vol = vol  rtt = rtt  mid = mid  short = short
    app1 = app1  app2 = app2  fluct = fluct  trend = trend  pred = pred
    None = None
    MetricSeq <- MCMetricSeq
    TermSeq <- MCTermSeq
    AppSeq <- MCAppSeq
    BranchesOf <- MCBranchesOf
    Interval = 1
    InitialLoad = 2
    MaxNow = 6
    CrsErrors = TRUE
    MaxUnavailable = 1
SPECIFICATION Spec
PROPERTY EveryWorkUnitNotified
