\* Liveness of the pipeline: two days of live runs after an initial load of
\* two days; CRS answers, possibly after one UNAVAILABLE answer per call.
CONSTANTS
    vol = vol  rtt = rtt  mid = mid  short = short
    app1 = app1  app2 = app2  fluct = fluct  trend = trend  pred = pred
    None = None
    MetricSeq <- MCMetricSeq
    TermSeq <- MCTermSeq
    AppSeq <- MCAppSeq
    BranchesOf <- MCBranchesOf
    Interval = 1
    InitialLoad = 2
    MaxNow = 6
    CrsErrors = FALSE
    MaxUnavailable = 1
SPECIFICATION Spec
PROPERTY EveryWorkUnitNotified
