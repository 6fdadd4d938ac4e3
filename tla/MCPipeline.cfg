\* Safety of the pipeline: two days of live runs after an initial load of
\* two days, CRS answering, answering UNAVAILABLE once in a row, or failing.
CONSTANTS
    vol = vol  rtt = rtt  mid = mid  short = short
    app1 = app1  app2 = app2  fluct = fluct  trend = trend  pred = pred
    None = None
    MetricSeq <- MCMetricSeq
    TermSeq <- MCTermSeq
    AppSeq <- MCAppSeq
    BranchesOf <- MCBranchesOf
    Interval = 1
    InitialLoad = 2
    MaxNow = 6
    CrsErrors = TRUE
    MaxUnavailable = 1
SPECIFICATION Spec
INVARIANTS TypeOK NotifiedMatchesWorkUnits JoinsDrainedBetweenPackages DrainedOnStop
           SchedContiguousCoverage SchedNoFutureWorkUnit
           SendCallMatchesReference
