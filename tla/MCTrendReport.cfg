CONSTANTS
    Types <- MCTrendTypes
    NoApp = NoApp
    ManualDate <- MCNoManualDate
    ManualKey = "str"
    Unsuppress = {}
    UnsuppressKey = "str"
    MaxDay = 6
    InitialLoad = 4
    WarmUp = 1
    MaxCrashes = 1
    MaxLag = 2
    Variants = {"mid", "short", "rtt"}
    ReportDays = {4}
    Bounds <- MCBounds
    RttBounds <- MCRttBounds
    DayData <- MCDayData
SPECIFICATION Spec
INVARIANTS
    TypeOK
    ImmediateOnlyAtTrendStart
    MonthlyUnanimous
    TrendNotReannounced
    TrendWindowsConsecutive
