CONSTANTS
    Types <- MCPredictionTypes
    NoApp = NoApp
    NaN = NaN
    None = None
    ManualDate <- MCNoManualDate
    ManualKey = "str"
    Unsuppress = {}
    UnsuppressKey = "str"
    MaxDay = 6
    InitialLoad = 4
    HistorySize = 2
    MaxCrashes = 1
    MaxLag = 3
    Variants = {"mid", "short"}
    MonthDay <- MCMonthDay
    DayData <- MCDayData
SPECIFICATION Spec
INVARIANTS
    PredictionMatchesForecast
