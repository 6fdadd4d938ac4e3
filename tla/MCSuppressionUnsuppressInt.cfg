\* The documented --unsuppress {7233: {...}}: literal_eval gives an int
\* appID key, while _check_unsuppress looks the string key up.
CONSTANTS
    Types <- MCTypes
    NoApp = NoApp
    None = None
    ManualDate <- NoManualDate
    ManualKey = "str"
    Unsuppress <- UnsuppressHighDay2
    UnsuppressKey = "int"
    MaxDay = 5
    InitialLoad = 3
    WarmUp = 1
    MaxCrashes = 2
    GetStateErrors = FALSE
    SaveStateErrors = TRUE
    CreateErrors = FALSE
    DataVerdicts <- MCAllVerdicts
    FluctuationDM = "mid"
SPECIFICATION Spec
PROPERTY UnsuppressHonoured
