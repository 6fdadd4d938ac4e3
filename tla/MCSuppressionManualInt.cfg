\* The documented --manual_date {7233: {...}}: literal_eval gives an int
\* appID key, while suppression and the loaded state use the string key.
CONSTANTS
    Types <- MCTypes
    NoApp = NoApp
    None = None
    ManualDate <- ManualHighDay5
    ManualKey = "int"
    Unsuppress <- NoUnsuppress
    UnsuppressKey = "str"
    MaxDay = 5
    InitialLoad = 3
    WarmUp = 1
    MaxCrashes = 2
    GetStateErrors = FALSE
    SaveStateErrors = TRUE
    CreateErrors = FALSE
    DataVerdicts <- MCAllVerdicts
    FluctuationDM = "mid"
SPECIFICATION Spec
INVARIANT NoRenotifyHandled
