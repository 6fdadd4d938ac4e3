\* A start at which GetState fails: _get_dates_from_state returns {}.
CONSTANTS
    Types <- MCTypes
    NoApp = NoApp
    None = None
    ManualDate <- NoManualDate
    ManualKey = "str"
    Unsuppress <- UnsuppressHighDay2
    UnsuppressKey = "str"
    MaxDay = 5
    InitialLoad = 3
    WarmUp = 1
    MaxCrashes = 2
    GetStateErrors = TRUE
    SaveStateErrors = TRUE
    CreateErrors = FALSE
    DataVerdicts <- MCAllVerdicts
    FluctuationDM = "mid"
SPECIFICATION Spec
INVARIANT NoRenotifyHandled
