\* Restarts with a reliable GetState, SaveState and _CreateMessage errors,
\* and an --unsuppress flag keyed by the string appID (its int-keyed form is
\* MCSuppressionUnsuppressInt.cfg).
CONSTANTS
    Types <- MCTypes
    NoApp = NoApp
    None = None
    ManualDate <- NoManualDate
    ManualKey = "str"
    Unsuppress <- UnsuppressHighDay2
    UnsuppressKey = "str"
    MaxDay = 5
    InitialLoad = 3
    WarmUp = 1
    MaxCrashes = 2
    GetStateErrors = FALSE
    SaveStateErrors = TRUE
    CreateErrors = TRUE
    DataVerdicts <- MCAllVerdicts
    FluctuationDM = "mid"
SPECIFICATION Spec
INVARIANTS TypeOK NoRenotifyHandled FluctuationMemoryNonZero
PROPERTIES StoredNeverRegresses NotSuppressedBeforePersisted
