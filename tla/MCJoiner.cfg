CONSTANTS
    a = a
    b = b
    v1 = v1
    v2 = v2
    None = None
    Names <- MCNames
    Values <- MCValues
    MaxFeeds = 3
    RegisterOnce = TRUE
SPECIFICATION Spec
INVARIANT TypeOK
PROPERTY ZipJoinRefined
\* The join is a passive object: it stops when its callers stop feeding it.
CHECK_DEADLOCK FALSE
