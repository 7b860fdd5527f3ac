\* Three maps in a row: the third meets what two earlier ones left behind.
CONSTANTS
    Documents <- MCDocuments
    Rows <- MCRows
    TypeOf <- MCTypeOf
    MaxMaps = 3
SPECIFICATION FairSpec
INVARIANTS
    TypeOK
    PinsPassTheFilter
    OnlyLateAnswersAreMissing
    SwitchFilters
    UnfilteredMapIsComplete
    PinnedOncePerMap
PROPERTIES
    MapFillsUp
