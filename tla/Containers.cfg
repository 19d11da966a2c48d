SPECIFICATION ContainersSpec
CONSTANTS
    Texts <- MCTexts
    Letters <- MCLetters
    Comments = TRUE
    CallKeys <- MCKeys
    CallValues <- MCValues
    Other <- MCOther
    MaxCalls = 2
    Keys = {k1, k2, k3, k4, k5, k6}
    Values = {0, 1, 2, 3}
    Default = 0
    MaxSize = 6
SYMMETRY KeySymmetry
INVARIANTS ReadsDocuments TornReadFails OrderListsData RoundTrip ListTypeOK HelpersAgree FormatExpands
PROPERTIES ImplementsDictionary
CHECK_DEADLOCK FALSE
