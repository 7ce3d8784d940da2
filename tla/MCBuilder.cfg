SPECIFICATION Spec
CONSTANTS
    Slots = {s1, s2}
    Definitions <- MCDefinitions
    Direct <- MCDirect
    DraftIds = {d1, d2}
    Installable = {"finance"}
    BadKeys = {}
    SampleCap = 1
    UserTypes = {"asset"}
    MaxRecords = 1
    MaxCalls = 3
    MaxFaults = 1
    None = None
SYMMETRY Interchangeable
INVARIANTS
    ReferencesResolve
    WorkflowsOfTypesExist
    ValidatedStaysValid
    MarksAreComplete
    GatesHaveApprovers
PROPERTIES
    ReportsAreComplete
    InstallDoesWhatThePlanSays
