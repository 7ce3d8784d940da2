SPECIFICATION Spec
CONSTANTS
    Slots = {s1, s2}
    Definitions <- MCDefinitions
    Direct <- MCDirect
    DraftIds = {d1}
    Installable = {}
    BadKeys = {}
    SampleCap = 1
    UserTypes = {}
    MaxRecords = 0
    MaxCalls = 3
    MaxFaults = 0
    None = None
INVARIANT
    PublishedIsValid
