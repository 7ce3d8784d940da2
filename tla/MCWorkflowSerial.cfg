SPECIFICATION Spec
CONSTANTS
    ann = ann
    bob = bob
    Requests = {q1}
    Actors = {ann, bob}
    Exempt = {}
    Granted <- MCGranted
    SeparationOfDuties = TRUE
    Records = {r1}
    States <- MCStates
    Keys <- MCKeys
    Definitions <- MCDefinitions
    Resources <- MCResources
    ObjectResource = "object:invoice"
    ApprovalIds = {p1, p2}
    TaskIds = {t1, t2}
    None = None
    NoRecord = NoRecord
    MaxAudit = 6
INVARIANTS
    ApprovedExactlyWhenMoved
    TaskMirrorsDecision
    AuditChains
PROPERTIES
    KeepsPromise
