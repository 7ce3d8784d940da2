SPECIFICATION Spec
CONSTANTS
    ann = ann
    bob = bob
    Requests = {q1, q2}
    Actors = {ann, bob}
    Exempt = {}
    Granted <- MCGranted
    SeparationOfDuties = TRUE
    Records = {r1}
    States <- MCStates
    Keys <- MCKeys
    Definitions <- MCDefinitions
    Resources <- MCResources
    ObjectResource = "object:invoice"
    ApprovalIds = {p1, p2, p3}
    TaskIds = {t1, t2, t3}
    None = None
    NoRecord = NoRecord
    MaxAudit = 5
SYMMETRY RowSymmetry
INVARIANTS
    TypeOK
    TrailsAgree
    EveryMoveAuthorised
    LastDecisionStands
    ApprovalsHaveTheirTask
