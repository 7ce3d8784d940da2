SPECIFICATION Spec
CONSTANTS
    Requests = {q1}
    Templates = {t1, t2}
    MaxCalls = 6
    MaxAborts = 1
    None = None
INVARIANTS
    UpdatesAreAudited
    TypeOK
    StatusTellsTarget
    ReportIsCurrent
PROPERTIES
    ActivatingKeepsReported
