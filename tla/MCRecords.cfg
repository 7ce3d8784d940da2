SPECIFICATION AgentsSpec
CONSTANTS
    Clients = {c1}
    Proposals <- MCProposals
    enable_agent_action_execution = TRUE
    Requests = {q1, q2}
    Ids = {r1, r2}
    clerk = clerk
    boss = boss
    v1 = v1
    v2 = v2
    Actors <- MCActors
    Values = {v1, v2}
    Plain = {"note"}
    Restricted = {"salary"}
    Required = {"note"}
    Default <- MCDefault
    Grants <- MCGrants
    enable_advanced_permissions = TRUE
    Patches <- MCPatches
    MaxRows = 4
    Null = Null
    Missing = Missing
    None = None
SYMMETRY Interchangeable
INVARIANTS
    LogReplays
    RequiredFieldsPresent
    EveryUpdateAuthorised
PROPERTIES
    PlansComeTrue
    RestrictedChangedByPermitted
