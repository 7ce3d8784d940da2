SPECIFICATION Spec
CONSTANTS
    Requests = {q1, q2}
    Users = {founder, u2}
    Services = {}
    Founder = founder
    SessionIds = {s1, s2}
    KeyIds = {k1}
    CustomRoles = {}
    RoleGrants <- MCRoleGrants
    MaxAborts = 1
    None = None
SYMMETRY Interchangeable
INVARIANTS
    TypeOK
    AcceptedWereInForce
    OnlySparedSurvive
