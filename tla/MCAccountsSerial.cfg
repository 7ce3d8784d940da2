SPECIFICATION FairSpec
CONSTANTS
    Requests = {q1}
    Users = {founder, u2}
    Services = {sa}
    Founder = founder
    SessionIds = {s1}
    KeyIds = {k1, k2}
    CustomRoles = {r1}
    RoleGrants <- MCRoleGrants
    MaxAborts = 0
    None = None
INVARIANTS
    DisabledHasNoSessions
    AUserManagerRemains
PROPERTIES
    SessionsAreDeleted
