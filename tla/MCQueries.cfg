SPECIFICATION Spec
CONSTANTS
    Clients = {c1}
    Slots = {q1, q2}
    boss = boss
    clerk = clerk
    Actors = {boss, clerk}
    ReadGrants <- MCReadGrants
    Amounts = {1, 2}
    Kinds = {"a", "b"}
    Null = Null
    Absent = Absent
    None = None
    RelationTypes = {"r"}
    Given <- MCGiven
    Filters <- MCFilters
    Limits <- MCLimits
    MAX_SCAN = 3
    MaxLimit = 2
    MaxRows = 4
    MaxChanges = 2
SYMMETRY SlotsInterchangeable
INVARIANTS
    WalkMissesNothing
    ListsAreOrdered
    ReportsMatchLists
    RelationsShowOnce
