SPECIFICATION Spec
CONSTANTS
    Processes = {p1}
    Tx = {t1, t2}
    Guards = {g1}
    Old = Old
    First = First
    Member = Member
    Clients = {c1}
    Unknown = Unknown
    FirstClient = c1
    Kinds = {"login", "refresh", "logout", "switch", "reset", "deactivate"}
    MaxCrashes = 1
SYMMETRY Symmetry
INVARIANTS
    TypeOK
    StaleEntryNeedsRace
    OneHeirUnlessRace
    ReuseEndsOlderSessions
CHECK_DEADLOCK FALSE
