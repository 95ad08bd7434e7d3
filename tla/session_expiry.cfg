SPECIFICATION FairSpec
CONSTANTS
    Processes = {p1, p2}
    Tx = {t1}
    Guards = {g1}
    Old = Old
    First = First
    Member = Member
    Clients = {c1}
    Unknown = Unknown
    FirstClient = c1
    Kinds = {"logout", "reset", "deactivate"}
    MaxCrashes = 0
PROPERTIES
    RevocationReachesCaches
CHECK_DEADLOCK FALSE
