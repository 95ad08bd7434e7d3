SPECIFICATION Spec
CONSTANTS
    Tx = {t1, t2, t3, t4}
    n1 = n1
    n2 = n2
    p = p
    q = q
    Notes = {n1, n2}
    Products = {p, q}
    Lines <- MCLines
    Kinds = {"lancar", "excluir", "dispensar", "repor", "payable", "settle", "exit"}
    Freights = {"none", "paid"}
    StartStock = 1
    StartCost = 1
    Worth = 2
SYMMETRY Symmetry
INVARIANTS
    TypeOK
    EntriesMatchStock
    PayablesFollowEntries
PROPERTIES
    DeletionGivesBackCost
CHECK_DEADLOCK FALSE
