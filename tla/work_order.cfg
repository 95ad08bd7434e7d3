SPECIFICATION OrderSpec
CONSTANTS
    Transactions = {t1, t2, t3}
    Order = Order
    First = First
    i1 = i1
    i2 = i2
    Items = {i1, i2}
    Starts <- MCStarts
    Quantity <- MCQuantity
    FirstSold <- MCFirstSold
    Asks <- MCAsks
    RequestKinds = {"osToSale", "budgetToSale", "budgetToOs", "patch", "partial", "full", "estorno", "cancelOs"}
    Sequence = Sequence
    Absent = Absent
SYMMETRY Symmetry
INVARIANTS
    OrderTypeOK
    SerialRequestsAgree
    StatusFollowsLines
CHECK_DEADLOCK FALSE
