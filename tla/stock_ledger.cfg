SPECIFICATION Spec
CONSTANTS
    Tx = {t1, t2, t3}
    plain = plain
    batched = batched
    b1 = b1
    b2 = b2
    l1 = l1
    l2 = l2
    PlainProducts = {plain}
    BatchProducts = {batched}
    Batches = {b1, b2}
    Locations = {l1, l2}
    ProductOf <- MCProductOf
    Start <- MCStart
    Requests <- MCRequests
    NoRow = NoRow
    NoSlot = NoSlot
    NoTx = NoTx
    Clean = Clean
SYMMETRY Symmetry
INVARIANTS
    TypeOK
    LedgerAccountsForBalance
    BatchRowsMatchTotal
PROPERTIES
    AppliedWholeAndInOrder
CHECK_DEADLOCK FALSE
