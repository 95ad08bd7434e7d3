SPECIFICATION BatchFairSpec
CONSTANTS
    Tx = {t1, t2, t3}
    batched = batched
    b1 = b1
    b2 = b2
    l1 = l1
    l2 = l2
    PlainProducts = {}
    BatchProducts = {batched}
    Batches = {b1, b2}
    Locations = {l1, l2}
    ProductOf <- MCProductOf
    Start <- MCStart
    Requests <- MCRequests
    NoRow = NoRow
    NoSlot = NoSlot
    NoTx = NoTx
    Clean = Clean
    NewQuantities = {2}
    MaxRewrites = 2
INVARIANTS
    DriftNeedsStaleRead
PROPERTIES
    EveryRequestEnds
CHECK_DEADLOCK FALSE
