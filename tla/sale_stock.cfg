SPECIFICATION Spec
CONSTANTS
    Tx = {t1, t2, t3}
    Launched = {i1}
    p1 = p1
    p2 = p2
    Products = {p1, p2}
    ProductOf <- MCProductOf
    Quantities = {1, 2}
    StartQuantity = 1
    Kinds = {"add", "update", "remove", "recalculate", "finalize", "cancel", "cancelOs"}
    Sale = Sale
    Absent = Absent
    Unwritten = Unwritten
    NoTx = NoTx
SYMMETRY Symmetry
INVARIANTS
    TypeOK
    ExitsRecordedOnce
    FinalizedIsPaidOnce
    SerialRequestsKeepSale
CHECK_DEADLOCK FALSE
