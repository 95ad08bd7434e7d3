SPECIFICATION Spec
CONSTANTS
    Tx = {t1, t2}
    Launched = {i1}
    p1 = p1
    p2 = p2
    Products = {p1, p2}
    ProductOf <- MCProductOf
    Quantities = {1, 2}
    StartQuantity = 1
    Kinds = {"add", "update", "remove", "finalize", "cancelOs"}
    Sale = Sale
    Absent = Absent
    Unwritten = Unwritten
    NoTx = NoTx
SYMMETRY Symmetry
INVARIANTS
    CancelReturnsStock
CHECK_DEADLOCK FALSE
