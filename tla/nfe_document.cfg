SPECIFICATION Spec
CONSTANTS
    Tx = {t1, t2, t3, t4}
    Kinds = {"edit", "sign", "authorize", "cancel", "correct", "inutilize", "range"}
    Contents = {good, other, bad, denied}
    Nfce = {other, bad}
    LastDate = 1
    Accepted = {good, other}
    Refused = {denied}
    Draft = good
    MaxLetters = 2
SYMMETRY Symmetry
INVARIANTS
    TypeOK
    AuthorityConfirmsStatus
    FreeSaleHasNoInvoice
    LostAnswerKeepsInvoice
PROPERTIES
    ClosedStaysClosed
CHECK_DEADLOCK FALSE
