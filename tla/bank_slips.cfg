SPECIFICATION Spec
CONSTANTS
    Tx = {t1, t2, t3}
    Sales = {s1, s2}
    Kinds = {"bill", "boleto", "remit", "report", "settle"}
    Channels = {"API", "CNAB", "none"}
    Foreign = {2}
    Value = 2
    Dates = {1}
    MaxPayments = 1
SYMMETRY Symmetry
INVARIANTS
    TypeOK
    PaymentsReachTheirPlan
    SalesBilledOnce
    PaymentsSettledOnce
    RejectedIsNotRegistered
CHECK_DEADLOCK FALSE
