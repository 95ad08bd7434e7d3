SPECIFICATION TitleSpec
CONSTANTS
    Transactions = {t1, t2, t3}
    N = 3
    Original <- MCOriginal
    SettledBefore = {1}
    CreditTotal = 2
    RequestKinds = {"settle", "settleIntegral", "reverse", "applyCredit"}
    Title = Title
    Credit = Credit
    Nothing = Nothing
    NoTx = NoTx
SYMMETRY Symmetry
INVARIANTS
    TitleTypeOK
    LockedRequestsAgree
CHECK_DEADLOCK FALSE
