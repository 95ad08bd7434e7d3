SPECIFICATION Spec
CONSTANTS
    Tx = {t1, t2, t3}
    Used = 2
    Outside = {x1}
    Numbers = {2, 3, 4}
    MAX_ATTEMPTS = 2
SYMMETRY Symmetry
INVARIANTS
    TypeOK
    NumbersCollideOnlyByHand
    CounterCoversCodes
    AutomaticNumbersAreFound
    VoidedNotesAreClosed
    DeadlockNeedsMemberPatch
CHECK_DEADLOCK FALSE
