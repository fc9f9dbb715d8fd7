SPECIFICATION Spec
CONSTANTS
    Keys = {k1, k2}
    NoKey = NoKey
    Flows = {f1, f2}
    None = None
SYMMETRY Symmetry
INVARIANTS
    TypeOK
    AmountHasItsButton
    BalanceHasItsButton
PROPERTY
    OldKeyStaysAway
