\* The equality of balance, locked_amount and supply that state.rs states.
SPECIFICATION Spec
CONSTANTS
    Users = {alice, bob, carol}
    NoAccount = NoAccount
    MaxU64 = 6
    Amounts = {0, 1, 2}
    Endowment <- MCEndowment
SYMMETRY MCSymmetry
INVARIANTS
    BackingEquality
