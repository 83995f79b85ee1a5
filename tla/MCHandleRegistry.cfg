\* Three wallets: one can afford a claim with a gift or a transfer to spare,
\* one exactly a claim, one only a gift; two good names and five ill-formed
\* ones.  Gifts reach one good name's address and two wallets' reverse ones.  When all
\* lamports have been sent away nothing is left to do: the system may stop.
SPECIFICATION Spec
CONSTANTS
    a = a
    b = b
    c = c
    Wallets = {a, b, c}
    Names <- MCNames
    Funds <- MCFunds
    NoAccount = NoAccount
    MinLen = 3
    MaxLen = 20
    Deposit = 2
    HandleRent = 3
    ReverseRent = 2
    Gifts = {1}
    GiftedNames <- MCGiftedNames
    GiftedWallets = {a, b}
INVARIANTS
    TypeOK
    ForwardMatchesReverse
    OwnedIsFunded
PROPERTIES
    LossesAreGifts
    ImplementsDirectory
CHECK_DEADLOCK FALSE
