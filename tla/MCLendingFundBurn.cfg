SPECIFICATION Spec
CONSTANTS
    LBTC = LBTC
    USDT = USDT
    TB = TB
    TL = TL
    Assets <- MCAssets
    PolicyAsset = LBTC
    Tokens <- MCTokens
    MaxU64 = 3
    Heights <- MCHeights
    OfferRows = {q1, q2, halfzero, zero}
    ZeroTermRows = {halfzero, zero}
    ZeroRow = zero
    MAX_LIST = 2
    CANCEL_FEE_MAX = 1
    CLAIM_FEE_MAX = 2
    Claims <- Exercises
    MaxChanges <- MCChanges
INVARIANTS
    FullBuybackBurns
