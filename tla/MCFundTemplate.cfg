SPECIFICATION Spec
CONSTANTS
    Assets = {A, B}
    Amounts <- AmountsTo2
    MaxU64 = 2
    MaxInputs = 2
    MaxOutputs = 2
SYMMETRY AssetSymmetry
INVARIANTS
    TypeOK
    AsksExactlyAmount
    FeeIsWhatIsPaid
    OwnedListedOnce
