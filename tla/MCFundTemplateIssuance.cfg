SPECIFICATION Spec
CONSTANTS
    Assets = {A, B}
    Amounts <- AmountsTo2
    MaxU64 = 2
    MaxInputs = 1
    MaxOutputs = 2
SYMMETRY AssetSymmetry
INVARIANT
    HiddenIssuanceRefused
