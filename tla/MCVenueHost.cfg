SPECIFICATION HostSpec
CONSTANTS
    Ids = {i1}
    a = a
    NUL = NUL
    Chars = {a}
    Domains <- MCDomains
    Texts <- MCTexts
    Terms = {t1}
    Caps = {c1}
    Products = {RF, other}
    PRODUCT = RF
    good = good
    good_ct = good_ct
    bad = bad
    s1 = s1
    Addresses <- MCAddresses
    Scripts = {s1}
    ScriptOf <- MCScriptOf
    Keys = {pk, pk2}
    MyKey = pk
    Psets <- MCPsets
    MessagePsets <- MCMessagePsets
    ExpectedDest = good
    None = None
CHECK_DEADLOCK FALSE
INVARIANTS AnswersVerify  ShownIsSigned OnlyMyAccount SpendIsComplete
