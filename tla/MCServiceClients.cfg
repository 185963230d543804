SPECIFICATION ClientSpec
CONSTANTS
    w1 = w1
    w2 = w2
    s1 = s1
    Wallets = {w1, w2}
    ShortIds = {s1}
    short_wallet_id <- MCShort
    Channels = {mail, phone}
    Contacts = {ann}
    Settings <- MCSettings
    Codes = {code}
    Quotes <- MCQuotes
    NetworkFees = {0, 1, 2, 5, 9}
    Precision = 3
    MaxU64 = 31
    MaxCalls = 2
    None = None
CHECK_DEADLOCK FALSE
INVARIANTS OkMeansDone ShownIdIsMine SettingIsLatest
