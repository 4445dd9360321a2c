SPECIFICATION PartsSpec
CONSTANTS
    Word = 32
    Pow40 = 3
    MinFine = 4
    MinCoarse = 2
    Amounts = {4}
    Recipients = {1}
    Byte = 4
    Cap = 8
    Spare = 1
    BlockSize = 2
    Messages <- TestMessages
    Base = 3
    MaxLen = 3
    DefaultLen = 2
    Bad = Bad
    Rows = {}
    Typos = {}
    User = {ann, bob}
    Phoneless = {bob}
    App = {mini, official}
    Timeout = 2
    MaxRefresh = 1
    Window = 1
    MaxTime = 5
    MaxKeys = 2
    MaxTokens = 3
CHECK_DEADLOCK FALSE
INVARIANTS
    TestEncode
