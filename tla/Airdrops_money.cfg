SPECIFICATION MoneySpec
CONSTANTS
    alice = alice
    bob = bob
    ann = ann
    ann2 = ann2
    ben = ben
    pa = pa
    pb = pb
    Promoters = {pa, pb}
    NoWallet = NoWallet
    Subs = {1, 2}
    Wallets <- MCWallets
    Wallet <- MCWallet
    PromoterId <- MCPromoterId
    MainWallets <- MCMainWallets
    Referrer <- MCReferrer
    ChunkSize = 2
    MaxTx = 4
    ChunkTx = 3
    ChunkRefused = 0
    MaxFaults = 1
    MaxRefused = 1
    MaxReverts = 1
    Airdrop = {1}
    PageSize = 1
    MaxTokens = 1
    SetupTx = 3
    MaxEvicted = 1
    MaxChanges = 2
    GiveOut = {1, 2}
    Bonus = 50
    Pow = 4
    Pow40 = 2
    Part = 2
    Funding = {4, 12}
    MaxPayments = 3
    MaxEvents = 2
CHECK_DEADLOCK FALSE
INVARIANTS
    BookedHasCause
    RevertHasCause
