SPECIFICATION FairSpec
CONSTANTS
    Cash = Cash
    Sales = Sales
    Accounts <- MCAccounts
    NormalBalance <- MCNormalBalance
    LineLists <- MCLineLists
    Entries = {e1, e2}
    NoEntry = NoEntry
    Requests = {t1, t2}
INVARIANTS TypeOK NoLostChange PostedOnce 
PROPERTIES ImplementsLedger PostSettles
CHECK_DEADLOCK FALSE
