SPECIFICATION MCSpec
CONSTANTS
    tab1 = tab1
    tab2 = tab2
    sid1 = sid1
    sid2 = sid2
    acct = acct
    Tabs = {tab1, tab2}
    Sids = {sid1, sid2}
    NoSid = NoSid
    RaceLimit = 1
    MaxOps = 2
    MaxExpiries = 1
    MaxActs = 2
    Reply <- MCRepeatedReply
    Ends <- MCRepeatedEnds
    MaxStored = 3
    MaxChars = 4
    MinCollapse = 5
    Repeats = 2
    Headings = {"#"}
    Parts = {"chat"}
    Accounts = {acct}
    NewAcct = NewAcct
    NoAcct = NoAcct
    MaxTickets = 2
    MaxPages = 2
    MaxSlips = 1
    MaxIds = 2
    MaxCalls = 2
    MaxTextOps = 2
CHECK_DEADLOCK FALSE
INVARIANTS NothingLost
