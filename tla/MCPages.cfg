SPECIFICATION MCSpec
CONSTANTS
    tab1 = tab1
    tab2 = tab2
    sid1 = sid1
    sid2 = sid2
    acct = acct
    Tabs = {tab1, tab2}
    Sids = {sid1, sid2}
    NoSid = NoSid
    RaceLimit = 1
    MaxOps = 2
    MaxExpiries = 1
    MaxActs = 2
    Reply <- MCReply
    Ends <- MCEnds
    MaxStored = 3
    MaxChars = 4
    MinCollapse = 5
    Repeats = 2
    Headings = {"#"}
    Parts = {"chat", "test"}
    Accounts = {acct}
    NewAcct = NewAcct
    NoAcct = NoAcct
    MaxTickets = 2
    MaxPages = 2
    MaxSlips = 1
    MaxIds = 2
    MaxCalls = 2
    MaxTextOps = 2
INVARIANTS
    ChatTypeOK NothingLost GeneratingExactly AllFinal StoredMatches
    NoForgottenAttempt PendingWatched OneRelay
PROPERTIES FinalStable
CHECK_DEADLOCK FALSE
