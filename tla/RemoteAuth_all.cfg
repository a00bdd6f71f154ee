CONSTANTS
    Texts = {t1, t2}
    Msgs = {m1}
    Wipes = {m1}
    Numbers <- MCNumbers
    Lists <- MCLists
    MatchDigits = 2
    Skew = 0
    MaxTime = 2
    MaxRenewals = 1
    MaxSaves = 1
    MaxDeaths = 1
    Nil = none
SPECIFICATION AuthSpec
INVARIANTS AcceptedCodesWereGood CodesBuyCommands ListIsCurrent
PROPERTIES TokensExpire
CHECK_DEADLOCK FALSE
