CONSTANTS
    c1 = c1
    c2 = c2
    c3 = c3
    l1 = l1
    l2 = l2
    github = github
    NoUser = NoUser
    Accounts = {github}
    Logins = {l1, l2}
    Callbacks = {c1, c2, c3}
    Admins = {root}
    AccountOf <- OnePerson
    LoginOf <- TwiceAndAgain
    MaxExchanges = 2
    MaxReads = 2
    MaxFaults = 2
SPECIFICATION FairSpec
INVARIANTS OneUserPerAccount TokenRoleIsCurrent SignedInAsOwner OnlyDuplicatesFail
PROPERTIES EveryCallbackAnswered ReturningGetsIn ImplementsDirectory
