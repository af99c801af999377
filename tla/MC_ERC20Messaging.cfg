\* Two messaging contracts sharing one ToposCore on subnet s1, one user who
\* deploys, approves, sends to s1 or s2 and to itself or the zero address,
\* two mined sends, two certificate ids, a daily limit of 1 over Day = 2.
\* The admin certifies each receipt root at most once (Recertify FALSE);
\* erc20_recertify lifts that.
CONSTANTS
    Callers = {admin, u1}
    Zero = zero
    CertIds = {c1, c2}
    Subnets = {s1, s2}
    Roots <- MCRoots
    Positions = {1}
    Impls = {i1}
    AdminLists = {}
    Thresholds = {}
    NoCert = NoCert
    NoSubnet = NoSubnet
    Admin = admin
    Messengers = {m1, m2}
    Users = {u1}
    Recipients = {u1, zero}
    Amounts = {0, 1}
    InitialSupply = 1
    MintCap = 3
    DailyLimits = {1}
    Day = 2
    MaxTime = 2
    MaxBlocks = 2
    ThisSubnet = s1
    Recertify = FALSE
SPECIFICATION Spec
INVARIANT TypeOK AtMostOnceExecution ExecutedMessagesAreAuthentic DailyMintLimitRespected
