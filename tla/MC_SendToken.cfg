\* Three overlapping runs of send-token.ts, two with one sender key and
\* one with another, against a messaging contract without token X yet;
\* the initial supply covers two sends; at most one failed call.
CONSTANTS
    p1 = p1
    p2 = p2
    p3 = p3
    u1 = u1
    u2 = u2
    Callers = {admin, u1, u2}
    Zero = zero
    CertIds = {c1}
    Subnets = {s1, s2}
    Roots <- MCRoots
    Positions = {1}
    Impls = {i1}
    AdminLists = {}
    Thresholds = {}
    NoCert = NoCert
    NoSubnet = NoSubnet
    Admin = admin
    Messengers = {m1}
    Users = {u1, u2}
    Recipients = {u1}
    Amounts = {0, 1}
    InitialSupply = 2
    MintCap = 3
    DailyLimits = {1}
    Day = 2
    MaxTime = 0
    MaxBlocks = 3
    ThisSubnet = s1
    Recertify = FALSE
    Procs = {p1, p2, p3}
    SenderOf <- MCSenderOf
    AmountOf <- MCAmountOf
    Receiver = u1
    TargetSubnet = s2
    Messenger = m1
    LimitX = 1
    MaxFailures = 1
SPECIFICATION SendSpec
INVARIANT SupplyConserved SentRunsBurnt
\* Every run ends: main() settles and the process exits.
CHECK_DEADLOCK FALSE
