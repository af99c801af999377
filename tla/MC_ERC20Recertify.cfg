\* The admin may push a second certificate carrying a receipt root it
\* already certified: execute keys its replay marker on the certificate.
CONSTANTS
    Callers = {admin, u1}
    Zero = zero
    CertIds = {c1, c2}
    Subnets = {s1, s2}
    Roots <- MCRoots
    Positions = {1}
    Impls = {i1}
    AdminLists = {}
    Thresholds = {}
    NoCert = NoCert
    NoSubnet = NoSubnet
    Admin = admin
    Messengers = {m1, m2}
    Users = {u1}
    Recipients = {u1, zero}
    Amounts = {0, 1}
    InitialSupply = 1
    MintCap = 3
    DailyLimits = {1}
    Day = 2
    MaxTime = 2
    MaxBlocks = 2
    ThisSubnet = s1
    Recertify = TRUE
SPECIFICATION Spec
INVARIANT AtMostOnceExecution
