\* One deployment of the registrator, an outsider, three overlapping
\* register-subnet runs, two for the same subnet, at most one failed call.
CONSTANTS
    p1 = p1
    p2 = p2
    p3 = p3
    s1 = s1
    s2 = s2
    Admin = admin
    Deployer = deployer
    Attackers = {eve}
    SubnetIds = {s1, s2}
    Procs = {p1, p2, p3}
    SubnetOf <- MCTwoSubnets
    NoOwner = NoOwner
    MaxFailures = 1
SPECIFICATION Spec
PROPERTY OwnedExitZeroMeansRegistered
\* Every script ends; a run stuck on a dropped transaction stops too.
CHECK_DEADLOCK FALSE
