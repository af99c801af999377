\* No outsider and no failed call: register-subnet right after deployment.
CONSTANTS
    p1 = p1
    p2 = p2
    p3 = p3
    s1 = s1
    s2 = s2
    Admin = admin
    Deployer = deployer
    Attackers = {}
    SubnetIds = {s1, s2}
    Procs = {p1, p2}
    SubnetOf <- MCSameSubnet
    NoOwner = NoOwner
    MaxFailures = 0
SPECIFICATION Spec
PROPERTY RegisterExitZeroMeansRegistered
\* Every script ends; a run stuck on a dropped transaction stops too.
CHECK_DEADLOCK FALSE
