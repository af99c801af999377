\* An outsider and no failed call: who owns the registrator after exit 0?
CONSTANTS
    p1 = p1
    p2 = p2
    p3 = p3
    s1 = s1
    s2 = s2
    Admin = admin
    Deployer = deployer
    Attackers = {eve}
    SubnetIds = {s1, s2}
    Procs = {p1, p2}
    SubnetOf <- MCSameSubnet
    NoOwner = NoOwner
    MaxFailures = 0
SPECIFICATION Spec
INVARIANT RegistratorOwnedAfterDeploy
\* Every script ends; a run stuck on a dropped transaction stops too.
CHECK_DEADLOCK FALSE
