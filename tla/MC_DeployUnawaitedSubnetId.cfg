\* The export lines are printed while setSubnetId is still pending.
\* (line 101 does not await it).
CONSTANTS
    Callers = {seq, eve}
    Zero = zero
    CertIds = {c1}
    Subnets = {s1}
    Roots = {r1}
    Positions = {1}
    Impls = {i1}
    AdminLists <- MCAdminLists
    Thresholds = {1}
    NoCert = NoCert
    NoSubnet = NoSubnet
    Sequencer = seq
    SubnetId = s1
    Attackers = {eve}
    MaxFailures = 2
SPECIFICATION Spec
INVARIANT PrintedDeploymentHasSubnetId
\* A successful run ends the script (exit code 0): that is a real stop.
CHECK_DEADLOCK FALSE
