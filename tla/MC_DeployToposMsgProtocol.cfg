\* One deployment of the messaging protocol on an empty chain, with an
\* outsider racing the script's initialize() and at most three failed calls.
CONSTANTS
    Callers = {seq, eve}
    Zero = zero
    CertIds = {c1}
    Subnets = {s1}
    Roots = {r1}
    Positions = {1}
    Impls = {i1}
    AdminLists <- MCAdminLists
    Thresholds = {1}
    NoCert = NoCert
    NoSubnet = NoSubnet
    Sequencer = seq
    SubnetId = s1
    Attackers = {eve}
    MaxFailures = 3
SPECIFICATION Spec
INVARIANT PrintedDeploymentOwnedBySequencer
\* A successful run ends the script (exit code 0): that is a real stop.
CHECK_DEADLOCK FALSE
