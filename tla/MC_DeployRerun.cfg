\* Reruns after one failed call, no outsider: the script eventually
\* completes unless a rerun meets a step it cannot repeat.
CONSTANTS
    Callers = {seq, eve}
    Zero = zero
    CertIds = {c1}
    Subnets = {s1}
    Roots = {r1}
    Positions = {1}
    Impls = {i1}
    AdminLists <- MCAdminLists
    Thresholds = {1}
    NoCert = NoCert
    NoSubnet = NoSubnet
    Sequencer = seq
    SubnetId = s1
    Attackers = {}
    MaxFailures = 1
SPECIFICATION Spec
PROPERTY RerunEventuallySucceeds
\* A successful run ends the script (exit code 0): that is a real stop.
CHECK_DEADLOCK FALSE
