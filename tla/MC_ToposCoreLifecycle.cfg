\* Both deployment scripts, an outsider racing initialize() on each new
\* proxy, then the upgrade, possibly first with the outsider's key; at
\* most two failed or disturbing calls per script; the operator reruns.
\* Meanwhile the sequencer certifies two certificates, of either of two
\* source subnets and either of two receipt roots, which the upgrade must
\* keep.
CONSTANTS
    Callers = {seq, eve}
    Zero = zero
    CertIds = {c1, c2}
    Subnets = {s1, s2}
    Roots = {r1, r2}
    Positions = {1}
    Impls = {i0, i1}
    AdminLists <- MCAdminLists
    Thresholds = {1}
    NoCert = NoCert
    NoSubnet = NoSubnet
    Variants = {"core", "dynamic"}
    Sequencer = seq
    SubnetId = s1
    Attackers = {eve}
    WrongKey = eve
    OldImpl = i0
    NewImpl = i1
    MaxFailures = 2
SPECIFICATION LifeSpec
INVARIANT DeploymentReported UpgradeReported
PROPERTY UpgradeEventuallyLogged
\* The upgrade's exit with 0 ends both scripts: that is a real stop.
CHECK_DEADLOCK FALSE
