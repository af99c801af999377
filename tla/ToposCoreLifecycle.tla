--------------------------- MODULE ToposCoreLifecycle ---------------------------
(***************************************************************************)
(* The two scripts an operator runs over one ToposCoreProxy, composed:     *)
(* deploy-topos-core.ts (or the dynamic script) deploys, initialises and   *)
(* configures the proxy, rerun after each failure; once a run has printed  *)
(* the proxy address (exit code 0), upgrade-topos-core.ts upgrades that    *)
(* proxy, also rerun after each failure, while the sequencer certifies     *)
(* through it.  Each script keeps its own variables; the proxy storage     *)
(* (ToposCore) is shared, so the upgrade starts from whatever the          *)
(* deployment, the outsider and the failed runs left.                      *)
(***************************************************************************)
EXTENDS ToposCore

CONSTANTS
    Variants, Sequencer, SubnetId, Attackers,   \* of DeployToposCore
    WrongKey, OldImpl, NewImpl,                 \* of UpgradeToposCore
    MaxFailures                                 \* per script, over its runs

VARIABLES
    variant, pc, configValid, proxyLive, printed, status, failures,
    implCode, uConfigValid, keyIsAdmin, upc, uprinted, ustatus, ufailures

deployVars == <<variant, pc, configValid, proxyLive, printed, status, failures>>
upgradeVars == <<implCode, uConfigValid, keyIsAdmin, upc, uprinted, ustatus, ufailures>>
lifeVars == <<coreVars, deployVars, upgradeVars>>

D == INSTANCE DeployToposCore

U == INSTANCE UpgradeToposCore
         WITH configValid <- uConfigValid, pc <- upc, printed <- uprinted,
              status <- ustatus, failures <- ufailures

\* The deployment starts on a chain where the ToposCore implementation
\* OldImpl is deployed; the upgrade script has not started.
LifeInit == D!Init /\ implementation = OldImpl /\ U!ScriptInit

\* The upgrade is run against the proxy a successful deployment printed.
UpgradeStarted == status = "exit0"

DeployNext == D!Next /\ UNCHANGED upgradeVars

UpgradeNext == UpgradeStarted /\ U!Next /\ UNCHANGED deployVars

LifeNext == DeployNext \/ UpgradeNext

LifeSpec ==
    /\ LifeInit /\ [][LifeNext]_lifeVars
    /\ WF_lifeVars(D!ScriptStep /\ UNCHANGED upgradeVars)
    /\ WF_lifeVars(D!Rerun /\ UNCHANGED upgradeVars)
    /\ WF_lifeVars(UpgradeStarted /\ U!ScriptStep /\ UNCHANGED deployVars)
    /\ WF_lifeVars(UpgradeStarted /\ U!Rerun /\ UNCHANGED deployVars)

-----------------------------------------------------------------------------
\* A deployment run that printed the proxy address left it initialised to
\* the sequencer alone with the subnet id set, and the later upgrade and
\* certificates keep it so.
DeploymentReported == D!ReportedDeploymentConfigured

\* When upgrade-topos-core.ts logs success, the proxy the deployment
\* configured delegates to the new implementation, whose code is at its
\* salted address; admin, certificates and the subnet id the deployment
\* set all survive the upgrade.
UpgradeReported ==
    /\ U!UpgradeReported
    /\ uprinted => networkSubnetId = SubnetId

\* With finitely many failed calls and outsider calls, and the operator
\* rerunning each failed script, the upgrade is eventually logged: reruns
\* of the deployment make a fresh proxy, reruns of the upgrade reuse the
\* implementation an earlier run deployed.
UpgradeEventuallyLogged == <>(ustatus = "exit0")
=============================================================================
