---------------------------- MODULE DeployToposCore ----------------------------
(***************************************************************************)
(* scripts/deploy-topos-core.ts and scripts/deploy-topos-msg-protocol-     *)
(* dynamic.ts against a chain.  Unlike deploy-topos-msg-protocol.ts they   *)
(* deploy with plain factories, so every run creates new contracts at new  *)
(* addresses; they await setSubnetId before reporting success.  A failed   *)
(* deployment rejects a promise nobody catches, which ends Node with exit  *)
(* code 1, like the process.exit(1) of the initialize and setSubnetId     *)
(* catches.  The operator reruns a failed script; an outsider may call     *)
(* initialize() on the proxy of the current run once it is deployed.       *)
(***************************************************************************)
EXTENDS ToposCore

CONSTANTS
    Variants,       \* scripts run: "core" (deploy-topos-core.ts), "dynamic"
    Sequencer,      \* the sequencer wallet
    SubnetId,       \* the subnet id derived from the sequencer public key
    Attackers,      \* accounts that may call initialize() first
    MaxFailures     \* bound on failed transactions/RPC calls over all runs

ASSUME /\ Variants \subseteq {"core", "dynamic"} /\ Sequencer \in Callers
       /\ SubnetId \in Subnets /\ MaxFailures \in Nat

VARIABLES
    variant,        \* which of the two scripts the operator runs
    pc,             \* index of main()'s current step in Order; 0: validation
    configValid,    \* PRIVATE_KEY and the sequencer key are valid
    proxyLive,      \* the proxy of the current run has been deployed
    printed,        \* the run reported success (exports or final log line)
    status,         \* "running", "exit0" or "exit1"
    failures        \* failed transactions so far

scriptVars == <<variant, pc, configValid, proxyLive, printed, status, failures>>
vars == <<coreVars, scriptVars>>

\* main() of deploy-topos-core.ts: ToposCore, its proxy, initialize,
\* await setSubnetId, print the exports.
CoreOrder == <<"ToposCore", "ToposCoreProxy", "initialize", "setSubnetId", "report">>

\* main() of the dynamic script: TokenDeployer, ToposCore, the proxy,
\* initialize, ERC20Messaging, setNetworkSubnetId, read it back and log it.
DynamicOrder == <<"TokenDeployer", "ToposCore", "ToposCoreProxy", "initialize",
                  "ERC20Messaging", "setSubnetId", "report">>

Order == IF variant = "core" THEN CoreOrder ELSE DynamicOrder
Step == IF pc \in 1 .. Len(Order) THEN Order[pc] ELSE "none"

Outcomes == {"ok", "lost", "unconfirmed"}
Fails(o) == o # "ok"
Mined(o) == o # "lost"
CanFail(o) == Fails(o) => failures < MaxFailures

Exit1(o) ==
    /\ pc' = Len(Order) + 1
    /\ status' = "exit1"
    /\ failures' = IF Fails(o) THEN failures + 1 ELSE failures

Advance == pc' = pc + 1 /\ UNCHANGED <<status, failures>>

Init ==
    /\ CoreInit
    /\ variant \in Variants
    /\ pc = 0
    /\ configValid \in BOOLEAN
    /\ proxyLive = FALSE
    /\ printed = FALSE
    /\ status = "running"
    /\ failures = 0

\* The key checks at the top of main(); a bad key exits with 1.
Validate ==
    /\ status = "running" /\ pc = 0
    /\ IF configValid THEN Advance ELSE Exit1("ok")
    /\ UNCHANGED <<coreVars, variant, configValid, proxyLive, printed>>

\* new <Contract>__factory(wallet).deploy() then waitForDeployment(): a new
\* contract whose storage nothing here reads again.
DeployContract(o) ==
    /\ status = "running"
    /\ Step \in {"TokenDeployer", "ToposCore", "ERC20Messaging"}
    /\ CanFail(o)
    /\ IF Fails(o) THEN Exit1(o) ELSE Advance
    /\ UNCHANGED <<coreVars, variant, configValid, proxyLive, printed>>

\* The storage of a newly deployed proxy.
FreshProxy ==
    /\ initialized' = FALSE
    /\ admins' = {}
    /\ implementation' = implementation
    /\ networkSubnetId' = NoSubnet
    /\ certIdSet' = CertSet!EmptySet
    /\ certificates' = [c \in CertIds |-> NoCert]
    /\ sourceSubnetIdSet' = SubnetSet!EmptySet
    /\ checkpoints' = [s \in Subnets |-> NoCheckpoint]
    /\ receiptRootToCertId' = [r \in Roots |-> NoCert]

\* new ToposCoreProxy__factory(wallet).deploy(toposCoreAddress): fresh
\* proxy storage, not initialised, no subnet id.
DeployProxy(o) ==
    /\ status = "running"
    /\ Step = "ToposCoreProxy"
    /\ CanFail(o)
    /\ IF Mined(o) THEN FreshProxy ELSE UNCHANGED coreVars
    /\ proxyLive' = Mined(o)
    /\ IF Fails(o) THEN Exit1(o) ELSE Advance
    /\ UNCHANGED <<variant, configValid, printed>>

\* initialize(toposCore, sequencerWallet, 1): a revert or a failed wait()
\* exits with 1.
InitializeStep(o) ==
    /\ status = "running"
    /\ Step = "initialize"
    /\ CanFail(o)
    /\ IF Mined(o) /\ ~initialized THEN Initialize(<<Sequencer>>, 1)
       ELSE UNCHANGED coreVars
    /\ IF Fails(o) \/ initialized THEN Exit1(o) ELSE Advance
    /\ UNCHANGED <<variant, configValid, proxyLive, printed>>

\* Mutant: the script moves on as soon as the transaction is sent.
SetSubnetIdStepNoAwait(o) ==
    /\ status = "running"
    /\ Step = "setSubnetId"
    /\ Advance
    /\ UNCHANGED <<coreVars, variant, configValid, proxyLive, printed>>

\* await setSubnetId (deploy-topos-core.ts) or the inline
\* setNetworkSubnetId(...).then(wait) (dynamic): reverts unless the
\* sequencer is admin; a failure exits with 1.
SetSubnetIdStep(o) ==
    /\ status = "running"
    /\ Step = "setSubnetId"
    /\ CanFail(o)
    /\ IF Mined(o) /\ Sequencer \in admins THEN SetNetworkSubnetId(Sequencer, SubnetId)
       ELSE UNCHANGED coreVars
    /\ IF Fails(o) \/ Sequencer \notin admins THEN Exit1(o) ELSE Advance
    /\ UNCHANGED <<variant, configValid, proxyLive, printed>>

\* The exports (core) or the "Successfully set" line after reading the
\* subnet id back (dynamic); main() returns and Node exits with 0.  The
\* dynamic script's read-back is an awaited call outside any catch: its
\* rejection is unhandled and Node exits with 1.
Report(o) ==
    /\ status = "running"
    /\ Step = "report"
    /\ o # "unconfirmed" /\ CanFail(o)
    /\ variant = "core" => o = "ok"
    /\ IF Fails(o)
       THEN Exit1(o) /\ UNCHANGED printed
       ELSE /\ printed' = TRUE
            /\ pc' = pc + 1
            /\ status' = "exit0"
            /\ UNCHANGED failures
    /\ UNCHANGED <<coreVars, variant, configValid, proxyLive>>

Rerun ==
    /\ status = "exit1"
    /\ pc' = 0
    /\ configValid' = TRUE
    /\ proxyLive' = FALSE
    /\ printed' = FALSE
    /\ status' = "running"
    /\ UNCHANGED <<coreVars, variant, failures>>

\* An outsider's initialize() on the proxy of the current run; each one
\* spends one unit of the disturbance budget shared with failed calls.
FrontRunInitialize(a) ==
    /\ proxyLive /\ failures < MaxFailures
    /\ Initialize(<<a>>, 1)
    /\ failures' = failures + 1
    /\ UNCHANGED <<variant, pc, configValid, proxyLive, printed, status>>

Next ==
    \/ Validate
    \/ \E o \in Outcomes : DeployContract(o) \/ DeployProxy(o)
    \/ \E o \in Outcomes : InitializeStep(o) \/ SetSubnetIdStep(o)
    \/ \E o \in Outcomes : Report(o)
    \/ Rerun
    \/ \E a \in Attackers : FrontRunInitialize(a)

ScriptStep ==
    Validate \/ DeployContract("ok") \/ DeployProxy("ok") \/ InitializeStep("ok")
    \/ SetSubnetIdStep("ok") \/ Report("ok")

Spec == Init /\ [][Next]_vars /\ WF_vars(ScriptStep) /\ WF_vars(Rerun)

-----------------------------------------------------------------------------
\* A run that reports success has set the subnet id on the proxy it
\* initialised and that proxy's only admin is the sequencer, whatever an
\* outsider did to it between its deployment and the script's calls.
ReportedDeploymentConfigured ==
    printed => /\ initialized /\ admins = {Sequencer}
               /\ networkSubnetId = SubnetId

=============================================================================
