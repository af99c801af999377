------------------------ MODULE DeployToposMsgProtocol ------------------------
(***************************************************************************)
(* scripts/deploy-topos-msg-protocol.ts run against a chain, together with *)
(* the ToposCore proxy it initialises.  The script validates its inputs,   *)
(* deploys TokenDeployer, ToposCore, ToposCoreProxy at addresses fixed by  *)
(* their salts (processContract: reuse the code already at the predicted   *)
(* address, else deployContractConstant), initialises the proxy with the   *)
(* sequencer as sole admin, deploys ERC20Messaging, starts setSubnetId     *)
(* WITHOUT awaiting it, and prints the addresses.                          *)
(*                                                                         *)
(* Every transaction may fail before it is mined (nothing changes) or be   *)
(* mined while the script's wait() fails (the chain changed); either way   *)
(* the script calls process.exit(1).  The operator then runs it again on   *)
(* the same chain.  Anyone may call initialize() on the proxy once it has  *)
(* code.  Failures are bounded by MaxFailures.                             *)
(***************************************************************************)
EXTENDS ToposCore

CONSTANTS
    Sequencer,      \* the sequencer wallet (admin of ToposCore)
    SubnetId,       \* the subnet id derived from the sequencer public key
    Attackers,      \* accounts that may call initialize() first
    MaxFailures     \* bound on failed transactions/RPC calls over all runs

ASSUME Sequencer \in Callers /\ SubnetId \in Subnets /\ MaxFailures \in Nat

VARIABLES
    code,           \* contract name -> code present at its predicted address
    configValid,    \* PRIVATE_KEY, sequencer key and the four salts are valid
    pc,             \* where main() is; "exited" after process.exit
    subnetIdTask,   \* the un-awaited setSubnetId promise
    printed,        \* this run printed the export lines
    status,         \* "running", or how the process ended: "exit0", "exit1"
    failures        \* failed transactions so far

scriptVars == <<code, configValid, pc, subnetIdTask, printed, status, failures>>
vars == <<coreVars, scriptVars>>

\* The contracts in the order main() processes them, and where each leads.
Contracts == {"TokenDeployer", "ToposCore", "ToposCoreProxy", "ERC20Messaging"}
NextStep == [TokenDeployer |-> "ToposCore", ToposCore |-> "ToposCoreProxy",
             ToposCoreProxy |-> "initialize", ERC20Messaging |-> "setSubnetId"]

\* How a transaction or RPC round trip ends: mined and confirmed, lost
\* before it was mined, or mined while wait() or the RPC call failed.
Outcomes == {"ok", "lost", "unconfirmed"}
Fails(o) == o # "ok"
Mined(o) == o # "lost"
CanFail(o) == Fails(o) => failures < MaxFailures

\* process.exit(1) from a catch: the process ends, pending promises die.
Exit1(o) ==
    /\ pc' = "exited"
    /\ subnetIdTask' = "none"
    /\ status' = "exit1"
    /\ failures' = IF Fails(o) THEN failures + 1 ELSE failures

ScriptInit ==
    /\ code = [c \in Contracts |-> FALSE]
    /\ configValid \in BOOLEAN
    /\ pc = "validate"
    /\ subnetIdTask = "none"
    /\ printed = FALSE
    /\ status = "running"
    /\ failures = 0

Init == CoreInit /\ ScriptInit

(***************************************************************************)
(* main(), lines 16-54: the sequencer key must be given and be 32 bytes,   *)
(* PRIVATE_KEY must be 32 bytes, and verifySalt exits on a missing salt.   *)
(***************************************************************************)
Validate ==
    /\ pc = "validate"
    /\ IF configValid
       THEN /\ pc' = "TokenDeployer"
            /\ UNCHANGED <<subnetIdTask, status, failures>>
       ELSE Exit1("ok")
    /\ UNCHANGED <<coreVars, code, configValid, printed>>

\* predictContractConstant + provider.getCode: is there code at the address
\* ConstAddressDeployer.deployedAddress(bytecode, wallet, salt) predicts?
PredictedCodeExists(c) == code[c]

\* deployContractConstant: ConstAddressDeployer.deploy(bytecode, salt), then
\* tx.wait().  The code is at the predicted address once the tx is mined.
DeployContractConstant(c, o) ==
    code' = IF Mined(o) THEN [code EXCEPT ![c] = TRUE] ELSE code

\* processContract, lines 128-169: reuse existing code, else deploy.  A
\* failed predictContractConstant is caught with exit(1), a failed getCode
\* is an unhandled rejection (exit code 1); a failed deployment is caught
\* with exit(1).
ProcessContract(c, o) ==
    /\ pc = c
    /\ CanFail(o)
    /\ IF PredictedCodeExists(c)
       THEN /\ o # "unconfirmed"
            /\ UNCHANGED code
            /\ IF Fails(o) THEN Exit1(o)
               ELSE /\ pc' = NextStep[c]
                    /\ UNCHANGED <<subnetIdTask, status, failures>>
       ELSE /\ DeployContractConstant(c, o)
            /\ IF Fails(o) THEN Exit1(o)
               ELSE /\ pc' = NextStep[c]
                    /\ UNCHANGED <<subnetIdTask, status, failures>>
    /\ UNCHANGED <<coreVars, configValid, printed>>

\* The transaction the script sends: ToposCore.initialize([sequencer], 1)
\* through the proxy; it reverts when the proxy is already initialised.
InitializeTx(o) ==
    IF Mined(o) /\ ~initialized
    THEN Initialize(<<Sequencer>>, 1)
    ELSE UNCHANGED coreVars

\* Mutant: a reverted initialize() is not treated as an error (as
\* deploy-subnet-registrator.ts does with its initialize call).
InitializeStepIgnoringRevert(o) ==
    /\ pc = "initialize"
    /\ CanFail(o)
    /\ InitializeTx(o)
    /\ IF Fails(o) THEN Exit1(o)
       ELSE /\ pc' = "ERC20Messaging"
            /\ UNCHANGED <<subnetIdTask, status, failures>>
    /\ UNCHANGED <<code, configValid, printed>>

\* initialize, lines 194-215: a revert or a failed wait() exits with 1.
InitializeStep(o) ==
    /\ pc = "initialize"
    /\ CanFail(o)
    /\ InitializeTx(o)
    /\ IF Fails(o) \/ initialized
       THEN Exit1(o)
       ELSE /\ pc' = "ERC20Messaging"
            /\ UNCHANGED <<subnetIdTask, status, failures>>
    /\ UNCHANGED <<code, configValid, printed>>

\* Line 101: setSubnetId(...) is called without await; its first await
\* (sending setNetworkSubnetId) suspends it and main() goes on to print.
StartSetSubnetId ==
    /\ pc = "setSubnetId"
    /\ pc' = "print"
    /\ subnetIdTask' = "pending"
    /\ UNCHANGED <<coreVars, code, configValid, printed, status, failures>>

\* Lines 103-108: print the export lines; main() returns.
PrintExports ==
    /\ pc = "print"
    /\ printed' = TRUE
    /\ pc' = "returned"
    /\ UNCHANGED <<coreVars, code, configValid, subnetIdTask, status, failures>>

\* The transaction setSubnetId sends: ToposCore.setNetworkSubnetId from the
\* sequencer wallet; it reverts (onlyAdmin) unless the sequencer is admin.
SetNetworkSubnetIdTx(o) ==
    IF Mined(o) /\ Sequencer \in admins
    THEN SetNetworkSubnetId(Sequencer, SubnetId)
    ELSE UNCHANGED coreVars

\* setSubnetId, lines 171-192: the pending transaction is mined or not,
\* wait() succeeds or the catch exits with 1; a revert fails wait().
SetSubnetIdTask(o) ==
    /\ subnetIdTask = "pending"
    /\ CanFail(o)
    /\ SetNetworkSubnetIdTx(o)
    /\ IF Fails(o) \/ Sequencer \notin admins THEN Exit1(o)
       ELSE /\ subnetIdTask' = "done"
            /\ UNCHANGED <<pc, status, failures>>
    /\ UNCHANGED <<code, configValid, printed>>

\* Node exits with 0 once main() returned and no promise is pending.
ProcessExit ==
    /\ pc = "returned"
    /\ subnetIdTask = "done"
    /\ pc' = "exited"
    /\ status' = "exit0"
    /\ UNCHANGED <<coreVars, code, configValid, subnetIdTask, printed, failures>>

(* The environment: the operator reruns a failed deployment after fixing  *)
(* its configuration; an outsider calls initialize() on the new proxy.    *)
Rerun ==
    /\ status = "exit1"
    /\ pc' = "validate"
    /\ configValid' = TRUE
    /\ printed' = FALSE
    /\ status' = "running"
    /\ UNCHANGED <<coreVars, code, subnetIdTask, failures>>

FrontRunInitialize(a) ==
    /\ code["ToposCoreProxy"]
    /\ Initialize(<<a>>, 1)
    /\ UNCHANGED scriptVars

Next ==
    \/ Validate
    \/ \E c \in Contracts, o \in Outcomes : ProcessContract(c, o)
    \/ \E o \in Outcomes : InitializeStep(o)
    \/ StartSetSubnetId
    \/ PrintExports
    \/ \E o \in Outcomes : SetSubnetIdTask(o)
    \/ ProcessExit
    \/ Rerun
    \/ \E a \in Attackers : FrontRunInitialize(a)

\* The script's own steps and the operator's rerun are weakly fair; failed
\* outcomes are bounded, and the attacker is under no obligation to act.
ScriptStep ==
    \/ Validate
    \/ \E c \in Contracts : ProcessContract(c, "ok")
    \/ InitializeStep("ok")
    \/ StartSetSubnetId \/ PrintExports \/ SetSubnetIdTask("ok") \/ ProcessExit

Spec == Init /\ [][Next]_vars /\ WF_vars(ScriptStep) /\ WF_vars(Rerun)

-----------------------------------------------------------------------------
\* A deployment that prints its addresses has handed ToposCore to the
\* sequencer alone: an outsider's initialize() on the fresh proxy, raced
\* between the proxy's deployment and the script's own call, never ends
\* in a printed deployment whose admin is the outsider.
PrintedDeploymentOwnedBySequencer ==
    printed => (initialized /\ admins = {Sequencer})

\* When the script prints the export lines, the network subnet id of the
\* ToposCore it prints is set: deploy-topos-core.ts and the dynamic
\* variant await setSubnetId before printing.
PrintedDeploymentHasSubnetId ==
    printed => networkSubnetId = SubnetId

\* After failures (at most MaxFailures of them) and reruns, a run of the
\* script eventually completes with exit code 0: processContract reuses
\* what an earlier run deployed so that a rerun picks up where it stopped.
RerunEventuallySucceeds == <>(status = "exit0")
=============================================================================
