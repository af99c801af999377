----------------------------- MODULE DeployScript -----------------------------
(***************************************************************************)
(* scripts/deploy.ts, run several times at once: each run deploys one      *)
(* contract with deployContractConstant(wallet, json, salt, args,          *)
(* gasLimit).  Every failure is logged and main() returns, so each run     *)
(* exits with 0; on both paths it then prints `address`, which is          *)
(* undefined: the promise resolves to an ethers v6 Contract, which has no  *)
(* `address` property (its address is `target`), and the catch yields     *)
(* undefined.  What tells a success from a failure is the console.error.   *)
(*                                                                         *)
(* A call may fail before anything is mined ("lost") or after its          *)
(* transaction is mined ("unconfirmed"), at most MaxFailures times.  A     *)
(* mined transaction is never dropped.                                     *)
(***************************************************************************)
EXTENDS ConstAddrDeployer, Naturals

CONSTANTS
    Procs,          \* concurrent runs of deploy.ts
    WalletOf,       \* Procs -> Wallets: PRIVATE_KEY of the run
    ContractOf,     \* Procs -> Contracts: contractJsonPath and args
    KeyOf,          \* Procs -> Keys: the salt argument
    GasLimitOf,     \* Procs -> GasLimits: the gasLimit argument
    Earlier,        \* creator of code deployed before the runs
    MaxFailures     \* bound on failed calls over all runs

\* No gasLimit argument, one whose 1.2 multiple covers the deployment, and
\* one too low for it.
GasLimits == {"none", "enough", "low"}

ASSUME /\ WalletOf \in [Procs -> Wallets] /\ ContractOf \in [Procs -> Contracts]
       /\ KeyOf \in [Procs -> Keys] /\ GasLimitOf \in [Procs -> GasLimits]
       /\ MaxFailures \in Nat

VARIABLES
    dpc,            \* where each run is
    dstatus,        \* "running", "returned" (resolved) or "error" (logged)
    failures        \* failed calls so far

vars == <<creator, dpc, dstatus, failures>>

Outcomes == {"ok", "lost", "unconfirmed"}
Fails(o) == o # "ok"
CanFail(o) == Fails(o) => failures < MaxFailures

AddressOf(p) == PredictContractConstant(WalletOf[p], ContractOf[p], KeyOf[p])

Goto(p, step) ==
    /\ dpc' = [dpc EXCEPT ![p] = step]
    /\ UNCHANGED <<dstatus, failures>>

\* The promise of deployContractConstant settles: .then or .catch(console.error).
Settle(p, result, o) ==
    /\ dpc' = [dpc EXCEPT ![p] = "done"]
    /\ dstatus' = [dstatus EXCEPT ![p] = result]
    /\ failures' = IF Fails(o) THEN failures + 1 ELSE failures

\* Code may already be at any address, from deployments made before.
Init ==
    /\ creator \in [Addresses -> {NoCode, Earlier}]
    /\ dpc = [p \in Procs |-> "validate"]
    /\ dstatus = [p \in Procs |-> "running"]
    /\ failures = 0

\* deploy.ts lines 10-40: PRIVATE_KEY must be a 32-byte hex string and the
\* contract JSON file readable and parseable, or the error is logged and
\* main() returns.  deployContractConstant then builds the bytecode (no
\* call) and, without a gasLimit, awaits the estimate first.
Validate(p) ==
    /\ dpc[p] = "validate"
    /\ \E valid \in BOOLEAN :
          IF valid THEN Goto(p, IF GasLimitOf[p] = "none" THEN "estimate" ELSE "send")
          ELSE Settle(p, "error", "ok")
    /\ UNCHANGED creator

\* const-addr-deployer.ts lines 83-85: gas = await estimateGasForDeploy(...).
Estimate(p, o) ==
    /\ dpc[p] = "estimate"
    /\ o # "unconfirmed" /\ CanFail(o)
    /\ IF Fails(o) \/ ~EstimateGasForDeploy(WalletOf[p], ContractOf[p])
       THEN Settle(p, "error", o) ELSE Goto(p, "send")
    /\ UNCHANGED creator

\* Lines 87-89: deployer.deploy(bytecode, salt, {gasLimit: gas * 1.2}).
\* With the gas limit given nothing estimates the call, so the transaction
\* is sent whether or not it will revert.
SendDeploy(p, o) ==
    /\ dpc[p] = "send"
    /\ o # "unconfirmed" /\ CanFail(o)
    /\ IF Fails(o) THEN Settle(p, "error", o) ELSE Goto(p, "wait")
    /\ UNCHANGED creator

\* Mutant: the receipt's status is not checked, so a reverted deployment
\* counts as done.
WaitDeployIgnoringRevert(p, o) ==
    /\ dpc[p] = "wait"
    /\ o # "lost" /\ CanFail(o)
    /\ MineDeploy(WalletOf[p], ContractOf[p], KeyOf[p], GasLimitOf[p] # "low", p)
    /\ IF ~Fails(o) THEN Goto(p, "address") ELSE Settle(p, "error", o)

\* Line 90: the transaction is mined, and tx.wait() rejects when it
\* reverted or when the receipt cannot be fetched.
WaitDeploy(p, o) ==
    LET ok == DeploySucceeds(WalletOf[p], ContractOf[p], KeyOf[p], GasLimitOf[p] # "low")
    IN
    /\ dpc[p] = "wait"
    /\ o # "lost" /\ CanFail(o)
    /\ MineDeploy(WalletOf[p], ContractOf[p], KeyOf[p], GasLimitOf[p] # "low", p)
    /\ IF ok /\ ~Fails(o) THEN Goto(p, "address") ELSE Settle(p, "error", o)

\* Lines 92-94: deployer.deployedAddress(...) is read and the Contract
\* returned; deploy.ts lines 49-52 then print its missing `address`.
ReadAddress(p, o) ==
    /\ dpc[p] = "address"
    /\ o # "unconfirmed" /\ CanFail(o)
    /\ Settle(p, IF Fails(o) THEN "error" ELSE "returned", o)
    /\ UNCHANGED creator

Next ==
    \E p \in Procs :
       \/ Validate(p)
       \/ \E o \in Outcomes :
             Estimate(p, o) \/ SendDeploy(p, o) \/ WaitDeploy(p, o) \/ ReadAddress(p, o)

\* A run keeps going while its calls succeed; a sent transaction is mined.
RunStep(p) ==
    Validate(p) \/ Estimate(p, "ok") \/ SendDeploy(p, "ok") \/ WaitDeploy(p, "ok")
    \/ ReadAddress(p, "ok")

Spec == Init /\ [][Next]_vars /\ \A p \in Procs : WF_vars(RunStep(p))

-----------------------------------------------------------------------------
\* A run whose deployContractConstant resolved deployed the contract
\* itself: the code at its address was created by its own transaction,
\* not by an earlier deployment or by a concurrent run with the same wallet,
\* contract and key, even when both were sent before either was mined.
ResolvedRunDeployedIt ==
    \A p \in Procs : dstatus[p] = "returned" => creator[AddressOf(p)] = p
=============================================================================
