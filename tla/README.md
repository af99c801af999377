# TLA+ models of the Topos messaging protocol contracts and scripts

This directory models the parts of `topos-protocol/topos` that TLC can
explore: the on-chain components the TypeScript tests drive (the
`Bytes32Sets` library, the `ToposCore` certificate store, the
`ERC20Messaging` token messenger and the `SubnetRegistrator`), and the
deployment and operation scripts under `src/contracts/scripts` that set them up
against a live chain.

The Solidity contracts are not part of `src/`. Their operations follow the
spec (`spec.md`) and the Hardhat tests that pin their behaviour: the revert
messages, the order of the checks and the fixtures. Where the map names a
test, the definition follows what that test checks. The few definitions taken
from the spec alone are marked `spec_modelled` in `PROJECT.json`.

## The system and how its parts interact

* **Bytes32Set** is an ordered set of 32-byte ids. It keeps an array plus a
  reverse index, and removal is a swap-delete. ToposCore, ERC20Messaging and
  SubnetRegistrator all keep their ids in it.
* **ToposCore** (behind `ToposCoreProxy`) works as follows:
  * it is initialised once with an admin list;
  * the admin (the sequencer) pushes certificates;
  * each certificate updates its source subnet's checkpoint and the
    receipt-root index;
  * `setNetworkSubnetId` names the subnet the contract runs on;
  * `upgrade` swaps the implementation after a code-hash check.
* **ERC20Messaging** deploys tokens and sends them:
  * `sendToken` burns tokens and emits Transfer, CrossSubnetMessageSent and
    TokenSent;
  * `execute` takes a Merkle proof of such a receipt against a certified
    receipt root and mints on the target subnet;
  * `execute` applies eleven checks, a replay marker and a lazily recomputed
    daily mint window.
* **The deployment scripts** deploy and configure these contracts over
  JSON-RPC:
  * `deploy-topos-msg-protocol.ts` uses salted, restartable deployment;
  * `deploy-topos-core.ts` and `deploy-topos-msg-protocol-dynamic.ts` use
    plain factories;
  * `upgrade-topos-core.ts` performs upgrades;
  * `deploy-subnet-registrator.ts` deploys the registrator, and
    `register-subnet.ts` registers a subnet in it;
  * `deploy.ts` deploys any contract at a constant address, and
    `const-addr-deployer.ts` is the library all the salted deployments go
    through;
  * `scripts/test/send-token.ts` deploys token X when missing, approves and
    sends it.

  Every transaction a script sends can fail in two ways:
  * it is **lost** (not mined, nothing changes);
  * it is **unconfirmed**: it is mined, but `wait()` or the next RPC call
    fails, so the chain changed while the script sees an error.

  A script that fails exits with 1, and the operator runs it again on the
  same chain. Anyone may call an unprotected `initialize()` in between.

## Modules

| Module | Models | State (variables) | Actions |
|---|---|---|---|
| `KeySet` | what an id set promises: insert when absent, remove when present | `members`, `lastCall` | `Insert`, `Remove` |
| `Bytes32Sets` | the library's operators, over the record `[keys, index]` | (none: operators) | `SetInsert`, `SetRemove`, `Exists`, `Count`, `KeyAtIndex` |
| `Bytes32SetsTest` | the `Bytes32SetsTest` contract of `Bytes32Sets.test.ts` | `set`, `lastCall` | `Insert`, `Remove` (revert = `ok` FALSE) |
| `ToposCore` | the certificate store (spec 4.2, `ToposCore.test.ts`) | admin set, implementation, cert set, certificates, source set, checkpoints, root index | `Initialize`, `PushCertificate`, `SetNetworkSubnetId`, `Upgrade` |
| `ERC20Messaging` | deployToken / sendToken / execute on one chain (`ToposMessaging.test.ts`) | tokens, balances, allowances, mined blocks, nonces, replay markers, clock, mint history | `DeployToken`, `Approve`, `SendTokenTx`, `CertifyBlock`, `Execute`, `Tick` |
| `DeployToposMsgProtocol` | `deploy-topos-msg-protocol.ts` over `ToposCore` | code at salted addresses, script pc, pending setSubnetId promise, printed, exit status, failures | `Validate`, `ProcessContract`, `InitializeStep`, `StartSetSubnetId`, `PrintExports`, `SetSubnetIdTask`, `ProcessExit`, `Rerun`, `FrontRunInitialize` |
| `DeployToposCore` | `deploy-topos-core.ts` and the dynamic variant (both, chosen by `variant` from `Variants`) | pc into the step order, proxy of this run live, printed, status, failures | `Validate`, `DeployContract`, `DeployProxy`, `InitializeStep`, `SetSubnetIdStep`, `Report`, `Rerun`, `FrontRunInitialize` |
| `UpgradeToposCore` | `upgrade-topos-core.ts` over an initialised proxy | code at the new implementation's address, key is admin, pc, printed, status, failures | `Validate`, `ProcessContract`, `Prepare`, `UpgradeStep`, `Report`, `Rerun`, `Certify` |
| `ConstAddrDeployer` | `const-addr-deployer.ts` and what ConstAddressDeployer does with its calls | `creator`: who created the code at each CREATE2 address (wallet, contract, key) | (operators) `PredictContractConstant`, `EstimateGasForDeploy`, `DeploySucceeds`, `MineDeploy` |
| `DeployScript` | concurrent runs of `deploy.ts`, each through `deployContractConstant` | per-run pc and outcome, failures | `Validate`, `Estimate`, `SendDeploy`, `WaitDeploy`, `ReadAddress` |
| `ToposCoreLifecycle` | a deployment script followed by `upgrade-topos-core.ts` on the proxy it printed | both scripts' variables, the upgrade's renamed | `DeployNext`, `UpgradeNext` (instances of the two) |
| `SendToken` | concurrent runs of `send-token.ts` over `ERC20Messaging` | per-run pc and logged outcome, config validity, failures | `Validate`, `CheckToken`, `DeployTokenStep`, `ApproveStep`, `SendStep` |
| `SubnetRegistry` | `SubnetRegistrator`, `deploy-subnet-registrator.ts`, concurrent `register-subnet.ts` runs | registrator code, owner, subnet set and records; deploy pc/status and the un-awaited initialize tx; per-run pc/status | `DeployValidate`, `RegisterValidate`, `DeployRegistrator`, `SendInitialize`, `MineInitialize`, `CheckRegistered`, `SendRegister`, `WaitRegister`, `DeployRerun`, `FrontRunInitialize`, `AdminRemoveSubnet` |

Composition:
* The script modules `EXTENDS ToposCore`, so a script's transaction is a
  ToposCore action: an `Initialize` or a `SetNetworkSubnetId`.
* `ERC20Messaging` extends `ToposCore` as well: its certificates are real
  `PushCertificate` steps.
* `Bytes32Sets` is `INSTANCE`d for every set of ids.
* `ToposCoreLifecycle` `INSTANCE`s `DeployToposCore` and `UpgradeToposCore`
  (the latter's script variables renamed) over one shared ToposCore state.
  The upgrade steps only once the deployment exited 0 (`UpgradeStarted`),
  which is how the operator gets the proxy address it passes as
  `_toposCoreProxyAddress`. Each component steps with the other's variables
  unchanged.
* `SendToken` extends `ERC20Messaging`: each run's transactions are its
  `DeployToken`, `Approve` and `SendTokenTx` actions, and `deployToken`'s
  duplicate-symbol revert is `DeployTokenReverts`.
* `Bytes32SetsTest` is shown to implement `KeySet`: its cfg checks
  `Abstract!Spec` under the refinement mapping `members <- {k : Exists(set, k)}`.

How the code maps onto the model:
* **A transaction is atomic.** A revert is a step that changes nothing on
  chain; the script's reaction follows its `catch`.
* **A script step is one action.** It runs from one `await` to the next,
  including the error path and `process.exit`.
* **An un-awaited promise is its own variable.** For `setSubnetId` in
  deploy-topos-msg-protocol.ts this variable is `subnetIdTask`, and for
  `initialize` in deploy-subnet-registrator.ts it is `initTx`. Its later
  steps interleave with everything else.
* **Node ends the process in three ways:**
  * a rejected promise nobody catches ends it with exit code 1;
  * `main()` returning with nothing pending ends it with 0;
  * a `wait()` on a dropped transaction never settles.

## Runs

| Run | Cfg | Expect | What it shows |
|---|---|---|---|
| bytes32sets | `Bytes32SetsTest.cfg` | pass | index consistency and refinement of `KeySet` over 5 keys |
| erc20_messaging | `MC_ERC20Messaging.cfg` | pass | at-most-once execution, authentic mints, the daily limit |
| erc20_recertify | `MC_ERC20Recertify.cfg` | violation | a root certified twice is minted twice (spec gap) |
| deploy_msg_protocol | `MC_DeployToposMsgProtocol.cfg` | pass | a printed deployment is owned by the sequencer despite an outsider |
| deploy_unawaited_subnet_id | `MC_DeployUnawaitedSubnetId.cfg` | violation | exports printed before the subnet id is set (line 101) |
| deploy_rerun | `MC_DeployRerun.cfg` | violation | an unconfirmed initialize makes the script unrestartable |
| topos_core_lifecycle | `MC_ToposCoreLifecycle.cfg` | pass | a deployment (either plain-factory script) reports only a fully configured proxy; the upgrade run on it logs success only after a real upgrade that keeps admin, certificates and subnet id, while the sequencer's certificates of two sources are pushed across the upgrade; and with reruns the upgrade is eventually logged |
| subnet_registry | `MC_SubnetRegistry.cfg` | pass | while the admin owns the registrator, a register-subnet run exits 0 only with its subnet registered, under three concurrent runs (two for the same subnet, racing their stale reads), admin removals, an outsider and a dropped transaction |
| registrator_front_run | `MC_RegistryFrontRun.cfg` | violation | the script exits 0 while an outsider owns the registrator |
| register_unowned | `MC_RegisterUnowned.cfg` | violation | register-subnet exits 0 with the subnet unregistered, with no failure at all |
| deploy_script | `MC_DeployScript.cfg` | pass | three overlapping deploy.ts runs, two with the same key, over addresses that may already hold code: a run whose deployment resolves created the code at its address itself |
| send_token | `MC_SendToken.cfg` | pass | three overlapping send-token runs (two of one sender) racing to deploy token X, with a failed call: X is minted once, its supply equals its balances and is its initial supply less what was burnt, and every run logged as sent has its amount burnt |

`ToposCore` has no run of its own: its `CoreSpec` is the component on its
own, and its actions are checked as the shared state of the scripts and the
messenger. Its checkpoint overwrite and its latest-wins receipt-root index
are not stated as properties: pushCertificate is one atomic call that
overwrites both, so a property would only restate the action, and the
root index is modelled from spec 4.2 with no code to compare it with.

`deploy.ts` exits with 0 on every path and, on success as on failure,
prints `undefined`: `deployContractConstant` resolves to an ethers v6
`Contract`, whose address is `target`, so `({ address }) => address` reads
a property the contract does not have. `DeployScript` records only whether
the run resolved or logged an error. `deployContractConstant` without a
gasLimit estimates the deployment with the salt of the empty key
(`getSaltFromKey('')`), not the caller's key. `EstimateGasForDeploy` models
this, so the model reaches a deployment to an occupied key that is sent and
reverts on chain, and an estimate refused because the empty-key address
holds code.

`send-token.ts` deploys token X with a fixed gas limit, so a second run that
also found X missing has its `deployToken` mined and reverted; `wait()`
rejects and `main().catch(console.error)` logs it, exit code 0. Two runs of
one sender also overwrite each other's allowance, so one `sendToken` may
fail on allowance. Both are in the model; `SupplyConserved` shows that no
interleaving mints X twice or burns more than was sent, and
`SentRunsBurnt` that a run which lost the allowance race is not reported
as sent. When `sendToken` is mined but `wait()` or the balance read fails,
the run logs an error although its tokens left. The script itself never
sends again, so only an operator's rerun can burn them twice; reruns of
send-token.ts are not modelled.

In `register-subnet.ts` two runs for one subnet may both read it as
unregistered and both send `registerSubnet`; the later one reverts on the
duplicate id and its rejection is only logged (exit 0). A dropped
transaction leaves `wait()` pending, so the process never ends rather
than exiting 0. `OwnedExitZeroMeansRegistered` states that, while the
admin owns the registrator, exit code 0 means the subnet is registered;
a `wait()` with a timeout would break it. `register_unowned` shows the
case where the admin does not own it yet. The tests show `removeSubnet`
reverting and emitting `SubnetRemoved`, not whether it deletes the record,
so `RemoveSubnet` may do either; the property holds for both.

`deploy-subnet-registrator.ts` has the same restart defect as
`deploy-topos-msg-protocol.ts`: `deployContractConstant` does not check for
code at the salted address, so a rerun after a mined but unconfirmed
deployment reverts on every attempt. `DeployRegistrator` models this
(an occupied address gives exit 1), but no run checks it: `deploy_rerun`
already shows the defect for the other script. It is listed as a hazard in
`PROJECT.json`.

In `DeployToposCore`, an outsider's `initialize()` spends one unit of the
failure budget. Rerun liveness holds only for finitely many disturbances.
The script modules state no type invariant of their own. Their pc and
status variables only take values from small literal sets, and their runs
spend their properties on the chain state the scripts leave.

Every property of a passing run has a mutant in `PROJECT.json`. A mutant
replaces a definition the map names with the form a plausible bug would give
it, and TLC then finds the property violated.

## Bounds and why they suffice

* **Script models**
  * They use one or two callers: the sequencer/admin and one outsider.
  * `MaxFailures` is 1 to 5, so every step can fail in either way and the
    rerun loop closes.
  * Each run reaches every step of the script, and every failure path at
    every step.
* **ERC20Messaging**
  * It has two messengers, one user and amounts {0, 1}.
  * `InitialSupply` is 1, so a burn can fail on balance as well as
    allowance.
  * There are two mined blocks and two certificate ids.
  * `Day` = 2 and `MaxTime` = 2 put a mint before, at and after a window
    boundary.
  * This makes every execute check reachable except `CapExceeded` (mints
    never exceed burns on one chain) and the forged-status check.
* **send-token**
  * Three runs, two of them by one sender, each sending 1; `MaxBlocks` 3
    lets all three sends be mined; one failed call.
* **ToposCoreLifecycle**
  * Both deployment variants, an outsider, `MaxFailures` 2 per script.
  * Two certificate ids over two sources and two roots, so two pushes of
    one source, of two sources, and two pushes sharing a root all occur.
* **deploy.ts**
  * One wallet and one contract with two keys, one of them the empty key.
    Three runs: two with the same key (one estimated, one with a gasLimit)
    and one with the empty key and too low a gasLimit. Either address may
    hold code from before, and one call may fail.
* **ToposCore**
  * It has two certificate ids, two sources and two roots, so pushes of
    different sources interleave and two certificates share a root.

## Fairness

The scripts run to completion unless a call fails, so each script's own
successful steps are weakly fair. Mining a sent transaction is weakly fair.
The operator's rerun after an exit code 1 is weakly fair, which models an
operator who retries. The liveness properties (`UpgradeEventuallyLogged` of
`topos_core_lifecycle`) rely only on this and on the scripts' successful
steps. In `ToposCoreLifecycle` fairness is stated per instance action: the
deployment's steps and reruns, and the upgrade's once it has started.
`SendSpec` makes each send-token run's successful step weakly fair, and
`DeployScript`'s `Spec` does the same for each deploy.ts run, as
`SubnetRegistry`'s `Spec` does for each register-subnet run and for the
deploy script; each run is a process of its own. No property of
`subnet_registry` depends on this fairness.

Nothing else is fair:
* failures, which are bounded by `MaxFailures`;
* outsiders;
* the ERC20Messaging users and relayers, whose model is checked for safety
  only.

## Not modelled

* The token roles of `BurnableMintableCappedERC20`.
* Trie building and RLP and Keccak hashing (a proof is "a path to a receipt
  of block b, valid for root b").
* Signature and STARK verification: an external collaborator.
* `deployAndInitContractConstant` and `estimateGasForDeployAndInit` of
  `const-addr-deployer.ts`: no script calls them.
* The proxy fallback without an implementation (`InvalidImplementation`):
  every script deploys and waits for the implementation before it deploys
  the proxy, so no modelled behaviour reaches it.
* Token views by symbol or key hash: read-only calls; `CheckToken` models
  the symbol lookup `send-token.ts` makes.
* Key and address parsing (`sanitizeHexString`, `isHexString`,
  `verifySalt`): each script's validation is one nondeterministic choice of
  valid or invalid configuration. `deploy.ts` and
  `deploy-subnet-registrator.ts` check `PRIVATE_KEY` without adding a
  missing `0x`, which the other scripts do, so a key without the prefix is
  accepted by some scripts and refused by these two; no property is about
  it.

## Further work

The project has the twelve runs its check allows, so each of these needs a
run freed first.

1. A violation run for "a funded send-token run eventually sends"; the
   deployToken race and the allowance overwrite both break it.
2. A violation run for the rerun of `deploy-subnet-registrator.ts` after an
   unconfirmed deployment (the defect `deploy_rerun` shows for
   `deploy-topos-msg-protocol.ts`), with its deployment routed through
   `ConstAddrDeployer` so that the empty-key estimate is in it too.
3. ERC20Messaging over two chains: a source chain whose receipts are
   certified on a target chain, with the relayer as an actor of its own,
   and supply conservation across both.
