-------------------------- MODULE ConstAddrDeployer --------------------------
(***************************************************************************)
(* scripts/const-addr-deployer.ts: deployment at a constant address        *)
(* through the ConstAddressDeployer contract at CONST_ADDRESS_DEPLOYER_ADDR.*)
(* The address deployedAddress(bytecode, sender, salt) is a CREATE2        *)
(* address: a function of the bytecode (the contract with its constructor  *)
(* arguments), the sending wallet and the salt keccak256(abi.encode(key)). *)
(* Keccak is taken to be injective, so an address is the triple itself.    *)
(*                                                                         *)
(* The chain state is which address holds code and who put it there.      *)
(***************************************************************************)
CONSTANTS
    Wallets,        \* wallets that send deployments
    Contracts,      \* contract JSON with its constructor arguments
    Keys,           \* salt keys
    EmptyKey,       \* the key '' that estimateGasForDeploy uses
    NoCode          \* creator of an address without code

ASSUME EmptyKey \in Keys

VARIABLE creator    \* address -> the deployment that created its code, or NoCode

Addresses == Wallets \X Contracts \X Keys

\* getSaltFromKey, then deployer.deployedAddress(bytecode, wallet.address,
\* salt): the address a deployment of c by w with key k gets.
PredictContractConstant(w, c, k) == <<w, c, k>>

HasCode(a) == creator[a] # NoCode

\* estimateGasForDeploy: deploy.estimateGas(bytecode, getSaltFromKey('')).
\* The estimate simulates the deployment with the salt of the empty key,
\* whatever key the caller deploys with, and rejects when that simulated
\* CREATE2 would fail on an occupied address.
EstimateGasForDeploy(w, c) == ~HasCode(PredictContractConstant(w, c, EmptyKey))

\* deployer.deploy(bytecode, salt, {gasLimit}) once mined: CREATE2 puts the
\* code at the address unless code is there already or the gas limit is
\* too low; either failure reverts the transaction (receipt status 0).
DeploySucceeds(w, c, k, gasEnough) ==
    gasEnough /\ ~HasCode(PredictContractConstant(w, c, k))

MineDeploy(w, c, k, gasEnough, by) ==
    creator' = IF DeploySucceeds(w, c, k, gasEnough)
               THEN [creator EXCEPT ![PredictContractConstant(w, c, k)] = by]
               ELSE creator
=============================================================================
