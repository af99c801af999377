---------------------------- MODULE MC_DeployScript ----------------------------
(* Three deploy.ts runs by one wallet of one contract: two with the same    *)
(* key, one without a gasLimit and one with enough gas, racing each other;  *)
(* a third with the empty key and too low a gasLimit.                       *)
EXTENDS DeployScript, TLC

CONSTANTS p1, p2, p3, w1, c1, k0, k1

MCWalletOf == [p \in Procs |-> w1]
MCContractOf == [p \in Procs |-> c1]
MCKeyOf == (p1 :> k1) @@ (p2 :> k1) @@ (p3 :> k0)
MCGasLimitOf == (p1 :> "none") @@ (p2 :> "enough") @@ (p3 :> "low")
=============================================================================
