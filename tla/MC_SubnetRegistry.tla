------------------------- MODULE MC_SubnetRegistry -------------------------
EXTENDS SubnetRegistry, TLC

CONSTANTS p1, p2, p3, s1, s2

\* The register-subnet runs all register the same subnet.
MCSameSubnet == [p \in Procs |-> CHOOSE s \in SubnetIds : TRUE]
\* p1 and p2 register the same subnet, p3 another one.
MCTwoSubnets == (p1 :> s1) @@ (p2 :> s1) @@ (p3 :> s2)
=============================================================================
