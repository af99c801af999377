\* Any of the two addresses may hold code from before; one failed call.
CONSTANTS
    p1 = p1
    p2 = p2
    p3 = p3
    w1 = w1
    c1 = c1
    k0 = k0
    k1 = k1
    Wallets = {w1}
    Contracts = {c1}
    Keys = {k0, k1}
    EmptyKey = k0
    NoCode = NoCode
    Earlier = Earlier
    Procs = {p1, p2, p3}
    WalletOf <- MCWalletOf
    ContractOf <- MCContractOf
    KeyOf <- MCKeyOf
    GasLimitOf <- MCGasLimitOf
    MaxFailures = 1
SPECIFICATION Spec
INVARIANT ResolvedRunDeployedIt
\* deploy.ts ends once every run has returned: that is a real stop.
CHECK_DEADLOCK FALSE
