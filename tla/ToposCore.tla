----------------------------- MODULE ToposCore -----------------------------
(***************************************************************************)
(* The certificate store of a subnet (ToposCore behind ToposCoreProxy,     *)
(* spec 4.2): initialisation of the admin set, pushCertificate with its    *)
(* duplicate check, the per-source checkpoint table and the lookup of a    *)
(* certificate by receipt root, setNetworkSubnetId and upgrade.            *)
(*                                                                         *)
(* The contract is not part of the TypeScript sources: its operations are  *)
(* modelled from the spec and from what ToposCore.test.ts checks of them.  *)
(* Each transaction is atomic (spec 5): a call that reverts changes        *)
(* nothing, so it is the absence of a step.                                *)
(***************************************************************************)
EXTENDS Naturals, Sequences, FiniteSets

CONSTANTS
    Callers,        \* externally owned accounts that send transactions
    Zero,           \* the zero address
    CertIds,        \* certificate identifiers
    Subnets,        \* subnet identifiers
    Roots,          \* receipt roots a certificate may carry
    Positions,      \* caller-supplied checkpoint positions
    Impls,          \* deployed ToposCore implementation contracts
    AdminLists,     \* admin address lists offered to initialize()
    Thresholds,     \* admin thresholds offered to initialize()
    NoCert,         \* "no certificate" in the receipt-root index
    NoSubnet        \* networkSubnetId before it is set

ASSUME Zero \notin Callers /\ NoCert \notin CertIds /\ NoSubnet \notin Subnets

VARIABLES
    initialized,        \* Initializable flag of the proxy's storage
    admins,             \* the admin set written by initialize()
    implementation,     \* the logic contract the proxy delegates to
    networkSubnetId,    \* the id of the subnet this contract runs on
    certIdSet,          \* Bytes32Set of stored certificate ids
    certificates,       \* certificate id -> stored certificate
    sourceSubnetIdSet,  \* Bytes32Set of sources that have a checkpoint
    checkpoints,        \* source subnet -> [certId, position]
    receiptRootToCertId \* receipt root -> id of the certificate indexed

coreVars == <<initialized, admins, implementation, networkSubnetId, certIdSet,
              certificates, sourceSubnetIdSet, checkpoints, receiptRootToCertId>>

CertSet   == INSTANCE Bytes32Sets WITH Keys <- CertIds
SubnetSet == INSTANCE Bytes32Sets WITH Keys <- Subnets

\* encodeCertParam: the ABI encoding the contract decodes back into these
\* fields.  stateRoot, txRoot, targetSubnets, verifier, starkProof and
\* signature are carried unchanged and read by nothing modelled here.
Certificate(prevId, sourceSubnetId, receiptRoot, certId) ==
    [prevId |-> prevId, sourceSubnetId |-> sourceSubnetId,
     receiptRoot |-> receiptRoot, certId |-> certId]

CertType == [prevId : CertIds \cup {NoCert}, sourceSubnetId : Subnets,
             receiptRoot : Roots, certId : CertIds]

NoCheckpoint == [certId |-> NoCert, position |-> 0]

CoreInit ==
    /\ initialized = FALSE
    /\ admins = {}
    /\ implementation \in Impls
    /\ networkSubnetId = NoSubnet
    /\ certIdSet = CertSet!EmptySet
    /\ certificates = [c \in CertIds |-> NoCert]
    /\ sourceSubnetIdSet = SubnetSet!EmptySet
    /\ checkpoints = [s \in Subnets |-> NoCheckpoint]
    /\ receiptRootToCertId = [r \in Roots |-> NoCert]

(***************************************************************************)
(* initialize(adminAddresses, threshold): callable by anyone, once.        *)
(* Reverts when already initialized, InvalidAdminThreshold when the        *)
(* threshold is 0, InvalidAdmins when it exceeds the list or the list      *)
(* holds the zero address, DuplicateAdmin on a repeated address.           *)
(***************************************************************************)
\* Mutant: the zero address is not refused as an admin.
ValidAdminsWithZero(list, threshold) ==
    /\ threshold # 0
    /\ threshold <= Len(list)
    /\ \A i, j \in DOMAIN list : i # j => list[i] # list[j]

ValidAdmins(list, threshold) ==
    /\ threshold # 0
    /\ threshold <= Len(list)
    /\ \A i \in DOMAIN list : list[i] # Zero
    /\ \A i, j \in DOMAIN list : i # j => list[i] # list[j]

Initialize(list, threshold) ==
    /\ ~initialized
    /\ ValidAdmins(list, threshold)
    /\ initialized' = TRUE
    /\ admins' = {list[i] : i \in DOMAIN list}
    /\ UNCHANGED <<implementation, networkSubnetId, certIdSet, certificates,
                   sourceSubnetIdSet, checkpoints, receiptRootToCertId>>

(***************************************************************************)
(* pushCertificate(cert, position), onlyAdmin: stores the certificate,     *)
(* inserts its id (DuplicateKey "key already exists in the set."),         *)
(* overwrites the checkpoint of its source and indexes it by receipt root. *)
(***************************************************************************)

UpdatedCheckpoints(cert, position) ==
    [checkpoints EXCEPT ![cert.sourceSubnetId] =
        [certId |-> cert.certId, position |-> position]]

UpdatedRootIndex(cert) ==
    [receiptRootToCertId EXCEPT ![cert.receiptRoot] = cert.certId]

PushCertificate(caller, cert, position) ==
    /\ caller \in admins
    /\ ~CertSet!Exists(certIdSet, cert.certId)
    /\ certIdSet' = CertSet!SetInsert(certIdSet, cert.certId)
    /\ certificates' = [certificates EXCEPT ![cert.certId] = cert]
    /\ sourceSubnetIdSet' =
           IF SubnetSet!Exists(sourceSubnetIdSet, cert.sourceSubnetId)
           THEN sourceSubnetIdSet
           ELSE SubnetSet!SetInsert(sourceSubnetIdSet, cert.sourceSubnetId)
    /\ checkpoints' = UpdatedCheckpoints(cert, position)
    /\ receiptRootToCertId' = UpdatedRootIndex(cert)
    /\ UNCHANGED <<initialized, admins, implementation, networkSubnetId>>

\* setNetworkSubnetId(id), called by the admin (the sequencer) at deployment.
SetNetworkSubnetId(caller, id) ==
    /\ caller \in admins
    /\ networkSubnetId' = id
    /\ UNCHANGED <<initialized, admins, implementation, certIdSet, certificates,
                   sourceSubnetIdSet, checkpoints, receiptRootToCertId>>

\* upgrade(newImplementation, codeHash), onlyAdmin: InvalidCodeHash unless
\* the hash is the code hash of the new implementation (modelled as the
\* implementation itself).  Storage stays in the proxy and is kept.
Upgrade(caller, newImpl, codeHash) ==
    /\ caller \in admins
    /\ codeHash = newImpl
    /\ implementation' = newImpl
    /\ UNCHANGED <<initialized, admins, networkSubnetId, certIdSet, certificates,
                   sourceSubnetIdSet, checkpoints, receiptRootToCertId>>

\* getCheckpoints(): one entry per source, in the order sources first appeared.
GetCheckpoints ==
    [i \in 1 .. SubnetSet!Count(sourceSubnetIdSet) |->
        LET s == sourceSubnetIdSet.keys[i]
        IN  [certId |-> checkpoints[s].certId,
             position |-> checkpoints[s].position, sourceSubnetId |-> s]]

-----------------------------------------------------------------------------
(* The certificates stored so far, as the messaging model reads them.      *)

StoredCerts == {certificates[certIdSet.keys[i]] : i \in DOMAIN certIdSet.keys}

-----------------------------------------------------------------------------
(* The store on its own: an admin (the relayer's sequencer key) pushes     *)
(* certificates built with encodeCertParam, as ToposCore.test.ts does.     *)

CoreNext ==
    \/ \E list \in AdminLists, t \in Thresholds : Initialize(list, t)
    \/ \E caller \in Callers, id \in CertIds, src \in Subnets, r \in Roots,
          pos \in Positions :
          PushCertificate(caller, Certificate(NoCert, src, r, id), pos)
    \/ \E caller \in Callers, id \in Subnets : SetNetworkSubnetId(caller, id)
    \/ \E caller \in Callers, impl \in Impls, h \in Impls :
          Upgrade(caller, impl, h)

CoreSpec == CoreInit /\ [][CoreNext]_coreVars

-----------------------------------------------------------------------------
CoreTypeOK ==
    /\ initialized \in BOOLEAN
    /\ admins \subseteq Callers
    /\ implementation \in Impls
    /\ networkSubnetId \in Subnets \cup {NoSubnet}
    /\ certIdSet \in CertSet!SetType
    /\ certificates \in [CertIds -> CertType \cup {NoCert}]
    /\ sourceSubnetIdSet \in SubnetSet!SetType
    /\ checkpoints \in [Subnets -> [certId : CertIds \cup {NoCert}, position : Positions \cup {0}]]
    /\ receiptRootToCertId \in [Roots -> CertIds \cup {NoCert}]
=============================================================================
