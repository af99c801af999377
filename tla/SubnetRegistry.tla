--------------------------- MODULE SubnetRegistry ---------------------------
(***************************************************************************)
(* The subnet registry of the Topos subnet: the SubnetRegistrator contract *)
(* (Ownable, initialised once, a Bytes32Set of subnet ids and a record per *)
(* id), the script that deploys it (deploy-subnet-registrator.ts) and the  *)
(* operators' script that registers a subnet (register-subnet.ts).        *)
(*                                                                         *)
(* deploy-subnet-registrator.ts deploys through ConstAddressDeployer with  *)
(* no check for code at the address, prints the address and calls        *)
(* initialize(admin) without awaiting it: the process ends with 0 once    *)
(* the transaction is sent, before it is mined.  register-subnet.ts reads *)
(* subnets(subnetId), sends registerSubnet from the admin wallet and only *)
(* logs a failure of wait().  Several register-subnet runs may overlap;   *)
(* an outsider may call initialize() first; a transaction or an RPC call  *)
(* may fail (at most MaxFailures times).                                  *)
(*                                                                         *)
(* The contract is not in the TypeScript sources: its operations follow   *)
(* what SubnetRegistrator.test.ts checks of them.  Subnet records are     *)
(* abstracted to their presence (the scripts only test name # "").        *)
(***************************************************************************)
EXTENDS Naturals, Sequences, FiniteSets

CONSTANTS
    Admin,          \* the admin wallet: initialize(admin), registerSubnet
    Deployer,       \* the PRIVATE_KEY wallet that deploys
    Attackers,      \* accounts that may call initialize() first
    SubnetIds,      \* subnet ids (derived from sequencer keys)
    Procs,          \* concurrent runs of register-subnet.ts
    SubnetOf,       \* Procs -> SubnetIds: the subnet each run registers
    NoOwner,        \* owner() before initialize
    MaxFailures     \* bound on failed transactions/RPC calls

ASSUME /\ SubnetOf \in [Procs -> SubnetIds] /\ MaxFailures \in Nat
       /\ NoOwner \notin {Admin, Deployer} \cup Attackers

VARIABLES
    regCode,        \* code at the registrator's CREATE2 address
    owner,          \* Ownable owner; NoOwner while not initialised
    subnetSet,      \* Bytes32Set subnetSet
    subnets,        \* ids whose subnets(id) record is non-empty
    configValid,    \* the deploy script's keys are valid
    dpc,            \* deploy-subnet-registrator.ts: where main() is
    dstatus,        \* "running", "exit0" or "exit1"
    initTx,         \* the un-awaited initialize(admin) transaction
    rpc,            \* register-subnet.ts: where each run is
    rstatus,        \* how each run ended
    failures        \* failed transactions/RPC calls so far

contractVars == <<regCode, owner, subnetSet, subnets>>
deployVars == <<configValid, dpc, dstatus, initTx>>
registerVars == <<rpc, rstatus>>
vars == <<contractVars, deployVars, registerVars, failures>>

Set == INSTANCE Bytes32Sets WITH Keys <- SubnetIds

Outcomes == {"ok", "lost", "unconfirmed"}
Fails(o) == o # "ok"
Mined(o) == o # "lost"
CanFail(o) == Fails(o) => failures < MaxFailures
Failed(o) == failures' = IF Fails(o) THEN failures + 1 ELSE failures

Init ==
    /\ regCode = FALSE
    /\ owner = NoOwner
    /\ subnetSet = Set!EmptySet
    /\ subnets = {}
    /\ configValid \in BOOLEAN
    /\ dpc = "validate"
    /\ dstatus = "running"
    /\ initTx = "none"
    /\ rpc = [p \in Procs |-> "validate"]
    /\ rstatus = [p \in Procs |-> "running"]
    /\ failures = 0

-----------------------------------------------------------------------------
(* SubnetRegistrator, as SubnetRegistrator.test.ts exercises it.           *)

\* initialize(admin): once ("Initializable: contract is already initialized").
Initialize(caller, newOwner) ==
    /\ regCode /\ owner = NoOwner
    /\ owner' = newOwner
    /\ UNCHANGED <<regCode, subnetSet, subnets>>

\* registerSubnet(...): onlyOwner, then subnetSet.insert(subnetId) (reverts
\* on a duplicate) and the record.
RegisterSubnet(caller, id) ==
    /\ regCode /\ caller = owner
    /\ ~Set!Exists(subnetSet, id)
    /\ subnetSet' = Set!SetInsert(subnetSet, id)
    /\ subnets' = subnets \cup {id}
    /\ UNCHANGED <<regCode, owner>>

\* removeSubnet(subnetId): onlyOwner, subnetSet.remove (reverts when absent)
\* and SubnetRemoved.  The tests do not show whether the record is deleted,
\* so either outcome may happen.
RemoveSubnet(caller, id) ==
    /\ regCode /\ caller = owner
    /\ Set!Exists(subnetSet, id)
    /\ subnetSet' = Set!SetRemove(subnetSet, id)
    /\ subnets' \in {subnets \ {id}, subnets}
    /\ UNCHANGED <<regCode, owner>>

-----------------------------------------------------------------------------
(* deploy-subnet-registrator.ts                                            *)

\* Lines 11-31: the admin key and PRIVATE_KEY must be given and 32 bytes.
DeployValidate ==
    /\ dpc = "validate"
    /\ IF configValid THEN dpc' = "deploy" /\ dstatus' = "running"
       ELSE dpc' = "exited" /\ dstatus' = "exit1"
    /\ UNCHANGED <<contractVars, configValid, initTx, registerVars, failures>>

\* Lines 34-43 and 51-54: deployContractConstant (deploy, then tx.wait());
\* with code already at the address ConstAddressDeployer reverts.  Any
\* rejection reaches the catch and process.exit(1); on success the
\* callback prints the address.
DeployRegistrator(o) ==
    /\ dpc = "deploy"
    /\ CanFail(o)
    /\ regCode => o = "ok"
    /\ regCode' = (regCode \/ Mined(o))
    /\ IF regCode \/ Fails(o)
       THEN dpc' = "exited" /\ dstatus' = "exit1"
       ELSE dpc' = "initialize" /\ dstatus' = "running"
    /\ Failed(o)
    /\ UNCHANGED <<owner, subnetSet, subnets, configValid, initTx, registerVars>>

\* Line 49: subnetRegistrator.initialize(adminAddress), not awaited and not
\* caught.  Sending estimates gas first, which reverts when the contract is
\* initialised: an unhandled rejection, exit code 1.  Once the send
\* settles nothing is pending and Node exits, with 0 if it was accepted.
SendInitialize(o) ==
    /\ dpc = "initialize"
    /\ CanFail(o)
    /\ owner # NoOwner => o = "ok"
    /\ initTx' = IF owner = NoOwner /\ Mined(o) THEN "pending" ELSE initTx
    /\ dpc' = "exited"
    /\ dstatus' = IF owner = NoOwner /\ ~Fails(o) THEN "exit0" ELSE "exit1"
    /\ Failed(o)
    /\ UNCHANGED <<contractVars, configValid, registerVars>>

\* The initialize transaction after the process is gone: mined (a revert
\* when an outsider initialised first) or dropped from the mempool.
MineInitialize(o) ==
    /\ initTx = "pending"
    /\ o # "unconfirmed" /\ CanFail(o)
    /\ IF Mined(o) /\ owner = NoOwner THEN Initialize(Deployer, Admin)
       ELSE UNCHANGED contractVars
    /\ initTx' = IF Mined(o) THEN "mined" ELSE "dropped"
    /\ Failed(o)
    /\ UNCHANGED <<configValid, dpc, dstatus, registerVars>>

-----------------------------------------------------------------------------
(* register-subnet.ts, one run per process p.                              *)

\* Lines 6-94: the arguments must all be given, both keys must be 32-byte
\* hex strings and the registrator address a 20-byte one, or the run exits
\* with 1; the subnet id is derived from the sequencer key (SubnetOf[p]).
RegisterValidate(p) ==
    /\ rpc[p] = "validate"
    /\ \E valid \in BOOLEAN :
          /\ rpc' = [rpc EXCEPT ![p] = IF valid THEN "check" ELSE "exited"]
          /\ rstatus' = [rstatus EXCEPT ![p] = IF valid THEN "running" ELSE "exit1"]
    /\ UNCHANGED <<contractVars, deployVars, failures>>

\* Lines 96-105: subnets(subnetId); a non-empty name means registered and
\* the script exits with 0.  Without code at the address the call fails to
\* decode: an unhandled rejection, exit code 1.
CheckRegistered(p, o) ==
    /\ rpc[p] = "check"
    /\ CanFail(o)
    /\ CASE ~regCode \/ Fails(o)            -> rpc' = [rpc EXCEPT ![p] = "exited"]
                                               /\ rstatus' = [rstatus EXCEPT ![p] = "exit1"]
         [] SubnetOf[p] \in subnets         -> rpc' = [rpc EXCEPT ![p] = "exited"]
                                               /\ rstatus' = [rstatus EXCEPT ![p] = "exit0"]
         [] OTHER                           -> rpc' = [rpc EXCEPT ![p] = "send"]
                                               /\ UNCHANGED rstatus
    /\ Failed(o)
    /\ UNCHANGED <<contractVars, deployVars>>

\* Lines 107-116: registerSubnet with an explicit gas limit (no estimate);
\* a failed send is an unhandled rejection, exit code 1.
SendRegister(p, o) ==
    /\ rpc[p] = "send"
    /\ o # "unconfirmed" /\ CanFail(o)
    /\ rpc' = [rpc EXCEPT ![p] = IF Fails(o) THEN "exited" ELSE "wait"]
    /\ rstatus' = [rstatus EXCEPT ![p] = IF Fails(o) THEN "exit1" ELSE "running"]
    /\ Failed(o)
    /\ UNCHANGED <<contractVars, deployVars>>

\* Mutant: wait() is given a timeout, so a dropped transaction rejects
\* like a reverted one: logged, exit code 0.
WaitRegisterTimeout(p, o) ==
    /\ rpc[p] = "wait"
    /\ CanFail(o)
    /\ IF Mined(o) /\ Admin = owner /\ ~Set!Exists(subnetSet, SubnetOf[p])
       THEN RegisterSubnet(Admin, SubnetOf[p])
       ELSE UNCHANGED contractVars
    /\ rpc' = [rpc EXCEPT ![p] = "exited"]
    /\ rstatus' = [rstatus EXCEPT ![p] = "exit0"]
    /\ Failed(o)
    /\ UNCHANGED deployVars

\* Lines 118-126: the transaction is mined (it reverts unless the admin is
\* the owner and the id is new) and wait() settles; its rejection is only
\* logged, so main() returns and the exit code is 0.  A dropped
\* transaction leaves wait() pending for ever.
WaitRegister(p, o) ==
    /\ rpc[p] = "wait"
    /\ CanFail(o)
    /\ IF Mined(o) /\ Admin = owner /\ ~Set!Exists(subnetSet, SubnetOf[p])
       THEN RegisterSubnet(Admin, SubnetOf[p])
       ELSE UNCHANGED contractVars
    /\ rpc' = [rpc EXCEPT ![p] = IF Mined(o) THEN "exited" ELSE "stuck"]
    /\ rstatus' = [rstatus EXCEPT ![p] = IF Mined(o) THEN "exit0" ELSE "running"]
    /\ Failed(o)
    /\ UNCHANGED deployVars

-----------------------------------------------------------------------------
(* The environment: the operator reruns a failed deployment; an outsider *)
(* initialises the registrator; the admin removes a subnet by hand.       *)

DeployRerun ==
    /\ dstatus = "exit1"
    /\ dpc' = "validate"
    /\ configValid' = TRUE
    /\ dstatus' = "running"
    /\ UNCHANGED <<contractVars, initTx, registerVars, failures>>

FrontRunInitialize(a) ==
    /\ Initialize(a, a)
    /\ UNCHANGED <<deployVars, registerVars, failures>>

AdminRemoveSubnet(id) ==
    /\ RemoveSubnet(Admin, id)
    /\ UNCHANGED <<deployVars, registerVars, failures>>

Next ==
    \/ DeployValidate
    \/ \E o \in Outcomes : DeployRegistrator(o) \/ SendInitialize(o) \/ MineInitialize(o)
    \/ \E p \in Procs : RegisterValidate(p)
    \/ \E p \in Procs, o \in Outcomes :
          CheckRegistered(p, o) \/ SendRegister(p, o) \/ WaitRegister(p, o)
    \/ DeployRerun
    \/ \E a \in Attackers : FrontRunInitialize(a)
    \/ \E id \in SubnetIds : AdminRemoveSubnet(id)

\* Each process is scheduled on its own: the deploy script's successful
\* steps with the mining of its initialize, and each register-subnet run's
\* successful steps, are weakly fair, as is the operator's rerun.
DeployProgress ==
    DeployValidate \/ DeployRegistrator("ok") \/ SendInitialize("ok") \/ MineInitialize("ok")

RegisterProgress(p) ==
    RegisterValidate(p) \/ CheckRegistered(p, "ok") \/ SendRegister(p, "ok")
    \/ WaitRegister(p, "ok")

Spec == Init /\ [][Next]_vars /\ WF_vars(DeployProgress) /\ WF_vars(DeployRerun)
        /\ \A p \in Procs : WF_vars(RegisterProgress(p))

-----------------------------------------------------------------------------
\* While the admin owns the registrator, a register-subnet.ts run exits
\* with 0 only with a record for its subnet, the record subnets(id) the
\* script itself reads: when it found the record, when
\* its registerSubnet was mined, and when two runs both read the subnet as
\* unregistered and the later transaction reverted on the duplicate id
\* (only logged, exit 0), also with the admin removing subnets meanwhile
\* and a dropped transaction leaving wait() pending.
OwnedExitZeroMeansRegistered ==
    [][\A p \in Procs :
         (owner = Admin /\ rstatus[p] # "exit0" /\ rstatus'[p] = "exit0")
            => SubnetOf[p] \in subnets']_vars

\* Once deploy-subnet-registrator.ts has exited with 0 and its initialize()
\* transaction has left the mempool, the admin owns the registrator.
RegistratorOwnedAfterDeploy ==
    (dstatus = "exit0" /\ initTx \in {"mined", "dropped"}) => owner = Admin

\* A run of register-subnet.ts that exits with 0 leaves its subnet
\* registered (either found registered, or registered by its transaction).
RegisterExitZeroMeansRegistered ==
    [][\A p \in Procs :
         (rstatus[p] # "exit0" /\ rstatus'[p] = "exit0") => SubnetOf[p] \in subnets']_vars
=============================================================================
