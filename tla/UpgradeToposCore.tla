--------------------------- MODULE UpgradeToposCore ---------------------------
(***************************************************************************)
(* scripts/upgrade-topos-core.ts against a chain holding an initialised    *)
(* ToposCoreProxy whose only admin is the sequencer.  The script deploys   *)
(* the new ToposCore at the address fixed by TOPOS_CORE_SALT (reusing code *)
(* already there), deploys a CodeHash helper to read that code's hash,     *)
(* reads the current implementation, sends upgrade(new, hash) from the     *)
(* key it is given, and logs the implementation it reads back.  Any error *)
(* ends the process with exit code 1, by process.exit(1) in a catch or by  *)
(* an unhandled rejection; the operator then reruns it, possibly after     *)
(* correcting the key.  Failed calls are bounded by MaxFailures.  The     *)
(* proxy is the one ToposCoreLifecycle has deploy-topos-core.ts deploy.    *)
(***************************************************************************)
EXTENDS ToposCore

CONSTANTS
    Sequencer,      \* the admin of the proxy
    WrongKey,       \* a valid key that is not an admin
    OldImpl,        \* the implementation before the upgrade
    NewImpl,        \* ToposCore at its TOPOS_CORE_SALT address
    MaxFailures     \* bound on failed transactions/RPC calls over all runs

ASSUME /\ {Sequencer, WrongKey} \subseteq Callers /\ Sequencer # WrongKey
       /\ {OldImpl, NewImpl} \subseteq Impls /\ MaxFailures \in Nat

VARIABLES
    implCode,       \* code is at NewImpl's predicted address
    configValid,    \* PRIVATE_KEY, the sequencer key and the salt are given
    keyIsAdmin,     \* the sequencer key given is the proxy's admin
    pc,             \* where main() is
    printed,        \* the "successfully upgraded" line was logged
    status,         \* "running", "exit0" or "exit1"
    failures        \* failed transactions/RPC calls so far

scriptVars == <<implCode, configValid, keyIsAdmin, pc, printed, status, failures>>
vars == <<coreVars, scriptVars>>

Outcomes == {"ok", "lost", "unconfirmed"}
Fails(o) == o # "ok"
Mined(o) == o # "lost"
CanFail(o) == Fails(o) => failures < MaxFailures

\* process.exit(1), or Node's exit on an unhandled rejection.
Exit1(o) ==
    /\ pc' = "exited"
    /\ status' = "exit1"
    /\ failures' = IF Fails(o) THEN failures + 1 ELSE failures

Goto(next) == pc' = next /\ UNCHANGED <<status, failures>>

\* The script about to start, with or without a valid configuration and
\* the proxy admin's key.
ScriptInit ==
    /\ implCode = FALSE
    /\ configValid \in BOOLEAN
    /\ keyIsAdmin \in BOOLEAN
    /\ pc = "validate"
    /\ printed = FALSE
    /\ status = "running"
    /\ failures = 0

\* Lines 41-59: PRIVATE_KEY and the sequencer key are 32-byte hex strings,
\* verifySalt exits when TOPOS_CORE_SALT is missing.
Validate ==
    /\ pc = "validate"
    /\ IF configValid THEN Goto("processContract") ELSE Exit1("ok")
    /\ UNCHANGED <<coreVars, implCode, configValid, keyIsAdmin, printed>>

\* Mutant: deploy without looking for code at the predicted address.
ProcessContractNoCodeCheck(o) ==
    /\ pc = "processContract"
    /\ CanFail(o)
    /\ implCode => o = "ok"
    /\ implCode' = (implCode \/ Mined(o))
    /\ IF implCode \/ Fails(o) THEN Exit1(o) ELSE Goto("prepare")
    /\ UNCHANGED <<coreVars, configValid, keyIsAdmin, printed>>

\* processContract, lines 99-140 (lines 64-70): predictContractConstant and
\* getCode; with code there its address is used, otherwise
\* deployContractConstant.  A failed call exits with 1.
ProcessContract(o) ==
    /\ pc = "processContract"
    /\ CanFail(o)
    /\ implCode => o # "unconfirmed"
    /\ implCode' = (implCode \/ Mined(o))
    /\ IF Fails(o) THEN Exit1(o) ELSE Goto("prepare")
    /\ UNCHANGED <<coreVars, configValid, keyIsAdmin, printed>>

\* Lines 72-82: deploy CodeHash, getCodeHash(new address), implementation();
\* none changes what the properties read, any may fail.
Prepare(o) ==
    /\ pc = "prepare"
    /\ o # "unconfirmed" /\ CanFail(o)
    /\ IF Fails(o) THEN Exit1(o) ELSE Goto("upgrade")
    /\ UNCHANGED <<coreVars, implCode, configValid, keyIsAdmin, printed>>

\* The caller of upgrade(): the wallet of the sequencer key given.
Signer == IF keyIsAdmin THEN Sequencer ELSE WrongKey

\* Mutant: a reverted upgrade is taken for a successful one.
UpgradeStepIgnoringRevert(o) ==
    /\ pc = "upgrade"
    /\ CanFail(o)
    /\ IF Mined(o) /\ Signer \in admins THEN Upgrade(Signer, NewImpl, NewImpl)
       ELSE UNCHANGED coreVars
    /\ IF Fails(o) THEN Exit1(o) ELSE Goto("report")
    /\ UNCHANGED <<implCode, configValid, keyIsAdmin, printed>>

\* Lines 84-93 and processTransaction, lines 142-183: upgrade(new, codeHash)
\* with a fixed gas limit, then wait().  A revert (NotAdmin) or a failed
\* wait() goes to the catch, which diagnoses the failure and exits with 1.
UpgradeStep(o) ==
    /\ pc = "upgrade"
    /\ CanFail(o)
    /\ IF Mined(o) /\ Signer \in admins THEN Upgrade(Signer, NewImpl, NewImpl)
       ELSE UNCHANGED coreVars
    /\ IF Fails(o) \/ Signer \notin admins THEN Exit1(o) ELSE Goto("report")
    /\ UNCHANGED <<implCode, configValid, keyIsAdmin, printed>>

\* Lines 94-96: read implementation() back and log it; main() returns.
Report(o) ==
    /\ pc = "report"
    /\ o # "unconfirmed" /\ CanFail(o)
    /\ IF Fails(o) THEN Exit1(o) /\ UNCHANGED printed
       ELSE /\ pc' = "exited" /\ status' = "exit0" /\ printed' = TRUE
            /\ UNCHANGED failures
    /\ UNCHANGED <<coreVars, implCode, configValid, keyIsAdmin>>

\* The operator reruns a failed upgrade with a corrected configuration.
Rerun ==
    /\ status = "exit1"
    /\ pc' = "validate"
    /\ configValid' = TRUE
    /\ keyIsAdmin' = TRUE
    /\ status' = "running"
    /\ UNCHANGED <<coreVars, implCode, printed, failures>>

\* Meanwhile the sequencer goes on certifying through the proxy.
Certify(id, src, r) ==
    /\ PushCertificate(Sequencer, Certificate(NoCert, src, r, id), CHOOSE p \in Positions : TRUE)
    /\ UNCHANGED scriptVars

Next ==
    \/ Validate \/ Rerun
    \/ \E id \in CertIds, src \in Subnets, r \in Roots : Certify(id, src, r)
    \/ \E o \in Outcomes :
          ProcessContract(o) \/ Prepare(o) \/ UpgradeStep(o) \/ Report(o)

ScriptStep ==
    Validate \/ ProcessContract("ok") \/ Prepare("ok") \/ UpgradeStep("ok")
    \/ Report("ok")

-----------------------------------------------------------------------------
\* When the script logs a successful upgrade, the proxy delegates to the
\* new ToposCore, whose code is at the salted address, the sequencer is
\* still its only admin and the certificates pushed before and during the
\* upgrade are all still stored: a wrong key or a failed step never ends
\* in that log line.
UpgradeReported ==
    printed => /\ implementation = NewImpl /\ implCode
               /\ admins = {Sequencer}
               /\ CertSet!Members(certIdSet) = {c \in CertIds : certificates[c] # NoCert}

=============================================================================
