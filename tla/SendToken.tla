------------------------------ MODULE SendToken ------------------------------
(***************************************************************************)
(* scripts/test/send-token.ts, run several times at once against one       *)
(* ERC20Messaging (the one at ERC20_MESSAGING_ADDRESS).  Each run looks    *)
(* for token X among the registered tokens and deploys it when absent      *)
(* (checkAndDeployToken), approves the messenger for the amount, sends     *)
(* the tokens to TARGET_SUBNET_ID_4 and logs the remaining balance.  Any   *)
(* rejection ends main(), whose .catch(console.error) only logs it: every  *)
(* run exits with 0, having either logged "Token sent" or an error.        *)
(*                                                                         *)
(* The messenger is the one of ERC20Messaging; token X is its token.  A    *)
(* call may fail before anything is mined ("lost") or after its            *)
(* transaction is mined ("unconfirmed"), at most MaxFailures times.        *)
(***************************************************************************)
EXTENDS ERC20Messaging

CONSTANTS
    Procs,          \* concurrent runs of send-token.ts
    SenderOf,       \* Procs -> Users: the wallet of senderPrivateKey
    AmountOf,       \* Procs -> Amounts: the amount argument
    Receiver,       \* receiverAddress
    TargetSubnet,   \* cc.TARGET_SUBNET_ID_4
    Messenger,      \* the ERC20Messaging at ERC20_MESSAGING_ADDRESS
    LimitX,         \* tc.DAILY_MINT_LIMIT_100 of the default token X
    MaxFailures     \* bound on failed calls over all runs

ASSUME /\ SenderOf \in [Procs -> Users] /\ AmountOf \in [Procs -> Amounts]
       /\ Receiver \in Recipients /\ TargetSubnet \in Subnets
       /\ Messenger \in Messengers /\ LimitX \in DailyLimits
       /\ MaxFailures \in Nat

VARIABLES
    configValid,    \* ERC20_MESSAGING_ADDRESS is a 20-byte hex string
    spc,            \* where each run is
    sstatus,        \* "running", or what the run logged: "sent" or "error"
    failures        \* failed calls so far

scriptVars == <<configValid, spc, sstatus, failures>>
allVars == <<vars, scriptVars>>

Outcomes == {"ok", "lost", "unconfirmed"}
Fails(o) == o # "ok"
Mined(o) == o # "lost"
CanFail(o) == Fails(o) => failures < MaxFailures

Goto(p, step) ==
    /\ spc' = [spc EXCEPT ![p] = step]
    /\ UNCHANGED <<sstatus, failures>>

\* main() settles: "Token sent", or a rejection logged by console.error.
Finish(p, logged, o) ==
    /\ spc' = [spc EXCEPT ![p] = "done"]
    /\ sstatus' = [sstatus EXCEPT ![p] = logged]
    /\ failures' = IF Fails(o) THEN failures + 1 ELSE failures

SendInit ==
    /\ FixtureInit
    /\ configValid \in BOOLEAN
    /\ spc = [p \in Procs |-> "validate"]
    /\ sstatus = [p \in Procs |-> "running"]
    /\ failures = 0

\* Lines 35-48: an invalid ERC20_MESSAGING_ADDRESS throws inside main().
Validate(p) ==
    /\ spc[p] = "validate"
    /\ IF configValid THEN Goto(p, "check") ELSE Finish(p, "error", "ok")
    /\ UNCHANGED <<vars, configValid>>

\* checkAndDeployToken, lines 17-24: getTokenCount, then the symbol of each
\* registered token; X found means its address is used.
CheckToken(p, o) ==
    /\ spc[p] = "check"
    /\ o # "unconfirmed" /\ CanFail(o)
    /\ CASE Fails(o)                    -> Finish(p, "error", o)
         [] tokens[Messenger] # NoToken -> Goto(p, "approve")
         [] OTHER                       -> Goto(p, "deploy")
    /\ UNCHANGED <<vars, configValid>>

\* Lines 26-31: deployToken with a fixed gas limit, so nothing estimates
\* it first: the transaction is mined even when it reverts on the taken
\* symbol, and wait() then rejects.  getTokenBySymbol gives the address.
DeployTokenStep(p, o) ==
    /\ spc[p] = "deploy"
    /\ CanFail(o)
    /\ IF Mined(o) /\ ~DeployTokenReverts(Messenger)
       THEN DeployToken(SenderOf[p], Messenger, LimitX)
       ELSE UNCHANGED vars
    /\ IF Fails(o) \/ DeployTokenReverts(Messenger)
       THEN Finish(p, "error", o) ELSE Goto(p, "approve")
    /\ UNCHANGED configValid

\* Lines 62-68: balanceOf (logged), approve(messenger, amount), wait().
ApproveStep(p, o) ==
    /\ spc[p] = "approve"
    /\ CanFail(o)
    /\ IF Mined(o) THEN Approve(SenderOf[p], Messenger, AmountOf[p])
       ELSE UNCHANGED vars
    /\ IF Fails(o) THEN Finish(p, "error", o) ELSE Goto(p, "send")
    /\ UNCHANGED configValid

\* Mutant: the run logs "Token sent" once sendToken is mined, whether or
\* not it would have reverted.
SendStepNoRevertCheck(p, o) ==
    LET u == SenderOf[p] IN
    /\ spc[p] = "send"
    /\ CanFail(o)
    /\ IF Mined(o) THEN SendTokenTx(u, Messenger, TargetSubnet, Receiver, AmountOf[p])
       ELSE UNCHANGED vars
    /\ Finish(p, IF ~Fails(o) THEN "sent" ELSE "error", o)
    /\ UNCHANGED configValid

\* Lines 70-83: sendToken is estimated first, so one that would revert
\* rejects before anything is mined; a mined one has status 1, and the
\* remaining balance is read and logged.
SendStep(p, o) ==
    LET u == SenderOf[p]
        ok == SendTokenError(u, Messenger, AmountOf[p]) = "ok"
    IN
    /\ spc[p] = "send"
    /\ CanFail(o)
    /\ o = "unconfirmed" => ok
    /\ IF Mined(o) THEN SendTokenTx(u, Messenger, TargetSubnet, Receiver, AmountOf[p])
       ELSE UNCHANGED vars
    /\ Finish(p, IF ok /\ ~Fails(o) THEN "sent" ELSE "error", o)
    /\ UNCHANGED configValid

SendNext ==
    \/ \E p \in Procs : Validate(p)
    \/ \E p \in Procs, o \in Outcomes :
          \/ CheckToken(p, o) \/ DeployTokenStep(p, o)
          \/ ApproveStep(p, o) \/ SendStep(p, o)

\* Every run keeps going while its calls succeed.
RunStep(p) ==
    Validate(p) \/ CheckToken(p, "ok") \/ DeployTokenStep(p, "ok")
    \/ ApproveStep(p, "ok") \/ SendStep(p, "ok")

SendSpec == SendInit /\ [][SendNext]_allVars /\ \A p \in Procs : WF_allVars(RunStep(p))

-----------------------------------------------------------------------------
BurntX == LET sends == {i \in DOMAIN blocks : blocks[i].origin = Messenger}
          IN  SumFunctionOnSet([i \in sends |-> blocks[i].amount], sends)

\* However the runs interleave, token X is minted once: its supply is what
\* its holders have, and that plus everything the runs burnt is its
\* initial supply, even when two runs both found X missing and both sent
\* deployToken.
SupplyConserved ==
    tokens[Messenger] # NoToken =>
        LET held == SumFunctionOnSet(balance[Messenger], Users) IN
        /\ tokens[Messenger].supply = held
        /\ held + BurntX = InitialSupply

\* Every run that logged "Token sent" has its amount among the tokens
\* burnt for a cross-subnet message, also when two runs of one sender
\* overwrote each other's allowance and one sendToken fails on it.  (A run
\* whose sendToken was mined but not confirmed logs an error, so the burnt
\* amount may be larger.)
SentRunsBurnt ==
    SumFunctionOnSet(AmountOf, {p \in Procs : sstatus[p] = "sent"}) <= BurntX
=============================================================================
