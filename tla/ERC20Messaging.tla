---------------------------- MODULE ERC20Messaging ----------------------------
(***************************************************************************)
(* Cross-subnet token messaging (spec 4.3, 4.4) over one chain, as         *)
(* ToposMessaging.test.ts drives it: one ToposCore, already initialised    *)
(* with the admin and given its network subnet id, and several messaging   *)
(* contracts sharing it (erc20Messaging and erc20Messaging2 of the         *)
(* fixture).  A user approves and sends tokens (sendToken burns them and   *)
(* emits Transfer, CrossSubnetMessageSent and TokenSent in one receipt),   *)
(* each sending transaction is mined in a block of its own, the admin      *)
(* pushes a certificate carrying a block's receipt root, and anyone calls  *)
(* execute() with a proof of a receipt against a root to mint the tokens.  *)
(*                                                                         *)
(* Receipt roots are block numbers: a root commits to the receipts of one  *)
(* block, and a proof verifies against exactly the root of the block its   *)
(* receipt is in.  One token symbol per messaging contract; amounts are    *)
(* small integers; time advances by Tick up to MaxTime.                    *)
(***************************************************************************)
EXTENDS ToposCore, Integers, Functions

CONSTANTS
    Admin,          \* the ToposCore admin (the sequencer)
    Messengers,     \* ERC20Messaging contracts sharing the ToposCore
    Users,          \* token holders
    Recipients,     \* recipients a sender names (may include Zero)
    Amounts,        \* amounts sent or approved
    InitialSupply,  \* minted to the deployer of a token
    MintCap,        \* cap of every token
    DailyLimits,    \* daily mint limits offered to deployToken (0: none)
    Day,            \* length of a mint window in ticks
    MaxTime,        \* bound on the clock
    MaxBlocks,      \* bound on the number of mined sendToken transactions
    ThisSubnet,     \* networkSubnetId set on ToposCore
    Recertify       \* whether the admin may certify a root a second time

ASSUME /\ Admin \in Callers /\ Users \subseteq Callers /\ ThisSubnet \in Subnets
       /\ Roots = 1 .. MaxBlocks /\ Day \in Nat \ {0} /\ Recertify \in BOOLEAN

VARIABLES
    tokens,         \* messenger -> its token entry, or NoToken
    balance,        \* messenger -> user -> balance of its token
    allowance,      \* messenger -> user -> allowance granted to messenger
    blocks,         \* receipts of mined sendToken transactions, by block
    nonce,          \* target subnet -> CrossSubnetMessageSent sequence number
    executed,       \* messenger -> replay markers <<certId, logIndex>>
    now,            \* block timestamp
    mints,          \* history: successful executions, in order
    lastResult      \* outcome of the last sendToken or execute call

msgVars == <<tokens, balance, allowance, blocks, nonce, executed, now, mints,
             lastResult>>
vars == <<coreVars, msgVars>>

NoToken == [limit |-> 0, supply |-> 0, mintedToday |-> 0, windowStart |-> 0]
LogCount == 3               \* logs in a sendToken receipt
LogIndices == 0 .. LogCount \* LogCount itself is out of range
TokenSentIndex == 2         \* TOKEN_SENT_INDEX_2 of the tests

\* The logs of a sendToken receipt: Transfer (burn) emitted by the token,
\* CrossSubnetMessageSent by ToposCore, TokenSent by the messaging contract.
\* A log index picks the emitter the origin check compares.
\* Mutant: the emitter is read from the TokenSent log whatever the index.
LogEmitterAnyIndex(receipt, i) == receipt.origin

LogEmitter(receipt, i) ==
    <<"token", "core", receipt.origin>>[i + 1]

\* deployERC20MessagingFixture: ConstAddressDeployer, TokenDeployer,
\* ToposCore behind its proxy initialised with [admin] and threshold 1, and
\* the messaging contracts; each execute test then sets the network subnet
\* id.  No token is deployed and nothing is certified yet.
FixtureInit ==
    /\ initialized = TRUE
    /\ admins = {Admin}
    /\ implementation \in Impls
    /\ networkSubnetId = ThisSubnet
    /\ certIdSet = CertSet!EmptySet
    /\ certificates = [c \in CertIds |-> NoCert]
    /\ sourceSubnetIdSet = SubnetSet!EmptySet
    /\ checkpoints = [s \in Subnets |-> NoCheckpoint]
    /\ receiptRootToCertId = [r \in Roots |-> NoCert]
    /\ tokens = [m \in Messengers |-> NoToken]
    /\ balance = [m \in Messengers |-> [u \in Users |-> 0]]
    /\ allowance = [m \in Messengers |-> [u \in Users |-> 0]]
    /\ blocks = << >>
    /\ nonce = [s \in Subnets |-> 0]
    /\ executed = [m \in Messengers |-> {}]
    /\ now = 0
    /\ mints = << >>
    /\ lastResult = "none"

Init == FixtureInit

(***************************************************************************)
(* TokenRegistry (spec 4.3).  deployToken reverts when the symbol is       *)
(* taken; the new token mints its initial supply to the caller.  The mint  *)
(* window starts "before time" (windowStart 0 against real timestamps), so *)
(* the first mint always opens a window: here windowStart is -Day.         *)
(***************************************************************************)
\* Mutant: the taken symbol is not checked.
DeployTokenNoDuplicateCheck(m) == FALSE

\* deployToken reverts when the symbol is registered, whoever deployed it.
DeployTokenReverts(m) == tokens[m] # NoToken

DeployToken(caller, m, limit) ==
    /\ ~DeployTokenReverts(m)
    /\ tokens' = [tokens EXCEPT ![m] = [limit |-> limit, supply |-> InitialSupply,
                                        mintedToday |-> 0, windowStart |-> -Day]]
    /\ balance' = [balance EXCEPT ![m][caller] = InitialSupply]
    /\ UNCHANGED <<coreVars, allowance, blocks, nonce, executed, now, mints, lastResult>>

\* erc20.approve(erc20MessagingAddress, amount), as deployDefaultToken does:
\* the allowance is overwritten, not added to.
Approve(u, m, amount) ==
    /\ tokens[m] # NoToken
    /\ allowance' = [allowance EXCEPT ![m][u] = amount]
    /\ UNCHANGED <<coreVars, tokens, balance, blocks, nonce, executed, now, mints,
                   lastResult>>

\* sendToken's checks, in order: TokenDoesNotExist, InvalidAmount, and
\* BurnFailed when burnFrom lacks allowance or balance.
\* burnFrom fails without enough allowance or without enough balance.
\* Mutant: only the allowance is checked.
BurnFailsAllowanceOnly(u, m, amount) == allowance[m][u] < amount

BurnFails(u, m, amount) == allowance[m][u] < amount \/ balance[m][u] < amount

SendTokenError(u, m, amount) ==
    CASE tokens[m] = NoToken                                  -> "TokenDoesNotExist"
      [] amount = 0                                           -> "InvalidAmount"
      [] BurnFails(u, m, amount)                              -> "BurnFailed"
      [] OTHER                                                -> "ok"

\* sendTokenTx: estimateGas first, so a sendToken that would revert throws
\* before anything is mined; otherwise the transaction is mined in a block
\* of its own whose single receipt carries the three logs, and the status
\* check after wait() passes.  sendToken burns through burnFrom and has
\* ToposCore emit CrossSubnetMessageSent with the next nonce of the target.
SendTokenTx(u, m, target, recipient, amount) ==
    LET err == SendTokenError(u, m, amount) IN
    /\ lastResult' = err
    /\ IF err # "ok" THEN UNCHANGED <<tokens, balance, allowance, blocks, nonce>>
       ELSE /\ Len(blocks) < MaxBlocks
            /\ tokens' = [tokens EXCEPT ![m].supply = @ - amount]
            /\ balance' = [balance EXCEPT ![m][u] = @ - amount]
            /\ allowance' = [allowance EXCEPT ![m][u] = @ - amount]
            /\ nonce' = [nonce EXCEPT ![target] = @ + 1]
            /\ blocks' = Append(blocks, [origin |-> m, target |-> target,
                                         recipient |-> recipient, amount |-> amount])
    /\ UNCHANGED <<coreVars, executed, now, mints>>

\* getReceiptMptProof: the client fetches the block of the transaction,
\* rebuilds its receipts trie (createTrie), refuses to go on unless the
\* trie root equals the block header's receiptsRoot, and returns the path
\* to the receipt at the transaction's index with that root.
GetReceiptMptProof(b) == [block |-> b, receiptsRoot |-> b]

\* "0x01": the blob the invalid-proof test passes instead of a proof.
FakeProof == [block |-> 0, receiptsRoot |-> 0]

\* The admin pushes a certificate, built with encodeCertParam, whose
\* receipt root is that of a mined block, as every execute test does.
\* Unless Recertify holds, the admin certifies a root at most once.
CertifyBlock(id, src, r, pos) ==
    /\ r \in DOMAIN blocks
    /\ Recertify \/ \A c \in StoredCerts : c.receiptRoot # r
    /\ PushCertificate(Admin, Certificate(NoCert, src, r, id), pos)
    /\ UNCHANGED msgVars

(***************************************************************************)
(* MessageExecutor.execute(logIndexes, proofBlob, receiptRoot), spec 4.4:  *)
(* the checks in the order the spec and the revert tests give them.  The   *)
(* proof verifies when it is a path to a receipt of the block whose root   *)
(* is receiptRoot; the receipt it yields is then decoded at the log index. *)
(***************************************************************************)
\* Mutant: a proof is accepted whichever root it leads to.
ProofVerifiesAnyRoot(proof, root) == proof.block # 0

ProofVerifies(proof, root) == proof.block # 0 /\ proof.receiptsRoot = root

\* The lazily recomputed mint window (spec 9): a mint at time t past the
\* end of the current window opens a new one and resets mintedToday.
\* Mutant: the window is taken to end one tick early.
WindowExpiredEarly(entry, t) == t >= entry.windowStart + Day - 1

WindowExpired(entry, t) == t >= entry.windowStart + Day

\* The replay marker of a message: certificate id and log index (spec 4.4
\* step 8), recorded before the mint.
\* Mutant: the marker is never found.
AlreadyExecutedNever(m, certId, i) == FALSE

AlreadyExecuted(m, certId, i) == <<certId, i>> \in executed[m]

ExecuteError(m, idx, proof, root) ==
    LET certId  == receiptRootToCertId[root]
        receipt == blocks[proof.block]
        entry   == tokens[m]
        minted  == IF WindowExpired(entry, now) THEN 0 ELSE entry.mintedToday
    IN  CASE idx = << >>                                   -> "LogIndexOutOfRange"
          [] certId = NoCert                               -> "CertNotPresent"
          [] ~ProofVerifies(proof, root)                   -> "InvalidMerkleProof"
          [] idx[1] >= LogCount                           -> "LogIndexOutOfRange"
          [] LogEmitter(receipt, idx[1]) # m               -> "InvalidOriginAddress"
          [] receipt.target # networkSubnetId              -> "InvalidSubnetId"
          [] AlreadyExecuted(m, certId, idx[1])            -> "TransactionAlreadyExecuted"
          [] entry = NoToken                               -> "TokenDoesNotExist"
          [] entry.limit > 0 /\ minted + receipt.amount > entry.limit
                                                           -> "ExceedDailyMintLimit"
          [] receipt.recipient = Zero                      -> "MintToZeroAddress"
          [] entry.supply + receipt.amount > MintCap       -> "CapExceeded"
          [] OTHER                                         -> "ok"

\* On success the replay marker is recorded, then the token mints to the
\* recipient, updating the window; any failure reverts the whole call.
Execute(m, idx, proof, root) ==
    LET err     == ExecuteError(m, idx, proof, root)
        receipt == blocks[proof.block]
        entry   == tokens[m]
        fresh   == WindowExpired(entry, now)
    IN
    /\ lastResult' = err
    /\ IF err # "ok" THEN UNCHANGED <<tokens, balance, executed, mints>>
       ELSE /\ executed' = [executed EXCEPT ![m] =
                                @ \cup {<<receiptRootToCertId[root], idx[1]>>}]
            /\ tokens' = [tokens EXCEPT ![m] =
                   [entry EXCEPT !.supply = @ + receipt.amount,
                                 !.windowStart = IF fresh THEN now ELSE @,
                                 !.mintedToday = (IF fresh THEN 0 ELSE @) + receipt.amount]]
            /\ balance' = [balance EXCEPT ![m][receipt.recipient] = @ + receipt.amount]
            /\ mints' = Append(mints, [messenger |-> m, block |-> proof.block,
                                       time |-> now, amount |-> receipt.amount])
    /\ UNCHANGED <<coreVars, allowance, blocks, nonce, now>>

\* Blocks are mined with increasing timestamps.
Tick ==
    /\ now < MaxTime
    /\ now' = now + 1
    /\ UNCHANGED <<coreVars, tokens, balance, allowance, blocks, nonce, executed,
                   mints, lastResult>>

Proofs == {GetReceiptMptProof(b) : b \in DOMAIN blocks} \cup {FakeProof}
IndexLists == {<< >>} \cup {<<i>> : i \in LogIndices}

Next ==
    \/ \E u \in Users, m \in Messengers, l \in DailyLimits : DeployToken(u, m, l)
    \/ \E u \in Users, m \in Messengers, a \in Amounts : Approve(u, m, a)
    \/ \E u \in Users, m \in Messengers, t \in Subnets, r \in Recipients, a \in Amounts :
          SendTokenTx(u, m, t, r, a)
    \/ \E id \in CertIds, src \in Subnets, r \in Roots, pos \in Positions :
          CertifyBlock(id, src, r, pos)
    \/ \E m \in Messengers, idx \in IndexLists, p \in Proofs, r \in Roots :
          Execute(m, idx, p, r)
    \/ Tick

Spec == Init /\ [][Next]_vars
-----------------------------------------------------------------------------
TypeOK ==
    /\ tokens \in [Messengers -> {NoToken} \cup
           [limit : DailyLimits, supply : 0 .. MintCap,
            mintedToday : 0 .. MintCap, windowStart : -Day .. MaxTime]]
    /\ balance \in [Messengers -> [Users -> 0 .. MintCap]]
    /\ allowance \in [Messengers -> [Users -> Amounts]]
    /\ blocks \in Seq([origin : Messengers, target : Subnets,
                       recipient : Recipients, amount : Amounts])
    /\ nonce \in [Subnets -> 0 .. MaxBlocks]
    /\ executed \in [Messengers -> SUBSET (CertIds \X LogIndices)]
    /\ now \in 0 .. MaxTime
    /\ lastResult \in STRING

CertifiedRoots == {c.receiptRoot : c \in StoredCerts}

\* Spec 5: a proven message is executed at most once, whatever the order
\* of certificate pushes and execute calls by any number of relayers: no
\* sendToken receipt is minted twice, by the same or another proof.
AtMostOnceExecution ==
    \A i, j \in DOMAIN mints : i # j => mints[i].block # mints[j].block

\* Spec 4.4 steps 2-7: every mint on this subnet stands for a TokenSent
\* log of a mined sendToken of the same messaging contract, addressed to
\* this subnet, for the same amount, in a block whose receipt root the
\* admin has certified.
ExecutedMessagesAreAuthentic ==
    \A i \in DOMAIN mints :
        LET receipt == blocks[mints[i].block] IN
        /\ receipt.origin = mints[i].messenger
        /\ receipt.target = networkSubnetId
        /\ receipt.amount = mints[i].amount
        /\ mints[i].block \in CertifiedRoots

(* Reference definition of the mint windows of spec 4.3: over the times   *)
(* of a token's successful mints, the first opens a window, and a later   *)
(* one opens a new window when it is at least Day after the last opener.  *)
RECURSIVE Openers(_, _, _)
Openers(times, i, last) ==
    IF i > Len(times) THEN {}
    ELSE IF last < 0 \/ times[i] >= last + Day
         THEN {i} \cup Openers(times, i + 1, times[i])
         ELSE Openers(times, i + 1, last)

MintsOf(m) == SelectSeq(mints, LAMBDA x : x.messenger = m)

WindowAmounts(m) ==
    LET ms == MintsOf(m)
        times == [i \in DOMAIN ms |-> ms[i].time]
        amounts == [i \in DOMAIN ms |-> ms[i].amount]
    IN  {SumFunctionOnSet(amounts, {j \in DOMAIN ms : ms[i].time <= ms[j].time
                                                   /\ ms[j].time < ms[i].time + Day})
         : i \in Openers(times, 1, -1)}

\* Spec 4.3: with a non-zero daily limit, the mints of a token inside any
\* day window, windows opened lazily by the first mint after the previous
\* one elapsed, never add up to more than the limit.  The token's own
\* window bookkeeping (windowStart, mintedToday) is what execute uses.
DailyMintLimitRespected ==
    \A m \in Messengers :
        tokens[m].limit > 0 => \A total \in WindowAmounts(m) : total <= tokens[m].limit
=============================================================================
