----------------------------- MODULE TxPipeline -----------------------------
(***************************************************************************)
(* The transaction pipeline of one wallet: POST /v1/tx of the signer       *)
(* (services/signer), the Redis stream hara:tx:outbound with its consumer  *)
(* group, the single broadcaster (services/broadcaster), the Postgres      *)
(* tables transactions, tx_attempts and wallet_nonces, and the chain with  *)
(* its transaction pool.                                                   *)
(*                                                                         *)
(* Every await of a handler ends a step, so handlers interleave as the     *)
(* event loops and the database let them.  Branches no state reaches (a    *)
(* queue message without txId, a row without raw_tx) are left out.         *)
(***************************************************************************)
EXTENDS Integers, Sequences, FiniteSets

CONSTANTS
  Txs,          \* submissions: the txId each POST /v1/tx draws
  Foreign,      \* any transaction signed with the same key outside the signer
  MaxRetries,   \* BROADCAST_MAX_RETRIES
  BatchSize,    \* COUNT of XREADGROUP
  PromptChain,  \* TRUE: a mineable transaction is mined before RECEIPT_TIMEOUT_MS
  MaxForeign,   \* bound: out-of-band transactions
  Faults,       \* kinds of fault that may happen
  MaxFaults     \* bound: faults in one behaviour

FaultKinds == {"vault", "signer", "db", "redis", "rpc", "crash", "evict"}

ASSUME PipelineAssumption ==
  /\ Foreign \notin Txs
  /\ MaxRetries \in Nat \ {0}
  /\ BatchSize \in Nat \ {0}
  /\ PromptChain \in BOOLEAN
  /\ MaxForeign \in Nat
  /\ MaxFaults \in Nat
  /\ Faults \subseteq FaultKinds

VARIABLES
  \* Postgres: the row of each transaction, and the wallet_nonces row
  status, nonce, retryCount, attempts, lastReserved, lastConfirmed,
  \* signer: program counter and local chainNonce of each request
  handler, chainNonce,
  \* Redis: the stream, the group's last-delivered-id, its pending list
  stream, lastDelivered, unacked,
  \* broadcaster: program counter, position in the stream of the message in
  \* work (its batch is current .. lastDelivered), the retry_count it read,
  \* rows still to recover at startup, armed setTimeout re-enqueues
  pc, current, tries, todo, timers,
  \* chain: pooled signer transactions, pooled out-of-band nonces, the mined
  \* transactions of the wallet in nonce order, those that reverted
  pool, foreignPool, mined, reverted,
  \* bounds
  foreigns, faults

rows        == <<status, nonce, retryCount, attempts>>
wallet      == <<lastReserved, lastConfirmed>>
signer      == <<handler, chainNonce>>
redis       == <<stream, lastDelivered, unacked>>
broadcaster == <<pc, current, tries, todo, timers>>
chain       == <<pool, foreignPool, mined, reverted>>
bounds      == <<foreigns, faults>>
vars        == <<rows, wallet, signer, redis, broadcaster, chain, bounds>>

None == "NONE"      \* the row is not inserted yet
Settled == {"CONFIRMED", "REVERTED"}
Status == {None, "DRAFT", "QUEUED", "BROADCASTED", "FAILED", "RETRYING"} \cup Settled
HandlerPC == {"new", "draft", "read", "reserved", "recorded", "done", "error"}
BroadcasterPC == {"down", "recover", "recoverNonce", "idle", "fetch", "send", "sent",
                  "logAttempt", "caught", "decide", "poll", "confirmNonce", "ack"}

Larger(a, b) == IF a > b THEN a ELSE b
Smaller(a, b) == IF a < b THEN a ELSE b

(***************************************************************************)
(* The chain, as the services use it: eth_getTransactionCount(pending),    *)
(* eth_sendRawTransaction, eth_getTransactionReceipt.  The pool keeps one  *)
(* transaction per nonce (gas price 0 never replaces) and accepts a nonce  *)
(* above the next one, which then waits for the gap to close.              *)
(***************************************************************************)
PooledNonces == foreignPool \cup {nonce[t] : t \in pool}
PendingNonces ==
  {n \in Len(mined) .. (Len(mined) + Cardinality(PooledNonces)) :
     /\ n \notin PooledNonces
     /\ \A m \in Len(mined) .. (n - 1) : m \in PooledNonces}
Accepts(t) == nonce[t] >= Len(mined) /\ nonce[t] \notin PooledNonces
HasReceipt(t) == \E i \in DOMAIN mined : mined[i] = t
Mineable(t) == t \in pool /\ \A m \in Len(mined) .. nonce[t] : m \in PooledNonces
Outcome(t) == IF t \in reverted THEN "REVERTED" ELSE "CONFIRMED"

\* One fault of the given kind happens: allowed by the configuration, counted.
Fault(kind) == kind \in Faults /\ faults < MaxFaults /\ faults' = faults + 1

Init ==
  /\ status = [t \in Txs |-> None]
  /\ nonce = [t \in Txs |-> -1]
  /\ retryCount = [t \in Txs |-> 0]
  /\ attempts = [t \in Txs |-> 0]
  /\ lastReserved = -1 /\ lastConfirmed = -1
  /\ handler = [t \in Txs |-> "new"]
  /\ chainNonce = [t \in Txs |-> 0]
  /\ stream = <<>> /\ lastDelivered = 0 /\ unacked = {}
  /\ pc = "down" /\ current = 1 /\ tries = 0 /\ todo = {} /\ timers = {}
  /\ pool = {} /\ foreignPool = {} /\ mined = <<>> /\ reverted = {}
  /\ foreigns = 0 /\ faults = 0

-----------------------------------------------------------------------------
(* Signer: POST /v1/tx.  nonce[t] is the handler's local until RecordQueued  *)
(* writes it to the row with raw_tx.                                         *)

InsertDraft(t) ==
  /\ handler[t] = "new"
  /\ handler' = [handler EXCEPT ![t] = "draft"]
  /\ status' = [status EXCEPT ![t] = "DRAFT"]
  /\ UNCHANGED <<nonce, retryCount, attempts, wallet, chainNonce, redis, broadcaster, chain, bounds>>

\* reserveNonce reads the chain before it opens its database transaction.
ReadChainNonce(t) ==
  /\ handler[t] = "draft"
  /\ \E n \in PendingNonces : chainNonce' = [chainNonce EXCEPT ![t] = n]
  /\ handler' = [handler EXCEPT ![t] = "read"]
  /\ UNCHANGED <<rows, wallet, redis, broadcaster, chain, bounds>>

\* Mutant: trusts the chain alone and forgets last_reserved.
NextNonceOfChain(t) == chainNonce[t]

NextNonce(t) == Larger(lastReserved + 1, chainNonce[t])

\* The SELECT ... FOR UPDATE transaction: one atomic step.
ReserveNonce(t) ==
  /\ handler[t] = "read"
  /\ nonce' = [nonce EXCEPT ![t] = NextNonce(t)]
  /\ lastReserved' = NextNonce(t)
  /\ handler' = [handler EXCEPT ![t] = "reserved"]
  /\ UNCHANGED <<status, retryCount, attempts, lastConfirmed, chainNonce, redis, broadcaster, chain, bounds>>

\* The catch of the handler: RPC read, reservation or signTx threw.
SignFails(t) ==
  /\ handler[t] \in {"draft", "read", "reserved"}
  /\ Fault("vault")
  /\ status' = [status EXCEPT ![t] = "FAILED"]
  /\ handler' = [handler EXCEPT ![t] = "error"]
  /\ UNCHANGED <<nonce, retryCount, attempts, wallet, chainNonce, redis, broadcaster, chain, foreigns>>

\* signTx succeeds, then the row gets nonce, raw_tx, tx_hash and QUEUED.
RecordQueued(t) ==
  /\ handler[t] = "reserved"
  /\ status' = [status EXCEPT ![t] = "QUEUED"]
  /\ handler' = [handler EXCEPT ![t] = "recorded"]
  /\ UNCHANGED <<nonce, retryCount, attempts, wallet, chainNonce, redis, broadcaster, chain, bounds>>

Enqueue(t) ==
  /\ handler[t] = "recorded"
  /\ stream' = Append(stream, t)
  /\ handler' = [handler EXCEPT ![t] = "done"]
  /\ UNCHANGED <<rows, wallet, chainNonce, lastDelivered, unacked, broadcaster, chain, bounds>>

\* The signer stops, or a statement outside the try throws, mid-request.
RequestDies(t) ==
  /\ handler[t] \in {"draft", "read", "reserved", "recorded"}
  /\ Fault("signer")
  /\ handler' = [handler EXCEPT ![t] = "error"]
  /\ UNCHANGED <<rows, wallet, chainNonce, redis, broadcaster, chain, foreigns>>

Signer(t) == InsertDraft(t) \/ ReadChainNonce(t) \/ ReserveNonce(t) \/ RecordQueued(t) \/ Enqueue(t)
SignerFault(t) == SignFails(t) \/ RequestDies(t)

-----------------------------------------------------------------------------
(* Broadcaster: main, recoverOrphanedTxs, consume and processTx.             *)

tx == stream[current]

Goto(label) == pc' = label /\ UNCHANGED <<current, tries, todo, timers>>

\* main: ensureGroupExists, then the SELECT of recoverOrphanedTxs.
Start ==
  /\ pc = "down"
  /\ todo' = {t \in Txs : status[t] = "BROADCASTED"}
  /\ pc' = "recover"
  /\ UNCHANGED <<rows, wallet, signer, redis, current, tries, timers, chain, bounds>>

\* Mutant: a row found BROADCASTED at startup counts as confirmed.
RecoverUnseen(t) ==
  /\ pc = "recover" /\ t \in todo
  /\ status' = [status EXCEPT ![t] = "CONFIRMED"]
  /\ Goto("recoverNonce")
  /\ UNCHANGED <<nonce, retryCount, attempts, wallet, signer, redis, chain, bounds>>

RecoverStatus(t) ==
  /\ pc = "recover" /\ t \in todo /\ HasReceipt(t)
  /\ status' = [status EXCEPT ![t] = Outcome(t)]
  /\ Goto("recoverNonce")
  /\ UNCHANGED <<nonce, retryCount, attempts, wallet, signer, redis, chain, bounds>>

\* Mutant: confirms up to the last nonce given instead of the row's.
RecoverAllNonces(t) ==
  /\ pc = "recoverNonce" /\ t \in todo /\ status[t] \in Settled
  /\ lastConfirmed' = lastReserved
  /\ todo' = todo \ {t}
  /\ pc' = "recover"
  /\ UNCHANGED <<rows, lastReserved, signer, redis, current, tries, timers, chain, bounds>>

\* t is the row RecoverStatus has just written.
RecoverNonce(t) ==
  /\ pc = "recoverNonce" /\ t \in todo /\ status[t] \in Settled
  /\ lastConfirmed' = Larger(lastConfirmed, nonce[t])
  /\ todo' = todo \ {t}
  /\ pc' = "recover"
  /\ UNCHANGED <<rows, lastReserved, signer, redis, current, tries, timers, chain, bounds>>

\* "No receipt yet; leaving BROADCASTED".
RecoverLeave(t) ==
  /\ pc = "recover" /\ t \in todo /\ ~HasReceipt(t)
  /\ todo' = todo \ {t}
  /\ UNCHANGED <<rows, wallet, signer, redis, pc, current, tries, timers, chain, bounds>>

\* The lookup or an UPDATE threw, or the row is over one hour old.
RecoverMisses(t) ==
  /\ \/ pc = "recover" /\ Fault("rpc")
     \/ pc = "recoverNonce" /\ status[t] \in Settled /\ Fault("db")
  /\ t \in todo
  /\ todo' = todo \ {t}
  /\ pc' = "recover"
  /\ UNCHANGED <<rows, wallet, signer, redis, current, tries, timers, chain, foreigns>>

RecoverDone ==
  /\ pc = "recover" /\ todo = {}
  /\ Goto("idle")
  /\ UNCHANGED <<rows, wallet, signer, redis, chain, bounds>>

\* Mutant: counts a full batch even when fewer entries are there.
DeliverFull ==
  /\ pc = "idle" /\ lastDelivered < Len(stream)
  /\ lastDelivered' = lastDelivered + BatchSize
  /\ unacked' = unacked \cup ((lastDelivered + 1) .. lastDelivered')

\* XREADGROUP ">": only entries never delivered before.
Deliver ==
  /\ pc = "idle" /\ lastDelivered < Len(stream)
  /\ lastDelivered' = Smaller(lastDelivered + BatchSize, Len(stream))
  /\ unacked' = unacked \cup ((lastDelivered + 1) .. lastDelivered')

ReadGroup ==
  /\ Deliver
  /\ current' = lastDelivered + 1
  /\ pc' = "fetch"
  /\ UNCHANGED <<rows, wallet, signer, stream, tries, todo, timers, chain, bounds>>

\* The reply is lost: the group has delivered the batch, nobody works on it.
ReadGroupFails ==
  /\ Deliver /\ Fault("redis")
  /\ current' = lastDelivered' + 1
  /\ UNCHANGED <<rows, wallet, signer, stream, pc, tries, todo, timers, chain, foreigns>>

FetchRow ==
  /\ pc = "fetch"
  /\ tries' = retryCount[tx]
  /\ pc' = "send"
  /\ UNCHANGED <<rows, wallet, signer, redis, current, todo, timers, chain, bounds>>

SendAccepted ==
  /\ pc = "send" /\ Accepts(tx)
  /\ pool' = pool \cup {tx}
  /\ Goto("sent")
  /\ UNCHANGED <<rows, wallet, signer, redis, foreignPool, mined, reverted, bounds>>

\* "nonce too low", "already known" or "replacement underpriced".
SendRejected ==
  /\ pc = "send" /\ ~Accepts(tx)
  /\ Goto("caught")
  /\ UNCHANGED <<rows, wallet, signer, redis, chain, bounds>>

\* The call fails on the way there or on the way back.
SendFails ==
  /\ pc = "send" /\ Fault("rpc")
  /\ \/ UNCHANGED pool
     \/ Accepts(tx) /\ pool' = pool \cup {tx}
  /\ Goto("caught")
  /\ UNCHANGED <<rows, wallet, signer, redis, foreignPool, mined, reverted, foreigns>>

MarkBroadcasted ==
  /\ pc = "sent"
  /\ status' = [status EXCEPT ![tx] = "BROADCASTED"]
  /\ Goto("logAttempt")
  /\ UNCHANGED <<nonce, retryCount, attempts, wallet, signer, redis, chain, bounds>>

\* INSERT INTO tx_attempts, in the try or in the catch.
LogAttempt ==
  /\ \/ pc = "logAttempt" /\ Goto("poll")
     \/ pc = "caught" /\ Goto("decide")
  /\ attempts' = [attempts EXCEPT ![tx] = @ + 1]
  /\ UNCHANGED <<status, nonce, retryCount, wallet, signer, redis, chain, bounds>>

\* A statement of the try throws after the transaction was sent.
TryThrows ==
  /\ pc \in {"sent", "logAttempt"} /\ Fault("db")
  /\ Goto("caught")
  /\ UNCHANGED <<rows, wallet, signer, redis, chain, foreigns>>

GiveUp ==
  /\ pc = "decide" /\ tries + 1 >= MaxRetries
  /\ status' = [status EXCEPT ![tx] = "FAILED"]
  /\ Goto("ack")
  /\ UNCHANGED <<nonce, retryCount, attempts, wallet, signer, redis, chain, bounds>>

\* (mutant) the re-enqueue is forgotten
ScheduleRetryNoTimer ==
  /\ pc = "decide" /\ tries + 1 < MaxRetries
  /\ status' = [status EXCEPT ![tx] = "RETRYING"]
  /\ retryCount' = [retryCount EXCEPT ![tx] = @ + 1]
  /\ Goto("ack")
  /\ UNCHANGED <<nonce, attempts, wallet, signer, redis, chain, bounds>>

ScheduleRetry ==
  /\ pc = "decide" /\ tries + 1 < MaxRetries
  /\ status' = [status EXCEPT ![tx] = "RETRYING"]
  /\ retryCount' = [retryCount EXCEPT ![tx] = @ + 1]
  /\ timers' = timers \cup {tx}
  /\ pc' = "ack"
  /\ UNCHANGED <<nonce, attempts, wallet, signer, redis, current, tries, todo, chain, bounds>>

SettleFromReceipt ==
  /\ pc = "poll" /\ HasReceipt(tx)
  /\ status' = [status EXCEPT ![tx] = Outcome(tx)]
  /\ Goto("confirmNonce")
  /\ UNCHANGED <<nonce, retryCount, attempts, wallet, signer, redis, chain, bounds>>

ConfirmNonce ==
  /\ pc = "confirmNonce"
  /\ lastConfirmed' = Larger(lastConfirmed, nonce[tx])
  /\ Goto("ack")
  /\ UNCHANGED <<rows, lastReserved, signer, redis, chain, bounds>>

\* The catch around both UPDATEs takes the error for a missing receipt.
ConfirmNonceFails ==
  /\ pc = "confirmNonce" /\ Fault("db")
  /\ Goto("poll")
  /\ UNCHANGED <<rows, wallet, signer, redis, chain, foreigns>>

\* Mutant: the deadline leaves the row as it is.
ReceiptTimeoutSilent ==
  /\ pc = "poll"
  /\ PromptChain => ~HasReceipt(tx) /\ ~Mineable(tx)
  /\ Goto("ack")
  /\ UNCHANGED <<rows, wallet, signer, redis, chain, bounds>>

\* The deadline passes; the last look may have been just before the block.
ReceiptTimeout ==
  /\ pc = "poll"
  /\ PromptChain => ~HasReceipt(tx) /\ ~Mineable(tx)
  /\ status' = [status EXCEPT ![tx] = "FAILED"]
  /\ Goto("ack")
  /\ UNCHANGED <<nonce, retryCount, attempts, wallet, signer, redis, chain, bounds>>

\* processTx throws: consume logs it and acknowledges the message all the same.
ProcessThrows ==
  /\ pc \in {"fetch", "caught", "decide", "poll"} /\ Fault("db")
  /\ Goto("ack")
  /\ UNCHANGED <<rows, wallet, signer, redis, chain, foreigns>>

Ack ==
  /\ pc = "ack"
  /\ unacked' = unacked \ {current}
  /\ current' = current + 1
  /\ pc' = IF current < lastDelivered THEN "fetch" ELSE "idle"
  /\ UNCHANGED <<rows, wallet, signer, stream, lastDelivered, tries, todo, timers, chain, bounds>>

\* Mutant: the loop works on the message again.
AckFailsRepeat ==
  /\ pc = "ack" /\ Fault("redis")
  /\ Goto("fetch")
  /\ UNCHANGED <<rows, wallet, signer, redis, chain, foreigns>>

\* XACK throws out of the loop over the batch; the rest of it is dropped.
AckFails ==
  /\ pc = "ack" /\ Fault("redis")
  /\ current' = lastDelivered + 1
  /\ pc' = "idle"
  /\ UNCHANGED <<rows, wallet, signer, redis, tries, todo, timers, chain, foreigns>>

\* The setTimeout callback of a retry.
ReEnqueue(t) ==
  /\ t \in timers
  /\ timers' = timers \ {t}
  /\ stream' = Append(stream, t)
  /\ UNCHANGED <<rows, wallet, signer, lastDelivered, unacked, pc, current, tries, todo, chain, bounds>>

ReEnqueueFails(t) ==
  /\ t \in timers /\ Fault("redis")
  /\ timers' = timers \ {t}
  /\ UNCHANGED <<rows, wallet, signer, redis, pc, current, tries, todo, chain, foreigns>>

\* Heap state is gone: the batch, the timers, the recovery list.
Crash ==
  /\ pc # "down" /\ Fault("crash")
  /\ pc' = "down" /\ current' = lastDelivered + 1 /\ tries' = 0 /\ todo' = {} /\ timers' = {}
  /\ UNCHANGED <<rows, wallet, signer, redis, chain, foreigns>>

Recovery == \/ Start \/ RecoverDone
            \/ \E t \in Txs : RecoverStatus(t) \/ RecoverNonce(t) \/ RecoverLeave(t)
Consume == \/ ReadGroup \/ FetchRow \/ SendAccepted \/ SendRejected \/ MarkBroadcasted
           \/ LogAttempt \/ GiveUp \/ ScheduleRetry \/ SettleFromReceipt \/ ConfirmNonce
           \/ ReceiptTimeout \/ Ack
BroadcasterFault == \/ ReadGroupFails \/ SendFails \/ TryThrows \/ ConfirmNonceFails
                    \/ ProcessThrows \/ AckFails \/ Crash
                    \/ \E t \in Txs : RecoverMisses(t) \/ ReEnqueueFails(t)

-----------------------------------------------------------------------------
(* Chain.                                                                    *)

\* forge script and the like: signed with the pending nonce of the moment.
ForeignTx ==
  /\ foreigns < MaxForeign
  /\ \E n \in PendingNonces : foreignPool' = foreignPool \cup {n}
  /\ foreigns' = foreigns + 1
  /\ UNCHANGED <<rows, wallet, signer, redis, broadcaster, pool, mined, reverted, faults>>

MineForeign ==
  /\ Len(mined) \in foreignPool
  /\ mined' = Append(mined, Foreign)
  /\ foreignPool' = foreignPool \ {Len(mined)}
  /\ UNCHANGED <<rows, wallet, signer, redis, broadcaster, pool, reverted, bounds>>

Mine(t) ==
  /\ t \in pool /\ nonce[t] = Len(mined)
  /\ mined' = Append(mined, t)
  /\ pool' = pool \ {t}
  /\ reverted' \in {reverted, reverted \cup {t}}
  /\ UNCHANGED <<rows, wallet, signer, redis, broadcaster, foreignPool, bounds>>

\* The node drops a pooled transaction (restart, pool limit).
Evict(t) ==
  /\ t \in pool /\ Fault("evict")
  /\ pool' = pool \ {t}
  /\ UNCHANGED <<rows, wallet, signer, redis, broadcaster, foreignPool, mined, reverted, foreigns>>

Chain == ForeignTx \/ MineForeign \/ \E t \in Txs : Mine(t) \/ Evict(t)

Next ==
  \/ \E t \in Txs : Signer(t) \/ SignerFault(t) \/ ReEnqueue(t)
  \/ Recovery \/ Consume \/ BroadcasterFault
  \/ Chain

Spec == Init /\ [][Next]_vars

(***************************************************************************)
(* Fairness: a handler that can take its next statement does (the event    *)
(* loop runs), a container that is down is restarted (restart policy), an  *)
(* armed timer fires, the validators mine what they can.  Faults and       *)
(* out-of-band transactions are never owed.                                *)
(***************************************************************************)
Fairness ==
  /\ \A t \in Txs : WF_vars(Signer(t)) /\ WF_vars(ReEnqueue(t)) /\ WF_vars(Mine(t))
  /\ WF_vars(MineForeign)
  /\ WF_vars(Recovery)
  /\ WF_vars(Consume)

FairSpec == Spec /\ Fairness

-----------------------------------------------------------------------------
(* Properties.                                                               *)

RowsTyped ==
  /\ status \in [Txs -> Status]
  /\ nonce \in [Txs -> Nat \cup {-1}]
  /\ retryCount \in [Txs -> Nat]
  /\ attempts \in [Txs -> Nat]
WalletTyped == lastReserved \in Nat \cup {-1} /\ lastConfirmed \in Nat \cup {-1}
SignerTyped == handler \in [Txs -> HandlerPC] /\ chainNonce \in [Txs -> Nat]
StreamTyped == stream \in Seq(Txs) /\ lastDelivered \in 0 .. Len(stream) /\ unacked \subseteq 1 .. lastDelivered
BroadcasterTyped == pc \in BroadcasterPC /\ tries \in Nat /\ todo \subseteq Txs /\ timers \subseteq Txs
\* While processTx runs, current is the position of a delivered message.
CurrentTyped ==
  /\ current \in 1 .. (lastDelivered + 1)
  /\ pc \in {"down", "recover", "recoverNonce", "idle"} \/ current <= lastDelivered
ChainTyped ==
  /\ pool \subseteq Txs /\ foreignPool \subseteq Nat
  /\ mined \in Seq(Txs \cup {Foreign}) /\ reverted \subseteq Txs
BoundsTyped == foreigns \in 0 .. MaxForeign /\ faults \in 0 .. MaxFaults

\* Every variable has its type, queue positions are positions of the stream,
\* and the counters stay in their bounds.
TypeOK == /\ RowsTyped /\ WalletTyped /\ SignerTyped /\ StreamTyped
          /\ BroadcasterTyped /\ CurrentTyped /\ ChainTyped /\ BoundsTyped

\* No two requests are ever given the same nonce, whatever the concurrent
\* requests read from the chain (reserveNonce under SELECT ... FOR UPDATE).
NoncesUnique ==
  \A t, u \in Txs : t # u /\ nonce[t] # -1 => nonce[t] # nonce[u]

\* A row says CONFIRMED (REVERTED) only of a transaction the chain holds at
\* the row's nonce with that receipt, however the poll, a crash, the recovery
\* and failing UPDATEs interleave (processTx, recoverOrphanedTxs).
SettledMatchesChain ==
  \A t \in Txs : status[t] \in Settled =>
    /\ nonce[t] + 1 \in DOMAIN mined /\ mined[nonce[t] + 1] = t
    /\ status[t] = Outcome(t)

\* last_confirmed names a nonce at which a transaction of the signer was
\* mined, and never runs ahead of last_reserved (001_init.sql: "highest nonce
\* confirmed on-chain", "highest nonce we have allocated").
LastConfirmedMined ==
  lastConfirmed # -1 =>
    /\ lastConfirmed <= lastReserved
    /\ \E t \in Txs : nonce[t] = lastConfirmed /\ HasReceipt(t)

\* A row that says CONFIRMED or REVERTED never changes again: no late retry, no
\* redelivery and no recovery after a crash overwrites it.  The one step that can
\* is the poll deadline, whose loop swallows a failing UPDATE of wallet_nonces.
SettledIsFinal ==
  [][\A t \in Txs : status[t] \in Settled => status'[t] = status[t] \/ ReceiptTimeout]_vars

\* Every request that was given a nonce reaches a final status, as long as
\* nothing fails (retry timers, poll deadline and queue make progress).
EventuallySettled ==
  \A t \in Txs :
    status[t] = "QUEUED" ~> faults > 0 \/ status[t] \in Settled \cup {"FAILED"}

-----------------------------------------------------------------------------
(* What comments and runbooks say, and the code does not do.                 *)

\* L2 runbook, line 89: concurrent POST /v1/tx requests "all confirm".
AllConfirm == \A t \in Txs : status[t] # "FAILED"

\* L2 runbook, line 90: a broadcaster killed mid-transaction: the transaction
\* "stays in BROADCASTED, gets confirmed once the broadcaster restarts".
KilledMidTxConfirmed ==
  \A t \in Txs : status[t] = "BROADCASTED" ~> status[t] # "BROADCASTED"
=============================================================================
