---------------------------- MODULE ChainAccess ----------------------------
(***************************************************************************)
(* The chain as the SDKs use it: every read goes through rpc-cache         *)
(* (services/rpc-cache), a read-through Redis cache before RPC replicas    *)
(* that may lag, every write goes to the nodes.  A client runs             *)
(* sendLegacyTx and waitForReceipt (TypeScript, Python, Go); each of its   *)
(* reads is a cache lookup, on a miss the upstream's answer, and then the  *)
(* setex and the reply.  Time is abstract: an entry may expire at any      *)
(* moment, whatever its TTL.                                               *)
(***************************************************************************)
EXTENDS Naturals, Sequences, FiniteSets

CONSTANTS
    Wallets,      \* senders, each used by one client
    Sdk,          \* Sdk[w]: which SDK that client is, "ts", "py" or "go"
    Replicas,     \* RPC nodes behind the read endpoint
    MaxSends,     \* sendLegacyTx calls per client
    MaxRpcFaults  \* failed Redis calls, upstream errors and dropped transactions

ASSUME ChainAccessAssumption ==
    /\ Wallets # {} /\ Replicas # {}
    /\ Sdk \in [Wallets -> {"ts", "py", "go"}]
    /\ MaxSends \in Nat /\ MaxRpcFaults \in Nat

VARIABLES
    funded,   \* wallets with a non-zero balance
    mined,    \* mined[w]: the transactions of w on the chain, in nonce order
    pool,     \* transactions accepted by the nodes and not mined
    view,     \* view[r][w]: how many transactions of w replica r has imported
    cache,    \* rpc-cache: key -> result
    step,     \* step[w]: where the client's call stands
    send,     \* send[w]: number of its sendLegacyTx call, counted from 1
    nonce,    \* nonce[w]: the nonce the call read
    rpc,      \* rpc[w]: the read the client is waiting for
    outcome,  \* outcome[w][i]: what call i told its caller
    rpcFaults

chainVars == <<funded, mined, pool, view>>
clientVars == <<step, send, nonce, outcome>>
accessVars == <<chainVars, cache, clientVars, rpc, rpcFaults>>

\* The nonce-th transaction of w; the call number makes it distinct data.
Tx(w, i, n) == [from |-> w, call |-> i, nonce |-> n]

\* A result: null, a quantity, or a receipt's status.
Null == [kind |-> "null"]
Quantity(n) == [kind |-> "quantity", value |-> n]
Receipt(s) == [kind |-> "receipt", status |-> s]

\* A request is a method with its parameters: the sender's balance or nonce, or
\* the receipt of its call.
BalanceOf(w) == [method |-> "eth_getBalance", of |-> w, call |-> 0]
NonceOf(w) == [method |-> "eth_getTransactionCount", of |-> w, call |-> 0]
ReceiptOf(w, i) == [method |-> "eth_getTransactionReceipt", of |-> w, call |-> i]
Requests ==
    {BalanceOf(w) : w \in Wallets} \cup {NonceOf(w) : w \in Wallets}
        \cup {ReceiptOf(w, i) : w \in Wallets, i \in 1..MaxSends}

\* cacheKey without the parameters: every sender shares one entry (mutant).
CacheKeyOfMethod(q) == [q EXCEPT !.of = CHOOSE w \in Wallets : TRUE]
\* The method and its parameters, hashed.
CacheKey(q) == q

NoRpc == [stage |-> "idle", result |-> Null, due |-> FALSE]

-----------------------------------------------------------------------------
(* The nodes *)

\* Nonces of w the pool can execute without a gap after those mined.
Executable(w) ==
    {k \in 0..MaxSends : \A j \in 1..k :
        \E t \in pool : t.from = w /\ t.nonce = Len(mined[w]) + j - 1}
PendingCount(w) ==
    Len(mined[w]) + (CHOOSE k \in Executable(w) :
                        \A j \in Executable(w) : j <= k)

MinedAt(w, i, upTo) ==
    {k \in 1..upTo : mined[w][k].tx.call = i}

\* What replica r may answer now.  Its pool is gossip, so the pending nonce it
\* tells lies between the blocks it has imported and everything accepted.
Answers(r, q) ==
    CASE q.method = "eth_getBalance" ->
            {Quantity(IF q.of \in funded THEN 1 ELSE 0)}
      [] q.method = "eth_getTransactionCount" ->
            {Quantity(n) : n \in view[r][q.of]..PendingCount(q.of)}
      [] q.method = "eth_getTransactionReceipt" ->
            LET at == MinedAt(q.of, q.call, view[r][q.of])
            IN  IF at = {} THEN {Null}
                ELSE {Receipt(mined[q.of][k].status) : k \in at}

\* The node checks the nonce and refuses a second transaction at one nonce (the
\* gas price is always 0, so it never outbids).
Accepts(t) ==
    /\ t.nonce >= Len(mined[t.from])
    /\ \A u \in pool : ~(u.from = t.from /\ u.nonce = t.nonce)

\* A block with one transaction: executed in nonce order, successfully or not.
MineTx(t) ==
    /\ t.nonce = Len(mined[t.from]) /\ t.from \in funded
    /\ \E s \in {"success", "reverted"} :
          mined' = [mined EXCEPT ![t.from] = Append(@, [tx |-> t, status |-> s])]
    /\ pool' = pool \ {t}
    /\ UNCHANGED <<funded, view, cache, clientVars, rpc, rpcFaults>>

\* A replica imports the blocks it is behind.
ImportBlocks(r) ==
    /\ view[r] # [w \in Wallets |-> Len(mined[w])]
    /\ view' = [view EXCEPT ![r] = [w \in Wallets |-> Len(mined[w])]]
    /\ UNCHANGED <<funded, mined, pool, cache, clientVars, rpc, rpcFaults>>

\* The pool evicts a transaction, or never keeps that of a zero-balance sender.
DropTx(t) ==
    /\ rpcFaults < MaxRpcFaults /\ rpcFaults' = rpcFaults + 1
    /\ pool' = pool \ {t}
    /\ UNCHANGED <<funded, mined, view, cache, clientVars, rpc>>

\* A wallet is pre-funded by the operator.
Fund(w) ==
    /\ w \notin funded
    /\ funded' = funded \cup {w}
    /\ UNCHANGED <<mined, pool, view, cache, clientVars, rpc, rpcFaults>>

-----------------------------------------------------------------------------
(* The client: sendLegacyTx, then waitForReceipt *)

Reading == {"funds", "nonce", "wait"}
Wanted(w) == CASE step[w] = "funds" -> BalanceOf(w)
               [] step[w] = "nonce" -> NonceOf(w)
               [] step[w] = "wait" -> ReceiptOf(w, send[w])

\* viem asks the write endpoint for the nonce, past the cache.
Uncached(w) == Sdk[w] = "ts" /\ step[w] = "nonce"

\* The call ends, its caller told o.
Finish(w, o) ==
    /\ step' = [step EXCEPT ![w] = "idle"]
    /\ outcome' = [outcome EXCEPT ![w][send[w]] = o]
    /\ nonce' = [nonce EXCEPT ![w] = 0]
    /\ UNCHANGED send

\* The call throws: before the submission nothing was sent, after it the caller
\* does not know.  viem's receipt poll swallows errors and goes on.
Raise(w) ==
    IF step[w] = "wait" /\ Sdk[w] = "ts"
    THEN UNCHANGED clientVars
    ELSE Finish(w, IF step[w] = "wait" THEN "unknown" ELSE "failed")

StartSend(w) ==
    /\ step[w] = "idle" /\ send[w] < MaxSends
    /\ send' = [send EXCEPT ![w] = @ + 1]
    /\ step' = [step EXCEPT ![w] = IF Sdk[w] = "ts" THEN "nonce" ELSE "funds"]
    /\ outcome' = [outcome EXCEPT ![w][send[w] + 1] = "open"]
    /\ UNCHANGED <<nonce, chainVars, cache, rpc, rpcFaults>>

\* ensureFunded: Go refuses an empty wallet, Python warns and goes on.
CheckFunds(w, result) ==
    IF result.value = 0 /\ Sdk[w] = "go"
    THEN Finish(w, "failed")
    ELSE step' = [step EXCEPT ![w] = "nonce"] /\ UNCHANGED <<send, nonce, outcome>>

\* The nonce counted by the client, as if every call had been accepted (mutant).
CountNonce(w, result) ==
    /\ nonce' = [nonce EXCEPT ![w] = send[w] - 1]
    /\ step' = [step EXCEPT ![w] = "send"]
    /\ UNCHANGED <<send, outcome>>

TakeNonce(w, result) ==
    /\ nonce' = [nonce EXCEPT ![w] = result.value]
    /\ step' = [step EXCEPT ![w] = "send"]
    /\ UNCHANGED <<send, outcome>>

\* A mined transaction may have reverted: taken for a success (mutant).
MinedIsOk(w, result) ==
    IF result = Null THEN UNCHANGED clientVars ELSE Finish(w, "ok")

\* No receipt: poll again.  A receipt: its status decides.
TakeReceipt(w, result) ==
    IF result = Null THEN UNCHANGED clientVars
    ELSE Finish(w, IF result.status = "success" THEN "ok" ELSE "reverted")

\* The result reaches the client that waits for it.
Reply(w, result) ==
    /\ rpc' = [rpc EXCEPT ![w] = NoRpc]
    /\ CASE step[w] = "funds" -> CheckFunds(w, result)
         [] step[w] = "nonce" -> TakeNonce(w, result)
         [] step[w] = "wait" -> TakeReceipt(w, result)

\* The receipt is on every replica when the poll begins.
MinedEverywhere(w) ==
    /\ step[w] = "wait"
    /\ \A r \in Replicas : MinedAt(w, send[w], view[r][w]) # {}

-----------------------------------------------------------------------------
(* rpc-cache: handleOne *)

Cached(w) == CacheKey(Wanted(w)) \in DOMAIN cache

\* The lookup hits: the entry is the answer.
Hit(w) ==
    /\ step[w] \in Reading /\ rpc[w] = NoRpc /\ ~Uncached(w)
    /\ Cached(w)
    /\ Reply(w, cache[CacheKey(Wanted(w))])
    /\ UNCHANGED <<chainVars, cache, rpcFaults>>

\* The lookup misses, or Redis fails and counts as a miss.
Miss(w) ==
    /\ step[w] \in Reading /\ rpc[w] = NoRpc /\ ~Uncached(w)
    /\ \/ ~Cached(w) /\ UNCHANGED rpcFaults
       \/ Cached(w) /\ rpcFaults < MaxRpcFaults /\ rpcFaults' = rpcFaults + 1
    /\ rpc' = [rpc EXCEPT ![w] = [stage |-> "upstream", result |-> Null, due |-> MinedEverywhere(w)]]
    /\ UNCHANGED <<chainVars, cache, clientVars>>

\* proxyUpstream: HAProxy picks a replica, which answers from what it has.
Upstream(w) ==
    /\ rpc[w].stage = "upstream"
    /\ \E r \in Replicas : \E a \in Answers(r, Wanted(w)) :
          rpc' = [rpc EXCEPT ![w].stage = "store", ![w].result = a]
    /\ UNCHANGED <<chainVars, cache, clientVars, rpcFaults>>

\* No backend, or an error page wrapped as a JSON-RPC error: never cached.
UpstreamError(w) ==
    /\ rpc[w].stage = "upstream"
    /\ rpcFaults < MaxRpcFaults /\ rpcFaults' = rpcFaults + 1
    /\ rpc' = [rpc EXCEPT ![w] = NoRpc]
    /\ Raise(w)
    /\ UNCHANGED <<chainVars, cache>>

\* A null result cached like any other (mutant).
CacheableAll(result) == TRUE
\* Only a result that is not null is cached.
Cacheable(result) == result # Null

\* setex, whose failure is ignored, and the reply.
Store(w) ==
    /\ rpc[w].stage = "store"
    /\ LET key == CacheKey(Wanted(w)) IN
          \/ /\ Cacheable(rpc[w].result)
             /\ cache' = [k \in DOMAIN cache \cup {key} |->
                             IF k = key THEN rpc[w].result ELSE cache[k]]
             /\ UNCHANGED rpcFaults
          \/ /\ ~Cacheable(rpc[w].result)
             /\ UNCHANGED <<cache, rpcFaults>>
          \/ /\ Cacheable(rpc[w].result)
             /\ rpcFaults < MaxRpcFaults /\ rpcFaults' = rpcFaults + 1
             /\ UNCHANGED cache
    /\ Reply(w, rpc[w].result)
    /\ UNCHANGED <<chainVars>>

\* An entry's TTL runs out.
Expire(key) ==
    /\ key \in DOMAIN cache
    /\ cache' = [k \in DOMAIN cache \ {key} |-> cache[k]]
    /\ UNCHANGED <<chainVars, clientVars, rpc, rpcFaults>>

-----------------------------------------------------------------------------
(* What goes past the cache *)

\* The write endpoint's answer to viem's nonce read.
ReadNonceDirect(w) ==
    /\ step[w] \in Reading /\ Uncached(w)
    /\ \E n \in Len(mined[w])..PendingCount(w) : TakeNonce(w, Quantity(n))
    /\ UNCHANGED <<chainVars, cache, rpc, rpcFaults>>

\* The gas limit is estimated first, which fails if the transaction would revert.
EstimateFails(w) ==
    /\ step[w] = "send" /\ Finish(w, "failed")
    /\ UNCHANGED <<chainVars, cache, rpc, rpcFaults>>

\* eth_sendRawTransaction.  A zero-balance sender's transaction gets its hash
\* and is dropped.
SendRaw(w) ==
    /\ step[w] = "send"
    /\ LET t == Tx(w, send[w], nonce[w]) IN
          IF Accepts(t)
          THEN /\ pool' = IF w \in funded THEN pool \cup {t} ELSE pool
               /\ step' = [step EXCEPT ![w] = "wait"]
               /\ UNCHANGED <<send, nonce, outcome>>
          ELSE /\ Finish(w, "failed")
               /\ UNCHANGED pool
    /\ UNCHANGED <<funded, mined, view, cache, rpc, rpcFaults>>

\* The wait's timeout, or a caller that does not wait.
GiveUp(w) ==
    /\ step[w] = "wait" /\ rpc[w] = NoRpc
    /\ Finish(w, "unknown")
    /\ UNCHANGED <<chainVars, cache, rpc, rpcFaults>>

-----------------------------------------------------------------------------
ChainAccessInit ==
    /\ funded \in SUBSET Wallets
    /\ mined = [w \in Wallets |-> <<>>]
    /\ pool = {}
    /\ view = [r \in Replicas |-> [w \in Wallets |-> 0]]
    /\ cache = [k \in {} |-> Null]
    /\ step = [w \in Wallets |-> "idle"]
    /\ send = [w \in Wallets |-> 0]
    /\ nonce = [w \in Wallets |-> 0]
    /\ rpc = [w \in Wallets |-> NoRpc]
    /\ outcome = [w \in Wallets |-> [i \in 1..MaxSends |-> "none"]]
    /\ rpcFaults = 0

ChainAccessNext ==
    \/ \E w \in Wallets :
          StartSend(w) \/ Hit(w) \/ Miss(w) \/ Upstream(w) \/ UpstreamError(w)
          \/ Store(w) \/ ReadNonceDirect(w) \/ SendRaw(w) \/ GiveUp(w)
          \/ EstimateFails(w) \/ Fund(w)
    \/ \E t \in pool : MineTx(t) \/ DropTx(t)
    \/ \E r \in Replicas : ImportBlocks(r)
    \/ \E k \in Requests : Expire(k)

ChainAccessSpec == ChainAccessInit /\ [][ChainAccessNext]_accessVars

-----------------------------------------------------------------------------
(* What the SDKs may rely on *)

\* A caller told "ok" or "reverted" was told the status its own transaction has
\* on the chain, whatever was cached, stale or lost on the way (waitForReceipt,
\* handleOne, cacheKey).
ResultIsTheChains ==
    \A w \in Wallets, i \in 1..MaxSends :
        outcome[w][i] \in {"ok", "reverted"} =>
            \E k \in 1..Len(mined[w]) :
                /\ mined[w][k].tx.call = i
                /\ mined[w][k].status =
                      (IF outcome[w][i] = "ok" THEN "success" ELSE "reverted")

\* Once every replica has the receipt, a poll that begins then is told it, from
\* the cache or from upstream: no "not mined yet" outlives the mining (handleOne's
\* exception for null results, rpc-cache index.ts:197).
PollSeesMined ==
    \A w \in Wallets : MinedEverywhere(w) =>
        /\ rpc[w] = NoRpc /\ Cached(w) => cache[CacheKey(Wanted(w))] # Null
        /\ rpc[w].stage = "store" /\ rpc[w].due => rpc[w].result # Null

\* What a receipt poll tells is true and not late, however the cache and the
\* replicas differ.
ReceiptsAreTrue == ResultIsTheChains /\ PollSeesMined

\* A nonce read through lagging replicas and a cache may be too low, so that the
\* node refuses it, but never leaves a gap: it counts no more transactions than
\* this client had accepted (getTransactionCount, PendingNonceAt).
AcceptedCalls(w) ==
    {i \in 1..send[w] : outcome[w][i] \in {"ok", "reverted", "unknown"}}
NonceNeverAhead ==
    \A w \in Wallets : step[w] = "send" => nonce[w] <= Cardinality(AcceptedCalls(w))
=============================================================================
