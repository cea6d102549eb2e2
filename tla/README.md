# HARA registry: TLA+ models and proofs

This directory models the parts of the HARA registry in which order, concurrency
and failure decide whether the system is right: the transaction pipeline
(signer, broadcaster), the transparency log and evidence retention
(registry-ledger), the digests of gapura-gateway with its SDKs, the indexing and
anchoring pipeline (indexer, anchor-worker, PQAnchorRegistry) with the worker's
keys, the governance of the issuer registry, custody on the chain and its trace,
the way the SDKs reach the chain, the console's users and backup report, and the
Merkle algorithms. Paths below are relative to the repository's root.

## 1. The system

```
 client ──POST /v1/tx──▶ signer ──XADD──▶ Redis stream ──▶ broadcaster ──▶ chain (Besu, QBFT)
                           │ nonce, row            rows, receipts │            │ events
                           └──────────▶ Postgres ◀────────────────┘            ▼
                                           ▲ ▲──── rows, cursor ───────── indexer
                                           │ └──── events, cursor ─ anchor-worker ──▶ PQAnchorRegistry
                                           │                            └──▶ MinIO (signatures)
 client ──▶ registry-ledger (Merkle log in memory, ledger_* tables) ──recordAnchor──▶ PQAnchorRegistry
 client ──▶ gapura-gateway (digests, gapura tables)                 ──recordAnchor──▶ PQAnchorRegistry
 governors ──▶ GovernanceContract ──execute──▶ IssuerRegistry, other contracts
```

| component | state | operations | hard behaviour |
|---|---|---|---|
| signer | `transactions`, `wallet_nonces` rows; locals of each request | POST /v1/tx: insert, read pending nonce, reserve under lock, sign, update, enqueue | concurrent requests of a wallet; a stop between any two steps; burnt nonces |
| broadcaster | stream position, pending list, heap timers | consume, send, poll receipt, settle, retry, acknowledge, recover at start | send that fails on the way back; deadline against block; crash with pending messages; database errors inside the poll |
| registry-ledger | one `TransparencyLog` per tenant in memory; `ledger_leaf`, `ledger_attestation`, `ledger_status`, `ledger_evidence` | attest, change status, read with proof, consistency, evidence, retention, bundle | awaits between append, store, anchor and row; rebuild after restart; retries |
| indexer | `indexer_state.last_block`, `indexed_events`, contracts loaded at start | plan a range, fetch logs, commit | replicas behind the load balancer; operator moving the cursor; failures between fetch and commit |
| anchor-worker | `pq_anchor_worker_state`, `pq_anchor_signatures`, bucket | reconcile key, read events, anchor, await receipt, put blob, insert row, advance | partial failure between four stores; late receipts; LIMIT; index behind the chain |
| PQAnchorRegistry | anchors, current key hash | recordAnchor, rotatePQKey | reverts read as success |
| GovernanceContract | proposals, approvals, threshold, roles | propose, approve, execute, cancel, set threshold | ids approved before they exist; thresholds and governors changing under open proposals |
| IssuerRegistry | issuer records, registrar role | add, set status, rotate key | two kinds of sender; executed proposals racing one another |
| post-quantum key of the anchor worker | a Vault secret, `currentPQKeyHash` | load or generate, write, rotate, sign | three stores changed one after another, pooled transactions that outlive a process |
| registry-ledger: evidence | `ledger_evidence` rows | register, change retention, delete | read, decide, write the whole row |
| registry-ledger: checkpoints, bundles; offline audit | `ledger_checkpoint`, the registry's anchors, a handler's locals | submit a checkpoint, gather a bundle, check a head against the chain | every item of a bundle is an anchor of its own; id and head from different transactions; retry after 503 |
| gapura-gateway, Gapura SDKs | a row per digest, Idempotency-Keys | create, verify; retries of both SDKs | concurrent requests for one digest; mined but not stored; retry after 503 |
| rpc-cache, SDK chain clients | Redis entries; locals of a call | read through; send a transaction and wait | stale answers of lagging replicas; a cached null; a nonce read twice |
| token caches | a token and its expiry | ask, log in, use, retry | shared logins, a clock that starts late |
| ContractRegistry | versions, active version | register, switch, deactivate | order of several registrars; version 0 |
| HaraPalmOil, TraceabilityBatchRelay, trace-api | balances, approvals, events | mint, relay a chain of hops; hops and graph | all or nothing; programs that wait for one transaction of many |
| console: users, sessions | `console.users`, `console.sessions` | manage users, login, passwords | checks and writes in different queries |
| console: backup report, agent | systemd timers and services | classify jobs | the report has a run's trigger, not its end; runs by hand |

Interaction is by shared rows (Postgres), messages (Redis stream), transactions
and events (chain) and objects (MinIO). No service calls another's process,
except clients over HTTP. Every service is a single Node.js process, so a
handler runs without interruption between two awaits: those are the steps of the
models.

`PROJECT.json` lists every component with its status, and every hazard at its line.

### What would make each component right

* signer and broadcaster: nonces are unique; a settled row agrees with the
  chain; the ledger of confirmed nonces is true; everything ends.
* transparency log: heads anchored on-chain are prefixes of one another, also
  across restarts; rows and statuses are backed by anchored leaves; what was
  acknowledged is durable; proofs verify.
* indexer and anchor-worker: cursors pass nothing that was not indexed or
  anchored; no row without its signature; every deep event is anchored in the
  end; an anchor names the key that signed it, and Vault still has that key.
* evidence: retention is never shortened; what is held is not deleted.
* checkpoints: a head in an answer is what the chain holds under its id; a bundle hides
  no checkpoint that was acknowledged before.
* gateway: an acknowledged digest is anchored, verifies, and is not anchored again.
* chain access: what a client is told of its transaction is what the chain says;
  its nonces leave no gap.
* governance: a quorum of distinct accounts stands behind every execution; what
  was voted on does not change; a revoked issuer never returns.
* custody: a program that reports success delivered; the graph is the ledger.
* console: somebody can administer it; a reset password ends the sessions; a
  backup shown as ok was made.
* Merkle algorithms: proofs served are accepted; nothing else is.

## 2. Modules

| module | models | kind |
|---|---|---|
| `TxPipeline` | `services/signer`, `services/broadcaster`, their tables, stream and the chain's pool | one action per await |
| `LedgerLog` | `services/registry-ledger`: attestations, statuses, reads, both stores, anchors | one action per await |
| `AppendOnlyLog` | what a transparency log promises | abstract specification |
| `AnchorPipeline` | `services/indexer`, `services/anchor-worker`, `PQAnchorRegistry.sol` | one action per await or transaction |
| `Governance`, `IssuerRegistry` | the two contracts, an action per function | components |
| `GovernedIssuers` | both together: execute calls the registry | composition |
| `EvidenceRetention` | evidence under retention, both stores, the Aurum client's resends | one action per await |
| `LedgerHeads` | `services/registry-ledger`: POST /v1/anchors, GET /v1/verify, `anchorSTH`, checkpoints in both stores; the Aurum client's retries and `verifySthAnchored` | one action per await |
| `GapuraAnchors` | the gateway's POST /v1/anchors, both stores, both SDKs' retries | one action per await |
| `ChainAccess` | `services/rpc-cache` over lagging replicas; `sendLegacyTx`, `waitForReceipt` of three SDKs | one action per call |
| `AnchorKeys` | the anchor worker's key in memory, in Vault and on chain | one action per await or transaction |
| `TokenCache` | the token caches of the Gapura SDKs and of `services/shared/src/vault.ts` | one action per call |
| `ConsoleUsers` | `console/server`: users, sessions, logins | one action per query |
| `BackupReport` | timers, `console/agent`, the report of `sources.ts` | timers and a classification |
| `MerkleLog` | `transparency-log.ts`, the Aurum SDK's `verifier.ts`, the anchor worker's `merkle.ts` | recursive functions |
| `CustodyFlow` | the palm-oil contracts, the programs that use them, `trace-api.ts` | one action per transaction or phase |
| `RefineryDag` | the hops `scenario-refinery-dag.ts` builds | a program, hop by hop |
| `ContractRegistry` | the contract and the SDKs' calls | one action per transaction |
| `MCTxPipeline`, `MCLedgerLog`, `MCAnchorPipeline` | instances of one component | |
| `MCGovernedIssuers` | instances of `GovernedIssuers` and of `LedgerHeads` | |
| `MCServices` | instances of the services and clients that share no state | |
| `MCStructures` | instances of `AnchorPipeline`, of which `MCAnchorPipeline` has the values, and of the data structures | |
| `TxPipelineProofs`, `LedgerLogProofs`, `AnchorPipelineProofs` | theorems about the module they are named after | |
| `RegistryLedgerProofs` | theorems about `EvidenceRetention`, `LedgerHeads`, `GovernedIssuers` | |
| `ServicesProofs` | theorems about `GapuraAnchors`, `ChainAccess`, `AnchorKeys`, `TokenCache`, `ConsoleUsers`, `BackupReport` | |
| `ContractsProofs` | theorems about `ContractRegistry` and `CustodyFlow` | |
| `MerkleProofs` | theorems about `MerkleLog` | |
| `RecursiveFunctions` | a recursive function satisfies its defining equation, least counterexamples | library of the two above |

### How state and actions correspond to the code

**TxPipeline.** `status`, `nonce`, `retryCount` and `attempts` are the columns of a
`transactions` row and its `tx_attempts`; `lastReserved` and `lastConfirmed` the
`wallet_nonces` row; `stream`, `lastDelivered` and `unacked` the Redis stream, the
group's last id and its pending list; `timers` the armed `setTimeout`s; `pc` and
`handler` say at which await the broadcaster and each request stand. The request
is `InsertDraft`, `ReadChainNonce`, `ReserveNonce`, then `RecordQueued` or
`SignFails`, then `Enqueue`. The broadcaster is `Start` .. `RecoverDone`
(`recoverOrphanedTxs`), `ReadGroup` (XREADGROUP with `>`), `FetchRow`, `Send*`,
`MarkBroadcasted`, `LogAttempt`, the decision `GiveUp` or `ScheduleRetry`, the
poll (`SettleFromReceipt`, `ConfirmNonce`, `ReceiptTimeout`) and `Ack`, which the
`finally` runs on every path. `Send*` covers a send that was accepted and whose
answer was lost. The chain keeps one pooled transaction per nonce, mines in nonce
order, may revert a transaction, and may take one signed elsewhere.

**LedgerLog.** A tree is its sequence of leaves and a root the sequence it commits
to, so a head of size n is a sequence of length n. Leaves are named by the
request that appends them, as every leaf holds a fresh id or timestamp. `tree` is
the `TransparencyLog` instances of the process, `logs` the one `getLog` returns;
`disk` is `ledger_leaf`; `atts`, `byContent` and `history` are the rows and keys of
`ledger_attestation` and `ledger_status`; `anchored` is what `PQAnchorRegistry`
holds. `writesEnabled` says whether an anchor registry and keys are configured, which a
deployment fixes at its start and which `config.ts:71` leaves off by default; without
them `anchorSTH` returns the head unanchored at once (`unanchored` remembers it) and the
handler goes on to write its rows. `Heads` are the heads published in either way, so what is
claimed with anchoring disabled is only that a returned head held the leaf: nothing on
chain backs a row then. A request looks up (`Lookup*`), gets the log (`UseLog`, `LoadLeaves`,
`InstallLog`), appends and counts (`CountLeaves`), inserts (`PersistLeaf`, or
`PersistConflict` on the primary key), anchors, and writes its rows. With the
memory store the awaits in between are microtasks, which no other request's I/O
can enter: `Turn` keeps such steps together. `Boot` is an attestation of an
earlier process, so that tables are not empty at the start.

**AnchorPipeline.** `blocks[n+1]` lists the contracts of the events of block n.
The indexer is `LoadWatched`, `PlanRange`, `FetchLogs` (by any replica at most
`MaxLag` behind), `CommitRange`; the worker `ReconcileKey`, `PlanWindow`,
`FetchEvents`, `SubmitAnchor`, `AwaitReceipt`, `PutBlob`, `InsertSignature`,
`AdvanceCursor`. A batch stands for its Merkle root, which `MerkleLog` shows to
determine it. `Watch` and `ResetCursor` are the operator's SQL of the runbooks.

**Governance, IssuerRegistry, GovernedIssuers.** A transaction is an action; a
revert is an action that is not enabled, which in the composition undoes both
contracts. The slot after the last proposal is kept because `_approve` does not
test that an id was proposed.

**EvidenceRetention.** A request reads its row (`ReadForUpdate`, `ReadForDelete`),
changes the record in memory, and writes it whole (`WriteBack`). The memory store
hands out its own object, so there the change is visible at once (`Alters`);
Postgres hands out a copy, of which `Found` is what `rowToEvidence` makes: its DATE is
parsed as local midnight and written out in UTC, so `Zone` matters. `Turn` keeps a request on the memory store together
until it waits for the chain. A leaf is appended before the row of a registration
(`AppendEvidence`, `PutEvidence`), and after 503 the client may send the same
request again.

**LedgerHeads.** A request has the rest of its handler as a list (`work`): heads to anchor,
latest checkpoints to read, a row to put. `SubmitHead` and `AwaitHead` are `anchorSTH` up to
and after the receipt, with the id read from the receipt's event; an `eventCount` above 64 bits cannot
be encoded (503), a `tree_size` above bigint is refused by Postgres (500). `PutCheckpoint`
keeps the id and drops the contract, as the row has no column for it; `ReadCheckpoint`
returns the row stored last (memory) or the largest (Postgres). Trees stand still here:
their growth is `LedgerLog`'s. `VerifySthAnchored` is evaluated at every length of chain an
endpoint may have.

**GapuraAnchors.** A request is `LookupKey`, `LookupDigest`, `Submit`,
`AwaitReceipt`, `PutAnchor`, `PutKey`. An anchorId is minted per mined transaction, so
the transaction's number stands for it. The SDKs retry a 503 with body and key of
the first request, the Python one also a lost connection. `gone` remembers what
the store legitimately lost (the memory store at a restart, expired keys).

**ChainAccess.** A read is `Hit`, or `Miss`, `Upstream` and `Store`; a replica
answers from the blocks it has imported. Entries may expire at any moment, so no
property rests on a time to live. viem reads the nonce at the write endpoint
(`ReadNonceDirect`).

**AnchorKeys.** A key is the number of its generation. The worker loads or
generates (`LoadOrInitKeys`, `WritePQFields`), checks its balance, compares with a
replica's answer (`ReconcileKeys`), rotates, and anchors. Its transactions are
mined in the order sent and outlive the process. The contract tags an anchor with
the key that is current when it is mined, not when it was signed.

**ConsoleUsers, TokenCache, BackupReport.** A user-management request is
`StartAdmin`, `ReadTarget`, `CountOwners`, `WriteAccount`, `RevokeSessions`; a write that
changes an active owner marks the other requests that have looked already `stale`. `excused`
marks a session that a known gap allowed to survive. A token's life starts at its
issue, its place in the cache at the answer. The agent tells systemd's last trigger, or the
service's last exit where the timer has none (`LastRun`), and the result, which is `success`
while a run is on its way; where `systemctl show` fails the result is missing and the job's
health `unknown` (`ShowFails`). An operator may start a service by hand (`StartByHand`).

**CustodyFlow, RefineryDag, ContractRegistry.** A program has phases; a phase sends
transactions and waits for one receipt. The seven styles are the load-test
programs and the SDK examples. `CustodyHops` is the view of migration 003,
`CurrentLiters` and `EdgeLiters` what the trace API computes. A scenario is a value of
`Flows`. `CustodyAssumption` says of each that its holders are different accounts and
its hops theirs; `CustodyPlans` that a load program derives its wallets from a seed
(`scenario-stress-200x500.ts:89-92`), so the deployer is none of them, that all but the
refinery end at the last holder, and that the programs which read no balance mint what
they then send along all the holders (`scenario-stress-200x500.ts:293-325`, the SDKs'
`execute-chain` examples). `RefineryDag` is
parameterised by the published tanks and flows, which `RefineryFlows` lists.

**MerkleLog.** Hashes are symbolic: `<<d>>` for a leaf, `<<l, r>>` for a node. The state
is a log and a rewritten copy; each state's invariant quantifies over all sizes,
leaves and proofs of both. What the code does by recursion or a loop is a recursive
function of a record of its arguments. The bit operations of the verifiers are
written with `\div` and `%`, which is what they do below 2^30 leaves.

## 3. Runs

| run | result | shows |
|---|---|---|
| `tx_faults` | pass | with any two faults (Vault, signing, database, Redis, RPC, crash, eviction) and an out-of-band transaction: types, unique nonces, settled rows agree with the chain, `last_confirmed` names a mined nonce, settled rows final; without a fault every queued row ends CONFIRMED, REVERTED or FAILED |
| `tx_concurrent` | violation | two concurrent requests enter the stream against their nonces; one fails |
| `tx_killed` | violation | a broadcaster killed after the send leaves the row BROADCASTED for ever |
| `ledger_steady` | pass | log loaded, both stores, anchoring enabled and disabled, three requests of which any two overlap, one failed statement or anchor: rows are backed by published heads, answers stay true and carry a head that holds their leaf, the process implements `AppendOnlyLog`, and a revoked row changes only by a request that read it before |
| `ledger_restart` | pass | Postgres, anchoring enabled and disabled, one request at a time, two crashes or chain failures: a rebuilt log extends every published head |
| `ledger_twologs` | violation | two requests after a restart build two logs and anchor diverging heads |
| `anchor_cut` | violation | LIMIT cuts inside a block and the rest of the block is never anchored |
| `governance` | pass | quorum, no double registration, fixed contents, final revocation, no change of an issuer without a proposal; and of `LedgerHeads`, in behaviours of its own: heads in answers are the chain's, bundles hide no acknowledged checkpoint |
| `services` | pass | `EvidenceRetention`, `GapuraAnchors`, `ChainAccess`, `AnchorKeys`, `ConsoleUsers`, `TokenCache`, `BackupReport`, each in behaviours of its own; user-management requests overlap, and the last owner goes only by a stale write |
| `structures` | pass | `AnchorPipeline` with one fault and one operator change: completeness of the index, coverage up to the cursor, blobs before rows, and eventual coverage; and `MerkleLog`, `CustodyFlow`, `RefineryDag`, `ContractRegistry`, each in behaviours of its own |
| `gapura_retry` | violation | a retry after 503, as the guide recommends, anchors a digest twice |
| `users_overlap` | violation | two overlapping user-management requests leave no active owner |

In `governance`, `services` and `structures` the components share no variable; `focus` chooses the
one a behaviour is of, and the others stay where they start. The state space is
the sum of theirs, not the product, and each property speaks of one component.

### Bounds, and why they are enough

* `tx_*`: two requests, two delivery attempts, batch of two. Nonce races, a batch
  with a second message behind a failing one, a retry behind a new message and a
  gap below a pending nonce all need two transactions and no more. Two faults
  allow a crash during the handling of another fault.
* `ledger_*`: three requests, two in work at a time: one to attest, one to change
  it, one to read. A content hash that was attested before and one that was not.
  In `ledger_steady` any two of the three overlap. `ledger_restart` serves one request
  at a time because with two (`MaxInFlight = 2`) the property does not hold: section 6.
  Both have the deployments with and without anchoring (`WriteModes`); the violation runs
  take one and two requests, which suffice.
* `anchor_cut`, and `structures` with the pipeline in focus: three blocks after the first, block contents with none, one, or two
  events of one or two contracts, ranges of two blocks, replicas one behind, as
  many confirmations. A range cut by the batch size, a tail shorter than it, a
  re-anchored batch and a cursor moved back occur. Block production is bounded,
  so `EventuallyCovered` speaks of blocks deep enough below the last (`Deep`).
* `governance`: three accounts, thresholds two and three, two proposals of four
  calls about one issuer, one controller who may also become a registrar. Two
  proposals are what double registration and revocation against activation need.
  Accounts are symmetric; only safety is checked under symmetry.
* `governance`, heads: a subject with one attestation; three requests, one resend, one
  fault, Postgres with and without an anchoring key, the memory store without (with one
  the properties hold too; its 700,000 states are left out of the run for their time only); checkpoints of the tenant's log with
  two leaves and with one leaf and a root of zeros, and one of another log too large for the contract
  and for the store (`MaxUint64` = 3, `MaxInt64` = 2 stand for the limits). Two
  requests anchor at once while a third bundles; a smaller checkpoint comes after a larger one.
* `services`, gateway: two clients, one of each SDK, one digest under two purposes,
  two keys, three HTTP requests of which two at work, one fault. Two clients race
  for a digest or a key; three requests allow a retry behind a race.
* `services`, evidence: two tenants, one hash, three requests, one resend, two
  retention dates, a day that passes. A lost update needs a row, a read and a
  write in between: three requests.
* `services`, access: a Go and a TypeScript wallet, up to two sends each and three
  together (`MaxSends`, `MaxCalling`), one replica that may lag behind the nodes, one
  fault. The second send is the one whose nonce may be stale. The same focus with four
  sends together (1.3 million states) and with two replicas as well (`Replicas =
  {r1, r2}`, 7.2 million) holds too and is left out of the run for its time only.
* `services`, keys: two keys, three lives, three anchors, one fault: a key lost in
  the second life and replaced, with the first life's transactions still pooled.
* `services`, users: three users, two overlapping user-management requests and one login
  at a time, five requests (`MaxAdmins`, `MaxConsoleCalls`): two owners are made, two
  requests look, both write.
* `services`, tokens: two callers, lifetimes below and above the skew, answers late by
  at most the skew, five units of time. Backups: two jobs on two hosts, one of them
  listed, six hours, two troubles of four kinds: a failed
  run, a stopped timer, a `systemctl show` that fails, a host whose agent does not answer; runs
  by hand at any time.
* `structures`, the rest: logs of up to six leaves with all rewritings, which covers sizes
  around two powers of two, unbalanced trees on both sides, and an odd level above an
  even one for the anchor worker's tree; twelve custody scenarios of three or four
  holders, with one fault: a call refused, any part of a batch refused or its answer lost, or
  an approval withdrawn; the refinery as
  published; one name, three versions and four calls.

### Fairness

`TxPipeline!Fairness` and `AnchorPipeline!Fairness` are weak fairness of the steps a
running Node.js process takes of itself (the event loop goes on, armed timers
fire), of the restart of a stopped container (`restart: unless-stopped` in
`deploy/services/docker-compose.yml`), and of block production. No fairness is
assumed of faults, operators, out-of-band transactions, or of any failing path,
and weak fairness suffices as no step of a process is disabled by another
process for ever without having been taken. `EventuallySettled` promises a final
status or that a fault has happened: with faults `tx_killed` shows that a row may
stay. Liveness of AnchorPipeline is claimed with faults, of which there are
finitely many. The other modules state safety only.

## 4. Proofs

TLAPS proves these for every value of the constants that satisfies the modules'
assumptions, with any number of requests, blocks, accounts and faults. The third
column is what a theorem assumes besides the specification; section "Hypotheses"
says where the code justifies it.

| theorem | says | if |
|---|---|---|
| `TxPipelineProofs!TypeCorrect` | `[]TypeOK`, including that queue positions are positions of the stream | |
| `TxPipelineProofs!NonceUniqueness` | `[]NoncesUnique` | |
| `TxPipelineProofs!SettledAgreement` | `[]SettledMatchesChain` | |
| `TxPipelineProofs!ConfirmedNonceMined` | `[]LastConfirmedMined` | |
| `TxPipelineProofs!SettledStays` | `SettledIsFinal` | |
| `LedgerLogProofs!TypeCorrect` | `[]TypeOK` | |
| `LedgerLogProofs!RowsAreBacked` | `[]RowsBacked`: a row or status has a head, recorded with anchoring enabled and returned without, that holds its leaf | |
| `LedgerLogProofs!AckIsDurable` | a 201 has its row and its status entry | |
| `LedgerLogProofs!OneIdPerContent` | on Postgres one content hash has one registryId | |
| `LedgerLogProofs!RevocationIsTerminal` | `RevokedUnlessReadBefore` | |
| `LedgerLogProofs!SteadyAnswersHold` | `[]AnswersHold` | `Steady` |
| `LedgerLogProofs!SteadyHeadsConsistent` | `[]HeadsConsistent` | `Steady` |
| `LedgerLogProofs!SteadyIsAppendOnly` | `Implements`: the refinement of `AppendOnlyLog` | `Steady` |
| `LedgerLogProofs!SerialRebuildKeepsHeads` | `[]RebuildKeepsHeads` | `Serial` |
| `AnchorPipelineProofs!TypeCorrect` | `[]TypeOK` | |
| `AnchorPipelineProofs!EventsAreComplete` | `[]EventsComplete` | `ReplicasKeepUp` |
| `AnchorPipelineProofs!RowsHaveBlobs` | `[]RowHasBlob` | |
| `AnchorPipelineProofs!CursorIsCovered` | `[]CursorCovered` | `ReplicasKeepUp`, `[]WholeBlocks` |
| `RegistryLedgerProofs!TypeCorrect` | `[]TypeOK` of both contracts | |
| `RegistryLedgerProofs!QuorumHolds` | `[]Quorum` | |
| `RegistryLedgerProofs!RevokedStays` | `RevokedIsFinal` | |
| `RegistryLedgerProofs!AddedAtMostOnce` | `[]AddedOnce` | |
| `RegistryLedgerProofs!ProposalsFixed` | `ProposedIsFixed` | |
| `RegistryLedgerProofs!ChangesAreBacked` | `ChangesBacked` | |
| `ServicesProofs!AnswersAreRight` | `[]AckedIsRight` | |
| `ServicesProofs!NotRecordedAgain` | `AckedNotRecordedAgain` | |
| `RegistryLedgerProofs!CommitmentKept` | `[]NeverBelowCommitment` | `Zone = "utc"` |
| `RegistryLedgerProofs!OnlyStaleWritesBreach` | `BreachedByStaleWriteOnly` | `Zone = "utc"` |
| `RegistryLedgerProofs!HeadsAudited` | `[]HeadsAreAuditable` | |
| `RegistryLedgerProofs!LargestShown` | `[]LargestCheckpointShown` | |
| `ServicesProofs!ResetEnds` | `[]ResetEndsSessions` | |
| `ServicesProofs!LastOwnerStays` | `LastOwnerLostByStaleWriteOnly`, for any number of overlapping requests | |
| `ServicesProofs!TokensGivenOutLive` | `[]GivenOutAlive` | |
| `ServicesProofs!AnchorsCarryTheirKey` | `[]AnchorsAttributable` | |
| `ServicesProofs!OkIsRecent` | `[]OkMeansRecent` | |
| `ServicesProofs!ReceiptPollsAreTrue` | `[]ReceiptsAreTrue` | |
| `ServicesProofs!NonceLeavesNoGap` | `[]NonceNeverAhead` | |
| `ContractsProofs!ResolutionMoves` | `ResolutionMovesBySwitch` | |
| `ContractsProofs!GraphAgrees` | `[]GraphIsTheLedger` | `CustodyAssumption` |
| `ContractsProofs!SuccessDelivers` | `[]SuccessIsDelivery` | `CustodyAssumption`, `CustodyPlans` |
| `MerkleProofs!ServedProofsAlwaysVerify` | `[]ServedProofsVerify` | |
| `MerkleProofs!ProofsAlwaysBind` | `[]ProofsBind` | |
| `MerkleProofs!AuditPathVerifies`, `ConsistencyProofVerifies` | what a verifier computes from any proof served | |
| `MerkleProofs!AcceptedLeafIsInTree`, `AcceptedLogIsExtension` | what follows from accepting any path, of any nodes and length | |
| `MerkleProofs!AnchoredRootBinds` | one length and one anchor worker's root: one log | |
| `RecursiveFunctions!Recursion` | a recursive function satisfies its equation | `WellDefined` |

### Hypotheses

* `ReplicasKeepUp`: a replica trails the head by no more than `CONFIRMATIONS`
  (`services/indexer/src/config.ts`). Without it a replica that does not have the
  last block answers with no logs and no error, and TLC finds the index incomplete.
* `WholeBlocks`: `ANCHOR_MAX_EVENTS` never cuts the worker's batch inside a block. The
  run `anchor_cut` shows what happens when it does.
* `Steady`: the log is loaded and the process is not restarted; any number of
  overlapping requests, failing statements and failing anchors. `ledger_twologs`
  shows why the first request after a restart is excluded.
* `Serial`: one request at a time, on Postgres, whose statements do not fail; restarts
  and failed anchors remain. Section 6 says what overlapping requests do to it.
* `Zone = "utc"`: the service's time zone is UTC or west of it. Section 6 says what
  happens east of it. The theorems assume it for both stores, though the memory store keeps the
  date as text.

### Arguments

**Nonces** (`NonceInv`). Uniqueness is not inductive: a request could reserve the
nonce of another. The strengthening says that no nonce exceeds `lastReserved`
and that a request that has not reserved has none; `NextNonce` is above
`lastReserved`, whatever the request read from the chain before the lock.

**Settled rows** (`IInv` = `TypeOK`, `NonceInv`, `ChainInv`, `SettledInv`). That a row
agrees with the chain needs that the chain holds a transaction at its own nonce,
which needs that the pool holds none below the chain's length and none twice;
the last follows from unique nonces. `ReceiptKept` then says no step removes or
changes a receipt, so a settled row stays right whatever writes it. `ConfInv` adds
that a handler past its poll holds a mined nonce, which is what `last_confirmed` is
set to. `QueueInv` bounds what may still write a settled row: it is in no timer and in
no message that was not delivered, unless its handler is at work on it.

**Ledger types and rows** (`TInv`, `BackedInv`, `AckInv`). The types of a handler's
locals depend on what it has read, so `TInv` says what each control point has by
then. `BackedInv` follows a leaf from the instance into a head the handler
computes, into the head `anchorSTH` records or, with anchoring disabled, returns, and only
then into a row or a status. `AckInv`
says that a row's writer owns it and that Postgres's unique content key keeps it. `LiveInv` says
that a request that changes a status has read one that was not revoked, whatever it is by then.

**The steady ledger** (`SteadyInv`). All published heads, all rows and all locals read
from them are prefixes or leaves of the one instance, which only grows; hence any
two heads are ordered, and a proof computed from a later tree still proves the leaf. With
it every step maps to an append, a publication or a stutter of `AppendOnlyLog`.

**The serial ledger** (`SerialInv`). Between requests the instance and `ledger_leaf` hold the
same sequence; the request in work is ahead of the table by its own leaf only. A crash
loses the instance but not the prefix the heads are of.

**Index** (`IndexInv`). The cursor is honest only if the range in work starts
where the index is complete. `RangeInv` says so without the cursor, because an
operator may move it back while a range is in work. `FetchInv` says the fetched
events hold all of the range.

**Rows, blobs, coverage** (`BlobInv`, `CoverageInv`). The worker's own transaction is in
the bucket once it stands at the insertion. For the cursor, the batch holds all
indexed events between it and the batch's last block, as long as the cursor and the index
are not moved in between, and the cursor advances only past such a batch.

**Quorum** (`QuorumInv`). A slot's count is at most the number of accounts that
approved it, and a slot that is not pending has a count some threshold
accepted. The count may be *lower* than the approvals, since `propose` resets
it over approvals given before, which is the safe direction. `SlotInv` says that
slots beyond the last proposal have no call, so approving one changes no issuer.

**Additions** (`AddInv`). A proposal that added an issuer was executed, so the
issuer is known, so a second addition reverts.

**Gateway** (`AnchoredInv`, `KeyInv`, `QuietInv`, `SubmitInv`). Whatever a row, a key or a
handler past its receipt holds is mined. An entry of a key lives as long as an
answer under it is remembered; when a request is sent after an answer and nobody else
of that key is at work, no handler of the key is past its lookup, so the entry cannot be
replaced. A handler about to submit has looked for its digest after the earlier
answer wrote the row.

**Evidence** (`PutInv`, `WriteInv`). A record about to be written back is a legal change of
the copy that was read, and ends no earlier than its leaf; what is wrong with a write
can therefore only be that the row changed since the read.

**Heads** (`HeadsInv`). Every head that is on its way to an answer, in a handler's locals or a
checkpoint's row, is what the chain holds under its id: a mined transaction keeps the id it was
given and the chain only grows, so it stays so. A handler that waits holds the
number of the transaction of its own head, which is why the id it reads is that head's.

**Bundles** (`ShownInv`). A bundle at work either has the log still to read or has already
got a row that is large or late enough; a row is stored by one request, once, and rows are lost by a
restart only, which ends the bundle too.

**Console** (`ResetInv`, `OwnerInv`). A session of an old password is excused, or its
revocation is still to come. A request that has counted two owners and that no write has
marked stale since can rely on the count when it writes: the second owner is still there.

**Tokens** (`TokenInv`). The deadline in the cache is at most the answer's delay after the
token's own, less the skew.

**Worker keys** (`KeysInv`). The hash that is current when an anchor is mined is the one
the last rotation before it in the pool makes current; `PoolInv` and `OrderInv` say that this
is the key of the life that signed it, `VaultInv` that Vault has a version of it.

**Registry and backups.** An entry is written once, so a resolution moves only with
the active version. A run that ended well ended no earlier than its trigger.

**Chain access** (`AccessInv`). The cache keeps only what may be told: a receipt the chain
has, a nonce not above the number of accepted calls; both stay true as the chain grows and
accepted calls stay accepted (`Grows`). Null is on its way only to a poll that began
before every replica had the receipt (`RpcOk`), and is never stored. That the
pending nonce is at most the number of accepted calls (`PendingIsAccepted`) is a count: the
transactions at the nonces below it are of different calls (`TxOk`), which gives an
injection.

**Recursive functions.** A definition `f[x \in D] == ...` stands for the CHOOSE of a
function that satisfies it, so nothing is known of `f` until one is shown to exist.
`RecursiveFunctions!Recursion` shows it once, for a definition that asks only for values of a smaller
measure; `MerkleProofs` and `ContractsProofs` instantiate the module for each function.
A statement about all sizes is then proved without an induction rule: were there
counterexamples there would be a smallest (`LeastNumber`, `Least`), and a smaller one is
constructed from it.

**Merkle trees.** A subtree is where it stands at a level of the tree (`In`, `Fits`). Climbing
with an audit path, the verifier holds the hash of the subtree it has reached, and its
two counters are the leaf's and the last leaf's index at that level; a path served
keeps that to the root. For an accepted path the same climb is made by the path offered
and the one served: symbolic hashes are injective, so equal roots have equal
children all the way down, to the same leaf. A consistency path is two such climbs over one
path. The ledger's verifier stops the test at `fn = 0` where RFC 6962 and the SDK ask for
`sn = 0`; `AcceptedLogIsExtension` covers both, since a root that equals the new tree's
cannot have been reached too early.

**The custody graph** (`CustodyTyped`, `CustodyLedger`). Each holder's balance is what it was minted
and what the hops so far add and take. One hop changes two balances and the sums of its two ends by
the same liters; the relay's loop is a sequence of such steps, whose first wrong one would be
a counterexample. That the edges add up to the node needs that the holders
are different: in the sum over the other ends a hop changes one term.

**Delivery** (`CustodyRuns`). That the outputs hold the volume when a program reports is not
enough: a transaction still in the pool could undo it. `LoadRuns` says that the
report comes after the last of the deployer's nonces and that only the awaited
transfer is still to come; `SdkRuns` that an example has one call in the pool, or has
given up. `StressRuns` follows the batch without reading a balance, from the
deployer's nonce: not minted, at the first owner, at the last holder. That the
execution cannot revert needs that all approvals were read back before it was sent
(`HoldersOf(flow) \subseteq approved`) and that the chain of hops passes the whole volume on
(`ChainDelivers`).

### Model-checked only

Liveness (`EventuallySettled`, `EventuallyCovered`): fairness and ENABLED are out of the
prover's reach. `RefineryDag` (`NothingLeftBehind`): the published refinery is one
program without parameters or choices, of which TLC computes every step; for other
tanks and flows the property is false, so there is no more to prove. The `TypeOK` of
`AnchorPipeline` and of the two governance contracts are theorems and no run repeats them.

## 5. Findings

1. `tx_concurrent`: `ops/runbooks/L2-signer-broadcaster.md:89` "5 concurrent POST
   /v1/tx requests all confirm". Reservation and XADD are separate awaits; the
   broadcaster waits for one receipt at a time; the message that came first
   with the higher nonce times out and is marked FAILED.
2. `tx_killed`: same file, line 90, "gets confirmed once the broadcaster restarts
   and resumes polling (graceful pickup via PENDING entries)". Only new messages
   are read; recovery looks once.
3. `ledger_twologs`: `getLog` awaits between its test and its `set`.
4. `anchor_cut`: the cursor advances to a block whose events were cut.
5. `gapura_retry`: `doc/api/gapura-integration-guide.md:81-82` "anchoring an
   already-anchored hash returns the existing anchor (`200`), never a duplicate", and
   line 401, 503 is "safe to retry (idempotent)". The gateway looks at its own row
   only, which it writes after the receipt; when the wait for it fails the retry
   sends the transaction again, and the contract records both.
6. `users_overlap`: `console/server/src/users.ts:2-3` and 178, "cannot remove/demote/disable the
   last active owner". The count and the write are two queries.

## 6. Known limits of the properties

Seen while modelling; not checked by a run of their own. The first four are disagreements between
code and documentation that the passing runs and the theorems leave out by what they assume.

* Ledger, proofs. `services/registry-ledger/README.md:122-123`: "Every `inclusion_proof` /
  `consistency_path` is verifiable against the STH's `root_hash`". The writers take the head
  before their last awaits and the proof after them (`ledger.ts:126-127`, 194-195, 330-331), so
  when another request appended in between, the proof is for a larger tree than the head of the
  same answer. `HeadHoldsLeaf`, a part of `AnswersHold`, is what remains: the head holds the leaf
  and the tree of the proof extends the head.
* Ledger, order. `ledger.ts:5-6`: "lazily rebuilt from the store's durable leaf table". The append
  to the tree and the insertion of the leaf are two steps (`ledger.ts:123-124`), and the table
  numbers its rows itself (`postgres.ts:248`). Of two overlapping requests the stored order may
  differ from the tree's, or one fails on the primary key with its leaf already in the tree: the
  published heads are then not heads of the rebuilt log. `RebuildKeepsHeads` is false with
  `MaxInFlight = 2`, without any fault.
* Ledger, revocation. `ledger.ts:305-306` refuses to change what "is already revoked", and
  `services/registry-ledger/README.md:117-118` promises a 409. The row is read before the append
  and the anchor and written unconditionally after them (line 328): a supersession that overlaps a
  revocation replaces it after both were answered 200. `RevokedUnlessReadBefore` says that
  this is the only way.
* Evidence, dates. `doc/api/aurum-ledger-integration-guide.md:186-187`: "never shorten below the
  recorded basis". `postgres.ts:310-312` turns a DATE, which pg reads as local midnight, into a day
  in UTC. East of UTC every change of a hold takes a day off the stored retention, and the hosts
  run at UTC+7 (`doc/state/hara-registry-state-04.md:148`). With `Zone = "east"` TLC finds
  `NeverBelowCommitment` violated.
* Ledger. With several requests in work at a time the memory store may give two ids to one
  content hash. Anchoring enabled or disabled is fixed for a behaviour: a deployment that
  turns it on later has rows that no recorded head backs. A retry after 503 appends a second
  leaf for the same content, as the leaf precedes the row
  (`doc/api/aurum-ledger-integration-guide.md:74-75` says "never a duplicate leaf").
* Transactions. A FAILED row may be mined later. With a failing database inside
  the poll, the deadline may overwrite a CONFIRMED row (`SettledIsFinal` names
  this one step). An issued nonce may be taken by a transaction signed elsewhere.
* Anchoring. `anchor-worker/src/index.ts:176-188` says blob first; lines 190-209
  submit to the chain first. Receipts' status is not read, so a reverted anchor
  or key rotation counts as done; `CursorCovered` and `EventuallyCovered` exempt those behaviours. A cursor reset
  while a range is in work is lost. Events indexed below the worker's cursor by
  a backfill are never anchored.
* Governance. Ids can be approved, executed or cancelled before they are proposed;
  who approved the next id cannot propose it; after a lowered threshold a
  proposal needs one more approval. `IssuerRegistry.sol:47` speaks of a pending
  state that `addIssuer` (line 155) never sets. A revoked issuer's key can be rotated.
* Gateway. The loser of a race on Postgres answers 500, as its key cannot name a row that
  is not there, or 201 with an id its store does not have, when the key is taken by
  then; `AckedIsRight` asks that the digest verifies.
* Evidence. On Postgres a request that read a row before another changed it writes
  the old fields back: a hold set in between is lost, a deletion undone. A patch sent
  again after 503 applies its old hold over a newer one. A deletion refused, or a
  registration, sent again after 503 leaves a second leaf. Registering content that
  was deleted answers 200 with an id that GET denies. A hold set while a deletion is
  between its read and its write does not stop it.
* Checkpoints. `submitCheckpoint` anchors the head its client sends, under the log id its
  client names; the heads of `HeadsConsistent` are those the service builds. A bundle gives a
  checkpoint's head without its contract (`ledger.ts:579-581`), so the SDK's offline check
  refuses it (`verifier.ts:341-345`), though the guide has auditors check every head of a bundle
  (`doc/api/aurum-ledger-integration-guide.md:219-221`); and its example lists a checkpoint of an
  `:events` log, while `verifyBundle` looks up the logs of attestations only.
* Keys. `PQAnchorRegistry.sol` says of an anchor's key hash "at signing time"; the code
  stores `currentPQKeyHash` when the anchor is mined. They differ after a rotation that
  reverted, as its status is not read. The model has one wallet, one worker at a time and no
  evictions from the pool.
* Chain access. A nonce read through the one-second cache may be too low, and the
  send is refused. `eth_getCode` of an address without code, and blocks by number,
  are cached for an hour; no SDK decides anything by them.
* Backups. `console/agent/src/index.mjs:145-146`: "Prefer the most recent of the timer's last
  trigger and the service's last actual execution". The code takes the trigger whenever there is
  one, so a run by hand after the timer was stopped shows as overdue right after it succeeded.
* Console. Changing one's own password keeps the other sessions, though `auth.ts:3-4` says sessions are deleted. A failed
  job shows as ok while its next attempt runs, and after a reboot, which is not modelled: the timers
  are persistent (`install-backup-timers.sh:125`), so the last trigger survives while the
  service's result is `success` again. The jobs of a host whose agent does not
  answer are missing from the totals; `insights.ts` calls a job late after 26 hours, `sources.ts`
  after 1.3 times its cadence.
* Merkle. `transparency-log.ts:278` ends a consistency proof when `fn` is 0, the SDK's
  `verifier.ts:262` when `sn` is: an empty first tree is treated differently. `k << 1` is a
  32-bit operation, so trees of more than 2^30 leaves are out of reach of the code.
* Custody. The view `custody_hops` leaves mints out, so a first owner's
  `currentLiters` is negative until the viewer adds the volume. The list of a holder's
  batches looks the address up in lower case while decoded addresses are checksummed
  (`trace-api.ts:154`; `doc/state/hara-registry-state-04.md:107` calls it a known quirk).
* ContractRegistry. Version 0 and "none active" are one value (line 67).

## 7. Not modelled, and why

Identity, metering and bindings of the gateway, and proposals of the console pass a request on or write one row. AnchorRegistry
and TestToken keep no state a service reads. The web applications, the
remaining SDK calls, authentication, metrics, migrations and deployment are stateless or
are configuration. Cryptography is symbolic: hashes do not collide, signatures are
left out, keys are names. Consensus is Besu's. Real time is abstract: times to live
expire at any moment, and clocks are counted in days, hours or units. The left-out parts
of modelled components are in their notes in `PROJECT.json`.

## 8. Plan

The state machines whose safety properties rest on order, concurrency and failure are
modelled, and those properties are proved. What is left:

* `LedgerLog` beyond `Steady` and `Serial`: concurrent requests with restarts, once the log
  is loaded.
* The relay's other callers: several batches at once in one program, as the stress
  program sends them, share no balance and no hop, but the deployer's nonces.

## 9. Running

```
tlc -workers 2 -config tx_faults.cfg MCTxPipeline
tlapm TxPipelineProofs.tla
```

Each run's module and configuration are in `PROJECT.json`. Definitions marked
`(mutant)` are changed forms of a definition of the model, as a plausible bug in
the code would change it; `PROJECT.json` pairs each with the property that then fails.
