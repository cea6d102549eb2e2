--------------------------- MODULE AnchorPipeline ---------------------------
(***************************************************************************)
(* From the chain's events to post-quantum anchors: the event indexer      *)
(* (services/indexer), the Postgres tables watched_contracts,              *)
(* indexer_state, indexed_events, pq_anchor_signatures and                 *)
(* pq_anchor_worker_state, the anchor worker (services/anchor-worker), its *)
(* MinIO bucket, and PQAnchorRegistry.  QBFT blocks are final; the read    *)
(* replicas behind the load balancer may lag.                              *)
(***************************************************************************)
EXTENDS Integers, Sequences, FiniteSets

CONSTANTS
  Contracts,      \* contracts that emit events
  InitialWatch,   \* rows of watched_contracts at the start
  BlockContents,  \* event lists a block may have: sequences of contracts
  MaxBlocks,      \* bound: blocks after genesis
  MaxLag,         \* blocks a read replica may be behind
  Confirmations,  \* CONFIRMATIONS of the indexer
  BatchSize,      \* BATCH_SIZE: blocks per eth_getLogs
  MaxEvents,      \* ANCHOR_MAX_EVENTS: LIMIT of the worker's query
  MinEvents,      \* ANCHOR_MIN_EVENTS
  MaxManual,      \* bound: operator interventions of the L3 runbook
  Faults,         \* kinds of fault that may happen
  MaxFaults       \* bound: faults in one behaviour

FaultKinds == {"rpc", "db", "minio", "crash", "revert"}

ASSUME AnchorAssumption ==
  /\ InitialWatch \subseteq Contracts
  /\ BlockContents \subseteq Seq(Contracts)
  /\ MaxBlocks \in Nat /\ MaxLag \in Nat /\ Confirmations \in Nat
  /\ BatchSize \in Nat \ {0} /\ MaxEvents \in Nat \ {0} /\ MinEvents \in Nat \ {0}
  /\ MaxManual \in Nat /\ MaxFaults \in Nat
  /\ Faults \subseteq FaultKinds

VARIABLES
  \* chain: blocks[n + 1] lists the contracts of block n's events; the
  \* registry's anchors and PQ key; recordAnchor transactions in the pool
  blocks, anchors, chainKey, pending,
  \* Postgres and MinIO
  watched, indexCursor, indexed, anchorCursor, blobs, signatures,
  \* indexer: program counter, contracts loaded at its start, range in work,
  \* events fetched for it
  ipc, loaded, range, fetched,
  \* anchor worker: program counter, cursor and safe head read, events to
  \* anchor, number of its transaction
  wpc, window, batch, tx,
  \* bounds
  manual, faults

chain == <<blocks, anchors, chainKey, pending>>
tables == <<watched, indexCursor, indexed, anchorCursor, blobs, signatures>>
indexer == <<ipc, loaded, range, fetched>>
worker == <<wpc, window, batch, tx>>
bounds == <<manual, faults>>
vars == <<chain, tables, indexer, worker, bounds>>

Latest == Len(blocks) - 1
\* What eth_blockNumber answers, and the block up to which a replica has logs
Views == {n \in 0 .. Latest : Latest - n <= MaxLag}
Smaller(a, b) == IF a < b THEN a ELSE b

\* An event is its block and its index in it.
Events == UNION {{n} \X DOMAIN blocks[n + 1] : n \in 0 .. Latest}
ContractOf(e) == blocks[e[1] + 1][e[2]]
Before(e, f) == e[1] < f[1] \/ (e[1] = f[1] /\ e[2] < f[2])
Covered(e) ==
  \E a \in anchors : e \in a.events /\ a.tx \in blobs /\ a.tx \in signatures

\* One fault of the given kind happens: allowed by the configuration, counted.
Fault(kind) == kind \in Faults /\ faults < MaxFaults /\ faults' = faults + 1 /\ UNCHANGED manual

Init ==
  /\ blocks = <<<<>>>> /\ anchors = {} /\ chainKey = "placeholder" /\ pending = {}
  /\ watched = InitialWatch /\ indexCursor = -1 /\ indexed = {}
  /\ anchorCursor = -1 /\ blobs = {} /\ signatures = {}
  /\ ipc = "down" /\ loaded = {} /\ range = <<0, 0>> /\ fetched = {}
  /\ wpc = "down" /\ window = <<-1, 0>> /\ batch = {} /\ tx = 0
  /\ manual = 0 /\ faults = 0

-----------------------------------------------------------------------------
(* Chain and operator.                                                       *)

Mine ==
  /\ Latest < MaxBlocks
  /\ \E b \in BlockContents : blocks' = Append(blocks, b)
  /\ UNCHANGED <<anchors, chainKey, pending, tables, indexer, worker, bounds>>

\* A pooled recordAnchor is mined: the registry tags it with its current key.
MineAnchor ==
  /\ \E p \in pending :
       /\ pending' = pending \ {p}
       /\ anchors' = anchors \cup {[tx |-> p.tx, events |-> p.events, key |-> chainKey]}
  /\ UNCHANGED <<blocks, chainKey, tables, indexer, worker, bounds>>

\* register-from-broadcast.sh, or the INSERT of the runbook
Watch ==
  /\ manual < MaxManual /\ manual' = manual + 1
  /\ \E c \in Contracts \ watched : watched' = watched \cup {c}
  /\ UNCHANGED <<chain, indexCursor, indexed, anchorCursor, blobs, signatures, indexer, worker,
                 faults>>

\* "reset the cursor to re-index from a specific block"
ResetCursor ==
  /\ manual < MaxManual /\ manual' = manual + 1
  /\ \E n \in -1 .. (indexCursor - 1) : indexCursor' = n
  /\ UNCHANGED <<chain, watched, indexed, anchorCursor, blobs, signatures, indexer, worker, faults>>

-----------------------------------------------------------------------------
(* Indexer: one tick after the other.                                        *)

IndexerGoes(from, to) == ipc = from /\ ipc' = to
\* A tick that ends, whichever way, forgets its locals.
EndTick == ipc' = "tick" /\ range' = <<0, 0>> /\ fetched' = {}

LoadWatched ==
  /\ IndexerGoes("down", "tick")
  /\ loaded' = watched
  /\ UNCHANGED <<chain, tables, range, fetched, worker, bounds>>

\* (mutant) the range goes up to the head the replica names
PlanRangeToHead ==
  /\ ipc = "tick"
  /\ \E head \in Views :
       IF head <= indexCursor THEN UNCHANGED <<ipc, range>>
       ELSE /\ ipc' = "logs"
            /\ range' = <<indexCursor + 1, Smaller(indexCursor + BatchSize, head)>>
  /\ UNCHANGED <<chain, tables, loaded, fetched, worker, bounds>>

\* getBlockNumber and getCursor; nothing to do leaves the range alone
PlanRange ==
  /\ ipc = "tick"
  /\ \E head \in Views :
       LET target == head - Confirmations
       IN IF target <= indexCursor THEN UNCHANGED <<ipc, range>>
          ELSE /\ ipc' = "logs"
               /\ range' = <<indexCursor + 1, Smaller(indexCursor + BatchSize, target)>>
  /\ UNCHANGED <<chain, tables, loaded, fetched, worker, bounds>>

\* getLogs at some replica: it answers what it has
FetchLogs ==
  /\ IndexerGoes("logs", "commit")
  /\ \E view \in Views :
       fetched' = {e \in Events : /\ e[1] \in range[1] .. range[2] /\ e[1] <= view
                                  /\ ContractOf(e) \in loaded}
  /\ UNCHANGED <<chain, tables, loaded, range, worker, bounds>>

\* one database transaction: events and cursor
CommitRange ==
  /\ ipc = "commit" /\ EndTick
  /\ indexed' = indexed \cup fetched
  /\ indexCursor' = range[2]
  /\ UNCHANGED <<chain, watched, anchorCursor, blobs, signatures, loaded, worker, bounds>>

\* a call or the transaction fails: the tick throws, mainLoop goes on
IndexerThrows ==
  /\ \/ ipc \in {"tick", "logs"} /\ Fault("rpc")
     \/ ipc \in {"tick", "commit"} /\ Fault("db")
  /\ EndTick
  /\ UNCHANGED <<chain, tables, loaded, worker>>

IndexerCrash ==
  /\ Fault("crash") /\ ipc # "down"
  /\ ipc' = "down" /\ loaded' = {} /\ range' = <<0, 0>> /\ fetched' = {}
  /\ UNCHANGED <<chain, tables, worker>>

-----------------------------------------------------------------------------
(* Anchor worker: bootstrap, then one cycle after the other.                 *)

WorkerGoes(from, to) == wpc = from /\ wpc' = to
ForgetCycle == window' = <<-1, 0>> /\ batch' = {}
EndCycle == wpc' = "cycle" /\ ForgetCycle

\* bootstrap: rotatePQKey unless the registry already names the worker's key
ReconcileKey ==
  /\ WorkerGoes("down", "cycle")
  /\ chainKey' = "ours"
  /\ UNCHANGED <<blocks, anchors, pending, tables, indexer, window, batch, tx, bounds>>

\* the rotation reverts; its receipt is awaited, its status not looked at
ReconcileKeyReverts ==
  /\ WorkerGoes("down", "cycle") /\ chainKey # "ours"
  /\ Fault("revert")
  /\ UNCHANGED <<chain, tables, indexer, window, batch, tx>>

\* readCursor and getBlockNumber; too early is a no-op cycle
PlanWindow ==
  /\ wpc = "cycle"
  /\ \E head \in Views :
       IF head - 1 <= anchorCursor THEN UNCHANGED <<wpc, window>>
       ELSE wpc' = "fetch" /\ window' = <<anchorCursor, head - 1>>
  /\ UNCHANGED <<chain, tables, indexer, batch, tx, bounds>>

\* The first MaxEvents of a set of events in the order of the query
FirstEvents(s) == {e \in s : Cardinality({f \in s : Before(f, e)}) < MaxEvents}

\* (mutant) the comparison with ANCHOR_MIN_EVENTS is off by one
FetchEventsStrict ==
  /\ wpc = "fetch"
  /\ LET found == FirstEvents({e \in indexed : window[1] < e[1] /\ e[1] <= window[2]})
     IN IF Cardinality(found) <= MinEvents THEN EndCycle
        ELSE wpc' = "submit" /\ batch' = found /\ UNCHANGED window
  /\ UNCHANGED <<chain, tables, indexer, tx, bounds>>

\* fetchEventsSince: ORDER BY block_number, log_index LIMIT
FetchEvents ==
  /\ wpc = "fetch"
  /\ LET found == FirstEvents({e \in indexed : window[1] < e[1] /\ e[1] <= window[2]})
     IN IF Cardinality(found) < MinEvents THEN EndCycle
        ELSE wpc' = "submit" /\ batch' = found /\ UNCHANGED window
  /\ UNCHANGED <<chain, tables, indexer, tx, bounds>>

\* recordAnchor is sent.  Attempts are told apart by their transaction; two
\* signatures of one message may coincide, which can only share a blob or row.
SubmitAnchor ==
  /\ WorkerGoes("submit", "receipt")
  /\ tx' = tx + 1
  /\ pending' = pending \cup {[tx |-> tx + 1, events |-> batch]}
  /\ UNCHANGED <<blocks, anchors, chainKey, tables, indexer, window, batch, bounds>>

AwaitReceipt ==
  /\ WorkerGoes("receipt", "put")
  /\ \E a \in anchors : a.tx = tx
  /\ UNCHANGED <<chain, tables, indexer, window, batch, tx, bounds>>

\* the transaction reverts; receipt.status is not looked at
ReceiptReverts ==
  /\ WorkerGoes("receipt", "put")
  /\ Fault("revert")
  /\ \E p \in pending : p.tx = tx /\ pending' = pending \ {p}
  /\ UNCHANGED <<blocks, anchors, chainKey, tables, indexer, window, batch, tx>>

PutBlob ==
  /\ WorkerGoes("put", "row")
  /\ blobs' = blobs \cup {tx}
  /\ UNCHANGED <<chain, watched, indexCursor, indexed, anchorCursor, signatures, indexer, window,
                 batch, tx, bounds>>

InsertSignature ==
  /\ WorkerGoes("row", "advance")
  /\ signatures' = signatures \cup {tx}
  /\ UNCHANGED <<chain, watched, indexCursor, indexed, anchorCursor, blobs, indexer, window, batch,
                 tx, bounds>>

\* (mutant) the cursor goes to the safe head, not to the last event anchored
AdvanceCursorToHead ==
  /\ wpc = "advance" /\ EndCycle
  /\ anchorCursor' = window[2]
  /\ UNCHANGED <<chain, watched, indexCursor, indexed, blobs, signatures, indexer, tx, bounds>>

BlockTo == CHOOSE n \in {e[1] : e \in batch} : \A e \in batch : e[1] <= n

AdvanceCursor ==
  /\ wpc = "advance" /\ EndCycle
  /\ anchorCursor' = BlockTo
  /\ UNCHANGED <<chain, watched, indexCursor, indexed, blobs, signatures, indexer, tx, bounds>>

\* (mutant) a failed PUT is swallowed, as the one of makeBucket is
WorkerThrowsNoPut ==
  /\ \/ wpc \in {"cycle", "submit", "receipt"} /\ Fault("rpc") /\ EndCycle
     \/ wpc \in {"cycle", "fetch", "row", "advance"} /\ Fault("db") /\ EndCycle
     \/ wpc = "put" /\ Fault("minio") /\ wpc' = "row" /\ UNCHANGED <<window, batch>>
  /\ UNCHANGED <<chain, tables, indexer, tx>>

\* A call fails: the cycle ends with an error and the next starts over.  A
\* transaction whose receipt was not seen in time may still be mined.
WorkerThrows ==
  /\ \/ wpc \in {"cycle", "submit", "receipt"} /\ Fault("rpc")
     \/ wpc \in {"cycle", "fetch", "row", "advance"} /\ Fault("db")
     \/ wpc = "put" /\ Fault("minio")
  /\ EndCycle
  /\ UNCHANGED <<chain, tables, indexer, tx>>

WorkerCrash ==
  /\ Fault("crash") /\ wpc # "down"
  /\ wpc' = "down" /\ ForgetCycle
  /\ UNCHANGED <<chain, tables, indexer, tx>>

Indexer ==
  \/ LoadWatched \/ PlanRange \/ FetchLogs \/ CommitRange \/ IndexerThrows \/ IndexerCrash

Worker ==
  \/ ReconcileKey \/ ReconcileKeyReverts \/ PlanWindow \/ FetchEvents \/ SubmitAnchor
  \/ AwaitReceipt \/ ReceiptReverts \/ PutBlob \/ InsertSignature \/ AdvanceCursor
  \/ WorkerThrows \/ WorkerCrash

Next == Mine \/ MineAnchor \/ Watch \/ ResetCursor \/ Indexer \/ Worker

Spec == Init /\ [][Next]_vars

(* The chain produces blocks and mines what is pooled, docker restarts both  *)
(* services, and their loops go on: every step that stays possible happens.  *)
(* Nothing is assumed of the replicas beyond MaxLag, nor of faults.          *)
Fairness ==
  /\ WF_vars(Mine) /\ WF_vars(MineAnchor)
  /\ WF_vars(LoadWatched) /\ WF_vars(PlanRange) /\ WF_vars(FetchLogs) /\ WF_vars(CommitRange)
  /\ WF_vars(ReconcileKey) /\ WF_vars(PlanWindow) /\ WF_vars(FetchEvents) /\ WF_vars(SubmitAnchor)
  /\ WF_vars(AwaitReceipt) /\ WF_vars(PutBlob) /\ WF_vars(InsertSignature)
  /\ WF_vars(AdvanceCursor)

FairSpec == Spec /\ Fairness

-----------------------------------------------------------------------------
(* Properties.                                                               *)

AnchorType == [tx : Nat, events : SUBSET Events, key : {"placeholder", "ours"}]

\* TypeOK: cursors are block numbers of the chain or -1, rows name events that
\* exist, the numbers of transactions have been given out.
TypeOK ==
  /\ blocks \in Seq(Seq(Contracts)) /\ blocks # <<>>
  /\ anchors \subseteq AnchorType
  /\ chainKey \in {"placeholder", "ours"}
  /\ pending \subseteq [tx : Nat, events : SUBSET Events]
  /\ watched \subseteq Contracts /\ loaded \subseteq Contracts
  /\ indexCursor \in -1 .. Latest /\ anchorCursor \in -1 .. Latest
  /\ indexed \subseteq Events /\ fetched \subseteq Events /\ batch \subseteq Events
  /\ tx \in Nat /\ blobs \subseteq 1 .. tx /\ signatures \subseteq 1 .. tx
  /\ ipc \in {"down", "tick", "logs", "commit"}
  /\ wpc \in {"down", "cycle", "fetch", "submit", "receipt", "put", "row", "advance"}
  /\ range \in (0 .. Latest) \X (0 .. Latest) /\ window \in (-1 .. Latest) \X (0 .. Latest)
  /\ manual \in 0 .. MaxManual /\ faults \in 0 .. MaxFaults

\* Every event of contract c up to block n has its row
IndexedUpTo(n, c) == \A e \in Events : e[1] <= n /\ ContractOf(e) = c => e \in indexed

\* EventsComplete: the cursor never passes an event of a contract that was
\* watched all along, whatever replica answers, whatever fails between the
\* fetch and the commit, and whatever the operator does to the cursor
\* (services/indexer: "so the cursor is honest").
EventsComplete == \A c \in InitialWatch : IndexedUpTo(indexCursor, c)

\* CursorCovered: as long as no recordAnchor reverted, every indexed event up
\* to the worker's cursor is under a recorded anchor whose signature is stored
\* (migration 005: "Highest indexed_events.block_number already covered").
\* Contracts the operator adds are exempt: their past is indexed late.
RowsRecorded == signatures \subseteq {a.tx : a \in anchors}

CursorCovered ==
  RowsRecorded => \A e \in indexed :
    e[1] <= anchorCursor /\ ContractOf(e) \in InitialWatch => Covered(e)

\* RowHasBlob: a row of pq_anchor_signatures never names an object that is not
\* in the bucket, whenever the worker stops or a call fails (store.ts: "the
\* failure mode we avoid").
RowHasBlob == signatures \subseteq blobs

\* EventuallyCovered: an event of a watched contract that is deep enough for
\* every replica to have it ends up under an anchor with its signature stored,
\* through crashes, failed calls and receipts that come too late, unless a
\* reverted recordAnchor was taken for a recorded one.
Deep(n) == n + MaxLag + (IF Confirmations = 0 THEN 1 ELSE Confirmations) <= Latest

EventuallyCovered ==
  \A n \in 1 .. MaxBlocks : \A c \in InitialWatch :
    Deep(n) ~> (~RowsRecorded
                  \/ \A e \in Events : e[1] = n /\ ContractOf(e) = c => Covered(e))
=============================================================================
