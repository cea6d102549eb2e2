---------------------------- MODULE LedgerHeads -----------------------------
(***************************************************************************)
(* Tree heads of the registry ledger from their anchoring to their audit:  *)
(* POST /v1/anchors, which anchors a checkpoint of a client's event chain, *)
(* GET /v1/verify, which gathers the heads behind a subject, anchorSTH and *)
(* the ledger's PQAnchorRegistry, both stores of checkpoints, the Aurum    *)
(* client's retries, and its offline check verifySthAnchored.  LedgerLog   *)
(* has the growth of the trees, which stand still here; proofs, signatures *)
(* and timestamps are left out.                                            *)
(***************************************************************************)
EXTENDS Naturals, Sequences, FiniteSets

CONSTANTS
  TreeHead,        \* log of a tenant -> the head of its tree: [log, size, root]
  AttestedIn,      \* the logs of the subject's attestations, one after the other
  AttestedLogs,    \* the same logs, each once
  EvidencedIn,     \* the logs of its evidence
  Submissions,     \* checkpoints the clients submit: [log, size, root]
  ZeroRoot,        \* 32 zero bytes
  MaxUint64,       \* the contract's largest eventCount
  MaxInt64,        \* the largest tree_size of ledger_checkpoint
  HeadStores,      \* stores to start with: subset of {"memory", "postgres"}
  MaxHeadCalls,    \* bound: requests in one behaviour
  MaxHeadResends,  \* the client's maxRetries
  MaxHeadFaults    \* bound: failing calls, reverts, restarts

Elements(s) == {s[i] : i \in DOMAIN s}

ASSUME HeadsAssumption ==
  /\ AttestedIn \in Seq(DOMAIN TreeHead) /\ EvidencedIn \in Seq(DOMAIN TreeHead)
  /\ AttestedLogs \in Seq(DOMAIN TreeHead) /\ Elements(AttestedLogs) = Elements(AttestedIn)
  /\ \A i, j \in DOMAIN AttestedLogs : AttestedLogs[i] = AttestedLogs[j] => i = j
  /\ \A h \in Submissions \cup Elements(TreeHead) : h.size \in Nat
  /\ HeadStores \subseteq {"memory", "postgres"}
  /\ MaxUint64 \in Nat /\ MaxInt64 \in 0 .. MaxUint64 /\ MaxHeadCalls \in Nat /\ MaxHeadResends \in Nat /\ MaxHeadFaults \in Nat

VARIABLES
  headStore,     \* which store the ledger was started with
  anchoring,     \* writesEnabled: it has its keys and a registry of its own
  chainHeads,    \* PQAnchorRegistry.anchors: [size, root]; an id is a position
  headTxs,       \* recordAnchor transactions sent: [head, state, id]
  checkpoints,   \* checkpoint rows in the order they were stored, by: the request
  erased,        \* so many of them the memory store has lost
  headCalls,     \* every request: what is left of its handler, what it has got, its answer
  headFaults

headVars == <<headStore, anchoring, chainHeads, headTxs, checkpoints, erased, headCalls,
              headFaults>>

\* A signed tree head; id 0: its anchor has no onChainId, or there is no anchor.
Sth(head, id, contract, by) ==
  [log |-> head.log, size |-> head.size, root |-> head.root, id |-> id, contract |-> contract,
   by |-> by]
HeadFault == headFaults < MaxHeadFaults /\ headFaults' = headFaults + 1

HeadsInit ==
  /\ headStore \in HeadStores /\ anchoring \in BOOLEAN
  /\ chainHeads = <<>> /\ headTxs = <<>>
  /\ checkpoints = <<>> /\ erased = 0
  /\ headCalls = <<>> /\ headFaults = 0

-----------------------------------------------------------------------------
(* Requests.  What a handler awaits, one item after the other, is its work.  *)

Anchoring(head) == [do |-> "anchor", head |-> head]
SubmitWork(body) == <<Anchoring(body), [do |-> "put", head |-> body]>>
TreeWork(logs) == [i \in DOMAIN logs |-> Anchoring(TreeHead[logs[i]])]
BundleWork ==
  TreeWork(AttestedIn)
    \o [i \in DOMAIN AttestedLogs |-> [do |-> "latest", log |-> AttestedLogs[i]]]
    \o TreeWork(EvidencedIn)

AckedCheckpoints == {q \in DOMAIN headCalls : headCalls[q].op = "submit" /\ headCalls[q].answer = "ok"}
NewHeadCall(op, work, attempt) ==
  [op |-> op, asked |-> work, work |-> work, attempt |-> attempt, tx |-> 0, got |-> <<>>,
   answer |-> "none", earlier |-> AckedCheckpoints, erased |-> erased]

HeadRequest ==
  /\ Len(headCalls) < MaxHeadCalls
  /\ \/ \E body \in Submissions :
          headCalls' = Append(headCalls, NewHeadCall("submit", SubmitWork(body), 0))
     \/ headCalls' = Append(headCalls, NewHeadCall("bundle", BundleWork, 0))
  /\ UNCHANGED <<headStore, anchoring, chainHeads, headTxs, checkpoints, erased, headFaults>>

\* request: after a 503 the same again
ResendHead(r) ==
  /\ Len(headCalls) < MaxHeadCalls
  /\ r \in DOMAIN headCalls /\ headCalls[r].answer = "unavailable"
  /\ headCalls[r].attempt < MaxHeadResends
  /\ headCalls' = Append([headCalls EXCEPT ![r].answer = "resent"],
                         NewHeadCall(headCalls[r].op, headCalls[r].asked, headCalls[r].attempt + 1))
  /\ UNCHANGED <<headStore, anchoring, chainHeads, headTxs, checkpoints, erased, headFaults>>

IsDue(r, do) ==
  /\ r \in DOMAIN headCalls /\ headCalls[r].answer = "none"
  /\ headCalls[r].work # <<>> /\ Head(headCalls[r].work).do = do
Due(r) == Head(headCalls[r].work)
GoOn(r, sths) ==
  headCalls' = [headCalls EXCEPT ![r].work = Tail(@), ![r].tx = 0, ![r].got = @ \o sths]
EndHead(r, answer) ==
  headCalls' = [headCalls EXCEPT ![r].work = <<>>, ![r].tx = 0, ![r].answer = answer]

ReplyHead(r) ==
  /\ r \in DOMAIN headCalls /\ headCalls[r].answer = "none" /\ headCalls[r].work = <<>>
  /\ EndHead(r, "ok")
  /\ UNCHANGED <<headStore, anchoring, chainHeads, headTxs, checkpoints, erased, headFaults>>

-----------------------------------------------------------------------------
(* anchorSTH and PQAnchorRegistry.recordAnchor.                              *)

\* Without its keys or its registry the ledger signs at most.  Otherwise: the
\* safe head or writeContract fails (503), the latter also for an eventCount
\* that cannot be encoded and after the node took the transaction; or its hash
\* comes back.
SubmitHead(r) ==
  /\ IsDue(r, "anchor") /\ headCalls[r].tx = 0
  /\ LET head == Due(r).head IN
     \/ /\ ~anchoring
        /\ GoOn(r, <<Sth(head, 0, FALSE, 0)>>) /\ UNCHANGED <<headTxs, headFaults>>
     \/ /\ anchoring
        /\ HeadFault \/ (head.size > MaxUint64 /\ UNCHANGED headFaults)
        /\ EndHead(r, "unavailable") /\ UNCHANGED headTxs
     \/ /\ anchoring /\ head.size <= MaxUint64
        /\ headTxs' = Append(headTxs, [head |-> head, state |-> "pooled", id |-> 0])
        /\ \/ HeadFault /\ EndHead(r, "unavailable")
           \/ /\ headCalls' = [headCalls EXCEPT ![r].tx = Len(headTxs) + 1]
              /\ UNCHANGED headFaults
  /\ UNCHANGED <<headStore, anchoring, chainHeads, checkpoints, erased>>

\* A block: the contract gives the next id, or reverts.
MineHead(t) ==
  /\ t \in DOMAIN headTxs /\ headTxs[t].state = "pooled"
  /\ \/ /\ chainHeads' = Append(chainHeads, [size |-> headTxs[t].head.size,
                                             root |-> headTxs[t].head.root])
        /\ headTxs' = [headTxs EXCEPT ![t].state = "mined", ![t].id = Len(chainHeads) + 1]
        /\ UNCHANGED headFaults
     \/ /\ HeadFault
        /\ headTxs' = [headTxs EXCEPT ![t].state = "reverted"] /\ UNCHANGED chainHeads
  /\ UNCHANGED <<headStore, anchoring, checkpoints, erased, headCalls>>

\* waitForTransactionReceipt gives up or finds the transaction reverted (503), or
\* the id is read from the receipt's AnchorRecorded.
AwaitHeadByCount(r) ==                                           \* (mutant)
  /\ IsDue(r, "anchor") /\ headCalls[r].tx # 0
  /\ headTxs[headCalls[r].tx].state = "mined"
  /\ GoOn(r, <<Sth(Due(r).head, Len(chainHeads), TRUE, 0)>>)
  /\ UNCHANGED <<headStore, anchoring, chainHeads, headTxs, checkpoints, erased, headFaults>>
AwaitHead(r) ==
  /\ IsDue(r, "anchor") /\ headCalls[r].tx # 0
  /\ LET sent == headTxs[headCalls[r].tx] IN
     \/ HeadFault /\ EndHead(r, "unavailable")
     \/ sent.state = "reverted" /\ EndHead(r, "unavailable") /\ UNCHANGED headFaults
     \/ /\ sent.state = "mined" /\ UNCHANGED headFaults
        /\ GoOn(r, <<Sth(Due(r).head, sent.id, TRUE, 0)>>)
  /\ UNCHANGED <<headStore, anchoring, chainHeads, headTxs, checkpoints, erased>>

-----------------------------------------------------------------------------
(* The stores of checkpoints, and restarts.                                  *)

\* A query of Postgres fails (500): putCheckpoint's, also for a tree_size that is no
\* bigint, or one of those that verifyBundle makes between its anchors.
HeadStoreFails(r) ==
  /\ headStore = "postgres"
  /\ \/ IsDue(r, "put") /\ (HeadFault \/ (Due(r).head.size > MaxInt64 /\ UNCHANGED headFaults))
     \/ IsDue(r, "latest") /\ HeadFault
     \/ IsDue(r, "anchor") /\ headCalls[r].op = "bundle" /\ headCalls[r].tx = 0 /\ HeadFault
  /\ EndHead(r, "failed")
  /\ UNCHANGED <<headStore, anchoring, chainHeads, headTxs, checkpoints, erased>>

\* putCheckpoint keeps the onChainId, not the contract.
PutCheckpoint(r) ==
  /\ IsDue(r, "put")
  /\ headStore = "postgres" => Due(r).head.size <= MaxInt64
  /\ checkpoints' = Append(checkpoints, [headCalls[r].got[1] EXCEPT !.contract = FALSE, !.by = r])
  /\ GoOn(r, <<>>)
  /\ UNCHANGED <<headStore, anchoring, chainHeads, headTxs, erased, headFaults>>

Kept(log) == {i \in erased + 1 .. Len(checkpoints) : checkpoints[i].log = log}
\* the list's last; ORDER BY tree_size DESC LIMIT 1
LatestMemory(log) == {i \in Kept(log) : \A j \in Kept(log) : j <= i}
LatestInserted(log) == LatestMemory(log)                         \* (mutant)
LatestPostgres(log) ==
  {i \in Kept(log) : \A j \in Kept(log) : checkpoints[j].size <= checkpoints[i].size}
LatestCheckpoint(log) == IF headStore = "memory" THEN LatestMemory(log) ELSE LatestPostgres(log)

ReadCheckpoint(r) ==
  /\ IsDue(r, "latest")
  /\ LET latest == LatestCheckpoint(Due(r).log) IN
     \/ latest = {} /\ GoOn(r, <<>>)
     \/ \E i \in latest : GoOn(r, <<checkpoints[i]>>)
  /\ UNCHANGED <<headStore, anchoring, chainHeads, headTxs, checkpoints, erased, headFaults>>

\* Handlers end without an answer, Maps are empty again.
RestartLedger ==
  /\ HeadFault
  /\ headCalls' = [r \in DOMAIN headCalls |->
                     IF headCalls[r].answer # "none" THEN headCalls[r]
                     ELSE [headCalls[r] EXCEPT !.work = <<>>, !.tx = 0, !.answer = "lost"]]
  /\ erased' = IF headStore = "memory" THEN Len(checkpoints) ELSE erased
  /\ UNCHANGED <<headStore, anchoring, chainHeads, headTxs, checkpoints>>

-----------------------------------------------------------------------------
(* The auditor: verifySthAnchored against a read endpoint that has the first *)
(* n anchors; one that does not answer has none.                             *)

VerifySthAnchored(sth, n) ==
  /\ sth.contract /\ sth.id # 0
  /\ sth.id <= n /\ chainHeads[sth.id].root # ZeroRoot
  /\ chainHeads[sth.id].root = sth.root
  /\ chainHeads[sth.id].size = sth.size

HeadsNext ==
  \/ HeadRequest
  \/ \E r \in 1 .. MaxHeadCalls :
       \/ ResendHead(r) \/ ReplyHead(r) \/ SubmitHead(r) \/ AwaitHead(r)
       \/ HeadStoreFails(r) \/ PutCheckpoint(r) \/ ReadCheckpoint(r)
  \/ \E t \in DOMAIN headTxs : MineHead(t)
  \/ RestartLedger

HeadsSpec == HeadsInit /\ [][HeadsNext]_headVars

-----------------------------------------------------------------------------
(* Properties.                                                               *)

\* The tree heads given out in answers
AnsweredHeads ==
  UNION {Elements(headCalls[r].got) : r \in {q \in DOMAIN headCalls : headCalls[q].answer = "ok"}}
Stands(sth) ==
  sth.id \in DOMAIN chainHeads /\ chainHeads[sth.id] = [size |-> sth.size, root |-> sth.root]

\* Every tree head that anchorSTH or the store of checkpoints puts in an answer with an
\* onChainId is what the registry holds under that id, whatever other requests anchored
\* meanwhile; and verifySthAnchored accepts no other head at any endpoint, and refuses none
\* that anchorSTH answered at one that is up to date, except for a root of zeros.
HeadsAreAuditable ==
  \A sth \in AnsweredHeads :
    /\ sth.id # 0 => Stands(sth)
    /\ \A n \in 0 .. Len(chainHeads) : VerifySthAnchored(sth, n) => Stands(sth)
    /\ sth.contract => VerifySthAnchored(sth, Len(chainHeads)) \/ sth.root = ZeroRoot

\* verifyBundle and latestCheckpoint: a checkpoint acknowledged before the bundle was
\* asked for, and not lost with the memory store, is not hidden by a smaller one
\* (Postgres) or by one that was stored earlier (memory).
StoredAt(q) == {i \in DOMAIN checkpoints : checkpoints[i].by = q}
LargestCheckpointShown ==
  \A r \in {q \in DOMAIN headCalls : headCalls[q].op = "bundle" /\ headCalls[q].answer = "ok"} :
    \A q \in headCalls[r].earlier : \A i \in StoredAt(q) :
      (checkpoints[i].log \in Elements(AttestedLogs) /\ i > headCalls[r].erased) =>
        \E k \in DOMAIN headCalls[r].got :
          LET shown == headCalls[r].got[k] IN
          /\ shown.by # 0 /\ shown.log = checkpoints[i].log
          /\ IF headStore = "postgres" THEN shown.size >= checkpoints[i].size
             ELSE \A j \in StoredAt(shown.by) : j >= i
=============================================================================
