----------------------------- MODULE LedgerLog ------------------------------
(***************************************************************************)
(* The transparency log of one tenant in services/registry-ledger: the     *)
(* requests that anchor attestations, change their status and read proofs, *)
(* the in-process TransparencyLog instances, the store, and the tree heads *)
(* of anchorSTH: recorded by PQAnchorRegistry when its writes are enabled, *)
(* else answered without an anchor.                                        *)
(*                                                                         *)
(* A Merkle tree is its sequence of leaves and a root hash is the sequence *)
(* it commits to (SHA-256 without collisions): a tree head of size n is a  *)
(* sequence of length n.  Every leaf bytes string contains the random id   *)
(* or the timestamp of the request that appends it, so the leaf is named   *)
(* by its request.                                                         *)
(***************************************************************************)
EXTENDS Integers, Sequences, FiniteSets

CONSTANTS
  None,          \* no value
  Requests,      \* HTTP requests; a POST's registryId is named by its request
  Boot,          \* the earlier request whose attestation is there at the start
  Contents,      \* content hashes
  BootContent,   \* the one Boot attested
  Kinds,         \* operations clients call
  Stores,        \* "postgres" (store/postgres.ts), "memory" (store/memory.ts)
  WriteModes,    \* values of writesEnabled a deployment may have (keys and registry set)
  Loaded,        \* TRUE: an earlier request has loaded the log in this process
  MaxInFlight,   \* bound: requests handled at the same time
  Faults,        \* kinds of fault that may happen
  MaxFaults      \* bound: faults in one behaviour

Leaves == Requests \cup {Boot}
Ids == Leaves
Changes == {"revoke", "supersede"}
Reads == {"get", "status", "proof", "consistency"}
FaultKinds == {"db", "chain", "crash"}

ASSUME LedgerAssumption ==
  /\ Boot \notin Requests /\ None \notin Leaves
  /\ BootContent \in Contents
  /\ Kinds \subseteq {"attest"} \cup Changes \cup Reads
  /\ Stores \subseteq {"postgres", "memory"} /\ Loaded \in BOOLEAN
  /\ WriteModes \subseteq BOOLEAN
  /\ MaxInFlight \in Nat \ {0} /\ MaxFaults \in Nat
  /\ Faults \subseteq FaultKinds
  \* the memory store is gone with the process that has its logs
  /\ "memory" \in Stores => Loaded /\ "crash" \notin Faults

VARIABLES
  \* the store configured (PG_URL); it never changes
  backend,
  \* per request: program counter; operation; the record and status row it
  \* read; the instance it holds; what it read or counted in ledger_leaf;
  \* its leaf_index; the heads it has yet to anchor
  pc, op, rec, latest, tl, fetched, leafIndex, sths,
  \* the process: the leaves of each instance (named by the request that
  \* built it) and the one LedgerService.logs maps the log to
  tree, logs,
  \* the store: ledger_leaf, ledger_attestation, content key, ledger_status
  disk, atts, byContent, history,
  \* AnchorService: writesEnabled, which never changes; the heads recorded by
  \* PQAnchorRegistry; the heads returned unanchored
  writesEnabled, anchored, unanchored,
  \* what each request answered
  reply,
  \* bound
  faults

request == <<pc, op, rec, latest, tl, fetched, leafIndex, sths>>
process == <<tree, logs>>
store == <<disk, atts, byContent, history>>
anchoring == <<writesEnabled, anchored, unanchored>>
vars == <<backend, request, process, store, anchoring, reply, faults>>

Idle == {"new", "done"}
PC == {"new", "lookup", "latest", "log", "install", "persist", "insert", "anchor", "anchor2",
       "put", "history", "update", "respond", "done"}
Operations ==
  [kind : Kinds \cap {"attest"}, on : Contents] \cup [kind : Kinds \ {"attest"}, on : Ids]

Postgres == backend = "postgres"

\* One fault of the given kind happens: allowed by the configuration, counted.
Fault(kind) == kind \in Faults /\ faults < MaxFaults /\ faults' = faults + 1

\* (mutant) setStatus stores the action for the status
StatusOfAction(l) == IF l = Boot \/ op[l].kind = "attest" THEN "active" ELSE op[l].kind

\* The status a leaf records: the attestation leaf stands for "active".
StatusOf(l) ==
  IF l # Boot /\ op[l].kind = "revoke" THEN "revoked"
  ELSE IF l # Boot /\ op[l].kind = "supersede" THEN "superseded" ELSE "active"

Prefixes(s) == {SubSeq(s, 1, n) : n \in 0 .. Len(s)}
IsPrefixOf(s, t) == Len(s) <= Len(t) /\ SubSeq(t, 1, Len(s)) = s
HoldsLeaf(s, i, l) == i < Len(s) /\ s[i + 1] = l

Init ==
  /\ backend \in Stores
  /\ pc = [r \in Requests |-> "new"]
  /\ op = [r \in Requests |-> None]
  /\ rec = [r \in Requests |-> None]
  /\ latest = [r \in Requests |-> None]
  /\ tl = [r \in Requests |-> None]
  /\ fetched = [r \in Requests |-> <<>>]
  /\ leafIndex = [r \in Requests |-> 0]
  /\ sths = [r \in Requests |-> <<>>]
  /\ tree = [l \in Leaves |-> IF Loaded /\ l = Boot THEN <<Boot>> ELSE <<>>]
  /\ logs = IF Loaded THEN Boot ELSE None
  /\ disk = <<Boot>>
  /\ atts = [i \in Ids |-> IF i = Boot
                           THEN [content |-> BootContent, index |-> 0, status |-> "active"]
                           ELSE None]
  /\ byContent = [c \in Contents |-> IF c = BootContent THEN Boot ELSE None]
  /\ history = [i \in Ids |-> IF i = Boot THEN <<[by |-> Boot, index |-> 0]>> ELSE <<>>]
  /\ writesEnabled \in WriteModes
  /\ anchored = IF writesEnabled THEN {<<Boot>>} ELSE {}
  /\ unanchored = IF writesEnabled THEN {} ELSE {<<Boot>>}
  /\ reply = [r \in Requests |-> None]
  /\ faults = 0

-----------------------------------------------------------------------------
(* Steps of a request.  A handler runs on, without another's callback in     *)
(* between, until it waits for the database or the chain: the memory store's *)
(* promises are already resolved, and so is anchorSTH's with writes disabled. *)

Waits(q) ==
  pc[q] \in Idle \/ (IF pc[q] \in {"anchor", "anchor2"} THEN writesEnabled ELSE Postgres)
Turn(r) == \A q \in Requests \ {r} : Waits(q)
At(r, from) == Turn(r) /\ pc[r] = from
Goto(r, to) == pc' = [pc EXCEPT ![r] = to]
Answer(r, a) == Goto(r, "done") /\ reply' = [reply EXCEPT ![r] = a]
Problem(code) == [code |-> code]
NoAnswer == UNCHANGED reply

Kind(r) == op[r].kind
Appends(r) == Kind(r) \in Changes \/ (Kind(r) = "attest" /\ rec[r] = None)
Target(r) == IF Kind(r) = "attest" THEN r ELSE op[r].on
RecordOf(i) == [id |-> i, index |-> atts[i].index, status |-> atts[i].status]
\* Records of the memory store are aliases: a later status change shows in them.
StatusRead(r) == IF Postgres THEN rec[r].status ELSE atts[rec[r].id].status

Submit(r) ==
  /\ pc[r] = "new"
  /\ Cardinality({q \in Requests : pc[q] \notin Idle}) < MaxInFlight
  /\ \E o \in Operations :
       /\ o.kind = "consistency" => o.on = Boot
       /\ op' = [op EXCEPT ![r] = o]
       /\ Goto(r, IF o.kind = "consistency" THEN "log" ELSE "lookup")
  /\ UNCHANGED <<rec, latest, tl, fetched, leafIndex, sths, process, store, anchoring, reply, faults>>

\* anchorAttestation: getAttestationByContentHash
LookupContent(r) ==
  /\ At(r, "lookup") /\ Kind(r) = "attest"
  /\ rec' = [rec EXCEPT ![r] = LET i == byContent[op[r].on]
                               IN IF i = None THEN None ELSE RecordOf(i)]
  /\ Goto(r, "log") /\ NoAnswer
  /\ UNCHANGED <<op, latest, tl, fetched, leafIndex, sths, process, store, anchoring, faults>>

\* (mutant) the status of the record found is not looked at
LookupRecordAnyStatus(r) ==
  /\ At(r, "lookup") /\ Kind(r) # "attest"
  /\ LET i == op[r].on IN
     \/ /\ atts[i] = None
        /\ Answer(r, Problem("not_found")) /\ UNCHANGED rec
     \/ /\ atts[i] # None
        /\ rec' = [rec EXCEPT ![r] = RecordOf(i)]
        /\ Goto(r, IF Kind(r) = "status" THEN "latest" ELSE "log") /\ NoAnswer
  /\ UNCHANGED <<op, latest, tl, fetched, leafIndex, sths, process, store, anchoring, faults>>

\* getAttestationById, then the refusals
LookupRecord(r) ==
  /\ At(r, "lookup") /\ Kind(r) # "attest"
  /\ LET i == op[r].on IN
     \/ /\ atts[i] = None
        /\ Answer(r, Problem("not_found")) /\ UNCHANGED rec
     \/ /\ atts[i] # None /\ Kind(r) \in Changes /\ atts[i].status = "revoked"
        /\ Answer(r, Problem("status_conflict")) /\ UNCHANGED rec
     \/ /\ atts[i] # None /\ ~(Kind(r) \in Changes /\ atts[i].status = "revoked")
        /\ rec' = [rec EXCEPT ![r] = RecordOf(i)]
        /\ Goto(r, IF Kind(r) = "status" THEN "latest" ELSE "log") /\ NoAnswer
  /\ UNCHANGED <<op, latest, tl, fetched, leafIndex, sths, process, store, anchoring, faults>>

\* getStatusRecord: getLatestStatus; no row yet falls back to the record's leaf
LookupLatest(r) ==
  /\ At(r, "latest")
  /\ latest' = [latest EXCEPT ![r] =
                  LET h == history[op[r].on]
                  IN IF h = <<>> THEN [by |-> op[r].on, index |-> rec[r].index] ELSE h[Len(h)]]
  /\ Goto(r, "log") /\ NoAnswer
  /\ UNCHANGED <<op, rec, tl, fetched, leafIndex, sths, process, store, anchoring, faults>>

\* GET /anchors/consistency: from and to are sizes the client chooses
ConsistencyHeads(t) == {<<SubSeq(t, 1, m), SubSeq(t, 1, n)>> : m, n \in 1 .. Len(t)}

\* The leaf a reader asks a proof of: the latest status entry's, or the record's.
IndexRead(r) == IF Kind(r) = "status" THEN latest[r].index ELSE rec[r].index

\* The tree heads a reader takes from a tree with leaves t; none: a RangeError
HeadsRead(r, t) ==
  CASE Kind(r) = "proof" -> {<<s>> : s \in {p \in Prefixes(t) : IndexRead(r) < Len(p)}}
    [] Kind(r) = "consistency" -> ConsistencyHeads(t)
    [] OTHER -> IF IndexRead(r) < Len(t) THEN {<<t>>} ELSE {}

\* What runs without an await once getLog returned instance i with leaves t
Continue(r, i, t) ==
  /\ tl' = [tl EXCEPT ![r] = i]
  /\ \/ /\ Appends(r)
        /\ tree' = [tree EXCEPT ![i] = Append(t, r)]
        /\ leafIndex' = [leafIndex EXCEPT ![r] = Len(t)]
        /\ Goto(r, "persist") /\ NoAnswer /\ UNCHANGED sths
     \/ /\ ~Appends(r)
        /\ tree' = [tree EXCEPT ![i] = t]
        /\ UNCHANGED leafIndex
        /\ \/ /\ \E h \in HeadsRead(r, t) :
                   /\ Len(h) = 2 => Len(h[1]) <= Len(h[2])
                   /\ sths' = [sths EXCEPT ![r] = h]
              /\ Goto(r, "anchor") /\ NoAnswer
           \/ /\ HeadsRead(r, t) = {} \/ Kind(r) \in {"proof", "consistency"}
              /\ Answer(r, Problem("proof_unavailable")) /\ UNCHANGED sths

UseLog(r) ==
  /\ At(r, "log") /\ logs # None
  /\ Continue(r, logs, tree[logs])
  /\ UNCHANGED <<op, rec, latest, fetched, logs, store, anchoring, faults>>

LoadLeaves(r) ==
  /\ At(r, "log") /\ logs = None
  /\ fetched' = [fetched EXCEPT ![r] = disk]
  /\ Goto(r, "install") /\ NoAnswer
  /\ UNCHANGED <<op, rec, latest, tl, leafIndex, sths, process, store, anchoring, faults>>

InstallLog(r) ==
  /\ At(r, "install")
  /\ logs' = r
  /\ Continue(r, r, fetched[r])
  /\ UNCHANGED <<op, rec, latest, fetched, store, anchoring, faults>>

\* appendLeaf, Postgres: SELECT MAX(leaf_index) + 1 ...
CountLeaves(r) ==
  /\ At(r, "persist") /\ Postgres
  /\ fetched' = [fetched EXCEPT ![r] = disk]
  /\ Goto(r, "insert") /\ NoAnswer
  /\ UNCHANGED <<op, rec, latest, tl, leafIndex, sths, process, store, anchoring, faults>>

\* (mutant) the head is computed from the leaves of the store
PersistLeafHeadOfStore(r) ==
  /\ IF Postgres THEN At(r, "insert") /\ Len(fetched[r]) = Len(disk) ELSE At(r, "persist")
  /\ disk' = Append(disk, r)
  /\ sths' = [sths EXCEPT ![r] = <<disk'>>]
  /\ Goto(r, "anchor") /\ NoAnswer
  /\ UNCHANGED <<op, rec, latest, tl, fetched, leafIndex, process, atts, byContent, history,
                 anchoring, faults>>

\* (mutant) the head is the one before the append
PersistLeafStaleHead(r) ==
  /\ IF Postgres THEN At(r, "insert") /\ Len(fetched[r]) = Len(disk) ELSE At(r, "persist")
  /\ disk' = Append(disk, r)
  /\ sths' = [sths EXCEPT ![r] = <<SubSeq(tree[tl[r]], 1, leafIndex[r])>>]
  /\ Goto(r, "anchor") /\ NoAnswer
  /\ UNCHANGED <<op, rec, latest, tl, fetched, leafIndex, process, atts, byContent, history,
                 anchoring, faults>>

\* (mutant) status leaves are not stored
PersistLeafOfAttestations(r) ==
  /\ IF Postgres THEN At(r, "insert") /\ Len(fetched[r]) = Len(disk) ELSE At(r, "persist")
  /\ disk' = IF Kind(r) = "attest" THEN Append(disk, r) ELSE disk
  /\ sths' = [sths EXCEPT ![r] = <<tree[tl[r]]>>]
  /\ Goto(r, "anchor") /\ NoAnswer
  /\ UNCHANGED <<op, rec, latest, tl, fetched, leafIndex, process, atts, byContent, history,
                 anchoring, faults>>

\* ... and INSERT; then the head is computed from the instance
PersistLeaf(r) ==
  /\ IF Postgres THEN At(r, "insert") /\ Len(fetched[r]) = Len(disk) ELSE At(r, "persist")
  /\ disk' = Append(disk, r)
  /\ sths' = [sths EXCEPT ![r] = <<tree[tl[r]]>>]
  /\ Goto(r, "anchor") /\ NoAnswer
  /\ UNCHANGED <<op, rec, latest, tl, fetched, leafIndex, process, atts, byContent, history,
                 anchoring, faults>>

\* the index was taken meanwhile: PRIMARY KEY (log_id, leaf_index)
PersistConflict(r) ==
  /\ At(r, "insert") /\ Len(fetched[r]) # Len(disk)
  /\ Answer(r, Problem("error"))
  /\ UNCHANGED <<op, rec, latest, tl, fetched, leafIndex, sths, process, store, anchoring, faults>>

NextHead(r) == IF pc[r] = "anchor2" THEN sths[r][2] ELSE sths[r][1]

ReadAnswer(r) ==
  IF Kind(r) = "consistency" THEN [code |-> "ok", sths |-> sths[r]]
  ELSE [code |-> "ok", id |-> rec[r].id, status |-> StatusRead(r),
        by |-> IF Kind(r) = "status" THEN latest[r].by ELSE rec[r].id,
        index |-> IndexRead(r), proof |-> sths[r][1], sths |-> sths[r]]

\* anchorSTH: with writes disabled the head is returned as it is, without an
\* anchor, and the handler goes on all the same; else recordAnchor was mined
\* and successful
Anchor(r) ==
  /\ pc[r] \in {"anchor", "anchor2"} /\ Turn(r)
  /\ \/ /\ ~writesEnabled
        /\ unanchored' = unanchored \cup {NextHead(r)} /\ UNCHANGED anchored
     \/ /\ writesEnabled
        /\ anchored' = anchored \cup {NextHead(r)} /\ UNCHANGED unanchored
  /\ CASE Appends(r) -> Goto(r, IF Kind(r) = "attest" THEN "put" ELSE "history") /\ NoAnswer
       [] Kind(r) = "consistency" /\ pc[r] = "anchor" -> Goto(r, "anchor2") /\ NoAnswer
       [] OTHER -> Answer(r, ReadAnswer(r))
  /\ UNCHANGED <<op, rec, latest, tl, fetched, leafIndex, sths, process, store, writesEnabled, faults>>

\* (mutant) a failed anchor is only logged
AnchorFailsIgnored(r) ==
  /\ Fault("chain")
  /\ writesEnabled /\ pc[r] = "anchor" /\ Appends(r) /\ Turn(r)
  /\ Goto(r, IF Kind(r) = "attest" THEN "put" ELSE "history") /\ NoAnswer
  /\ UNCHANGED <<op, rec, latest, tl, fetched, leafIndex, sths, process, store, anchoring>>

\* 503 chain_unavailable; a lost receipt hides a head that was recorded
AnchorFails(r) ==
  /\ Fault("chain")
  /\ writesEnabled /\ pc[r] \in {"anchor", "anchor2"} /\ Turn(r)
  /\ anchored' \in {anchored, anchored \cup {NextHead(r)}}
  /\ Answer(r, Problem("chain_unavailable"))
  /\ UNCHANGED <<op, rec, latest, tl, fetched, leafIndex, sths, process, store, writesEnabled,
                 unanchored>>

\* INSERT ... ON CONFLICT (tenant, content_hash) DO NOTHING; the memory store overwrites
PutAttestation(r) ==
  /\ At(r, "put")
  /\ LET c == op[r].on IN
     IF Postgres /\ byContent[c] # None THEN UNCHANGED <<atts, byContent>>
     ELSE /\ atts' = [atts EXCEPT ![r] =
                        [content |-> c, index |-> leafIndex[r], status |-> "active"]]
          /\ byContent' = [byContent EXCEPT ![c] = r]
  /\ Goto(r, "history") /\ NoAnswer
  /\ UNCHANGED <<op, rec, latest, tl, fetched, leafIndex, sths, process, disk, history,
                 anchoring, faults>>

\* the proof of the answer is taken from the instance the log has by now
WriteAnswer(r) ==
  IF leafIndex[r] < Len(tree[logs])
  THEN [code |-> IF Kind(r) = "attest" THEN "created" ELSE "ok", id |-> Target(r),
        status |-> StatusOf(r), by |-> r, index |-> leafIndex[r],
        proof |-> tree[logs], sths |-> sths[r]]
  ELSE Problem("error")

\* (mutant) ledger_status without its foreign key
HistoryKeyDropped(i) == i \in Ids

\* REFERENCES ledger_attestation(registry_id)
HistoryKey(i) == Postgres => atts[i] # None

AppendStatus(r) ==
  /\ At(r, "history")
  /\ LET i == Target(r) IN
     \/ /\ HistoryKey(i)
        /\ history' = [history EXCEPT ![i] = Append(@, [by |-> r, index |-> leafIndex[r]])]
        /\ IF Kind(r) = "attest" THEN Answer(r, WriteAnswer(r)) ELSE Goto(r, "update") /\ NoAnswer
     \/ /\ ~HistoryKey(i)
        /\ Answer(r, Problem("error")) /\ UNCHANGED history
  /\ UNCHANGED <<op, rec, latest, tl, fetched, leafIndex, sths, process, disk, atts, byContent,
                 anchoring, faults>>

SetAttestationStatus(r) ==
  /\ At(r, "update")
  /\ atts' = [atts EXCEPT ![Target(r)].status = StatusOf(r)]
  /\ Answer(r, WriteAnswer(r))
  /\ UNCHANGED <<op, rec, latest, tl, fetched, leafIndex, sths, process, disk, byContent, history,
                 anchoring, faults>>

\* A store statement fails before it took effect: 500
StoreFails(r) ==
  /\ Fault("db") /\ Postgres
  /\ \/ pc[r] \in {"lookup", "latest", "persist", "insert", "put", "history", "update"}
     \/ pc[r] = "log" /\ logs = None
  /\ Answer(r, Problem("error"))
  /\ UNCHANGED <<op, rec, latest, tl, fetched, leafIndex, sths, process, store, anchoring>>

\* The process stops: its requests are never answered, its instances are gone
Crash ==
  /\ Fault("crash")
  /\ pc' = [r \in Requests |-> IF pc[r] \in Idle THEN pc[r] ELSE "done"]
  /\ tree' = [l \in Leaves |-> <<>>]
  /\ logs' = None
  /\ UNCHANGED <<op, rec, latest, tl, fetched, leafIndex, sths, store, anchoring, reply>>

Handle(r) ==
  \/ Submit(r) \/ LookupContent(r) \/ LookupRecord(r) \/ LookupLatest(r)
  \/ UseLog(r) \/ LoadLeaves(r) \/ InstallLog(r)
  \/ CountLeaves(r) \/ PersistLeaf(r) \/ PersistConflict(r)
  \/ Anchor(r) \/ AnchorFails(r)
  \/ PutAttestation(r) \/ AppendStatus(r) \/ SetAttestationStatus(r) \/ StoreFails(r)

Next == (Crash \/ \E r \in Requests : Handle(r)) /\ UNCHANGED backend

Spec == Init /\ [][Next]_vars

-----------------------------------------------------------------------------
(* Properties.                                                               *)

Row == [content : Contents, index : Nat, status : {"active", "revoked", "superseded"}]
Entry == [by : Leaves, index : Nat]
Snapshot == [id : Ids, index : Nat, status : {"active", "revoked", "superseded"}]

\* null and undefined are no record, row or operation.
ASSUME NoneAssumption == None \notin Operations \cup Row \cup Snapshot \cup Entry

\* Every variable stays in its type (the fields of reply are the subject of
\* the properties below).
TypeOK ==
  /\ backend \in Stores
  /\ pc \in [Requests -> PC]
  /\ op \in [Requests -> Operations \cup {None}]
  /\ rec \in [Requests -> Snapshot \cup {None}]
  /\ latest \in [Requests -> Entry \cup {None}]
  /\ tl \in [Requests -> Leaves \cup {None}]
  /\ fetched \in [Requests -> Seq(Leaves)]
  /\ leafIndex \in [Requests -> Nat]
  /\ sths \in [Requests -> Seq(Seq(Leaves))]
  /\ tree \in [Leaves -> Seq(Leaves)] /\ logs \in Leaves \cup {None}
  /\ disk \in Seq(Leaves)
  /\ atts \in [Ids -> Row \cup {None}]
  /\ byContent \in [Contents -> Ids \cup {None}]
  /\ history \in [Ids -> Seq(Entry)]
  /\ writesEnabled \in WriteModes
  /\ anchored \in SUBSET Seq(Leaves) /\ unanchored \in SUBSET Seq(Leaves)
  /\ faults \in 0 .. MaxFaults
  /\ DOMAIN reply = Requests

\* The tree heads anchorSTH has published: on chain when writes are enabled,
\* else only in what the service answers, without an anchor.
Heads == IF writesEnabled THEN anchored ELSE unanchored

\* The log is append-only as its readers see it: of any two tree heads that
\* anchorSTH published, the smaller is a prefix of the larger.
HeadsConsistent == \A s, t \in Heads : IsPrefixOf(s, t) \/ IsPrefixOf(t, s)

\* A ledger_attestation row is only written for a leaf that a published head
\* holds at the row's leaf_index (anchorAttestation puts it after anchorSTH).
RowsPublished ==
  \A i \in Ids : atts[i] # None => \E s \in Heads : HoldsLeaf(s, atts[i].index, i)

\* A row is revoked or superseded only when a published head holds a leaf that
\* says so of that attestation (setStatus calls anchorSTH before it updates).
StatusBacked ==
  \A i \in Ids : atts[i] # None /\ atts[i].status # "active" =>
    \E s \in Heads : \E n \in DOMAIN s :
      /\ s[n] # Boot /\ Kind(s[n]) \in Changes /\ op[s[n]].on = i
      /\ StatusOf(s[n]) = atts[i].status

\* With anchoring enabled rows say only what the chain has recorded: neither a
\* row nor its status is ahead of the recorded heads, whatever fails between
\* the two.  With anchoring disabled nothing on chain backs a row; a head that
\* anchorSTH returned holds its leaf, and that is all.
RowsBacked == RowsPublished /\ StatusBacked

\* A request answered 201 has its row, with the leaf_index it was told, and
\* its "active" status entry in the store, whatever else went wrong.
AckDurable ==
  \A r \in Requests : reply[r] # None /\ reply[r].code = "created" =>
    /\ atts[r] # None /\ atts[r].index = reply[r].index
    /\ \E n \in DOMAIN history[r] : history[r][n] = [by |-> r, index |-> reply[r].index]

\* Two requests that attest one content hash and succeed get one registryId,
\* on Postgres even when they run at the same time (UNIQUE (tenant,
\* content_hash) drops the second row, its status row then has no referent).
SameContentSameId ==
  Postgres =>
  \A q, r \in Requests :
    /\ reply[q] # None /\ reply[q].code \in {"created", "ok"} /\ Kind(q) = "attest"
    /\ reply[r] # None /\ reply[r].code \in {"created", "ok"} /\ Kind(r) = "attest"
    /\ op[q].on = op[r].on
    => reply[q].id = reply[r].id

\* The inclusion proof of an answer proves the leaf the answer is about: the
\* tree the proof is taken from holds that leaf at the leaf_index answered.
ProofsVerify ==
  \A r \in Requests :
    reply[r] # None /\ reply[r].code \in {"created", "ok"} /\ Kind(r) # "consistency" =>
      HoldsLeaf(reply[r].proof, reply[r].index, reply[r].by)

\* The tree head of an answer is one anchorSTH published, it already holds the
\* leaf at the leaf_index answered, and the tree the proof is for extends it:
\* appends by other requests meanwhile can only move the proof past the head.
HeadHoldsLeaf ==
  \A r \in Requests :
    reply[r] # None /\ reply[r].code \in {"created", "ok"} /\ Kind(r) # "consistency" =>
      LET sth == reply[r].sths[1]
      IN  /\ sth \in Heads
          /\ HoldsLeaf(sth, reply[r].index, reply[r].by)
          /\ IsPrefixOf(sth, reply[r].proof)

\* What a request was told stays true: the row it was promised, the identifier
\* of its content, the proof of its leaf, the tree head of the answer.
AnswersHold == AckDurable /\ SameContentSameId /\ ProofsVerify /\ HeadHoldsLeaf

\* RevokedUnlessReadBefore: a revocation is terminal but for the requests that
\* read the record before it (setStatus refuses one already revoked, and writes
\* the status after the append and the anchor without looking again): a row
\* leaves "revoked" only by the write of a request that has read another status.
RevokedUnlessReadBefore ==
  [][\A i \in Ids :
       atts[i] # None /\ atts[i].status = "revoked" /\ atts'[i] # atts[i] =>
         \E r \in Requests :
           /\ pc[r] = "update" /\ pc'[r] = "done" /\ Target(r) = i
           /\ rec[r].status # "revoked"]_vars

\* With no request in work, the leaves of the store are those of the published
\* heads in their order, so that getLog rebuilds the same tree after a restart.
RebuildKeepsHeads ==
  (\A r \in Requests : pc[r] \in Idle) => \A s \in Heads : IsPrefixOf(s, disk)

\* The steady process implements an append-only log: its leaves only grow and
\* only heads of it are ever published.
Abstract == INSTANCE AppendOnlyLog WITH Leaf <- Leaves, log <- tree[Boot], heads <- Heads
Implements == Abstract!Spec
=============================================================================
