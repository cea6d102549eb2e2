--------------------------- MODULE GapuraAnchors ----------------------------
(***************************************************************************)
(* Digest anchoring through the Gapura gateway (services/gapura-gateway)   *)
(* as its TypeScript and Python SDKs (sdk/gapura) call it: POST /anchors,  *)
(* the lookup by Idempotency-Key and by digest, recordAnchor and its       *)
(* receipt, the two stores, and the clients' retries.  The gateway has its *)
(* keys and its own registry (writesEnabled); block numbers, purposes and  *)
(* signatures are left out.                                                *)
(***************************************************************************)
EXTENDS Naturals, Sequences, FiniteSets

CONSTANTS
  Clients,       \* SDK instances, one call at a time each
  Flavor,        \* [Clients -> {"ts", "py"}]: which SDK
  Digests,
  Bodies,        \* request bodies: [digest, purpose]
  Keys,          \* Idempotency-Key values; reuse for another body included
  Stores,        \* stores to start with: subset of {"memory", "postgres"}
  MaxRetries,    \* maxRetries of the SDKs
  MaxRequests,   \* bound: HTTP requests in one behaviour
  MaxRunning,    \* bound: handlers at work at once
  MaxFaults      \* bound: failing calls, lost connections, restarts, expired keys

ASSUME GapuraAssumption ==
  /\ Flavor \in [Clients -> {"ts", "py"}]
  /\ \A b \in Bodies : b.digest \in Digests
  /\ Stores \subseteq {"memory", "postgres"}
  /\ MaxRetries \in Nat /\ MaxRequests \in Nat /\ MaxRunning \in Nat /\ MaxFaults \in Nat

VARIABLES
  store,         \* which store the gateway was started with
  txs,           \* recordAnchor transactions sent: [digest, state]
  byDigest,      \* the row a digest leads to: its anchorId, 0 when none
  byId,          \* anchorIds that can be fetched
  idem,          \* Idempotency-Key -> [body, id], id 0 when absent
  reqs,          \* every HTTP request: its handler's locals and answer
  clients,       \* each SDK's call: its latest request, 0 when idle, and attempt
  gone,          \* answers the store has lost since: their rows, their keys
  faults

\* An anchorId is minted per mined transaction: the transaction's number is
\* used for it.
gapuraVars == <<store, txs, byDigest, byId, idem, reqs, clients, gone, faults>>

NoEntry == [id |-> 0]
Idle == [req |-> 0, attempt |-> 0]
Running == {r \in DOMAIN reqs : reqs[r].pc # "done"}
\* 200 and 201 answers, given by the gateway whether or not they arrive
Acked == {r \in DOMAIN reqs : reqs[r].answer = "ok"}
Digest(r) == reqs[r].body.digest
Fault == faults < MaxFaults /\ faults' = faults + 1

GapuraInit ==
  /\ store \in Stores
  /\ txs = <<>> /\ byDigest = [d \in Digests |-> 0] /\ byId = {}
  /\ idem = [k \in Keys |-> NoEntry]
  /\ reqs = <<>>
  /\ clients = [c \in Clients |-> Idle]
  /\ gone = [rows |-> {}, keys |-> {}] /\ faults = 0

-----------------------------------------------------------------------------
(* The SDKs: anchors.create and the retry loop of request / _request.        *)

\* A request starts its handler; before, during: the requests acknowledged by
\* then, and those whose handlers still ran.
SendRequest(c, body, key, attempt) ==
  /\ Len(reqs) < MaxRequests /\ Cardinality(Running) < MaxRunning
  /\ reqs' = Append(reqs, [body |-> body, key |-> key, pc |-> "key", tx |-> 0, id |-> 0,
                           answer |-> "none", before |-> Acked,
                           during |-> Running])
  /\ clients' = [clients EXCEPT ![c] = [req |-> Len(reqs) + 1, attempt |-> attempt]]
  /\ UNCHANGED <<store, txs, byDigest, byId, idem, gone>>

Create(c) ==
  /\ clients[c] = Idle
  /\ \E body \in Bodies, key \in Keys : SendRequest(c, body, key, 0)
  /\ UNCHANGED faults

\* "unavailable": a 503; "network": no answer, or none in time
TsRetries(outcome, attempt) == outcome = "unavailable" /\ attempt < MaxRetries
PyRetries(outcome, attempt) ==
  outcome \in {"unavailable", "network"} /\ attempt + 1 < MaxRetries
Retries(c, outcome) ==
  IF Flavor[c] = "ts" THEN TsRetries(outcome, clients[c].attempt)
                      ELSE PyRetries(outcome, clients[c].attempt)

\* The same body and the same key again, or the call is over.
Outcome(c, outcome) ==
  IF Retries(c, outcome)
    THEN LET sent == reqs[clients[c].req] IN
         SendRequest(c, sent.body, sent.key, clients[c].attempt + 1)
    ELSE /\ clients' = [clients EXCEPT ![c] = Idle]
         /\ UNCHANGED <<store, txs, byDigest, byId, idem, reqs, gone>>

Receive(c) ==
  /\ clients[c] # Idle /\ reqs[clients[c].req].answer # "none"
  /\ Outcome(c, reqs[clients[c].req].answer)
  /\ UNCHANGED faults

\* A connection is lost, or the Python client's timeout passes: the handler goes on.
LoseConnection(c) ==
  clients[c] # Idle /\ reqs[clients[c].req].answer = "none" /\ Fault /\ Outcome(c, "network")

-----------------------------------------------------------------------------
(* The gateway's handler of POST /v1/anchors.                                *)

At(r, pc) == r \in DOMAIN reqs /\ reqs[r].pc = pc
Answer(r, answer, id) == [reqs EXCEPT ![r].pc = "done", ![r].answer = answer, ![r].id = id,
                                        ![r].tx = 0]

\* getIdempotency: replay, conflict, or go on
LookupKeyLax(r) ==                                               \* (mutant)
  /\ At(r, "key")
  /\ LET entry == idem[reqs[r].key] IN
     reqs' = IF entry.id = 0 THEN [reqs EXCEPT ![r].pc = "digest"] ELSE Answer(r, "ok", entry.id)
  /\ UNCHANGED <<store, txs, byDigest, byId, idem, clients, gone, faults>>
LookupKey(r) ==
  /\ At(r, "key")
  /\ LET entry == idem[reqs[r].key] IN
     reqs' = CASE entry.id = 0 -> [reqs EXCEPT ![r].pc = "digest"]
               [] entry.id # 0 /\ entry.body # reqs[r].body -> Answer(r, "conflict", 0)
               [] entry.id # 0 /\ entry.body = reqs[r].body ->
                    IF entry.id \in byId THEN Answer(r, "ok", entry.id) ELSE Answer(r, "missing", 0)
  /\ UNCHANGED <<store, txs, byDigest, byId, idem, clients, gone, faults>>

\* createAnchor, getAnchorByDigest: an existing row is the answer.
LookupDigestSkipped(r) ==                                        \* (mutant)
  /\ At(r, "digest")
  /\ reqs' = [reqs EXCEPT ![r].pc = "submit"]
  /\ UNCHANGED <<store, txs, byDigest, byId, idem, clients, gone, faults>>
LookupDigest(r) ==
  /\ At(r, "digest")
  /\ LET id == byDigest[Digest(r)] IN
     reqs' = IF id = 0 THEN [reqs EXCEPT ![r].pc = "submit"]
                       ELSE [reqs EXCEPT ![r].pc = "putKey", ![r].id = id]
  /\ UNCHANGED <<store, txs, byDigest, byId, idem, clients, gone, faults>>

\* getBlockNumber fails (503); writeContract fails (502), possibly after the
\* node took the transaction; or its hash comes back
Submit(r) ==
  /\ At(r, "submit")
  /\ \/ /\ Fault /\ UNCHANGED txs
        /\ \E answer \in {"unavailable", "failed"} : reqs' = Answer(r, answer, 0)
     \/ /\ txs' = Append(txs, [digest |-> Digest(r), state |-> "pooled"])
        /\ \/ Fault /\ reqs' = Answer(r, "failed", 0)
           \/ /\ reqs' = [reqs EXCEPT ![r].pc = "receipt", ![r].tx = Len(txs) + 1]
              /\ UNCHANGED faults
  /\ UNCHANGED <<store, byDigest, byId, idem, clients, gone>>

\* A block: success or revert
Mine(t) ==
  /\ t \in DOMAIN txs /\ txs[t].state = "pooled"
  /\ \/ txs' = [txs EXCEPT ![t].state = "mined"] /\ UNCHANGED faults
     \/ Fault /\ txs' = [txs EXCEPT ![t].state = "reverted"]
  /\ UNCHANGED <<store, byDigest, byId, idem, reqs, clients, gone>>

\* waitForTransactionReceipt: gives up at any time, or sees the block
AwaitReceipt(r) ==
  /\ At(r, "receipt")
  /\ LET state == txs[reqs[r].tx].state IN
     \/ Fault /\ reqs' = Answer(r, "unavailable", 0)
     \/ state = "reverted" /\ reqs' = Answer(r, "failed", 0) /\ UNCHANGED faults
     \/ state = "mined" /\ reqs' = [reqs EXCEPT ![r].pc = "store"] /\ UNCHANGED faults
  /\ UNCHANGED <<store, txs, byDigest, byId, idem, clients, gone>>

\* Map.set twice, or INSERT ... ON CONFLICT (digest) DO NOTHING
PutMemory(d, id) == byDigest' = [byDigest EXCEPT ![d] = id] /\ byId' = byId \cup {id}
PutPostgres(d, id) ==
  IF byDigest[d] = 0 THEN PutMemory(d, id) ELSE UNCHANGED <<byDigest, byId>>
PutAnchorSkipped(r) ==                                           \* (mutant)
  /\ At(r, "store")
  /\ reqs' = [reqs EXCEPT ![r].pc = "putKey", ![r].id = reqs[r].tx]
  /\ UNCHANGED <<store, txs, byDigest, byId, idem, clients, gone, faults>>
PutAnchor(r) ==
  /\ At(r, "store")
  /\ LET id == reqs[r].tx IN
     /\ IF store = "memory" THEN PutMemory(Digest(r), id) ELSE PutPostgres(Digest(r), id)
     /\ reqs' = [reqs EXCEPT ![r].pc = "putKey", ![r].id = id]
  /\ UNCHANGED <<store, txs, idem, clients, gone, faults>>

\* Map.set, or INSERT ... ON CONFLICT (key) DO NOTHING, whose anchor_id must
\* reference a row: a 500 otherwise.  Then the anchor is the answer.
PutKey(r) ==
  /\ At(r, "putKey")
  /\ LET k == reqs[r].key
         entry == [body |-> reqs[r].body, id |-> reqs[r].id] IN
     IF store = "memory" \/ (idem[k].id = 0 /\ entry.id \in byId)
       THEN idem' = [idem EXCEPT ![k] = entry] /\ reqs' = Answer(r, "ok", entry.id)
       ELSE /\ UNCHANGED idem
            /\ reqs' = IF idem[k].id # 0 THEN Answer(r, "ok", entry.id) ELSE Answer(r, "failed", 0)
  /\ UNCHANGED <<store, txs, byDigest, byId, clients, gone, faults>>

-----------------------------------------------------------------------------
(* Losses.                                                                   *)

\* The process restarts: handlers end without an answer, Maps are empty again.
Restart ==
  /\ Fault
  /\ reqs' = [r \in DOMAIN reqs |-> [reqs[r] EXCEPT !.pc = "done", !.tx = 0]]
  /\ IF store = "postgres" THEN UNCHANGED <<byDigest, byId, idem, gone>>
     ELSE /\ byDigest' = [d \in Digests |-> 0] /\ byId' = {}
          /\ idem' = [k \in Keys |-> NoEntry]
          /\ gone' = [rows |-> DOMAIN reqs, keys |-> DOMAIN reqs]
  /\ UNCHANGED <<store, txs, clients>>

\* 24 hours: the memory store drops the entry; no sweep runs in Postgres.
KeyExpires(k) ==
  /\ Fault
  /\ store = "memory" /\ idem[k].id # 0
  /\ idem' = [idem EXCEPT ![k] = NoEntry]
  /\ gone' = [gone EXCEPT !.keys = @ \cup {r \in Acked : reqs[r].key = k}]
  /\ UNCHANGED <<store, txs, byDigest, byId, reqs, clients>>

GapuraNext ==
  \/ \E c \in Clients : Create(c) \/ Receive(c) \/ LoseConnection(c)
  \/ \E r \in 1 .. MaxRequests :
       \/ LookupKey(r) \/ LookupDigest(r) \/ Submit(r) \/ AwaitReceipt(r)
       \/ PutAnchor(r) \/ PutKey(r)
  \/ \E t \in 1 .. MaxRequests : Mine(t)
  \/ Restart \/ \E k \in Keys : KeyExpires(k)

GapuraSpec == GapuraInit /\ [][GapuraNext]_gapuraVars

-----------------------------------------------------------------------------
(* Properties.                                                               *)

\* GET /v1/anchors?digest=: the answer of verify
Anchored(d) == byDigest[d] # 0

\* An answer of POST /anchors is never invented and never denied: its anchor
\* is a mined, successful recordAnchor of the request's own digest, and, unless
\* the memory store was lost since, verify finds the digest.
AckedIsAnchored ==
  \A r \in Acked :
    /\ txs[reqs[r].id] = [digest |-> Digest(r), state |-> "mined"]
    /\ r \in gone.rows \/ Anchored(Digest(r))

\* Idempotency-Key: a request sent when no other of its key was at work is not
\* acknowledged if the key was acknowledged before, and for other bodies only.
KeyKeepsBody ==
  \A r \in Acked :
    LET earlier == {q \in reqs[r].before \ gone.keys : reqs[q].key = reqs[r].key}
    IN \/ earlier = {}
       \/ \E q \in reqs[r].during : reqs[q].key = reqs[r].key
       \/ \E q \in earlier : reqs[q].body = reqs[r].body

\* A 200 or 201 of POST /anchors speaks of an anchor that exists, and of the body its
\* key was first used with.
AckedIsRight == AckedIsAnchored /\ KeyKeepsBody

\* A digest acknowledged before a request was sent is not recorded on chain a
\* second time by it ("re-anchoring returns the existing anchor").
AckedNotRecordedAgain ==
  [][\A r \in DOMAIN reqs :
       (reqs[r].pc = "submit" /\ txs' # txs /\ reqs'[r].pc # "submit")
         => \A q \in reqs[r].before \ gone.rows : Digest(q) # Digest(r)]_gapuraVars

\* The integration guide: "anchoring an already-anchored hash returns the
\* existing anchor (200), never a duplicate", and a 503 is "safe to retry
\* (idempotent)": the registry holds one anchor per digest.
OneAnchorPerDigest ==
  \A s, t \in DOMAIN txs :
    (txs[s].state = "mined" /\ txs[t].state = "mined" /\ txs[s].digest = txs[t].digest) => s = t
=============================================================================
