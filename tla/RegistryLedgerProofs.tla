------------------------ MODULE RegistryLedgerProofs ------------------------
(***************************************************************************)
(* Proofs about the registry ledger besides its log, and the contracts     *)
(* that govern its issuers.                                                *)
(*                                                                         *)
(* EvidenceRetention: a row keeps at least the retention its registration  *)
(* leaf committed to, and only Postgres's read-modify-write over a row     *)
(* changed since the read goes against retention, for every number of      *)
(* tenants, requests, days and resends.                                    *)
(*                                                                         *)
(* LedgerHeads: every tree head in an answer is the registry's anchor of   *)
(* its onChainId, and a bundle shows the latest checkpoint of a log, for   *)
(* every number of requests, logs, checkpoints, resends and faults.        *)
(*                                                                         *)
(* GovernedIssuers: nothing executes without its quorum, and an issuer     *)
(* changes only as its proposals say, for any accounts, thresholds, calls, *)
(* issuers and number of proposals.                                        *)
(***************************************************************************)
EXTENDS EvidenceRetention, LedgerHeads, GovernedIssuers, FiniteSetTheorems,
        WellFoundedInduction, TLAPS

(***************************************************************************)
(* EvidenceRetention: what the inductive invariant is made of.             *)
(***************************************************************************)

Leaves == [of : Nat, until : Nat]
Recs == [id : Nat, hash : Hashes, tenant : Tenants, until : Nat, hold : BOOLEAN, deleted : BOOLEAN]
Args == [hash : Hashes, until : Untils, hold : BOOLEAN]
          \cup [id : Nat, patch : RetentionPatches] \cup [id : Nat]
Live == [op : {"register", "patch", "delete"}, tenant : Tenants, arg : Args,
         pc : {"read", "append", "put", "attempt", "write"},
         rec : Recs \cup {NoRec}, was : Recs \cup {NoRec}]
Over == [pc |-> "done"]

\* What a request asks for is about its own kind of argument, and a row that is there.
ArgOk(c) ==
  /\ c.op = "register" =>
       c.arg \in [hash : Hashes, until : Untils, hold : BOOLEAN] /\ c.pc \in {"read", "append", "put"}
  /\ c.op = "patch" =>
       c.arg \in [id : Nat, patch : RetentionPatches] /\ c.arg.id \in DOMAIN rows
         /\ c.pc \in {"read", "write"}
  /\ c.op = "delete" => c.arg \in [id : Nat] /\ c.arg.id \in DOMAIN rows

Typed ==
  /\ backend \in {"memory", "postgres"} /\ today \in Nat
  /\ leafLog \in Seq(Leaves)
  /\ rows \in [DOMAIN rows -> Recs] /\ DOMAIN rows \subseteq DOMAIN leafLog
  /\ \A id \in DOMAIN rows : rows[id].id = id
  /\ calls \in Seq(Live \cup {Over})
  /\ \A q \in DOMAIN calls : calls[q].pc # "done" => calls[q] \in Live /\ ArgOk(calls[q])

\* A record to be inserted is new, and what its leaf says.
PutOk(c) ==
  /\ c.rec \in Recs /\ c.rec.id \in DOMAIN leafLog \ DOMAIN rows
  /\ leafLog[c.rec.id] = [of |-> c.rec.id, until |-> c.rec.until]
PutInv ==
  /\ \A q \in DOMAIN calls : calls[q].pc = "put" => PutOk(calls[q])
  /\ \A p, q \in DOMAIN calls :
       calls[p].pc = "put" /\ calls[q].pc = "put" /\ p # q => calls[p].rec.id # calls[q].rec.id

\* A record to be written back is a legal change of the one that was read.
WriteOk(c) ==
  /\ c.rec \in Recs /\ c.was \in Recs /\ c.rec.id \in DOMAIN rows /\ c.was.id = c.rec.id
  /\ c.rec.until >= c.was.until /\ c.rec.until >= leafLog[c.rec.id].until
  /\ ~c.was.deleted /\ (c.rec.deleted => ~Locked(c.was))
WriteInv == \A q \in DOMAIN calls : calls[q].pc = "write" => WriteOk(calls[q])

IInv == Typed /\ NeverBelowCommitment /\ PutInv /\ WriteInv

-----------------------------------------------------------------------------
(***************************************************************************)
(* What a request's step does to its own entry of calls.                   *)
(***************************************************************************)

\* Request q becomes c; the others stay.
Turns(q, c) ==
  /\ q \in DOMAIN calls /\ DOMAIN calls' = DOMAIN calls /\ calls' \in Seq(Live \cup {Over})
  /\ calls'[q] = c /\ \A p \in DOMAIN calls : p # q => calls'[p] = calls[p]

LEMMA SetCall ==
  ASSUME Typed, NEW q \in DOMAIN calls, NEW c \in Live \cup {Over}, calls' = [calls EXCEPT ![q] = c]
  PROVE  Turns(q, c)
BY DEF Typed, Turns

\* A request at work is one of its fields.
LEMMA AtWork ==
  ASSUME Typed, NEW q, NEW op, NEW pc, CallAt(q, op, pc), pc # "done"
  PROVE  /\ q \in DOMAIN calls /\ calls[q] \in Live /\ ArgOk(calls[q])
         /\ calls[q].pc = pc /\ calls[q].op = op
BY DEF Typed, CallAt

LEMMA Finishes ==
  ASSUME Typed, NEW q \in DOMAIN calls, Done(q)
  PROVE  Turns(q, Over)
<1>1. calls' = [calls EXCEPT ![q] = Over] BY DEF Done, Over
<1>. QED BY <1>1, SetCall

\* The request as the client sends it again.
Again(q) == [calls[q] EXCEPT !.pc = "read", !.rec = NoRec, !.was = NoRec]
LEMMA Restarts ==
  ASSUME Typed, NEW q \in DOMAIN calls, calls[q] \in Live, SendAgain(q)
  PROVE  Turns(q, Again(q)) /\ Again(q) \in Live
<1>1. Again(q) \in Live BY DEF Again, Live
<1>2. calls' = [calls EXCEPT ![q] = Again(q)]
  BY DEF SendAgain, Again, Live, Typed
<1>. QED BY <1>1, <1>2, SetCall

\* The request at a new place, with a record and the one it was made from.
LEMMA Advances ==
  ASSUME Typed, NEW q \in DOMAIN calls, calls[q] \in Live,
         NEW pc \in {"append", "put", "attempt", "write"},
         NEW rec \in Recs \cup {NoRec}, NEW was \in Recs \cup {NoRec},
         calls' = [calls EXCEPT ![q].pc = pc, ![q].rec = rec, ![q].was = was]
  PROVE  /\ Turns(q, [calls[q] EXCEPT !.pc = pc, !.rec = rec, !.was = was])
         /\ [calls[q] EXCEPT !.pc = pc, !.rec = rec, !.was = was] \in Live
<1>. DEFINE c == [calls[q] EXCEPT !.pc = pc, !.rec = rec, !.was = was]
<1>1. c \in Live BY DEF Live
<1>2. calls' = [calls EXCEPT ![q] = c] BY DEF Live, Typed
<1>. QED BY <1>1, <1>2, SetCall

LEMMA Reading ==
  ASSUME Typed, NEW q \in DOMAIN calls, calls[q] \in Live,
         NEW pc \in {"append", "put", "attempt"}, NEW rec \in Recs \cup {NoRec}, Reads(q, pc, rec)
  PROVE  \E c \in Live : /\ Turns(q, c) /\ c.pc = pc /\ c.rec = rec
                         /\ c.op = calls[q].op /\ c.arg = calls[q].arg
<1>. DEFINE c == [calls[q] EXCEPT !.pc = pc, !.rec = rec, !.was = calls[q].was]
<1>1. calls[q].was \in Recs \cup {NoRec} BY DEF Live
<1>2. calls' = [calls EXCEPT ![q].pc = pc, ![q].rec = rec, ![q].was = calls[q].was]
  BY DEF Reads, Live, Typed
<1>3. Turns(q, c) /\ c \in Live BY <1>1, <1>2, Advances
<1>4. c.pc = pc /\ c.rec = rec /\ c.op = calls[q].op /\ c.arg = calls[q].arg
  BY DEF Live
<1>. HIDE DEF c
<1>. QED BY <1>3, <1>4

-----------------------------------------------------------------------------
(***************************************************************************)
(* The invariant of the requests and the rows.                             *)
(***************************************************************************)

\* Leaves stay, rows stay, the store stays, time does not go back.
Stable ==
  /\ \A i \in DOMAIN leafLog : i \in DOMAIN leafLog' /\ leafLog'[i] = leafLog[i]
  /\ DOMAIN rows \subseteq DOMAIN rows' /\ backend' = backend
  /\ today' >= today /\ today' \in Nat /\ today \in Nat

LEMMA OkStays ==
  ASSUME Stable, DOMAIN rows \subseteq DOMAIN leafLog, NEW c
  PROVE  /\ ArgOk(c) => ArgOk(c)'
         /\ WriteOk(c) => WriteOk(c)'
         /\ PutOk(c) /\ c.rec.id \notin DOMAIN rows' => PutOk(c)'
<1>1. ArgOk(c) => ArgOk(c)' BY DEF ArgOk, Stable
<1>2. PutOk(c) /\ c.rec.id \notin DOMAIN rows' => PutOk(c)' BY DEF PutOk, Stable
<1>3. ASSUME WriteOk(c) PROVE WriteOk(c)'
  <2>1. ~Locked(c.was) => ~Locked(c.was)'
    <3>1. c.was.until \in Nat BY <1>3 DEF WriteOk, Recs
    <3>. QED BY <3>1 DEF Locked, Stable
  <2>. QED BY <1>3, <2>1 DEF WriteOk, Stable
<1>. QED BY <1>1, <1>2, <1>3

\* One request's step: what is to be shown of the request, the rows and the log.
LEMMA CallStep ==
  ASSUME IInv, Stable, leafLog' \in Seq(Leaves),
         rows' \in [DOMAIN rows' -> Recs], DOMAIN rows' \subseteq DOMAIN leafLog',
         \A id \in DOMAIN rows' : rows'[id].id = id, NeverBelowCommitment',
         NEW q, NEW c, Turns(q, c),
         \A id \in DOMAIN rows' \ DOMAIN rows : calls[q].pc = "put" /\ id = calls[q].rec.id,
         c.pc # "done" => c \in Live /\ ArgOk(c),
         c.pc = "put" =>
           PutOk(c)' /\ \A p \in DOMAIN calls : calls[p].pc = "put" => calls[p].rec.id # c.rec.id,
         c.pc = "write" => WriteOk(c)
  PROVE  IInv'
<1>. USE DEF IInv
<1>1. DOMAIN rows \subseteq DOMAIN leafLog BY DEF Typed
<1>2. Typed'
  <2>1. \A p \in DOMAIN calls : calls'[p].pc # "done" => calls'[p] \in Live /\ ArgOk(calls'[p])
    BY DEF Turns, Typed
  <2>2. \A p \in DOMAIN calls : calls'[p].pc # "done" => calls'[p] \in Live /\ ArgOk(calls[p])'
    <3>1. ASSUME NEW p \in DOMAIN calls, calls'[p].pc # "done" PROVE ArgOk(calls[p])'
      <4>1. PICK d : d = calls'[p] OBVIOUS
      <4>2. ArgOk(d)' BY <1>1, <2>1, <3>1, <4>1, OkStays
      <4>. QED BY <4>1, <4>2 DEF ArgOk
    <3>. QED BY <2>1, <3>1
  <2>. QED BY <2>2 DEF Typed, Turns, Stable
<1>3. WriteInv'
  <2>1. ASSUME NEW p \in DOMAIN calls, calls'[p].pc = "write" PROVE WriteOk(calls[p])'
    <3>1. PICK d : d = calls'[p] OBVIOUS
    <3>2. WriteOk(d) BY <2>1, <3>1 DEF Turns, WriteInv
    <3>3. WriteOk(d)' BY <1>1, <3>2, OkStays
    <3>. QED BY <3>1, <3>3 DEF WriteOk
  <2>. QED BY <2>1 DEF WriteInv, Turns
<1>4. \A p \in DOMAIN calls : calls'[p].pc = "put" => PutOk(calls[p])'
  <2>1. ASSUME NEW p \in DOMAIN calls, calls'[p].pc = "put", p # q PROVE PutOk(calls[p])'
    <3>1. PICK d : d = calls[p] OBVIOUS
    <3>2. calls'[p] = d /\ PutOk(d) BY <2>1, <3>1 DEF Turns, PutInv
    <3>3. d.rec.id \notin DOMAIN rows'
      BY <2>1, <3>1, <3>2 DEF PutInv, PutOk, Turns
    <3>4. PutOk(d)' BY <1>1, <3>2, <3>3, OkStays
    <3>. QED BY <3>2, <3>4 DEF PutOk
  <2>2. calls'[q].pc = "put" => PutOk(calls[q])'
    BY DEF Turns, PutOk
  <2>. QED BY <2>1, <2>2
<1>5. PutInv'
  <2>1. ASSUME NEW p \in DOMAIN calls, NEW r \in DOMAIN calls,
               calls'[p].pc = "put", calls'[r].pc = "put", p # r
        PROVE  calls'[p].rec.id # calls'[r].rec.id
    BY <2>1 DEF Turns, PutInv
  <2>. QED BY <1>4, <2>1 DEF PutInv, Turns
<1>. QED BY <1>2, <1>3, <1>5

\* The cases in which neither the log nor a row changes.
LEMMA OnlyCall ==
  ASSUME IInv, UNCHANGED <<backend, today, leafLog, rows>>, NEW q, NEW c, Turns(q, c),
         c.pc # "done" => c \in Live /\ ArgOk(c), c.pc # "put", c.pc = "write" => WriteOk(c)
  PROVE  IInv'
<1>. USE DEF IInv
<1>1. Stable BY DEF Stable, Typed
<1>2. /\ leafLog' \in Seq(Leaves) /\ rows' \in [DOMAIN rows' -> Recs]
      /\ DOMAIN rows' \subseteq DOMAIN leafLog' /\ \A id \in DOMAIN rows' : rows'[id].id = id
      /\ NeverBelowCommitment' /\ DOMAIN rows' \ DOMAIN rows = {}
  BY DEF Typed, NeverBelowCommitment
<1>. QED BY <1>1, <1>2, CallStep

\* A leaf more: the rows are as they were.
LEMMA LeafMore ==
  ASSUME IInv, NEW leaf \in Leaves, leafLog' = Append(leafLog, leaf), UNCHANGED <<backend, today, rows>>
  PROVE  /\ Stable /\ leafLog' \in Seq(Leaves) /\ rows' \in [DOMAIN rows' -> Recs]
         /\ DOMAIN rows' \subseteq DOMAIN leafLog' /\ \A id \in DOMAIN rows' : rows'[id].id = id
         /\ NeverBelowCommitment' /\ DOMAIN rows' \ DOMAIN rows = {}
         /\ Len(leafLog) + 1 \in DOMAIN leafLog' /\ leafLog'[Len(leafLog) + 1] = leaf
         /\ Len(leafLog) + 1 \notin DOMAIN leafLog
<1>1. /\ leafLog' \in Seq(Leaves) /\ DOMAIN leafLog' = DOMAIN leafLog \cup {Len(leafLog) + 1}
      /\ \A i \in DOMAIN leafLog : leafLog'[i] = leafLog[i]
      /\ leafLog'[Len(leafLog) + 1] = leaf /\ Len(leafLog) + 1 \notin DOMAIN leafLog
  BY DEF IInv, Typed
<1>2. Stable BY <1>1 DEF Stable, IInv, Typed
<1>3. NeverBelowCommitment' BY <1>1 DEF IInv, Typed, NeverBelowCommitment
<1>. QED BY <1>1, <1>2, <1>3 DEF IInv, Typed

LEMMA LookupContentStep == ASSUME IInv, NEW q, LookupContent(q) PROVE IInv'
<1>. USE DEF IInv
<1>1. /\ q \in DOMAIN calls /\ calls[q] \in Live /\ ArgOk(calls[q]) /\ calls[q].op = "register"
      /\ UNCHANGED <<backend, today, leafLog, rows>>
  BY AtWork DEF LookupContent
<1>2. CASE Done(q) BY <1>1, <1>2, Finishes, OnlyCall DEF Over
<1>3. CASE Reads(q, "append", NoRec)
  <2>1. PICK c \in Live : /\ Turns(q, c) /\ c.pc = "append" /\ c.rec = NoRec
                          /\ c.op = calls[q].op /\ c.arg = calls[q].arg
    BY <1>1, <1>3, Reading
  <2>2. ArgOk(c) BY <1>1, <2>1 DEF ArgOk
  <2>. QED BY <1>1, <2>1, <2>2, OnlyCall
<1>. QED BY <1>2, <1>3 DEF LookupContent

LEMMA AppendEvidenceStep == ASSUME IInv, NEW q, AppendEvidence(q) PROVE IInv'
<1>. USE DEF IInv
<1>1. /\ q \in DOMAIN calls /\ calls[q] \in Live /\ ArgOk(calls[q]) /\ calls[q].op = "register"
      /\ UNCHANGED <<backend, today, rows>>
  BY AtWork DEF AppendEvidence
<1>. DEFINE n == Len(leafLog) + 1
<1>. DEFINE leaf == [of |-> n, until |-> calls[q].arg.until]
<1>. DEFINE rec == [id |-> n, hash |-> calls[q].arg.hash, tenant |-> calls[q].tenant,
                    until |-> calls[q].arg.until, hold |-> calls[q].arg.hold, deleted |-> FALSE]
<1>2. /\ calls[q].arg \in [hash : Hashes, until : Untils, hold : BOOLEAN]
      /\ calls[q].tenant \in Tenants /\ n \in Nat
  BY <1>1 DEF ArgOk, Live, Typed
<1>3. calls[q].arg.until \in Nat BY <1>2, EvidenceAssumption
<1>4. leaf \in Leaves /\ rec \in Recs BY <1>2, <1>3 DEF Leaves, Recs
<1>5. leafLog' = Append(leafLog, leaf) BY DEF AppendEvidence
<1>6. /\ Stable /\ leafLog' \in Seq(Leaves) /\ rows' \in [DOMAIN rows' -> Recs]
      /\ DOMAIN rows' \subseteq DOMAIN leafLog' /\ \A id \in DOMAIN rows' : rows'[id].id = id
      /\ NeverBelowCommitment' /\ DOMAIN rows' \ DOMAIN rows = {}
      /\ n \in DOMAIN leafLog' /\ leafLog'[n] = leaf /\ n \notin DOMAIN leafLog
  BY <1>1, <1>4, <1>5, LeafMore
<1>7. CASE Reads(q, "put", rec)
  <2>1. PICK c \in Live : /\ Turns(q, c) /\ c.pc = "put" /\ c.rec = rec
                          /\ c.op = calls[q].op /\ c.arg = calls[q].arg
    <3>. HIDE DEF rec
    <3>. QED BY <1>1, <1>4, <1>7, Reading
  <2>2. rec.id = n /\ rec.until = calls[q].arg.until OBVIOUS
  <2>3. ArgOk(c) BY <1>1, <2>1 DEF ArgOk
  <2>4. n \notin DOMAIN rows BY <1>6 DEF Typed
  <2>5. PutOk(c)' BY <1>1, <1>4, <1>6, <2>1, <2>2, <2>4 DEF PutOk
  <2>6. \A p \in DOMAIN calls : calls[p].pc = "put" => calls[p].rec.id # n
    BY <1>6 DEF PutInv, PutOk
  <2>. HIDE DEF rec, n, leaf
  <2>7. \A p \in DOMAIN calls : calls[p].pc = "put" => calls[p].rec.id # c.rec.id
    BY <2>1, <2>2, <2>6
  <2>. QED BY <1>6, <2>1, <2>3, <2>5, <2>7, CallStep
<1>. HIDE DEF rec, n, leaf
<1>8. CASE Done(q) BY <1>1, <1>6, <1>8, Finishes, CallStep DEF Over
<1>9. CASE SendAgain(q)
  <2>1. Turns(q, Again(q)) /\ Again(q) \in Live BY <1>1, <1>9, Restarts
  <2>2. Again(q).pc = "read" /\ Again(q).op = "register" /\ Again(q).arg = calls[q].arg
    BY <1>1 DEF Again, Live
  <2>3. ArgOk(Again(q)) BY <1>1, <2>2 DEF ArgOk
  <2>. QED BY <1>6, <2>1, <2>2, <2>3, CallStep
<1>. QED BY <1>7, <1>8, <1>9 DEF AppendEvidence, DoneOnChain, rec, n

\* A row that stays, or changes by what its retention allows, is not breached.
LEMMA NoBreach ==
  ASSUME Typed, NEW id \in DOMAIN rows, rows'[id] = rows[id]
  PROVE  ~Breaches(id)
<1>1. rows[id] \in Recs BY DEF Typed
<1>2. rows[id].until \in Nat BY <1>1 DEF Recs
<1>. QED BY <1>2 DEF Breaches

LEMMA PutEvidenceStep ==
  ASSUME IInv, NEW q, PutEvidence(q)
  PROVE  IInv' /\ \A id \in DOMAIN rows : ~Breaches(id)
<1>. USE DEF IInv
<1>1. /\ q \in DOMAIN calls /\ calls[q].pc = "put" /\ UNCHANGED <<backend, today, leafLog>> /\ Turns(q, Over)
      /\ PutOk(calls[q])
  BY AtWork, Finishes DEF PutEvidence, PutInv
<1>2. CASE rows' = rows
  BY <1>1, <1>2, OnlyCall, NoBreach DEF Over
<1>3. CASE rows' = [id \in DOMAIN rows \cup {calls[q].rec.id} |->
                      IF id = calls[q].rec.id THEN calls[q].rec ELSE rows[id]]
  <2>1. PICK rec \in Recs : rec = calls[q].rec BY <1>1 DEF PutOk
  <2>2. /\ rec.id \in DOMAIN leafLog \ DOMAIN rows
        /\ leafLog[rec.id] = [of |-> rec.id, until |-> rec.until]
    BY <1>1, <2>1 DEF PutOk
  <2>3. /\ DOMAIN rows' = DOMAIN rows \cup {rec.id} /\ rows'[rec.id] = rec
        /\ \A id \in DOMAIN rows : rows'[id] = rows[id]
    BY <1>3, <2>1, <2>2
  <2>4. rows' \in [DOMAIN rows' -> Recs] BY <1>3, <2>1 DEF Typed
  <2>5. /\ Stable /\ leafLog' \in Seq(Leaves) /\ DOMAIN rows' \subseteq DOMAIN leafLog'
        /\ \A id \in DOMAIN rows' : rows'[id].id = id
    BY <1>1, <2>2, <2>3 DEF Stable, Typed
  <2>6. rec.until \in Nat BY DEF Recs
  <2>7. NeverBelowCommitment'
    BY <1>1, <2>2, <2>3, <2>6 DEF NeverBelowCommitment
  <2>8. \A id \in DOMAIN rows' \ DOMAIN rows : id = calls[q].rec.id BY <2>1, <2>3
  <2>9. IInv' BY <1>1, <2>4, <2>5, <2>7, <2>8, CallStep DEF Over
  <2>. QED BY <2>3, <2>9, NoBreach
<1>. QED BY <1>2, <1>3 DEF PutEvidence

\* A legal change of a row, which the memory store makes at once.
LEMMA AltersStep ==
  ASSUME IInv, UNCHANGED <<backend, today, leafLog>>,
         NEW q \in DOMAIN calls, calls[q] \in Live, ArgOk(calls[q]), calls[q].op \in {"patch", "delete"},
         NEW rec \in Recs, rec.id \in DOMAIN rows, rec.until >= rows[rec.id].until,
         ~rows[rec.id].deleted, rec.deleted => ~Locked(rows[rec.id]), Alters(q, rec)
  PROVE  IInv' /\ \A id \in DOMAIN rows : ~Breaches(id)
<1>. USE DEF IInv
<1>1. PICK was \in Recs : was = rows[rec.id] BY DEF Typed
<1>2. PICK c \in Live : /\ Turns(q, c) /\ c.pc = "write" /\ c.rec = rec /\ c.was = was
                        /\ c.op = calls[q].op /\ c.arg = calls[q].arg
  <2>1. calls' = [calls EXCEPT ![q].pc = "write", ![q].rec = rec, ![q].was = was]
    BY <1>1 DEF Alters
  <2>. DEFINE c == [calls[q] EXCEPT !.pc = "write", !.rec = rec, !.was = was]
  <2>2. Turns(q, c) /\ c \in Live BY <2>1, Advances
  <2>3. c.pc = "write" /\ c.rec = rec /\ c.was = was /\ c.op = calls[q].op /\ c.arg = calls[q].arg
    BY DEF Live
  <2>. HIDE DEF c
  <2>. QED BY <2>2, <2>3
<1>3. ArgOk(c) BY <1>2 DEF ArgOk
<1>4. rec.until \in Nat /\ was.until \in Nat /\ was.id = rec.id
  BY <1>1 DEF Recs, Typed
<1>5. leafLog[rec.id].until \in Nat /\ leafLog[rec.id].of = rec.id /\ was.until >= leafLog[rec.id].until
  <2>1. PICK leaf \in Leaves : leaf = leafLog[rec.id] BY DEF Typed
  <2>. QED BY <1>1, <2>1 DEF NeverBelowCommitment, Leaves
<1>6. WriteOk(c)
  BY <1>1, <1>2, <1>4, <1>5 DEF WriteOk
<1>7. CASE rows' = rows
  BY <1>2, <1>3, <1>6, <1>7, OnlyCall, NoBreach
<1>8. CASE rows' = [rows EXCEPT ![rec.id] = rec]
  <2>1. /\ DOMAIN rows' = DOMAIN rows /\ rows'[rec.id] = rec
        /\ \A id \in DOMAIN rows : id # rec.id => rows'[id] = rows[id]
        /\ rows' \in [DOMAIN rows' -> Recs]
    BY <1>8 DEF Typed
  <2>2. /\ Stable /\ leafLog' \in Seq(Leaves) /\ DOMAIN rows' \subseteq DOMAIN leafLog'
        /\ \A id \in DOMAIN rows' : rows'[id].id = id
        /\ DOMAIN rows' \ DOMAIN rows = {}
    BY <1>4, <2>1 DEF Stable, Typed
  <2>3. NeverBelowCommitment'
    BY <1>1, <1>4, <1>5, <2>1 DEF NeverBelowCommitment
  <2>4. IInv' BY <1>2, <1>3, <1>6, <2>1, <2>2, <2>3, CallStep
  <2>5. ~Breaches(rec.id)
    BY <1>1, <1>4, <2>1 DEF Breaches
  <2>. QED BY <2>1, <2>4, <2>5, NoBreach
<1>. QED BY <1>7, <1>8 DEF Alters

LEMMA ReadForUpdateStep ==
  ASSUME Zone = "utc", IInv, NEW q, ReadForUpdate(q)
  PROVE  IInv' /\ \A id \in DOMAIN rows : ~Breaches(id)
<1>. USE DEF IInv
<1>1. /\ q \in DOMAIN calls /\ calls[q] \in Live /\ ArgOk(calls[q]) /\ calls[q].op = "patch"
      /\ UNCHANGED <<backend, today, leafLog>>
  BY AtWork DEF ReadForUpdate
<1>2. /\ calls[q].arg.id \in DOMAIN rows /\ calls[q].arg.patch \in RetentionPatches
  BY <1>1 DEF ArgOk
<1>3. PICK rec \in Recs, p \in RetentionPatches : rec = rows[calls[q].arg.id] /\ p = calls[q].arg.patch
  BY <1>2 DEF Typed
<1>4. CASE Done(q) /\ rows' = rows
  BY <1>1, <1>4, Finishes, OnlyCall, NoBreach DEF Over
<1>5. CASE ~Refused(q, rec) /\ ~(p.until # 0 /\ p.until < rec.until) /\ Alters(q, Retained(rec, p))
  <2>1. rec.until \in Nat /\ p.until \in Nat /\ rec.id = calls[q].arg.id
    BY <1>2, <1>3, EvidenceAssumption DEF Recs, RetentionPatches, Typed
  <2>2. /\ Retained(rec, p) \in Recs /\ Retained(rec, p).id = rec.id
        /\ Retained(rec, p).deleted = rec.deleted
        /\ Retained(rec, p).until = IF p.until = 0 THEN rec.until ELSE p.until
    BY <2>1 DEF Retained, Recs
  <2>3. Retained(rec, p).until >= rec.until /\ ~rec.deleted
    BY <1>5, <2>1, <2>2 DEF Refused
  <2>4. PICK new : new = Retained(rec, p) OBVIOUS
  <2>5. new \in Recs /\ new.id \in DOMAIN rows /\ new.until >= rows[new.id].until
        /\ ~rows[new.id].deleted /\ ~new.deleted
    BY <1>2, <1>3, <2>1, <2>2, <2>3, <2>4
  <2>. QED BY <1>1, <1>5, <2>4, <2>5, AltersStep
<1>. QED BY <1>3, <1>4, <1>5 DEF ReadForUpdate, Found

LEMMA ReadForDeleteStep ==
  ASSUME Zone = "utc", IInv, NEW q, ReadForDelete(q)
  PROVE  IInv' /\ \A id \in DOMAIN rows : ~Breaches(id)
<1>. USE DEF IInv
<1>1. /\ q \in DOMAIN calls /\ calls[q] \in Live /\ ArgOk(calls[q]) /\ calls[q].op = "delete"
      /\ UNCHANGED <<backend, today, leafLog>>
  BY AtWork DEF ReadForDelete
<1>2. calls[q].arg.id \in DOMAIN rows BY <1>1 DEF ArgOk
<1>3. PICK rec \in Recs : rec = rows[calls[q].arg.id] BY <1>2 DEF Typed
<1>4. CASE Done(q) /\ rows' = rows
  BY <1>1, <1>4, Finishes, OnlyCall, NoBreach DEF Over
<1>5. CASE Reads(q, "attempt", NoRec) /\ rows' = rows
  <2>1. PICK c \in Live : /\ Turns(q, c) /\ c.pc = "attempt" /\ c.rec = NoRec
                          /\ c.op = calls[q].op /\ c.arg = calls[q].arg
    BY <1>1, <1>5, Reading
  <2>2. ArgOk(c) BY <1>1, <2>1 DEF ArgOk
  <2>. QED BY <1>1, <1>5, <2>1, <2>2, OnlyCall, NoBreach
<1>6. CASE ~Refused(q, rec) /\ ~Locked(rec) /\ Alters(q, [rec EXCEPT !.deleted = TRUE])
  <2>1. PICK new : new = [rec EXCEPT !.deleted = TRUE] OBVIOUS
  <2>2. new \in Recs /\ new.id = rec.id /\ new.until = rec.until /\ rec.until \in Nat
    BY <2>1 DEF Recs
  <2>3. rec.id = calls[q].arg.id /\ ~rec.deleted
    BY <1>2, <1>3, <1>6 DEF Typed, Refused
  <2>4. new.id \in DOMAIN rows /\ rows[new.id] = rec
    BY <1>2, <1>3, <2>2, <2>3
  <2>5. /\ new.until >= rows[new.id].until /\ ~rows[new.id].deleted /\ ~Locked(rows[new.id])
        /\ Alters(q, new)
    BY <1>6, <2>1, <2>2, <2>3, <2>4
  <2>. QED BY <1>1, <2>2, <2>4, <2>5, AltersStep
<1>. QED BY <1>3, <1>4, <1>5, <1>6 DEF ReadForDelete, Found

LEMMA AppendAttemptStep == ASSUME IInv, NEW q, AppendAttempt(q) PROVE IInv'
<1>. USE DEF IInv
<1>1. /\ q \in DOMAIN calls /\ calls[q] \in Live /\ ArgOk(calls[q]) /\ calls[q].op = "delete"
      /\ UNCHANGED <<backend, today, rows>>
  BY AtWork DEF AppendAttempt
<1>2. [of |-> calls[q].arg.id, until |-> 0] \in Leaves
  BY <1>1 DEF ArgOk, Leaves
<1>3. leafLog' = Append(leafLog, [of |-> calls[q].arg.id, until |-> 0]) BY DEF AppendAttempt
<1>4. /\ Stable /\ leafLog' \in Seq(Leaves) /\ rows' \in [DOMAIN rows' -> Recs]
      /\ DOMAIN rows' \subseteq DOMAIN leafLog' /\ \A id \in DOMAIN rows' : rows'[id].id = id
      /\ NeverBelowCommitment' /\ DOMAIN rows' \ DOMAIN rows = {}
  BY <1>1, <1>2, <1>3, LeafMore
<1>5. CASE Done(q) BY <1>1, <1>4, <1>5, Finishes, CallStep DEF Over
<1>6. CASE SendAgain(q)
  <2>1. Turns(q, Again(q)) /\ Again(q) \in Live BY <1>1, <1>6, Restarts
  <2>2. Again(q).pc = "read" /\ Again(q).op = "delete" /\ Again(q).arg = calls[q].arg
    BY <1>1 DEF Again, Live
  <2>3. ArgOk(Again(q)) BY <1>1, <2>2 DEF ArgOk
  <2>. QED BY <1>4, <2>1, <2>2, <2>3, CallStep
<1>. QED BY <1>5, <1>6 DEF AppendAttempt, DoneOnChain

\* The copy written over a row that has not changed is a legal change of it.
LEMMA WriteBackStep ==
  ASSUME IInv, NEW q, WriteBack(q)
  PROVE  /\ IInv'
         /\ \A id \in DOMAIN rows : Breaches(id) => backend = "postgres" /\ ChangedSinceRead(id)
<1>. USE DEF IInv
<1>1. /\ q \in DOMAIN calls /\ calls[q].pc = "write" /\ UNCHANGED <<backend, today, leafLog>>
      /\ calls[q] \in Live /\ ArgOk(calls[q]) /\ WriteOk(calls[q])
  BY DEF WriteBack, Typed, WriteInv
<1>2. PICK c \in Live \cup {Over} : /\ Turns(q, c) /\ c.pc \in {"read", "done"}
                                    /\ c.pc # "done" => c \in Live /\ ArgOk(c)
  <2>1. CASE Done(q) BY <1>1, <2>1, Finishes DEF Over
  <2>2. CASE SendAgain(q) /\ calls[q].op = "patch"
    <3>1. Turns(q, Again(q)) /\ Again(q) \in Live BY <1>1, <2>2, Restarts
    <3>2. Again(q).pc = "read" /\ Again(q).op = "patch" /\ Again(q).arg = calls[q].arg
      BY <1>1, <2>2 DEF Again, Live
    <3>3. ArgOk(Again(q)) BY <1>1, <2>2, <3>2 DEF ArgOk
    <3>. QED BY <3>1, <3>2, <3>3
  <2>. QED BY <2>1, <2>2 DEF WriteBack, DoneOnChain
<1>3. CASE rows' = rows
  BY <1>1, <1>2, <1>3, OnlyCall, NoBreach
<1>4. CASE backend = "postgres" /\ rows' = [rows EXCEPT ![calls[q].rec.id] = calls[q].rec]
  <2>1. PICK rec \in Recs, was \in Recs : rec = calls[q].rec /\ was = calls[q].was
    BY <1>1 DEF WriteOk
  <2>2. /\ rec.id \in DOMAIN rows /\ was.id = rec.id
        /\ rec.until >= was.until /\ rec.until >= leafLog[rec.id].until
        /\ ~was.deleted /\ (rec.deleted => ~Locked(was))
    BY <1>1, <2>1 DEF WriteOk
  <2>3. /\ DOMAIN rows' = DOMAIN rows /\ rows'[rec.id] = rec
        /\ \A id \in DOMAIN rows : id # rec.id => rows'[id] = rows[id]
        /\ rows' \in [DOMAIN rows' -> Recs]
    BY <1>4, <2>1, <2>2 DEF Typed
  <2>4. /\ Stable /\ leafLog' \in Seq(Leaves) /\ DOMAIN rows' \subseteq DOMAIN leafLog'
        /\ \A id \in DOMAIN rows' : rows'[id].id = id
        /\ DOMAIN rows' \ DOMAIN rows = {}
    BY <1>1, <2>2, <2>3 DEF Stable, Typed
  <2>5. NeverBelowCommitment'
    BY <1>1, <2>2, <2>3 DEF NeverBelowCommitment
  <2>6. IInv' BY <1>2, <2>3, <2>4, <2>5, CallStep
  <2>7. ASSUME rows[rec.id] = was PROVE ~Breaches(rec.id)
    <3>1. rec.until \in Nat /\ was.until \in Nat BY DEF Recs
    <3>. QED BY <2>2, <2>3, <2>7, <3>1 DEF Breaches
  <2>8. rows[rec.id] # was => ChangedSinceRead(rec.id)
    BY <1>1, <2>1 DEF ChangedSinceRead
  <2>. QED BY <1>4, <2>3, <2>6, <2>7, <2>8, NoBreach
<1>. QED BY <1>3, <1>4 DEF WriteBack, Typed

LEMMA NewDayStep == ASSUME IInv, NewDay PROVE IInv'
<1>. USE DEF IInv
<1>1. UNCHANGED <<backend, leafLog, rows, calls>> /\ today' = today + 1 BY DEF NewDay
<1>2. Stable BY <1>1 DEF Stable, Typed
<1>3. Typed' /\ NeverBelowCommitment' /\ PutInv'
  BY <1>1 DEF Typed, ArgOk, NeverBelowCommitment, PutInv, PutOk
<1>4. WriteInv'
  <2>1. ASSUME NEW q \in DOMAIN calls, calls[q].pc = "write" PROVE WriteOk(calls[q])'
    <3>1. PICK d : d = calls[q] OBVIOUS
    <3>2. WriteOk(d)' BY <1>2, <2>1, <3>1, OkStays DEF WriteInv, Typed
    <3>. QED BY <1>1, <3>1, <3>2 DEF WriteOk
  <2>. QED BY <1>1, <2>1 DEF WriteInv
<1>. QED BY <1>3, <1>4

LEMMA ArrivesStep ==
  ASSUME IInv, NEW op \in {"register", "patch", "delete"}, NEW t \in Tenants, NEW arg \in Args,
         Arrives(op, t, arg),
         \A c : c.op = op /\ c.arg = arg /\ c.pc = "read" => ArgOk(c)
  PROVE  IInv'
<1>. USE DEF IInv
<1>1. PICK c : c = [op |-> op, tenant |-> t, arg |-> arg, pc |-> "read", rec |-> NoRec, was |-> NoRec]
  OBVIOUS
<1>2. calls' = Append(calls, c) /\ UNCHANGED <<backend, today, leafLog, rows>>
  BY <1>1 DEF Arrives
<1>3. c \in Live /\ ArgOk(c) /\ c.pc = "read" BY <1>1 DEF Live
<1>4. /\ DOMAIN calls' = DOMAIN calls \cup {Len(calls) + 1} /\ calls' \in Seq(Live \cup {Over})
      /\ \A q \in DOMAIN calls : calls'[q] = calls[q]
      /\ calls'[Len(calls) + 1] = c
  BY <1>2, <1>3 DEF Typed
<1>5. Typed'
  <2>1. \A q \in DOMAIN calls' : calls'[q].pc # "done" => calls'[q] \in Live /\ ArgOk(calls'[q])
    BY <1>3, <1>4 DEF Typed
  <2>. QED BY <1>2, <1>4, <2>1 DEF Typed, ArgOk
<1>6. NeverBelowCommitment' BY <1>2 DEF NeverBelowCommitment
<1>7. \A q \in DOMAIN calls' : calls'[q].pc \in {"put", "write"} => q \in DOMAIN calls
  BY <1>3, <1>4
<1>8. PutInv' BY <1>2, <1>4, <1>7 DEF PutInv, PutOk
<1>9. WriteInv' BY <1>2, <1>4, <1>7 DEF WriteInv, WriteOk, Locked
<1>. QED BY <1>5, <1>6, <1>8, <1>9

LEMMA RequestStep == ASSUME IInv, EvidenceRequest PROVE IInv'
<1>1. PICK t \in Tenants :
        \/ \E h \in Hashes, ret \in Retentions :
             Arrives("register", t, [hash |-> h, until |-> ret.until, hold |-> ret.hold])
        \/ \E id \in DOMAIN rows :
             \/ \E p \in RetentionPatches : Arrives("patch", t, [id |-> id, patch |-> p])
             \/ Arrives("delete", t, [id |-> id])
  BY DEF EvidenceRequest
<1>2. ASSUME NEW h \in Hashes, NEW ret \in Retentions,
             Arrives("register", t, [hash |-> h, until |-> ret.until, hold |-> ret.hold])
      PROVE  IInv'
  <2>1. PICK arg : arg = [hash |-> h, until |-> ret.until, hold |-> ret.hold] OBVIOUS
  <2>2. arg \in [hash : Hashes, until : Untils, hold : BOOLEAN]
    BY <2>1, EvidenceAssumption
  <2>3. \A c : c.op = "register" /\ c.arg = arg /\ c.pc = "read" => ArgOk(c)
    BY <2>2 DEF ArgOk
  <2>. QED BY <1>2, <2>1, <2>2, <2>3, ArrivesStep DEF Args
<1>3. \A id \in DOMAIN rows : id \in Nat
  BY DEF IInv, Typed
<1>4. ASSUME NEW id \in DOMAIN rows, NEW p \in RetentionPatches, Arrives("patch", t, [id |-> id, patch |-> p])
      PROVE  IInv'
  <2>1. PICK arg : arg = [id |-> id, patch |-> p] OBVIOUS
  <2>2. arg \in [id : Nat, patch : RetentionPatches] /\ arg.id \in DOMAIN rows
    BY <1>3, <2>1
  <2>3. \A c : c.op = "patch" /\ c.arg = arg /\ c.pc = "read" => ArgOk(c)
    BY <2>2 DEF ArgOk
  <2>. QED BY <1>4, <2>1, <2>2, <2>3, ArrivesStep DEF Args
<1>5. ASSUME NEW id \in DOMAIN rows, Arrives("delete", t, [id |-> id])
      PROVE  IInv'
  <2>1. PICK arg : arg = [id |-> id] OBVIOUS
  <2>2. arg \in [id : Nat] /\ arg.id \in DOMAIN rows
    BY <1>3, <2>1
  <2>3. \A c : c.op = "delete" /\ c.arg = arg /\ c.pc = "read" => ArgOk(c)
    BY <2>2 DEF ArgOk
  <2>. QED BY <1>5, <2>1, <2>2, <2>3, ArrivesStep DEF Args
<1>. QED BY <1>1, <1>2, <1>4, <1>5

-----------------------------------------------------------------------------
LEMMA IInvInit == EvidenceInit => IInv
BY EvidenceAssumption DEF EvidenceInit, IInv, Typed, NeverBelowCommitment, PutInv, WriteInv

\* Against retention goes only a copy written over a row changed since the read.
BreachExcused ==
  \A id \in DOMAIN rows : Breaches(id) => backend = "postgres" /\ ChangedSinceRead(id)

LEMMA IInvStep ==
  ASSUME Zone = "utc", IInv, [EvidenceNext]_evidenceVars
  PROVE  IInv' /\ BreachExcused
<1>. USE DEF BreachExcused
<1>0. rows' = rows => BreachExcused BY NoBreach DEF IInv
<1>1. CASE NewDay BY <1>0, <1>1, NewDayStep DEF NewDay
<1>2. CASE EvidenceRequest
  BY <1>0, <1>2, RequestStep DEF EvidenceRequest, Arrives
<1>3. ASSUME NEW q, LookupContent(q) PROVE IInv' /\ BreachExcused
  BY <1>0, <1>3, LookupContentStep DEF LookupContent
<1>4. ASSUME NEW q, AppendEvidence(q) PROVE IInv' /\ BreachExcused
  BY <1>0, <1>4, AppendEvidenceStep DEF AppendEvidence
<1>5. ASSUME NEW q, PutEvidence(q) PROVE IInv' /\ BreachExcused
  BY <1>5, PutEvidenceStep
<1>6. ASSUME NEW q, ReadForUpdate(q) PROVE IInv' /\ BreachExcused
  BY <1>6, ReadForUpdateStep
<1>7. ASSUME NEW q, ReadForDelete(q) PROVE IInv' /\ BreachExcused
  BY <1>7, ReadForDeleteStep
<1>8. ASSUME NEW q, AppendAttempt(q) PROVE IInv' /\ BreachExcused
  BY <1>0, <1>8, AppendAttemptStep DEF AppendAttempt
<1>9. ASSUME NEW q, WriteBack(q) PROVE IInv' /\ BreachExcused
  BY <1>9, WriteBackStep
<1>10. CASE UNCHANGED evidenceVars
  BY <1>0, <1>10 DEF evidenceVars, IInv, Typed, ArgOk, NeverBelowCommitment, PutInv, PutOk,
                     WriteInv, WriteOk, Locked
<1>. QED
  BY <1>1, <1>2, <1>3, <1>4, <1>5, <1>6, <1>7, <1>8, <1>9, <1>10 DEF EvidenceNext

\* CommitmentKept: where a DATE is read as it was written, a row's retention never
\* ends before what its registration leaf in the transparency log says, whatever
\* requests overlap (updateRetention only extends what it read).
THEOREM CommitmentKept == Zone = "utc" => (EvidenceSpec => []NeverBelowCommitment)
<1> SUFFICES ASSUME Zone = "utc" PROVE EvidenceSpec => []NeverBelowCommitment
  OBVIOUS
<1>1. IInv => NeverBelowCommitment BY DEF IInv
<1>2. IInv /\ [EvidenceNext]_evidenceVars => IInv' BY IInvStep
<1>. QED BY <1>1, <1>2, IInvInit, PTL DEF EvidenceSpec

\* OnlyStaleWritesBreach: no step of the memory store, and none of Postgres over
\* a row unchanged since it was read, shortens a retention, undoes a deletion or
\* deletes what retention or a hold keeps.
THEOREM OnlyStaleWritesBreach == Zone = "utc" => (EvidenceSpec => BreachedByStaleWriteOnly)
<1> SUFFICES ASSUME Zone = "utc" PROVE EvidenceSpec => BreachedByStaleWriteOnly
  OBVIOUS
<1>1. IInv /\ [EvidenceNext]_evidenceVars => [BreachExcused]_evidenceVars
  BY IInvStep
<1>2. IInv /\ [EvidenceNext]_evidenceVars => IInv' BY IInvStep
<1>3. EvidenceSpec => [][BreachExcused]_evidenceVars
  BY <1>1, <1>2, IInvInit, PTL DEF EvidenceSpec
<1>. QED BY <1>3 DEF BreachedByStaleWriteOnly, BreachExcused

-----------------------------------------------------------------------------
(***************************************************************************)
(* LedgerHeads: what the inductive invariants are made of.                 *)
(***************************************************************************)

HeadsOf == Submissions \cup Elements(TreeHead)
Sths ==
  [log : {head.log : head \in HeadsOf}, size : {head.size : head \in HeadsOf},
   root : {head.root : head \in HeadsOf}, id : Nat, contract : BOOLEAN, by : Nat]
Anchors == {[size |-> head.size, root |-> head.root] : head \in HeadsOf}
TxSet == [head : HeadsOf, state : {"pooled", "mined", "reverted"}, id : Nat]
TreeItems == {Anchoring(head) : head \in HeadsOf}
BundleItems == TreeItems \cup {[do |-> "latest", log |-> log] : log \in DOMAIN TreeHead}
Items == BundleItems \cup {[do |-> "put", head |-> head] : head \in HeadsOf}
HeadCallSet ==
  [op : {"submit", "bundle"}, asked : Seq(Items), work : Seq(Items), attempt : Nat, tx : Nat,
   got : Seq(Sths), answer : {"none", "ok", "unavailable", "failed", "lost", "resent"},
   earlier : SUBSET Nat, erased : Nat]

\* A checkpoint is stored by a request that has anchored it.
Anchored(work, got) ==
  \A k \in DOMAIN work :
    work[k].do = "put" => got # <<>> \/ (k > 1 /\ work[k - 1].do = "anchor")

\* A mined transaction is the anchor of its id; a request waits for one of its own head.
Mined(t) ==
  headTxs[t].state = "mined" =>
    /\ headTxs[t].id \in DOMAIN chainHeads
    /\ chainHeads[headTxs[t].id] = [size |-> headTxs[t].head.size, root |-> headTxs[t].head.root]
Waits(c) ==
  c.tx # 0 =>
    /\ c.tx \in DOMAIN headTxs /\ c.work # <<>> /\ Head(c.work).do = "anchor"
    /\ headTxs[c.tx].head = Head(c.work).head
Holds(sth) == (sth.id # 0 => Stands(sth)) /\ (sth.contract => sth.id # 0)

ChainInv ==
  /\ headStore \in {"memory", "postgres"} /\ anchoring \in BOOLEAN
  /\ erased \in Nat /\ headFaults \in Nat
  /\ chainHeads \in Seq(Anchors)
  /\ headTxs \in Seq(TxSet)
  /\ \A t \in DOMAIN headTxs : Mined(t)
CallInv(c) ==
  /\ c \in HeadCallSet /\ Anchored(c.work, c.got) /\ Anchored(c.asked, <<>>)
  /\ Waits(c) /\ \A k \in DOMAIN c.got : Holds(c.got[k])
CallsInv ==
  headCalls \in Seq(HeadCallSet) /\ \A r \in DOMAIN headCalls : CallInv(headCalls[r])
RowsInv == checkpoints \in Seq(Sths) /\ \A i \in DOMAIN checkpoints : Holds(checkpoints[i])
HeadsInv == ChainInv /\ CallsInv /\ RowsInv

\* The constants have their types.
LEMMA HeadTypes ==
  /\ \A head \in HeadsOf : head.size \in Nat
  /\ \A log \in DOMAIN TreeHead : TreeHead[log] \in HeadsOf
  /\ AttestedIn \in Seq(DOMAIN TreeHead) /\ EvidencedIn \in Seq(DOMAIN TreeHead)
  /\ AttestedLogs \in Seq(DOMAIN TreeHead)
BY HeadsAssumption DEF HeadsOf, Elements

\* What a bundle is to anchor and to read, and what a submission is to do.
LEMMA TreeWorkType ==
  ASSUME NEW logs \in Seq(DOMAIN TreeHead)
  PROVE  TreeWork(logs) \in Seq(BundleItems)
<1>1. \A i \in 1 .. Len(logs) : Anchoring(TreeHead[logs[i]]) \in BundleItems
  BY HeadTypes DEF BundleItems, TreeItems
<1>2. DOMAIN logs = 1 .. Len(logs) /\ Len(logs) \in Nat OBVIOUS
<1>. QED BY <1>1, <1>2 DEF TreeWork

\* What a request has left to store and to read.
OnePut(work) == \A k, l \in DOMAIN work : work[k].do = "put" /\ work[l].do = "put" => k = l
Pending(work, log) == \E k \in DOMAIN work : work[k].do = "latest" /\ work[k].log = log

LEMMA BundleWorkType ==
  /\ BundleWork \in Seq(Items) /\ Anchored(BundleWork, <<>>) /\ OnePut(BundleWork)
  /\ \A log \in Elements(AttestedLogs) : Pending(BundleWork, log)
<1>. DEFINE Latest == [i \in DOMAIN AttestedLogs |-> [do |-> "latest", log |-> AttestedLogs[i]]]
<1>1. TreeWork(AttestedIn) \in Seq(BundleItems) /\ TreeWork(EvidencedIn) \in Seq(BundleItems)
  BY HeadTypes, TreeWorkType
<1>2. Latest \in Seq(BundleItems)
  <2>1. DOMAIN AttestedLogs = 1 .. Len(AttestedLogs) /\ Len(AttestedLogs) \in Nat BY HeadTypes
  <2>2. \A i \in DOMAIN AttestedLogs : Latest[i] \in BundleItems
    BY HeadTypes DEF BundleItems
  <2>. QED BY <2>1, <2>2
<1>3. BundleWork \in Seq(BundleItems)
  <2>. HIDE DEF Latest
  <2>1. TreeWork(AttestedIn) \o Latest \in Seq(BundleItems) BY <1>1, <1>2
  <2>2. BundleWork = TreeWork(AttestedIn) \o Latest \o TreeWork(EvidencedIn)
    BY DEF BundleWork, Latest
  <2>. QED BY <1>1, <2>1, <2>2
<1>4. \A item \in BundleItems : item.do # "put" BY DEF BundleItems, TreeItems, Anchoring
<1>5. \A k \in DOMAIN BundleWork : BundleWork[k] \in BundleItems BY <1>3
<1>6. BundleWork \in Seq(Items) BY <1>3 DEF Items
<1>7. ASSUME NEW log \in Elements(AttestedLogs) PROVE Pending(BundleWork, log)
  <2>1. PICK i \in DOMAIN AttestedLogs : AttestedLogs[i] = log BY DEF Elements
  <2>2. PICK before, rest : before = TreeWork(AttestedIn) /\ rest = TreeWork(EvidencedIn) OBVIOUS
  <2>3. DOMAIN Latest = DOMAIN AttestedLogs /\ Latest[i] = [do |-> "latest", log |-> log] BY <2>1
  <2>4. BundleWork = before \o Latest \o rest BY <2>2 DEF BundleWork
  <2>. HIDE DEF Latest
  <2>5. i \in DOMAIN Latest /\ before \in Seq(BundleItems) /\ rest \in Seq(BundleItems)
    BY <1>1, <2>2, <2>3
  <2>6. Len(before) + i \in DOMAIN BundleWork /\ BundleWork[Len(before) + i] = Latest[i]
    BY <1>2, <2>4, <2>5
  <2>. QED BY <2>3, <2>6 DEF Pending
<1>. QED BY <1>4, <1>5, <1>6, <1>7 DEF Anchored, OnePut

LEMMA SubmitWorkType ==
  ASSUME NEW body \in Submissions
  PROVE  /\ SubmitWork(body) \in Seq(Items) /\ Anchored(SubmitWork(body), <<>>)
         /\ OnePut(SubmitWork(body))
<1>1. Anchoring(body) \in Items /\ [do |-> "put", head |-> body] \in Items
  BY DEF Items, BundleItems, TreeItems, HeadsOf
<1>2. SubmitWork(body) \in Seq(Items) BY <1>1 DEF SubmitWork
<1>3. Anchored(SubmitWork(body), <<>>) BY DEF SubmitWork, Anchored, Anchoring
<1>4. OnePut(SubmitWork(body)) BY DEF SubmitWork, OnePut, Anchoring
<1>. QED BY <1>2, <1>3, <1>4

-----------------------------------------------------------------------------
\* The registry and what was sent to it only grow.
Grows ==
  /\ \A i \in DOMAIN chainHeads : i \in DOMAIN chainHeads' /\ chainHeads'[i] = chainHeads[i]
  /\ \A t \in DOMAIN headTxs : t \in DOMAIN headTxs' /\ headTxs'[t].head = headTxs[t].head

\* What holds of a request or of a head goes on holding.
LEMMA CallStays ==
  ASSUME Grows, NEW c
  PROVE  (CallInv(c) => CallInv(c)') /\ (Holds(c) => Holds(c)')
<1>1. ASSUME NEW sth, Holds(sth) PROVE Holds(sth)' BY <1>1 DEF Grows, Holds, Stands
<1>2. Waits(c) => Waits(c)' BY DEF Grows, Waits
<1>3. ASSUME CallInv(c) PROVE CallInv(c)'
  <2>1. c \in HeadCallSet /\ Anchored(c.work, c.got) /\ Anchored(c.asked, <<>>)
    BY <1>3 DEF CallInv
  <2>2. Waits(c)' BY <1>2, <1>3 DEF CallInv
  <2>3. \A k \in DOMAIN c.got : Holds(c.got[k])' BY <1>1, <1>3 DEF CallInv
  <2>4. (/\ c \in HeadCallSet /\ Anchored(c.work, c.got) /\ Anchored(c.asked, <<>>))'
    BY <2>1
  <2>. QED BY <2>2, <2>3, <2>4 DEF CallInv
<1>. QED BY <1>1, <1>3

LEMMA RowsStay ==
  ASSUME Grows, RowsInv, UNCHANGED checkpoints
  PROVE  RowsInv'
<1>1. ASSUME NEW i \in DOMAIN checkpoints PROVE Holds(checkpoints[i])'
  <2>1. PICK sth : sth = checkpoints[i] OBVIOUS
  <2>2. Holds(sth)' BY <2>1, CallStays DEF RowsInv
  <2>. QED BY <2>1, <2>2 DEF Holds, Stands
<1>. QED BY <1>1 DEF RowsInv

\* Request r becomes c; the others stay.
Becomes(r, c) == headCalls' = [headCalls EXCEPT ![r] = c]

\* A step of one request, and one that comes after others.
LEMMA CallBecomes ==
  ASSUME CallsInv, Grows, NEW r \in DOMAIN headCalls, NEW c, CallInv(c)', Becomes(r, c)
  PROVE  CallsInv'
<1>1. c \in HeadCallSet BY DEF CallInv
<1>2. headCalls' \in Seq(HeadCallSet) /\ DOMAIN headCalls' = DOMAIN headCalls
  BY <1>1 DEF CallsInv, Becomes
<1>3. ASSUME NEW q \in DOMAIN headCalls PROVE CallInv(headCalls[q])'
  <2>1. PICK d : d = headCalls'[q] OBVIOUS
  <2>2. d = IF q = r THEN c ELSE headCalls[q] BY <2>1 DEF CallsInv, Becomes
  <2>3. CASE q = r
    BY <2>1, <2>2, <2>3 DEF CallInv, Waits, Holds, Stands
  <2>4. CASE q # r
    <3>1. CallInv(d) BY <2>2, <2>4 DEF CallsInv
    <3>2. CallInv(d)' BY <3>1, CallStays
    <3>. QED BY <2>1, <3>2 DEF CallInv, Waits, Holds, Stands
  <2>. QED BY <2>3, <2>4
<1>. QED BY <1>2, <1>3 DEF CallsInv

LEMMA CallComes ==
  ASSUME Grows, NEW s \in Seq(HeadCallSet), \A q \in DOMAIN s : CallInv(s[q]),
         NEW c, CallInv(c)', headCalls' = Append(s, c)
  PROVE  CallsInv'
<1>1. c \in HeadCallSet BY DEF CallInv
<1>2. headCalls' \in Seq(HeadCallSet) BY <1>1
<1>3. ASSUME NEW q \in DOMAIN headCalls' PROVE CallInv(headCalls[q])'
  <2>1. PICK d : d = headCalls'[q] OBVIOUS
  <2>2. CASE q \in DOMAIN s
    <3>1. CallInv(d) BY <2>1, <2>2
    <3>2. CallInv(d)' BY <3>1, CallStays
    <3>. QED BY <2>1, <3>2 DEF CallInv, Waits, Holds, Stands
  <2>3. CASE q \notin DOMAIN s
    <3>1. d = c BY <2>1, <2>3
    <3>2. CallInv(d)' BY <3>1
    <3>. QED BY <2>1, <3>2 DEF CallInv, Waits, Holds, Stands
  <2>. QED BY <2>2, <2>3
<1>. QED BY <1>2, <1>3 DEF CallsInv

LEMMA SameChain ==
  ASSUME UNCHANGED <<chainHeads, headTxs>>
  PROVE  Grows
BY DEF Grows

\* EndHead and GoOn leave requests as they should be.
LEMMA Ends ==
  ASSUME CallsInv, Grows, NEW r \in DOMAIN headCalls,
         NEW answer \in {"ok", "unavailable", "failed", "lost"}, EndHead(r, answer)
  PROVE  CallsInv'
<1>1. PICK c : c = [headCalls[r] EXCEPT !.work = <<>>, !.tx = 0, !.answer = answer] OBVIOUS
<1>2. headCalls \in Seq(HeadCallSet) /\ CallInv(headCalls[r]) BY DEF CallsInv
<1>3. headCalls[r] \in HeadCallSet BY <1>2
<1>4. Becomes(r, c) BY <1>1, <1>2, <1>3 DEF EndHead, Becomes, HeadCallSet
<1>5. c \in HeadCallSet /\ c.work = <<>> /\ c.tx = 0 /\ c.got = headCalls[r].got
      /\ c.asked = headCalls[r].asked
  <2>1. <<>> \in Seq(Items) OBVIOUS
  <2>. QED BY <1>1, <1>3, <2>1 DEF HeadCallSet
<1>6. CallInv(c) BY <1>2, <1>5 DEF CallInv, Anchored, Waits
<1>. QED BY <1>4, <1>6, CallStays, CallBecomes

LEMMA GoesOn ==
  ASSUME CallsInv, Grows, NEW r, NEW do, IsDue(r, do), NEW sths \in Seq(Sths), GoOn(r, sths),
         \A k \in DOMAIN sths : Holds(sths[k])', do = "anchor" => sths # <<>>
  PROVE  CallsInv'
<1>1. PICK c : c = [headCalls[r] EXCEPT !.work = Tail(@), !.tx = 0, !.got = @ \o sths] OBVIOUS
<1>2. PICK work, got : work = headCalls[r].work /\ got = headCalls[r].got OBVIOUS
<1>3. headCalls \in Seq(HeadCallSet) /\ r \in DOMAIN headCalls /\ CallInv(headCalls[r])
      /\ headCalls[r].work # <<>> /\ Head(headCalls[r].work).do = do
  BY DEF CallsInv, IsDue
<1>4. headCalls[r] \in HeadCallSet BY <1>3
<1>5. Becomes(r, c) BY <1>1, <1>3, <1>4 DEF GoOn, Becomes, HeadCallSet
<1>6. work \in Seq(Items) /\ got \in Seq(Sths) BY <1>2, <1>4 DEF HeadCallSet
<1>7. Anchored(work, got) /\ work # <<>> /\ work[1].do = do
  BY <1>2, <1>3, <1>6 DEF CallInv
<1>8. Tail(work) \in Seq(Items) /\ got \o sths \in Seq(Sths) BY <1>6, <1>7
<1>9. c \in HeadCallSet /\ c.work = Tail(work) /\ c.tx = 0 /\ c.got = got \o sths
      /\ c.asked = headCalls[r].asked
  BY <1>1, <1>2, <1>4, <1>8 DEF HeadCallSet
<1>10. Anchored(c.asked, <<>>) BY <1>3, <1>9 DEF CallInv
<1>11. Anchored(Tail(work), got \o sths)
  <2>1. SUFFICES ASSUME NEW k \in DOMAIN Tail(work), Tail(work)[k].do = "put", got \o sths = <<>>
                 PROVE  k > 1 /\ Tail(work)[k - 1].do = "anchor"
    BY DEF Anchored
  <2>2. got = <<>> /\ sths = <<>> BY <1>6, <2>1
  <2>3. k \in 1 .. Len(work) - 1 /\ Tail(work)[k] = work[k + 1] BY <1>6, <1>7, <2>1
  <2>4. k + 1 \in DOMAIN work /\ (k + 1) - 1 = k BY <1>6, <2>3
  <2>5. work[k].do = "anchor" BY <1>7, <2>1, <2>2, <2>3, <2>4 DEF Anchored
  <2>6. k # 1 BY <1>7, <2>2, <2>5
  <2>7. Tail(work)[k - 1] = work[k] BY <1>6, <1>7, <2>3, <2>6
  <2>. QED BY <2>3, <2>5, <2>6, <2>7
<1>12. ASSUME NEW k \in DOMAIN (got \o sths) PROVE Holds((got \o sths)[k])'
  <2>1. PICK d : d = (got \o sths)[k] OBVIOUS
  <2>2. CASE k \in DOMAIN got
    <3>1. d = got[k] BY <1>6, <2>1, <2>2
    <3>2. Holds(d) BY <1>2, <1>3, <2>2, <3>1 DEF CallInv
    <3>. QED BY <2>1, <3>2, CallStays
  <2>3. CASE k \notin DOMAIN got
    <3>1. k - Len(got) \in DOMAIN sths /\ d = sths[k - Len(got)] BY <1>6, <2>1, <2>3
    <3>2. Holds(d)' BY <3>1
    <3>. QED BY <2>1, <3>2
  <2>. QED BY <2>2, <2>3
<1>13. Waits(c)' BY <1>9 DEF Waits
<1>14. \A k \in DOMAIN c.got : Holds(c.got[k])' BY <1>9, <1>12
<1>15. Anchored(c.work, c.got) BY <1>9, <1>11
<1>16. CallInv(c)'
  BY <1>9, <1>10, <1>13, <1>14, <1>15 DEF CallInv
<1>. QED BY <1>3, <1>5, <1>16, CallBecomes

\* Each request and each step of one leaves the heads it has as the registry has them.
LEMMA NewCall ==
  ASSUME NEW op \in {"submit", "bundle"}, NEW work \in Seq(Items), Anchored(work, <<>>),
         NEW attempt \in Nat, ChainInv, CallsInv
  PROVE  CallInv(NewHeadCall(op, work, attempt))
<1>1. AckedCheckpoints \in SUBSET Nat BY DEF AckedCheckpoints, CallsInv
<1>2. <<>> \in Seq(Sths) OBVIOUS
<1>3. NewHeadCall(op, work, attempt) \in HeadCallSet
  BY <1>1, <1>2 DEF NewHeadCall, HeadCallSet, ChainInv
<1>. QED BY <1>3 DEF NewHeadCall, CallInv, Waits

LEMMA HeadRequestStep ==
  ASSUME ChainInv, CallsInv, RowsInv, HeadRequest
  PROVE  CallsInv'
<1>1. Grows BY SameChain DEF HeadRequest
<1>2. PICK c : headCalls' = Append(headCalls, c) /\ CallInv(c)
  <2>1. CASE \E body \in Submissions :
               headCalls' = Append(headCalls, NewHeadCall("submit", SubmitWork(body), 0))
    BY <2>1, SubmitWorkType, NewCall
  <2>2. CASE headCalls' = Append(headCalls, NewHeadCall("bundle", BundleWork, 0))
    BY <2>2, BundleWorkType, NewCall
  <2>. QED BY <2>1, <2>2 DEF HeadRequest
<1>3. CallInv(c)' BY <1>1, <1>2, CallStays
<1>. QED BY <1>1, <1>2, <1>3, CallComes DEF CallsInv

LEMMA ResendHeadStep ==
  ASSUME ChainInv, CallsInv, RowsInv, NEW r, ResendHead(r)
  PROVE  CallsInv'
<1>1. Grows BY SameChain DEF ResendHead
<1>2. r \in DOMAIN headCalls /\ CallInv(headCalls[r]) /\ headCalls \in Seq(HeadCallSet)
  BY DEF ResendHead, CallsInv
<1>3. PICK old : old = [headCalls[r] EXCEPT !.answer = "resent"] OBVIOUS
<1>4. headCalls[r] \in HeadCallSet BY <1>2
<1>5. old \in HeadCallSet /\ CallInv(old)
  <2>1. old \in HeadCallSet BY <1>3, <1>4 DEF HeadCallSet
  <2>2. old.work = headCalls[r].work /\ old.asked = headCalls[r].asked
        /\ old.tx = headCalls[r].tx /\ old.got = headCalls[r].got
    BY <1>3, <1>4 DEF HeadCallSet
  <2>. QED BY <1>2, <2>1, <2>2 DEF CallInv, Waits
<1>6. PICK s : s = [headCalls EXCEPT ![r] = old] OBVIOUS
<1>7. s \in Seq(HeadCallSet) /\ \A q \in DOMAIN s : CallInv(s[q])
  <2>1. s \in Seq(HeadCallSet) /\ DOMAIN s = DOMAIN headCalls BY <1>2, <1>5, <1>6
  <2>2. ASSUME NEW q \in DOMAIN s PROVE CallInv(s[q])
    <3>1. s[q] = IF q = r THEN old ELSE headCalls[q] BY <1>2, <1>6, <2>1, <2>2
    <3>. QED BY <1>5, <2>1, <2>2, <3>1 DEF CallsInv
  <2>. QED BY <2>1, <2>2
<1>8. PICK c : c = NewHeadCall(headCalls[r].op, headCalls[r].asked, headCalls[r].attempt + 1) OBVIOUS
<1>9. CallInv(c)
  <2>1. headCalls[r].op \in {"submit", "bundle"} /\ headCalls[r].asked \in Seq(Items)
        /\ headCalls[r].attempt + 1 \in Nat
    BY <1>4 DEF HeadCallSet
  <2>2. Anchored(headCalls[r].asked, <<>>) BY <1>2 DEF CallInv
  <2>. QED BY <1>8, <2>1, <2>2, NewCall
<1>10. headCalls' = Append(s, c)
  <2>1. [headCalls EXCEPT ![r].answer = "resent"] = [headCalls EXCEPT ![r] = old]
    BY <1>2, <1>3, <1>4 DEF HeadCallSet
  <2>. QED BY <1>6, <1>8, <2>1 DEF ResendHead
<1>11. CallInv(c)' BY <1>1, <1>9, CallStays
<1>. QED BY <1>1, <1>7, <1>10, <1>11, CallComes

LEMMA SthType ==
  ASSUME NEW head \in HeadsOf, NEW id \in Nat, NEW contract \in BOOLEAN, NEW by \in Nat
  PROVE  Sth(head, id, contract, by) \in Sths
BY DEF Sths, Sth

\* The request whose turn it is, and its item.
LEMMA DueCall ==
  ASSUME CallsInv, NEW r, NEW do, IsDue(r, do)
  PROVE  /\ r \in DOMAIN headCalls /\ headCalls[r] \in HeadCallSet /\ CallInv(headCalls[r])
         /\ headCalls[r].work # <<>> /\ Due(r) \in Items /\ Due(r).do = do
         /\ do \in {"anchor", "put"} => Due(r).head \in HeadsOf
<1>1. /\ r \in DOMAIN headCalls /\ headCalls[r] \in HeadCallSet /\ CallInv(headCalls[r])
      /\ headCalls[r].work # <<>> /\ Due(r).do = do
  BY DEF IsDue, CallsInv, Due
<1>2. headCalls[r].work \in Seq(Items) BY <1>1 DEF HeadCallSet
<1>3. Due(r) \in Items BY <1>1, <1>2 DEF Due
<1>4. do \in {"anchor", "put"} => Due(r).head \in HeadsOf
  BY <1>1, <1>3 DEF Items, BundleItems, TreeItems, Anchoring
<1>. QED BY <1>1, <1>3, <1>4

LEMMA FaultCount ==
  ASSUME headFaults \in Nat, HeadFault \/ UNCHANGED headFaults
  PROVE  headFaults' \in Nat
BY DEF HeadFault

\* What stays when only the calls and the faults change.
LEMMA ChainStays ==
  ASSUME ChainInv, RowsInv, HeadFault \/ UNCHANGED headFaults,
         UNCHANGED <<headStore, anchoring, chainHeads, headTxs, checkpoints, erased>>
  PROVE  Grows /\ ChainInv' /\ RowsInv'
<1>1. Grows BY SameChain
<1>2. RowsInv' BY <1>1, RowsStay
<1>3. ChainInv' BY FaultCount DEF ChainInv, Mined
<1>. QED BY <1>1, <1>2, <1>3

\* GoOn with one head, and with none.
LEMMA GoesOnWith ==
  ASSUME CallsInv, Grows, NEW r, NEW do, IsDue(r, do), NEW sth \in Sths, Holds(sth)', GoOn(r, <<sth>>)
  PROVE  CallsInv'
<1>1. PICK sths : sths = <<sth>> OBVIOUS
<1>2. sths \in Seq(Sths) /\ sths # <<>> /\ DOMAIN sths = {1} /\ sths[1] = sth BY <1>1
<1>3. ASSUME NEW k \in DOMAIN sths PROVE Holds(sths[k])'
  <2>1. sths[k] = sth BY <1>2
  <2>. QED BY <2>1
<1>. QED BY <1>1, <1>2, <1>3, GoesOn

LEMMA GoesOnOnly ==
  ASSUME CallsInv, Grows, NEW r, NEW do, IsDue(r, do), do # "anchor", GoOn(r, <<>>)
  PROVE  CallsInv'
<1>1. PICK none : none = <<>> OBVIOUS
<1>2. none \in Seq(Sths) /\ DOMAIN none = {} BY <1>1
<1>3. GoOn(r, none) BY <1>1
<1>. QED BY <1>2, <1>3, GoesOn

\* anchorSTH: the transaction is of the head that is due.
LEMMA SubmitHeadStep ==
  ASSUME HeadsInv, NEW r, SubmitHead(r)
  PROVE  HeadsInv'
<1>. USE DEF HeadsInv
<1>1. PICK head : head = Due(r).head OBVIOUS
<1>2. IsDue(r, "anchor") /\ r \in DOMAIN headCalls /\ head \in HeadsOf
  BY <1>1, DueCall DEF SubmitHead
<1>3. CASE GoOn(r, <<Sth(head, 0, FALSE, 0)>>) /\ UNCHANGED <<headTxs, headFaults>>
  <2>1. Grows /\ ChainInv' /\ RowsInv' BY <1>3, ChainStays DEF SubmitHead
  <2>2. PICK sth : sth = Sth(head, 0, FALSE, 0) OBVIOUS
  <2>3. sth \in Sths BY <1>2, <2>2, SthType
  <2>4. Holds(sth)' BY <2>2 DEF Holds, Sth
  <2>5. CallsInv' BY <1>2, <1>3, <2>1, <2>2, <2>3, <2>4, GoesOnWith
  <2>. QED BY <2>1, <2>5
<1>4. CASE /\ HeadFault \/ UNCHANGED headFaults
           /\ EndHead(r, "unavailable") /\ UNCHANGED headTxs
  <2>1. Grows /\ ChainInv' /\ RowsInv' BY <1>4, ChainStays DEF SubmitHead
  <2>. QED BY <1>2, <1>4, <2>1, Ends
<1>5. CASE /\ headTxs' = Append(headTxs, [head |-> head, state |-> "pooled", id |-> 0])
           /\ \/ HeadFault /\ EndHead(r, "unavailable")
              \/ /\ headCalls' = [headCalls EXCEPT ![r].tx = Len(headTxs) + 1]
                 /\ UNCHANGED headFaults
  <2>1. headFaults' \in Nat BY <1>5, FaultCount DEF ChainInv
  <2>2. headTxs' \in Seq(TxSet)
        /\ DOMAIN headTxs' = DOMAIN headTxs \cup {Len(headTxs) + 1}
        /\ headTxs'[Len(headTxs) + 1] = [head |-> head, state |-> "pooled", id |-> 0]
        /\ \A t \in DOMAIN headTxs : headTxs'[t] = headTxs[t]
    <3>1. [head |-> head, state |-> "pooled", id |-> 0] \in TxSet BY <1>2 DEF TxSet
    <3>. QED BY <1>5, <3>1 DEF ChainInv
  <2>3. UNCHANGED <<headStore, anchoring, chainHeads, checkpoints, erased>> BY DEF SubmitHead
  <2>4. Grows BY <2>2, <2>3 DEF Grows
  <2>5. ChainInv'
    <3>1. ASSUME NEW t \in DOMAIN headTxs' PROVE Mined(t)'
      BY <2>2, <2>3 DEF ChainInv, Mined
    <3>. QED BY <2>1, <2>2, <2>3, <3>1 DEF ChainInv
  <2>6. RowsInv' BY <2>3, <2>4, RowsStay
  <2>7. CallsInv'
    <3>1. CASE EndHead(r, "unavailable") BY <1>2, <2>4, <3>1, Ends
    <3>2. CASE headCalls' = [headCalls EXCEPT ![r].tx = Len(headTxs) + 1]
      <4>1. PICK c : c = [headCalls[r] EXCEPT !.tx = Len(headTxs) + 1] OBVIOUS
      <4>2. headCalls[r] \in HeadCallSet /\ CallInv(headCalls[r]) /\ headCalls[r].work # <<>>
            /\ Due(r).do = "anchor"
        BY <1>2, DueCall
      <4>3. Len(headTxs) + 1 \in Nat BY DEF ChainInv
      <4>4. c \in HeadCallSet /\ c.work = headCalls[r].work /\ c.got = headCalls[r].got
            /\ c.asked = headCalls[r].asked /\ c.tx = Len(headTxs) + 1
        BY <4>1, <4>2, <4>3 DEF HeadCallSet
      <4>5. Becomes(r, c) BY <1>2, <3>2, <4>1, <4>2 DEF Becomes, CallsInv, HeadCallSet
      <4>6. Waits(c)' BY <1>1, <2>2, <4>2, <4>4 DEF Waits, Due
      <4>7. \A k \in DOMAIN c.got : Holds(c.got[k])'
        BY <2>4, <4>2, <4>4, CallStays DEF CallInv
      <4>8. Anchored(c.work, c.got) /\ Anchored(c.asked, <<>>) BY <4>2, <4>4 DEF CallInv
      <4>9. CallInv(c)' BY <4>4, <4>6, <4>7, <4>8 DEF CallInv
      <4>. QED BY <1>2, <2>4, <4>5, <4>9, CallBecomes
    <3>. QED BY <1>5, <3>1, <3>2
  <2>. QED BY <2>5, <2>6, <2>7
<1>. QED BY <1>1, <1>3, <1>4, <1>5 DEF SubmitHead

\* recordAnchor puts the head of the transaction under the next id.
LEMMA MineHeadStep ==
  ASSUME HeadsInv, NEW t, MineHead(t)
  PROVE  HeadsInv'
<1>. USE DEF HeadsInv
<1>1. t \in DOMAIN headTxs /\ headTxs[t].state = "pooled"
      /\ UNCHANGED <<headStore, anchoring, checkpoints, erased, headCalls>>
  BY DEF MineHead
<1>2. headFaults' \in Nat BY FaultCount DEF MineHead, ChainInv
<1>3. headTxs \in Seq(TxSet) /\ headTxs[t] \in TxSet /\ headTxs[t].head \in HeadsOf
  <2>1. headTxs \in Seq(TxSet) /\ headTxs[t] \in TxSet BY <1>1 DEF ChainInv
  <2>. QED BY <2>1 DEF TxSet
<1>4. PICK anchor : anchor = [size |-> headTxs[t].head.size, root |-> headTxs[t].head.root] OBVIOUS
<1>5. anchor \in Anchors BY <1>3, <1>4 DEF Anchors
<1>6. Grows /\ ChainInv'
  <2>1. CASE /\ chainHeads' = Append(chainHeads, anchor)
             /\ headTxs' = [headTxs EXCEPT ![t].state = "mined", ![t].id = Len(chainHeads) + 1]
    <3>1. chainHeads' \in Seq(Anchors) /\ Len(chainHeads) + 1 \in DOMAIN chainHeads'
          /\ chainHeads'[Len(chainHeads) + 1] = anchor /\ Len(chainHeads) + 1 \in Nat
          /\ \A i \in DOMAIN chainHeads : i \in DOMAIN chainHeads' /\ chainHeads'[i] = chainHeads[i]
      BY <1>5, <2>1 DEF ChainInv
    <3>2. headTxs' \in Seq(TxSet)
          /\ DOMAIN headTxs' = DOMAIN headTxs
          /\ headTxs'[t].head = headTxs[t].head /\ headTxs'[t].id = Len(chainHeads) + 1
          /\ \A u \in DOMAIN headTxs : u # t => headTxs'[u] = headTxs[u]
      <4>1. PICK tx : tx = [headTxs[t] EXCEPT !.state = "mined", !.id = Len(chainHeads) + 1] OBVIOUS
      <4>2. tx \in TxSet /\ tx.head = headTxs[t].head /\ tx.id = Len(chainHeads) + 1
        BY <1>3, <3>1, <4>1 DEF TxSet
      <4>3. headTxs' = [headTxs EXCEPT ![t] = tx] BY <1>1, <1>3, <2>1, <4>1 DEF TxSet
      <4>. QED BY <1>1, <1>3, <4>2, <4>3
    <3>3. Grows BY <3>1, <3>2 DEF Grows
    <3>4. ASSUME NEW u \in DOMAIN headTxs' PROVE Mined(u)'
      <4>1. CASE u = t BY <1>4, <3>1, <3>2, <4>1 DEF Mined
      <4>2. CASE u # t
        <5>1. Mined(u) /\ headTxs'[u] = headTxs[u] BY <3>2, <4>2 DEF ChainInv
        <5>. QED BY <3>1, <5>1 DEF Mined
      <4>. QED BY <4>1, <4>2
    <3>. QED BY <1>1, <1>2, <3>1, <3>2, <3>3, <3>4 DEF ChainInv
  <2>2. CASE headTxs' = [headTxs EXCEPT ![t].state = "reverted"] /\ UNCHANGED chainHeads
    <3>1. headTxs' \in Seq(TxSet)
          /\ DOMAIN headTxs' = DOMAIN headTxs
          /\ headTxs'[t].head = headTxs[t].head /\ headTxs'[t].state = "reverted"
          /\ \A u \in DOMAIN headTxs : u # t => headTxs'[u] = headTxs[u]
      <4>1. PICK tx : tx = [headTxs[t] EXCEPT !.state = "reverted"] OBVIOUS
      <4>2. tx \in TxSet /\ tx.head = headTxs[t].head /\ tx.state = "reverted"
        BY <1>3, <4>1 DEF TxSet
      <4>3. headTxs' = [headTxs EXCEPT ![t] = tx] BY <1>1, <1>3, <2>2, <4>1 DEF TxSet
      <4>. QED BY <1>1, <1>3, <4>2, <4>3
    <3>. QED BY <1>1, <1>2, <2>2, <3>1 DEF ChainInv, Grows, Mined
  <2>. QED BY <1>4, <2>1, <2>2 DEF MineHead
<1>7. RowsInv' BY <1>1, <1>6, RowsStay
<1>8. CallsInv'
  <2>1. ASSUME NEW q \in DOMAIN headCalls PROVE CallInv(headCalls[q])'
    <3>1. PICK d : d = headCalls[q] OBVIOUS
    <3>2. CallInv(d)' BY <1>6, <3>1, CallStays DEF CallsInv
    <3>. QED BY <1>1, <3>1, <3>2 DEF CallInv, Waits, Holds, Stands
  <2>. QED BY <1>1, <2>1 DEF CallsInv
<1>. QED BY <1>6, <1>7, <1>8

\* The id of the receipt is that of the request's own transaction.
LEMMA AwaitHeadStep ==
  ASSUME HeadsInv, NEW r, AwaitHead(r)
  PROVE  HeadsInv'
<1>. USE DEF HeadsInv
<1>1. Grows /\ ChainInv' /\ RowsInv' BY ChainStays DEF AwaitHead
<1>2. PICK head, t : head = Due(r).head /\ t = headCalls[r].tx OBVIOUS
<1>3. IsDue(r, "anchor") /\ r \in DOMAIN headCalls /\ head \in HeadsOf /\ t # 0
      /\ CallInv(headCalls[r])
  BY <1>2, DueCall DEF AwaitHead
<1>4. t \in DOMAIN headTxs /\ headTxs[t].head = head BY <1>2, <1>3 DEF CallInv, Waits, Due
<1>5. CASE EndHead(r, "unavailable") BY <1>1, <1>3, <1>5, Ends
<1>6. CASE headTxs[t].state = "mined" /\ GoOn(r, <<Sth(head, headTxs[t].id, TRUE, 0)>>)
  <2>1. PICK id, sth : id = headTxs[t].id /\ sth = Sth(head, id, TRUE, 0) OBVIOUS
  <2>2. id \in DOMAIN chainHeads /\ chainHeads[id] = [size |-> head.size, root |-> head.root]
    BY <1>4, <1>6, <2>1 DEF ChainInv, Mined
  <2>3. id \in Nat /\ id # 0 BY <2>2 DEF ChainInv
  <2>4. sth \in Sths BY <1>3, <2>1, <2>3, SthType
  <2>5. Holds(sth) BY <2>1, <2>2, <2>3 DEF Holds, Stands, Sth
  <2>. QED BY <1>1, <1>3, <1>6, <2>1, <2>4, <2>5, CallStays, GoesOnWith
<1>. QED BY <1>2, <1>5, <1>6 DEF AwaitHead

\* What the store and the restart do leaves them so as well.
LEMMA HeadStoreFailsStep ==
  ASSUME HeadsInv, NEW r, HeadStoreFails(r)
  PROVE  HeadsInv'
<1>. USE DEF HeadsInv
<1>1. Grows /\ ChainInv' /\ RowsInv' BY ChainStays DEF HeadStoreFails
<1>2. r \in DOMAIN headCalls BY DueCall DEF HeadStoreFails
<1>. QED BY <1>1, <1>2, Ends DEF HeadStoreFails

LEMMA ReplyHeadStep ==
  ASSUME HeadsInv, NEW r, ReplyHead(r)
  PROVE  HeadsInv'
<1>. USE DEF HeadsInv
<1>1. Grows /\ ChainInv' /\ RowsInv' BY ChainStays DEF ReplyHead
<1>. QED BY <1>1, Ends DEF ReplyHead

LEMMA PutCheckpointStep ==
  ASSUME HeadsInv, NEW r, PutCheckpoint(r)
  PROVE  HeadsInv'
<1>. USE DEF HeadsInv
<1>1. UNCHANGED <<headStore, anchoring, chainHeads, headTxs, erased, headFaults>>
  BY DEF PutCheckpoint
<1>2. Grows BY <1>1, SameChain
<1>3. ChainInv' BY <1>1 DEF ChainInv, Mined
<1>4. IsDue(r, "put") /\ r \in DOMAIN headCalls /\ headCalls[r] \in HeadCallSet
      /\ CallInv(headCalls[r]) /\ headCalls[r].work # <<>> /\ Due(r).do = "put"
  BY DueCall DEF PutCheckpoint
<1>5. PICK work, got, old :
        work = headCalls[r].work /\ got = headCalls[r].got /\ old = headCalls[r].got[1]
  OBVIOUS
<1>6. work \in Seq(Items) /\ got \in Seq(Sths) BY <1>4, <1>5 DEF HeadCallSet
<1>7. got # <<>>
  <2>1. 1 \in DOMAIN work /\ work[1].do = "put" BY <1>4, <1>5, <1>6 DEF Due
  <2>. QED BY <1>4, <1>5, <2>1 DEF CallInv, Anchored
<1>8. old \in Sths /\ 1 \in DOMAIN got /\ old = got[1] BY <1>5, <1>6, <1>7
<1>9. Holds(old) BY <1>4, <1>5, <1>8 DEF CallInv
<1>10. r \in Nat BY <1>4 DEF CallsInv
<1>11. PICK row : row = [old EXCEPT !.contract = FALSE, !.by = r] OBVIOUS
<1>12. row \in Sths /\ row.id = old.id /\ row.size = old.size /\ row.root = old.root
       /\ row.contract = FALSE
  BY <1>8, <1>10, <1>11 DEF Sths
<1>13. Holds(row)' BY <1>1, <1>9, <1>12 DEF Holds, Stands
<1>14. RowsInv'
  <2>1. checkpoints' = Append(checkpoints, row) BY <1>5, <1>11 DEF PutCheckpoint
  <2>2. checkpoints \in Seq(Sths) BY DEF RowsInv
  <2>3. checkpoints' \in Seq(Sths) BY <1>12, <2>1, <2>2
  <2>4. ASSUME NEW i \in DOMAIN checkpoints' PROVE Holds(checkpoints[i])'
    <3>1. PICK sth : sth = checkpoints'[i] OBVIOUS
    <3>2. CASE i \in DOMAIN checkpoints
      <4>1. Holds(sth) BY <2>1, <2>2, <3>1, <3>2 DEF RowsInv
      <4>2. Holds(sth)' BY <1>2, <4>1, CallStays
      <4>. QED BY <3>1, <4>2 DEF Holds, Stands
    <3>3. CASE i \notin DOMAIN checkpoints
      <4>1. sth = row BY <2>1, <2>2, <3>1, <3>3
      <4>. QED BY <1>13, <3>1, <4>1 DEF Holds, Stands
    <3>. QED BY <3>2, <3>3
  <2>. QED BY <2>3, <2>4 DEF RowsInv
<1>15. CallsInv' BY <1>2, <1>4, GoesOnOnly DEF PutCheckpoint
<1>. QED BY <1>3, <1>14, <1>15

LEMMA ReadCheckpointStep ==
  ASSUME HeadsInv, NEW r, ReadCheckpoint(r)
  PROVE  HeadsInv'
<1>. USE DEF HeadsInv
<1>1. Grows /\ ChainInv' /\ RowsInv' BY ChainStays DEF ReadCheckpoint
<1>2. IsDue(r, "latest") BY DEF ReadCheckpoint
<1>3. CASE GoOn(r, <<>>) BY <1>1, <1>2, <1>3, GoesOnOnly
<1>4. ASSUME NEW log, NEW i \in LatestCheckpoint(log), GoOn(r, <<checkpoints[i]>>)
      PROVE  HeadsInv'
  <2>1. i \in DOMAIN checkpoints
    <3>1. i \in erased + 1 .. Len(checkpoints)
      BY <1>4 DEF LatestCheckpoint, LatestMemory, LatestPostgres, Kept
    <3>. QED BY <3>1 DEF RowsInv, ChainInv
  <2>2. PICK sth : sth = checkpoints[i] OBVIOUS
  <2>3. sth \in Sths /\ Holds(sth) BY <2>1, <2>2 DEF RowsInv
  <2>. QED BY <1>1, <1>2, <1>4, <2>2, <2>3, CallStays, GoesOnWith
<1>. QED BY <1>3, <1>4 DEF ReadCheckpoint

LEMMA RestartLedgerStep ==
  ASSUME HeadsInv, RestartLedger
  PROVE  HeadsInv'
<1>. USE DEF HeadsInv
<1>1. UNCHANGED <<headStore, anchoring, chainHeads, headTxs, checkpoints>>
  BY DEF RestartLedger
<1>2. Grows BY <1>1, SameChain
<1>3. headFaults' \in Nat BY FaultCount DEF RestartLedger, ChainInv
<1>4. erased' \in Nat
  <2>1. erased \in Nat BY DEF ChainInv
  <2>2. Len(checkpoints) \in Nat BY DEF RowsInv
  <2>. QED BY <2>1, <2>2 DEF RestartLedger
<1>5. ChainInv' BY <1>1, <1>3, <1>4 DEF ChainInv, Mined
<1>6. RowsInv' BY <1>1, <1>2, RowsStay
<1>7. headCalls \in Seq(HeadCallSet) /\ DOMAIN headCalls' = DOMAIN headCalls
  BY DEF CallsInv, RestartLedger
<1>8. ASSUME NEW q \in DOMAIN headCalls
      PROVE  headCalls'[q] \in HeadCallSet /\ CallInv(headCalls[q])'
  <2>1. PICK old, c : old = headCalls[q] /\ c = headCalls'[q] OBVIOUS
  <2>2. old \in HeadCallSet /\ CallInv(old) BY <1>7, <2>1 DEF CallsInv
  <2>3. c = IF old.answer # "none" THEN old
            ELSE [old EXCEPT !.work = <<>>, !.tx = 0, !.answer = "lost"]
    BY <2>1 DEF RestartLedger
  <2>4. CallInv(c)
    <3>1. CASE old.answer # "none" BY <2>2, <2>3, <3>1
    <3>2. CASE old.answer = "none"
      <4>1. <<>> \in Seq(Items) OBVIOUS
      <4>2. c \in HeadCallSet /\ c.work = <<>> /\ c.tx = 0 /\ c.got = old.got
            /\ c.asked = old.asked
        BY <2>2, <2>3, <3>2, <4>1 DEF HeadCallSet
      <4>. QED BY <2>2, <4>2 DEF CallInv, Anchored, Waits
    <3>. QED BY <3>1, <3>2
  <2>5. CallInv(c)' BY <1>2, <2>4, CallStays
  <2>. QED BY <2>1, <2>4, <2>5 DEF CallInv, Waits, Holds, Stands
<1>9. headCalls' \in Seq(HeadCallSet)
  <2>1. DOMAIN headCalls = 1 .. Len(headCalls) /\ Len(headCalls) \in Nat BY <1>7
  <2>2. headCalls' = [q \in 1 .. Len(headCalls) |-> headCalls'[q]] BY <2>1 DEF RestartLedger
  <2>. QED BY <1>8, <2>1, <2>2
<1>. QED BY <1>5, <1>6, <1>7, <1>8, <1>9 DEF CallsInv

-----------------------------------------------------------------------------
LEMMA HeadsInvInit == HeadsInit => HeadsInv
<1>1. <<>> \in Seq(Anchors) /\ <<>> \in Seq(TxSet) /\ <<>> \in Seq(Sths) /\ <<>> \in Seq(HeadCallSet)
  OBVIOUS
<1>. QED BY <1>1, HeadsAssumption DEF HeadsInit, HeadsInv, ChainInv, CallsInv, RowsInv

LEMMA HeadsInvStep == HeadsInv /\ [HeadsNext]_headVars => HeadsInv'
<1>. SUFFICES ASSUME HeadsInv, [HeadsNext]_headVars PROVE HeadsInv' OBVIOUS
<1>1. ASSUME NEW r, HeadRequest \/ ResendHead(r) PROVE HeadsInv'
  <2>1. Grows /\ ChainInv' /\ RowsInv'
    BY <1>1, ChainStays DEF HeadRequest, ResendHead, HeadsInv
  <2>2. CallsInv' BY <1>1, HeadRequestStep, ResendHeadStep DEF HeadsInv
  <2>. QED BY <2>1, <2>2 DEF HeadsInv
<1>2. CASE UNCHANGED headVars
  <2>1. Grows /\ ChainInv' /\ RowsInv' BY <1>2, ChainStays DEF headVars, HeadsInv
  <2>2. CallsInv'
    <3>1. ASSUME NEW q \in DOMAIN headCalls PROVE CallInv(headCalls[q])'
      <4>1. PICK d : d = headCalls[q] OBVIOUS
      <4>2. CallInv(d)' BY <2>1, <4>1, CallStays DEF CallsInv, HeadsInv
      <4>. QED BY <1>2, <4>1, <4>2 DEF CallInv, Waits, Holds, Stands, headVars
    <3>. QED BY <1>2, <3>1 DEF CallsInv, HeadsInv, headVars
  <2>. QED BY <2>1, <2>2 DEF HeadsInv
<1>. QED BY <1>1, <1>2, SubmitHeadStep, AwaitHeadStep, HeadStoreFailsStep, PutCheckpointStep,
            ReadCheckpointStep, ReplyHeadStep, MineHeadStep, RestartLedgerStep DEF HeadsNext

\* The check of a head that is the registry's.
LEMMA HoldsAudited ==
  ASSUME HeadsInv, NEW sth \in Sths, Holds(sth)
  PROVE  /\ sth.id # 0 => Stands(sth)
         /\ \A n \in 0 .. Len(chainHeads) : VerifySthAnchored(sth, n) => Stands(sth)
         /\ sth.contract => VerifySthAnchored(sth, Len(chainHeads)) \/ sth.root = ZeroRoot
<1>1. sth.id # 0 => Stands(sth) BY DEF Holds
<1>2. \A n \in 0 .. Len(chainHeads) : VerifySthAnchored(sth, n) => Stands(sth)
  BY <1>1 DEF VerifySthAnchored
<1>3. ASSUME sth.contract, sth.root # ZeroRoot PROVE VerifySthAnchored(sth, Len(chainHeads))
  <2>1. sth.id # 0 /\ Stands(sth) BY <1>1, <1>3 DEF Holds
  <2>2. sth.id \in DOMAIN chainHeads /\ chainHeads[sth.id].root = sth.root
        /\ chainHeads[sth.id].size = sth.size
    BY <2>1 DEF Stands
  <2>3. sth.id <= Len(chainHeads) BY <2>2 DEF HeadsInv, ChainInv
  <2>. QED BY <1>3, <2>1, <2>2, <2>3 DEF VerifySthAnchored
<1>. QED BY <1>1, <1>2, <1>3

\* Whatever requests anchor at the same time, and whichever of their calls fail: a head with
\* an onChainId in an answer of POST /v1/anchors or GET /v1/verify is the registry's anchor
\* of that id, and verifySthAnchored accepts the heads anchorSTH answered and no others.
THEOREM HeadsAudited == HeadsSpec => []HeadsAreAuditable
<1>1. HeadsInv => HeadsAreAuditable
  <2>1. SUFFICES ASSUME HeadsInv, NEW sth \in AnsweredHeads PROVE sth \in Sths /\ Holds(sth)
    BY HoldsAudited DEF HeadsAreAuditable
  <2>2. PICK r \in DOMAIN headCalls : sth \in Elements(headCalls[r].got)
    BY <2>1 DEF AnsweredHeads
  <2>3. PICK k \in DOMAIN headCalls[r].got : sth = headCalls[r].got[k] BY <2>2 DEF Elements
  <2>4. CallInv(headCalls[r]) BY <2>1 DEF HeadsInv, CallsInv
  <2>5. headCalls[r].got \in Seq(Sths) BY <2>4 DEF CallInv, HeadCallSet
  <2>. QED BY <2>3, <2>4, <2>5 DEF CallInv
<1>. QED BY <1>1, HeadsInvInit, HeadsInvStep, PTL DEF HeadsSpec

-----------------------------------------------------------------------------
(***************************************************************************)
(* The largest checkpoint is shown.                                        *)
(***************************************************************************)

\* A head in got is a checkpoint that does not hide the i-th one.
Shows(got, i) ==
  \E k \in DOMAIN got : \E m \in DOMAIN checkpoints :
    /\ got[k] = checkpoints[m] /\ checkpoints[m].log = checkpoints[i].log
    /\ IF headStore = "postgres" THEN checkpoints[m].size >= checkpoints[i].size ELSE m >= i

\* A bundle that may still be answered, or was, shows what was acknowledged or is to read it.
ShowInv(c) ==
  c.op = "bundle" /\ c.answer \in {"none", "ok"} =>
    \A i \in DOMAIN checkpoints :
      /\ checkpoints[i].by \in c.earlier /\ i > c.erased
      /\ checkpoints[i].log \in Elements(AttestedLogs)
      => Pending(c.work, checkpoints[i].log) \/ Shows(c.got, i)
StoreInv(c) ==
  /\ OnePut(c.work) /\ OnePut(c.asked) /\ (c.op = "bundle" => c.asked = BundleWork)
  /\ c.answer = "ok" => c.work = <<>>
  /\ c.answer = "none" => c.erased = erased
  /\ \A q \in c.earlier : q \in DOMAIN headCalls /\ headCalls[q].answer # "none"
  /\ ShowInv(c)

\* A request stores one checkpoint.
StoredOnce ==
  /\ \A i \in DOMAIN checkpoints :
       /\ checkpoints[i].by \in DOMAIN headCalls
       /\ \A k \in DOMAIN headCalls[checkpoints[i].by].work :
            headCalls[checkpoints[i].by].work[k].do # "put"
  /\ \A i, j \in DOMAIN checkpoints : checkpoints[i].by = checkpoints[j].by => i = j
ShownInv ==
  /\ HeadsInv /\ StoredOnce
  /\ \A r \in DOMAIN headCalls : StoreInv(headCalls[r])

\* A finite set of checkpoints has a largest one.
LEMMA Largest ==
  ASSUME NEW S, IsFiniteSet(S), S # {}, NEW f \in [S -> Nat]
  PROVE  \E i \in S : \A j \in S : f[j] <= f[i]
<1>. DEFINE Above(i) == {j \in S : f[j] > f[i]}
            Aboves == {Above(i) : i \in S}
<1>1. Aboves \subseteq FiniteSubsetsOf(S)
  <2>1. SUFFICES ASSUME NEW i \in S PROVE IsFiniteSet(Above(i)) /\ Above(i) \subseteq S
    BY DEF FiniteSubsetsOf
  <2>. QED BY FS_Subset
<1>2. PICK x \in Aboves : \A y \in Aboves : <<y, x>> \notin StrictSubsetOrdering(S)
  <2>1. Aboves # {}
    <3>1. PICK i \in S : TRUE OBVIOUS
    <3>2. Above(i) \in Aboves OBVIOUS
    <3>. HIDE DEF Aboves
    <3>. QED BY <3>2
  <2>. HIDE DEF Aboves
  <2>. QED BY <1>1, <2>1, WFMin, FS_StrictSubsetOrderingWellFounded
<1>3. PICK i \in S : x = Above(i) BY <1>2
<1>4. ASSUME NEW j \in S, f[j] > f[i] PROVE FALSE
  <2>1. Above(j) \subseteq Above(i) /\ j \in Above(i) /\ j \notin Above(j) BY <1>4
  <2>2. <<Above(j), x>> \in StrictSubsetOrdering(S)
    BY <1>3, <2>1 DEF StrictSubsetOrdering
  <2>. QED BY <1>2, <2>2
<1>. QED BY <1>4

\* Time goes on: answers stay, checkpoints stay, and those that come are of requests at work.
Later ==
  /\ headStore' = headStore
  /\ \A q \in DOMAIN headCalls :
       q \in DOMAIN headCalls' /\ (headCalls[q].answer # "none" => headCalls'[q].answer # "none")
  /\ \A i \in DOMAIN checkpoints : i \in DOMAIN checkpoints' /\ checkpoints'[i] = checkpoints[i]
  /\ \A i \in DOMAIN checkpoints' :
       i \notin DOMAIN checkpoints => headCalls[checkpoints'[i].by].answer = "none"

LEMMA StoreStays ==
  ASSUME Later, NEW c, StoreInv(c), c.answer = "none" => erased' = erased
  PROVE  StoreInv(c)'
<1>1. \A q \in c.earlier : q \in DOMAIN headCalls /\ headCalls[q].answer # "none" BY DEF StoreInv
<1>2. \A q \in c.earlier : q \in DOMAIN headCalls' /\ headCalls'[q].answer # "none"
  BY <1>1 DEF Later
<1>3. ShowInv(c)'
  <2>1. SUFFICES ASSUME c.op = "bundle", c.answer \in {"none", "ok"}, NEW i \in DOMAIN checkpoints',
                        checkpoints'[i].by \in c.earlier, i > c.erased,
                        checkpoints'[i].log \in Elements(AttestedLogs)
                 PROVE  Pending(c.work, checkpoints'[i].log) \/ Shows(c.got, i)'
    BY DEF ShowInv, Elements
  <2>2. i \in DOMAIN checkpoints /\ checkpoints'[i] = checkpoints[i] BY <1>1, <2>1 DEF Later
  <2>3. Pending(c.work, checkpoints[i].log) \/ Shows(c.got, i)
    BY <2>1, <2>2 DEF StoreInv, ShowInv
  <2>4. Shows(c.got, i) => Shows(c.got, i)'
    BY <2>2 DEF Shows, Later
  <2>. QED BY <2>2, <2>3, <2>4
<1>4. OnePut(c.work) /\ OnePut(c.asked) /\ (c.op = "bundle" => c.asked = BundleWork)
      /\ (c.answer = "ok" => c.work = <<>>) /\ (c.answer = "none" => c.erased = erased')
  BY DEF StoreInv
<1>5. (OnePut(c.work) /\ OnePut(c.asked) /\ (c.op = "bundle" => c.asked = BundleWork))'
  BY <1>4
<1>. QED BY <1>2, <1>3, <1>4, <1>5 DEF StoreInv

\* The actions in which request r becomes c and no checkpoint is stored.
LEMMA StoreBecomes ==
  ASSUME ShownInv, NEW r \in DOMAIN headCalls, NEW c, Becomes(r, c), StoreInv(c),
         headCalls[r].answer # "none" => c.answer # "none",
         \A k \in DOMAIN c.work : \E l \in DOMAIN headCalls[r].work : c.work[k] = headCalls[r].work[l],
         UNCHANGED <<headStore, checkpoints, erased>>, HeadsInv'
  PROVE  ShownInv'
<1>. USE DEF ShownInv
<1>1. headCalls \in Seq(HeadCallSet) /\ DOMAIN headCalls' = DOMAIN headCalls
      /\ headCalls'[r] = c /\ \A q \in DOMAIN headCalls : q # r => headCalls'[q] = headCalls[q]
  BY DEF HeadsInv, CallsInv, Becomes
<1>2. Later BY <1>1 DEF Later
<1>3. ASSUME NEW q \in DOMAIN headCalls' PROVE StoreInv(headCalls[q])'
  <2>1. PICK d : d = headCalls'[q] OBVIOUS
  <2>2. StoreInv(d) BY <1>1, <2>1
  <2>3. StoreInv(d)' BY <1>2, <2>2, StoreStays
  <2>. QED BY <2>1, <2>3 DEF StoreInv, ShowInv, Shows
<1>4. StoredOnce'
  <2>1. ASSUME NEW i \in DOMAIN checkpoints
        PROVE  /\ checkpoints[i].by \in DOMAIN headCalls'
               /\ \A k \in DOMAIN headCalls'[checkpoints[i].by].work :
                    headCalls'[checkpoints[i].by].work[k].do # "put"
    BY <1>1, <2>1 DEF StoredOnce
  <2>. QED BY <2>1 DEF StoredOnce
<1>. QED BY <1>3, <1>4

LEMMA StoreEnds ==
  ASSUME ShownInv, NEW r \in DOMAIN headCalls, EndHead(r, "unavailable") \/ EndHead(r, "failed"),
         UNCHANGED <<headStore, checkpoints, erased>>, HeadsInv'
  PROVE  ShownInv'
<1>1. PICK answer \in {"unavailable", "failed"} : EndHead(r, answer) OBVIOUS
<1>2. PICK c : c = [headCalls[r] EXCEPT !.work = <<>>, !.tx = 0, !.answer = answer] OBVIOUS
<1>3. headCalls[r] \in HeadCallSet /\ headCalls \in Seq(HeadCallSet) /\ StoreInv(headCalls[r])
  BY DEF ShownInv, HeadsInv, CallsInv
<1>4. Becomes(r, c) BY <1>1, <1>2, <1>3 DEF EndHead, Becomes, HeadCallSet
<1>5. c.work = <<>> /\ c.asked = headCalls[r].asked /\ c.answer = answer /\ c.op = headCalls[r].op
      /\ c.earlier = headCalls[r].earlier
  BY <1>2, <1>3 DEF HeadCallSet
<1>6. StoreInv(c) BY <1>3, <1>5 DEF StoreInv, ShowInv, OnePut
<1>. QED BY <1>4, <1>5, <1>6, StoreBecomes

\* What GoOn leaves of a request: its next item is done, sths are there.
GoneOn(old, sths) == [old EXCEPT !.work = Tail(old.work), !.tx = 0, !.got = old.got \o sths]

LEMMA StoreGoesOn ==
  ASSUME ShownInv, NEW r, NEW do, IsDue(r, do), NEW sths \in Seq(Sths),
         do = "latest" =>
           \A i \in DOMAIN checkpoints :
             checkpoints[i].log = Due(r).log /\ i > erased => Shows(sths, i),
         NEW old, old = headCalls[r],
         NEW c, c = GoneOn(old, sths)
  PROVE  /\ r \in DOMAIN headCalls /\ old \in HeadCallSet /\ old.answer = "none"
         /\ StoreInv(c) /\ c.answer = "none"
         /\ \A k \in DOMAIN c.work : k + 1 \in DOMAIN old.work /\ c.work[k] = old.work[k + 1]
         /\ GoOn(r, sths) => Becomes(r, c)
<1>1. r \in DOMAIN headCalls /\ old \in HeadCallSet /\ StoreInv(old)
  BY DEF ShownInv, HeadsInv, CallsInv, IsDue
<1>2. r \in DOMAIN headCalls /\ old \in HeadCallSet /\ StoreInv(old) /\ old.answer = "none"
      /\ old.work # <<>> /\ old.work[1].do = do /\ old.work[1] = Due(r)
  <2>1. old.work \in Seq(Items) BY <1>1 DEF HeadCallSet
  <2>. QED BY <1>1, <2>1 DEF IsDue, Due
<1>3. old.work \in Seq(Items) /\ old.got \in Seq(Sths) BY <1>2 DEF HeadCallSet
<1>4. c.work = Tail(old.work) /\ c.got = old.got \o sths /\ c.answer = "none" /\ c.op = old.op
      /\ c.asked = old.asked /\ c.earlier = old.earlier /\ c.erased = old.erased
  BY <1>1, <1>2 DEF GoneOn, HeadCallSet
<1>5. \A k \in DOMAIN c.work : k + 1 \in DOMAIN old.work /\ c.work[k] = old.work[k + 1]
  BY <1>2, <1>3, <1>4
<1>6. OnePut(c.work)
  <2>1. SUFFICES ASSUME NEW k \in DOMAIN c.work, NEW l \in DOMAIN c.work,
                        c.work[k].do = "put", c.work[l].do = "put"
                 PROVE  k = l
    BY DEF OnePut
  <2>2. k + 1 = l + 1 BY <1>2, <1>5, <2>1 DEF StoreInv, OnePut
  <2>3. c.work \in Seq(Items) BY <1>2, <1>3, <1>4
  <2>. QED BY <2>2, <2>3
<1>7. \A k \in DOMAIN old.got : k \in DOMAIN c.got /\ c.got[k] = old.got[k] BY <1>3, <1>4
<1>8. ASSUME NEW k \in DOMAIN sths
      PROVE  Len(old.got) + k \in DOMAIN c.got /\ c.got[Len(old.got) + k] = sths[k]
  <2>1. PICK got : got = old.got OBVIOUS
  <2>2. got \in Seq(Sths) /\ c.got = got \o sths BY <1>3, <1>4, <2>1
  <2>3. k \in 1 .. Len(sths) /\ Len(got) \in Nat BY <2>2
  <2>4. Len(got) + k \in DOMAIN (got \o sths) BY <2>2, <2>3
  <2>5. (got \o sths)[Len(got) + k] = sths[k] BY <2>2, <2>3, <2>4
  <2>. QED BY <2>1, <2>2, <2>4, <2>5
<1>9. ShowInv(c)
  <2>1. SUFFICES ASSUME c.op = "bundle", NEW i \in DOMAIN checkpoints,
                        checkpoints[i].by \in c.earlier, i > c.erased,
                        checkpoints[i].log \in Elements(AttestedLogs)
                 PROVE  Pending(c.work, checkpoints[i].log) \/ Shows(c.got, i)
    BY DEF ShowInv
  <2>2. Pending(old.work, checkpoints[i].log) \/ Shows(old.got, i)
    BY <1>2, <1>4, <2>1 DEF StoreInv, ShowInv
  <2>3. CASE Shows(old.got, i) BY <1>7, <2>3 DEF Shows
  <2>4. CASE Pending(old.work, checkpoints[i].log)
    <3>1. PICK k \in DOMAIN old.work : old.work[k].do = "latest" /\ old.work[k].log = checkpoints[i].log
      BY <2>4 DEF Pending
    <3>2. CASE k = 1
      <4>1. i > erased BY <1>2, <1>4, <2>1 DEF StoreInv
      <4>2. Shows(sths, i) BY <1>2, <3>1, <3>2, <4>1
      <4>. QED BY <1>8, <4>2 DEF Shows
    <3>3. CASE k # 1
      <4>1. k - 1 \in DOMAIN c.work /\ c.work[k - 1] = old.work[k] BY <1>2, <1>3, <1>4, <3>1, <3>3
      <4>. QED BY <3>1, <4>1 DEF Pending
    <3>. QED BY <3>2, <3>3
  <2>. QED BY <2>2, <2>3, <2>4
<1>10. StoreInv(c) BY <1>2, <1>4, <1>6, <1>9 DEF StoreInv
<1>11. GoOn(r, sths) => Becomes(r, c)
  BY <1>1 DEF GoneOn, GoOn, Becomes, HeadCallSet, ShownInv, HeadsInv, CallsInv
<1>. QED BY <1>2, <1>4, <1>5, <1>10, <1>11

\* GoOn, when no checkpoint is stored.
LEMMA StoreMovesOn ==
  ASSUME ShownInv, NEW r, NEW do, IsDue(r, do), NEW sths \in Seq(Sths), GoOn(r, sths),
         do = "latest" =>
           \A i \in DOMAIN checkpoints :
             checkpoints[i].log = Due(r).log /\ i > erased => Shows(sths, i),
         UNCHANGED <<headStore, checkpoints, erased>>, HeadsInv'
  PROVE  ShownInv'
<1>1. PICK old : old = headCalls[r] OBVIOUS
<1>2. PICK c : c = GoneOn(old, sths) OBVIOUS
<1>3. /\ r \in DOMAIN headCalls /\ old.answer = "none" /\ StoreInv(c) /\ Becomes(r, c)
      /\ \A k \in DOMAIN c.work : k + 1 \in DOMAIN old.work /\ c.work[k] = old.work[k + 1]
  BY <1>1, <1>2, StoreGoesOn
<1>. QED BY <1>1, <1>3, StoreBecomes

\* A request that comes has everything to read that was acknowledged.
LEMMA StoreNew ==
  ASSUME ShownInv, NEW op \in {"submit", "bundle"}, NEW work \in Seq(Items), OnePut(work),
         op = "bundle" => work = BundleWork, NEW attempt \in Nat
  PROVE  StoreInv(NewHeadCall(op, work, attempt))
<1>1. PICK c : c = NewHeadCall(op, work, attempt) OBVIOUS
<1>2. c.op = op /\ c.work = work /\ c.asked = work /\ c.answer = "none" /\ c.got = <<>>
      /\ c.earlier = AckedCheckpoints /\ c.erased = erased
  BY <1>1 DEF NewHeadCall
<1>3. \A q \in c.earlier : q \in DOMAIN headCalls /\ headCalls[q].answer # "none"
  BY <1>2 DEF AckedCheckpoints
<1>4. ShowInv(c) BY <1>2, BundleWorkType DEF ShowInv
<1>5. StoreInv(c) BY <1>2, <1>3, <1>4 DEF StoreInv
<1>. QED BY <1>1, <1>5

\* Requests that were there, one of them with another answer, and one that comes.
LEMMA StoreComes ==
  ASSUME ShownInv, HeadsInv', UNCHANGED <<headStore, checkpoints, erased>>,
         NEW s \in Seq(HeadCallSet), DOMAIN s = DOMAIN headCalls,
         \A q \in DOMAIN s : /\ StoreInv(s[q])
                             /\ s[q].work = headCalls[q].work
                             /\ headCalls[q].answer # "none" => s[q].answer # "none",
         NEW c \in HeadCallSet, StoreInv(c), headCalls' = Append(s, c)
  PROVE  ShownInv'
<1>. USE DEF ShownInv
<1>1. \A q \in DOMAIN s : q \in DOMAIN headCalls' /\ headCalls'[q] = s[q] OBVIOUS
<1>2. \A q \in DOMAIN headCalls' : headCalls'[q] = c \/ (q \in DOMAIN s /\ headCalls'[q] = s[q])
  OBVIOUS
<1>3. Later BY <1>1 DEF Later
<1>4. ASSUME NEW q \in DOMAIN headCalls' PROVE StoreInv(headCalls[q])'
  <2>1. PICK d : d = headCalls'[q] OBVIOUS
  <2>2. StoreInv(d) BY <1>2, <2>1
  <2>3. StoreInv(d)' BY <1>3, <2>2, StoreStays
  <2>. QED BY <2>1, <2>3 DEF StoreInv, ShowInv, Shows
<1>5. StoredOnce'
  <2>1. ASSUME NEW i \in DOMAIN checkpoints
        PROVE  /\ checkpoints[i].by \in DOMAIN headCalls'
               /\ \A k \in DOMAIN headCalls'[checkpoints[i].by].work :
                    headCalls'[checkpoints[i].by].work[k].do # "put"
    BY <1>1, <2>1 DEF StoredOnce
  <2>. QED BY <2>1 DEF StoredOnce
<1>. QED BY <1>4, <1>5

\* Each step leaves a bundle with what it is to show, or still to read it.
LEMMA HeadRequestShows ==
  ASSUME ShownInv, HeadRequest, HeadsInv'
  PROVE  ShownInv'
<1>1. UNCHANGED <<headStore, checkpoints, erased>> BY DEF HeadRequest
<1>2. PICK c : headCalls' = Append(headCalls, c) /\ StoreInv(c) /\ c \in HeadCallSet
  <2>1. CASE \E body \in Submissions :
               headCalls' = Append(headCalls, NewHeadCall("submit", SubmitWork(body), 0))
    BY <2>1, SubmitWorkType, StoreNew, NewCall DEF ShownInv, HeadsInv, CallInv
  <2>2. CASE headCalls' = Append(headCalls, NewHeadCall("bundle", BundleWork, 0))
    BY <2>2, BundleWorkType, StoreNew, NewCall DEF ShownInv, HeadsInv, CallInv
  <2>. QED BY <2>1, <2>2 DEF HeadRequest
<1>3. headCalls \in Seq(HeadCallSet) BY DEF ShownInv, HeadsInv, CallsInv
<1>. QED BY <1>1, <1>2, <1>3, StoreComes DEF ShownInv

LEMMA ResendHeadShows ==
  ASSUME ShownInv, NEW r, ResendHead(r), HeadsInv'
  PROVE  ShownInv'
<1>1. UNCHANGED <<headStore, checkpoints, erased>> BY DEF ResendHead
<1>2. r \in DOMAIN headCalls /\ headCalls \in Seq(HeadCallSet) /\ headCalls[r].answer = "unavailable"
  BY DEF ResendHead, ShownInv, HeadsInv, CallsInv
<1>3. PICK was : was = headCalls[r] OBVIOUS
<1>4. PICK old : old = [was EXCEPT !.answer = "resent"] OBVIOUS
<1>5. was \in HeadCallSet /\ StoreInv(was) /\ CallInv(was)
  BY <1>2, <1>3 DEF ShownInv, HeadsInv, CallsInv
<1>6. /\ old \in HeadCallSet /\ old.answer = "resent" /\ old.work = was.work /\ old.op = was.op
      /\ old.asked = was.asked /\ old.earlier = was.earlier
  BY <1>4, <1>5 DEF HeadCallSet
<1>7. StoreInv(old) BY <1>5, <1>6 DEF StoreInv, ShowInv
<1>8. PICK s : s = [headCalls EXCEPT ![r] = old] OBVIOUS
<1>9. s \in Seq(HeadCallSet) /\ DOMAIN s = DOMAIN headCalls BY <1>2, <1>6, <1>8
<1>10. \A q \in DOMAIN s : /\ StoreInv(s[q])
                           /\ s[q].work = headCalls[q].work
                           /\ headCalls[q].answer # "none" => s[q].answer # "none"
  <2>1. SUFFICES ASSUME NEW q \in DOMAIN s
                 PROVE  /\ StoreInv(s[q])
                        /\ s[q].work = headCalls[q].work
                        /\ headCalls[q].answer # "none" => s[q].answer # "none"
    OBVIOUS
  <2>2. CASE q = r
    <3>1. s[q] = old BY <1>2, <1>8, <2>2
    <3>. QED BY <1>3, <1>6, <1>7, <2>2, <3>1
  <2>3. CASE q # r
    <3>1. s[q] = headCalls[q] BY <1>2, <1>8, <1>9, <2>1, <2>3
    <3>. QED BY <1>9, <2>1, <3>1 DEF ShownInv
  <2>. QED BY <2>2, <2>3
<1>11. PICK c : c = NewHeadCall(was.op, was.asked, was.attempt + 1) OBVIOUS
<1>12. StoreInv(c) /\ c \in HeadCallSet
  <2>1. /\ was.op \in {"submit", "bundle"} /\ was.asked \in Seq(Items) /\ was.attempt + 1 \in Nat
        /\ OnePut(was.asked) /\ (was.op = "bundle" => was.asked = BundleWork)
        /\ Anchored(was.asked, <<>>)
    BY <1>5 DEF HeadCallSet, StoreInv, CallInv
  <2>. QED BY <1>11, <2>1, StoreNew, NewCall DEF ShownInv, HeadsInv, CallInv
<1>13. headCalls' = Append(s, c)
  <2>1. [headCalls EXCEPT ![r].answer = "resent"] = [headCalls EXCEPT ![r] = old]
    BY <1>2, <1>3, <1>4, <1>5 DEF HeadCallSet
  <2>. QED BY <1>3, <1>8, <1>11, <2>1 DEF ResendHead
<1>. QED BY <1>1, <1>9, <1>10, <1>12, <1>13, StoreComes

LEMMA ReplyHeadShows ==
  ASSUME ShownInv, NEW r, ReplyHead(r), HeadsInv'
  PROVE  ShownInv'
<1>1. PICK old : old = headCalls[r] OBVIOUS
<1>2. PICK c : c = [old EXCEPT !.work = <<>>, !.tx = 0, !.answer = "ok"] OBVIOUS
<1>3. /\ r \in DOMAIN headCalls /\ old \in HeadCallSet /\ StoreInv(old)
      /\ old.answer = "none" /\ old.work = <<>>
  BY <1>1 DEF ReplyHead, ShownInv, HeadsInv, CallsInv
<1>4. /\ c.work = <<>> /\ c.answer = "ok" /\ c.op = old.op /\ c.asked = old.asked
      /\ c.got = old.got /\ c.earlier = old.earlier /\ c.erased = old.erased
  BY <1>2, <1>3 DEF HeadCallSet
<1>5. StoreInv(c) BY <1>3, <1>4 DEF StoreInv, ShowInv
<1>6. Becomes(r, c)
  BY <1>1, <1>2, <1>3 DEF ReplyHead, EndHead, Becomes, HeadCallSet, ShownInv, HeadsInv, CallsInv
<1>7. UNCHANGED <<headStore, checkpoints, erased>> BY DEF ReplyHead
<1>. QED BY <1>3, <1>4, <1>5, <1>6, <1>7, StoreBecomes

LEMMA SubmitHeadShows ==
  ASSUME ShownInv, NEW r, SubmitHead(r), HeadsInv'
  PROVE  ShownInv'
<1>1. UNCHANGED <<headStore, checkpoints, erased>> /\ IsDue(r, "anchor") BY DEF SubmitHead
<1>2. CASE GoOn(r, <<Sth(Due(r).head, 0, FALSE, 0)>>)
  <2>1. Sth(Due(r).head, 0, FALSE, 0) \in Sths
    BY <1>1, DueCall, SthType DEF ShownInv, HeadsInv
  <2>2. PICK sth \in Sths : sth = Sth(Due(r).head, 0, FALSE, 0) BY <2>1
  <2>3. PICK sths : sths = <<sth>> OBVIOUS
  <2>4. sths \in Seq(Sths) /\ GoOn(r, sths)
    <3>1. GoOn(r, sths) BY <1>2, <2>2, <2>3
    <3>. QED BY <2>3, <3>1
  <2>. QED BY <1>1, <2>4, StoreMovesOn
<1>3. CASE EndHead(r, "unavailable") BY <1>1, <1>3, StoreEnds DEF IsDue
<1>4. CASE headCalls' = [headCalls EXCEPT ![r].tx = Len(headTxs) + 1]
  <2>1. PICK old : old = headCalls[r] OBVIOUS
  <2>2. PICK c : c = [old EXCEPT !.tx = Len(headTxs) + 1] OBVIOUS
  <2>3. r \in DOMAIN headCalls /\ old \in HeadCallSet /\ StoreInv(old)
    BY <1>1, <2>1 DEF IsDue, ShownInv, HeadsInv, CallsInv
  <2>4. /\ c.work = old.work /\ c.answer = old.answer /\ c.op = old.op /\ c.asked = old.asked
        /\ c.got = old.got /\ c.earlier = old.earlier /\ c.erased = old.erased
    BY <2>2, <2>3 DEF HeadCallSet
  <2>5. StoreInv(c) BY <2>3, <2>4 DEF StoreInv, ShowInv
  <2>6. Becomes(r, c)
    BY <1>4, <2>1, <2>2, <2>3 DEF Becomes, HeadCallSet, ShownInv, HeadsInv, CallsInv
  <2>. QED BY <1>1, <2>1, <2>3, <2>4, <2>5, <2>6, StoreBecomes
<1>. QED BY <1>2, <1>3, <1>4 DEF SubmitHead

LEMMA AwaitHeadShows ==
  ASSUME ShownInv, NEW r, AwaitHead(r), HeadsInv'
  PROVE  ShownInv'
<1>1. UNCHANGED <<headStore, checkpoints, erased>> /\ IsDue(r, "anchor") BY DEF AwaitHead
<1>2. CASE EndHead(r, "unavailable") BY <1>1, <1>2, StoreEnds DEF IsDue
<1>3. PICK id : id = headTxs[headCalls[r].tx].id OBVIOUS
<1>4. CASE GoOn(r, <<Sth(Due(r).head, id, TRUE, 0)>>)
  <2>1. id \in Nat
    <3>1. CallInv(headCalls[r]) /\ headCalls[r].tx # 0
      BY <1>1, DueCall DEF AwaitHead, ShownInv, HeadsInv
    <3>2. headCalls[r].tx \in DOMAIN headTxs BY <3>1 DEF CallInv, Waits
    <3>3. headTxs \in Seq(TxSet) BY DEF ShownInv, HeadsInv, ChainInv
    <3>4. headTxs[headCalls[r].tx] \in TxSet BY <3>2, <3>3
    <3>. QED BY <1>3, <3>4 DEF TxSet
  <2>2. Sth(Due(r).head, id, TRUE, 0) \in Sths
    BY <1>1, <2>1, DueCall, SthType DEF ShownInv, HeadsInv
  <2>3. PICK sth \in Sths : sth = Sth(Due(r).head, id, TRUE, 0) BY <2>2
  <2>4. PICK sths : sths = <<sth>> OBVIOUS
  <2>5. sths \in Seq(Sths) /\ GoOn(r, sths)
    <3>1. GoOn(r, sths) BY <1>4, <2>3, <2>4
    <3>. QED BY <2>4, <3>1
  <2>. QED BY <1>1, <2>5, StoreMovesOn
<1>. QED BY <1>2, <1>3, <1>4 DEF AwaitHead

LEMMA HeadStoreFailsShows ==
  ASSUME ShownInv, NEW r, HeadStoreFails(r), HeadsInv'
  PROVE  ShownInv'
BY StoreEnds DEF HeadStoreFails, IsDue

\* What latestCheckpoint reads is there and no smaller, or no older, than what there is.
LEMMA ReadShows ==
  ASSUME HeadsInv, NEW log, NEW i \in DOMAIN checkpoints, checkpoints[i].log = log, i > erased
  PROVE  /\ LatestCheckpoint(log) # {}
         /\ \A m \in LatestCheckpoint(log) : Shows(<<checkpoints[m]>>, i)
<1>1. checkpoints \in Seq(Sths) /\ erased \in Nat BY DEF HeadsInv, RowsInv, ChainInv
<1>2. i \in Kept(log) BY <1>1 DEF Kept
<1>3. \A m \in Kept(log) : m \in DOMAIN checkpoints /\ checkpoints[m].log = log
                           /\ m \in Nat /\ checkpoints[m].size \in Nat
  <2>1. SUFFICES ASSUME NEW m \in Kept(log)
                 PROVE  m \in DOMAIN checkpoints /\ checkpoints[m].log = log
                        /\ m \in Nat /\ checkpoints[m].size \in Nat
    OBVIOUS
  <2>2. m \in DOMAIN checkpoints /\ m \in Nat /\ checkpoints[m].log = log BY <1>1 DEF Kept
  <2>3. checkpoints[m] \in Sths BY <1>1, <2>2
  <2>4. checkpoints[m].size \in {head.size : head \in HeadsOf} BY <2>3 DEF Sths
  <2>. QED BY <2>2, <2>4, HeadTypes
<1>4. IsFiniteSet(Kept(log))
  <2>1. Kept(log) \subseteq 1 .. Len(checkpoints) BY <1>1 DEF Kept
  <2>2. IsFiniteSet(1 .. Len(checkpoints)) BY <1>1, FS_Interval
  <2>. QED BY <2>1, <2>2, FS_Subset
<1>5. LatestMemory(log) # {}
  <2>1. PICK f : f = [m \in Kept(log) |-> m] OBVIOUS
  <2>2. f \in [Kept(log) -> Nat] BY <1>3, <2>1
  <2>3. PICK m \in Kept(log) : \A j \in Kept(log) : f[j] <= f[m] BY <1>2, <1>4, <2>2, Largest
  <2>4. \A j \in Kept(log) : j <= m BY <2>1, <2>3
  <2>. QED BY <2>3, <2>4 DEF LatestMemory
<1>6. LatestPostgres(log) # {}
  <2>1. PICK f : f = [m \in Kept(log) |-> checkpoints[m].size] OBVIOUS
  <2>2. f \in [Kept(log) -> Nat] BY <1>3, <2>1
  <2>3. PICK m \in Kept(log) : \A j \in Kept(log) : f[j] <= f[m] BY <1>2, <1>4, <2>2, Largest
  <2>4. \A j \in Kept(log) : checkpoints[j].size <= checkpoints[m].size BY <2>1, <2>3
  <2>. QED BY <2>3, <2>4 DEF LatestPostgres
<1>7. ASSUME NEW m \in LatestCheckpoint(log) PROVE Shows(<<checkpoints[m]>>, i)
  <2>1. m \in DOMAIN checkpoints /\ checkpoints[m].log = checkpoints[i].log
    BY <1>3, <1>7 DEF LatestCheckpoint, LatestMemory, LatestPostgres
  <2>2. IF headStore = "postgres" THEN checkpoints[m].size >= checkpoints[i].size ELSE m >= i
    <3>1. CASE headStore = "postgres"
      <4>1. m \in LatestPostgres(log) BY <1>7, <3>1 DEF LatestCheckpoint
      <4>2. m \in Kept(log) /\ checkpoints[i].size <= checkpoints[m].size
        BY <1>2, <4>1 DEF LatestPostgres
      <4>. QED BY <1>2, <1>3, <3>1, <4>2
    <3>2. CASE headStore # "postgres"
      <4>1. headStore = "memory" BY <3>2 DEF HeadsInv, ChainInv
      <4>2. m \in LatestMemory(log) BY <1>7, <4>1 DEF LatestCheckpoint
      <4>3. m \in Kept(log) /\ i <= m BY <1>2, <4>2 DEF LatestMemory
      <4>. QED BY <1>2, <1>3, <3>2, <4>3
    <3>. QED BY <3>1, <3>2
  <2>3. PICK got : got = <<checkpoints[m]>> OBVIOUS
  <2>4. 1 \in DOMAIN got /\ got[1] = checkpoints[m] BY <2>3
  <2>5. Shows(got, i) BY <2>1, <2>2, <2>4 DEF Shows
  <2>. QED BY <2>3, <2>5
<1>. QED BY <1>5, <1>6, <1>7 DEF LatestCheckpoint

LEMMA ReadCheckpointShows ==
  ASSUME ShownInv, NEW r, ReadCheckpoint(r), HeadsInv'
  PROVE  ShownInv'
<1>1. UNCHANGED <<headStore, checkpoints, erased>> /\ IsDue(r, "latest") BY DEF ReadCheckpoint
<1>2. HeadsInv BY DEF ShownInv
<1>3. CASE LatestCheckpoint(Due(r).log) = {} /\ GoOn(r, <<>>)
  <2>1. ASSUME NEW i \in DOMAIN checkpoints, checkpoints[i].log = Due(r).log, i > erased
        PROVE  Shows(<<>>, i)
    BY <1>2, <1>3, <2>1, ReadShows
  <2>2. <<>> \in Seq(Sths) OBVIOUS
  <2>. QED BY <1>1, <1>3, <2>1, <2>2, StoreMovesOn
<1>4. ASSUME NEW m \in LatestCheckpoint(Due(r).log), GoOn(r, <<checkpoints[m]>>)
      PROVE  ShownInv'
  <2>1. ASSUME NEW i \in DOMAIN checkpoints, checkpoints[i].log = Due(r).log, i > erased
        PROVE  Shows(<<checkpoints[m]>>, i)
    BY <1>2, <1>4, <2>1, ReadShows
  <2>2. checkpoints \in Seq(Sths) /\ erased \in Nat BY <1>2 DEF HeadsInv, RowsInv, ChainInv
  <2>3. m \in DOMAIN checkpoints
    <3>1. m \in erased + 1 .. Len(checkpoints)
      BY <1>4 DEF LatestCheckpoint, LatestMemory, LatestPostgres, Kept
    <3>. QED BY <2>2, <3>1
  <2>4. <<checkpoints[m]>> \in Seq(Sths) BY <2>2, <2>3
  <2>. QED BY <1>1, <1>4, <2>1, <2>4, StoreMovesOn
<1>. QED BY <1>3, <1>4 DEF ReadCheckpoint

\* A request that stores its checkpoint has nothing left to store, and stored none before.
LEMMA PutCheckpointShows ==
  ASSUME ShownInv, NEW r, PutCheckpoint(r), HeadsInv'
  PROVE  ShownInv'
<1>. USE DEF ShownInv
<1>1. IsDue(r, "put") /\ GoOn(r, <<>>) /\ UNCHANGED <<headStore, erased>> BY DEF PutCheckpoint
<1>2. PICK row : checkpoints' = Append(checkpoints, row) /\ row.by = r
  <2>1. PICK old : old = headCalls[r] OBVIOUS
  <2>2. old \in HeadCallSet /\ Anchored(old.work, old.got) /\ old.work # <<>>
        /\ Head(old.work).do = "put"
    BY <1>1, <2>1, DueCall DEF HeadsInv, CallInv, Due
  <2>3. old.work \in Seq(Items) /\ old.got \in Seq(Sths) BY <2>2 DEF HeadCallSet
  <2>4. old.got # <<>> BY <2>2, <2>3 DEF Anchored
  <2>5. old.got[1] \in Sths BY <2>3, <2>4
  <2>6. PICK row : row = [old.got[1] EXCEPT !.contract = FALSE, !.by = r] OBVIOUS
  <2>7. row.by = r BY <2>5, <2>6 DEF Sths
  <2>. QED BY <2>1, <2>6, <2>7 DEF PutCheckpoint
<1>3. checkpoints \in Seq(Sths) /\ headCalls \in Seq(HeadCallSet)
  BY DEF HeadsInv, RowsInv, CallsInv
<1>4. PICK n : n = Len(checkpoints) + 1 /\ n \in Nat BY <1>3
<1>5. /\ \A i \in DOMAIN checkpoints :
           i \in DOMAIN checkpoints' /\ checkpoints'[i] = checkpoints[i] /\ i # n
      /\ \A i \in DOMAIN checkpoints' : i \in DOMAIN checkpoints \/ (i = n /\ checkpoints'[i] = row)
  BY <1>2, <1>3, <1>4
<1>6. PICK old : old = headCalls[r] OBVIOUS
<1>7. PICK c : c = GoneOn(old, <<>>) OBVIOUS
<1>8. /\ r \in DOMAIN headCalls /\ old \in HeadCallSet /\ old.answer = "none"
      /\ StoreInv(c) /\ c.answer = "none" /\ Becomes(r, c)
      /\ \A k \in DOMAIN c.work : k + 1 \in DOMAIN old.work /\ c.work[k] = old.work[k + 1]
  <2>. HIDE DEF ShownInv
  <2>1. <<>> \in Seq(Sths) OBVIOUS
  <2>2. PICK sths \in Seq(Sths) : sths = <<>> BY <2>1
  <2>3. GoOn(r, sths) /\ c = GoneOn(old, sths) BY <1>1, <1>7, <2>2
  <2>. QED BY <1>1, <1>6, <2>3, StoreGoesOn
<1>9. DOMAIN headCalls' = DOMAIN headCalls /\ headCalls'[r] = c
      /\ \A q \in DOMAIN headCalls : q # r => headCalls'[q] = headCalls[q]
  BY <1>3, <1>8 DEF Becomes
<1>10. Later BY <1>1, <1>2, <1>5, <1>6, <1>8, <1>9 DEF Later
<1>11. ASSUME NEW q \in DOMAIN headCalls' PROVE StoreInv(headCalls[q])'
  <2>1. PICK d : d = headCalls'[q] OBVIOUS
  <2>2. StoreInv(d) BY <1>8, <1>9, <2>1
  <2>3. StoreInv(d)' BY <1>1, <1>10, <2>2, StoreStays
  <2>. QED BY <2>1, <2>3 DEF StoreInv, ShowInv, Shows
<1>12. 1 \in DOMAIN old.work /\ old.work[1].do = "put" /\ old.work \in Seq(Items)
  BY <1>1, <1>6, <1>8 DEF IsDue, HeadCallSet
<1>13. \A i \in DOMAIN checkpoints : checkpoints[i].by # r BY <1>6, <1>12 DEF StoredOnce
<1>14. \A k \in DOMAIN c.work : c.work[k].do # "put"
  <2>1. SUFFICES ASSUME NEW k \in DOMAIN c.work, c.work[k].do = "put" PROVE FALSE OBVIOUS
  <2>2. OnePut(old.work) BY <1>6, <1>8 DEF StoreInv
  <2>3. k + 1 = 1 BY <1>8, <1>12, <2>1, <2>2 DEF OnePut
  <2>4. k + 1 \in 1 .. Len(old.work) BY <1>8, <1>12, <2>1
  <2>5. c.work = Tail(old.work) BY <1>7, <1>8 DEF GoneOn, HeadCallSet
  <2>6. k \in 1 .. Len(old.work) - 1 BY <1>12, <2>1, <2>5
  <2>. QED BY <2>3, <2>6
<1>15. StoredOnce'
  <2>1. ASSUME NEW i \in DOMAIN checkpoints'
        PROVE  /\ checkpoints'[i].by \in DOMAIN headCalls'
               /\ \A k \in DOMAIN headCalls'[checkpoints'[i].by].work :
                    headCalls'[checkpoints'[i].by].work[k].do # "put"
    <3>1. CASE i \in DOMAIN checkpoints BY <1>5, <1>9, <1>13, <3>1 DEF StoredOnce
    <3>2. CASE i \notin DOMAIN checkpoints BY <1>2, <1>5, <1>8, <1>9, <1>14, <3>2
    <3>. QED BY <3>1, <3>2
  <2>2. ASSUME NEW i \in DOMAIN checkpoints', NEW j \in DOMAIN checkpoints',
               checkpoints'[i].by = checkpoints'[j].by
        PROVE  i = j
    BY <1>2, <1>5, <1>13, <2>2 DEF StoredOnce
  <2>. QED BY <2>1, <2>2 DEF StoredOnce
<1>. QED BY <1>11, <1>15

\* No request is at work after a restart.
LEMMA RestartLedgerShows ==
  ASSUME ShownInv, RestartLedger, HeadsInv'
  PROVE  ShownInv'
<1>. USE DEF ShownInv
<1>1. UNCHANGED <<headStore, checkpoints>> /\ DOMAIN headCalls' = DOMAIN headCalls
  BY DEF RestartLedger
<1>2. ASSUME NEW q \in DOMAIN headCalls
      PROVE  /\ StoreInv(headCalls'[q]) /\ headCalls'[q].answer # "none"
             /\ headCalls[q].answer # "none" => headCalls'[q] = headCalls[q]
             /\ headCalls'[q].work = headCalls[q].work \/ headCalls'[q].work = <<>>
  <2>1. PICK old, c : old = headCalls[q] /\ c = headCalls'[q] OBVIOUS
  <2>2. old \in HeadCallSet /\ StoreInv(old) BY <1>2, <2>1 DEF HeadsInv, CallsInv
  <2>3. c = IF old.answer # "none" THEN old
            ELSE [old EXCEPT !.work = <<>>, !.tx = 0, !.answer = "lost"]
    BY <2>1 DEF RestartLedger
  <2>4. CASE old.answer # "none" BY <2>1, <2>2, <2>3, <2>4
  <2>5. CASE old.answer = "none"
    <3>1. /\ c.work = <<>> /\ c.answer = "lost" /\ c.op = old.op /\ c.asked = old.asked
          /\ c.earlier = old.earlier
      BY <2>2, <2>3, <2>5 DEF HeadCallSet
    <3>2. StoreInv(c) BY <2>2, <3>1 DEF StoreInv, ShowInv, OnePut
    <3>. QED BY <2>1, <2>5, <3>1, <3>2
  <2>. QED BY <2>4, <2>5
<1>3. Later BY <1>1, <1>2 DEF Later
<1>4. ASSUME NEW q \in DOMAIN headCalls' PROVE StoreInv(headCalls[q])'
  <2>1. PICK d : d = headCalls'[q] OBVIOUS
  <2>2. StoreInv(d) /\ d.answer # "none" BY <1>1, <1>2, <2>1
  <2>3. StoreInv(d)' BY <1>3, <2>2, StoreStays
  <2>. QED BY <2>1, <2>3 DEF StoreInv, ShowInv, Shows
<1>5. StoredOnce' BY <1>1, <1>2 DEF StoredOnce
<1>. QED BY <1>4, <1>5

-----------------------------------------------------------------------------
LEMMA ShownInvInit == HeadsInit => ShownInv
BY HeadsInvInit DEF HeadsInit, ShownInv, StoredOnce

LEMMA ShownInvStep == ShownInv /\ [HeadsNext]_headVars => ShownInv'
<1>. SUFFICES ASSUME ShownInv, [HeadsNext]_headVars PROVE ShownInv' OBVIOUS
<1>1. HeadsInv' BY HeadsInvStep DEF ShownInv
<1>2. ASSUME UNCHANGED <<headStore, checkpoints, erased, headCalls>> PROVE ShownInv'
  <2>1. Later BY <1>2 DEF Later
  <2>2. ASSUME NEW q \in DOMAIN headCalls' PROVE StoreInv(headCalls[q])'
    <3>1. PICK d : d = headCalls'[q] OBVIOUS
    <3>2. StoreInv(d) BY <1>2, <3>1 DEF ShownInv
    <3>3. StoreInv(d)' BY <1>2, <2>1, <3>2, StoreStays
    <3>. QED BY <3>1, <3>3 DEF StoreInv, ShowInv, Shows
  <2>3. StoredOnce' BY <1>2 DEF ShownInv, StoredOnce
  <2>. QED BY <1>1, <2>2, <2>3 DEF ShownInv
<1>3. CASE UNCHANGED headVars BY <1>2, <1>3 DEF headVars
<1>4. ASSUME NEW t, MineHead(t) PROVE ShownInv' BY <1>2, <1>4 DEF MineHead
<1>. QED BY <1>1, <1>3, <1>4, HeadRequestShows, ResendHeadShows, ReplyHeadShows, SubmitHeadShows,
            AwaitHeadShows, HeadStoreFailsShows, PutCheckpointShows, ReadCheckpointShows,
            RestartLedgerShows DEF HeadsNext

\* Whatever was submitted meanwhile: a bundle of verifyBundle shows, of each log, a checkpoint
\* that is not smaller (Postgres) or not older (memory) than any that was acknowledged before
\* the bundle was asked for and not lost at a restart.
THEOREM LargestShown == HeadsSpec => []LargestCheckpointShown
<1>1. ShownInv => LargestCheckpointShown
  <2>1. SUFFICES ASSUME ShownInv, NEW r \in DOMAIN headCalls, headCalls[r].op = "bundle",
                        headCalls[r].answer = "ok", NEW q \in headCalls[r].earlier,
                        NEW i \in StoredAt(q), checkpoints[i].log \in Elements(AttestedLogs),
                        i > headCalls[r].erased
                 PROVE  \E k \in DOMAIN headCalls[r].got :
                          LET shown == headCalls[r].got[k] IN
                          /\ shown.by # 0 /\ shown.log = checkpoints[i].log
                          /\ IF headStore = "postgres" THEN shown.size >= checkpoints[i].size
                             ELSE \A j \in StoredAt(shown.by) : j >= i
    BY DEF LargestCheckpointShown
  <2>2. PICK c : c = headCalls[r] OBVIOUS
  <2>3. StoreInv(c) /\ c.work = <<>> BY <2>1, <2>2 DEF ShownInv, StoreInv
  <2>4. i \in DOMAIN checkpoints /\ checkpoints[i].by = q BY <2>1 DEF StoredAt
  <2>5. Shows(c.got, i) BY <2>1, <2>2, <2>3, <2>4 DEF StoreInv, ShowInv, Pending
  <2>6. PICK k \in DOMAIN c.got, m \in DOMAIN checkpoints :
          /\ c.got[k] = checkpoints[m] /\ checkpoints[m].log = checkpoints[i].log
          /\ IF headStore = "postgres" THEN checkpoints[m].size >= checkpoints[i].size ELSE m >= i
    BY <2>5 DEF Shows
  <2>7. checkpoints[m].by # 0
    <3>1. checkpoints[m].by \in DOMAIN headCalls BY <2>1 DEF ShownInv, StoredOnce
    <3>2. headCalls \in Seq(HeadCallSet) BY <2>1 DEF ShownInv, HeadsInv, CallsInv
    <3>. QED BY <3>1, <3>2
  <2>8. \A j \in StoredAt(checkpoints[m].by) : j = m BY <2>1 DEF StoredAt, ShownInv, StoredOnce
  <2>. QED BY <2>2, <2>6, <2>7, <2>8
<1>. QED BY <1>1, ShownInvInit, ShownInvStep, PTL DEF HeadsSpec

-----------------------------------------------------------------------------
(***************************************************************************)
(* GovernedIssuers: GovernanceContract and the IssuerRegistry it governs.   *)
(***************************************************************************)

-----------------------------------------------------------------------------
(* Type correctness.                                                         *)

Slot == [call : Calls \cup {NoCall}, state : States, count : Nat]
Record == [known : BOOLEAN, status : Statuses, controller : Controllers \cup {Nobody},
           key : Keys \cup {Nobody}]

LEMMA TypeInit == Init => TypeOK
<1> SUFFICES ASSUME Init PROVE TypeOK OBVIOUS
<1>1. Unused \in Slot BY DEF Unused, Slot, States
<1>2. GovTypeOK
  BY <1>1, GovernanceAssumption DEF Init, GovInit, GovTypeOK, Slot
<1>3. Unknown \in Record BY DEF Unknown, Record, Statuses
<1>4. RegTypeOK
  BY <1>3, GovernedAssumption DEF Init, RegInit, RegTypeOK, Record
<1>5. QED BY <1>2, <1>4 DEF TypeOK

\* An approval keeps the slot well formed, counts once, and makes it executable
\* only when the count has reached the threshold.
LEMMA ApprovedSlot ==
  ASSUME NEW p \in Slot, threshold \in Nat
  PROVE  /\ WithApproval(p) \in Slot
         /\ WithApproval(p).call = p.call
         /\ WithApproval(p).count = p.count + 1
         /\ WithApproval(p).state \in {p.state, "Approved"}
         /\ WithApproval(p).state # p.state => threshold <= p.count + 1
BY DEF Slot, WithApproval, States

LEMMA ThresholdNat ==
  ASSUME GovTypeOK
  PROVE  threshold \in Nat
BY GovernanceAssumption, FS_CardinalityType, FS_Subset DEF GovTypeOK

\* What propose and approve do: slot id gets the contents p with one approval.
LEMMA ApproveSlotEffect ==
  ASSUME GovTypeOK, NEW g \in Accounts, NEW id \in Ids, NEW p \in Slot, ApproveSlot(g, id, p)
  PROVE  /\ p.state = "Pending" /\ <<id, g>> \notin approvals
         /\ approvals' = approvals \cup {<<id, g>>}
         /\ proposals' = [proposals EXCEPT ![id] = WithApproval(p)]
         /\ proposals' \in [Ids -> Slot]
         /\ WithApproval(p) \in Slot
<1>1. WithApproval(p) \in Slot BY ThresholdNat, ApprovedSlot
<1>2. proposals \in [Ids -> Slot] BY DEF GovTypeOK, Slot
<1>3. QED BY <1>1, <1>2 DEF ApproveSlot

LEMMA NewSlot ==
  ASSUME NEW c \in Calls
  PROVE  [call |-> c, state |-> "Pending", count |-> 0] \in Slot
BY DEF Slot, States

LEMMA GovTypeStep ==
  ASSUME GovTypeOK, GovStep \/ (\E g \in Accounts, id \in Ids : Execute(g, id)) \/ UNCHANGED govVars
  PROVE  GovTypeOK'
<1>0. proposals \in [Ids -> Slot] BY DEF GovTypeOK, Slot
<1>1. ASSUME NEW g \in Accounts, NEW c \in Calls, Propose(g, c) PROVE GovTypeOK'
  <2>1. proposalCount + 1 \in Ids /\ proposalCount' = proposalCount + 1
    BY <1>1, GovernanceAssumption DEF Propose, Ids, GovTypeOK
  <2>2. proposals' \in [Ids -> Slot] /\ approvals' = approvals \cup {<<proposalCount + 1, g>>}
    BY <1>1, <2>1, NewSlot, ApproveSlotEffect DEF Propose
  <2>3. QED BY <1>1, <2>1, <2>2 DEF Propose, GovTypeOK, Ids, Slot
<1>2. ASSUME NEW g \in Accounts, NEW id \in Ids, Approve(g, id) PROVE GovTypeOK'
  <2>1. proposals[id] \in Slot BY <1>0
  <2>2. proposals' \in [Ids -> Slot] /\ approvals' = approvals \cup {<<id, g>>}
    BY <1>2, <2>1, ApproveSlotEffect DEF Approve
  <2>3. QED BY <1>2, <2>2 DEF Approve, GovTypeOK, Slot
<1>3. ASSUME NEW g \in Accounts, NEW id \in Ids, Execute(g, id) \/ Cancel(g, id) PROVE GovTypeOK'
  BY <1>3, <1>0 DEF Execute, Cancel, GovTypeOK, Slot, States
<1>4. ASSUME NEW n \in Thresholds, SetApprovalThreshold(n) PROVE GovTypeOK'
  BY <1>4 DEF SetApprovalThreshold, GovTypeOK
<1>5. ASSUME NEW a \in Accounts, ChangeGovernor(a) PROVE GovTypeOK'
  BY <1>5 DEF ChangeGovernor, GovTypeOK
<1>6. CASE UNCHANGED govVars
  BY <1>6 DEF govVars, GovTypeOK
<1>7. QED BY <1>1, <1>2, <1>3, <1>4, <1>5, <1>6 DEF GovStep

\* What a call to the registry may do, whoever sends it.
LEMMA RegistryEffect ==
  ASSUME RegTypeOK, NEW sender, NEW c \in Calls, Registry(sender, c)
  PROVE  /\ registrars' = registrars
         /\ c.issuer \in Issuers
         /\ issuers' \in [Issuers -> Record]
         /\ \A i \in Issuers : i # c.issuer => issuers'[i] = issuers[i]
         /\ c.op = "add" => ~issuers[c.issuer].known
         /\ issuers'[c.issuer].known
         /\ issuers[c.issuer].known =>
              /\ issuers'[c.issuer].controller = issuers[c.issuer].controller
              /\ issuers[c.issuer].status = "Revoked" => issuers'[c.issuer].status = "Revoked"
<1>0. issuers \in [Issuers -> Record] BY DEF RegTypeOK, Record
<1>1. c \in IssuerCalls BY GovernedAssumption
<1>2. CASE c.op = "add" /\ AddIssuer(sender, c.issuer, c.controller, c.key)
  <2>1. c.issuer \in Issuers /\ c.controller \in Controllers /\ c.key \in Keys
    BY <1>1, <1>2 DEF IssuerCalls
  <2>2. QED BY <1>0, <1>2, <2>1 DEF AddIssuer, Record, Statuses
<1>3. CASE c.op = "status" /\ SetIssuerStatus(sender, c.issuer, c.status)
  <2>1. c.issuer \in Issuers /\ c.status \in Statuses BY <1>1, <1>3 DEF IssuerCalls
  <2>2. QED BY <1>0, <1>3, <2>1 DEF SetIssuerStatus, IsValidTransition, Record, Statuses
<1>4. CASE c.op = "rotate" /\ RotateIssuerKey(sender, c.issuer, c.key)
  <2>1. c.issuer \in Issuers /\ c.key \in Keys BY <1>1, <1>4 DEF IssuerCalls
  <2>2. QED BY <1>0, <1>4, <2>1 DEF RotateIssuerKey, Record
<1>5. QED BY <1>2, <1>3, <1>4 DEF Registry

LEMMA TypeStep ==
  ASSUME TypeOK, [Next]_vars
  PROVE  TypeOK'
<1>0. GovTypeOK /\ RegTypeOK /\ proposals \in [Ids -> Slot] BY DEF TypeOK, GovTypeOK, Slot
<1>1. CASE GovStep /\ UNCHANGED regVars
  BY <1>0, <1>1, GovTypeStep DEF TypeOK, RegTypeOK, regVars
<1>2. CASE ExecuteProposal
  <2>1. PICK g \in Accounts, id \in Ids :
          /\ Execute(g, id)
          /\ \/ Registry(Contract, proposals[id].call)
             \/ proposals[id].call = NoCall /\ UNCHANGED regVars
    BY <1>2 DEF ExecuteProposal
  <2>2. GovTypeOK' BY <1>0, <2>1, GovTypeStep
  <2>3. CASE UNCHANGED regVars
    BY <1>0, <2>2, <2>3 DEF TypeOK, RegTypeOK, regVars
  <2>4. CASE Registry(Contract, proposals[id].call)
    <3>1. proposals[id].call # NoCall
      BY <2>4, GovernedAssumption DEF Registry
    <3>2. proposals[id].call \in Calls BY <1>0, <3>1 DEF Slot
    <3>3. RegTypeOK' BY <1>0, <2>4, <3>2, RegistryEffect DEF RegTypeOK, Record
    <3>4. QED BY <2>2, <3>3 DEF TypeOK
  <2>5. QED BY <2>1, <2>3, <2>4
<1>3. CASE CallRegistry
  <2>1. PICK sender \in (Registrars \cup Controllers) \ {Contract}, c \in Calls : Registry(sender, c)
    BY <1>3 DEF CallRegistry
  <2>2. RegTypeOK' BY <1>0, <2>1, RegistryEffect DEF RegTypeOK, Record
  <2>3. GovTypeOK' BY <1>0, <1>3, GovTypeStep DEF CallRegistry
  <2>4. QED BY <2>2, <2>3 DEF TypeOK
<1>4. CASE (\E a \in Registrars : ChangeRegistrar(a)) /\ UNCHANGED govVars
  BY <1>0, <1>4, GovTypeStep DEF ChangeRegistrar, TypeOK, RegTypeOK
<1>5. CASE UNCHANGED vars
  BY <1>0, <1>5, GovTypeStep DEF vars, TypeOK, RegTypeOK, regVars, govVars
<1>6. QED BY <1>1, <1>2, <1>3, <1>4, <1>5 DEF Next

\* TypeCorrect: the state of both contracts keeps its type.
THEOREM TypeCorrect == Spec => []TypeOK
BY TypeInit, TypeStep, PTL DEF Spec

-----------------------------------------------------------------------------
(* The quorum.                                                               *)

\* A count never exceeds the approvers of its slot, and what left the pending
\* state by approval had reached a threshold in force at that time.
Counted(id) ==
  /\ proposals[id].count <= Cardinality(Approvers(id))
  /\ proposals[id].state \in {"Approved", "Executed"} =>
       \E n \in Thresholds \cup {InitialThreshold} : n <= proposals[id].count

QuorumInv == \A id \in Ids : Counted(id)

\* Approvers are finitely many, and a first approval adds one.
LEMMA ApproversGrow ==
  ASSUME NEW id \in Ids, NEW g \in Accounts, <<id, g>> \notin approvals,
         approvals' = approvals \cup {<<id, g>>}
  PROVE  /\ Cardinality(Approvers(id)) \in Nat
         /\ Cardinality(Approvers(id)') = Cardinality(Approvers(id)) + 1
         /\ \A other \in Ids : other # id => Approvers(other)' = Approvers(other)
<1>1. IsFiniteSet(Approvers(id))
  BY GovernanceAssumption, FS_Subset DEF Approvers
<1>2. g \notin Approvers(id) /\ Approvers(id)' = Approvers(id) \cup {g}
  BY DEF Approvers
<1>3. QED BY <1>1, <1>2, FS_AddElement, FS_CardinalityType DEF Approvers

\* Slot id takes the contents p, whose count the approvers cover, and one more
\* approval: the quorum invariant holds afterwards.
LEMMA ApprovalCounts ==
  ASSUME TypeOK, QuorumInv, NEW g \in Accounts, NEW id \in Ids, NEW p \in Slot,
         ApproveSlot(g, id, p), p.count <= Cardinality(Approvers(id))
  PROVE  QuorumInv'
<1>0. GovTypeOK /\ proposals \in [Ids -> Slot] BY DEF TypeOK, GovTypeOK, Slot
<1>1. /\ p.state = "Pending" /\ <<id, g>> \notin approvals
      /\ approvals' = approvals \cup {<<id, g>>}
      /\ proposals' = [proposals EXCEPT ![id] = WithApproval(p)]
  BY <1>0, ApproveSlotEffect
<1>2. /\ Cardinality(Approvers(id)) \in Nat
      /\ Cardinality(Approvers(id)') = Cardinality(Approvers(id)) + 1
      /\ \A other \in Ids : other # id => Approvers(other)' = Approvers(other)
  BY <1>1, ApproversGrow
<1>3. proposals'[id] = WithApproval(p) BY <1>0, <1>1
<1>4. /\ WithApproval(p).count = p.count + 1
      /\ WithApproval(p).state # p.state => threshold <= p.count + 1
  BY <1>0, ThresholdNat, ApprovedSlot
<1>5. Counted(id)'
  <2>1. p.count \in Nat BY DEF Slot
  <2>2. proposals'[id].count <= Cardinality(Approvers(id)')
    BY <1>2, <1>3, <1>4, <2>1
  <2>3. proposals'[id].state \in {"Approved", "Executed"} => threshold <= proposals'[id].count
    BY <1>1, <1>3, <1>4
  <2>4. threshold \in Thresholds \cup {InitialThreshold} BY <1>0 DEF GovTypeOK
  <2>5. QED BY <2>2, <2>3, <2>4 DEF Counted
<1>6. ASSUME NEW other \in Ids, other # id PROVE Counted(other)'
  <2>1. proposals'[other] = proposals[other] BY <1>0, <1>1, <1>6
  <2>2. Approvers(other)' = Approvers(other) BY <1>2, <1>6
  <2>3. QED BY <2>1, <2>2 DEF QuorumInv, Counted
<1>7. QED BY <1>5, <1>6 DEF QuorumInv

LEMMA QuorumInit == Init => QuorumInv
<1> SUFFICES ASSUME Init, NEW id \in Ids PROVE Counted(id) BY DEF QuorumInv
<1>1. proposals[id] = Unused /\ Approvers(id) = {} BY DEF Init, GovInit, Approvers
<1>2. Cardinality(Approvers(id)) = 0 BY <1>1, FS_EmptySet
<1>3. QED BY <1>1, <1>2 DEF Counted, Unused

LEMMA QuorumStep ==
  ASSUME TypeOK, QuorumInv, [Next]_vars
  PROVE  QuorumInv'
<1>0. GovTypeOK /\ proposals \in [Ids -> Slot] BY DEF TypeOK, GovTypeOK, Slot
<1>1. ASSUME NEW g \in Accounts, NEW c \in Calls, Propose(g, c) PROVE QuorumInv'
  <2>1. proposalCount + 1 \in Ids
    BY <1>0, <1>1, GovernanceAssumption DEF Propose, Ids, GovTypeOK
  <2>2. Cardinality(Approvers(proposalCount + 1)) \in Nat
    <3>1. Approvers(proposalCount + 1) \subseteq Accounts BY DEF Approvers
    <3>2. IsFiniteSet(Approvers(proposalCount + 1)) BY <3>1, GovernanceAssumption, FS_Subset
    <3>3. QED BY <3>2, FS_CardinalityType
  <2>3. QED BY <1>1, <2>1, <2>2, NewSlot, ApprovalCounts DEF Propose
<1>2. ASSUME NEW g \in Accounts, NEW id \in Ids, Approve(g, id) PROVE QuorumInv'
  BY <1>0, <1>2, ApprovalCounts DEF Approve, QuorumInv, Counted
<1>3. ASSUME NEW g \in Accounts, NEW id \in Ids, Execute(g, id) \/ Cancel(g, id) PROVE QuorumInv'
  <2>1. SUFFICES ASSUME NEW other \in Ids PROVE Counted(other)'
    BY DEF QuorumInv
  <2>2. Approvers(other)' = Approvers(other) BY <1>3 DEF Execute, Cancel, Approvers
  <2>3. /\ proposals'[other].count = proposals[other].count
        /\ proposals'[other].state \in {"Approved", "Executed"} =>
             proposals[other].state \in {"Approved", "Executed"}
    BY <1>0, <1>3 DEF Execute, Cancel, Slot, States
  <2>4. QED BY <2>2, <2>3 DEF Counted, QuorumInv
<1>4. CASE UNCHANGED <<proposals, approvals>>
  BY <1>4 DEF QuorumInv, Counted, Approvers
<1>5. GovStep \/ (\E g \in Accounts, id \in Ids : Execute(g, id)) \/ UNCHANGED govVars
  BY DEF Next, ExecuteProposal, CallRegistry, vars
<1>6. QED
  BY <1>1, <1>2, <1>3, <1>4, <1>5 DEF GovStep, SetApprovalThreshold, ChangeGovernor, govVars

\* QuorumHolds: nothing becomes executable or executed without the approvals of
\* as many distinct accounts as some threshold in force required.
THEOREM QuorumHolds == Spec => []Quorum
<1>1. QuorumInv => Quorum BY DEF QuorumInv, Counted, Quorum
<1>2. QED BY <1>1, TypeInit, TypeStep, QuorumInit, QuorumStep, PTL DEF Spec

-----------------------------------------------------------------------------
(* The registry.                                                             *)

\* RevokedStays: no proposal, registrar or controller brings a revoked issuer
\* back, or takes an issuer's controller away.
THEOREM RevokedStays == Spec => RevokedIsFinal
<1> DEFINE KeptOf(i) ==
      issuers[i].known =>
        /\ issuers'[i].known /\ issuers'[i].controller = issuers[i].controller
        /\ issuers[i].status = "Revoked" => issuers'[i].status = "Revoked"
<1>1. ASSUME TypeOK, [Next]_vars PROVE \A i \in Issuers : KeptOf(i)
  <2>0. RegTypeOK /\ proposals \in [Ids -> Slot] BY <1>1 DEF TypeOK, GovTypeOK, Slot
  <2>1. ASSUME NEW sender, NEW c \in Calls, Registry(sender, c) PROVE \A i \in Issuers : KeptOf(i)
    BY <2>0, <2>1, RegistryEffect
  <2>2. CASE UNCHANGED issuers
    BY <2>2
  <2>3. CASE ExecuteProposal
    <3>1. PICK id \in Ids : \/ Registry(Contract, proposals[id].call)
                            \/ proposals[id].call = NoCall /\ UNCHANGED regVars
      BY <2>3 DEF ExecuteProposal
    <3>2. CASE Registry(Contract, proposals[id].call)
      <4>1. proposals[id].call # NoCall BY <3>2, GovernedAssumption DEF Registry
      <4>2. proposals[id].call \in Calls BY <2>0, <4>1 DEF Slot
      <4>3. QED BY <3>2, <4>2, <2>1
    <3>3. QED BY <3>1, <3>2, <2>2 DEF regVars
  <2>4. QED BY <1>1, <2>1, <2>2, <2>3 DEF Next, CallRegistry, ChangeRegistrar, vars, regVars
<1>2. TypeOK /\ [Next]_vars => [\A i \in Issuers : KeptOf(i)]_regVars
  BY <1>1
<1>3. QED BY <1>2, TypeInit, TypeStep, PTL DEF Spec, RevokedIsFinal

\* What an executed proposal added is registered.
AddInv == \A i \in Issuers : \A id \in Ids : Adds(id, i) => issuers[i].known

LEMMA AddStep ==
  ASSUME TypeOK, AddInv, AddedOnce, [Next]_vars
  PROVE  AddInv' /\ AddedOnce'
<1>0. GovTypeOK /\ RegTypeOK /\ proposals \in [Ids -> Slot] BY DEF TypeOK, GovTypeOK, Slot
<1>1. CASE ExecuteProposal
  <2>1. PICK g \in Accounts, id \in Ids :
          /\ Execute(g, id)
          /\ \/ Registry(Contract, proposals[id].call)
             \/ proposals[id].call = NoCall /\ UNCHANGED regVars
    BY <1>1 DEF ExecuteProposal
  <2>2. proposals' = [proposals EXCEPT ![id].state = "Executed"] BY <2>1 DEF Execute
  <2>3. \A other \in Ids, i \in Issuers : other # id => (Adds(other, i)' <=> Adds(other, i))
    BY <1>0, <2>2 DEF Adds
  <2>4. proposals'[id].call = proposals[id].call BY <1>0, <2>2 DEF Slot
  <2>5. CASE proposals[id].call = NoCall /\ UNCHANGED regVars
    <3>1. \A i \in Issuers : ~Adds(id, i)' BY <2>4, <2>5, GovernedAssumption DEF Adds
    <3>2. QED BY <2>3, <2>5, <3>1 DEF AddInv, AddedOnce, regVars
  <2>6. CASE Registry(Contract, proposals[id].call)
    <3>1. proposals[id].call # NoCall BY <2>6, GovernedAssumption DEF Registry
    <3>2. proposals[id].call \in Calls BY <1>0, <3>1 DEF Slot
    <3>3. /\ \A i \in Issuers : issuers[i].known => issuers'[i].known
          /\ proposals[id].call.op = "add" => ~issuers[proposals[id].call.issuer].known
          /\ issuers'[proposals[id].call.issuer].known
      BY <1>0, <2>6, <3>2, RegistryEffect
    <3>4. \A i \in Issuers : Adds(id, i)' => ~issuers[i].known /\ issuers'[i].known
      BY <2>4, <3>3 DEF Adds
    <3>5. QED BY <2>3, <3>3, <3>4 DEF AddInv, AddedOnce
  <2>7. QED BY <2>1, <2>5, <2>6
<1>2. ASSUME \A id \in Ids, i \in Issuers : Adds(id, i)' => Adds(id, i),
             \A i \in Issuers : issuers[i].known => issuers'[i].known
      PROVE  AddInv' /\ AddedOnce'
  BY <1>2 DEF AddInv, AddedOnce
<1>3. CASE GovStep /\ UNCHANGED regVars
  <2>1. ASSUME NEW g \in Accounts, NEW id \in Ids, NEW p \in Slot, ApproveSlot(g, id, p)
        PROVE  \A other \in Ids, i \in Issuers : Adds(other, i)' => Adds(other, i)
    <3>1. proposals' = [proposals EXCEPT ![id] = WithApproval(p)] /\ p.state = "Pending"
      BY <2>1 DEF ApproveSlot
    <3>2. WithApproval(p).state \in {"Pending", "Approved"}
      BY <1>0, <3>1, ThresholdNat, ApprovedSlot
    <3>3. QED BY <1>0, <3>1, <3>2 DEF Adds
  <2>2. ASSUME NEW g \in Accounts, NEW c \in Calls, Propose(g, c)
        PROVE  \A other \in Ids, i \in Issuers : Adds(other, i)' => Adds(other, i)
    <3>1. proposalCount + 1 \in Ids
      BY <1>0, <2>2, GovernanceAssumption DEF Propose, Ids, GovTypeOK
    <3>2. QED BY <2>1, <2>2, <3>1, NewSlot DEF Propose
  <2>3. ASSUME NEW g \in Accounts, NEW id \in Ids, Approve(g, id)
        PROVE  \A other \in Ids, i \in Issuers : Adds(other, i)' => Adds(other, i)
    BY <1>0, <2>1, <2>3 DEF Approve
  <2>4. ASSUME NEW g \in Accounts, NEW id \in Ids, Cancel(g, id)
        PROVE  \A other \in Ids, i \in Issuers : Adds(other, i)' => Adds(other, i)
    BY <1>0, <2>4 DEF Cancel, Adds, Slot
  <2>5. CASE UNCHANGED proposals
    BY <1>2, <1>3, <2>5 DEF Adds, regVars
  <2>6. QED
    BY <1>2, <1>3, <2>2, <2>3, <2>4, <2>5
       DEF GovStep, SetApprovalThreshold, ChangeGovernor, regVars
<1>4. CASE CallRegistry
  <2>1. PICK sender \in (Registrars \cup Controllers) \ {Contract}, c \in Calls : Registry(sender, c)
    BY <1>4 DEF CallRegistry
  <2>2. \A i \in Issuers : issuers[i].known => issuers'[i].known BY <1>0, <2>1, RegistryEffect
  <2>3. QED BY <1>2, <1>4, <2>2 DEF CallRegistry, govVars, Adds
<1>5. CASE UNCHANGED <<proposals, issuers>>
  BY <1>2, <1>5 DEF Adds
<1>6. QED
  BY <1>1, <1>3, <1>4, <1>5 DEF Next, ChangeRegistrar, govVars, vars, regVars

\* AddedAtMostOnce: two executed proposals never registered the same issuer.
THEOREM AddedAtMostOnce == Spec => []AddedOnce
<1>1. Init => AddInv /\ AddedOnce
  BY DEF Init, GovInit, AddInv, AddedOnce, Adds, Unused
<1>2. QED BY <1>1, TypeInit, TypeStep, AddStep, PTL DEF Spec

-----------------------------------------------------------------------------
(* Proposals and what they do to the registry.                               *)

\* Slots not proposed yet carry no call, though they can be approved.
SlotInv == \A id \in Ids : id \notin Proposed => proposals[id].call = NoCall

\* What any step does to a slot: a proposal writes the next one; every other step
\* leaves its call, and an executed slot altogether.
LEMMA SlotEffect ==
  ASSUME TypeOK, [Next]_vars, NEW id \in Ids
  PROVE  \/ proposalCount' = proposalCount + 1 /\ id = proposalCount + 1
         \/ /\ proposalCount' \in {proposalCount, proposalCount + 1}
            /\ proposals'[id].call = proposals[id].call
            /\ proposals[id].state = "Executed" => proposals'[id] = proposals[id]
<1>0. GovTypeOK /\ proposals \in [Ids -> Slot] BY DEF TypeOK, GovTypeOK, Slot
<1>1. ASSUME NEW g \in Accounts, NEW c \in Calls, Propose(g, c), id # proposalCount + 1
      PROVE  proposalCount' = proposalCount + 1 /\ proposals'[id] = proposals[id]
  <2>1. proposalCount + 1 \in Ids
    BY <1>0, <1>1, GovernanceAssumption DEF Propose, Ids, GovTypeOK
  <2>. QED BY <1>0, <1>1, <2>1 DEF Propose, ApproveSlot
<1>2. ASSUME NEW g \in Accounts, NEW other \in Ids, Approve(g, other)
      PROVE  /\ proposalCount' = proposalCount /\ proposals'[id].call = proposals[id].call
             /\ proposals[id].state = "Executed" => proposals'[id] = proposals[id]
  <2>1. /\ proposals[other].state = "Pending"
        /\ proposals' = [proposals EXCEPT ![other] = WithApproval(proposals[other])]
    BY <1>2 DEF Approve, ApproveSlot
  <2>2. WithApproval(proposals[other]).call = proposals[other].call
    BY <1>0, ThresholdNat, ApprovedSlot
  <2>. QED BY <1>0, <1>2, <2>1, <2>2 DEF Approve
<1>3. ASSUME NEW g \in Accounts, NEW other \in Ids, Execute(g, other) \/ Cancel(g, other)
      PROVE  /\ proposalCount' = proposalCount /\ proposals'[id].call = proposals[id].call
             /\ proposals[id].state = "Executed" => proposals'[id] = proposals[id]
  BY <1>0, <1>3 DEF Execute, Cancel, Slot
<1>4. CASE UNCHANGED <<proposals, proposalCount>>
  BY <1>4
<1>. QED
  BY <1>1, <1>2, <1>3, <1>4
     DEF Next, GovStep, Propose, SetApprovalThreshold, ChangeGovernor, ExecuteProposal, CallRegistry,
         vars, govVars

LEMMA ProposedIds ==
  ASSUME TypeOK, NEW id \in Ids
  PROVE  id \in Int /\ proposalCount \in Nat /\ (id \in Proposed <=> id <= proposalCount)
BY GovernanceAssumption DEF TypeOK, GovTypeOK, Ids, Proposed

\* ProposalsFixed: once a proposal is made its contents never change, and once it
\* is executed it stays executed, whatever is approved, cancelled or proposed
\* after it.
THEOREM ProposalsFixed == Spec => ProposedIsFixed
<1>1. ASSUME TypeOK, [Next]_vars, NEW id \in Proposed
      PROVE  /\ proposals'[id].call = proposals[id].call
             /\ proposals[id].state = "Executed" => proposals'[id] = proposals[id]
  <2>1. id \in Ids /\ id # proposalCount + 1
    BY <1>1, ProposedIds DEF Proposed
  <2>. QED BY <1>1, <2>1, SlotEffect
<1>2. TypeOK /\ [Next]_vars =>
        [\A id \in Proposed :
           /\ proposals'[id].call = proposals[id].call
           /\ proposals[id].state = "Executed" => proposals'[id] = proposals[id]]_govVars
  BY <1>1
<1>. QED BY <1>2, TypeInit, TypeStep, PTL DEF Spec, ProposedIsFixed

LEMMA SlotStep ==
  ASSUME TypeOK, SlotInv, [Next]_vars
  PROVE  SlotInv'
<1>1. SUFFICES ASSUME NEW id \in Ids, id \notin Proposed'
               PROVE  proposals'[id].call = NoCall
  BY DEF SlotInv, Ids
<1>2. TypeOK' BY TypeStep
<1>3. id \in Int /\ proposalCount \in Nat /\ proposalCount' \in Nat /\ ~(id <= proposalCount')
  BY <1>1, <1>2, ProposedIds DEF TypeOK, GovTypeOK, Proposed
<1>4. id \notin Proposed /\ proposals'[id].call = proposals[id].call
  BY <1>3, SlotEffect, ProposedIds
<1>. QED BY <1>4 DEF SlotInv

\* A call of the registry that is not the contract's, while the contract alone
\* is registrar, changes keys only.
LEMMA ControllersRotateOnly ==
  ASSUME TypeOK, registrars \subseteq {Contract}, NEW sender, sender # Contract,
         NEW c \in Calls, Registry(sender, c), NEW i \in Issuers
  PROVE  issuers'[i] = [issuers[i] EXCEPT !.key = issuers'[i].key]
<1>0. issuers \in [Issuers -> Record] BY DEF TypeOK, RegTypeOK, Record
<1>1. sender \notin registrars OBVIOUS
<1>2. RotateIssuerKey(sender, c.issuer, c.key)
  BY <1>1 DEF Registry, AddIssuer, SetIssuerStatus
<1>. QED BY <1>0, <1>2 DEF RotateIssuerKey, Record

\* ChangesAreBacked: while the contract is the only registrar, an issuer changes
\* only by the execution of an approved proposal about it, apart from a
\* controller's new key; slots approved before they are proposed change nothing.
THEOREM ChangesAreBacked == Spec => ChangesBacked
<1> DEFINE Backed(i) ==
      \/ \E id \in Proposed :
           /\ proposals[id].state = "Approved" /\ proposals'[id].state = "Executed"
           /\ proposals[id].call # NoCall /\ proposals[id].call.issuer = i
      \/ issuers'[i] = [issuers[i] EXCEPT !.key = issuers'[i].key]
<1>1. ASSUME TypeOK, SlotInv, [Next]_vars, NEW i \in Issuers, issuers'[i] # issuers[i],
             registrars \subseteq {Contract}
      PROVE  Backed(i)
  <2>0. RegTypeOK /\ proposals \in [Ids -> Slot] BY <1>1 DEF TypeOK, GovTypeOK, Slot
  <2>1. CASE ExecuteProposal
    <3>1. PICK g \in Accounts, id \in Ids :
            /\ Execute(g, id)
            /\ \/ Registry(Contract, proposals[id].call)
               \/ proposals[id].call = NoCall /\ UNCHANGED regVars
      BY <2>1 DEF ExecuteProposal
    <3>2. Registry(Contract, proposals[id].call)
      BY <1>1, <3>1 DEF regVars
    <3>3. proposals[id].call # NoCall BY <3>2, GovernedAssumption DEF Registry
    <3>4. proposals[id].call \in Calls BY <2>0, <3>3 DEF Slot
    <3>5. proposals[id].call.issuer = i BY <1>1, <2>0, <3>2, <3>4, RegistryEffect
    <3>6. id \in Proposed BY <1>1, <3>3 DEF SlotInv
    <3>7. proposals[id].state = "Approved" /\ proposals'[id].state = "Executed"
      BY <2>0, <3>1 DEF Execute, Slot
    <3>. QED BY <3>3, <3>5, <3>6, <3>7
  <2>2. CASE CallRegistry
    <3>1. PICK sender \in (Registrars \cup Controllers) \ {Contract}, c \in Calls : Registry(sender, c)
      BY <2>2 DEF CallRegistry
    <3>. QED BY <1>1, <3>1, ControllersRotateOnly
  <2>. QED BY <1>1, <2>1, <2>2 DEF Next, ChangeRegistrar, vars, regVars
<1>2. TypeOK /\ SlotInv /\ [Next]_vars =>
        [\A i \in Issuers : issuers'[i] # issuers[i] /\ registrars \subseteq {Contract} => Backed(i)]_vars
  BY <1>1
<1>3. Init => SlotInv
  BY DEF Init, GovInit, SlotInv, Unused
<1>. QED BY <1>2, <1>3, TypeInit, TypeStep, SlotStep, PTL DEF Spec, ChangesBacked
=============================================================================
