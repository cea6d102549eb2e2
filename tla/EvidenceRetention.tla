------------------------- MODULE EvidenceRetention --------------------------
(***************************************************************************)
(* Evidence under retention in the registry ledger: registerEvidence,      *)
(* updateRetention and deleteEvidence as concurrent requests of the Aurum  *)
(* client over the memory or the Postgres store.  appendAndAnchor, which   *)
(* LedgerLog models, is one step here: a leaf of the tenant's log.  Where  *)
(* the chain is not available after a change was made, the answer is 503   *)
(* and the client sends the request again.  Time is counted in days.       *)
(***************************************************************************)
EXTENDS Integers, Sequences, FiniteSets

CONSTANTS
  Tenants, Hashes,
  Untils,            \* days a retention may be set to end
  Retentions,        \* what registrations ask for
  EvidenceStores,    \* stores to start with: subset of {"memory", "postgres"}
  Zone,              \* the service's time zone: "utc" (or west of it), "east"
  MaxDay,            \* bound: days that pass
  MaxCalls,          \* bound: requests in one behaviour
  MaxResends         \* bound: requests sent again after 503

ASSUME EvidenceAssumption ==
  /\ Retentions \subseteq [until : Untils, hold : BOOLEAN]
  /\ Untils \subseteq Nat /\ {MaxDay, MaxCalls, MaxResends} \subseteq Nat
  /\ EvidenceStores \subseteq {"memory", "postgres"} /\ Zone \in {"utc", "east"}

VARIABLES
  backend,   \* which store the ledger was started with
  today,
  leafLog,   \* leaves about evidence: registrations and refused deletions
  rows,      \* evidenceId -> row; an id is the position of its leaf
  content,   \* <<tenant, hash>> -> evidenceId, 0 when none
  calls,     \* every request: arguments, program counter, the record it read (was)
             \* and its changed copy (rec)
  resends    \* requests sent again so far

evidenceVars == <<backend, today, leafLog, rows, content, calls, resends>>

\* 0, same: not given
RetentionPatches == [until : Untils \cup {0}, hold : {"same", "set", "lift"}]
NoRec == [id |-> 0]
Locked(rec) == rec.until > today \/ rec.hold
\* The memory store answers at once: a request on it runs on until it needs the chain.
Turn(q) ==
  backend = "postgres" \/ \A p \in DOMAIN calls \ {q} : calls[p].pc \in {"read", "put", "done"}
CallAt(q, op, pc) ==
  q \in DOMAIN calls /\ calls[q].pc = pc /\ calls[q].op = op /\ Turn(q)

EvidenceInit ==
  /\ backend \in EvidenceStores /\ today = 0 /\ leafLog = <<>> /\ rows = <<>>
  /\ content = [c \in Tenants \X Hashes |-> 0]
  /\ calls = <<>> /\ resends = 0

NewDay ==
  /\ today < MaxDay /\ today' = today + 1
  /\ UNCHANGED <<backend, leafLog, rows, content, calls, resends>>

-----------------------------------------------------------------------------
(* Requests arrive from a tenant's token.                                    *)

Arrives(op, tenant, arg) ==
  /\ Len(calls) < MaxCalls
  /\ calls' = Append(calls, [op |-> op, tenant |-> tenant, arg |-> arg, pc |-> "read",
                             rec |-> NoRec, was |-> NoRec])
  /\ UNCHANGED <<backend, today, leafLog, rows, content, resends>>

EvidenceRequest ==
  \E t \in Tenants :
    \/ \E h \in Hashes, ret \in Retentions :
         Arrives("register", t, [hash |-> h, until |-> ret.until, hold |-> ret.hold])
    \/ \E id \in DOMAIN rows :
         \/ \E p \in RetentionPatches \ {[until |-> 0, hold |-> "same"]} :
              Arrives("patch", t, [id |-> id, patch |-> p])
         \/ Arrives("delete", t, [id |-> id])

Done(q) == calls' = [calls EXCEPT ![q] = [pc |-> "done"]]
\* request: the client sends it again after 503
SendAgain(q) ==
  /\ resends < MaxResends /\ resends' = resends + 1
  /\ calls' = [calls EXCEPT ![q].pc = "read", ![q].rec = NoRec, ![q].was = NoRec]
\* Without the chain the last step, anchorSTH, answers 503.
DoneOnChain(q) == (Done(q) /\ UNCHANGED resends) \/ SendAgain(q)
Reads(q, pc, rec) == calls' = [calls EXCEPT ![q].pc = pc, ![q].rec = rec]

-----------------------------------------------------------------------------
(* registerEvidence                                                          *)

LookupContent(q) ==
  /\ CallAt(q, "register", "read")
  /\ IF content[<<calls[q].tenant, calls[q].arg.hash>>] # 0 THEN Done(q)
     ELSE Reads(q, "append", NoRec)
  /\ UNCHANGED <<backend, today, leafLog, rows, content, resends>>

AppendEvidence(q) ==
  /\ CallAt(q, "register", "append")
  /\ leafLog' = Append(leafLog, [of |-> Len(leafLog) + 1, until |-> calls[q].arg.until])
  /\ \/ /\ Reads(q, "put", [id |-> Len(leafLog) + 1, hash |-> calls[q].arg.hash,
                            tenant |-> calls[q].tenant, until |-> calls[q].arg.until,
                            hold |-> calls[q].arg.hold, deleted |-> FALSE])
        /\ UNCHANGED resends
     \/ DoneOnChain(q)           \* 503: there is no row
  /\ UNCHANGED <<backend, today, rows, content>>

\* Map.set twice; Postgres: ON CONFLICT (tenant, content_hash) DO NOTHING
PutEvidence(q) ==
  /\ CallAt(q, "register", "put")
  /\ LET rec == calls[q].rec
         key == <<rec.tenant, rec.hash>> IN
     IF backend = "postgres" /\ content[key] # 0 THEN UNCHANGED <<rows, content>>
     ELSE /\ rows' = [id \in DOMAIN rows \cup {rec.id} |-> IF id = rec.id THEN rec ELSE rows[id]]
          /\ content' = [content EXCEPT ![key] = rec.id]
  /\ Done(q)
  /\ UNCHANGED <<backend, today, leafLog, resends>>

-----------------------------------------------------------------------------
(* updateRetention and deleteEvidence: getEvidenceById, the checks, and the  *)
(* changes to the record it returned.  The memory store returns its own      *)
(* object, which those changes already alter; Postgres returns a copy.       *)

\* The day of a DATE column is read as midnight in the service's zone, and written
\* out as that moment's day in UTC: east of it the day before.
Found(id) ==
  IF backend = "postgres" /\ Zone = "east" THEN [rows[id] EXCEPT !.until = @ - 1] ELSE rows[id]

Refused(q, rec) == rec.deleted \/ rec.tenant # calls[q].tenant

\* The row changes now, or when the copy is written back.
Alters(q, rec) ==
  /\ calls' = [calls EXCEPT ![q].pc = "write", ![q].rec = rec, ![q].was = rows[rec.id]]
  /\ rows' = IF backend = "memory" THEN [rows EXCEPT ![rec.id] = rec] ELSE rows

Retained(rec, p) ==
  [rec EXCEPT !.until = IF p.until = 0 THEN @ ELSE p.until,
              !.hold = p.hold = "set" \/ (p.hold = "same" /\ @)]
ReadForUpdateAnyDate(q) ==                                       \* (mutant)
  /\ CallAt(q, "patch", "read")
  /\ LET rec == Found(calls[q].arg.id) IN
     IF Refused(q, rec) THEN Done(q) /\ UNCHANGED rows
     ELSE Alters(q, Retained(rec, calls[q].arg.patch))
  /\ UNCHANGED <<backend, today, leafLog, content, resends>>
ReadForUpdate(q) ==
  /\ CallAt(q, "patch", "read")
  /\ LET rec == Found(calls[q].arg.id)
         p == calls[q].arg.patch IN
     IF Refused(q, rec) \/ (p.until # 0 /\ p.until < rec.until)
       THEN Done(q) /\ UNCHANGED rows
       ELSE Alters(q, Retained(rec, p))
  /\ UNCHANGED <<backend, today, leafLog, content, resends>>

ReadForDeleteHeld(q) ==                                          \* (mutant)
  /\ CallAt(q, "delete", "read")
  /\ LET rec == Found(calls[q].arg.id) IN
     IF Refused(q, rec) THEN Done(q) /\ UNCHANGED rows
     ELSE IF rec.until > today THEN Reads(q, "attempt", NoRec) /\ UNCHANGED rows
     ELSE Alters(q, [rec EXCEPT !.deleted = TRUE])
  /\ UNCHANGED <<backend, today, leafLog, content, resends>>
ReadForDelete(q) ==
  /\ CallAt(q, "delete", "read")
  /\ LET rec == Found(calls[q].arg.id) IN
     IF Refused(q, rec) THEN Done(q) /\ UNCHANGED rows
     ELSE IF Locked(rec) THEN Reads(q, "attempt", NoRec) /\ UNCHANGED rows
     ELSE Alters(q, [rec EXCEPT !.deleted = TRUE])
  /\ UNCHANGED <<backend, today, leafLog, content, resends>>

\* The refused attempt becomes a leaf, then the 409.
AppendAttempt(q) ==
  /\ CallAt(q, "delete", "attempt")
  /\ leafLog' = Append(leafLog, [of |-> calls[q].arg.id, until |-> 0])
  /\ DoneOnChain(q)
  /\ UNCHANGED <<backend, today, rows, content>>

\* updateEvidence: the whole record is written.
WriteBack(q) ==
  /\ q \in DOMAIN calls /\ calls[q].pc = "write" /\ Turn(q)
  /\ LET rec == calls[q].rec IN
     IF backend = "memory"
       THEN content' = [content EXCEPT ![<<rec.tenant, rec.hash>>] = rec.id] /\ UNCHANGED rows
       ELSE rows' = [rows EXCEPT ![rec.id] = rec] /\ UNCHANGED content
  /\ IF calls[q].op = "patch" THEN DoneOnChain(q) ELSE Done(q) /\ UNCHANGED resends
  /\ UNCHANGED <<backend, today, leafLog>>

EvidenceNext ==
  \/ NewDay \/ EvidenceRequest
  \/ \E q \in 1 .. MaxCalls :
       \/ LookupContent(q) \/ AppendEvidence(q) \/ PutEvidence(q)
       \/ ReadForUpdate(q) \/ ReadForDelete(q) \/ AppendAttempt(q) \/ WriteBack(q)

EvidenceSpec == EvidenceInit /\ [][EvidenceNext]_evidenceVars

-----------------------------------------------------------------------------
(* Properties.                                                               *)

\* The integration guide: extension only, "never shorten below the recorded
\* basis".  Whatever requests overlap, a row never ends before the retention
\* that its anchored registration leaf committed to: where a date is read as it was
\* written, and not where the service runs east of UTC.
NeverBelowCommitment ==
  \A id \in DOMAIN rows : leafLog[id].of = id /\ rows[id].until >= leafLog[id].until

\* What a step does to a row against retention: it ends earlier, a deletion is
\* undone, or the row is deleted while retention or a hold keeps it.
Breaches(id) ==
  \/ rows'[id].until < rows[id].until
  \/ rows[id].deleted /\ ~rows'[id].deleted
  \/ ~rows[id].deleted /\ rows'[id].deleted /\ Locked(rows[id])
ChangedSinceRead(id) ==
  \E q \in DOMAIN calls :
    calls[q].pc = "write" /\ calls[q].rec.id = id /\ calls[q].was # rows[id]

\* The integration guide: DELETE is "refused (409 retention_locked) while until is
\* in the future or legalHold is set", and an extension is kept.  Only the
\* read-modify-write of Postgres (updateRetention, deleteEvidence) can breach
\* that, and only over a row another request changed since the read, dates being
\* read as they were written.
BreachedByStaleWriteOnly ==
  [][\A id \in DOMAIN rows :
       Breaches(id) => backend = "postgres" /\ ChangedSinceRead(id)]_evidenceVars
=============================================================================
