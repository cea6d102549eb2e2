--------------------------- MODULE LedgerLogProofs ---------------------------
(***************************************************************************)
(* Proofs about the ledger's transparency log, for any set of requests.    *)
(*                                                                         *)
(*   TInv       types, and what each control point has read by then        *)
(*   BackedInv  the leaf of a writer is in its instance, then in the head  *)
(*              it anchors, then in a published head: rows are backed      *)
(*   AckInv     rows and content keys keep their id and index: answers     *)
(*              are durable, in every configuration                        *)
(*   LiveInv    who changes a status has read one that was not revoked     *)
(*   SteadyInv  with the log loaded and no restart: one instance, every    *)
(*              row, entry and head is one of it                           *)
(*   SerialInv  one request at a time on Postgres without failing          *)
(*              statements: instance, store and heads agree                *)
(***************************************************************************)
EXTENDS LedgerLog, SequenceTheorems, FiniteSetTheorems, TLAPS

USE DEF request, process, store, anchoring

\* A head of n leaves is a sequence of the first n leaves.
LEMMA PrefixIsSeq ==
  ASSUME NEW S, NEW t \in Seq(S), NEW n \in 0 .. Len(t)
  PROVE  /\ SubSeq(t, 1, n) \in Seq(S) /\ Len(SubSeq(t, 1, n)) = n
         /\ \A i \in 1 .. n : SubSeq(t, 1, n)[i] = t[i]
OBVIOUS

\* Appending a leaf keeps every head.
LEMMA PrefixOfAppend ==
  ASSUME NEW S, NEW t \in Seq(S), NEW x \in S, NEW s \in Prefixes(t)
  PROVE  s \in Prefixes(Append(t, x))
<1>1. PICK n \in 0 .. Len(t) : s = SubSeq(t, 1, n) BY DEF Prefixes
<1>2. Append(t, x) \in Seq(S) /\ Len(Append(t, x)) = Len(t) + 1 OBVIOUS
<1>3. n \in 0 .. Len(Append(t, x)) BY <1>2
<1>4. SubSeq(Append(t, x), 1, n) = s
  BY <1>1, <1>2, <1>3, PrefixIsSeq, SeqEqual
<1>5. QED BY <1>3, <1>4 DEF Prefixes

\* A head of a log is a prefix of it.
LEMMA HeadIsPrefix ==
  ASSUME NEW S, NEW t \in Seq(S), NEW s \in Prefixes(t)
  PROVE  IsPrefixOf(s, t)
<1>1. PICK n \in 0 .. Len(t) : s = SubSeq(t, 1, n) BY DEF Prefixes
<1>2. Len(s) = n BY <1>1, PrefixIsSeq
<1>3. QED BY <1>1, <1>2 DEF IsPrefixOf

\* Of two heads of one log, one is a prefix of the other.
LEMMA PrefixesComparable ==
  ASSUME NEW S, NEW t \in Seq(S), NEW s \in Prefixes(t), NEW u \in Prefixes(t)
  PROVE  IsPrefixOf(s, u) \/ IsPrefixOf(u, s)
<1>1. ASSUME NEW m \in 0 .. Len(t), NEW n \in 0 .. Len(t), m <= n
      PROVE  IsPrefixOf(SubSeq(t, 1, m), SubSeq(t, 1, n))
  <2>1. SubSeq(SubSeq(t, 1, n), 1, m) = SubSeq(t, 1, m)
    BY <1>1, PrefixIsSeq, SeqEqual
  <2>2. QED BY <1>1, <2>1, PrefixIsSeq DEF IsPrefixOf
<1>2. PICK m \in 0 .. Len(t), n \in 0 .. Len(t) : s = SubSeq(t, 1, m) /\ u = SubSeq(t, 1, n)
  BY DEF Prefixes
<1>3. QED
  <2>1. CASE m <= n BY <1>1, <1>2, <2>1
  <2>2. CASE n <= m BY <1>1, <1>2, <2>2
  <2>3. QED BY <2>1, <2>2, Len(t) \in Nat

-----------------------------------------------------------------------------
(* What a step of one request leaves alone.                                  *)

\* The type invariant by owner: the requests, the process, the store, the outside.
RequestTyped ==
  /\ pc \in [Requests -> PC]
  /\ op \in [Requests -> Operations \cup {None}]
  /\ rec \in [Requests -> Snapshot \cup {None}]
  /\ latest \in [Requests -> Entry \cup {None}]
  /\ tl \in [Requests -> Leaves \cup {None}]
  /\ fetched \in [Requests -> Seq(Leaves)]
  /\ leafIndex \in [Requests -> Nat]
  /\ sths \in [Requests -> Seq(Seq(Leaves))]
  /\ DOMAIN reply = Requests
ProcessTyped == tree \in [Leaves -> Seq(Leaves)] /\ logs \in Leaves \cup {None}
StoreTyped ==
  /\ backend \in Stores
  /\ disk \in Seq(Leaves)
  /\ atts \in [Ids -> Row \cup {None}]
  /\ byContent \in [Contents -> Ids \cup {None}]
  /\ history \in [Ids -> Seq(Entry)]
OutsideTyped ==
  /\ writesEnabled \in WriteModes
  /\ anchored \in SUBSET Seq(Leaves) /\ unanchored \in SUBSET Seq(Leaves)
  /\ faults \in 0 .. MaxFaults

\* They are the type invariant.
LEMMA TypeParts == TypeOK <=> RequestTyped /\ ProcessTyped /\ StoreTyped /\ OutsideTyped
BY DEF TypeOK, RequestTyped, ProcessTyped, StoreTyped, OutsideTyped

\* No local of request q, nor its answer, changes.
Same(q) ==
  /\ pc'[q] = pc[q] /\ op'[q] = op[q] /\ rec'[q] = rec[q] /\ latest'[q] = latest[q]
  /\ tl'[q] = tl[q] /\ fetched'[q] = fetched[q] /\ leafIndex'[q] = leafIndex[q]
  /\ sths'[q] = sths[q] /\ reply'[q] = reply[q]

\* A step of one request touches no other request's locals.
LEMMA OthersKept ==
  ASSUME RequestTyped, NEW r \in Requests, NEW q \in Requests \ {r}, Handle(r)
  PROVE  Same(q)
<1>. USE DEF Same, Goto, Answer, NoAnswer, At
<1>1. CASE Submit(r) BY <1>1 DEF RequestTyped, Submit
<1>2. CASE LookupContent(r) BY <1>2 DEF RequestTyped, LookupContent
<1>3. CASE LookupRecord(r) BY <1>3 DEF RequestTyped, LookupRecord
<1>4. CASE LookupLatest(r) BY <1>4 DEF RequestTyped, LookupLatest
<1>5. CASE UseLog(r) BY <1>5 DEF RequestTyped, UseLog, Continue
<1>6. CASE LoadLeaves(r) BY <1>6 DEF RequestTyped, LoadLeaves
<1>7. CASE InstallLog(r) BY <1>7 DEF RequestTyped, InstallLog, Continue
<1>8. CASE CountLeaves(r) BY <1>8 DEF RequestTyped, CountLeaves
<1>9. CASE PersistLeaf(r) BY <1>9 DEF RequestTyped, PersistLeaf
<1>10. CASE PersistConflict(r) BY <1>10 DEF RequestTyped, PersistConflict
<1>11. CASE Anchor(r) BY <1>11 DEF RequestTyped, Anchor
<1>12. CASE AnchorFails(r) BY <1>12 DEF RequestTyped, AnchorFails
<1>13. CASE PutAttestation(r) BY <1>13 DEF RequestTyped, PutAttestation
<1>14. CASE AppendStatus(r) BY <1>14 DEF RequestTyped, AppendStatus
<1>15. CASE SetAttestationStatus(r) BY <1>15 DEF RequestTyped, SetAttestationStatus
<1>16. CASE StoreFails(r) BY <1>16 DEF RequestTyped, StoreFails
<1>. QED
  BY <1>1, <1>2, <1>3, <1>4, <1>5, <1>6, <1>7, <1>8, <1>9, <1>10, <1>11, <1>12, <1>13, <1>14,
     <1>15, <1>16 DEF Handle
-----------------------------------------------------------------------------
(* Type correctness needs what the control points promise: which locals have *)
(* been read, and that rows once there stay.                                 *)

\* Request r is being handled.
Working(r) == pc[r] \notin {"new", "done"}

\* What request r has by the time it gets to its control point.
Ctl(r) ==
  /\ pc[r] # "new" => op[r] \in Operations
  /\ pc[r] \in {"persist", "insert", "put", "history", "update"} => Appends(r)
  /\ pc[r] \in {"persist", "insert"} => tl[r] # None
  /\ pc[r] = "put" => Kind(r) = "attest"
  /\ pc[r] = "update" => Kind(r) # "attest"
  /\ pc[r] = "latest" => Kind(r) = "status"
  /\ pc[r] = "anchor2" => Kind(r) = "consistency"
  /\ pc[r] \in {"anchor", "anchor2"} =>
       /\ Len(sths[r]) >= 1
       /\ Kind(r) = "consistency" => Len(sths[r]) = 2
  /\ Working(r) /\ pc[r] # "lookup" /\ Kind(r) \notin {"attest", "consistency"} =>
       /\ rec[r] # None
       /\ Kind(r) = "status" /\ pc[r] # "latest" => latest[r] # None

\* The rows that a request, or a content key, relies on are there.
Relies(r) ==
  Working(r) /\ pc[r] # "lookup" /\ Kind(r) \notin {"attest", "consistency"} =>
    atts[op[r].on] # None
KeysThere == \A c \in Contents : byContent[c] # None => atts[byContent[c]] # None

CtlInv == KeysThere /\ \A r \in Requests : Ctl(r) /\ Relies(r)

\* An operation's target is a content hash for attest, an id for the others.
LEMMA OperationKinds ==
  ASSUME NEW o \in Operations
  PROVE  /\ o.kind \in Kinds
         /\ o.kind = "attest" => o.on \in Contents
         /\ o.kind # "attest" => o.on \in Ids
BY DEF Operations

\* A status entry is written for an id.
LEMMA TargetIsId ==
  ASSUME RequestTyped, NEW r \in Requests, op[r] \in Operations
  PROVE  Target(r) \in Ids
BY OperationKinds DEF Target, Kind, Ids, Leaves

\* A row that is there is a row, its snapshot a snapshot.
LEMMA RowRead ==
  ASSUME StoreTyped, NEW i \in Ids, atts[i] # None
  PROVE  atts[i] \in Row /\ RecordOf(i) \in Snapshot /\ RecordOf(i) # None
BY NoneAssumption DEF StoreTyped, RecordOf, Row, Snapshot

\* Rows are written, never removed.
LEMMA RowsStay ==
  ASSUME RequestTyped, StoreTyped, CtlInv, NEW r \in Requests, Handle(r) 
  PROVE  /\ atts' \in [Ids -> Row \cup {None}]
         /\ \A i \in Ids : atts[i] # None => atts'[i] # None
<1>1. CASE PutAttestation(r)
  <2>1. op[r].on \in Contents /\ r \in Ids
    BY <1>1, OperationKinds DEF PutAttestation, At, CtlInv, Ctl, Kind, Ids, Leaves
  <2>2. [content |-> op[r].on, index |-> leafIndex[r], status |-> "active"] \in Row
    BY <2>1 DEF Row, RequestTyped
  <2>3. QED BY <1>1, <2>1, <2>2, NoneAssumption DEF PutAttestation, StoreTyped
<1>2. CASE SetAttestationStatus(r)
  <2>1. op[r] \in Operations /\ Kind(r) # "attest" /\ atts[op[r].on] # None
    BY <1>2 DEF SetAttestationStatus, At, CtlInv, Ctl, Relies, Working, Kind, Appends, Changes
  <2>2. Target(r) = op[r].on /\ Target(r) \in Ids BY <2>1, TargetIsId DEF Target
  <2>3. [atts[Target(r)] EXCEPT !.status = StatusOf(r)] \in Row
    BY <2>1, <2>2, RowRead DEF Row, StatusOf
  <2>4. QED BY <1>2, <2>2, <2>3, NoneAssumption DEF SetAttestationStatus, StoreTyped
<1>3. CASE atts' = atts
  BY <1>3 DEF StoreTyped
<1>4. QED
  BY <1>1, <1>2, <1>3 DEF Handle, Submit, LookupContent, LookupRecord, LookupLatest, UseLog, LoadLeaves,
     InstallLog, CountLeaves, PersistLeaf, PersistConflict, Anchor, AnchorFails, AppendStatus, StoreFails

\* The heads a reader takes are heads of the log it reads.
LEMMA HeadsReadTyped ==
  ASSUME NEW r \in Requests, NEW t \in Seq(Leaves), NEW h \in HeadsRead(r, t)
  PROVE  /\ h \in Seq(Prefixes(t)) /\ Len(h) >= 1
         /\ Kind(r) = "consistency" => Len(h) = 2
<1>1. t \in Prefixes(t)
  <2>1. SubSeq(t, 1, Len(t)) = t BY PrefixIsSeq, SeqEqual
  <2>2. SubSeq(t, 1, Len(t)) \in Prefixes(t) BY Len(t) \in Nat DEF Prefixes
  <2>3. QED BY <2>1, <2>2
<1>2. CASE Kind(r) = "proof"
  <2>1. h \in {<<s>> : s \in {p \in Prefixes(t) : IndexRead(r) < Len(p)}}
    BY <1>2 DEF HeadsRead
  <2>2. PICK s \in Prefixes(t) : h = <<s>> BY <2>1
  <2>3. QED BY <1>2, <2>2
<1>3. CASE Kind(r) = "consistency"
  <2>1. h \in ConsistencyHeads(t) BY <1>3 DEF HeadsRead
  <2>2. PICK m \in 1 .. Len(t), n \in 1 .. Len(t) : h = <<SubSeq(t, 1, m), SubSeq(t, 1, n)>>
    BY <2>1 DEF ConsistencyHeads
  <2>3. SubSeq(t, 1, m) \in Prefixes(t) /\ SubSeq(t, 1, n) \in Prefixes(t)
    BY <2>2 DEF Prefixes
  <2>4. QED BY <2>2, <2>3
<1>4. CASE Kind(r) \notin {"proof", "consistency"}
  <2>1. h = <<t>> BY <1>4 DEF HeadsRead
  <2>2. QED BY <1>1, <1>4, <2>1
<1>5. QED BY <1>2, <1>3, <1>4

\* Heads of a log are logs.
LEMMA PrefixesTyped ==
  ASSUME NEW S, NEW t \in Seq(S)
  PROVE  Prefixes(t) \subseteq Seq(S)
BY PrefixIsSeq DEF Prefixes

\* What a request does once it has its instance.
LEMMA ContinueTyped ==
  ASSUME RequestTyped, ProcessTyped, NEW r \in Requests, NEW i \in Leaves, NEW t \in Seq(Leaves),
         op[r] \in Operations, pc[r] \in {"log", "install"}, Continue(r, i, t),
         UNCHANGED <<op, rec, latest, fetched>>
  PROVE  /\ RequestTyped' /\ tree' \in [Leaves -> Seq(Leaves)]
         /\ pc'[r] \in {"persist", "anchor", "done"} /\ tl'[r] = i
         /\ pc'[r] = "persist" => Appends(r) /\ leafIndex'[r] = Len(t) /\ tree' = [tree EXCEPT ![i] = Append(t, r)]
         /\ pc'[r] # "persist" => leafIndex' = leafIndex /\ tree' = [tree EXCEPT ![i] = t]
         /\ pc'[r] = "anchor" => ~Appends(r) /\ sths'[r] \in HeadsRead(r, t)
         /\ pc'[r] # "done" => reply' = reply
         /\ pc'[r] = "done" => reply'[r] = Problem("proof_unavailable")
<1>. USE DEF RequestTyped, ProcessTyped, Goto, Answer, NoAnswer, PC
<1>1. tl' = [tl EXCEPT ![r] = i] BY DEF Continue
<1>2. r \in Leaves BY DEF Leaves
<1>3. CASE /\ Appends(r)
           /\ tree' = [tree EXCEPT ![i] = Append(t, r)]
           /\ leafIndex' = [leafIndex EXCEPT ![r] = Len(t)]
           /\ Goto(r, "persist") /\ NoAnswer /\ UNCHANGED sths
  <2>1. Append(t, r) \in Seq(Leaves) /\ Len(t) \in Nat BY <1>2
  <2>2. QED BY <1>1, <1>3, <2>1
<1>4. CASE /\ ~Appends(r) /\ tree' = [tree EXCEPT ![i] = t] /\ UNCHANGED leafIndex
           /\ \E h \in HeadsRead(r, t) : sths' = [sths EXCEPT ![r] = h]
           /\ Goto(r, "anchor") /\ NoAnswer
  <2>1. PICK h \in HeadsRead(r, t) : sths' = [sths EXCEPT ![r] = h] BY <1>4
  <2>2. h \in Seq(Seq(Leaves)) BY HeadsReadTyped, PrefixesTyped, SeqMonotonic
  <2>3. QED BY <1>1, <1>4, <2>1, <2>2
<1>5. CASE /\ ~Appends(r) /\ tree' = [tree EXCEPT ![i] = t] /\ UNCHANGED leafIndex
           /\ Answer(r, Problem("proof_unavailable")) /\ UNCHANGED sths
  BY <1>1, <1>5
<1>6. QED BY <1>3, <1>4, <1>5 DEF Continue

\* The control points of the other requests, and the rows they rely on, stand.
LEMMA CtlOther ==
  ASSUME CtlInv, RequestTyped, StoreTyped, NEW r \in Requests, NEW q \in Requests \ {r}, Handle(r)
  PROVE  Ctl(q)' /\ Relies(q)'
<1>1. Same(q) BY OthersKept
<1>2. Ctl(q)' BY <1>1 DEF CtlInv, Ctl, Same, Appends, Kind, Working
<1>3. SUFFICES ASSUME Working(q)', pc'[q] # "lookup", Kind(q)' \notin {"attest", "consistency"}
               PROVE  atts'[op'[q].on] # None
  BY <1>2 DEF Relies
<1>4. op[q] \in Operations /\ op'[q] = op[q] /\ atts[op[q].on] # None
  BY <1>1, <1>3 DEF CtlInv, Ctl, Relies, Same, Kind, Working
<1>5. op[q].on \in Ids BY <1>1, <1>3, <1>4, OperationKinds DEF Same, Kind
<1>6. QED BY <1>4, <1>5, RowsStay

\* So a step keeps the control points if it keeps its own request's.
LEMMA CtlOwn ==
  ASSUME CtlInv, RequestTyped, StoreTyped, NEW r \in Requests, Handle(r),
         Ctl(r)', Relies(r)', KeysThere'
  PROVE  CtlInv'
BY CtlOther DEF CtlInv

\* Most steps leave the attestations alone.
LEMMA KeysKept ==
  ASSUME KeysThere, UNCHANGED <<atts, byContent>>
  PROVE  KeysThere'
BY DEF KeysThere

\* The inductive type invariant.
TInv == TypeOK /\ CtlInv

\* Its parts, ...
LEMMA TInvParts ==
  TInv <=> RequestTyped /\ ProcessTyped /\ StoreTyped /\ OutsideTyped /\ CtlInv
BY TypeParts DEF TInv

\* ... in the state after a step too.
LEMMA TInvNext ==
  ASSUME RequestTyped', ProcessTyped', StoreTyped', OutsideTyped', CtlInv'
  PROVE  TInv'
BY DEF TInv, TypeOK, RequestTyped, ProcessTyped, StoreTyped, OutsideTyped

\* The steps that only read.
ReadStep(r) ==
  \/ Submit(r) \/ LookupContent(r) \/ LookupRecord(r) \/ LookupLatest(r) \/ LoadLeaves(r)
  \/ CountLeaves(r)

\* They write nothing but their request's locals.
LEMMA ReadFrame ==
  ASSUME ProcessTyped, StoreTyped, OutsideTyped, CtlInv, NEW r \in Requests, ReadStep(r), UNCHANGED backend
  PROVE  ProcessTyped' /\ StoreTyped' /\ OutsideTyped' /\ KeysThere' /\ UNCHANGED atts
BY KeysKept DEF ReadStep, Submit, LookupContent, LookupRecord, LookupLatest, LoadLeaves, CountLeaves,
                NoAnswer, ProcessTyped, StoreTyped, OutsideTyped, CtlInv

\* What they read is typed, and is what the next control point needs.
LEMMA ReadTyped ==
  ASSUME RequestTyped, StoreTyped, CtlInv, NEW r \in Requests, ReadStep(r), UNCHANGED backend
  PROVE  RequestTyped' /\ Ctl(r)' /\ Relies(r)'
<1>. USE DEF Goto, Answer, NoAnswer, At, PC
<1>1. CASE Submit(r)
  <2>1. PICK o \in Operations :
          /\ op' = [op EXCEPT ![r] = o]
          /\ Goto(r, IF o.kind = "consistency" THEN "log" ELSE "lookup")
    BY <1>1 DEF Submit
  <2>2. UNCHANGED <<rec, latest, tl, fetched, leafIndex, sths, process, store, anchoring, reply, faults>>
    BY <1>1 DEF Submit
  <2>3. QED BY <2>1, <2>2 DEF RequestTyped, Ctl, Relies, Working, Kind
<1>2. CASE LookupContent(r)
  <2>1. op[r] \in Operations /\ op[r].on \in Contents
    BY <1>2, OperationKinds DEF LookupContent, CtlInv, Ctl, Kind
  <2>2. byContent[op[r].on] # None => RecordOf(byContent[op[r].on]) \in Snapshot
    BY <2>1, RowRead DEF CtlInv, KeysThere, StoreTyped
  <2>3. QED BY <1>2, <2>1, <2>2 DEF LookupContent, RequestTyped, Ctl, Relies, Working, Kind, CtlInv
<1>3. CASE LookupRecord(r)
  <2>1. op[r] \in Operations /\ op[r].on \in Ids
    BY <1>3, OperationKinds DEF LookupRecord, CtlInv, Ctl, Kind
  <2>2. atts[op[r].on] # None => RecordOf(op[r].on) \in Snapshot /\ RecordOf(op[r].on) # None
    BY <2>1, RowRead
  <2>3. UNCHANGED <<op, latest, tl, fetched, leafIndex, sths, atts>> BY <1>3 DEF LookupRecord
  <2>4. CASE /\ \E code \in {"not_found", "status_conflict"} : Answer(r, Problem(code))
             /\ UNCHANGED rec
    BY <2>1, <2>3, <2>4 DEF RequestTyped, Ctl, Relies, Working, Kind
  <2>5. CASE /\ atts[op[r].on] # None /\ rec' = [rec EXCEPT ![r] = RecordOf(op[r].on)]
             /\ Goto(r, IF Kind(r) = "status" THEN "latest" ELSE "log") /\ NoAnswer
    <3>1. pc'[r] \in {"latest", "log"} /\ (pc'[r] = "latest" <=> Kind(r) = "status")
      BY <2>5 DEF RequestTyped
    <3>2. RequestTyped' BY <2>1, <2>2, <2>3, <2>5 DEF RequestTyped
    <3>3. Relies(r)' BY <2>3, <2>5 DEF Relies
    <3>4. QED BY <1>3, <2>1, <2>2, <2>3, <2>5, <3>1, <3>2, <3>3
              DEF LookupRecord, RequestTyped, Ctl, Working, Kind
  <2>6. QED BY <1>3, <2>4, <2>5 DEF LookupRecord
<1>4. CASE LookupLatest(r)
  <2>1. op[r] \in Operations /\ op[r].on \in Ids /\ rec[r] \in Snapshot /\ Kind(r) = "status"
    BY <1>4, OperationKinds DEF LookupLatest, CtlInv, Ctl, Kind, Working, RequestTyped
  <2>2. DEFINE h == history[op[r].on]
               e == IF h = <<>> THEN [by |-> op[r].on, index |-> rec[r].index] ELSE h[Len(h)]
  <2>3. h \in Seq(Entry) BY <2>1 DEF StoreTyped
  <2>4. e \in Entry
    <3>1. CASE h = <<>> BY <2>1, <3>1 DEF Entry, Snapshot, Ids
    <3>2. CASE h # <<>>
      <4>. HIDE DEF h
      <4>1. Len(h) \in DOMAIN h BY <2>3, <3>2
      <4>2. QED BY <2>3, <3>2, <4>1
    <3>3. QED BY <3>1, <3>2
  <2>5. e # None BY <2>4, NoneAssumption
  <2>6. /\ latest' = [latest EXCEPT ![r] = e]
        /\ pc[r] = "latest" /\ pc' = [pc EXCEPT ![r] = "log"]
        /\ UNCHANGED <<op, rec, tl, fetched, leafIndex, sths, reply, atts>>
    BY <1>4 DEF LookupLatest
  <2>. HIDE DEF e
  <2>7. Ctl(r) /\ Relies(r) BY DEF CtlInv
  <2>8. RequestTyped' BY <2>4, <2>6 DEF RequestTyped
  <2>9. Relies(r)' BY <2>6, <2>7 DEF Relies, Working, Kind, RequestTyped
  <2>10. Ctl(r)' BY <2>1, <2>5, <2>6, <2>7 DEF Ctl, Working, Kind, RequestTyped
  <2>11. QED BY <2>8, <2>9, <2>10
<1>5. CASE LoadLeaves(r)
  BY <1>5 DEF LoadLeaves, RequestTyped, StoreTyped, Ctl, Relies, Working, Kind, CtlInv
<1>6. CASE CountLeaves(r)
  BY <1>6 DEF CountLeaves, RequestTyped, StoreTyped, Ctl, Relies, Working, Kind, Appends, CtlInv
<1>7. QED BY <1>1, <1>2, <1>3, <1>4, <1>5, <1>6 DEF ReadStep

\* getLog's steps: the request takes its instance and appends to it or reads it.
LEMMA LogTyped ==
  ASSUME TInv, NEW r \in Requests, UseLog(r) \/ InstallLog(r), UNCHANGED backend
  PROVE  TInv'
<1>1. RequestTyped /\ ProcessTyped /\ StoreTyped /\ OutsideTyped /\ CtlInv BY TInvParts
<1>2. pc[r] \in {"log", "install"} /\ op[r] \in Operations /\ Ctl(r) /\ Relies(r)
  BY <1>1 DEF UseLog, InstallLog, At, CtlInv, Ctl
<1>3. PICK i \in Leaves, t \in Seq(Leaves) :
        Continue(r, i, t) /\ logs' \in Leaves /\ UNCHANGED <<op, rec, latest, fetched, store, anchoring, faults>>
  <2>1. CASE UseLog(r)
    <3>1. logs \in Leaves /\ tree[logs] \in Seq(Leaves) BY <1>1, <2>1 DEF UseLog, ProcessTyped
    <3>2. QED BY <2>1, <3>1 DEF UseLog
  <2>2. CASE InstallLog(r)
    <3>1. r \in Leaves /\ fetched[r] \in Seq(Leaves) BY <1>1 DEF RequestTyped, Leaves
    <3>2. QED BY <2>2, <3>1 DEF InstallLog
  <2>3. QED BY <2>1, <2>2
<1>4. /\ RequestTyped' /\ tree' \in [Leaves -> Seq(Leaves)]
      /\ pc'[r] \in {"persist", "anchor", "done"} /\ tl'[r] = i
      /\ pc'[r] = "persist" => Appends(r)
      /\ pc'[r] = "anchor" => sths'[r] \in HeadsRead(r, t)
  BY <1>1, <1>2, <1>3, ContinueTyped
<1>5. StoreTyped' /\ OutsideTyped' /\ ProcessTyped' /\ KeysThere'
  BY <1>1, <1>3, <1>4, KeysKept DEF StoreTyped, OutsideTyped, ProcessTyped, CtlInv
<1>6. i # None BY LedgerAssumption
<1>7. pc'[r] = "anchor" => Len(sths'[r]) >= 1 /\ (Kind(r) = "consistency" => Len(sths'[r]) = 2)
  BY <1>4, HeadsReadTyped
<1>8. Ctl(r)'
  BY <1>2, <1>3, <1>4, <1>6, <1>7 DEF Ctl, Working, Kind, Appends
<1>9. Relies(r)' BY <1>2, <1>3, <1>4 DEF Relies, Working, Kind
<1>10. CtlInv' BY <1>1, <1>5, <1>8, <1>9, CtlOwn DEF Handle
<1>11. QED BY <1>4, <1>5, <1>10, TInvNext

\* The head a request publishes next is a head.
LEMMA NextHeadTyped ==
  ASSUME RequestTyped, NEW r \in Requests, Ctl(r), pc[r] \in {"anchor", "anchor2"}
  PROVE  NextHead(r) \in Seq(Leaves)
<1>1. sths[r] \in Seq(Seq(Leaves)) BY DEF RequestTyped
<1>2. CASE pc[r] = "anchor2"
  <2>1. Len(sths[r]) = 2 BY <1>2 DEF Ctl
  <2>2. QED BY <1>1, <1>2, <2>1 DEF NextHead
<1>3. CASE pc[r] = "anchor"
  <2>1. Len(sths[r]) >= 1 BY <1>3 DEF Ctl
  <2>2. QED BY <1>1, <1>3, <2>1 DEF NextHead
<1>4. QED BY <1>2, <1>3

\* Steps after which the request is done leave nothing to promise of it.
LEMMA DoneCtl ==
  ASSUME NEW r \in Requests, Ctl(r), pc[r] # "new", pc'[r] = "done", UNCHANGED op
  PROVE  Ctl(r)' /\ Relies(r)'
BY DEF Ctl, Relies, Working

\* Where a request goes once its head is published.
LEMMA AnchorWays ==
  ASSUME NEW r \in Requests, Anchor(r)
  PROVE  \/ Appends(r) /\ Goto(r, IF Kind(r) = "attest" THEN "put" ELSE "history") /\ NoAnswer
         \/ Kind(r) = "consistency" /\ pc[r] = "anchor" /\ Goto(r, "anchor2") /\ NoAnswer
         \/ ~Appends(r) /\ Answer(r, ReadAnswer(r))
BY Zenon DEF Anchor

\* The steps that write the store or the chain.
WriteStep(r) ==
  \/ PersistLeaf(r) \/ PersistConflict(r) \/ Anchor(r) \/ AnchorFails(r)
  \/ PutAttestation(r) \/ AppendStatus(r) \/ SetAttestationStatus(r) \/ StoreFails(r)

\* They keep types and control points.
LEMMA WriteTyped ==
  ASSUME TInv, NEW r \in Requests, WriteStep(r), UNCHANGED backend
  PROVE  TInv'
<1>1. RequestTyped /\ ProcessTyped /\ StoreTyped /\ OutsideTyped /\ CtlInv BY TInvParts
<1>2. Ctl(r) /\ Relies(r) /\ KeysThere /\ r \in Leaves BY <1>1 DEF CtlInv, Leaves
<1>3. UNCHANGED <<op, rec, latest, tl, fetched, leafIndex, tree, logs>>
  BY DEF WriteStep, PersistLeaf, PersistConflict, Anchor, AnchorFails, PutAttestation, AppendStatus,
         SetAttestationStatus, StoreFails
<1>4. ProcessTyped' BY <1>1, <1>3 DEF ProcessTyped
<1>5. SUFFICES RequestTyped' /\ StoreTyped' /\ OutsideTyped' /\ KeysThere' /\ Ctl(r)' /\ Relies(r)'
  BY <1>1, <1>4, CtlOwn, TInvNext DEF WriteStep, Handle
<1>. USE DEF At, Goto, Answer, NoAnswer, PC
<1>6. CASE PersistLeaf(r)
  <2>1. pc[r] \in {"persist", "insert"} /\ op[r] \in Operations /\ Appends(r) /\ tl[r] \in Leaves
    BY <1>1, <1>2, <1>6 DEF PersistLeaf, Ctl, RequestTyped
  <2>2. <<tree[tl[r]]>> \in Seq(Seq(Leaves)) /\ Len(<<tree[tl[r]]>>) = 1
    BY <1>1, <2>1 DEF ProcessTyped
  <2>3. /\ disk' = Append(disk, r) /\ sths' = [sths EXCEPT ![r] = <<tree[tl[r]]>>]
        /\ pc' = [pc EXCEPT ![r] = "anchor"]
        /\ UNCHANGED <<reply, atts, byContent, history, anchoring, faults>>
    BY <1>6 DEF PersistLeaf
  <2>4. RequestTyped' /\ StoreTyped' /\ OutsideTyped' /\ KeysThere'
    BY <1>1, <1>2, <1>3, <2>2, <2>3, KeysKept DEF RequestTyped, StoreTyped, OutsideTyped
  <2>5. sths'[r] = <<tree[tl[r]]>> /\ pc'[r] = "anchor" BY <1>1, <2>3 DEF RequestTyped
  <2>6. Kind(r) # "consistency" BY <2>1 DEF Appends, Changes
  <2>7. Ctl(r)'
    BY <1>2, <1>3, <2>1, <2>2, <2>5, <2>6 DEF Ctl, Working, Kind
  <2>8. Relies(r)' BY <1>2, <1>3, <2>1, <2>3, <2>5 DEF Relies, Working, Kind
  <2>9. QED BY <2>4, <2>7, <2>8
<1>7. CASE PersistConflict(r)
  <2>1. /\ pc[r] = "insert" /\ pc'[r] = "done" /\ RequestTyped'
        /\ UNCHANGED <<disk, atts, byContent, history, anchoring, faults>>
    BY <1>1, <1>3, <1>7 DEF PersistConflict, RequestTyped
  <2>2. QED BY <1>1, <1>2, <1>3, <2>1, KeysKept, DoneCtl DEF StoreTyped, OutsideTyped
<1>8. CASE Anchor(r)
  <2>1. NextHead(r) \in Seq(Leaves) BY <1>1, <1>2, <1>8, NextHeadTyped DEF Anchor
  <2>2. /\ pc[r] \in {"anchor", "anchor2"}
        /\ UNCHANGED <<sths, disk, atts, byContent, history, writesEnabled, faults>>
        /\ anchored' \in {anchored, anchored \cup {NextHead(r)}}
        /\ unanchored' \in {unanchored, unanchored \cup {NextHead(r)}}
    BY <1>8 DEF Anchor
  <2>3. \/ Appends(r) /\ Goto(r, IF Kind(r) = "attest" THEN "put" ELSE "history") /\ NoAnswer
        \/ Kind(r) = "consistency" /\ pc[r] = "anchor" /\ Goto(r, "anchor2") /\ NoAnswer
        \/ Answer(r, ReadAnswer(r))
    BY <1>8, AnchorWays
  <2>4. RequestTyped' BY <1>1, <1>3, <2>2, <2>3 DEF RequestTyped
  <2>5. StoreTyped' /\ OutsideTyped' /\ KeysThere'
    BY <1>1, <1>2, <2>1, <2>2, KeysKept DEF StoreTyped, OutsideTyped
  <2>6. pc'[r] \in {"put", "history", "anchor2", "done"}
        /\ (pc'[r] = "put" => Kind(r) = "attest") /\ (pc'[r] \in {"put", "history"} => Appends(r))
        /\ (pc'[r] = "anchor2" => Kind(r) = "consistency" /\ pc[r] = "anchor")
    BY <1>1, <2>3 DEF RequestTyped
  <2>7. Ctl(r)' BY <1>2, <1>3, <2>2, <2>6 DEF Ctl, Working, Kind, Appends
  <2>8. Relies(r)' BY <1>2, <1>3, <2>2, <2>6 DEF Relies, Working, Kind
  <2>9. QED BY <2>4, <2>5, <2>7, <2>8
<1>9. CASE AnchorFails(r)
  <2>1. NextHead(r) \in Seq(Leaves) BY <1>1, <1>2, <1>9, NextHeadTyped DEF AnchorFails
  <2>2. /\ pc[r] # "new" /\ pc'[r] = "done" /\ RequestTyped'
        /\ UNCHANGED <<disk, atts, byContent, history>>
    BY <1>1, <1>3, <1>9 DEF AnchorFails, RequestTyped
  <2>3. OutsideTyped'
    <3>1. /\ anchored' \in {anchored, anchored \cup {NextHead(r)}}
          /\ UNCHANGED <<writesEnabled, unanchored>>
          /\ faults < MaxFaults /\ faults' = faults + 1
      BY <1>9 DEF AnchorFails, Fault
    <3>2. faults' \in 0 .. MaxFaults BY <1>1, <3>1, LedgerAssumption DEF OutsideTyped
    <3>3. QED BY <1>1, <2>1, <3>1, <3>2 DEF OutsideTyped
  <2>4. QED BY <1>1, <1>2, <1>3, <2>2, <2>3, KeysKept, DoneCtl DEF StoreTyped
<1>10. CASE PutAttestation(r)
  <2>1. pc[r] = "put" /\ Kind(r) = "attest" /\ op[r].on \in Contents /\ r \in Ids /\ Appends(r)
    BY <1>2, <1>10, OperationKinds DEF PutAttestation, Ctl, Kind, Ids
  <2>2. pc' = [pc EXCEPT ![r] = "history"] /\ UNCHANGED <<sths, reply, disk, history, anchoring, faults>>
    BY <1>10 DEF PutAttestation
  <2>3. RequestTyped' /\ OutsideTyped' BY <1>1, <1>3, <2>2 DEF RequestTyped, OutsideTyped
  <2>4. atts' \in [Ids -> Row \cup {None}] /\ \A i \in Ids : atts[i] # None => atts'[i] # None
    BY <1>1, <1>10, RowsStay DEF Handle
  <2>5. byContent' \in [Contents -> Ids \cup {None}]
    BY <1>1, <1>10, <2>1 DEF PutAttestation, StoreTyped
  <2>6. StoreTyped' BY <1>1, <2>2, <2>4, <2>5 DEF StoreTyped
  <2>7. KeysThere'
    <3>1. CASE UNCHANGED <<atts, byContent>> BY <1>2, <3>1, KeysKept
    <3>2. CASE /\ atts' = [atts EXCEPT ![r] =
                             [content |-> op[r].on, index |-> leafIndex[r], status |-> "active"]]
               /\ byContent' = [byContent EXCEPT ![op[r].on] = r]
      <4>1. [content |-> op[r].on, index |-> leafIndex[r], status |-> "active"] \in Row
        BY <1>1, <2>1 DEF Row, RequestTyped
      <4>2. atts'[r] # None BY <1>1, <2>1, <3>2, <4>1, NoneAssumption DEF StoreTyped
      <4>3. QED BY <1>1, <1>2, <2>1, <2>4, <3>2, <4>2 DEF KeysThere, StoreTyped
    <3>3. QED BY <1>10, <3>1, <3>2 DEF PutAttestation
  <2>8. Ctl(r)' /\ Relies(r)'
    BY <1>1, <1>2, <1>3, <2>1, <2>2 DEF Ctl, Relies, Working, Kind, Appends, RequestTyped
  <2>9. QED BY <2>3, <2>6, <2>7, <2>8
<1>11. CASE AppendStatus(r)
  <2>1. pc[r] = "history" /\ op[r] \in Operations /\ Target(r) \in Ids /\ Appends(r)
    BY <1>1, <1>2, <1>11, TargetIsId DEF AppendStatus, Ctl
  <2>2. [by |-> r, index |-> leafIndex[r]] \in Entry BY <1>1, <1>2 DEF Entry, RequestTyped
  <2>3. UNCHANGED <<sths, disk, atts, byContent, anchoring, faults>> BY <1>11 DEF AppendStatus
  <2>4. history' \in [Ids -> Seq(Entry)]
    <3>1. Append(history[Target(r)], [by |-> r, index |-> leafIndex[r]]) \in Seq(Entry)
      BY <1>1, <2>1, <2>2 DEF StoreTyped
    <3>2. QED BY <1>1, <1>11, <2>1, <3>1 DEF AppendStatus, StoreTyped
  <2>5. StoreTyped' /\ OutsideTyped' /\ KeysThere'
    BY <1>1, <1>2, <2>3, <2>4, KeysKept DEF StoreTyped, OutsideTyped
  <2>6. /\ RequestTyped' /\ pc'[r] \in {"update", "done"}
        /\ pc'[r] = "update" => Kind(r) # "attest"
    BY <1>1, <1>3, <1>11, <2>3 DEF AppendStatus, RequestTyped
  <2>7. Ctl(r)' /\ Relies(r)'
    BY <1>2, <1>3, <2>1, <2>3, <2>6 DEF Ctl, Relies, Working, Kind, Appends
  <2>8. QED BY <2>5, <2>6, <2>7
<1>12. CASE SetAttestationStatus(r)
  <2>1. pc[r] # "new" /\ pc'[r] = "done" /\ RequestTyped' /\ UNCHANGED <<disk, byContent, history, anchoring, faults>>
    BY <1>1, <1>3, <1>12 DEF SetAttestationStatus, RequestTyped
  <2>2. atts' \in [Ids -> Row \cup {None}] /\ \A i \in Ids : atts[i] # None => atts'[i] # None
    BY <1>1, <1>12, RowsStay DEF Handle
  <2>3. StoreTyped' /\ OutsideTyped' BY <1>1, <2>1, <2>2 DEF StoreTyped, OutsideTyped
  <2>4. KeysThere' BY <1>1, <1>2, <2>1, <2>2 DEF KeysThere, StoreTyped
  <2>5. QED BY <1>2, <1>3, <2>1, <2>3, <2>4, DoneCtl
<1>13. CASE StoreFails(r)
  <2>1. /\ pc[r] # "new" /\ pc'[r] = "done" /\ RequestTyped'
        /\ UNCHANGED <<disk, atts, byContent, history, anchoring>>
    BY <1>1, <1>3, <1>13 DEF StoreFails, RequestTyped
  <2>2. OutsideTyped' BY <1>1, <1>13, <2>1, LedgerAssumption DEF StoreFails, Fault, OutsideTyped
  <2>3. QED BY <1>1, <1>2, <1>3, <2>1, <2>2, KeysKept, DoneCtl DEF StoreTyped
<1>14. QED BY <1>6, <1>7, <1>8, <1>9, <1>10, <1>11, <1>12, <1>13 DEF WriteStep

\* The steps that read keep types and control points.
LEMMA ReadStepTyped ==
  ASSUME TInv, NEW r \in Requests, ReadStep(r), UNCHANGED backend
  PROVE  TInv'
<1>1. RequestTyped /\ ProcessTyped /\ StoreTyped /\ OutsideTyped /\ CtlInv BY TInvParts
<1>2. QED BY <1>1, ReadFrame, ReadTyped, CtlOwn, TInvNext DEF ReadStep, Handle

\* It holds at the start ...
LEMMA TypeInit == Init => TInv
<1>. SUFFICES ASSUME Init PROVE TInv OBVIOUS
<1>. USE LedgerAssumption DEF Init, Leaves, Ids
<1>1. RequestTyped /\ ProcessTyped
  <2>1. <<>> \in Seq(Leaves) /\ <<>> \in Seq(Seq(Leaves)) /\ <<Boot>> \in Seq(Leaves) OBVIOUS
  <2>2. RequestTyped BY <2>1 DEF RequestTyped, PC
  <2>3. ProcessTyped BY <2>1 DEF ProcessTyped
  <2>4. QED BY <2>2, <2>3
<1>2. StoreTyped
  <2>1. [content |-> BootContent, index |-> 0, status |-> "active"] \in Row BY DEF Row
  <2>2. <<[by |-> Boot, index |-> 0]>> \in Seq(Entry) BY DEF Entry
  <2>3. <<Boot>> \in Seq(Leaves) OBVIOUS
  <2>4. QED BY <2>1, <2>2, <2>3, EmptySeq DEF StoreTyped
<1>3. OutsideTyped BY DEF OutsideTyped
<1>4. CtlInv
  <2>1. KeysThere
    <3>1. [content |-> BootContent, index |-> 0, status |-> "active"] \in Row BY DEF Row
    <3>2. QED BY <3>1, NoneAssumption DEF KeysThere
  <2>2. QED BY <2>1 DEF CtlInv, Ctl, Relies, Working
<1>5. QED BY <1>1, <1>2, <1>3, <1>4, TInvParts

\* ... and every step keeps it: a request's, a crash, a stutter.
LEMMA TypeStep == TInv /\ [Next]_vars => TInv'
<1>. SUFFICES ASSUME TInv, [Next]_vars PROVE TInv' OBVIOUS
<1>1. RequestTyped /\ ProcessTyped /\ StoreTyped /\ OutsideTyped /\ CtlInv BY TInvParts
<1>2. ASSUME NEW r \in Requests, Handle(r), UNCHANGED backend PROVE TInv'
  BY <1>2, ReadStepTyped, LogTyped, WriteTyped DEF Handle, ReadStep, WriteStep
<1>3. CASE Crash /\ UNCHANGED backend
  <2>1. UNCHANGED <<op, rec, latest, tl, fetched, leafIndex, sths, disk, atts, byContent, history, anchoring, reply>>
    BY <1>3 DEF Crash
  <2>2. RequestTyped' /\ StoreTyped' BY <1>1, <1>3, <2>1 DEF Crash, RequestTyped, StoreTyped, PC
  <2>3. ProcessTyped' BY <1>3, EmptySeq DEF Crash, ProcessTyped
  <2>4. OutsideTyped' BY <1>1, <1>3, <2>1, LedgerAssumption DEF Crash, Fault, OutsideTyped
  <2>5. ASSUME NEW r \in Requests PROVE Ctl(r)' /\ Relies(r)'
    <3>1. Ctl(r) /\ Relies(r) BY <1>1 DEF CtlInv
    <3>2. pc'[r] = IF pc[r] \in Idle THEN pc[r] ELSE "done" BY <1>3 DEF Crash
    <3>3. QED BY <2>1, <3>1, <3>2 DEF Ctl, Relies, Working, Idle
  <2>6. CtlInv' BY <1>1, <2>1, <2>5, KeysKept DEF CtlInv
  <2>7. QED BY <2>2, <2>3, <2>4, <2>6, TInvNext
<1>4. CASE UNCHANGED vars
  BY <1>1, <1>4, TInvNext DEF vars, RequestTyped, ProcessTyped, StoreTyped, OutsideTyped, CtlInv,
     KeysThere, Ctl, Relies, Working, Kind, Appends
<1>5. QED BY <1>2, <1>3, <1>4 DEF Next

\* Every variable of the ledger stays in its type: the rows, entries and heads
\* a handler builds are made of what it has read by then.
THEOREM TypeCorrect == Spec => []TypeOK
<1>1. TInv => TypeOK BY DEF TInv
<1>2. QED BY <1>1, TypeInit, TypeStep, PTL DEF Spec

-----------------------------------------------------------------------------
(* Rows say only what a published head holds.                                *)

\* A head is published by anchorSTH alone, on chain or, with writes disabled,
\* in the answer: a step adds at most the head its request has next.
LEMMA HeadChange ==
  ASSUME NEW r \in Requests, Handle(r)
  PROVE  /\ \/ Heads' = Heads
            \/ /\ pc[r] \in {"anchor", "anchor2"} /\ Heads' = Heads \cup {NextHead(r)}
               /\ tree' = tree
         /\ Anchor(r) => Heads' = Heads \cup {NextHead(r)}
<1>1. CASE Anchor(r) BY <1>1 DEF Anchor, Heads
<1>2. CASE AnchorFails(r) /\ ~Anchor(r) BY <1>2 DEF AnchorFails, Heads
<1>3. CASE ~Anchor(r) /\ ~AnchorFails(r)
  <2>1. UNCHANGED anchoring
    BY <1>3 DEF Handle, Submit, LookupContent, LookupRecord, LookupLatest, UseLog, LoadLeaves, InstallLog,
       CountLeaves, PersistLeaf, PersistConflict, PutAttestation, AppendStatus, SetAttestationStatus,
       StoreFails
  <2>2. QED BY <1>3, <2>1 DEF Heads
<1>4. QED BY <1>1, <1>2, <1>3

\* A crash and a stutter publish nothing.
LEMMA HeadsStand ==
  ASSUME Crash \/ UNCHANGED vars
  PROVE  Heads' = Heads
BY DEF Crash, vars, Heads

\* The step with which a request takes its instance, and what it finds there.
Takes(r, t) ==
  /\ pc[r] \in {"log", "install"} /\ op[r] \in Operations
  /\ \/ pc[r] = "log" /\ logs # None /\ logs' = logs /\ t = tree[logs]
     \/ pc[r] = "install" /\ logs' = r /\ t = fetched[r]
  /\ logs' \in Leaves /\ t \in Seq(Leaves)
  /\ Continue(r, logs', t)
  /\ UNCHANGED <<op, rec, latest, fetched, store, anchoring, faults>>

\* Both of getLog's ways to an instance are such a step.
LEMMA InstanceStep ==
  ASSUME TInv, NEW r \in Requests, UseLog(r) \/ InstallLog(r)
  PROVE  \E t \in Seq(Leaves) : Takes(r, t)
<1>1. RequestTyped /\ ProcessTyped /\ CtlInv BY TInvParts
<1>2. r \in Leaves /\ (pc[r] # "new" => op[r] \in Operations) /\ fetched[r] \in Seq(Leaves)
  BY <1>1 DEF Leaves, CtlInv, Ctl, RequestTyped
<1>3. CASE UseLog(r)
  <2>1. logs \in Leaves /\ tree[logs] \in Seq(Leaves) BY <1>1, <1>3 DEF UseLog, ProcessTyped
  <2>2. Takes(r, tree[logs]) BY <1>2, <1>3, <2>1 DEF UseLog, At, Takes
  <2>3. QED BY <2>1, <2>2
<1>4. CASE InstallLog(r)
  <2>1. Takes(r, fetched[r]) BY <1>2, <1>4 DEF InstallLog, At, Takes
  <2>2. QED BY <1>2, <2>1
<1>5. QED BY <1>3, <1>4

\* What a request has done once it has its instance.
LEMMA TakesTyped ==
  ASSUME TInv, NEW r \in Requests, NEW t, Takes(r, t)
  PROVE  /\ pc'[r] \in {"persist", "anchor", "done"}
         /\ tl' = [tl EXCEPT ![r] = logs']
         /\ pc'[r] = "persist" =>
              Appends(r) /\ leafIndex'[r] = Len(t) /\ tree' = [tree EXCEPT ![logs'] = Append(t, r)]
         /\ pc'[r] # "persist" => leafIndex' = leafIndex /\ tree' = [tree EXCEPT ![logs'] = t]
         /\ pc'[r] = "anchor" => ~Appends(r) /\ sths'[r] \in HeadsRead(r, t)
         /\ pc'[r] # "done" => reply' = reply
         /\ pc'[r] = "done" => reply'[r] = Problem("proof_unavailable")
<1>1. RequestTyped /\ ProcessTyped BY TInvParts
<1>2. PICK i \in Leaves : logs' = i BY DEF Takes
<1>3. Continue(r, i, t) /\ t \in Seq(Leaves) /\ op[r] \in Operations /\ pc[r] \in {"log", "install"}
      /\ UNCHANGED <<op, rec, latest, fetched>>
  BY <1>2 DEF Takes
<1>4. tl' = [tl EXCEPT ![r] = i] BY <1>3 DEF Continue
<1>5. QED BY <1>1, <1>2, <1>3, <1>4, ContinueTyped

\* Every other step leaves the instances alone.
LEMMA InstancesKept ==
  ASSUME NEW r \in Requests, Handle(r), ~UseLog(r), ~InstallLog(r)
  PROVE  UNCHANGED <<tree, logs, tl, leafIndex>>
BY DEF Handle, Submit, LookupContent, LookupRecord, LookupLatest, LoadLeaves, CountLeaves, PersistLeaf,
       PersistConflict, Anchor, AnchorFails, PutAttestation, AppendStatus, SetAttestationStatus, StoreFails

\* What is published stays published, and a request keeps its operation.
LEMMA RecordKept ==
  ASSUME RequestTyped, NEW r \in Requests, Handle(r)
  PROVE  /\ Heads \subseteq Heads'
         /\ \A q \in Requests : pc[q] # "new" => op'[q] = op[q] /\ pc'[q] # "new"
<1>. USE DEF Goto, Answer, NoAnswer, At
<1>1. Heads \subseteq Heads' BY HeadChange
<1>2. pc[r] # "new" => op'[r] = op[r]
  BY DEF Handle, Submit, LookupContent, LookupRecord, LookupLatest, UseLog, LoadLeaves, InstallLog,
         CountLeaves, PersistLeaf, PersistConflict, Anchor, AnchorFails, PutAttestation, AppendStatus,
         SetAttestationStatus, StoreFails
<1>3. pc'[r] # "new"
  <2>1. CASE Submit(r) \/ LookupContent(r) \/ LookupRecord(r) \/ LookupLatest(r)
    BY <2>1 DEF RequestTyped, Submit, LookupContent, LookupRecord, LookupLatest
  <2>2. CASE UseLog(r) \/ InstallLog(r)
    BY <2>2 DEF RequestTyped, UseLog, InstallLog, Continue
  <2>3. CASE Anchor(r)
    BY <2>3, AnchorWays DEF RequestTyped
  <2>4. CASE LoadLeaves(r) \/ CountLeaves(r) \/ PersistLeaf(r) \/ PersistConflict(r)
    BY <2>4 DEF RequestTyped, LoadLeaves, CountLeaves, PersistLeaf, PersistConflict
  <2>5. CASE AnchorFails(r) \/ PutAttestation(r) \/ AppendStatus(r) \/ SetAttestationStatus(r)
             \/ StoreFails(r)
    BY <2>5 DEF RequestTyped, AnchorFails, PutAttestation, AppendStatus, SetAttestationStatus, StoreFails
  <2>6. QED BY <2>1, <2>2, <2>3, <2>4, <2>5 DEF Handle
<1>4. QED BY <1>1, <1>2, <1>3, OthersKept DEF Same

\* A leaf appended is held at the old size, and keeps what was held.
LEMMA HeldByAppend ==
  ASSUME NEW S, NEW s \in Seq(S), NEW x \in S
  PROVE  /\ HoldsLeaf(Append(s, x), Len(s), x)
         /\ \A n \in Nat : \A y : HoldsLeaf(s, n, y) => HoldsLeaf(Append(s, x), n, y)
BY DEF HoldsLeaf

\* A request that has not got its instance yet may still build one.
Fresh(r) == pc[r] \in {"new", "lookup", "latest", "log", "install"}
Instances == \A r \in Requests : Fresh(r) => logs # r /\ \A q \in Requests : tl[q] # r

\* A request with a leaf of its own whose head it computed.
Writes(r) == pc[r] \in {"put", "history", "update"} \/ (pc[r] = "anchor" /\ Appends(r))

\* The leaf a request appended is in its instance, then in the head it has
\* anchored, and in a published head when it goes on to write its rows.
Held(r) ==
  /\ pc[r] \in {"persist", "insert"} => HoldsLeaf(tree[tl[r]], leafIndex[r], r)
  /\ Writes(r) => HoldsLeaf(sths[r][1], leafIndex[r], r)
  /\ pc[r] \in {"put", "history", "update"} => sths[r][1] \in Heads

\* Leaf l says of the attestation i that its status is st.
Says(l, i, st) ==
  /\ l \in Requests /\ pc[l] # "new"
  /\ Kind(l) \in Changes /\ op[l].on = i /\ StatusOf(l) = st
StatusSaid ==
  \A i \in Ids : atts[i] # None /\ atts[i].status # "active" =>
    \E s \in Heads : \E n \in DOMAIN s : Says(s[n], i, atts[i].status)

\* The inductive invariant of the backed rows.
BackedInv == Instances /\ (\A r \in Requests : Held(r)) /\ RowsPublished /\ StatusSaid

\* At the start there is the row of Boot, in the head of Boot.
LEMMA BackedInit == Init => BackedInv
<1>. SUFFICES ASSUME Init PROVE BackedInv OBVIOUS
<1>. USE LedgerAssumption DEF Init
<1>1. Instances BY DEF Instances, Leaves
<1>2. ASSUME NEW r \in Requests PROVE Held(r) BY <1>2 DEF Held, Writes
<1>3. RowsPublished
  <2>1. HoldsLeaf(<<Boot>>, 0, Boot) BY DEF HoldsLeaf
  <2>2. <<Boot>> \in Heads BY DEF Heads
  <2>3. QED BY <2>1, <2>2 DEF RowsPublished
<1>4. StatusSaid BY DEF StatusSaid
<1>5. QED BY <1>1, <1>2, <1>3, <1>4 DEF BackedInv

\* No instance is built in a step of another request, nor taken over.
LEMMA InstancesStep ==
  ASSUME TInv, Instances, NEW r \in Requests, Handle(r)
  PROVE  Instances'
<1>1. RequestTyped BY TInvParts
<1>2. CASE UseLog(r) \/ InstallLog(r)
  <2>1. PICK t : Takes(r, t) BY <1>2, InstanceStep
  <2>2. pc'[r] \in {"persist", "anchor", "done"} /\ tl' = [tl EXCEPT ![r] = logs'] /\ logs' \in {logs, r}
    BY <2>1, TakesTyped DEF Takes
  <2>3. ASSUME NEW q \in Requests, Fresh(q)' PROVE logs' # q /\ \A x \in Requests : tl'[x] # q
    <3>1. q # r BY <2>2, <2>3 DEF Fresh
    <3>2. Fresh(q) BY <1>1, <2>3, <3>1, OthersKept DEF Fresh, Same
    <3>3. QED BY <1>1, <2>2, <3>1, <3>2 DEF Instances, RequestTyped
  <2>4. QED BY <2>3 DEF Instances
<1>3. CASE ~UseLog(r) /\ ~InstallLog(r)
  <2>1. UNCHANGED <<logs, tl>> BY <1>3, InstancesKept
  <2>2. ASSUME NEW q \in Requests, Fresh(q)' PROVE Fresh(q)
    <3>1. CASE q # r BY <1>1, <2>2, <3>1, OthersKept DEF Fresh, Same
    <3>2. CASE q = r /\ ReadStep(r)
      BY <1>1, <3>2, <2>2 DEF ReadStep, Fresh, Submit, LookupContent, LookupRecord, LookupLatest, LoadLeaves,
                        CountLeaves, At, Goto, RequestTyped, PC
    <3>3. CASE q = r /\ WriteStep(r)
      <4>1. pc'[r] \in {"anchor", "put", "history", "anchor2", "update", "done"}
        <5>1. CASE Anchor(r) BY <1>1, <5>1, AnchorWays DEF Goto, Answer, RequestTyped
        <5>2. QED BY <1>1, <3>3, <5>1 DEF WriteStep, PersistLeaf, PersistConflict, AnchorFails,
                PutAttestation, AppendStatus, SetAttestationStatus, StoreFails, Goto, Answer, RequestTyped
      <4>2. QED BY <2>2, <3>3, <4>1 DEF Fresh
    <3>4. QED BY <1>3, <3>1, <3>2, <3>3 DEF Handle, ReadStep, WriteStep
  <2>3. QED BY <2>1, <2>2 DEF Instances
<1>4. QED BY <1>2, <1>3

\* An instance in use by another request keeps its leaves where they are.
LEMMA InstanceGrows ==
  ASSUME TInv, Instances, NEW r \in Requests, Handle(r), NEW q \in Requests \ {r}, tl[q] # None
  PROVE  \A n \in Nat : \A x : HoldsLeaf(tree[tl[q]], n, x) => HoldsLeaf(tree'[tl[q]], n, x)
<1>1. RequestTyped /\ ProcessTyped BY TInvParts
<1>2. tl[q] \in Leaves /\ tree[tl[q]] \in Seq(Leaves) BY <1>1 DEF RequestTyped, ProcessTyped
<1>3. CASE UseLog(r) \/ InstallLog(r)
  <2>1. PICK t : Takes(r, t) BY <1>3, InstanceStep
  <2>2. CASE logs' = r /\ pc[r] = "install"
    <3>1. tl[q] # r BY <2>2 DEF Instances, Fresh
    <3>2. tree'[tl[q]] = tree[tl[q]] BY <1>1, <1>2, <2>1, <2>2, <3>1, TakesTyped DEF ProcessTyped
    <3>3. QED BY <3>2
  <2>3. CASE logs' = logs /\ t = tree[logs]
    <3>1. tree'[tl[q]] = tree[tl[q]] \/ tree'[tl[q]] = Append(tree[tl[q]], r)
      BY <1>1, <1>2, <2>1, <2>3, TakesTyped DEF ProcessTyped
    <3>2. r \in Leaves BY DEF Leaves
    <3>3. QED BY <1>2, <3>1, <3>2, HeldByAppend
  <2>4. QED BY <2>1, <2>2, <2>3 DEF Takes
<1>4. CASE ~UseLog(r) /\ ~InstallLog(r)
  BY <1>4, InstancesKept
<1>5. QED BY <1>3, <1>4

\* A writer's leaf stays where the writer has it.
LEMMA HeldStep ==
  ASSUME TInv, Instances, NEW r \in Requests, Handle(r), NEW q \in Requests, Held(q)
  PROVE  Held(q)'
<1>1. RequestTyped /\ ProcessTyped /\ CtlInv BY TInvParts
<1>2. CASE q # r
  <2>1. Same(q) /\ Heads \subseteq Heads' BY <1>1, <1>2, OthersKept, RecordKept
  <2>2. pc[q] \in {"persist", "insert"} => HoldsLeaf(tree'[tl[q]], leafIndex[q], q)
    <3>1. SUFFICES ASSUME pc[q] \in {"persist", "insert"} PROVE HoldsLeaf(tree'[tl[q]], leafIndex[q], q)
      OBVIOUS
    <3>2. tl[q] # None /\ leafIndex[q] \in Nat /\ HoldsLeaf(tree[tl[q]], leafIndex[q], q)
      BY <1>1, <3>1 DEF CtlInv, Ctl, Held, RequestTyped
    <3>3. QED BY <1>2, <3>2, InstanceGrows
  <2>3. Writes(q)' => Writes(q) BY <2>1 DEF Same, Writes, Appends, Kind
  <2>4. QED BY <2>1, <2>2, <2>3 DEF Held, Same
<1>3. CASE q = r /\ (UseLog(r) \/ InstallLog(r))
  <2>1. PICK t \in Seq(Leaves) : Takes(r, t) BY <1>3, InstanceStep
  <2>2. CASE pc'[r] = "persist"
    <3>1. tl'[r] = logs' /\ logs' \in Leaves BY <1>1, <2>1, TakesTyped DEF Takes, RequestTyped
    <3>2. tree'[tl'[r]] = Append(t, r) /\ leafIndex'[r] = Len(t)
      BY <1>1, <2>1, <2>2, <3>1, TakesTyped DEF ProcessTyped
    <3>3. r \in Leaves BY DEF Leaves
    <3>4. QED BY <1>3, <2>2, <3>2, <3>3, HeldByAppend DEF Held, Writes
  <2>3. CASE pc'[r] # "persist"
    <3>1. pc'[r] = "anchor" => ~Appends(r)' BY <2>1, <2>3, TakesTyped DEF Takes, Appends, Kind
    <3>2. QED BY <1>3, <2>1, <2>3, <3>1, TakesTyped DEF Held, Writes
  <2>4. QED BY <2>2, <2>3
<1>4. CASE q = r /\ ReadStep(r)
  <2>1. pc'[r] \in {"lookup", "latest", "log", "install", "done"} \/ CountLeaves(r)
    BY <1>1, <1>4 DEF ReadStep, Submit, LookupContent, LookupRecord, LookupLatest, LoadLeaves, At,
                      Goto, Answer, RequestTyped
  <2>2. CASE CountLeaves(r)
    BY <1>1, <1>4, <2>2 DEF CountLeaves, At, Goto, Held, Writes, RequestTyped
  <2>3. QED BY <1>4, <2>1, <2>2 DEF Held, Writes
<1>5. CASE q = r /\ WriteStep(r)
  <2>1. UNCHANGED <<op, rec, leafIndex>>
    BY <1>5 DEF WriteStep, PersistLeaf, PersistConflict, Anchor, AnchorFails, PutAttestation,
                AppendStatus, SetAttestationStatus, StoreFails
  <2>2. CASE PersistLeaf(r)
    <3>1. pc'[r] = "anchor" /\ sths'[r][1] = tree[tl[r]] /\ pc[r] \in {"persist", "insert"}
      BY <1>1, <2>2 DEF PersistLeaf, At, Goto, RequestTyped
    <3>2. QED BY <1>5, <2>1, <3>1 DEF Held, Writes
  <2>3. CASE Anchor(r)
    <3>1. CASE pc'[r] \in {"put", "history"} /\ Appends(r)
      <4>1. pc[r] = "anchor" BY <1>1, <2>3, <3>1 DEF Anchor, CtlInv, Ctl, Appends, Changes
      <4>2. NextHead(r) = sths[r][1] /\ sths' = sths /\ Heads' = Heads \cup {NextHead(r)}
        BY <2>3, <4>1, HeadChange DEF Anchor, NextHead
      <4>3. QED BY <1>5, <2>1, <3>1, <4>1, <4>2 DEF Held, Writes
    <3>2. CASE pc'[r] \in {"anchor2", "done"}
      BY <1>5, <3>2 DEF Held, Writes
    <3>3. QED BY <1>1, <2>3, <3>1, <3>2, AnchorWays DEF Goto, Answer, RequestTyped
  <2>4. CASE PutAttestation(r) \/ AppendStatus(r) \/ SetAttestationStatus(r)
    <3>1. pc[r] \in {"put", "history", "update"} /\ pc'[r] \in {"history", "update", "done"}
          /\ UNCHANGED <<sths, anchoring>>
      BY <1>1, <2>4 DEF PutAttestation, AppendStatus, SetAttestationStatus, At, Goto, Answer, RequestTyped
    <3>2. Heads' = Heads BY <3>1 DEF Heads
    <3>3. QED BY <1>5, <2>1, <3>1, <3>2 DEF Held, Writes
  <2>5. CASE PersistConflict(r) \/ AnchorFails(r) \/ StoreFails(r)
    BY <1>1, <1>5, <2>5 DEF PersistConflict, AnchorFails, StoreFails, Answer, Goto, RequestTyped, Held, Writes
  <2>6. QED BY <1>5, <2>2, <2>3, <2>4, <2>5 DEF WriteStep
<1>6. QED BY <1>2, <1>3, <1>4, <1>5 DEF Handle, ReadStep, WriteStep

\* How a step of a request changes the attestation rows.
LEMMA RowChange ==
  ASSUME TInv, NEW r \in Requests, Handle(r)
  PROVE  \/ UNCHANGED <<atts, byContent>>
         \/ /\ pc[r] = "put" /\ Kind(r) = "attest" /\ op[r].on \in Contents
            /\ Postgres => byContent[op[r].on] = None
            /\ atts' = [atts EXCEPT ![r] =
                          [content |-> op[r].on, index |-> leafIndex[r], status |-> "active"]]
            /\ byContent' = [byContent EXCEPT ![op[r].on] = r]
         \/ /\ pc[r] = "update" /\ Kind(r) \in Changes /\ op[r].on \in Ids /\ atts[op[r].on] \in Row
            /\ atts' = [atts EXCEPT ![op[r].on] =
                          [content |-> atts[op[r].on].content, index |-> atts[op[r].on].index,
                           status |-> StatusOf(r)]]
            /\ UNCHANGED byContent
<1>1. RequestTyped /\ StoreTyped /\ Ctl(r) /\ Relies(r) BY TInvParts DEF CtlInv
<1>2. CASE PutAttestation(r)
  <2>1. pc[r] = "put" /\ Kind(r) = "attest" /\ op[r].on \in Contents
    BY <1>1, <1>2, OperationKinds DEF PutAttestation, At, Ctl, Kind
  <2>2. QED BY <1>2, <2>1 DEF PutAttestation
<1>3. CASE SetAttestationStatus(r)
  <2>1. pc[r] = "update" /\ op[r] \in Operations /\ Appends(r) /\ Kind(r) # "attest"
    BY <1>1, <1>3 DEF SetAttestationStatus, At, Ctl
  <2>2. Kind(r) \in Changes /\ op[r].on \in Ids /\ Target(r) = op[r].on
    BY <2>1, OperationKinds DEF Appends, Target, Kind
  <2>3. atts[op[r].on] # None BY <1>1, <2>1, <2>2 DEF Relies, Working, Changes
  <2>4. atts[op[r].on] \in Row BY <1>1, <2>2, <2>3 DEF StoreTyped
  <2>5. [atts[op[r].on] EXCEPT !.status = StatusOf(r)]
          = [content |-> atts[op[r].on].content, index |-> atts[op[r].on].index, status |-> StatusOf(r)]
    BY <2>4 DEF Row
  <2>6. QED BY <1>3, <2>1, <2>2, <2>4, <2>5 DEF SetAttestationStatus
<1>4. CASE ~PutAttestation(r) /\ ~SetAttestationStatus(r)
  BY <1>4 DEF Handle, Submit, LookupContent, LookupRecord, LookupLatest, UseLog, LoadLeaves,
     InstallLog, CountLeaves, PersistLeaf, PersistConflict, Anchor, AnchorFails, AppendStatus, StoreFails
<1>5. QED BY <1>2, <1>3, <1>4

\* A row is written for a leaf that the published head of its request holds.
LEMMA RowsStep ==
  ASSUME TInv, BackedInv, NEW r \in Requests, Handle(r)
  PROVE  RowsPublished'
<1>1. RequestTyped /\ StoreTyped /\ Heads \subseteq Heads' BY TInvParts, RecordKept
<1>2. Held(r) /\ RowsPublished BY DEF BackedInv
<1>3. SUFFICES ASSUME NEW i \in Ids, atts'[i] # None
               PROVE  \E s \in Heads : HoldsLeaf(s, atts'[i].index, i)
  BY <1>1 DEF RowsPublished
<1>4. CASE atts[i] # None /\ atts'[i].index = atts[i].index
  BY <1>2, <1>4 DEF RowsPublished
<1>5. CASE i = r /\ pc[r] = "put" /\ atts'[i].index = leafIndex[r]
  BY <1>2, <1>5 DEF Held, Writes
<1>6. CASE UNCHANGED atts BY <1>3, <1>4, <1>6
<1>7. CASE /\ pc[r] = "put"
           /\ atts' = [atts EXCEPT ![r] =
                        [content |-> op[r].on, index |-> leafIndex[r], status |-> "active"]]
  BY <1>1, <1>3, <1>4, <1>5, <1>7 DEF StoreTyped
<1>8. CASE /\ op[r].on \in Ids /\ atts[op[r].on] \in Row
           /\ atts' = [atts EXCEPT ![op[r].on] =
                        [content |-> atts[op[r].on].content, index |-> atts[op[r].on].index,
                         status |-> StatusOf(r)]]
  BY <1>1, <1>3, <1>4, <1>8, NoneAssumption DEF StoreTyped
<1>9. QED BY <1>6, <1>7, <1>8, RowChange

\* A status is written once a published head holds the leaf that says it.
LEMMA StatusStep ==
  ASSUME TInv, BackedInv, NEW r \in Requests, Handle(r)
  PROVE  StatusSaid'
<1>1. RequestTyped /\ StoreTyped /\ OutsideTyped /\ Heads \subseteq Heads' /\ Ctl(r)
  BY TInvParts, RecordKept DEF CtlInv
<1>2. Held(r) /\ StatusSaid BY DEF BackedInv
<1>3. ASSUME NEW l, NEW i, NEW st, Says(l, i, st) PROVE Says(l, i, st)'
  BY <1>1, <1>3, RecordKept DEF Says, Kind, StatusOf
<1>4. SUFFICES ASSUME NEW i \in Ids, atts'[i] # None, atts'[i].status # "active"
               PROVE  \E s \in Heads : \E n \in DOMAIN s : Says(s[n], i, atts'[i].status)
  BY <1>1, <1>3 DEF StatusSaid
<1>5. CASE atts'[i] = atts[i] BY <1>2, <1>4, <1>5 DEF StatusSaid
<1>6. CASE pc[r] = "update" /\ Kind(r) \in Changes /\ op[r].on = i /\ atts'[i].status = StatusOf(r)
  <2>1. sths[r][1] \in Heads /\ HoldsLeaf(sths[r][1], leafIndex[r], r) BY <1>2, <1>6 DEF Held, Writes
  <2>2. sths[r][1] \in Seq(Leaves) /\ leafIndex[r] \in Nat
    BY <1>1, <2>1 DEF OutsideTyped, RequestTyped, Heads
  <2>3. leafIndex[r] + 1 \in DOMAIN sths[r][1] /\ sths[r][1][leafIndex[r] + 1] = r
    BY <2>1, <2>2 DEF HoldsLeaf
  <2>4. Says(r, i, atts'[i].status) BY <1>6 DEF Says
  <2>5. QED BY <2>1, <2>3, <2>4
<1>7. QED
  <2>1. CASE UNCHANGED atts BY <1>5, <2>1
  <2>2. CASE /\ atts' = [atts EXCEPT ![r] =
                          [content |-> op[r].on, index |-> leafIndex[r], status |-> "active"]]
    BY <1>1, <1>4, <1>5, <2>2 DEF StoreTyped
  <2>3. CASE /\ pc[r] = "update" /\ Kind(r) \in Changes /\ op[r].on \in Ids
             /\ atts' = [atts EXCEPT ![op[r].on] =
                          [content |-> atts[op[r].on].content, index |-> atts[op[r].on].index,
                           status |-> StatusOf(r)]]
    BY <1>1, <1>4, <1>5, <1>6, <2>3 DEF StoreTyped
  <2>4. QED BY <2>1, <2>2, <2>3, RowChange

\* Every step keeps the rows backed, a crash by ending every writer.
LEMMA BackedStep == TInv /\ BackedInv /\ [Next]_vars => BackedInv'
<1>. SUFFICES ASSUME TInv, BackedInv, [Next]_vars PROVE BackedInv' OBVIOUS
<1>1. ASSUME NEW r \in Requests, Handle(r) PROVE BackedInv'
  BY <1>1, InstancesStep, HeldStep, RowsStep, StatusStep DEF BackedInv
<1>2. CASE Crash
  <2>1. /\ UNCHANGED <<op, tl, leafIndex, sths, atts, Heads>> /\ logs' = None
        /\ \A r \in Requests : pc'[r] = IF pc[r] \in Idle THEN pc[r] ELSE "done"
    BY <1>2, HeadsStand DEF Crash
  <2>2. Instances'
    <3>1. ASSUME NEW q \in Requests, Fresh(q)' PROVE Fresh(q) BY <2>1, <3>1 DEF Fresh, Idle
    <3>2. QED BY <2>1, <3>1, LedgerAssumption DEF BackedInv, Instances, Leaves
  <2>3. ASSUME NEW q \in Requests PROVE Held(q)' BY <2>1 DEF Held, Writes, Idle
  <2>4. RowsPublished' BY <2>1 DEF BackedInv, RowsPublished
  <2>5. StatusSaid'
    <3>1. ASSUME NEW l, NEW i, NEW st, Says(l, i, st) PROVE Says(l, i, st)'
      BY <2>1, <3>1 DEF Says, Kind, StatusOf, Idle
    <3>2. QED BY <2>1, <3>1 DEF BackedInv, StatusSaid
  <2>6. QED BY <2>2, <2>3, <2>4, <2>5 DEF BackedInv
<1>3. CASE UNCHANGED vars
  <2>1. UNCHANGED <<pc, op, rec, tl, leafIndex, sths, tree, logs, atts, Heads>> BY <1>3, HeadsStand DEF vars
  <2>2. Instances' /\ RowsPublished' BY <2>1 DEF BackedInv, Instances, Fresh, RowsPublished
  <2>3. ASSUME NEW q \in Requests PROVE Held(q)'
    BY <2>1 DEF BackedInv, Held, Writes, Appends, Kind
  <2>4. StatusSaid'
    <3>1. ASSUME NEW l, NEW i, NEW st, Says(l, i, st) PROVE Says(l, i, st)'
      BY <2>1, <3>1 DEF Says, Kind, StatusOf
    <3>2. QED BY <2>1, <3>1 DEF BackedInv, StatusSaid
  <2>5. QED BY <2>2, <2>3, <2>4 DEF BackedInv
<1>4. QED BY <1>1, <1>2, <1>3 DEF Next

\* Neither an attestation row nor its status is ever ahead of the tree heads
\* anchorSTH has published, whatever other requests, failures and restarts come
\* between.  With writes enabled these are the heads recorded on the chain; with
\* writes disabled no head is on the chain, and an unanchored one is all a row has.
THEOREM RowsAreBacked == Spec => []RowsBacked
<1>1. BackedInv => RowsBacked
  <2>1. ASSUME NEW l, NEW i, NEW st, Says(l, i, st)
        PROVE  l # Boot /\ Kind(l) \in Changes /\ op[l].on = i /\ StatusOf(l) = st
    BY <2>1, LedgerAssumption DEF Says
  <2>2. StatusSaid => StatusBacked BY <2>1 DEF StatusSaid, StatusBacked
  <2>3. QED BY <2>2 DEF BackedInv, RowsBacked
<1>2. QED BY <1>1, TypeInit, TypeStep, BackedInit, BackedStep, PTL DEF Spec

-----------------------------------------------------------------------------
(* Acknowledged attestations are durable, and one content hash has one id.   *)

\* The codes of the answers that promise nothing.
Refusals == {"not_found", "status_conflict", "proof_unavailable", "error", "chain_unavailable"}

\* How a request comes to its answer.
LEMMA Answered ==
  ASSUME RequestTyped, NEW r \in Requests, Ctl(r), Handle(r)
  PROVE  /\ pc[r] # "done"
         /\ \/ reply' = reply
            \/ pc'[r] = "done" /\ \E code \in Refusals : reply'[r] = Problem(code)
            \/ Anchor(r) /\ ~Appends(r) /\ pc'[r] = "done" /\ reply'[r] = ReadAnswer(r)
            \/ /\ AppendStatus(r) /\ Kind(r) = "attest" /\ HistoryKey(r)
               /\ pc'[r] = "done" /\ reply'[r] = WriteAnswer(r)
               /\ history' = [history EXCEPT ![r] = Append(@, [by |-> r, index |-> leafIndex[r]])]
            \/ SetAttestationStatus(r) /\ pc'[r] = "done" /\ reply'[r] = WriteAnswer(r)
<1>. USE DEF At, Goto, Answer, NoAnswer, Refusals
<1>1. CASE ReadStep(r)
  <2>1. CASE LookupRecord(r) BY <2>1 DEF LookupRecord, RequestTyped
  <2>2. CASE ~LookupRecord(r)
    BY <1>1, <2>2 DEF ReadStep, Submit, LookupContent, LookupLatest, LoadLeaves, CountLeaves
  <2>3. QED BY <2>1, <2>2
<1>2. CASE UseLog(r) \/ InstallLog(r)
  BY <1>2 DEF UseLog, InstallLog, Continue, RequestTyped
<1>3. CASE Anchor(r)
  <2>1. pc[r] # "done" BY <1>3 DEF Anchor
  <2>2. QED BY <1>3, <2>1, AnchorWays DEF RequestTyped
<1>4. CASE AppendStatus(r)
  <2>1. pc[r] = "history" BY <1>4 DEF AppendStatus
  <2>2. CASE Kind(r) = "attest" /\ HistoryKey(r)
    BY <1>4, <2>1, <2>2 DEF AppendStatus, RequestTyped, Target
  <2>3. CASE Kind(r) # "attest" BY <1>4, <2>1, <2>3 DEF AppendStatus, RequestTyped
  <2>4. CASE Kind(r) = "attest" /\ ~HistoryKey(r)
    BY <1>4, <2>1, <2>4 DEF AppendStatus, RequestTyped, Target
  <2>5. QED BY <2>2, <2>3, <2>4
<1>5. CASE SetAttestationStatus(r) BY <1>5 DEF SetAttestationStatus, RequestTyped
<1>6. CASE PersistLeaf(r) \/ PutAttestation(r) BY <1>6 DEF PersistLeaf, PutAttestation
<1>7. CASE PersistConflict(r) \/ AnchorFails(r) \/ StoreFails(r)
  BY <1>7 DEF PersistConflict, AnchorFails, StoreFails, RequestTyped
<1>8. QED BY <1>1, <1>2, <1>3, <1>4, <1>5, <1>6, <1>7 DEF Handle, ReadStep

\* Request r has succeeded.
Ok(r) == reply[r] # None /\ reply[r].code \in {"created", "ok"}

\* The row a request wrote is its own, with the index it was given.
Own(r) ==
  /\ atts[r] # None =>
       /\ pc[r] \in {"history", "done"} /\ Kind(r) = "attest"
       /\ atts[r].content = op[r].on /\ atts[r].index = leafIndex[r]
  /\ pc[r] = "history" /\ Kind(r) = "attest" /\ ~Postgres => atts[r] # None

\* On Postgres a content key, once set, keeps its row ...
KeyFixed ==
  Postgres => \A i \in Ids : atts[i] # None => byContent[atts[i].content] = i

\* ... so that what a request has read by content is still what is there.
RecKeyed(r) ==
  /\ pc[r] = "new" => rec[r] = None
  /\ Postgres /\ pc[r] # "new" /\ Kind(r) = "attest" /\ rec[r] # None =>
       byContent[op[r].on] = rec[r].id

\* What a request was told is what is stored.
Told(r) ==
  /\ reply[r] # None => pc[r] = "done"
  /\ reply[r] # None /\ reply[r].code = "created" =>
       /\ reply[r].index = leafIndex[r] /\ atts[r] # None
       /\ \E n \in DOMAIN history[r] : history[r][n] = [by |-> r, index |-> leafIndex[r]]
  /\ Postgres /\ Ok(r) /\ Kind(r) = "attest" =>
       byContent[op[r].on] = reply[r].id /\ byContent[op[r].on] # None

\* The inductive invariant of the answers.
AckInv == KeyFixed /\ \A r \in Requests : Own(r) /\ RecKeyed(r) /\ Told(r)

\* Nobody was told anything yet.
LEMMA AckInit == Init => AckInv
<1>. SUFFICES ASSUME Init PROVE AckInv OBVIOUS
<1>. USE LedgerAssumption DEF Init
<1>1. KeyFixed BY DEF KeyFixed
<1>2. ASSUME NEW r \in Requests PROVE Own(r) /\ RecKeyed(r) /\ Told(r)
  BY <1>2 DEF Own, RecKeyed, Told, Ok, Ids, Leaves
<1>3. QED BY <1>1, <1>2 DEF AckInv

\* ON CONFLICT DO NOTHING: a content key that has a row keeps it.
LEMMA KeyStep ==
  ASSUME TInv, KeyFixed, NEW r \in Requests, Handle(r), UNCHANGED backend
  PROVE  /\ KeyFixed'
         /\ Postgres => \A c \in Contents : byContent[c] # None => byContent'[c] = byContent[c]
<1>1. StoreTyped BY TInvParts
<1>2. CASE UNCHANGED <<atts, byContent>> BY <1>2 DEF KeyFixed, Postgres
<1>3. CASE /\ op[r].on \in Contents
           /\ Postgres => byContent[op[r].on] = None
           /\ atts' = [atts EXCEPT ![r] =
                        [content |-> op[r].on, index |-> leafIndex[r], status |-> "active"]]
           /\ byContent' = [byContent EXCEPT ![op[r].on] = r]
  <2>1. ASSUME Postgres, NEW i \in Ids, atts'[i] # None PROVE byContent'[atts'[i].content] = i
    <3>1. CASE i = r
      <4>1. atts'[r].content = op[r].on BY <1>1, <1>3, <3>1 DEF StoreTyped
      <4>2. byContent'[op[r].on] = r BY <1>1, <1>3 DEF StoreTyped
      <4>3. QED BY <3>1, <4>1, <4>2
    <3>2. CASE i # r
      <4>1. atts'[i] = atts[i] /\ atts[i] \in Row BY <1>1, <1>3, <2>1, <3>2 DEF StoreTyped
      <4>2. byContent[atts[i].content] = i /\ atts[i].content \in Contents
        BY <2>1, <4>1 DEF KeyFixed, Row
      <4>3. i # None BY LedgerAssumption DEF Ids
      <4>4. QED BY <1>1, <1>3, <2>1, <4>1, <4>2, <4>3 DEF StoreTyped
    <3>3. QED BY <3>1, <3>2
  <2>2. QED BY <1>1, <1>3, <2>1 DEF KeyFixed, Postgres, StoreTyped
<1>4. CASE /\ op[r].on \in Ids /\ atts[op[r].on] \in Row
           /\ atts' = [atts EXCEPT ![op[r].on] =
                        [content |-> atts[op[r].on].content, index |-> atts[op[r].on].index,
                         status |-> StatusOf(r)]]
           /\ UNCHANGED byContent
  BY <1>1, <1>4, NoneAssumption DEF KeyFixed, Postgres, StoreTyped
<1>5. QED BY <1>2, <1>3, <1>4, RowChange

\* A row keeps its content and leaf_index, and only its own request writes it.
LEMMA RowKept ==
  ASSUME TInv, NEW r \in Requests, Handle(r), NEW i \in Ids, i # r \/ pc[r] # "put"
  PROVE  /\ atts'[i] # None <=> atts[i] # None
         /\ atts[i] # None => atts'[i].content = atts[i].content /\ atts'[i].index = atts[i].index
<1>1. StoreTyped BY TInvParts
<1>2. CASE UNCHANGED atts BY <1>2
<1>3. CASE /\ pc[r] = "put"
           /\ atts' = [atts EXCEPT ![r] =
                        [content |-> op[r].on, index |-> leafIndex[r], status |-> "active"]]
  BY <1>1, <1>3 DEF StoreTyped
<1>4. CASE /\ op[r].on \in Ids /\ atts[op[r].on] \in Row
           /\ atts' = [atts EXCEPT ![op[r].on] =
                        [content |-> atts[op[r].on].content, index |-> atts[op[r].on].index,
                         status |-> StatusOf(r)]]
  <2>1. [content |-> atts[op[r].on].content, index |-> atts[op[r].on].index, status |-> StatusOf(r)] \in Row
    BY <1>4 DEF Row, StatusOf
  <2>2. QED BY <1>1, <1>4, <2>1, NoneAssumption DEF StoreTyped
<1>5. QED BY <1>2, <1>3, <1>4, RowChange

\* The row of a request is written once, by its own PutAttestation.
LEMMA OwnStep ==
  ASSUME TInv, NEW r \in Requests, Handle(r), UNCHANGED backend, NEW q \in Requests, Own(q)
  PROVE  Own(q)'
<1>1. RequestTyped /\ StoreTyped /\ Ctl(r) /\ q \in Ids BY TInvParts DEF CtlInv, Ids, Leaves
<1>2. CASE q # r
  BY <1>1, <1>2, RowKept, OthersKept DEF Own, Same, Kind, Postgres
<1>. USE DEF At, Goto, Answer, NoAnswer
<1>3. CASE q = r /\ PutAttestation(r)
  <2>1. /\ pc[r] = "put" /\ pc'[r] = "history" /\ Kind(r) = "attest" /\ op[r].on \in Contents
        /\ UNCHANGED <<op, leafIndex>> /\ atts[r] = None
    BY <1>1, <1>3, OperationKinds DEF PutAttestation, RequestTyped, Ctl, Kind, Own
  <2>2. CASE Postgres /\ UNCHANGED atts
    BY <1>3, <2>1, <2>2 DEF Own, Postgres
  <2>3. CASE atts' = [atts EXCEPT ![r] =
                        [content |-> op[r].on, index |-> leafIndex[r], status |-> "active"]]
    <3>1. [content |-> op[r].on, index |-> leafIndex[r], status |-> "active"] \in Row
      BY <1>1, <2>1 DEF Row, RequestTyped
    <3>2. QED BY <1>1, <1>3, <2>1, <2>3, <3>1, NoneAssumption DEF Own, Kind, StoreTyped
  <2>4. QED BY <1>3, <2>2, <2>3 DEF PutAttestation
<1>4. CASE q = r /\ ~PutAttestation(r) /\ atts[r] # None
  <2>1. pc[r] = "history" /\ Kind(r) = "attest" BY <1>1, <1>4, Answered DEF Own
  <2>2. AppendStatus(r) \/ StoreFails(r)
    BY <1>4, <2>1 DEF Handle, Submit, LookupContent, LookupRecord, LookupLatest, UseLog, LoadLeaves,
       InstallLog, CountLeaves, PersistLeaf, PersistConflict, Anchor, AnchorFails, SetAttestationStatus
  <2>3. pc'[r] = "done" /\ UNCHANGED <<op, leafIndex, atts>>
    BY <1>1, <2>1, <2>2 DEF AppendStatus, StoreFails, RequestTyped
  <2>4. QED BY <1>4, <2>1, <2>3 DEF Own, Kind
<1>5. CASE q = r /\ ~PutAttestation(r) /\ atts[r] = None
  <2>1. atts'[r] = None
    <3>1. CASE pc[r] = "put"
      BY <1>5, <3>1 DEF Handle, Submit, LookupContent, LookupRecord, LookupLatest, UseLog, LoadLeaves,
         InstallLog, CountLeaves, PersistLeaf, PersistConflict, Anchor, AnchorFails, AppendStatus,
         SetAttestationStatus, StoreFails
    <3>2. CASE pc[r] # "put" BY <1>1, <1>5, <3>2, RowKept
    <3>3. QED BY <3>1, <3>2
  <2>2. ~(pc'[r] = "history" /\ Kind(r)' = "attest")
    <3>1. CASE Anchor(r)
      <4>1. op' = op BY <3>1 DEF Anchor
      <4>2. QED BY <1>1, <3>1, <4>1, AnchorWays DEF RequestTyped, Kind
    <3>2. CASE UseLog(r) \/ InstallLog(r) BY <1>1, <3>2 DEF UseLog, InstallLog, Continue, RequestTyped
    <3>3. CASE ReadStep(r)
      BY <1>1, <3>3 DEF ReadStep, Submit, LookupContent, LookupRecord, LookupLatest, LoadLeaves,
                        CountLeaves, RequestTyped
    <3>4. CASE PersistLeaf(r) \/ PersistConflict(r) \/ AnchorFails(r) \/ AppendStatus(r)
               \/ SetAttestationStatus(r) \/ StoreFails(r)
      BY <1>1, <3>4 DEF PersistLeaf, PersistConflict, AnchorFails, AppendStatus, SetAttestationStatus,
                        StoreFails, RequestTyped
    <3>5. QED BY <1>5, <3>1, <3>2, <3>3, <3>4 DEF Handle, ReadStep
  <2>3. QED BY <1>5, <2>1, <2>2 DEF Own
<1>6. QED BY <1>2, <1>3, <1>4, <1>5

\* A record read by content is the one its key still names.
LEMMA RecKeyedStep ==
  ASSUME TInv, KeyFixed, NEW r \in Requests, Handle(r), UNCHANGED backend, NEW q \in Requests, RecKeyed(q)
  PROVE  RecKeyed(q)'
<1>1. RequestTyped /\ StoreTyped /\ Ctl(q) BY TInvParts DEF CtlInv
<1>2. pc[q] # "new" => op'[q] = op[q] /\ pc'[q] # "new" BY <1>1, RecordKept
<1>3. CASE pc[q] # "new" /\ rec'[q] = rec[q]
  <2>1. CASE Postgres /\ Kind(q) = "attest" /\ rec[q] # None
    <3>1. rec[q].id # None BY <1>1, <2>1, LedgerAssumption DEF RequestTyped, Snapshot, Ids
    <3>2. op[q].on \in Contents BY <1>1, <1>3, <2>1, OperationKinds DEF Ctl, Kind
    <3>3. byContent'[op[q].on] = rec[q].id BY <1>3, <2>1, <3>1, <3>2, KeyStep DEF RecKeyed
    <3>4. QED BY <1>2, <1>3, <3>3 DEF RecKeyed
  <2>2. CASE ~(Postgres /\ Kind(q) = "attest" /\ rec[q] # None)
    BY <1>2, <1>3, <2>2 DEF RecKeyed, Kind, Postgres
  <2>3. QED BY <2>1, <2>2
<1>4. CASE q = r /\ LookupContent(r)
  <2>1. op[r].on \in Contents /\ pc[r] = "lookup"
    BY <1>1, <1>4, OperationKinds DEF LookupContent, At, Ctl, Kind
  <2>2. rec'[r] = (IF byContent[op[r].on] = None THEN None ELSE RecordOf(byContent[op[r].on]))
        /\ byContent' = byContent /\ op' = op
    BY <1>1, <1>4 DEF LookupContent, RequestTyped
  <2>3. QED BY <1>2, <1>4, <2>1, <2>2 DEF RecKeyed, RecordOf
<1>5. CASE q = r /\ LookupRecord(r)
  BY <1>2, <1>5 DEF LookupRecord, At, Kind, RecKeyed
<1>6. CASE pc[q] = "new" /\ rec'[q] = rec[q]
  BY <1>6 DEF RecKeyed
<1>7. QED
  <2>1. CASE q # r BY <1>1, <1>3, <1>6, <2>1, OthersKept DEF Same
  <2>2. CASE q = r /\ ~LookupContent(r) /\ ~LookupRecord(r)
    <3>1. rec' = rec
      BY <2>2 DEF Handle, Submit, LookupLatest, UseLog, LoadLeaves, InstallLog, CountLeaves, PersistLeaf,
         PersistConflict, Anchor, AnchorFails, PutAttestation, AppendStatus, SetAttestationStatus, StoreFails
    <3>2. QED BY <1>3, <1>6, <3>1
  <2>3. QED BY <1>4, <1>5, <2>1, <2>2

\* Status entries are only added.
LEMMA HistoryGrows ==
  ASSUME TInv, NEW r \in Requests, Handle(r), NEW i \in Ids
  PROVE  \/ history'[i] = history[i]
         \/ /\ pc[r] = "history" /\ Appends(r)
            /\ history'[i] = Append(history[i], [by |-> r, index |-> leafIndex[r]])
<1>1. RequestTyped /\ StoreTyped /\ Ctl(r) BY TInvParts DEF CtlInv
<1>2. CASE AppendStatus(r)
  BY <1>1, <1>2 DEF AppendStatus, At, StoreTyped, Ctl
<1>3. CASE ~AppendStatus(r)
  BY <1>3 DEF Handle, Submit, LookupContent, LookupRecord, LookupLatest, UseLog, LoadLeaves, InstallLog,
     CountLeaves, PersistLeaf, PersistConflict, Anchor, AnchorFails, PutAttestation, SetAttestationStatus,
     StoreFails
<1>4. QED BY <1>2, <1>3

\* No step of any request makes an earlier answer wrong.
LEMMA ToldStep ==
  ASSUME TInv, AckInv, NEW r \in Requests, Handle(r), UNCHANGED backend, NEW q \in Requests
  PROVE  Told(q)'
<1>1. RequestTyped /\ StoreTyped /\ Ctl(q) /\ q \in Ids BY TInvParts DEF CtlInv, Ids, Leaves
<1>2. Own(q) /\ RecKeyed(q) /\ Told(q) /\ KeyFixed BY DEF AckInv
<1>3. ASSUME NEW n \in DOMAIN history[q] PROVE n \in DOMAIN history'[q] /\ history'[q][n] = history[q][n]
  <2>1. history[q] \in Seq(Entry) /\ leafIndex[r] \in Nat /\ r \in Leaves
    BY <1>1 DEF StoreTyped, RequestTyped, Leaves
  <2>2. [by |-> r, index |-> leafIndex[r]] \in Entry BY <2>1 DEF Entry
  <2>3. QED BY <1>1, <1>3, <2>1, <2>2, HistoryGrows
<1>4. CASE q # r
  <2>1. Same(q) BY <1>1, <1>4, OthersKept
  <2>2. reply[q] # None /\ reply[q].code = "created" => atts'[q] # None BY <1>1, <1>2, <1>4, RowKept DEF Told
  <2>3. Postgres /\ Ok(q) /\ Kind(q) = "attest" => byContent'[op[q].on] = byContent[op[q].on]
    <3>1. SUFFICES ASSUME Postgres, Ok(q), Kind(q) = "attest" PROVE byContent'[op[q].on] = byContent[op[q].on]
      OBVIOUS
    <3>2. pc[q] = "done" /\ byContent[op[q].on] # None BY <1>2, <3>1 DEF Told, Ok
    <3>3. op[q].on \in Contents BY <1>1, <3>1, <3>2, OperationKinds DEF Ctl, Kind
    <3>4. QED BY <1>2, <3>1, <3>2, <3>3, KeyStep
  <2>4. QED BY <1>2, <1>3, <2>1, <2>2, <2>3 DEF Told, Ok, Same, Kind, Postgres
<1>5. CASE q = r /\ reply' = reply
  <2>1. reply[r] = None BY <1>1, <1>2, <1>5, Answered DEF Told
  <2>2. QED BY <1>5, <2>1 DEF Told, Ok
<1>6. CASE q = r /\ pc'[r] = "done" /\ \E code \in Refusals : reply'[r] = Problem(code)
  BY <1>6 DEF Told, Ok, Refusals, Problem
<1>7. CASE q = r /\ Anchor(r) /\ ~Appends(r) /\ pc'[r] = "done" /\ reply'[r] = ReadAnswer(r)
  <2>1. reply'[r].code = "ok" BY <1>7 DEF ReadAnswer
  <2>2. op' = op /\ pc[r] \in {"anchor", "anchor2"} /\ byContent' = byContent BY <1>7 DEF Anchor
  <2>3. ASSUME Postgres, Kind(r) = "attest"
        PROVE  byContent[op[r].on] = reply'[r].id /\ byContent[op[r].on] # None
    <3>1. rec[r] # None BY <1>7, <2>3 DEF Appends
    <3>2. byContent[op[r].on] = rec[r].id BY <1>2, <1>7, <2>2, <2>3, <3>1 DEF RecKeyed
    <3>3. reply'[r].id = rec[r].id BY <1>7, <2>3 DEF ReadAnswer
    <3>4. rec[r].id # None BY <1>1, <3>1, LedgerAssumption DEF RequestTyped, Snapshot, Ids
    <3>5. QED BY <3>2, <3>3, <3>4
  <2>4. QED BY <1>7, <2>1, <2>2, <2>3 DEF Told, Ok, Kind, Postgres
<1>8. CASE /\ q = r /\ AppendStatus(r) /\ Kind(r) = "attest" /\ HistoryKey(r)
           /\ pc'[r] = "done" /\ reply'[r] = WriteAnswer(r)
           /\ history' = [history EXCEPT ![r] = Append(@, [by |-> r, index |-> leafIndex[r]])]
  <2>1. pc[r] = "history" /\ UNCHANGED <<op, leafIndex, atts, byContent>> BY <1>8 DEF AppendStatus, At
  <2>2. atts[r] # None BY <1>2, <1>8, <2>1 DEF HistoryKey, Own
  <2>3. \E n \in DOMAIN history'[r] : history'[r][n] = [by |-> r, index |-> leafIndex[r]]
    <3>1. history[r] \in Seq(Entry) BY <1>1, <1>8 DEF StoreTyped
    <3>2. history'[r] = Append(history[r], [by |-> r, index |-> leafIndex[r]])
      BY <1>1, <1>8 DEF StoreTyped
    <3>3. Len(history[r]) + 1 \in DOMAIN history'[r] BY <3>1, <3>2
    <3>4. history'[r][Len(history[r]) + 1] = [by |-> r, index |-> leafIndex[r]] BY <3>1, <3>2
    <3>5. QED BY <3>3, <3>4
  <2>4. CASE reply'[r] = Problem("error")
    BY <1>8, <2>4 DEF Told, Ok, Problem
  <2>5. CASE /\ reply'[r] = [code |-> IF Kind(r) = "attest" THEN "created" ELSE "ok", id |-> Target(r),
                             status |-> StatusOf(r), by |-> r, index |-> leafIndex[r],
                             proof |-> tree[logs], sths |-> sths[r]]
    <3>1. reply'[r].id = r /\ reply'[r].index = leafIndex[r] BY <1>8, <2>5 DEF Target
    <3>2. Postgres => byContent[op[r].on] = r
      BY <1>1, <1>2, <1>8, <2>2 DEF KeyFixed, Own
    <3>3. r # None BY <1>1, <1>8, LedgerAssumption DEF Ids
    <3>4. QED BY <1>8, <2>1, <2>2, <2>3, <3>1, <3>2, <3>3 DEF Told, Postgres
  <2>6. QED BY <1>8, <2>4, <2>5 DEF WriteAnswer
<1>9. CASE q = r /\ SetAttestationStatus(r) /\ pc'[r] = "done" /\ reply'[r] = WriteAnswer(r)
  <2>1. Kind(r) # "attest" /\ op' = op BY <1>1, <1>9 DEF SetAttestationStatus, At, Ctl
  <2>2. reply'[r].code # "created" BY <1>9, <2>1 DEF WriteAnswer, Problem
  <2>3. QED BY <1>9, <2>1, <2>2 DEF Told, Kind
<1>10. QED BY <1>1, <1>4, <1>5, <1>6, <1>7, <1>8, <1>9, Answered

\* A crash answers nobody, and the store survives it.
LEMMA AckStep == TInv /\ AckInv /\ [Next]_vars => AckInv'
<1>. SUFFICES ASSUME TInv, AckInv, [Next]_vars PROVE AckInv' OBVIOUS
<1>1. ASSUME NEW r \in Requests, Handle(r), UNCHANGED backend PROVE AckInv'
  BY <1>1, KeyStep, OwnStep, RecKeyedStep, ToldStep DEF AckInv
<1>2. CASE (Crash /\ UNCHANGED backend) \/ UNCHANGED vars
  <2>1. UNCHANGED <<backend, op, rec, leafIndex, atts, byContent, history, reply>>
    BY <1>2 DEF Crash, vars
  <2>2. ASSUME NEW r \in Requests
        PROVE  /\ (pc[r] = "new" <=> pc'[r] = "new") /\ (pc[r] = "done" => pc'[r] = "done")
               /\ pc'[r] = pc[r] \/ pc'[r] = "done"
    BY <1>2 DEF Crash, vars, Idle
  <2>3. KeyFixed' BY <2>1 DEF AckInv, KeyFixed, Postgres
  <2>4. ASSUME NEW r \in Requests PROVE Own(r)' /\ RecKeyed(r)' /\ Told(r)'
    BY <2>1, <2>2 DEF AckInv, Own, RecKeyed, Told, Ok, Postgres, Kind
  <2>5. QED BY <2>3, <2>4 DEF AckInv
<1>3. QED BY <1>1, <1>2 DEF Next

\* A 201 is durable: its row is there with the leaf_index it told, and so is
\* its status entry, whichever store and whatever fails or restarts.
THEOREM AckIsDurable == Spec => []AckDurable
<1>1. AckInv => AckDurable
  <2>1. SUFFICES ASSUME AckInv, NEW r \in Requests, reply[r] # None, reply[r].code = "created"
                 PROVE  /\ atts[r] # None /\ atts[r].index = reply[r].index
                        /\ \E n \in DOMAIN history[r] : history[r][n] = [by |-> r, index |-> reply[r].index]
    BY DEF AckDurable
  <2>2. Told(r) /\ Own(r) BY <2>1 DEF AckInv
  <2>3. reply[r].index = leafIndex[r] /\ atts[r] # None
        /\ \E n \in DOMAIN history[r] : history[r][n] = [by |-> r, index |-> leafIndex[r]]
    BY <2>1, <2>2 DEF Told
  <2>4. QED BY <2>2, <2>3 DEF Own
<1>2. QED BY <1>1, TypeInit, TypeStep, AckInit, AckStep, PTL DEF Spec

\* On Postgres the successful attestations of a content hash name one
\* registryId, however their handlers interleave.
THEOREM OneIdPerContent == Spec => []SameContentSameId
<1>1. AckInv => SameContentSameId
  <2>1. SUFFICES ASSUME AckInv, Postgres
                 PROVE  \A r \in Requests : Ok(r) /\ Kind(r) = "attest" => reply[r].id = byContent[op[r].on]
    BY <2>1 DEF SameContentSameId, Ok
  <2>2. QED BY <2>1 DEF AckInv, Told
<1>2. QED BY <1>1, TypeInit, TypeStep, AckInit, AckStep, PTL DEF Spec

-----------------------------------------------------------------------------
(* A revocation is terminal but for the requests that read the record before. *)

\* A request that changes a status has read one that is not revoked.
ReadLive(r) == Kind(r) \in Changes /\ pc[r] # "new" /\ rec[r] # None => rec[r].status # "revoked"
LiveInv == \A r \in Requests : ReadLive(r)

\* Only setStatus's lookup reads a record for such a request, and it refuses a
\* revoked one.
LEMMA ReadLiveStep ==
  ASSUME TInv, AckInv, NEW r \in Requests, Handle(r), ReadLive(r)
  PROVE  ReadLive(r)'
<1>1. RequestTyped /\ StoreTyped /\ Ctl(r) BY TInvParts DEF CtlInv
<1>2. CASE Submit(r)
  <2>1. rec[r] = None /\ rec' = rec BY <1>2 DEF Submit, AckInv, RecKeyed
  <2>2. QED BY <2>1 DEF ReadLive
<1>3. CASE LookupContent(r)
  <2>1. Kind(r) = "attest" /\ op' = op BY <1>3 DEF LookupContent
  <2>2. QED BY <2>1 DEF ReadLive, Kind, Changes
<1>4. CASE LookupRecord(r)
  <2>1. op' = op /\ pc[r] = "lookup" BY <1>4 DEF LookupRecord, At
  <2>2. CASE UNCHANGED rec BY <1>4, <2>1, <2>2 DEF ReadLive, Kind
  <2>3. CASE /\ ~(Kind(r) \in Changes /\ atts[op[r].on].status = "revoked")
             /\ rec' = [rec EXCEPT ![r] = RecordOf(op[r].on)]
    <3>1. rec'[r].status = atts[op[r].on].status BY <1>1, <2>3 DEF RequestTyped, RecordOf
    <3>2. QED BY <2>1, <2>3, <3>1 DEF ReadLive, Kind
  <2>4. QED BY <1>4, <2>2, <2>3 DEF LookupRecord
<1>5. CASE ~Submit(r) /\ ~LookupContent(r) /\ ~LookupRecord(r)
  <2>1. UNCHANGED <<op, rec>> /\ pc[r] # "new"
    BY <1>5 DEF Handle, LookupLatest, UseLog, LoadLeaves, InstallLog, CountLeaves, PersistLeaf,
                PersistConflict, Anchor, AnchorFails, PutAttestation, AppendStatus,
                SetAttestationStatus, StoreFails, At
  <2>2. QED BY <2>1 DEF ReadLive, Kind
<1>6. QED BY <1>2, <1>3, <1>4, <1>5

\* A step of another request, a crash and a stutter keep what was read.
LEMMA LiveStep == TInv /\ AckInv /\ LiveInv /\ [Next]_vars => LiveInv'
<1>. SUFFICES ASSUME TInv, AckInv, LiveInv, [Next]_vars, NEW q \in Requests PROVE ReadLive(q)'
  BY DEF LiveInv
<1>1. ReadLive(q) BY DEF LiveInv
<1>2. ASSUME NEW r \in Requests, Handle(r) PROVE ReadLive(q)'
  <2>1. CASE q = r BY <1>1, <1>2, <2>1, ReadLiveStep
  <2>2. CASE q # r
    <3>1. Same(q) BY <1>2, <2>2, OthersKept, TInvParts
    <3>2. QED BY <1>1, <3>1 DEF Same, ReadLive, Kind
  <2>3. QED BY <2>1, <2>2
<1>3. CASE Crash \/ UNCHANGED vars
  <2>1. UNCHANGED <<op, rec>> /\ (pc'[q] = "new" <=> pc[q] = "new")
    BY <1>3 DEF Crash, vars, Idle
  <2>2. QED BY <1>1, <2>1 DEF ReadLive, Kind
<1>4. QED BY <1>2, <1>3 DEF Next

\* A revoked row changes only by the write of a request that read the record
\* when it was not revoked: no request that looks after the revocation, failing
\* statement or restart brings an attestation back.
THEOREM RevocationIsTerminal == Spec => RevokedUnlessReadBefore
<1>1. TInv /\ AckInv /\ LiveInv /\ [Next]_vars =>
        [\A i \in Ids :
           atts[i] # None /\ atts[i].status = "revoked" /\ atts'[i] # atts[i] =>
             \E r \in Requests :
               /\ pc[r] = "update" /\ pc'[r] = "done" /\ Target(r) = i
               /\ rec[r].status # "revoked"]_vars
  <2>. SUFFICES ASSUME TInv, AckInv, LiveInv, Next, NEW i \in Ids,
                       atts[i] # None, atts[i].status = "revoked", atts'[i] # atts[i]
                PROVE  \E r \in Requests :
                         /\ pc[r] = "update" /\ pc'[r] = "done" /\ Target(r) = i
                         /\ rec[r].status # "revoked"
    OBVIOUS
  <2>1. RequestTyped /\ StoreTyped BY TInvParts
  <2>2. ~Crash BY DEF Crash
  <2>3. PICK r \in Requests : Handle(r) BY <2>2 DEF Next
  <2>4. Own(r) /\ ReadLive(r) /\ Ctl(r) BY TInvParts DEF AckInv, LiveInv, CtlInv
  <2>5. ~(pc[r] = "put" /\ i = r) BY <2>4 DEF Own
  <2>6. pc[r] = "update" /\ Kind(r) \in Changes /\ op[r].on = i
    BY <2>1, <2>3, <2>5, RowChange DEF StoreTyped
  <2>7. SetAttestationStatus(r) \/ StoreFails(r)
    BY <2>3, <2>6 DEF Handle, Submit, LookupContent, LookupRecord, LookupLatest, UseLog, LoadLeaves,
         InstallLog, CountLeaves, PersistLeaf, PersistConflict, Anchor, AnchorFails, PutAttestation,
         AppendStatus, At
  <2>8. pc'[r] = "done"
    BY <2>1, <2>7 DEF SetAttestationStatus, StoreFails, Answer, Goto, RequestTyped
  <2>9. rec[r] # None /\ rec[r].status # "revoked"
    BY <2>4, <2>6 DEF Ctl, Working, ReadLive, Changes
  <2>10. Target(r) = i BY <2>6 DEF Target, Changes
  <2>11. QED BY <2>6, <2>8, <2>9, <2>10
<1>2. Init => LiveInv BY DEF Init, LiveInv, ReadLive
<1>3. QED
  BY <1>1, <1>2, TypeInit, TypeStep, AckInit, AckStep, LiveStep, PTL
  DEF Spec, RevokedUnlessReadBefore

-----------------------------------------------------------------------------
(* A process that has loaded its log and is not restarted: one instance,     *)
(* which only grows.                                                         *)

\* The log is loaded and the process is not restarted.
Steady == Loaded /\ "crash" \notin Faults

\* A head holds what its log holds, up to its size.
LEMMA PrefixHolds ==
  ASSUME NEW S, NEW t \in Seq(S), NEW s \in Prefixes(t), NEW n \in Nat, NEW x
  PROVE  /\ HoldsLeaf(s, n, x) => HoldsLeaf(t, n, x)
         /\ HoldsLeaf(t, n, x) /\ n < Len(s) => HoldsLeaf(s, n, x)
<1>1. PICK m \in 0 .. Len(t) : s = SubSeq(t, 1, m) BY DEF Prefixes
<1>2. Len(s) = m /\ \A k \in 1 .. m : s[k] = t[k] BY <1>1, PrefixIsSeq
<1>3. QED BY <1>2 DEF HoldsLeaf

\* A log is a head of itself.
LEMMA WholeIsPrefix ==
  ASSUME NEW S, NEW t \in Seq(S)
  PROVE  t \in Prefixes(t)
<1>1. SubSeq(t, 1, Len(t)) = t BY PrefixIsSeq, SeqEqual
<1>2. SubSeq(t, 1, Len(t)) \in Prefixes(t) BY Len(t) \in Nat DEF Prefixes
<1>3. QED BY <1>1, <1>2

\* Rows, status entries and published heads are all of the one instance.
RowsHeld == \A i \in Ids : atts[i] # None => HoldsLeaf(tree[Boot], atts[i].index, i)
EntriesHeld ==
  \A i \in Ids : \A n \in DOMAIN history[i] :
    HoldsLeaf(tree[Boot], history[i][n].index, history[i][n].by)
HeadsHeld == Heads \subseteq Prefixes(tree[Boot])

\* What a request has read of the store is in the instance,
ReadHeld(r) ==
  /\ rec[r] # None =>
       /\ HoldsLeaf(tree[Boot], rec[r].index, rec[r].id)
       /\ Kind(r) # "attest" => rec[r].id = op[r].on
  /\ latest[r] # None => HoldsLeaf(tree[Boot], latest[r].index, latest[r].by)

\* the heads it takes are heads of it, that hold the leaf it asks about,
HeadsTaken(r) ==
  /\ pc[r] \in {"anchor", "anchor2"} => sths[r] \in Seq(Prefixes(tree[Boot]))
  /\ pc[r] = "anchor" /\ ~Appends(r) /\ Kind(r) # "consistency" => IndexRead(r) < Len(sths[r][1])

\* and the proof it was told proved its leaf, in a tree that extends a published
\* head that held it.
ProofTold(r) ==
  Ok(r) /\ Kind(r) # "consistency" =>
    /\ HoldsLeaf(reply[r].proof, reply[r].index, reply[r].by)
    /\ reply[r].sths[1] \in Heads
    /\ HoldsLeaf(reply[r].sths[1], reply[r].index, reply[r].by)
    /\ IsPrefixOf(reply[r].sths[1], reply[r].proof)

Backs(r) ==
  /\ tl[r] \in {None, Boot} /\ pc[r] # "install"
  /\ ReadHeld(r) /\ HeadsTaken(r) /\ ProofTold(r)

\* The inductive invariant of the steady process.
SteadyInv ==
  /\ logs = Boot /\ EntriesHeld /\ HeadsHeld
  /\ \A r \in Requests : Backs(r)

\* What holds in every configuration.
AllInv == TInv /\ BackedInv /\ AckInv

\* At the start the instance holds the leaf of Boot.
LEMMA SteadyInit == Steady /\ Init => SteadyInv
<1>. SUFFICES ASSUME Steady, Init PROVE SteadyInv OBVIOUS
<1>. USE LedgerAssumption DEF Init, Steady
<1>1. logs = Boot /\ tree[Boot] = <<Boot>> BY DEF Leaves
<1>2. EntriesHeld
  <2>1. HoldsLeaf(<<Boot>>, 0, Boot) BY DEF HoldsLeaf
  <2>2. ASSUME NEW i \in Ids, NEW n \in DOMAIN history[i]
        PROVE  history[i][n] = [by |-> Boot, index |-> 0]
    BY <2>2
  <2>3. QED BY <1>1, <2>1, <2>2 DEF EntriesHeld
<1>3. HeadsHeld
  <2>1. <<Boot>> \in Seq({Boot}) OBVIOUS
  <2>2. QED BY <1>1, <2>1, WholeIsPrefix DEF HeadsHeld, Heads
<1>4. ASSUME NEW r \in Requests PROVE Backs(r) BY <1>4 DEF Backs, ReadHeld, HeadsTaken, ProofTold, Ok
<1>5. QED BY <1>1, <1>2, <1>3, <1>4 DEF SteadyInv

\* The rows are in the instance because the published heads are heads of it.
LEMMA RowsInInstance ==
  ASSUME AllInv, SteadyInv
  PROVE  RowsHeld
<1>1. StoreTyped /\ ProcessTyped BY TInvParts DEF AllInv
<1>2. Boot \in Leaves /\ tree[Boot] \in Seq(Leaves) BY <1>1 DEF ProcessTyped, Leaves
<1>3. ASSUME NEW i \in Ids, atts[i] # None PROVE HoldsLeaf(tree[Boot], atts[i].index, i)
  <2>1. atts[i].index \in Nat BY <1>1, <1>3 DEF StoreTyped, Row
  <2>2. PICK s \in Heads : HoldsLeaf(s, atts[i].index, i)
    BY <1>3 DEF AllInv, BackedInv, RowsPublished
  <2>3. QED BY <1>2, <2>1, <2>2, PrefixHolds DEF SteadyInv, HeadsHeld
<1>4. QED BY <1>3 DEF RowsHeld

\* The leaf of a request that goes on to write its rows is in the instance.
LEMMA OwnLeafHeld ==
  ASSUME AllInv, SteadyInv, NEW r \in Requests, pc[r] \in {"put", "history", "update"}
  PROVE  HoldsLeaf(tree[Boot], leafIndex[r], r)
<1>1. RequestTyped /\ ProcessTyped BY TInvParts DEF AllInv
<1>2. tree[Boot] \in Seq(Leaves) /\ leafIndex[r] \in Nat BY <1>1 DEF ProcessTyped, Leaves, RequestTyped
<1>3. sths[r][1] \in Heads /\ HoldsLeaf(sths[r][1], leafIndex[r], r)
  BY DEF AllInv, BackedInv, Held, Writes
<1>4. QED BY <1>2, <1>3, PrefixHolds DEF SteadyInv, HeadsHeld

\* The instance only grows: the abstract log's steps.
LEMMA SteadyGrows ==
  ASSUME AllInv, SteadyInv, NEW r \in Requests, Handle(r)
  PROVE  /\ logs' = Boot
         /\ tree'[Boot] = tree[Boot] \/ (tree'[Boot] = Append(tree[Boot], r) /\ Heads' = Heads)
         /\ pc'[r] # "install" /\ tl'[r] \in {None, Boot}
<1>1. RequestTyped /\ ProcessTyped /\ Boot \in Leaves BY TInvParts DEF AllInv, Leaves
<1>2. logs = Boot /\ pc[r] # "install" /\ tl[r] \in {None, Boot} /\ Boot # None
  BY LedgerAssumption DEF SteadyInv, Backs, Leaves
<1>3. CASE UseLog(r) \/ InstallLog(r)
  <2>1. PICK t : Takes(r, t) BY <1>3, InstanceStep DEF AllInv
  <2>2. logs' = Boot /\ t = tree[Boot] /\ Heads' = Heads BY <1>2, <2>1 DEF Takes, Heads
  <2>3. TInv BY DEF AllInv
  <2>4. QED BY <1>1, <2>1, <2>2, <2>3, TakesTyped DEF ProcessTyped, RequestTyped
<1>4. CASE ~UseLog(r) /\ ~InstallLog(r)
  <2>1. UNCHANGED <<tree, logs, tl>> BY <1>4, InstancesKept
  <2>2. ~LoadLeaves(r) BY <1>2 DEF LoadLeaves
  <2>3. pc'[r] # "install"
    <3>1. CASE ReadStep(r)
      BY <1>1, <2>2, <3>1 DEF ReadStep, Submit, LookupContent, LookupRecord, LookupLatest, CountLeaves,
                              Goto, Answer, RequestTyped
    <3>2. CASE Anchor(r) BY <1>1, <3>2, AnchorWays DEF Goto, Answer, RequestTyped
    <3>3. CASE WriteStep(r) /\ ~Anchor(r)
      BY <1>1, <3>3 DEF WriteStep, PersistLeaf, PersistConflict, AnchorFails, PutAttestation,
                        AppendStatus, SetAttestationStatus, StoreFails, Goto, Answer, RequestTyped
    <3>4. QED BY <1>4, <3>1, <3>2, <3>3 DEF Handle, ReadStep, WriteStep
  <2>4. QED BY <1>2, <2>1, <2>3
<1>5. QED BY <1>3, <1>4

\* What the instance holds it goes on holding, and its heads stay heads.
LEMMA SteadyKeeps ==
  ASSUME AllInv, SteadyInv, NEW r \in Requests, Handle(r)
  PROVE  /\ \A n \in Nat : \A x : HoldsLeaf(tree[Boot], n, x) => HoldsLeaf(tree'[Boot], n, x)
         /\ Prefixes(tree[Boot]) \subseteq Prefixes(tree'[Boot])
<1>1. tree[Boot] \in Seq(Leaves) /\ r \in Leaves BY TInvParts DEF AllInv, ProcessTyped, Leaves
<1>2. tree'[Boot] = tree[Boot] \/ tree'[Boot] = Append(tree[Boot], r) BY SteadyGrows
<1>3. \A n \in Nat : \A x : HoldsLeaf(tree[Boot], n, x) => HoldsLeaf(Append(tree[Boot], r), n, x)
  BY <1>1, HeldByAppend
<1>4. \A s \in Prefixes(tree[Boot]) : s \in Prefixes(Append(tree[Boot], r))
  BY <1>1, PrefixOfAppend
<1>5. CASE tree'[Boot] = tree[Boot] BY <1>5
<1>6. CASE tree'[Boot] = Append(tree[Boot], r) BY <1>3, <1>4, <1>6
<1>7. QED BY <1>2, <1>5, <1>6

\* The head a request publishes next is one of those it took.
LEMMA NextHeadHeld ==
  ASSUME AllInv, SteadyInv, NEW r \in Requests, pc[r] \in {"anchor", "anchor2"}
  PROVE  NextHead(r) \in Prefixes(tree[Boot])
<1>1. sths[r] \in Seq(Prefixes(tree[Boot])) BY DEF SteadyInv, Backs, HeadsTaken
<1>2. Ctl(r) BY TInvParts DEF AllInv, CtlInv
<1>3. CASE pc[r] = "anchor2"
  <2>1. Len(sths[r]) = 2 BY <1>2, <1>3 DEF Ctl
  <2>2. QED BY <1>1, <1>3, <2>1 DEF NextHead
<1>4. CASE pc[r] = "anchor"
  <2>1. Len(sths[r]) >= 1 BY <1>2, <1>4 DEF Ctl
  <2>2. QED BY <1>1, <1>4, <2>1 DEF NextHead
<1>5. QED BY <1>3, <1>4

\* A head is published only if it is one of the instance.
LEMMA HeadsHeldStep ==
  ASSUME AllInv, SteadyInv, NEW r \in Requests, Handle(r)
  PROVE  HeadsHeld'
<1>1. HeadsHeld /\ Prefixes(tree[Boot]) \subseteq Prefixes(tree'[Boot]) BY SteadyKeeps DEF SteadyInv
<1>2. QED BY <1>1, HeadChange, NextHeadHeld DEF HeadsHeld

\* A status entry is written for a leaf the instance holds.
LEMMA EntriesHeldStep ==
  ASSUME AllInv, SteadyInv, NEW r \in Requests, Handle(r)
  PROVE  EntriesHeld'
<1>1. RequestTyped /\ StoreTyped /\ TInv BY TInvParts DEF AllInv
<1>2. \A n \in Nat : \A x : HoldsLeaf(tree[Boot], n, x) => HoldsLeaf(tree'[Boot], n, x) BY SteadyKeeps
<1>3. ASSUME NEW i \in Ids, NEW n \in DOMAIN history'[i]
      PROVE  HoldsLeaf(tree'[Boot], history'[i][n].index, history'[i][n].by)
  <2>1. history[i] \in Seq(Entry) /\ \A k \in DOMAIN history[i] : history[i][k] \in Entry
    BY <1>1 DEF StoreTyped
  <2>2. ASSUME n \in DOMAIN history[i], history'[i][n] = history[i][n]
        PROVE  HoldsLeaf(tree'[Boot], history'[i][n].index, history'[i][n].by)
    <3>1. history[i][n].index \in Nat BY <2>1, <2>2 DEF Entry
    <3>2. HoldsLeaf(tree[Boot], history[i][n].index, history[i][n].by)
      BY <2>2 DEF SteadyInv, EntriesHeld
    <3>3. QED BY <1>2, <2>2, <3>1, <3>2
  <2>3. CASE history'[i] = history[i] BY <1>3, <2>2, <2>3
  <2>4. CASE /\ pc[r] = "history"
             /\ history'[i] = Append(history[i], [by |-> r, index |-> leafIndex[r]])
    <3>1. leafIndex[r] \in Nat /\ [by |-> r, index |-> leafIndex[r]] \in Entry
      BY <1>1 DEF RequestTyped, Entry, Leaves
    <3>2. HoldsLeaf(tree'[Boot], leafIndex[r], r) BY <1>2, <2>4, <3>1, OwnLeafHeld
    <3>3. CASE n \in DOMAIN history[i] BY <2>1, <2>2, <2>4, <3>1, <3>3
    <3>4. CASE n \notin DOMAIN history[i]
      <4>1. history'[i][n] = [by |-> r, index |-> leafIndex[r]] BY <1>3, <2>1, <2>4, <3>1, <3>4
      <4>2. QED BY <3>2, <4>1
    <3>5. QED BY <3>3, <3>4
  <2>5. QED BY <1>1, <2>3, <2>4, HistoryGrows
<1>4. QED BY <1>3 DEF EntriesHeld

\* A request reads rows and entries whose leaves the instance holds.
LEMMA ReadHeldStep ==
  ASSUME AllInv, SteadyInv, NEW r \in Requests, Handle(r), NEW q \in Requests
  PROVE  ReadHeld(q)'
<1>1. RequestTyped /\ StoreTyped /\ CtlInv /\ Ctl(q) BY TInvParts DEF AllInv, CtlInv
<1>2. ReadHeld(q) /\ RowsHeld /\ EntriesHeld BY RowsInInstance DEF SteadyInv, Backs
<1>3. \A n \in Nat : \A x : HoldsLeaf(tree[Boot], n, x) => HoldsLeaf(tree'[Boot], n, x) BY SteadyKeeps
<1>4. (rec[q] # None => rec[q].index \in Nat) /\ (latest[q] # None => latest[q].index \in Nat)
  BY <1>1 DEF RequestTyped, Snapshot, Entry
<1>5. pc[q] = "new" => rec[q] = None BY DEF AllInv, AckInv, RecKeyed
<1>6. pc[q] # "new" => op'[q] = op[q] BY <1>1, RecordKept
<1>7. CASE rec'[q] = rec[q] /\ latest'[q] = latest[q]
  BY <1>2, <1>3, <1>4, <1>5, <1>6, <1>7 DEF ReadHeld, Kind
<1>8. ASSUME NEW i \in Ids, atts[i] # None
      PROVE  HoldsLeaf(tree'[Boot], RecordOf(i).index, RecordOf(i).id) /\ RecordOf(i).id = i
  <2>1. atts[i].index \in Nat BY <1>1, <1>8 DEF StoreTyped, Row
  <2>2. QED BY <1>2, <1>3, <1>8, <2>1 DEF RowsHeld, RecordOf
<1>9. CASE q = r /\ LookupContent(r)
  <2>1. op[r].on \in Contents /\ Kind(r) = "attest" /\ op' = op /\ latest' = latest
    BY <1>1, <1>9, OperationKinds DEF LookupContent, At, Ctl, Kind
  <2>2. rec'[r] = IF byContent[op[r].on] = None THEN None ELSE RecordOf(byContent[op[r].on])
    BY <1>1, <1>9 DEF LookupContent, RequestTyped
  <2>3. byContent[op[r].on] # None => byContent[op[r].on] \in Ids /\ atts[byContent[op[r].on]] # None
    BY <1>1, <2>1 DEF CtlInv, KeysThere, StoreTyped
  <2>4. rec'[r] # None => HoldsLeaf(tree'[Boot], rec'[r].index, rec'[r].id) BY <1>8, <2>2, <2>3
  <2>5. QED BY <1>2, <1>3, <1>4, <1>9, <2>1, <2>4 DEF ReadHeld, Kind
<1>10. CASE q = r /\ LookupRecord(r) /\ rec'[q] # rec[q]
  <2>1. op[r].on \in Ids /\ op' = op /\ latest' = latest
    BY <1>1, <1>10, OperationKinds DEF LookupRecord, At, Ctl, Kind
  <2>2. rec'[r] = RecordOf(op[r].on) /\ atts[op[r].on] # None
    BY <1>1, <1>10 DEF LookupRecord, RequestTyped
  <2>3. QED BY <1>2, <1>3, <1>4, <1>8, <1>10, <2>1, <2>2 DEF ReadHeld, Kind
<1>11. CASE q = r /\ LookupLatest(r)
  <2>1. /\ pc[r] = "latest" /\ op[r] \in Operations /\ op[r].on \in Ids /\ op' = op /\ rec' = rec
        /\ Kind(r) = "status" /\ rec[r] # None
    BY <1>1, <1>11, OperationKinds DEF LookupLatest, At, Ctl, Kind, Working
  <2>. DEFINE h == history[op[r].on]
              e == IF h = <<>> THEN [by |-> op[r].on, index |-> rec[r].index] ELSE h[Len(h)]
  <2>2. latest'[r] = e BY <1>1, <1>11 DEF LookupLatest, RequestTyped
  <2>3. HoldsLeaf(tree'[Boot], e.index, e.by)
    <3>1. CASE h = <<>>
      <4>1. e.by = rec[r].id /\ e.index = rec[r].index BY <1>2, <1>11, <2>1, <3>1 DEF ReadHeld
      <4>2. QED BY <1>2, <1>3, <1>4, <1>11, <2>1, <4>1 DEF ReadHeld
    <3>2. CASE h # <<>>
      <4>1. h \in Seq(Entry) BY <1>1, <2>1 DEF StoreTyped
      <4>2. Len(h) \in DOMAIN h /\ h[Len(h)] \in Entry
        <5>. HIDE DEF h
        <5>. QED BY <3>2, <4>1
      <4>3. h[Len(h)].index \in Nat BY <4>2 DEF Entry
      <4>4. HoldsLeaf(tree[Boot], h[Len(h)].index, h[Len(h)].by) BY <1>2, <2>1, <4>2 DEF EntriesHeld
      <4>5. QED BY <1>3, <3>2, <4>3, <4>4
    <3>3. QED BY <3>1, <3>2
  <2>. HIDE DEF e
  <2>4. QED BY <1>2, <1>3, <1>4, <1>11, <2>1, <2>2, <2>3 DEF ReadHeld, Kind
<1>12. QED
  <2>1. CASE q # r BY <1>1, <1>7, <2>1, OthersKept DEF Same
  <2>2. CASE LookupRecord(r) BY <1>7, <1>10, <2>1, <2>2 DEF LookupRecord
  <2>3. CASE ~LookupContent(r) /\ ~LookupRecord(r) /\ ~LookupLatest(r)
    BY <1>7, <2>3 DEF Handle, Submit, UseLog, LoadLeaves, InstallLog, CountLeaves, PersistLeaf,
       PersistConflict, Anchor, AnchorFails, PutAttestation, AppendStatus, SetAttestationStatus, StoreFails
  <2>4. QED BY <1>9, <1>11, <2>1, <2>2, <2>3

\* A reader takes a head that holds the leaf it asks about, or none.
LEMMA HeadsReadHold ==
  ASSUME NEW r \in Requests, NEW t, NEW h \in HeadsRead(r, t), Kind(r) # "consistency"
  PROVE  IndexRead(r) < Len(h[1])
<1>1. CASE Kind(r) = "proof"
  <2>1. h \in {<<s>> : s \in {p \in Prefixes(t) : IndexRead(r) < Len(p)}} BY <1>1 DEF HeadsRead
  <2>2. QED BY <2>1
<1>2. CASE Kind(r) # "proof"
  <2>1. h \in (IF IndexRead(r) < Len(t) THEN {<<t>>} ELSE {}) BY <1>2 DEF HeadsRead
  <2>2. h = <<t>> /\ IndexRead(r) < Len(t) BY <2>1
  <2>3. h[1] = t BY <2>2
  <2>4. QED BY <2>2, <2>3
<1>3. QED BY <1>1, <1>2

\* A request takes its heads from the instance, and they stay heads of it.
LEMMA HeadsTakenStep ==
  ASSUME AllInv, SteadyInv, NEW r \in Requests, Handle(r), NEW q \in Requests
  PROVE  HeadsTaken(q)'
<1>1. RequestTyped /\ ProcessTyped /\ Ctl(q) /\ TInv BY TInvParts DEF AllInv, CtlInv
<1>2. HeadsTaken(q) /\ logs = Boot /\ pc[q] # "install" /\ tl[q] \in {None, Boot} BY DEF SteadyInv, Backs
<1>3. Prefixes(tree[Boot]) \subseteq Prefixes(tree'[Boot]) BY SteadyKeeps
<1>4. CASE q # r
  <2>1. Same(q) BY <1>1, <1>4, OthersKept
  <2>2. pc[q] \in {"anchor", "anchor2"} => sths[q] \in Seq(Prefixes(tree'[Boot]))
    BY <1>2, <1>3, SeqMonotonic DEF HeadsTaken
  <2>3. QED BY <1>2, <2>1, <2>2 DEF HeadsTaken, Same, Appends, Kind, IndexRead
<1>5. CASE q = r /\ UseLog(r)
  <2>1. PICK t \in Seq(Leaves) : Takes(r, t) BY <1>1, <1>5, InstanceStep
  <2>2. logs' = Boot /\ t = tree[Boot] /\ UNCHANGED <<op, rec, latest>> BY <1>2, <1>5, <2>1 DEF Takes
  <2>3. CASE pc'[r] = "anchor"
    <3>1. PICK h \in HeadsRead(r, t) : sths'[r] = h BY <1>1, <2>1, <2>3, TakesTyped
    <3>2. h \in Seq(Prefixes(tree'[Boot])) BY <1>3, <2>2, <3>1, HeadsReadTyped, SeqMonotonic
    <3>3. Kind(r) # "consistency" => IndexRead(r) < Len(h[1]) BY <3>1, HeadsReadHold
    <3>4. QED BY <1>5, <2>2, <2>3, <3>1, <3>2, <3>3 DEF HeadsTaken, Kind, IndexRead
  <2>4. CASE pc'[r] # "anchor"
    <3>1. pc'[r] \notin {"anchor", "anchor2"} BY <1>1, <2>1, <2>4, TakesTyped
    <3>2. QED BY <1>5, <3>1 DEF HeadsTaken
  <2>5. QED BY <2>3, <2>4
<1>6. CASE q = r /\ PersistLeaf(r)
  <2>1. /\ pc[r] \in {"persist", "insert"} /\ pc'[r] = "anchor" /\ sths'[r] = <<tree[tl[r]]>>
        /\ UNCHANGED <<op, rec, tree>>
    BY <1>1, <1>6 DEF PersistLeaf, At, Goto, RequestTyped
  <2>2. tl[r] = Boot /\ Appends(r) BY <1>1, <1>2, <1>6, <2>1 DEF Ctl
  <2>3. tree[Boot] \in Seq(Leaves) BY <1>1 DEF ProcessTyped, Leaves
  <2>4. tree[Boot] \in Prefixes(tree'[Boot]) BY <2>1, <2>3, WholeIsPrefix
  <2>5. sths'[r] \in Seq(Prefixes(tree'[Boot])) BY <2>1, <2>2, <2>4
  <2>6. Appends(r)' BY <2>1, <2>2 DEF Appends, Kind
  <2>7. QED BY <1>6, <2>1, <2>5, <2>6 DEF HeadsTaken
<1>7. CASE q = r /\ Anchor(r)
  <2>1. CASE pc'[r] = "anchor2"
    <3>1. pc[r] = "anchor" /\ UNCHANGED <<sths, tree>> BY <1>1, <1>7, <2>1, AnchorWays DEF Anchor, Goto, Answer, RequestTyped
    <3>2. QED BY <1>2, <1>7, <2>1, <3>1 DEF HeadsTaken
  <2>2. CASE pc'[r] # "anchor2"
    <3>1. pc'[r] \notin {"anchor", "anchor2"} BY <1>1, <1>7, <2>2, AnchorWays DEF Goto, Answer, RequestTyped
    <3>2. QED BY <1>7, <3>1 DEF HeadsTaken
  <2>3. QED BY <2>1, <2>2
<1>8. CASE q = r /\ ~UseLog(r) /\ ~PersistLeaf(r) /\ ~Anchor(r)
  <2>1. ~InstallLog(r) BY <1>2, <1>8 DEF InstallLog, At
  <2>2. pc'[r] \notin {"anchor", "anchor2"}
    <3>1. CASE ReadStep(r)
      BY <1>1, <3>1 DEF ReadStep, Submit, LookupContent, LookupRecord, LookupLatest, LoadLeaves,
                        CountLeaves, Goto, Answer, RequestTyped
    <3>2. CASE WriteStep(r)
      BY <1>1, <1>8, <3>2 DEF WriteStep, PersistConflict, AnchorFails, PutAttestation, AppendStatus,
                        SetAttestationStatus, StoreFails, Goto, Answer, RequestTyped
    <3>3. QED BY <1>8, <2>1, <3>1, <3>2 DEF Handle, ReadStep, WriteStep
  <2>3. QED BY <1>8, <2>2 DEF HeadsTaken
<1>9. QED BY <1>4, <1>5, <1>6, <1>7, <1>8

\* The leaf a reader answers about is in the head it took.
LEMMA ReadLeafHeld ==
  ASSUME AllInv, SteadyInv, NEW r \in Requests, pc[r] = "anchor", ~Appends(r), Kind(r) # "consistency"
  PROVE  HoldsLeaf(sths[r][1], IndexRead(r), IF Kind(r) = "status" THEN latest[r].by ELSE rec[r].id)
<1>1. RequestTyped /\ ProcessTyped /\ Ctl(r) BY TInvParts DEF AllInv, CtlInv
<1>2. ReadHeld(r) /\ HeadsTaken(r) BY DEF SteadyInv, Backs
<1>3. rec[r] # None BY <1>1 DEF Ctl, Working, Appends
<1>4. Kind(r) = "status" => latest[r] # None BY <1>1 DEF Ctl, Working
<1>5. IndexRead(r) \in Nat
  BY <1>1, <1>3, <1>4 DEF IndexRead, RequestTyped, Snapshot, Entry
<1>6. HoldsLeaf(tree[Boot], IndexRead(r), IF Kind(r) = "status" THEN latest[r].by ELSE rec[r].id)
  BY <1>2, <1>3, <1>4 DEF ReadHeld, IndexRead
<1>7. sths[r][1] \in Prefixes(tree[Boot]) /\ IndexRead(r) < Len(sths[r][1])
  <2>1. sths[r] \in Seq(Prefixes(tree[Boot])) /\ Len(sths[r]) >= 1 BY <1>1, <1>2 DEF Ctl, HeadsTaken
  <2>2. QED BY <1>2, <2>1 DEF HeadsTaken
<1>8. tree[Boot] \in Seq(Leaves) BY <1>1 DEF ProcessTyped, Leaves
<1>9. QED BY <1>5, <1>6, <1>7, <1>8, PrefixHolds

\* An answer's proof is of the leaf that the answer is about.
LEMMA ProofToldStep ==
  ASSUME AllInv, SteadyInv, NEW r \in Requests, Handle(r), NEW q \in Requests
  PROVE  ProofTold(q)'
<1>1. RequestTyped /\ Ctl(r) BY TInvParts DEF AllInv, CtlInv
<1>2. ProofTold(q) /\ Told(q) /\ logs = Boot BY DEF SteadyInv, Backs, AllInv, AckInv
<1>3. CASE q # r
  <2>1. Same(q) /\ Heads \subseteq Heads' BY <1>1, <1>3, OthersKept, RecordKept
  <2>2. QED BY <1>2, <2>1 DEF ProofTold, Ok, Same, Kind
<1>4. CASE q = r /\ reply' = reply
  <2>1. reply[r] = None BY <1>1, <1>2, <1>4, Answered DEF Told
  <2>2. QED BY <1>4, <2>1 DEF ProofTold, Ok
<1>5. CASE q = r /\ \E code \in Refusals : reply'[r] = Problem(code)
  BY <1>5 DEF ProofTold, Ok, Refusals, Problem
<1>6. CASE q = r /\ Anchor(r) /\ ~Appends(r) /\ reply'[r] = ReadAnswer(r)
  <2>1. UNCHANGED <<op, rec, latest, sths>> /\ pc[r] \in {"anchor", "anchor2"} BY <1>6 DEF Anchor
  <2>2. CASE Kind(r) # "consistency"
    <3>1. pc[r] = "anchor" BY <1>1, <2>1, <2>2 DEF Ctl
    <3>2. /\ reply'[r].proof = sths[r][1] /\ reply'[r].index = IndexRead(r)
          /\ reply'[r].by = IF Kind(r) = "status" THEN latest[r].by ELSE rec[r].id
          /\ reply'[r].sths[1] = sths[r][1]
      BY <1>6, <2>2 DEF ReadAnswer
    <3>3. NextHead(r) = sths[r][1] BY <3>1 DEF NextHead
    <3>4. sths[r][1] \in Heads' BY <1>6, <3>3, HeadChange
    <3>5. sths[r][1] \in Seq(Leaves) BY <1>1, <2>1, <3>3, NextHeadTyped
    <3>6. IsPrefixOf(sths[r][1], sths[r][1]) BY <3>5, PrefixIsSeq, SeqEqual DEF IsPrefixOf
    <3>7. HoldsLeaf(reply'[r].proof, reply'[r].index, reply'[r].by)
      BY <1>6, <2>2, <3>1, <3>2, ReadLeafHeld
    <3>8. QED BY <1>6, <3>2, <3>4, <3>6, <3>7 DEF ProofTold
  <2>3. CASE Kind(r) = "consistency" BY <1>6, <2>1, <2>3 DEF ProofTold, Kind
  <2>4. QED BY <2>2, <2>3
<1>7. CASE q = r /\ (AppendStatus(r) \/ SetAttestationStatus(r)) /\ reply'[r] = WriteAnswer(r)
  <2>1. pc[r] \in {"history", "update"} BY <1>7 DEF AppendStatus, SetAttestationStatus, At
  <2>2. HoldsLeaf(tree[Boot], leafIndex[r], r) BY <2>1, OwnLeafHeld
  <2>3. CASE reply'[r] = Problem("error") BY <1>7, <2>3 DEF ProofTold, Ok, Problem
  <2>4. CASE /\ reply'[r].proof = tree[logs] /\ reply'[r].index = leafIndex[r] /\ reply'[r].by = r
             /\ reply'[r].sths = sths[r]
    <3>1. sths[r][1] \in Heads /\ HoldsLeaf(sths[r][1], leafIndex[r], r)
      BY <2>1 DEF AllInv, BackedInv, Held, Writes
    <3>2. sths[r][1] \in Heads' BY <1>1, <3>1, RecordKept
    <3>3. IsPrefixOf(sths[r][1], tree[Boot])
      <4>1. tree[Boot] \in Seq(Leaves) BY TInvParts DEF AllInv, ProcessTyped, Leaves
      <4>2. sths[r][1] \in Prefixes(tree[Boot]) BY <3>1 DEF SteadyInv, HeadsHeld
      <4>3. QED BY <4>1, <4>2, HeadIsPrefix
    <3>4. QED BY <1>2, <1>7, <2>2, <2>4, <3>1, <3>2, <3>3 DEF ProofTold
  <2>5. QED BY <1>7, <2>3, <2>4 DEF WriteAnswer
<1>8. QED BY <1>1, <1>3, <1>4, <1>5, <1>6, <1>7, Answered

\* Every step of the steady process keeps its invariant.
LEMMA SteadyStep == Steady /\ AllInv /\ SteadyInv /\ [Next]_vars => SteadyInv'
<1>. SUFFICES ASSUME Steady, AllInv, SteadyInv, [Next]_vars PROVE SteadyInv' OBVIOUS
<1>1. ASSUME NEW r \in Requests, Handle(r) PROVE SteadyInv'
  <2>1. logs' = Boot /\ EntriesHeld' /\ HeadsHeld' BY <1>1, SteadyGrows, EntriesHeldStep, HeadsHeldStep
  <2>2. ASSUME NEW q \in Requests PROVE Backs(q)'
    <3>1. tl'[q] \in {None, Boot} /\ pc'[q] # "install"
      <4>1. CASE q = r BY <1>1, <4>1, SteadyGrows
      <4>2. CASE q # r
        <5>1. RequestTyped BY TInvParts DEF AllInv
        <5>2. QED BY <1>1, <4>2, <5>1, OthersKept DEF Same, SteadyInv, Backs
      <4>3. QED BY <4>1, <4>2
    <3>2. QED BY <1>1, <3>1, ReadHeldStep, HeadsTakenStep, ProofToldStep DEF Backs
  <2>3. QED BY <2>1, <2>2 DEF SteadyInv
<1>2. ~Crash BY DEF Steady, Crash, Fault
<1>3. CASE UNCHANGED vars
  <2>1. UNCHANGED <<pc, op, rec, latest, tl, sths, tree, logs, history, Heads, reply>> BY <1>3, HeadsStand DEF vars
  <2>2. logs' = Boot /\ EntriesHeld' /\ HeadsHeld' BY <2>1 DEF SteadyInv, EntriesHeld, HeadsHeld
  <2>3. ASSUME NEW q \in Requests PROVE Backs(q)'
    <3>1. Backs(q) BY DEF SteadyInv
    <3>2. ReadHeld(q)' BY <2>1, <3>1 DEF Backs, ReadHeld, Kind
    <3>3. HeadsTaken(q)' BY <2>1, <3>1 DEF Backs, HeadsTaken, Kind, Appends, IndexRead
    <3>4. ProofTold(q)' BY <2>1, <3>1 DEF Backs, ProofTold, Ok, Kind
    <3>5. QED BY <2>1, <3>1, <3>2, <3>3, <3>4 DEF Backs
  <2>4. QED BY <2>2, <2>3 DEF SteadyInv
<1>4. QED BY <1>1, <1>2, <1>3 DEF Next

\* The general invariants together, ...
LEMMA AllInvariant == Spec => []AllInv
<1>1. Init => AllInv BY TypeInit, BackedInit, AckInit DEF AllInv
<1>2. AllInv /\ [Next]_vars => AllInv' BY TypeStep, BackedStep, AckStep DEF AllInv
<1>3. QED BY <1>1, <1>2, PTL DEF Spec

\* ... and that of the steady process on top of them.
LEMMA SteadyInvariant == ASSUME Steady PROVE Spec => []SteadyInv
<1>1. Init => SteadyInv BY SteadyInit
<1>2. AllInv /\ SteadyInv /\ [Next]_vars => SteadyInv' BY SteadyStep
<1>3. QED BY <1>1, <1>2, AllInvariant, PTL DEF Spec

\* In a process that is not restarted any two heads that anchorSTH published are
\* heads of one log: the smaller is a prefix of the larger, whatever requests
\* run at the same time and whichever statements or anchors fail.
THEOREM SteadyHeadsConsistent == ASSUME Steady PROVE Spec => []HeadsConsistent
<1>1. AllInv /\ SteadyInv => HeadsConsistent
  <2>1. SUFFICES ASSUME AllInv, SteadyInv, NEW s \in Heads, NEW t \in Heads
                 PROVE  IsPrefixOf(s, t) \/ IsPrefixOf(t, s)
    BY DEF HeadsConsistent
  <2>2. tree[Boot] \in Seq(Leaves) BY <2>1, TInvParts DEF AllInv, ProcessTyped, Leaves
  <2>3. s \in Prefixes(tree[Boot]) /\ t \in Prefixes(tree[Boot]) BY <2>1 DEF SteadyInv, HeadsHeld
  <2>4. QED BY <2>2, <2>3, PrefixesComparable
<1>2. QED BY <1>1, AllInvariant, SteadyInvariant, PTL

\* What a request was told stays true in a process that is not restarted: the
\* row it was promised, the identifier of its content, the proof of its leaf, a
\* published head that held the leaf and that the proved tree extends.
THEOREM SteadyAnswersHold == ASSUME Steady PROVE Spec => []AnswersHold
<1>1. SteadyInv => ProofsVerify /\ HeadHoldsLeaf
  BY DEF SteadyInv, Backs, ProofTold, Ok, ProofsVerify, HeadHoldsLeaf
<1>2. QED BY <1>1, SteadyInvariant, AckIsDurable, OneIdPerContent, PTL DEF AnswersHold

\* The steady ledger implements the append-only log: each step appends one leaf
\* to the instance, publishes one head of it, or neither.
THEOREM SteadyIsAppendOnly == ASSUME Steady PROVE Spec => Implements
<1>1. Init => Abstract!Init
  <2>1. SUFFICES ASSUME Init PROVE Abstract!Init OBVIOUS
  <2>2. AllInv /\ SteadyInv BY <2>1, TypeInit, BackedInit, AckInit, SteadyInit DEF AllInv
  <2>3. tree[Boot] \in Seq(Leaves) BY <2>2, TInvParts DEF AllInv, ProcessTyped, Leaves
  <2>4. QED BY <2>2, <2>3 DEF Abstract!Init, Abstract!HeadsOf, SteadyInv, HeadsHeld, Prefixes
<1>2. AllInv /\ SteadyInv /\ [Next]_vars => [Abstract!Grow \/ Abstract!Publish]_<<tree[Boot], Heads>>
  <2>1. SUFFICES ASSUME AllInv, SteadyInv, [Next]_vars
                 PROVE  Abstract!Grow \/ Abstract!Publish \/ UNCHANGED <<tree[Boot], Heads>>
    OBVIOUS
  <2>2. ASSUME NEW r \in Requests, Handle(r)
        PROVE  Abstract!Grow \/ Abstract!Publish \/ UNCHANGED <<tree[Boot], Heads>>
    <3>1. r \in Leaves BY DEF Leaves
    <3>2. CASE tree'[Boot] = Append(tree[Boot], r) /\ Heads' = Heads
      BY <3>1, <3>2 DEF Abstract!Grow
    <3>3. CASE tree'[Boot] = tree[Boot] /\ Heads' = Heads BY <3>3
    <3>4. CASE /\ tree'[Boot] = tree[Boot] /\ pc[r] \in {"anchor", "anchor2"}
               /\ Heads' = Heads \cup {NextHead(r)}
      <4>1. NextHead(r) \in Abstract!HeadsOf(tree[Boot])
        BY <2>1, <3>4, NextHeadHeld DEF Prefixes, Abstract!HeadsOf
      <4>2. QED BY <3>4, <4>1 DEF Abstract!Publish
    <3>5. QED BY <2>1, <2>2, <3>2, <3>3, <3>4, SteadyGrows, HeadChange
  <2>3. ~Crash BY DEF Steady, Crash, Fault
  <2>4. CASE UNCHANGED vars BY <2>4, HeadsStand DEF vars
  <2>5. QED BY <2>1, <2>2, <2>3, <2>4 DEF Next
<1>3. QED BY <1>1, <1>2, AllInvariant, SteadyInvariant, PTL DEF Spec, Implements, Abstract!Spec

-----------------------------------------------------------------------------
(* One request at a time on Postgres whose statements do not fail: instance, *)
(* store and chain agree, through failed anchors and restarts.               *)

\* Requests come one at a time, to Postgres, and no statement fails.
Serial == MaxInFlight = 1 /\ Stores = {"postgres"} /\ "db" \notin Faults

\* The leaf is in the instance and not yet in the store.
Persisting(r) == pc[r] \in {"persist", "insert"}

\* At most one request is being handled.
OneAtATime == \A q, r \in Requests : Working(q) /\ Working(r) => q = r

\* The instance has the leaves of the store, and published heads are heads of both.
InStep ==
  /\ logs # None /\ (\A r \in Requests : ~Persisting(r)) => tree[logs] = disk
  /\ Heads \subseteq Prefixes(disk)

\* The one request in work is at most its own leaf ahead of the store.
Along(r) ==
  /\ Persisting(r) => logs # None /\ tl[r] = logs /\ tree[logs] = Append(disk, r)
  /\ pc[r] = "install" => logs = None
  /\ pc[r] \in {"install", "insert"} => fetched[r] = disk
  /\ pc[r] \in {"anchor", "anchor2"} => sths[r] \in Seq(Prefixes(disk))
  /\ Writes(r) => logs # None /\ sths[r][1] = disk

\* The inductive invariant of the serial ledger.
SerialInv == OneAtATime /\ InStep /\ \A r \in Requests : Along(r)

\* Store, log and chain start with the one leaf of Boot.
LEMMA SerialInit == Init => SerialInv
<1>. SUFFICES ASSUME Init PROVE SerialInv OBVIOUS
<1>. USE LedgerAssumption DEF Init
<1>1. OneAtATime BY DEF OneAtATime, Working
<1>2. InStep
  <2>1. logs # None => tree[logs] = disk BY DEF Leaves
  <2>2. <<Boot>> \in Seq({Boot}) OBVIOUS
  <2>3. Heads \subseteq Prefixes(disk) BY <2>2, WholeIsPrefix DEF Heads
  <2>4. QED BY <2>1, <2>3 DEF InStep
<1>3. ASSUME NEW r \in Requests PROVE Along(r)
  BY <1>3 DEF Along, Persisting, Writes
<1>4. QED BY <1>1, <1>2, <1>3 DEF SerialInv

\* A request is only taken up when none is in work.
LEMMA Alone ==
  ASSUME Serial, RequestTyped, OneAtATime, NEW r \in Requests, Handle(r)
  PROVE  /\ \A q \in Requests \ {r} : ~Working(q) /\ ~Working(q)'
         /\ OneAtATime'
<1>1. \A q \in Requests \ {r} : ~Working(q)
  <2>1. CASE Submit(r)
    <3>. DEFINE W == {q \in Requests : pc[q] \notin Idle}
    <3>1. Cardinality(W) < 1 BY <2>1 DEF Submit, Serial
    <3>2. W = {}
      <4>1. SUFFICES ASSUME NEW x \in W PROVE FALSE OBVIOUS
      <4>2. W = {x} BY <4>1 DEF OneAtATime, Working, Idle
      <4>3. Cardinality(W) = 1 BY <4>2, FS_Singleton
      <4>4. QED BY <3>1, <4>3
    <3>3. QED BY <3>2 DEF Working, Idle
  <2>2. CASE ~Submit(r)
    <3>1. Working(r)
      BY <2>2 DEF Handle, LookupContent, LookupRecord, LookupLatest, UseLog, LoadLeaves, InstallLog,
         CountLeaves, PersistLeaf, PersistConflict, Anchor, AnchorFails, PutAttestation, AppendStatus,
         SetAttestationStatus, StoreFails, At, Working
    <3>2. QED BY <3>1 DEF OneAtATime
  <2>3. QED BY <2>1, <2>2
<1>2. \A q \in Requests \ {r} : ~Working(q)' BY <1>1, OthersKept DEF Same, Working
<1>3. QED BY <1>1, <1>2 DEF OneAtATime

\* What the step of the one request in work leaves true of log, store and chain.
OwnInStep(r) ==
  /\ logs # None /\ ~Persisting(r) => tree[logs] = disk
  /\ Heads \subseteq Prefixes(disk)

\* The instance is the store's leaves, to which the request may add its own.
LEMMA SerialTakes ==
  ASSUME TInv, NEW r \in Requests, OwnInStep(r), Along(r), UseLog(r) \/ InstallLog(r)
  PROVE  OwnInStep(r)' /\ Along(r)'
<1>1. RequestTyped /\ ProcessTyped /\ StoreTyped BY TInvParts
<1>2. PICK t \in Seq(Leaves) : Takes(r, t) BY InstanceStep
<1>3. logs' \in Leaves /\ logs' # None /\ UNCHANGED <<op, rec, fetched, disk, Heads>>
  BY <1>2, LedgerAssumption DEF Takes, Heads
<1>4. t = disk BY <1>2 DEF Takes, Along, OwnInStep, Persisting
<1>5. CASE pc'[r] = "persist"
  <2>1. tree'[logs'] = Append(disk, r) /\ tl'[r] = logs'
    BY <1>1, <1>2, <1>3, <1>4, <1>5, TakesTyped DEF ProcessTyped, RequestTyped
  <2>2. QED BY <1>3, <1>5, <2>1 DEF OwnInStep, Along, Persisting, Writes
<1>6. CASE pc'[r] # "persist"
  <2>1. tree'[logs'] = disk /\ pc'[r] \in {"anchor", "done"}
    BY <1>1, <1>2, <1>3, <1>4, <1>6, TakesTyped DEF ProcessTyped
  <2>2. pc'[r] = "anchor" => ~Appends(r)' /\ sths'[r] \in Seq(Prefixes(disk))
    <3>1. SUFFICES ASSUME pc'[r] = "anchor" PROVE ~Appends(r)' /\ sths'[r] \in Seq(Prefixes(disk))
      OBVIOUS
    <3>2. ~Appends(r) /\ sths'[r] \in HeadsRead(r, disk) BY <1>2, <1>4, <3>1, TakesTyped
    <3>3. ~Appends(r)' BY <1>3, <3>2 DEF Appends, Kind
    <3>4. disk \in Seq(Leaves) BY <1>1 DEF StoreTyped
    <3>5. QED BY <3>2, <3>3, <3>4, HeadsReadTyped
  <2>3. QED BY <1>3, <2>1, <2>2 DEF OwnInStep, Along, Persisting, Writes
<1>7. QED BY <1>5, <1>6

\* Reading the store changes neither side.
LEMMA SerialReads ==
  ASSUME TInv, NEW r \in Requests, OwnInStep(r), Along(r), ReadStep(r)
  PROVE  OwnInStep(r)' /\ Along(r)'
<1>1. RequestTyped BY TInvParts
<1>2. UNCHANGED <<tree, logs, tl, disk, Heads>>
  BY DEF Heads, ReadStep, Submit, LookupContent, LookupRecord, LookupLatest, LoadLeaves, CountLeaves
<1>3. CASE LoadLeaves(r)
  BY <1>1, <1>2, <1>3 DEF LoadLeaves, At, Goto, RequestTyped, OwnInStep, Along, Persisting, Writes
<1>4. CASE CountLeaves(r)
  BY <1>1, <1>2, <1>4 DEF CountLeaves, At, Goto, RequestTyped, OwnInStep, Along, Persisting, Writes
<1>5. CASE Submit(r) \/ LookupContent(r) \/ LookupRecord(r) \/ LookupLatest(r)
  <2>1. pc[r] \in {"new", "lookup", "latest"} /\ pc'[r] \in {"lookup", "latest", "log", "done"}
    BY <1>1, <1>5 DEF Submit, LookupContent, LookupRecord, LookupLatest, At, Goto, Answer, RequestTyped
  <2>2. QED BY <1>2, <2>1 DEF OwnInStep, Along, Persisting, Writes
<1>6. QED BY <1>3, <1>4, <1>5 DEF ReadStep

\* The insert catches the store up; then the head is one of both.
LEMMA SerialWrites ==
  ASSUME Serial, TInv, NEW r \in Requests, OwnInStep(r), Along(r), WriteStep(r)
  PROVE  OwnInStep(r)' /\ Along(r)'
<1>1. RequestTyped /\ ProcessTyped /\ StoreTyped /\ Ctl(r) /\ r \in Leaves BY TInvParts DEF CtlInv, Leaves
<1>2. Postgres /\ disk \in Seq(Leaves) BY <1>1 DEF Serial, StoreTyped, Postgres
<1>3. UNCHANGED <<op, rec, tree, logs, tl, fetched>>
  BY DEF WriteStep, PersistLeaf, PersistConflict, Anchor, AnchorFails, PutAttestation, AppendStatus,
         SetAttestationStatus, StoreFails
<1>4. CASE PersistLeaf(r)
  <2>1. /\ pc[r] = "insert" /\ pc'[r] = "anchor" /\ sths'[r] = <<tree[tl[r]]>>
        /\ disk' = Append(disk, r) /\ Heads' = Heads
    BY <1>1, <1>2, <1>4 DEF Heads, PersistLeaf, At, Goto, RequestTyped
  <2>2. logs # None /\ tree[tl[r]] = disk' /\ tree[logs] = disk'
    BY <2>1 DEF Along, Persisting
  <2>3. disk' \in Seq(Leaves) BY <1>1, <1>2, <2>1
  <2>4. disk' \in Prefixes(disk') BY <2>3, WholeIsPrefix
  <2>5. \A s \in Prefixes(disk) : s \in Prefixes(disk') BY <1>1, <1>2, <2>1, PrefixOfAppend
  <2>6. OwnInStep(r)' BY <1>3, <2>1, <2>2, <2>5 DEF OwnInStep
  <2>7. Along(r)' BY <1>3, <2>1, <2>2, <2>4 DEF Along, Persisting, Writes
  <2>8. QED BY <2>6, <2>7
<1>5. CASE Anchor(r) \/ AnchorFails(r)
  <2>1. /\ pc[r] \in {"anchor", "anchor2"} /\ pc'[r] \in {"put", "history", "anchor2", "done"}
        /\ UNCHANGED <<sths, disk>> /\ Heads' \in {Heads, Heads \cup {NextHead(r)}}
    <3>1. CASE Anchor(r) BY <1>1, <3>1, AnchorWays, HeadChange DEF Anchor, Goto, Answer, RequestTyped, Handle
    <3>2. CASE AnchorFails(r) BY <1>1, <3>2, HeadChange DEF AnchorFails, Goto, Answer, RequestTyped, Handle
    <3>3. QED BY <1>5, <3>1, <3>2
  <2>2. sths[r] \in Seq(Prefixes(disk)) BY <2>1 DEF Along
  <2>3. NextHead(r) \in Prefixes(disk)
    <3>1. CASE pc[r] = "anchor2"
      <4>1. Len(sths[r]) = 2 BY <1>1, <3>1 DEF Ctl
      <4>2. QED BY <2>2, <3>1, <4>1 DEF NextHead
    <3>2. CASE pc[r] = "anchor"
      <4>1. Len(sths[r]) >= 1 BY <1>1, <3>2 DEF Ctl
      <4>2. QED BY <2>2, <3>2, <4>1 DEF NextHead
    <3>3. QED BY <2>1, <3>1, <3>2
  <2>4. pc'[r] \in {"put", "history"} => Writes(r)
    <3>1. CASE Anchor(r)
      <4>1. pc'[r] \in {"put", "history"} => Appends(r) BY <1>1, <3>1, AnchorWays DEF Goto, Answer, RequestTyped
      <4>2. Appends(r) => pc[r] = "anchor" BY <1>1, <2>1 DEF Ctl, Appends, Changes
      <4>3. QED BY <4>1, <4>2 DEF Writes
    <3>2. CASE AnchorFails(r) BY <1>1, <3>2 DEF AnchorFails, Goto, Answer, RequestTyped
    <3>3. QED BY <1>5, <3>1, <3>2
  <2>5. OwnInStep(r)' BY <1>3, <2>1, <2>3 DEF OwnInStep, Persisting
  <2>6. Along(r)' BY <1>3, <2>1, <2>2, <2>4 DEF Along, Persisting, Writes
  <2>7. QED BY <2>5, <2>6
<1>6. CASE PutAttestation(r) \/ AppendStatus(r) \/ SetAttestationStatus(r)
  <2>1. /\ pc[r] \in {"put", "history", "update"} /\ pc'[r] \in {"history", "update", "done"}
        /\ UNCHANGED <<sths, disk, Heads>>
    BY <1>1, <1>6 DEF Heads, PutAttestation, AppendStatus, SetAttestationStatus, At, Goto, Answer, RequestTyped
  <2>2. QED BY <1>3, <2>1 DEF OwnInStep, Along, Persisting, Writes
<1>7. ~PersistConflict(r) BY DEF PersistConflict, At, Along
<1>8. ~StoreFails(r) BY DEF StoreFails, Fault, Serial
<1>9. QED BY <1>4, <1>5, <1>6, <1>7, <1>8 DEF WriteStep

\* Every step keeps the three in step, a crash by dropping the instance.
LEMMA SerialStep == Serial /\ AllInv /\ SerialInv /\ [Next]_vars => SerialInv'
<1>. SUFFICES ASSUME Serial, AllInv, SerialInv, [Next]_vars PROVE SerialInv' OBVIOUS
<1>1. TInv /\ AckInv /\ RequestTyped BY TInvParts DEF AllInv
<1>2. ASSUME NEW r \in Requests, Handle(r) PROVE SerialInv'
  <2>1. (\A q \in Requests \ {r} : ~Working(q) /\ ~Working(q)') /\ OneAtATime'
    BY <1>1, <1>2, Alone DEF SerialInv
  <2>2. OwnInStep(r) BY <2>1 DEF SerialInv, InStep, OwnInStep, Working, Persisting
  <2>3. OwnInStep(r)' /\ Along(r)'
    BY <1>1, <1>2, <2>2, SerialTakes, SerialReads, SerialWrites DEF SerialInv, Handle, ReadStep, WriteStep
  <2>4. InStep' BY <2>1, <2>3 DEF InStep, OwnInStep, Working, Persisting
  <2>5. ASSUME NEW q \in Requests \ {r} PROVE Along(q)'
    BY <2>1, <2>5 DEF Along, Persisting, Writes, Working
  <2>6. QED BY <2>1, <2>3, <2>4, <2>5 DEF SerialInv
<1>3. CASE Crash
  <2>1. /\ logs' = None /\ UNCHANGED <<disk, Heads>>
        /\ \A q \in Requests : ~Working(q)'
    BY <1>3, HeadsStand DEF Crash, Working, Idle
  <2>2. OneAtATime' /\ InStep' BY <2>1 DEF OneAtATime, SerialInv, InStep
  <2>3. ASSUME NEW q \in Requests PROVE Along(q)'
    BY <2>1 DEF SerialInv, Along, Persisting, Writes, Working
  <2>4. QED BY <2>2, <2>3 DEF SerialInv
<1>4. CASE UNCHANGED vars
  <2>1. UNCHANGED <<pc, op, rec, tl, fetched, sths, tree, logs, disk, Heads>> BY <1>4, HeadsStand DEF vars
  <2>2. OneAtATime' /\ InStep' BY <2>1 DEF SerialInv, OneAtATime, Working, InStep, Persisting
  <2>3. ASSUME NEW q \in Requests PROVE Along(q)'
    BY <2>1 DEF SerialInv, Along, Persisting, Writes, Appends, Kind
  <2>4. QED BY <2>2, <2>3 DEF SerialInv
<1>5. QED BY <1>2, <1>3, <1>4 DEF Next

\* The invariant of the serial ledger holds.
LEMMA SerialInvariant == ASSUME Serial PROVE Spec => []SerialInv
<1>1. AllInv /\ SerialInv /\ [Next]_vars => SerialInv' BY SerialStep
<1>2. QED BY <1>1, SerialInit, AllInvariant, PTL DEF Spec

\* Between requests the leaves of the store are those of the published heads in
\* their order, so the log that getLog rebuilds after a restart has those heads.
THEOREM SerialRebuildKeepsHeads == ASSUME Serial PROVE Spec => []RebuildKeepsHeads
<1>1. AllInv /\ SerialInv => RebuildKeepsHeads
  <2>1. SUFFICES ASSUME AllInv, SerialInv, NEW s \in Heads PROVE IsPrefixOf(s, disk)
    BY DEF RebuildKeepsHeads
  <2>2. disk \in Seq(Leaves) BY <2>1, TInvParts DEF AllInv, StoreTyped
  <2>3. PICK n \in 0 .. Len(disk) : s = SubSeq(disk, 1, n) BY <2>1 DEF SerialInv, InStep, Prefixes
  <2>4. Len(s) = n BY <2>2, <2>3, PrefixIsSeq
  <2>5. QED BY <2>2, <2>3, <2>4 DEF IsPrefixOf
<1>2. QED BY <1>1, AllInvariant, SerialInvariant, PTL
=============================================================================
