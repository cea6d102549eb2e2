------------------------ MODULE AnchorPipelineProofs ------------------------
(***************************************************************************)
(* Proofs about AnchorPipeline: the types, what the index promises about   *)
(* the chain, what the worker's cursor promises about the anchors, and     *)
(* what the signature table promises about the bucket, for every number    *)
(* of contracts, blocks, faults and operator interventions.                *)
(***************************************************************************)
EXTENDS AnchorPipeline, FiniteSetTheorems, WellFoundedInduction, TLAPS

CompleteUpTo(n) ==
  \A e \in Events : e[1] <= n /\ ContractOf(e) \in InitialWatch => e \in indexed

ChainTyped == blocks \in Seq(Seq(Contracts)) /\ Len(blocks) >= 1

\* The cursor is on the chain, and the index is complete up to it.
CursorInv == indexCursor \in Int /\ indexCursor >= -1 /\ indexCursor <= Latest
               /\ CompleteUpTo(indexCursor)

\* A range in work starts where the index is complete, even if the operator has
\* moved the cursor since, and ends where every replica has the blocks.
RangeInv == ipc \in {"logs", "commit"} =>
  /\ range \in Int \X Int
  /\ range[1] - 1 <= Latest /\ range[2] + MaxLag <= Latest /\ range[2] >= -1
  /\ CompleteUpTo(range[1] - 1)

LoadInv == InitialWatch \subseteq watched /\ (ipc # "down" => InitialWatch \subseteq loaded)

FetchInv == ipc = "commit" =>
  \A e \in Events :
    e[1] \in range[1] .. range[2] /\ ContractOf(e) \in InitialWatch => e \in fetched

IndexInv == ChainTyped /\ CursorInv /\ RangeInv /\ LoadInv /\ FetchInv

\* The indexer trails the head by at least what a replica may trail it.
ReplicasKeepUp == MaxLag <= Confirmations /\ Confirmations \in Nat

\* An event is a block of the chain and a number.
LEMMA EventBlock ==
  ASSUME ChainTyped, NEW e \in Events
  PROVE  e[1] \in Nat /\ e[1] <= Latest
<1>1. Len(blocks) \in Nat BY DEF ChainTyped
<1>2. QED BY <1>1 DEF Events, Latest

\* Mine: appending a block changes no event of the blocks before it.
LEMMA MineKeepsEvents ==
  ASSUME ChainTyped, Mine
  PROVE  /\ ChainTyped'
         /\ Latest' = Latest + 1
         /\ \A e \in Events' : e[1] <= Latest => e \in Events /\ ContractOf(e)' = ContractOf(e)
<1>1. PICK b \in BlockContents : blocks' = Append(blocks, b) BY DEF Mine
<1>2. b \in Seq(Contracts) BY AnchorAssumption
<1>3. blocks' \in Seq(Seq(Contracts)) /\ Len(blocks') = Len(blocks) + 1
  BY <1>1, <1>2 DEF ChainTyped
<1>4. \A k \in 1 .. Len(blocks) : blocks'[k] = blocks[k]
  BY <1>1, <1>2 DEF ChainTyped
<1>5. ChainTyped' /\ Latest' = Latest + 1
  BY <1>3 DEF ChainTyped, Latest
<1>6. ASSUME NEW e \in Events', e[1] <= Latest
      PROVE  e \in Events /\ ContractOf(e)' = ContractOf(e)
  <2>1. PICK n \in (0 .. Latest)' : e \in {n} \X DOMAIN blocks'[n + 1]
    BY DEF Events
  <2>2. n \in Nat /\ n <= Latest /\ n + 1 \in 1 .. Len(blocks)
    BY <2>1, <1>6, <1>5, Len(blocks) \in Nat DEF Latest, ChainTyped
  <2>3. blocks'[n + 1] = blocks[n + 1] BY <2>2, <1>4
  <2>4. e \in Events BY <2>1, <2>2, <2>3, Len(blocks) \in Nat DEF Events, Latest, ChainTyped
  <2>5. e[1] = n BY <2>1
  <2>6. QED BY <2>3, <2>4, <2>5 DEF ContractOf
<1>7. QED BY <1>5, <1>6

\* A step that mines no block and only adds to the index keeps what is complete.
LEMMA CompleteGrows ==
  ASSUME blocks' = blocks, indexed \subseteq indexed', NEW n, CompleteUpTo(n)
  PROVE  \A e \in Events' : e[1] <= n /\ ContractOf(e)' \in InitialWatch => e \in indexed'
BY DEF CompleteUpTo, Events, Latest, ContractOf

\* A new block is beyond whatever was complete.
LEMMA CompleteMines ==
  ASSUME ChainTyped, Mine, indexed' = indexed, NEW n \in Int, n <= Latest, CompleteUpTo(n)
  PROVE  \A e \in Events' : e[1] <= n /\ ContractOf(e)' \in InitialWatch => e \in indexed'
<1>1. TAKE e \in Events'
<1>2. SUFFICES ASSUME e[1] <= n, ContractOf(e)' \in InitialWatch PROVE e \in indexed'
  OBVIOUS
<1>3. ChainTyped' BY MineKeepsEvents
<1>4. e[1] \in Nat
  <2>1. Len(blocks') \in Nat BY <1>3 DEF ChainTyped
  <2>2. QED BY <2>1 DEF Events, Latest
<1>5. Latest \in Int BY Len(blocks) \in Nat DEF Latest, ChainTyped
<1>6. e[1] <= Latest BY <1>2, <1>4, <1>5
<1>7. e \in Events /\ ContractOf(e)' = ContractOf(e) BY <1>6, MineKeepsEvents
<1>8. QED BY <1>2, <1>7 DEF CompleteUpTo

\* The steps that leave the chain and the indexer alone.
Aside ==
  MineAnchor \/ Worker

LEMMA AsideKeeps ==
  ASSUME IndexInv, UNCHANGED <<blocks, watched, indexCursor, indexed, ipc, loaded, range, fetched>>
  PROVE  IndexInv'
BY DEF IndexInv, ChainTyped, CursorInv, RangeInv, LoadInv, FetchInv, CompleteUpTo, Events, Latest,
       ContractOf

LEMMA AsideUnchanged ==
  ASSUME Aside
  PROVE  UNCHANGED <<blocks, watched, indexCursor, indexed, ipc, loaded, range, fetched>>
BY DEF Aside, MineAnchor, Worker, ReconcileKey, ReconcileKeyReverts, PlanWindow, FetchEvents,
       SubmitAnchor, AwaitReceipt, ReceiptReverts, PutBlob, InsertSignature, AdvanceCursor,
       WorkerThrows, WorkerCrash, chain, tables, indexer

LEMMA IndexInvInit == Init => IndexInv
<1> SUFFICES ASSUME Init PROVE IndexInv OBVIOUS
<1>1. blocks = << <<>> >> BY DEF Init
<1>2. ChainTyped /\ Latest = 0 BY <1>1 DEF ChainTyped, Latest
<1>3. CursorInv
  BY <1>2, EventBlock DEF Init, CursorInv, CompleteUpTo
<1>4. QED BY <1>2, <1>3, AnchorAssumption DEF Init, IndexInv, RangeInv, LoadInv, FetchInv

LEMMA IndexInvStep ==
  ASSUME ReplicasKeepUp, IndexInv, [Next]_vars
  PROVE  IndexInv'
<1> USE DEF IndexInv
<1>0. Latest \in Int /\ MaxLag \in Nat /\ Confirmations \in Nat /\ MaxLag <= Confirmations
  BY AnchorAssumption, Len(blocks) \in Nat DEF ReplicasKeepUp, Latest, ChainTyped
<1>1. CASE Mine
  <2>1. UNCHANGED <<watched, indexCursor, indexed, ipc, loaded, range, fetched>>
    BY <1>1 DEF Mine, tables, indexer
  <2>2. ChainTyped' /\ Latest' = Latest + 1 BY <1>1, MineKeepsEvents
  <2>3. CursorInv' BY <1>0, <1>1, <2>1, <2>2, CompleteMines DEF CursorInv, CompleteUpTo
  <2>4. RangeInv'
    <3>1. SUFFICES ASSUME ipc \in {"logs", "commit"}
                   PROVE  /\ range \in Int \X Int
                          /\ range[1] - 1 <= Latest' /\ range[2] + MaxLag <= Latest'
                          /\ range[2] >= -1
                          /\ CompleteUpTo(range[1] - 1)'
      BY <2>1 DEF RangeInv, CompleteUpTo
    <3>2. /\ range \in Int \X Int
          /\ range[1] - 1 <= Latest /\ range[2] + MaxLag <= Latest /\ range[2] >= -1
          /\ CompleteUpTo(range[1] - 1)
      BY <3>1 DEF RangeInv
    <3>3. range[1] - 1 \in Int BY <3>2
    <3>4. CompleteUpTo(range[1] - 1)'
      BY <1>1, <2>1, <3>2, <3>3, CompleteMines DEF CompleteUpTo
    <3>5. QED BY <1>0, <2>2, <3>2, <3>4
  <2>5. LoadInv' BY <2>1 DEF LoadInv
  <2>6. FetchInv'
    <3>1. SUFFICES ASSUME ipc = "commit", NEW e \in Events', e[1] \in range[1] .. range[2],
                          ContractOf(e)' \in InitialWatch
                   PROVE  e \in fetched
      BY <2>1 DEF FetchInv
    <3>2. e[1] \in Int /\ e[1] <= Latest BY <3>1, <1>0 DEF RangeInv
    <3>3. e \in Events /\ ContractOf(e)' = ContractOf(e) BY <1>1, <3>2, MineKeepsEvents
    <3>4. QED BY <3>1, <3>3 DEF FetchInv
  <2>7. QED BY <2>2, <2>3, <2>4, <2>5, <2>6
<1>2. CASE LoadWatched
  <2>1. UNCHANGED <<blocks, indexed, indexCursor, watched>> /\ ipc' = "tick" /\ loaded' = watched
    BY <1>2 DEF LoadWatched, IndexerGoes, chain, tables
  <2>2. QED
    BY <2>1 DEF ChainTyped, CursorInv, RangeInv, LoadInv, FetchInv, CompleteUpTo, Events, Latest,
                ContractOf
<1>3. CASE PlanRange
  <2>1. UNCHANGED <<blocks, watched, indexed, indexCursor, loaded, fetched>> /\ ipc = "tick"
    BY <1>3 DEF PlanRange, chain, tables
  <2>2. ChainTyped' /\ CursorInv' /\ Latest' = Latest
    BY <2>1 DEF ChainTyped, CursorInv, CompleteUpTo, Events, Latest, ContractOf
  <2>3. CASE UNCHANGED <<ipc, range>>
    BY <2>1, <2>2, <2>3 DEF RangeInv, LoadInv, FetchInv
  <2>4. CASE /\ ipc' = "logs"
             /\ \E head \in Views :
                  /\ ~(head - Confirmations <= indexCursor)
                  /\ range' = <<indexCursor + 1,
                               Smaller(indexCursor + BatchSize, head - Confirmations)>>
    <3>1. PICK head \in Views :
             /\ ~(head - Confirmations <= indexCursor)
             /\ range' = <<indexCursor + 1,
                          Smaller(indexCursor + BatchSize, head - Confirmations)>>
      BY <2>4
    <3>2. head \in Int /\ head <= Latest BY <1>0, <3>1 DEF Views
    <3>3. BatchSize \in Nat /\ BatchSize > 0 BY AnchorAssumption
    <3>4. indexCursor \in Int /\ indexCursor >= -1 /\ indexCursor <= Latest
      BY DEF CursorInv
    <3>5. range'[1] - 1 = indexCursor BY <3>1, <3>4
    <3>6. range' \in Int \X Int /\ range'[2] + MaxLag <= Latest /\ range'[2] >= -1
      BY <1>0, <3>1, <3>2, <3>3, <3>4 DEF Smaller
    <3>7. CompleteUpTo(range[1] - 1)'
      BY <2>2, <3>5, <2>1 DEF CursorInv, CompleteUpTo
    <3>8. RangeInv' BY <2>2, <3>4, <3>5, <3>6, <3>7 DEF RangeInv
    <3>9. QED BY <2>1, <2>2, <2>4, <3>8 DEF LoadInv, FetchInv
  <2>5. QED BY <1>3, <2>3, <2>4 DEF PlanRange
<1>4. CASE FetchLogs
  <2>1. UNCHANGED <<blocks, watched, indexed, indexCursor, loaded, range>>
          /\ ipc = "logs" /\ ipc' = "commit"
    BY <1>4 DEF FetchLogs, IndexerGoes, chain, tables
  <2>2. PICK view \in Views :
          fetched' = {e \in Events : /\ e[1] \in range[1] .. range[2] /\ e[1] <= view
                                     /\ ContractOf(e) \in loaded}
    BY <1>4 DEF FetchLogs
  <2>3. ChainTyped' /\ CursorInv' /\ RangeInv' /\ LoadInv'
    BY <2>1 DEF ChainTyped, CursorInv, RangeInv, LoadInv, CompleteUpTo, Events, Latest, ContractOf
  <2>4. FetchInv'
    <3>1. SUFFICES ASSUME NEW e \in Events, e[1] \in range[1] .. range[2],
                          ContractOf(e) \in InitialWatch
                   PROVE  e \in fetched'
      BY <2>1 DEF FetchInv, Events, Latest, ContractOf
    <3>2. view \in Int /\ Latest - view <= MaxLag BY <1>0 DEF Views
    <3>3. range \in Int \X Int /\ range[2] + MaxLag <= Latest BY <2>1 DEF RangeInv
    <3>4. e[1] <= view BY <1>0, <3>1, <3>2, <3>3
    <3>5. ContractOf(e) \in loaded BY <2>1, <3>1 DEF LoadInv
    <3>6. QED BY <2>2, <3>1, <3>4, <3>5
  <2>5. QED BY <2>3, <2>4
<1>5. CASE CommitRange
  <2>1. UNCHANGED <<blocks, watched, loaded>> /\ indexed' = indexed \cup fetched
          /\ indexCursor' = range[2] /\ ipc = "commit" /\ ipc' = "tick"
    BY <1>5 DEF CommitRange, EndTick, chain
  <2>2. /\ range \in Int \X Int
        /\ range[2] + MaxLag <= Latest /\ range[2] >= -1
        /\ CompleteUpTo(range[1] - 1)
    BY <2>1 DEF RangeInv
  <2>3. ASSUME NEW e \in Events, e[1] <= range[2], ContractOf(e) \in InitialWatch
        PROVE  e \in indexed \cup fetched
    <3>1. e[1] \in Nat BY EventBlock
    <3>2. CASE e[1] <= range[1] - 1 BY <2>2, <2>3, <3>2 DEF CompleteUpTo
    <3>3. CASE e[1] \in range[1] .. range[2] BY <2>1, <2>3, <3>3 DEF FetchInv
    <3>4. QED BY <2>2, <2>3, <3>1, <3>2, <3>3
  <2>4. CursorInv'
    <3>1. Events' = Events /\ Latest' = Latest /\ \A e \in Events : ContractOf(e)' = ContractOf(e)
      BY <2>1 DEF Events, Latest, ContractOf
    <3>2. CompleteUpTo(indexCursor)' BY <2>1, <2>3, <3>1 DEF CompleteUpTo
    <3>3. QED BY <1>0, <2>1, <2>2, <3>1, <3>2 DEF CursorInv
  <2>5. QED BY <2>1, <2>4 DEF ChainTyped, RangeInv, LoadInv, FetchInv
<1>6. CASE IndexerThrows \/ IndexerCrash
  <2>1. UNCHANGED <<blocks, watched, indexed, indexCursor>> /\ ipc' \in {"tick", "down"}
          /\ (ipc' = "tick" => ipc # "down" /\ loaded' = loaded)
    BY <1>6 DEF IndexerThrows, IndexerCrash, EndTick, chain, tables
  <2>2. QED
    BY <2>1 DEF ChainTyped, CursorInv, RangeInv, LoadInv, FetchInv, CompleteUpTo, Events, Latest,
                ContractOf
<1>7. CASE Watch
  <2>1. UNCHANGED <<blocks, indexed, indexCursor, ipc, loaded, range, fetched>>
          /\ watched \subseteq watched'
    BY <1>7 DEF Watch, chain, indexer
  <2>2. QED
    BY <2>1 DEF ChainTyped, CursorInv, RangeInv, LoadInv, FetchInv, CompleteUpTo, Events, Latest,
                ContractOf
<1>8. CASE ResetCursor
  <2>1. UNCHANGED <<blocks, watched, indexed, ipc, loaded, range, fetched>>
    BY <1>8 DEF ResetCursor, chain, indexer
  <2>2. indexCursor' \in Int /\ indexCursor' >= -1 /\ indexCursor' <= indexCursor
    BY <1>8 DEF ResetCursor, CursorInv
  <2>3. CompleteUpTo(indexCursor')
    <3>1. SUFFICES ASSUME NEW e \in Events, e[1] <= indexCursor', ContractOf(e) \in InitialWatch
                   PROVE  e \in indexed
      BY DEF CompleteUpTo
    <3>2. e[1] \in Nat BY EventBlock
    <3>3. e[1] <= indexCursor BY <2>2, <3>1, <3>2 DEF CursorInv
    <3>4. QED BY <3>1, <3>3 DEF CursorInv, CompleteUpTo
  <2>4. CursorInv'
    BY <1>0, <2>1, <2>2, <2>3 DEF CursorInv, CompleteUpTo, Events, Latest, ContractOf
  <2>5. ChainTyped' /\ RangeInv' /\ LoadInv' /\ FetchInv'
    BY <2>1 DEF ChainTyped, RangeInv, LoadInv, FetchInv, CompleteUpTo, Events, Latest, ContractOf
  <2>6. QED BY <2>4, <2>5
<1>9. CASE Aside
  BY <1>9, AsideUnchanged, AsideKeeps
<1>10. CASE UNCHANGED vars
  BY <1>10, AsideKeeps DEF vars, chain, tables, indexer
<1>11. QED
  BY <1>1, <1>2, <1>3, <1>4, <1>5, <1>6, <1>7, <1>8, <1>9, <1>10 DEF Next, Indexer, Aside

\* EventsAreComplete: when replicas trail the head by no more than the
\* indexer's CONFIRMATIONS, its cursor never passes an event of a contract that
\* was watched from the start, whatever fails and whatever the operator resets.
THEOREM EventsAreComplete == ReplicasKeepUp => (Spec => []EventsComplete)
<1>1. IndexInv => EventsComplete
  BY DEF IndexInv, CursorInv, CompleteUpTo, EventsComplete, IndexedUpTo
<1>2. SUFFICES ASSUME ReplicasKeepUp PROVE Spec => []EventsComplete
  OBVIOUS
<1>3. IndexInv /\ [Next]_vars => IndexInv'
  BY <1>2, IndexInvStep
<1>4. QED BY <1>1, <1>3, IndexInvInit, PTL DEF Spec

-----------------------------------------------------------------------------
(* Blob before row.                                                          *)

\* A worker about to write the row has stored the blob of its transaction.
BlobInv == signatures \subseteq blobs /\ (wpc \in {"row", "advance"} => tx \in blobs)

LEMMA BlobInvInit == Init => BlobInv
BY DEF Init, BlobInv

LEMMA BlobInvStep ==
  ASSUME BlobInv, [Next]_vars
  PROVE  BlobInv'
<1>1. CASE Mine \/ MineAnchor \/ Watch \/ ResetCursor \/ Indexer \/ UNCHANGED vars
  <2>1. UNCHANGED <<blobs, signatures, wpc, tx>>
    BY <1>1 DEF Mine, MineAnchor, Watch, ResetCursor, Indexer, LoadWatched, PlanRange, FetchLogs,
                CommitRange, IndexerThrows, IndexerCrash, vars, tables, worker
  <2>2. QED BY <2>1 DEF BlobInv
<1>2. CASE PutBlob
  BY <1>2 DEF PutBlob, WorkerGoes, BlobInv
<1>3. CASE InsertSignature
  BY <1>3 DEF InsertSignature, WorkerGoes, BlobInv
<1>4. CASE SubmitAnchor
  BY <1>4 DEF SubmitAnchor, WorkerGoes, BlobInv, tables
<1>5. CASE \/ ReconcileKey \/ ReconcileKeyReverts \/ PlanWindow \/ FetchEvents \/ AwaitReceipt
           \/ ReceiptReverts \/ AdvanceCursor \/ WorkerThrows \/ WorkerCrash
  <2>1. UNCHANGED <<blobs, signatures, tx>> /\ (wpc' \in {"row", "advance"} => wpc' = wpc)
    BY <1>5 DEF ReconcileKey, ReconcileKeyReverts, PlanWindow, FetchEvents, AwaitReceipt,
                ReceiptReverts, AdvanceCursor, WorkerThrows, WorkerCrash, WorkerGoes, EndCycle,
                tables
  <2>2. QED BY <2>1 DEF BlobInv
<1>6. QED BY <1>1, <1>2, <1>3, <1>4, <1>5 DEF Next, Worker

\* RowsHaveBlobs: whatever fails and wherever the worker stops, a row of
\* pq_anchor_signatures never names an object the bucket lacks.
THEOREM RowsHaveBlobs == Spec => []RowHasBlob
<1>1. BlobInv => RowHasBlob BY DEF BlobInv, RowHasBlob
<1>2. QED BY <1>1, BlobInvInit, BlobInvStep, PTL DEF Spec

-----------------------------------------------------------------------------
(* Type correctness.  The worker advances its cursor to the last block of    *)
(* its batch, which exists because a batch is never empty.                   *)

\* A set of numbers with a bound has a greatest member: of the sets of the numbers
\* above each member, one is smallest.
LEMMA Greatest ==
  ASSUME NEW S \in SUBSET Nat, NEW top \in Nat, S # {}, \A n \in S : n <= top
  PROVE  \E m \in S : \A n \in S : n <= m
<1>. DEFINE Above(m) == {k \in 0 .. top : k > m}
<1>. DEFINE T == {Above(m) : m \in S}
<1>1. T \subseteq FiniteSubsetsOf(0 .. top)
  <2>1. IsFiniteSet(0 .. top)
    BY FS_Interval
  <2>2. SUFFICES ASSUME NEW m \in S PROVE IsFiniteSet(Above(m)) /\ Above(m) \subseteq 0 .. top
    BY DEF FiniteSubsetsOf
  <2>. QED BY <2>1, FS_Subset
<1>2. PICK x \in T : \A y \in T : <<y, x>> \notin StrictSubsetOrdering(0 .. top)
  <2>1. T # {}
    OBVIOUS
  <2>. HIDE DEF T
  <2>. QED BY <1>1, <2>1, WFMin, FS_StrictSubsetOrderingWellFounded
<1>3. PICK m \in S : x = Above(m)
  BY <1>2
<1>4. ASSUME NEW n \in S, n > m
      PROVE  FALSE
  <2>1. Above(n) \subseteq Above(m) /\ n \in Above(m) /\ n \notin Above(n)
    BY <1>4
  <2>2. <<Above(n), x>> \in StrictSubsetOrdering(0 .. top)
    BY <1>3, <2>1 DEF StrictSubsetOrdering
  <2>. QED BY <1>2, <2>2
<1>. QED BY <1>4

HasBatch == wpc \in {"submit", "receipt", "put", "row", "advance"}
HasSent == wpc \in {"receipt", "put", "row", "advance"}
TypeInv == TypeOK /\ (HasBatch => batch # {}) /\ (HasSent => tx # 0)

LEMMA TypedChain ==
  ASSUME TypeOK
  PROVE  ChainTyped /\ Len(blocks) \in Nat /\ Latest \in Nat
BY DEF TypeOK, ChainTyped, Latest

\* The sets of events, without the rest of the type invariant.
LEMMA TypedEvents ==
  ASSUME TypeOK
  PROVE  indexed \subseteq Events /\ fetched \subseteq Events /\ batch \subseteq Events
BY DEF TypeOK

LEMMA SameChain ==
  ASSUME blocks' = blocks
  PROVE  /\ Events' = Events /\ Latest' = Latest /\ AnchorType' = AnchorType /\ Views' = Views
         /\ \A e \in Events : ContractOf(e)' = ContractOf(e)
BY DEF Events, Latest, AnchorType, ContractOf, Views

\* Mining a block adds events and takes none away.
LEMMA MineAddsEvents ==
  ASSUME TypeOK, Mine
  PROVE  Events \subseteq Events' /\ AnchorType \subseteq AnchorType'
<1>1. PICK b \in BlockContents : blocks' = Append(blocks, b) BY DEF Mine
<1>2. b \in Seq(Contracts) /\ blocks \in Seq(Seq(Contracts)) BY AnchorAssumption DEF TypeOK
<1>3. \A k \in 1 .. Len(blocks) : blocks'[k] = blocks[k]
  BY <1>1, <1>2
<1>4. Latest \in Nat /\ Latest = Len(blocks) - 1 /\ Latest' = Latest + 1
  BY TypedChain, MineKeepsEvents DEF Latest
<1>5. ASSUME NEW e \in Events PROVE e \in Events'
  <2>1. PICK n \in 0 .. Latest : e \in {n} \X DOMAIN blocks[n + 1]
    BY DEF Events
  <2>2. n + 1 \in 1 .. Len(blocks) BY <1>4
  <2>3. n \in 0 .. Latest' /\ e \in {n} \X DOMAIN blocks'[n + 1]
    BY <1>3, <1>4, <2>1, <2>2
  <2>. QED BY <2>3 DEF Events
<1>. QED BY <1>5 DEF AnchorType

\* The block the worker's cursor moves to: the last one of the batch.
LEMMA BatchEnds ==
  ASSUME TypeOK, batch # {}
  PROVE  /\ \E e \in batch : e[1] = BlockTo
         /\ \A e \in batch : e[1] <= BlockTo
         /\ BlockTo \in 0 .. Latest
<1>. DEFINE S == {e[1] : e \in batch}
<1>1. \A e \in batch : e[1] \in Nat /\ e[1] <= Latest
  BY TypedChain, EventBlock DEF TypeOK
<1>2. S \in SUBSET Nat /\ S # {} /\ \A n \in S : n <= Latest
  BY <1>1
<1>3. \E m \in S : \A n \in S : n <= m
  <2>. HIDE DEF S
  <2>. QED BY <1>2, TypedChain, Greatest
<1>4. \E m \in S : \A e \in batch : e[1] <= m
  BY <1>3
<1>5. BlockTo \in S /\ \A e \in batch : e[1] <= BlockTo
  BY <1>4 DEF BlockTo
<1>. QED BY <1>1, <1>5, TypedChain

LEMMA FaultCounted ==
  ASSUME TypeOK, NEW kind, Fault(kind)
  PROVE  faults' \in 0 .. MaxFaults /\ manual' = manual
BY AnchorAssumption DEF TypeOK, Fault

\* The chain and the operator keep the types,
LEMMA TypeChain ==
  ASSUME TypeInv, Mine \/ MineAnchor \/ Watch \/ ResetCursor
  PROVE  TypeInv'
<1>. USE AnchorAssumption DEF TypeInv, HasBatch, HasSent, chain, tables, indexer, worker, bounds
<1>1. CASE Mine
  <2>1. Latest' = Latest + 1 /\ Latest \in Nat /\ Events \subseteq Events' /\ AnchorType \subseteq AnchorType'
    BY <1>1, MineKeepsEvents, MineAddsEvents, TypedChain
  <2>2. blocks' \in Seq(Seq(Contracts)) /\ blocks' # <<>>
    <3>1. ChainTyped' BY <1>1, MineKeepsEvents, TypedChain
    <3>. QED BY <3>1 DEF ChainTyped
  <2>3. UNCHANGED <<anchors, chainKey, pending, tables, indexer, worker, bounds>>
    BY <1>1 DEF Mine
  <2>4. anchors' \subseteq AnchorType' /\ pending' \subseteq [tx : Nat, events : SUBSET Events']
    BY <2>1, <2>3 DEF TypeOK
  <2>5. indexed' \subseteq Events' /\ fetched' \subseteq Events' /\ batch' \subseteq Events'
    BY <2>1, <2>3 DEF TypeOK
  <2>6. /\ indexCursor' \in -1 .. Latest' /\ anchorCursor' \in -1 .. Latest'
        /\ range' \in (0 .. Latest') \X (0 .. Latest') /\ window' \in (-1 .. Latest') \X (0 .. Latest')
    BY <2>1, <2>3 DEF TypeOK
  <2>. QED BY <2>2, <2>3, <2>4, <2>5, <2>6 DEF TypeOK
<1>2. CASE MineAnchor
  <2>1. PICK p \in pending :
          /\ pending' = pending \ {p}
          /\ anchors' = anchors \cup {[tx |-> p.tx, events |-> p.events, key |-> chainKey]}
    BY <1>2 DEF MineAnchor
  <2>2. UNCHANGED <<blocks, chainKey, tables, indexer, worker, bounds>> BY <1>2 DEF MineAnchor
  <2>3. [tx |-> p.tx, events |-> p.events, key |-> chainKey] \in AnchorType
    BY DEF TypeOK, AnchorType
  <2>. QED BY <2>1, <2>2, <2>3, SameChain DEF TypeOK
<1>3. CASE Watch
  <2>1. manual' \in 0 .. MaxManual BY <1>3 DEF Watch, TypeOK
  <2>. QED BY <1>3, <2>1, SameChain DEF Watch, TypeOK
<1>4. CASE ResetCursor
  <2>1. manual' \in 0 .. MaxManual BY <1>4 DEF ResetCursor, TypeOK
  <2>2. indexCursor' \in -1 .. Latest BY <1>4, TypedChain DEF ResetCursor, TypeOK
  <2>. QED BY <1>4, <2>1, <2>2, SameChain DEF ResetCursor, TypeOK
<1>. QED BY <1>1, <1>2, <1>3, <1>4

\* the indexer does,
LEMMA TypeIndexer ==
  ASSUME TypeInv, Indexer
  PROVE  TypeInv'
<1>. USE DEF TypeInv, HasBatch, HasSent, chain, tables, indexer, worker, bounds
<1>0. blocks' = blocks /\ Latest \in Nat /\ 0 \in 0 .. Latest
  BY TypedChain DEF Indexer, LoadWatched, PlanRange, FetchLogs, CommitRange, IndexerThrows, IndexerCrash
<1>1. CASE LoadWatched
  BY <1>0, <1>1, SameChain DEF LoadWatched, IndexerGoes, TypeOK
<1>2. CASE PlanRange
  <2>1. ipc' \in {"tick", "logs"} /\ range' \in (0 .. Latest) \X (0 .. Latest)
    <3>1. PICK head \in Views :
             LET target == head - Confirmations
             IN IF target <= indexCursor THEN UNCHANGED <<ipc, range>>
                ELSE /\ ipc' = "logs"
                     /\ range' = <<indexCursor + 1, Smaller(indexCursor + BatchSize, target)>>
      BY <1>2 DEF PlanRange
    <3>2. head \in 0 .. Latest /\ Confirmations \in Nat /\ BatchSize \in Nat \ {0}
          /\ indexCursor \in -1 .. Latest
      BY AnchorAssumption DEF Views, TypeOK
    <3>. DEFINE target == head - Confirmations
    <3>3. target \in Int /\ target <= Latest BY <1>0, <3>2
    <3>. HIDE DEF target
    <3>4. CASE target <= indexCursor
      BY <1>2, <3>1, <3>4 DEF PlanRange, TypeOK, target
    <3>5. CASE ~(target <= indexCursor)
      <4>1. ipc' = "logs" /\ range' = <<indexCursor + 1, Smaller(indexCursor + BatchSize, target)>>
        BY <3>1, <3>5 DEF target
      <4>2. indexCursor + 1 \in 0 .. Latest /\ Smaller(indexCursor + BatchSize, target) \in 0 .. Latest
        BY <1>0, <3>2, <3>3, <3>5 DEF Smaller
      <4>. QED BY <4>1, <4>2
    <3>. QED BY <3>4, <3>5
  <2>. QED BY <1>0, <1>2, <2>1, SameChain DEF PlanRange, TypeOK
<1>3. CASE FetchLogs
  <2>1. fetched' \subseteq Events BY <1>3 DEF FetchLogs
  <2>. QED BY <1>0, <1>3, <2>1, SameChain DEF FetchLogs, IndexerGoes, TypeOK
<1>4. CASE CommitRange
  BY <1>0, <1>4, SameChain DEF CommitRange, EndTick, TypeOK
<1>5. CASE IndexerThrows
  <2>1. faults' \in 0 .. MaxFaults /\ manual' = manual
    BY <1>5, FaultCounted DEF IndexerThrows
  <2>. QED BY <1>0, <1>5, <2>1, SameChain DEF IndexerThrows, EndTick, TypeOK
<1>6. CASE IndexerCrash
  <2>1. faults' \in 0 .. MaxFaults /\ manual' = manual
    BY <1>6, FaultCounted DEF IndexerCrash
  <2>. QED BY <1>0, <1>6, <2>1, SameChain DEF IndexerCrash, TypeOK
<1>. QED BY <1>1, <1>2, <1>3, <1>4, <1>5, <1>6 DEF Indexer

\* A batch has at least one event.
LEMMA FetchedSome ==
  ASSUME FetchEvents, wpc' # "cycle"
  PROVE  /\ wpc = "fetch" /\ wpc' = "submit" /\ window' = window
         /\ batch' = FirstEvents({e \in indexed : window[1] < e[1] /\ e[1] <= window[2]})
         /\ batch' # {} /\ batch' \subseteq indexed
<1>. DEFINE found == FirstEvents({e \in indexed : window[1] < e[1] /\ e[1] <= window[2]})
<1>1. wpc = "fetch" /\ ~(Cardinality(found) < MinEvents) /\ wpc' = "submit" /\ batch' = found
      /\ window' = window
  BY DEF FetchEvents, EndCycle
<1>2. found # {}
  <2>. HIDE DEF found
  <2>1. Cardinality(found) # 0
    BY <1>1, AnchorAssumption
  <2>. QED BY <2>1, FS_EmptySet
<1>3. found \subseteq indexed
  BY DEF FirstEvents
<1>. QED BY <1>1, <1>2, <1>3

\* and the worker does.
LEMMA TypeWorker ==
  ASSUME TypeInv, Worker
  PROVE  TypeInv'
<1>. USE DEF TypeInv, HasBatch, HasSent, chain, tables, indexer, worker, bounds
<1>0. blocks' = blocks /\ Latest \in Nat /\ 0 \in 0 .. Latest /\ -1 \in -1 .. Latest
  BY TypedChain DEF Worker, ReconcileKey, ReconcileKeyReverts, PlanWindow, FetchEvents,
     SubmitAnchor, AwaitReceipt, ReceiptReverts, PutBlob, InsertSignature, AdvanceCursor,
     WorkerThrows, WorkerCrash
<1>1. CASE ReconcileKey
  BY <1>0, <1>1, SameChain DEF ReconcileKey, WorkerGoes, TypeOK
<1>2. CASE ReconcileKeyReverts
  <2>1. faults' \in 0 .. MaxFaults /\ manual' = manual
    BY <1>2, FaultCounted DEF ReconcileKeyReverts
  <2>. QED BY <1>0, <1>2, <2>1, SameChain DEF ReconcileKeyReverts, WorkerGoes, TypeOK
<1>3. CASE PlanWindow
  <2>1. wpc' \in {"cycle", "fetch"} /\ window' \in (-1 .. Latest) \X (0 .. Latest)
    <3>1. PICK head \in Views :
             IF head - 1 <= anchorCursor THEN UNCHANGED <<wpc, window>>
             ELSE wpc' = "fetch" /\ window' = <<anchorCursor, head - 1>>
      BY <1>3 DEF PlanWindow
    <3>2. head \in 0 .. Latest /\ anchorCursor \in -1 .. Latest
      BY DEF Views, TypeOK
    <3>. QED BY <1>0, <1>3, <3>1, <3>2 DEF PlanWindow, TypeOK
  <2>. QED BY <1>0, <1>3, <2>1, SameChain DEF PlanWindow, TypeOK
<1>4. CASE FetchEvents
  <2>1. CASE wpc' = "cycle"
    <3>1. UNCHANGED <<chain, tables, indexer, tx, bounds>> /\ window' = <<-1, 0>> /\ batch' = {}
      BY <1>4, <2>1 DEF FetchEvents, EndCycle, ForgetCycle
    <3>. QED BY <1>0, <2>1, <3>1, SameChain DEF TypeOK
  <2>2. CASE wpc' # "cycle"
    <3>1. UNCHANGED <<chain, tables, indexer, tx, bounds>>
      BY <1>4 DEF FetchEvents
    <3>. QED BY <1>0, <1>4, <2>2, <3>1, FetchedSome, SameChain DEF TypeOK
  <2>. QED BY <2>1, <2>2
<1>5. CASE SubmitAnchor
  <2>1. UNCHANGED <<blocks, anchors, chainKey, tables, indexer, window, batch, bounds>>
        /\ wpc = "submit" /\ wpc' = "receipt" /\ tx' = tx + 1 /\ tx \in Nat
        /\ pending' = pending \cup {[tx |-> tx + 1, events |-> batch]}
    BY <1>5 DEF SubmitAnchor, WorkerGoes, TypeOK
  <2>2. pending' \subseteq [tx : Nat, events : SUBSET Events]
    BY <2>1 DEF TypeOK
  <2>3. blobs' \subseteq 1 .. tx' /\ signatures' \subseteq 1 .. tx' /\ tx' \in Nat
    BY <2>1 DEF TypeOK
  <2>. QED BY <2>1, <2>2, <2>3, SameChain DEF TypeOK
<1>6. CASE AwaitReceipt
  BY <1>0, <1>6, SameChain DEF AwaitReceipt, WorkerGoes, TypeOK
<1>7. CASE ReceiptReverts
  <2>1. faults' \in 0 .. MaxFaults /\ manual' = manual
    BY <1>7, FaultCounted DEF ReceiptReverts
  <2>. QED BY <1>0, <1>7, <2>1, SameChain DEF ReceiptReverts, WorkerGoes, TypeOK
<1>8. CASE PutBlob
  BY <1>0, <1>8, SameChain DEF PutBlob, WorkerGoes, TypeOK
<1>9. CASE InsertSignature
  BY <1>0, <1>9, SameChain DEF InsertSignature, WorkerGoes, TypeOK
<1>10. CASE AdvanceCursor
  <2>1. anchorCursor' \in -1 .. Latest
    BY <1>0, <1>10, BatchEnds DEF AdvanceCursor
  <2>. QED BY <1>0, <1>10, <2>1, SameChain DEF AdvanceCursor, EndCycle, ForgetCycle, TypeOK
<1>11. CASE WorkerThrows
  <2>1. faults' \in 0 .. MaxFaults /\ manual' = manual
    BY <1>11, FaultCounted DEF WorkerThrows
  <2>. QED BY <1>0, <1>11, <2>1, SameChain DEF WorkerThrows, EndCycle, ForgetCycle, TypeOK
<1>12. CASE WorkerCrash
  <2>1. faults' \in 0 .. MaxFaults /\ manual' = manual
    BY <1>12, FaultCounted DEF WorkerCrash
  <2>. QED BY <1>0, <1>12, <2>1, SameChain DEF WorkerCrash, ForgetCycle, TypeOK
<1>. QED
  BY <1>1, <1>2, <1>3, <1>4, <1>5, <1>6, <1>7, <1>8, <1>9, <1>10, <1>11, <1>12 DEF Worker

LEMMA TypeInit == Init => TypeInv
<1> SUFFICES ASSUME Init PROVE TypeInv OBVIOUS
<1>1. blocks = << <<>> >> BY DEF Init
<1>2. Latest = 0 /\ blocks \in Seq(Seq(Contracts)) /\ blocks # <<>>
  BY <1>1 DEF Latest
<1>. QED BY <1>2, AnchorAssumption DEF Init, TypeInv, TypeOK, HasBatch, HasSent

LEMMA TypeStep ==
  ASSUME TypeInv, [Next]_vars
  PROVE  TypeInv'
<1>1. CASE UNCHANGED vars
  BY <1>1, SameChain DEF TypeInv, TypeOK, HasBatch, HasSent, vars, chain, tables, indexer, worker, bounds
<1>. QED BY <1>1, TypeChain, TypeIndexer, TypeWorker DEF Next

\* TypeCorrect: cursors stay on the chain, rows name events that exist, blobs and
\* signatures name transactions that were sent, whatever fails and whatever the
\* operator resets.
THEOREM TypeCorrect == Spec => []TypeOK
<1>1. TypeInv => TypeOK BY DEF TypeInv
<1>. QED BY <1>1, TypeInit, TypeStep, PTL DEF Spec

-----------------------------------------------------------------------------
(***************************************************************************)
(* The worker's cursor.  Whatever is indexed is indexed with all that      *)
(* comes before it, so a batch read up to some block is all there will     *)
(* ever be up to there, as long as the LIMIT of the query falls between    *)
(* blocks; and a transaction number names one batch, so the signature row  *)
(* of the worker's transaction names the anchor of its batch.              *)
(***************************************************************************)

\* The worker's query, and the condition on ANCHOR_MAX_EVENTS: the LIMIT takes
\* whole blocks.
Query == {e \in indexed : window[1] < e[1] /\ e[1] <= window[2]}
WholeBlocks ==
  wpc = "fetch" => \A e \in FirstEvents(Query), f \in Query : f[1] = e[1] => f \in FirstEvents(Query)

RowInv ==
  /\ \A e \in indexed : CompleteUpTo(e[1])
  /\ ipc = "commit" => \A e \in fetched : e[1] <= range[2]
WindowInv == wpc = "fetch" \/ HasBatch => window[1] = anchorCursor
BatchInv == HasBatch =>
  /\ batch \subseteq indexed
  /\ \A e \in batch, f \in indexed :
       window[1] < f[1] /\ f[1] <= e[1] /\ ContractOf(f) \in InitialWatch => f \in batch
TxInv ==
  /\ \A p \in pending \cup anchors : p.tx <= tx
  /\ \A p, q \in pending : p.tx = q.tx => p = q
  /\ \A p \in pending, a \in anchors : p.tx # a.tx
SentInv ==
  /\ HasSent => \A p \in pending \cup anchors : p.tx = tx => p.events = batch
  /\ wpc \in {"put", "row", "advance"} => \A p \in pending : p.tx # tx
  /\ \A p \in pending : p.tx \notin signatures
  /\ wpc = "advance" => tx \in signatures /\ tx \in blobs
CoverInv == CompleteUpTo(anchorCursor) /\ CursorCovered

CoverageInv == RowInv /\ WindowInv /\ BatchInv /\ TxInv /\ SentInv /\ CoverInv

\* A block is mined or the chain stays; rows are only added, by a commit.
LEMMA IndexGrows ==
  ASSUME [Next]_vars
  PROVE  /\ blocks' = blocks \/ Mine
         /\ indexed' = indexed \/ CommitRange
         /\ indexed \subseteq indexed'
BY DEF Next, vars, chain, tables, Mine, MineAnchor, Watch, ResetCursor, Indexer, LoadWatched,
       PlanRange, FetchLogs, CommitRange, IndexerThrows, IndexerCrash, Worker, ReconcileKey,
       ReconcileKeyReverts, PlanWindow, FetchEvents, SubmitAnchor, AwaitReceipt, ReceiptReverts,
       PutBlob, InsertSignature, AdvanceCursor, WorkerThrows, WorkerCrash

LEMMA StaysComplete ==
  ASSUME TypeOK, [Next]_vars, NEW n \in Int, n <= Latest, CompleteUpTo(n)
  PROVE  \A e \in Events' : e[1] <= n /\ ContractOf(e)' \in InitialWatch => e \in indexed'
<1>1. CASE blocks' = blocks
  BY <1>1, IndexGrows, CompleteGrows
<1>2. CASE Mine
  <2>1. indexed' = indexed BY <1>2 DEF Mine, tables
  <2>. QED BY <1>2, <2>1, TypedChain, CompleteMines
<1>. QED BY <1>1, <1>2, IndexGrows

\* An event keeps its contract.
LEMMA SameContract ==
  ASSUME TypeOK, [Next]_vars, NEW e \in Events
  PROVE  e \in Events' /\ ContractOf(e)' = ContractOf(e) /\ e[1] \in Nat /\ e[1] <= Latest
<1>0. e[1] \in Nat /\ e[1] <= Latest BY TypedChain, EventBlock
<1>1. CASE blocks' = blocks
  BY <1>0, <1>1, SameChain
<1>2. CASE Mine
  BY <1>0, <1>2, TypedChain, MineAddsEvents, MineKeepsEvents
<1>. QED BY <1>1, <1>2, IndexGrows

LEMMA RowStep ==
  ASSUME TypeOK, IndexInv, IndexInv', RowInv, [Next]_vars
  PROVE  RowInv'
<1>1. ASSUME NEW e \in indexed', e \in indexed
      PROVE  CompleteUpTo(e[1])'
  <2>1. e[1] \in Int /\ e[1] <= Latest /\ CompleteUpTo(e[1])
    BY <1>1, TypedEvents, SameContract DEF RowInv
  <2>. QED BY <2>1, StaysComplete DEF CompleteUpTo
<1>2. ASSUME NEW e \in indexed', e \notin indexed
      PROVE  CompleteUpTo(e[1])'
  <2>1. CommitRange BY <1>2, IndexGrows
  <2>2. blocks' = blocks /\ indexed' = indexed \cup fetched /\ indexCursor' = range[2] /\ ipc = "commit"
    BY <2>1 DEF CommitRange, chain
  <2>3. e \in fetched /\ e[1] <= range[2]
    BY <1>2, <2>2 DEF RowInv
  <2>4. e[1] \in Nat BY <2>3, TypedEvents, SameContract
  <2>5. \A f \in Events' : f[1] <= range[2] /\ ContractOf(f)' \in InitialWatch => f \in indexed'
    BY <2>2 DEF IndexInv, CursorInv, CompleteUpTo
  <2>6. range[2] \in Int /\ \A f \in Events' : f[1] \in Nat
    BY <2>2, SameChain, TypedChain, EventBlock DEF TypeOK
  <2>7. \A f \in Events' : f[1] <= e[1] => f[1] <= range[2]
    BY <2>3, <2>4, <2>6
  <2>. QED BY <2>5, <2>7 DEF CompleteUpTo
<1>3. ASSUME ipc' = "commit"
      PROVE  \A e \in fetched' : e[1] <= range'[2]
  <2>1. CASE FetchLogs
    <3>1. range' = range /\ \A e \in fetched' : e[1] \in range[1] .. range[2]
      BY <2>1 DEF FetchLogs
    <3>. QED BY <3>1 DEF TypeOK
  <2>2. CASE ipc = "commit" /\ UNCHANGED <<fetched, range>>
    BY <2>2 DEF RowInv
  <2>. QED
    BY <1>3, <2>1, <2>2
       DEF Next, vars, indexer, Mine, MineAnchor, Watch, ResetCursor, Indexer, IndexerGoes, EndTick,
           LoadWatched, PlanRange, CommitRange, IndexerThrows, IndexerCrash, Worker, ReconcileKey,
           ReconcileKeyReverts, PlanWindow, FetchEvents, SubmitAnchor, AwaitReceipt, ReceiptReverts,
           PutBlob, InsertSignature, AdvanceCursor, WorkerThrows, WorkerCrash
<1>. QED BY <1>1, <1>2, <1>3 DEF RowInv

\* Only the worker, from the same place of its cycle, moves its locals.
LEMMA WorkerSteps ==
  ASSUME [Next]_vars
  PROVE  \/ PlanWindow \/ FetchEvents \/ SubmitAnchor \/ AdvanceCursor
         \/ /\ wpc' \in {"down", "cycle"}
            /\ UNCHANGED <<pending, anchors, tx, signatures, blobs, anchorCursor>>
         \/ /\ UNCHANGED <<wpc, window, batch, tx, signatures, blobs, anchorCursor>>
            /\ MineAnchor \/ UNCHANGED <<pending, anchors>>
         \/ /\ UNCHANGED <<window, batch, tx, anchors, anchorCursor>>
            /\ AwaitReceipt \/ ReceiptReverts \/ PutBlob \/ InsertSignature
BY DEF Next, vars, chain, tables, worker, Mine, MineAnchor, Watch, ResetCursor, Indexer, LoadWatched,
       PlanRange, FetchLogs, CommitRange, IndexerThrows, IndexerCrash, Worker, ReconcileKey,
       ReconcileKeyReverts, WorkerGoes, EndCycle,
       AwaitReceipt, ReceiptReverts, PutBlob, InsertSignature, WorkerThrows, WorkerCrash

LEMMA WindowStep ==
  ASSUME WindowInv, [Next]_vars
  PROVE  WindowInv'
BY WorkerSteps
   DEF WindowInv, HasBatch, PlanWindow, FetchEvents, EndCycle, SubmitAnchor, AdvanceCursor,
       AwaitReceipt, ReceiptReverts, PutBlob, InsertSignature, WorkerGoes, tables

\* The chain has finitely many events, so the LIMIT of the query is on a number.
LEMMA EventsFinite ==
  ASSUME TypeOK
  PROVE  IsFiniteSet(Events)
<1>. DEFINE OfBlock == [n \in 0 .. Latest |-> {n} \X DOMAIN blocks[n + 1]]
<1>. DEFINE S == {{n} \X DOMAIN blocks[n + 1] : n \in 0 .. Latest}
<1>1. IsFiniteSet(0 .. Latest)
  BY TypedChain, FS_Interval
<1>2. OfBlock \in Surjection(0 .. Latest, S)
  BY DEF Surjection
<1>3. IsFiniteSet(S)
  <2>. HIDE DEF OfBlock, S
  <2>. QED BY <1>1, <1>2, FS_Surjection
<1>4. ASSUME NEW n \in 0 .. Latest PROVE IsFiniteSet({n} \X DOMAIN blocks[n + 1])
  <2>1. n + 1 \in 1 .. Len(blocks)
    BY TypedChain DEF Latest
  <2>2. blocks[n + 1] \in Seq(Contracts)
    BY <2>1 DEF TypeOK
  <2>3. DOMAIN blocks[n + 1] = 1 .. Len(blocks[n + 1]) /\ Len(blocks[n + 1]) \in Nat
    BY <2>2
  <2>4. IsFiniteSet(1 .. Len(blocks[n + 1]))
    BY <2>3, FS_Interval
  <2>5. IsFiniteSet(DOMAIN blocks[n + 1])
    BY <2>3, <2>4, Zenon
  <2>6. IsFiniteSet({n})
    BY FS_Singleton, Zenon
  <2>. QED BY <2>5, <2>6, FS_Product
<1>5. \A T \in S : IsFiniteSet(T)
  BY <1>4
<1>6. IsFiniteSet(UNION S)
  <2>. HIDE DEF S
  <2>. QED BY <1>3, <1>5, FS_UNION
<1>. QED BY <1>6 DEF Events

\* With an event, the query returns every matching event of the blocks before it.
LEMMA EarlierReturned ==
  ASSUME TypeOK, NEW e \in FirstEvents(Query), NEW f \in Query, f[1] < e[1]
  PROVE  f \in FirstEvents(Query)
<1>. DEFINE Upto(g) == {h \in Query : Before(h, g)}
<1>1. Query \subseteq Events /\ \A h \in Query : h[1] \in Nat
  BY TypedChain, EventBlock DEF Query, TypeOK
<1>2. e \in Query /\ Cardinality(Upto(e)) < MaxEvents
  BY DEF FirstEvents
<1>3. Upto(f) \subseteq Upto(e)
  BY <1>1, <1>2 DEF Before
<1>4. IsFiniteSet(Upto(e))
  <2>1. Upto(e) \subseteq Events BY <1>1
  <2>. QED BY <2>1, EventsFinite, FS_Subset
<1>5. Cardinality(Upto(f)) <= Cardinality(Upto(e)) /\ Cardinality(Upto(f)) \in Nat
      /\ Cardinality(Upto(e)) \in Nat
  <2>. HIDE DEF Upto
  <2>1. IsFiniteSet(Upto(f)) /\ Cardinality(Upto(f)) <= Cardinality(Upto(e))
    BY <1>3, <1>4, FS_Subset
  <2>. QED BY <1>4, <2>1, FS_CardinalityType
<1>6. Cardinality(Upto(f)) < MaxEvents
  BY <1>2, <1>5, AnchorAssumption
<1>. QED BY <1>6 DEF FirstEvents

\* A batch keeps all that can ever be indexed up to its last block.
LEMMA BatchStep ==
  ASSUME TypeOK, WholeBlocks, RowInv, BatchInv, [Next]_vars
  PROVE  BatchInv'
<1>1. SUFFICES ASSUME HasBatch'
               PROVE  /\ batch' \subseteq indexed'
                      /\ \A e \in batch', f \in indexed' :
                           window'[1] < f[1] /\ f[1] <= e[1] /\ ContractOf(f)' \in InitialWatch
                             => f \in batch'
  BY DEF BatchInv
<1>2. CASE FetchEvents
  <2>1. wpc' # "cycle" BY <1>1 DEF HasBatch
  <2>2. /\ wpc = "fetch" /\ window' = window /\ batch' = FirstEvents(Query) /\ batch' \subseteq indexed
        /\ indexed' = indexed /\ blocks' = blocks
    BY <1>2, <2>1, FetchedSome DEF Query, FetchEvents, chain, tables
  <2>3. ASSUME NEW e \in batch', NEW f \in indexed, window[1] < f[1], f[1] <= e[1]
        PROVE  f \in batch'
    <3>1. e \in Query /\ e[1] <= window[2]
      BY <2>2, <2>3 DEF FirstEvents, Query
    <3>2. f[1] \in Nat /\ e[1] \in Nat /\ window[2] \in Nat
      <4>1. f \in Events /\ e \in Events BY <2>2, <2>3, TypedEvents
      <4>2. window[2] \in Nat BY TypedChain DEF TypeOK
      <4>. QED BY <4>1, <4>2, TypedChain, EventBlock
    <3>3. f \in Query
      BY <2>3, <3>1, <3>2 DEF Query
    <3>. QED BY <2>2, <2>3, <3>2, <3>3, EarlierReturned DEF WholeBlocks
  <2>. QED BY <2>2, <2>3
<1>3. CASE HasBatch /\ UNCHANGED <<window, batch>>
  <2>1. batch \subseteq indexed' BY <1>3, IndexGrows DEF BatchInv
  <2>2. ASSUME NEW e \in batch, NEW f \in indexed', window[1] < f[1], f[1] <= e[1],
               ContractOf(f)' \in InitialWatch
        PROVE  f \in batch
    <3>1. e \in indexed /\ e \in Events /\ e[1] \in Int /\ e[1] <= Latest
      <4>1. e \in indexed BY <1>3, <2>2 DEF BatchInv
      <4>. QED BY <4>1, TypedEvents, SameContract
    <3>2. CompleteUpTo(e[1]) BY <3>1 DEF RowInv
    <3>3. f \in indexed
      <4>1. CASE indexed' = indexed BY <4>1
      <4>2. CASE CommitRange
        <5>1. blocks' = blocks /\ indexed' = indexed \cup fetched BY <4>2 DEF CommitRange, chain
        <5>2. f \in Events /\ ContractOf(f) \in InitialWatch
          BY <2>2, <5>1, SameChain DEF TypeOK
        <5>. QED BY <2>2, <3>2, <5>2 DEF CompleteUpTo
      <4>. QED BY <4>1, <4>2, IndexGrows
    <3>4. ContractOf(f)' = ContractOf(f) BY <3>3, TypedEvents, SameContract
    <3>. QED BY <1>3, <2>2, <3>3, <3>4 DEF BatchInv
  <2>. QED BY <1>3, <2>1, <2>2
<1>. QED
  BY <1>1, <1>2, <1>3, WorkerSteps
     DEF HasBatch, PlanWindow, SubmitAnchor, AdvanceCursor, EndCycle, WorkerGoes,
         AwaitReceipt, ReceiptReverts, PutBlob, InsertSignature

\* Transaction numbers: one batch each, pooled or mined.
LEMMA TxStep ==
  ASSUME TypeOK, TxInv, [Next]_vars
  PROVE  TxInv'
<1>0. tx \in Nat /\ (\A p \in pending : p.tx \in Nat) /\ (\A a \in anchors : a.tx \in Nat)
  BY DEF TypeOK, AnchorType
<1>1. CASE SubmitAnchor
  <2>1. /\ pending' = pending \cup {[tx |-> tx + 1, events |-> batch]} /\ tx' = tx + 1
        /\ anchors' = anchors
    BY <1>1 DEF SubmitAnchor
  <2>. QED BY <1>0, <2>1 DEF TxInv
<1>2. CASE MineAnchor
  <2>1. PICK p \in pending :
          /\ pending' = pending \ {p}
          /\ anchors' = anchors \cup {[tx |-> p.tx, events |-> p.events, key |-> chainKey]}
    BY <1>2 DEF MineAnchor
  <2>2. tx' = tx BY <1>2 DEF MineAnchor, worker
  <2>. QED BY <2>1, <2>2 DEF TxInv
<1>3. CASE ReceiptReverts
  BY <1>3 DEF ReceiptReverts, TxInv
<1>4. CASE UNCHANGED <<pending, anchors, tx>>
  BY <1>4 DEF TxInv
<1>. QED
  BY <1>1, <1>2, <1>3, <1>4, WorkerSteps
     DEF PlanWindow, FetchEvents, AdvanceCursor, AwaitReceipt, PutBlob, InsertSignature, MineAnchor,
         chain, worker

\* The worker's transaction carries its batch, and a stored signature's
\* transaction is out of the pool.
LEMMA SentStep ==
  ASSUME TypeOK, TxInv, SentInv, BlobInv, [Next]_vars
  PROVE  SentInv'
<1>0. tx \in Nat /\ signatures \subseteq 1 .. tx /\ (\A p \in pending : p.tx \in Nat)
  BY DEF TypeOK
<1>1. CASE SubmitAnchor
  <2>1. /\ pending' = pending \cup {[tx |-> tx + 1, events |-> batch]} /\ tx' = tx + 1
        /\ UNCHANGED <<anchors, signatures, blobs, batch>> /\ wpc' = "receipt"
    BY <1>1 DEF SubmitAnchor, tables, WorkerGoes
  <2>2. \A p \in pending \cup anchors : p.tx # tx + 1
    BY <1>0 DEF TxInv, TypeOK, AnchorType
  <2>. QED BY <1>0, <2>1, <2>2 DEF SentInv, HasSent
<1>2. CASE MineAnchor
  <2>1. PICK p \in pending :
          /\ pending' = pending \ {p}
          /\ anchors' = anchors \cup {[tx |-> p.tx, events |-> p.events, key |-> chainKey]}
    BY <1>2 DEF MineAnchor
  <2>2. UNCHANGED <<wpc, tx, batch, signatures, blobs>> BY <1>2 DEF MineAnchor, tables, worker
  <2>. QED BY <2>1, <2>2 DEF SentInv, HasSent
<1>3. CASE AwaitReceipt
  <2>1. /\ wpc = "receipt" /\ wpc' = "put" /\ UNCHANGED <<pending, anchors, signatures, blobs, tx, batch>>
        /\ \E a \in anchors : a.tx = tx
    BY <1>3 DEF AwaitReceipt, WorkerGoes, chain, tables
  <2>2. \A p \in pending : p.tx # tx BY <2>1 DEF TxInv
  <2>. QED BY <2>1, <2>2 DEF SentInv, HasSent
<1>4. CASE ReceiptReverts
  <2>1. PICK p \in pending : p.tx = tx /\ pending' = pending \ {p}
    BY <1>4 DEF ReceiptReverts
  <2>2. /\ wpc = "receipt" /\ wpc' = "put" /\ UNCHANGED <<anchors, signatures, blobs, tx, batch>>
    BY <1>4 DEF ReceiptReverts, WorkerGoes, tables
  <2>3. \A q \in pending' : q.tx # tx BY <2>1 DEF TxInv
  <2>. QED BY <2>1, <2>2, <2>3 DEF SentInv, HasSent
<1>5. CASE PutBlob
  BY <1>5 DEF PutBlob, WorkerGoes, chain, SentInv, HasSent
<1>6. CASE InsertSignature
  <2>1. /\ wpc = "row" /\ wpc' = "advance" /\ UNCHANGED <<pending, anchors, blobs, tx, batch>>
        /\ signatures' = signatures \cup {tx} /\ tx \in blobs
    BY <1>6 DEF InsertSignature, WorkerGoes, chain, BlobInv
  <2>. QED BY <2>1 DEF SentInv, HasSent
<1>7. CASE UNCHANGED <<pending, anchors, tx, signatures>> /\ wpc' \in {"down", "cycle", "fetch", "submit"}
  BY <1>7 DEF SentInv, HasSent
<1>8. CASE UNCHANGED <<pending, anchors, tx, signatures, blobs, batch, wpc>>
  BY <1>8 DEF SentInv, HasSent
<1>. QED
  BY <1>1, <1>2, <1>3, <1>4, <1>5, <1>6, <1>7, <1>8, WorkerSteps
     DEF PlanWindow, FetchEvents, EndCycle, AdvanceCursor, chain, tables

\* What is covered stays covered; a step does not make every row recorded that
\* was not.
LEMMA CoveredStays ==
  ASSUME SentInv, [Next]_vars
  PROVE  /\ RowsRecorded' => RowsRecorded
         /\ \A e : Covered(e) => Covered(e)'
<1>1. anchors \subseteq anchors' /\ blobs \subseteq blobs' /\ signatures \subseteq signatures'
  BY WorkerSteps
     DEF PlanWindow, FetchEvents, SubmitAnchor, AdvanceCursor, MineAnchor, AwaitReceipt,
         ReceiptReverts, PutBlob, InsertSignature, chain, tables
<1>2. CASE MineAnchor
  <2>1. signatures' = signatures /\ \A a \in anchors' : a \in anchors \/ a.tx \notin signatures
    BY <1>2 DEF MineAnchor, tables, SentInv
  <2>. QED BY <1>1, <2>1 DEF RowsRecorded, Covered
<1>3. CASE anchors' = anchors
  BY <1>1, <1>3 DEF RowsRecorded, Covered
<1>. QED
  BY <1>2, <1>3, WorkerSteps
     DEF PlanWindow, FetchEvents, SubmitAnchor, AdvanceCursor, AwaitReceipt, ReceiptReverts,
         PutBlob, InsertSignature, chain

\* The cursor stays, or moves to the end of a batch that was anchored.
LEMMA CoverStep ==
  ASSUME TypeInv, CoverageInv, [Next]_vars
  PROVE  CoverInv'
<1>. USE DEF CoverageInv, TypeInv
<1>1. CASE anchorCursor' = anchorCursor
  <2>1. CompleteUpTo(anchorCursor)'
    <3>1. anchorCursor \in Int /\ anchorCursor <= Latest /\ CompleteUpTo(anchorCursor)
      BY TypedChain DEF TypeOK, CoverInv
    <3>. QED BY <1>1, <3>1, StaysComplete DEF CompleteUpTo
  <2>2. ASSUME RowsRecorded', NEW e \in indexed', e[1] <= anchorCursor, ContractOf(e)' \in InitialWatch
        PROVE  Covered(e)'
    <3>1. e \in indexed
      <4>1. CASE indexed' = indexed BY <4>1
      <4>2. CASE CommitRange
        <5>1. blocks' = blocks /\ indexed' = indexed \cup fetched BY <4>2 DEF CommitRange, chain
        <5>2. e \in Events /\ ContractOf(e) \in InitialWatch BY <2>2, <5>1, SameChain DEF TypeOK
        <5>. QED BY <2>2, <5>2 DEF CoverInv, CompleteUpTo
      <4>. QED BY <4>1, <4>2, IndexGrows
    <3>2. ContractOf(e) \in InitialWatch BY <2>2, <3>1, SameContract DEF TypeOK
    <3>. QED BY <2>2, <3>1, <3>2, CoveredStays DEF CoverInv, CursorCovered
  <2>. QED BY <1>1, <2>1, <2>2 DEF CoverInv, CursorCovered
<1>2. CASE AdvanceCursor
  <2>1. /\ wpc = "advance" /\ anchorCursor' = BlockTo
        /\ UNCHANGED <<blocks, indexed, anchors, signatures, blobs>>
    BY <1>2 DEF AdvanceCursor, chain
  <2>2. batch # {} /\ batch \subseteq indexed /\ window[1] = anchorCursor
    BY <2>1 DEF HasBatch, BatchInv, WindowInv
  <2>3. PICK b \in batch : b[1] = BlockTo BY <2>2, BatchEnds
  <2>4. CompleteUpTo(BlockTo) BY <2>2, <2>3 DEF RowInv
  <2>5. CompleteUpTo(anchorCursor)'
    BY <2>1, <2>4, SameChain DEF CompleteUpTo
  <2>6. ASSUME RowsRecorded, NEW e \in indexed, e[1] <= BlockTo, ContractOf(e) \in InitialWatch
        PROVE  Covered(e)
    <3>1. CASE e[1] <= anchorCursor
      BY <2>6, <3>1 DEF CoverInv, CursorCovered
    <3>2. CASE ~(e[1] <= anchorCursor)
      <4>1. e[1] \in Int /\ anchorCursor \in Int
        BY TypedChain, EventBlock DEF TypeOK
      <4>2. e \in batch
        BY <2>1, <2>2, <2>3, <2>6, <3>2, <4>1 DEF BatchInv, HasBatch
      <4>3. PICK a \in anchors : a.tx = tx
        BY <2>1, <2>6 DEF SentInv, RowsRecorded
      <4>4. a.events = batch BY <2>1, <4>3 DEF SentInv, HasSent
      <4>. QED BY <2>1, <4>2, <4>3, <4>4 DEF Covered, SentInv
    <3>. QED BY <3>1, <3>2
  <2>7. CursorCovered'
    <3>1. RowsRecorded' = RowsRecorded /\ \A e : Covered(e)' = Covered(e)
      BY <2>1 DEF RowsRecorded, Covered
    <3>2. \A e \in indexed : ContractOf(e)' = ContractOf(e)
      BY <2>1, SameChain DEF TypeOK
    <3>. QED BY <2>1, <2>6, <3>1, <3>2 DEF CursorCovered
  <2>. QED BY <2>5, <2>7 DEF CoverInv
<1>. QED
  BY <1>1, <1>2, WorkerSteps DEF PlanWindow, FetchEvents, SubmitAnchor, tables

LEMMA CoverageInit == Init => CoverageInv
<1> SUFFICES ASSUME Init PROVE CoverageInv OBVIOUS
<1>1. TypeOK /\ anchorCursor = -1 BY TypeInit DEF TypeInv, Init
<1>2. \A e \in Events : e[1] \in Nat BY <1>1, TypedChain, EventBlock
<1>3. CompleteUpTo(anchorCursor) BY <1>1, <1>2 DEF CompleteUpTo
<1>. QED
  BY <1>3 DEF Init, CoverageInv, RowInv, WindowInv, HasBatch, BatchInv, TxInv, SentInv, HasSent,
              CoverInv, CursorCovered

\* CursorIsCovered: while no recordAnchor reverted and ANCHOR_MAX_EVENTS never
\* falls inside a block, every indexed event up to the worker's cursor is under a
\* recorded anchor with its signature and blob stored, whatever is lost between
\* the transaction, the bucket and the tables.
THEOREM CursorIsCovered == ReplicasKeepUp => (Spec /\ []WholeBlocks => []CursorCovered)
<1>1. SUFFICES ASSUME ReplicasKeepUp PROVE Spec /\ []WholeBlocks => []CursorCovered
  OBVIOUS
<1>. DEFINE Inv == TypeInv /\ IndexInv /\ BlobInv /\ CoverageInv
<1>2. Init => Inv
  BY TypeInit, IndexInvInit, BlobInvInit, CoverageInit
<1>3. Inv /\ WholeBlocks /\ [Next]_vars => Inv'
  <2>1. SUFFICES ASSUME Inv, WholeBlocks, [Next]_vars PROVE Inv'
    OBVIOUS
  <2>2. TypeInv' /\ IndexInv' /\ BlobInv' BY <1>1, <2>1, TypeStep, IndexInvStep, BlobInvStep
  <2>3. RowInv' BY <2>1, <2>2, RowStep DEF TypeInv, CoverageInv
  <2>4. WindowInv' BY <2>1, WindowStep DEF CoverageInv
  <2>5. BatchInv' BY <2>1, BatchStep DEF TypeInv, CoverageInv
  <2>6. TxInv' /\ SentInv' BY <2>1, TxStep, SentStep DEF TypeInv, CoverageInv
  <2>7. CoverInv' BY <2>1, CoverStep
  <2>. QED BY <2>2, <2>3, <2>4, <2>5, <2>6, <2>7 DEF CoverageInv
<1>4. Inv => CursorCovered
  BY DEF CoverageInv, CoverInv
<1>. QED BY <1>2, <1>3, <1>4, PTL DEF Spec
=============================================================================
