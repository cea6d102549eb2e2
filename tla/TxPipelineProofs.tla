-------------------------- MODULE TxPipelineProofs --------------------------
(***************************************************************************)
(* Proofs about TxPipeline, for every set of requests, every bound and     *)
(* every combination of faults.                                            *)
(***************************************************************************)
EXTENDS TxPipeline, TLAPS

USE DEF rows, wallet, signer, redis, broadcaster, chain, bounds

LEMMA PendingNonceIsNat ==
  ASSUME TypeOK, NEW n \in PendingNonces
  PROVE  n \in Nat
<1>1. n \in Len(mined) .. (Len(mined) + Cardinality(PooledNonces))
  BY DEF PendingNonces
<1>2. Len(mined) \in Nat
  BY DEF TypeOK, ChainTyped
<1>. QED
  BY <1>1, <1>2

\* Appending a request, or delivering a batch, keeps the stream's shape.
LEMMA AppendTyped ==
  ASSUME StreamTyped, NEW t \in Txs, stream' = Append(stream, t),
         lastDelivered' = lastDelivered, unacked' = unacked
  PROVE  StreamTyped'
<1>1. stream' \in Seq(Txs) /\ Len(stream') = Len(stream) + 1
  BY DEF StreamTyped
<1>. QED
  BY <1>1 DEF StreamTyped

LEMMA DeliverTyped ==
  ASSUME StreamTyped, Deliver, stream' = stream
  PROVE  StreamTyped' /\ lastDelivered + 1 <= lastDelivered' /\ lastDelivered' \in Nat
<1>1. Len(stream) \in Nat /\ lastDelivered \in Nat /\ BatchSize \in Nat \ {0}
  BY PipelineAssumption DEF StreamTyped
<1>2. lastDelivered' \in (lastDelivered + 1) .. Len(stream)
  BY <1>1 DEF Deliver, Smaller
<1>3. unacked' \subseteq 1 .. lastDelivered'
  <2>1. unacked' = unacked \cup ((lastDelivered + 1) .. lastDelivered')
    BY DEF Deliver
  <2>2. unacked \subseteq 1 .. lastDelivered
    BY DEF StreamTyped
  <2>. QED
    BY <1>1, <1>2, <2>1, <2>2
<1>. QED
  BY <1>1, <1>2, <1>3 DEF StreamTyped

\* The signer's steps keep the types: they touch their row, the wallet's
\* last_reserved, and the end of the stream.
LEMMA TypeSigner ==
  ASSUME TypeOK, NEW t \in Txs, Signer(t) \/ SignerFault(t)
  PROVE  TypeOK'
<1>. USE PipelineAssumption DEF TypeOK, Status, HandlerPC
<1>1. CASE InsertDraft(t)
  BY <1>1 DEF InsertDraft, RowsTyped, WalletTyped, SignerTyped, StreamTyped, BroadcasterTyped,
              CurrentTyped, ChainTyped, BoundsTyped
<1>2. CASE ReadChainNonce(t)
  <2>1. PICK n \in PendingNonces : chainNonce' = [chainNonce EXCEPT ![t] = n]
    BY <1>2 DEF ReadChainNonce
  <2>2. n \in Nat
    BY <2>1, PendingNonceIsNat
  <2>. QED
    BY <1>2, <2>1, <2>2 DEF ReadChainNonce, RowsTyped, WalletTyped, SignerTyped, StreamTyped,
       BroadcasterTyped, CurrentTyped, ChainTyped, BoundsTyped
<1>3. CASE ReserveNonce(t)
  <2>1. NextNonce(t) \in Nat
    BY DEF NextNonce, Larger, WalletTyped, SignerTyped
  <2>. QED
    BY <1>3, <2>1 DEF ReserveNonce, RowsTyped, WalletTyped, SignerTyped, StreamTyped,
       BroadcasterTyped, CurrentTyped, ChainTyped, BoundsTyped
<1>4. CASE SignFails(t)
  <2>1. RowsTyped' /\ SignerTyped'
    BY <1>4 DEF SignFails, RowsTyped, SignerTyped
  <2>2. BoundsTyped'
    BY <1>4 DEF SignFails, Fault, BoundsTyped
  <2>. QED
    BY <1>4, <2>1, <2>2 DEF SignFails, WalletTyped, StreamTyped, BroadcasterTyped, CurrentTyped,
       ChainTyped
<1>5. CASE RecordQueued(t)
  BY <1>5 DEF RecordQueued, RowsTyped, WalletTyped, SignerTyped, StreamTyped, BroadcasterTyped,
              CurrentTyped, ChainTyped, BoundsTyped
<1>6. CASE Enqueue(t)
  <2>1. StreamTyped'
    BY <1>6, AppendTyped DEF Enqueue
  <2>2. CurrentTyped'
    BY <1>6 DEF Enqueue, CurrentTyped
  <2>3. SignerTyped'
    BY <1>6 DEF Enqueue, SignerTyped
  <2>. QED
    BY <1>6, <2>1, <2>2, <2>3 DEF Enqueue, RowsTyped, WalletTyped,
       BroadcasterTyped, ChainTyped, BoundsTyped
<1>7. CASE RequestDies(t)
  <2>1. SignerTyped'
    BY <1>7 DEF RequestDies, SignerTyped
  <2>2. BoundsTyped'
    BY <1>7 DEF RequestDies, Fault, BoundsTyped
  <2>. QED
    BY <1>7, <2>1, <2>2 DEF RequestDies, RowsTyped, WalletTyped, StreamTyped, BroadcasterTyped,
       CurrentTyped, ChainTyped
<1>. QED
  BY <1>1, <1>2, <1>3, <1>4, <1>5, <1>6, <1>7 DEF Signer, SignerFault

\* A fault is counted only below its bound.
LEMMA FaultTyped ==
  ASSUME BoundsTyped, NEW kind, Fault(kind), foreigns' = foreigns
  PROVE  BoundsTyped'
BY PipelineAssumption DEF BoundsTyped, Fault

\* While processTx runs, the message in work is a request of the stream.
LEMMA CurrentTx ==
  ASSUME TypeOK, pc \notin {"down", "recover", "recoverNonce", "idle"}
  PROVE  tx \in Txs /\ current \in 1 .. Len(stream)
BY DEF TypeOK, CurrentTyped, StreamTyped, tx

\* Startup and recovery keep the types.
LEMMA TypeRecovery ==
  ASSUME TypeOK, Recovery
  PROVE  TypeOK'
<1>. USE DEF TypeOK, BroadcasterPC, Status, Settled, Goto
<1>1. CASE Start
  BY <1>1 DEF Start, RowsTyped, WalletTyped, SignerTyped, StreamTyped,
       BroadcasterTyped, CurrentTyped, ChainTyped, BoundsTyped
<1>2. CASE RecoverDone
  BY <1>2 DEF RecoverDone, RowsTyped, WalletTyped, SignerTyped, StreamTyped,
       BroadcasterTyped, CurrentTyped, ChainTyped, BoundsTyped
<1>3. ASSUME NEW t \in Txs, RecoverStatus(t) PROVE TypeOK'
  BY <1>3 DEF RecoverStatus, Outcome, RowsTyped, WalletTyped, SignerTyped, StreamTyped,
       BroadcasterTyped, CurrentTyped, ChainTyped, BoundsTyped
<1>4. ASSUME NEW t \in Txs, RecoverNonce(t) PROVE TypeOK'
  BY <1>4 DEF RecoverNonce, Larger, RowsTyped, WalletTyped, SignerTyped, StreamTyped,
       BroadcasterTyped, CurrentTyped, ChainTyped, BoundsTyped
<1>5. ASSUME NEW t \in Txs, RecoverLeave(t) PROVE TypeOK'
  BY <1>5 DEF RecoverLeave, RowsTyped, WalletTyped, SignerTyped, StreamTyped,
       BroadcasterTyped, CurrentTyped, ChainTyped, BoundsTyped
<1>. QED
  BY <1>1, <1>2, <1>3, <1>4, <1>5 DEF Recovery

\* The consumer loop and processTx keep the types.
LEMMA TypeConsume ==
  ASSUME TypeOK, Consume
  PROVE  TypeOK'
<1>. USE CurrentTx DEF TypeOK, BroadcasterPC, Status, Settled, Goto
<1>1. CASE ReadGroup
  <2>1. StreamTyped'
    BY <1>1, DeliverTyped DEF ReadGroup
  <2>2. CurrentTyped'
    BY <1>1, DeliverTyped DEF ReadGroup, CurrentTyped, StreamTyped
  <2>. QED
    BY <1>1, <2>1, <2>2 DEF ReadGroup, RowsTyped, WalletTyped, SignerTyped,
       BroadcasterTyped, ChainTyped, BoundsTyped
<1>2. CASE FetchRow
  BY <1>2 DEF FetchRow, RowsTyped, WalletTyped, SignerTyped, StreamTyped,
       BroadcasterTyped, CurrentTyped, ChainTyped, BoundsTyped
<1>3. CASE SendAccepted
  BY <1>3 DEF SendAccepted, RowsTyped, WalletTyped, SignerTyped, StreamTyped,
       BroadcasterTyped, CurrentTyped, ChainTyped, BoundsTyped
<1>4. CASE SendRejected
  BY <1>4 DEF SendRejected, RowsTyped, WalletTyped, SignerTyped, StreamTyped,
       BroadcasterTyped, CurrentTyped, ChainTyped, BoundsTyped
<1>5. CASE MarkBroadcasted
  BY <1>5 DEF MarkBroadcasted, RowsTyped, WalletTyped, SignerTyped, StreamTyped,
       BroadcasterTyped, CurrentTyped, ChainTyped, BoundsTyped
<1>6. CASE LogAttempt
  <2>1. RowsTyped'
    BY <1>6 DEF LogAttempt, RowsTyped
  <2>2. CurrentTyped'
    BY <1>6 DEF LogAttempt, CurrentTyped
  <2>. QED
    BY <1>6, <2>1, <2>2 DEF LogAttempt, WalletTyped, SignerTyped, StreamTyped,
       BroadcasterTyped, ChainTyped, BoundsTyped
<1>7. CASE GiveUp
  BY <1>7 DEF GiveUp, RowsTyped, WalletTyped, SignerTyped, StreamTyped,
       BroadcasterTyped, CurrentTyped, ChainTyped, BoundsTyped
<1>8. CASE ScheduleRetry
  <2>1. RowsTyped'
    BY <1>8 DEF ScheduleRetry, RowsTyped
  <2>2. CurrentTyped'
    BY <1>8 DEF ScheduleRetry, CurrentTyped
  <2>. QED
    BY <1>8, <2>1, <2>2 DEF ScheduleRetry, WalletTyped, SignerTyped, StreamTyped,
       BroadcasterTyped, ChainTyped, BoundsTyped
<1>9. CASE SettleFromReceipt
  BY <1>9 DEF SettleFromReceipt, Outcome, RowsTyped, WalletTyped, SignerTyped, StreamTyped,
       BroadcasterTyped, CurrentTyped, ChainTyped, BoundsTyped
<1>10. CASE ConfirmNonce
  BY <1>10 DEF ConfirmNonce, Larger, RowsTyped, WalletTyped, SignerTyped, StreamTyped,
       BroadcasterTyped, CurrentTyped, ChainTyped, BoundsTyped
<1>11. CASE ReceiptTimeout
  BY <1>11 DEF ReceiptTimeout, RowsTyped, WalletTyped, SignerTyped, StreamTyped,
       BroadcasterTyped, CurrentTyped, ChainTyped, BoundsTyped
<1>12. CASE Ack
  <2>1. StreamTyped'
    BY <1>12 DEF Ack, StreamTyped
  <2>2. CurrentTyped'
    BY <1>12 DEF Ack, CurrentTyped, StreamTyped
  <2>. QED
    BY <1>12, <2>1, <2>2 DEF Ack, RowsTyped, WalletTyped, SignerTyped,
       BroadcasterTyped, ChainTyped, BoundsTyped
<1>. QED
  BY <1>1, <1>2, <1>3, <1>4, <1>5, <1>6, <1>7, <1>8, <1>9, <1>10, <1>11, <1>12 DEF Consume

\* So do the faults of the broadcaster,
LEMMA TypeBroadcasterFault ==
  ASSUME TypeOK, BroadcasterFault
  PROVE  TypeOK'
<1>. USE FaultTyped, CurrentTx DEF TypeOK, BroadcasterPC, Goto
<1>1. CASE ReadGroupFails
  <2>1. StreamTyped'
    BY <1>1, DeliverTyped DEF ReadGroupFails
  <2>2. CurrentTyped'
    BY <1>1, DeliverTyped DEF ReadGroupFails, Deliver, CurrentTyped, StreamTyped
  <2>. QED
    BY <1>1, <2>1, <2>2 DEF ReadGroupFails, RowsTyped, WalletTyped, SignerTyped,
       BroadcasterTyped, ChainTyped, BoundsTyped
<1>2. CASE SendFails
  BY <1>2 DEF SendFails, RowsTyped, WalletTyped, SignerTyped, StreamTyped,
       BroadcasterTyped, CurrentTyped, ChainTyped, BoundsTyped
<1>3. CASE TryThrows
  BY <1>3 DEF TryThrows, RowsTyped, WalletTyped, SignerTyped, StreamTyped,
       BroadcasterTyped, CurrentTyped, ChainTyped, BoundsTyped
<1>4. CASE ConfirmNonceFails
  BY <1>4 DEF ConfirmNonceFails, RowsTyped, WalletTyped, SignerTyped, StreamTyped,
       BroadcasterTyped, CurrentTyped, ChainTyped, BoundsTyped
<1>5. CASE ProcessThrows
  BY <1>5 DEF ProcessThrows, RowsTyped, WalletTyped, SignerTyped, StreamTyped,
       BroadcasterTyped, CurrentTyped, ChainTyped, BoundsTyped
<1>6. CASE AckFails
  <2>1. CurrentTyped'
    BY <1>6 DEF AckFails, CurrentTyped, StreamTyped
  <2>. QED
    BY <1>6, <2>1 DEF AckFails, RowsTyped, WalletTyped, SignerTyped, StreamTyped,
       BroadcasterTyped, ChainTyped, BoundsTyped
<1>7. CASE Crash
  <2>1. CurrentTyped'
    BY <1>7 DEF Crash, CurrentTyped, StreamTyped
  <2>. QED
    BY <1>7, <2>1 DEF Crash, RowsTyped, WalletTyped, SignerTyped, StreamTyped,
       BroadcasterTyped, ChainTyped, BoundsTyped
<1>8. ASSUME NEW t \in Txs, RecoverMisses(t) PROVE TypeOK'
  BY <1>8 DEF RecoverMisses, RowsTyped, WalletTyped, SignerTyped, StreamTyped,
       BroadcasterTyped, CurrentTyped, ChainTyped, BoundsTyped
<1>9. ASSUME NEW t \in Txs, ReEnqueueFails(t) PROVE TypeOK'
  BY <1>9 DEF ReEnqueueFails, RowsTyped, WalletTyped, SignerTyped, StreamTyped,
       BroadcasterTyped, CurrentTyped, ChainTyped, BoundsTyped
<1>. QED
  BY <1>1, <1>2, <1>3, <1>4, <1>5, <1>6, <1>7, <1>8, <1>9 DEF BroadcasterFault

\* the retry timers, and the chain.
LEMMA TypeReEnqueue ==
  ASSUME TypeOK, NEW t \in Txs, ReEnqueue(t)
  PROVE  TypeOK'
<1>. USE DEF TypeOK, ReEnqueue
<1>1. StreamTyped'
  BY AppendTyped
<1>2. CurrentTyped'
  BY DEF CurrentTyped
<1>. QED
  BY <1>1, <1>2 DEF RowsTyped, WalletTyped, SignerTyped, BroadcasterTyped, ChainTyped, BoundsTyped

LEMMA TypeChain ==
  ASSUME TypeOK, Chain
  PROVE  TypeOK'
<1>. USE PipelineAssumption, FaultTyped, PendingNonceIsNat DEF TypeOK
<1>1. CASE ForeignTx
  <2>1. ChainTyped'
    BY <1>1 DEF ForeignTx, ChainTyped
  <2>2. BoundsTyped'
    BY <1>1 DEF ForeignTx, BoundsTyped
  <2>. QED
    BY <1>1, <2>1, <2>2 DEF ForeignTx, RowsTyped, WalletTyped, SignerTyped, StreamTyped,
       BroadcasterTyped, CurrentTyped
<1>2. CASE MineForeign
  <2>1. mined' \in Seq(Txs \cup {Foreign})
    BY <1>2 DEF MineForeign, ChainTyped
  <2>2. foreignPool' \subseteq Nat /\ pool' \subseteq Txs /\ reverted' \subseteq Txs
    BY <1>2 DEF MineForeign, ChainTyped
  <2>3. ChainTyped'
    BY <2>1, <2>2 DEF ChainTyped
  <2>. QED
    BY <1>2, <2>3 DEF MineForeign, RowsTyped, WalletTyped, SignerTyped, StreamTyped,
       BroadcasterTyped, CurrentTyped, BoundsTyped
<1>3. ASSUME NEW t \in Txs, Mine(t) PROVE TypeOK'
  <2>1. ChainTyped'
    BY <1>3 DEF Mine, ChainTyped
  <2>. QED
    BY <1>3, <2>1 DEF Mine, RowsTyped, WalletTyped, SignerTyped, StreamTyped,
       BroadcasterTyped, CurrentTyped, BoundsTyped
<1>4. ASSUME NEW t \in Txs, Evict(t) PROVE TypeOK'
  BY <1>4 DEF Evict, RowsTyped, WalletTyped, SignerTyped, StreamTyped,
       BroadcasterTyped, CurrentTyped, ChainTyped, BoundsTyped
<1>. QED
  BY <1>1, <1>2, <1>3, <1>4 DEF Chain

LEMMA TypeStep ==
  ASSUME TypeOK, [Next]_vars
  PROVE  TypeOK'
<1>1. CASE UNCHANGED vars
  BY <1>1 DEF vars, TypeOK, RowsTyped, WalletTyped, SignerTyped, StreamTyped, BroadcasterTyped,
              CurrentTyped, ChainTyped, BoundsTyped
<1>2. CASE Next
  BY <1>2, TypeSigner, TypeRecovery, TypeConsume, TypeBroadcasterFault, TypeReEnqueue, TypeChain
     DEF Next
<1>. QED
  BY <1>1, <1>2

LEMMA TypeInit == Init => TypeOK
BY PipelineAssumption
   DEF Init, TypeOK, RowsTyped, WalletTyped, SignerTyped, StreamTyped, BroadcasterTyped,
       CurrentTyped, ChainTyped, BoundsTyped, Status, None, HandlerPC, BroadcasterPC

\* Every reachable state of the pipeline is well typed: queue positions stay
\* inside the stream while messages are delivered, dropped and re-enqueued.
THEOREM TypeCorrect == Spec => []TypeOK
BY TypeInit, TypeStep, PTL DEF Spec

-----------------------------------------------------------------------------
(***************************************************************************)
(* Nonces.  A request has no nonce before it reserves one, and no nonce is *)
(* above last_reserved; so a reservation, being above last_reserved,       *)
(* differs from every nonce already given.                                 *)
(***************************************************************************)
NonceInv ==
  /\ \A t \in Txs : handler[t] \in {"new", "draft", "read"} => nonce[t] = -1
  /\ \A t \in Txs : nonce[t] <= lastReserved
  /\ NoncesUnique

\* Only the reservation of a request writes nonces and last_reserved.
LEMMA NonceFrame ==
  ASSUME Recovery \/ Consume \/ BroadcasterFault \/ Chain \/ \E t \in Txs : ReEnqueue(t)
  PROVE  UNCHANGED <<handler, nonce, lastReserved>>
BY DEF Recovery, Start, RecoverDone, RecoverStatus, RecoverNonce, RecoverLeave, Consume, ReadGroup,
       FetchRow, SendAccepted, SendRejected, MarkBroadcasted, LogAttempt, GiveUp, ScheduleRetry,
       SettleFromReceipt, ConfirmNonce, ReceiptTimeout, Ack, BroadcasterFault, ReadGroupFails,
       SendFails, TryThrows, ConfirmNonceFails, ProcessThrows, AckFails, Crash, RecoverMisses,
       ReEnqueueFails, Chain, ForeignTx, MineForeign, Mine, Evict, ReEnqueue

LEMMA NonceStep ==
  ASSUME TypeOK, NonceInv, [Next]_vars
  PROVE  NonceInv'
<1>1. ASSUME NEW t \in Txs, ReserveNonce(t)
      PROVE  NonceInv'
  <2>1. NextNonce(t) \in Nat /\ NextNonce(t) > lastReserved
    BY DEF NextNonce, Larger, TypeOK, WalletTyped, SignerTyped
  <2>2. /\ nonce' = [nonce EXCEPT ![t] = NextNonce(t)]
        /\ lastReserved' = NextNonce(t)
        /\ handler' = [handler EXCEPT ![t] = "reserved"]
    BY <1>1 DEF ReserveNonce
  <2>3. \A u \in Txs : nonce[u] < NextNonce(t)
    BY <2>1 DEF NonceInv, TypeOK, RowsTyped, WalletTyped
  <2>. QED
    BY <2>1, <2>2, <2>3 DEF NonceInv, NoncesUnique, TypeOK, RowsTyped, WalletTyped, SignerTyped
<1>2. ASSUME NEW t \in Txs, InsertDraft(t) \/ ReadChainNonce(t) \/ RecordQueued(t) \/ Enqueue(t)
      PROVE  NonceInv'
  BY <1>2 DEF InsertDraft, ReadChainNonce, RecordQueued, Enqueue, NonceInv, NoncesUnique,
              TypeOK, SignerTyped
<1>3. ASSUME NEW t \in Txs, SignerFault(t)
      PROVE  NonceInv'
  BY <1>3 DEF SignerFault, SignFails, RequestDies, NonceInv, NoncesUnique, TypeOK, SignerTyped
<1>4. CASE UNCHANGED <<handler, nonce, lastReserved>>
  BY <1>4 DEF NonceInv, NoncesUnique
<1>. QED
  BY <1>1, <1>2, <1>3, <1>4, NonceFrame DEF Next, Signer, vars

LEMMA NonceInit == Init => NonceInv
BY DEF Init, NonceInv, NoncesUnique

\* No two requests are ever given the same nonce, whatever they read from the
\* chain and however their handlers interleave (reserveNonce).
THEOREM NonceUniqueness == Spec => []NoncesUnique
<1>1. Spec => []NonceInv
  BY TypeInit, TypeStep, NonceInit, NonceStep, PTL DEF Spec
<1>2. NonceInv => NoncesUnique
  BY DEF NonceInv
<1>. QED
  BY <1>1, <1>2, PTL

-----------------------------------------------------------------------------
(***************************************************************************)
(* Rows and chain.  Pooled transactions sit at distinct nonces the chain   *)
(* has not used yet, mined ones at their own nonce; a settled row was      *)
(* written from a receipt, and a receipt never changes.                    *)
(***************************************************************************)
ChainInv ==
  /\ \A t \in pool : nonce[t] >= Len(mined) /\ nonce[t] \notin foreignPool
  /\ \A n \in foreignPool : n >= Len(mined)
  /\ \A i \in DOMAIN mined : mined[i] \in Txs => nonce[mined[i]] = i - 1

LEMMA PendingNonceFree ==
  ASSUME TypeOK, NEW n \in PendingNonces
  PROVE  n >= Len(mined) /\ \A t \in pool : nonce[t] # n
<1>1. n \in Len(mined) .. (Len(mined) + Cardinality(PooledNonces)) /\ n \notin PooledNonces
  BY DEF PendingNonces
<1>2. Len(mined) \in Nat
  BY DEF TypeOK, ChainTyped
<1>. QED
  BY <1>1, <1>2 DEF PooledNonces

\* Sending adds a transaction to the pool only where the pool accepts it.
LEMMA ChainSend ==
  ASSUME TypeOK, NonceInv, ChainInv, SendAccepted \/ SendFails
  PROVE  ChainInv'
<1>1. tx \in Txs
  BY CurrentTx DEF SendAccepted, SendFails
<1>2. UNCHANGED <<nonce, foreignPool, mined>>
  BY DEF SendAccepted, SendFails
<1>3. pool' = pool \/ (Accepts(tx) /\ pool' = pool \cup {tx})
  BY DEF SendAccepted, SendFails
<1>. QED
  BY <1>1, <1>2, <1>3 DEF ChainInv, Accepts, PooledNonces

LEMMA ChainStepChain ==
  ASSUME TypeOK, NonceInv, ChainInv, Chain
  PROVE  ChainInv'
<1>. USE DEF TypeOK, ChainTyped
<1>1. CASE ForeignTx
  <2>1. PICK n \in PendingNonces : foreignPool' = foreignPool \cup {n}
    BY <1>1 DEF ForeignTx
  <2>. QED
    BY <1>1, <2>1, PendingNonceFree DEF ForeignTx, ChainInv
<1>2. CASE MineForeign
  <2>1. /\ mined' = Append(mined, Foreign) /\ foreignPool' = foreignPool \ {Len(mined)}
        /\ UNCHANGED <<nonce, pool>> /\ Len(mined) \in foreignPool
    BY <1>2 DEF MineForeign
  <2>2. Len(mined') = Len(mined) + 1 /\ \A i \in DOMAIN mined' : i \in DOMAIN mined \/ i = Len(mined) + 1
    BY <2>1
  <2>3. mined'[Len(mined) + 1] = Foreign /\ \A i \in DOMAIN mined : mined'[i] = mined[i]
    BY <2>1
  <2>4. \A t \in pool : nonce[t] \in Int /\ nonce[t] # Len(mined)
    BY <2>1 DEF ChainInv, RowsTyped
  <2>5. \A n \in foreignPool : n \in Nat
    OBVIOUS
  <2>6. (\A t \in pool : nonce[t] >= Len(mined) /\ nonce[t] \notin foreignPool)'
    BY <2>1, <2>2, <2>4 DEF ChainInv
  <2>7. (\A n \in foreignPool : n >= Len(mined))'
    BY <2>1, <2>2, <2>5 DEF ChainInv
  <2>8. (\A i \in DOMAIN mined : mined[i] \in Txs => nonce[mined[i]] = i - 1)'
    BY <2>1, <2>2, <2>3, PipelineAssumption DEF ChainInv
  <2>. QED
    BY <2>6, <2>7, <2>8 DEF ChainInv
<1>3. ASSUME NEW t \in Txs, Mine(t)
      PROVE  ChainInv'
  <2>1. /\ mined' = Append(mined, t) /\ pool' = pool \ {t} /\ t \in pool
        /\ UNCHANGED <<nonce, foreignPool>> /\ nonce[t] = Len(mined)
    BY <1>3 DEF Mine
  <2>2. Len(mined') = Len(mined) + 1 /\ \A i \in DOMAIN mined' : i \in DOMAIN mined \/ i = Len(mined) + 1
    BY <2>1
  <2>3. mined'[Len(mined) + 1] = t /\ \A i \in DOMAIN mined : mined'[i] = mined[i]
    BY <2>1
  <2>4. \A u \in pool' : nonce[u] \in Int /\ nonce[u] # Len(mined)
    BY <2>1 DEF NonceInv, NoncesUnique, RowsTyped
  <2>5. \A n \in foreignPool : n \in Nat /\ n # Len(mined)
    BY <2>1 DEF ChainInv
  <2>6. (\A u \in pool : nonce[u] >= Len(mined) /\ nonce[u] \notin foreignPool)'
    BY <2>1, <2>2, <2>4 DEF ChainInv
  <2>7. (\A n \in foreignPool : n >= Len(mined))'
    BY <2>1, <2>2, <2>5 DEF ChainInv
  <2>8. (\A i \in DOMAIN mined : mined[i] \in Txs => nonce[mined[i]] = i - 1)'
    BY <2>1, <2>2, <2>3 DEF ChainInv
  <2>. QED
    BY <2>6, <2>7, <2>8 DEF ChainInv
<1>4. ASSUME NEW t \in Txs, Evict(t)
      PROVE  ChainInv'
  BY <1>4 DEF Evict, ChainInv
<1>. QED
  BY <1>1, <1>2, <1>3, <1>4 DEF Chain

\* A reservation changes the nonce of a request that is neither pooled nor
\* mined: it had none.
LEMMA ChainReserve ==
  ASSUME TypeOK, NonceInv, ChainInv, NEW t \in Txs, ReserveNonce(t)
  PROVE  ChainInv' /\ ~HasReceipt(t)
<1>1. nonce[t] = -1 /\ UNCHANGED <<pool, foreignPool, mined>>
  BY DEF ReserveNonce, NonceInv
<1>2. Len(mined) \in Nat /\ DOMAIN mined = 1 .. Len(mined)
  BY DEF TypeOK, ChainTyped
<1>3. t \notin pool /\ \A i \in DOMAIN mined : mined[i] # t
  BY <1>1, <1>2 DEF ChainInv
<1>4. \A u \in Txs : u # t => nonce'[u] = nonce[u]
  BY DEF ReserveNonce, TypeOK, RowsTyped
<1>. QED
  BY <1>1, <1>3, <1>4 DEF ChainInv, HasReceipt, TypeOK, ChainTyped

\* Every other step leaves nonces, pool and chain alone.
LEMMA ChainFrame ==
  ASSUME [Next]_vars, ~Chain, ~SendAccepted, ~SendFails, \A t \in Txs : ~ReserveNonce(t)
  PROVE  UNCHANGED <<nonce, pool, foreignPool, mined, reverted>>
BY DEF Next, vars, Signer, SignerFault, InsertDraft, ReadChainNonce, RecordQueued, Enqueue, SignFails,
       RequestDies, Recovery, Start, RecoverDone, RecoverStatus, RecoverNonce, RecoverLeave, Consume,
       ReadGroup, FetchRow, SendRejected, MarkBroadcasted, LogAttempt, GiveUp, ScheduleRetry,
       SettleFromReceipt, ConfirmNonce, ReceiptTimeout, Ack, BroadcasterFault, ReadGroupFails,
       TryThrows, ConfirmNonceFails, ProcessThrows, AckFails, Crash, RecoverMisses,
       ReEnqueueFails, ReEnqueue

LEMMA ChainStep ==
  ASSUME TypeOK, NonceInv, ChainInv, [Next]_vars
  PROVE  ChainInv'
<1>1. CASE UNCHANGED <<nonce, pool, foreignPool, mined, reverted>>
  BY <1>1 DEF ChainInv
<1>. QED
  BY <1>1, ChainFrame, ChainSend, ChainStepChain, ChainReserve

SettledInv ==
  \A t \in Txs : status[t] \in Settled => HasReceipt(t) /\ status[t] = Outcome(t)

\* The chain forgets no receipt and changes none.
LEMMA ReceiptKept ==
  ASSUME TypeOK, NonceInv, ChainInv, [Next]_vars, NEW u \in Txs, HasReceipt(u)
  PROVE  HasReceipt(u)' /\ Outcome(u)' = Outcome(u)
<1>. USE DEF TypeOK, ChainTyped
<1>1. PICK i \in DOMAIN mined : mined[i] = u
  BY DEF HasReceipt
<1>2. CASE UNCHANGED <<mined, reverted>>
  BY <1>1, <1>2 DEF HasReceipt, Outcome
<1>3. CASE MineForeign
  <2>1. mined' = Append(mined, Foreign) /\ reverted' = reverted
    BY <1>3 DEF MineForeign
  <2>2. i \in DOMAIN mined' /\ mined'[i] = u
    BY <1>1, <2>1
  <2>. QED
    BY <2>1, <2>2 DEF HasReceipt, Outcome
<1>4. ASSUME NEW t \in Txs, Mine(t)
      PROVE  HasReceipt(u)' /\ Outcome(u)' = Outcome(u)
  <2>1. mined' = Append(mined, t) /\ nonce[t] = Len(mined) /\ reverted' \in {reverted, reverted \cup {t}}
    BY <1>4 DEF Mine
  <2>2. i \in DOMAIN mined' /\ mined'[i] = u
    BY <1>1, <2>1
  <2>3. u # t
    BY <1>1, <2>1 DEF ChainInv
  <2>. QED
    BY <2>1, <2>2, <2>3 DEF HasReceipt, Outcome
<1>5. CASE SendAccepted \/ SendFails \/ ForeignTx \/ (\E t \in Txs : Evict(t)) \/ (\E t \in Txs : ReserveNonce(t))
  BY <1>2, <1>5 DEF SendAccepted, SendFails, ForeignTx, Evict, ReserveNonce
<1>. QED
  BY <1>2, <1>3, <1>4, <1>5, ChainFrame DEF Chain

\* A row becomes CONFIRMED or REVERTED only from a receipt at hand.
LEMMA SettledWrite ==
  ASSUME TypeOK, [Next]_vars, NEW u \in Txs
  PROVE  \/ status'[u] = status[u]
         \/ status'[u] \notin Settled
         \/ HasReceipt(u) /\ status'[u] = Outcome(u)
<1>. USE DEF TypeOK, RowsTyped, Settled
<1>1. ASSUME NEW t \in Txs, InsertDraft(t) \/ SignFails(t) \/ RecordQueued(t)
      PROVE  status'[u] = status[u] \/ status'[u] \notin Settled
  BY <1>1 DEF InsertDraft, SignFails, RecordQueued
<1>2. CASE MarkBroadcasted \/ GiveUp \/ ScheduleRetry \/ ReceiptTimeout
  BY <1>2, CurrentTx DEF MarkBroadcasted, GiveUp, ScheduleRetry, ReceiptTimeout
<1>3. CASE SettleFromReceipt
  BY <1>3, CurrentTx DEF SettleFromReceipt
<1>4. ASSUME NEW t \in Txs, RecoverStatus(t)
      PROVE  status'[u] = status[u] \/ (HasReceipt(u) /\ status'[u] = Outcome(u))
  BY <1>4 DEF RecoverStatus
<1>5. CASE status' = status
  BY <1>5
<1>. QED
  BY <1>1, <1>2, <1>3, <1>4, <1>5
     DEF Next, vars, Signer, SignerFault, ReadChainNonce, ReserveNonce, Enqueue, RequestDies,
         Recovery, Start, RecoverDone, RecoverNonce, RecoverLeave, Consume, ReadGroup, FetchRow,
         SendAccepted, SendRejected, LogAttempt, ConfirmNonce, Ack, BroadcasterFault,
         ReadGroupFails, SendFails, TryThrows, ConfirmNonceFails, ProcessThrows, AckFails, Crash,
         RecoverMisses, ReEnqueueFails, ReEnqueue, Chain, ForeignTx, MineForeign, Mine, Evict

LEMMA SettledStep ==
  ASSUME TypeOK, NonceInv, ChainInv, SettledInv, [Next]_vars
  PROVE  SettledInv'
<1>1. SUFFICES ASSUME NEW u \in Txs, status'[u] \in Settled
               PROVE  HasReceipt(u)' /\ status'[u] = Outcome(u)'
  BY DEF SettledInv
<1>2. HasReceipt(u) /\ status'[u] = Outcome(u)
  BY <1>1, SettledWrite DEF SettledInv
<1>. QED
  BY <1>2, ReceiptKept

LEMMA ChainInit == Init => ChainInv /\ SettledInv
BY DEF Init, ChainInv, SettledInv, Settled, None

LEMMA ReceiptAtNonce ==
  ASSUME TypeOK, ChainInv, NEW t \in Txs, HasReceipt(t)
  PROVE  nonce[t] + 1 \in DOMAIN mined /\ mined[nonce[t] + 1] = t
BY DEF HasReceipt, ChainInv, TypeOK, ChainTyped, RowsTyped

IInv == TypeOK /\ NonceInv /\ ChainInv /\ SettledInv

LEMMA Inductive == Spec => []IInv
<1>1. Init => IInv
  BY TypeInit, NonceInit, ChainInit DEF IInv
<1>2. IInv /\ [Next]_vars => IInv'
  BY TypeStep, NonceStep, ChainStep, SettledStep DEF IInv
<1>. QED
  BY <1>1, <1>2, PTL DEF Spec

\* A row says CONFIRMED or REVERTED only of a transaction the chain holds at
\* that nonce with that receipt: through crashes, recoveries, failing updates,
\* duplicates and out-of-band transactions (processTx, recoverOrphanedTxs).
THEOREM SettledAgreement == Spec => []SettledMatchesChain
<1>1. IInv => SettledMatchesChain
  BY ReceiptAtNonce DEF IInv, SettledInv, SettledMatchesChain
<1>. QED
  BY <1>1, Inductive, PTL

-----------------------------------------------------------------------------
(***************************************************************************)
(* last_confirmed.  processTx and the recovery raise it to the nonce of a  *)
(* transaction whose receipt they have seen; that nonce is the row's for   *)
(* good, and last_reserved has passed it.                                  *)
(***************************************************************************)
ConfInv == pc = "confirmNonce" => HasReceipt(tx)

\* The stream only grows at its end.
LEMMA StreamGrows ==
  ASSUME [Next]_vars
  PROVE  stream' = stream \/ \E t \in Txs : stream' = Append(stream, t)
BY DEF Next, vars, Signer, SignerFault, InsertDraft, ReadChainNonce, ReserveNonce, RecordQueued,
       Enqueue, SignFails, RequestDies, Recovery, Start, RecoverDone, RecoverStatus, RecoverNonce,
       RecoverLeave, Consume, ReadGroup, FetchRow, SendAccepted, SendRejected, MarkBroadcasted,
       LogAttempt, GiveUp, ScheduleRetry, SettleFromReceipt, ConfirmNonce, ReceiptTimeout, Ack,
       BroadcasterFault, ReadGroupFails, SendFails, TryThrows, ConfirmNonceFails, ProcessThrows,
       AckFails, Crash, RecoverMisses, ReEnqueueFails, ReEnqueue, Chain, ForeignTx, MineForeign,
       Mine, Evict

\* processTx comes to the UPDATE of wallet_nonces from a receipt only.
LEMMA ConfirmFrame ==
  ASSUME [Next]_vars, pc' = "confirmNonce"
  PROVE  SettleFromReceipt \/ (pc = "confirmNonce" /\ current' = current)
BY DEF Next, vars, Goto, Signer, SignerFault, InsertDraft, ReadChainNonce, ReserveNonce, RecordQueued,
       Enqueue, SignFails, RequestDies, Recovery, Start, RecoverDone, RecoverStatus, RecoverNonce,
       RecoverLeave, Consume, ReadGroup, FetchRow, SendAccepted, SendRejected, MarkBroadcasted,
       LogAttempt, GiveUp, ScheduleRetry, ConfirmNonce, ReceiptTimeout, Ack,
       BroadcasterFault, ReadGroupFails, SendFails, TryThrows, ConfirmNonceFails, ProcessThrows,
       AckFails, Crash, RecoverMisses, ReEnqueueFails, ReEnqueue, Chain, ForeignTx, MineForeign,
       Mine, Evict, Deliver

LEMMA ConfStep ==
  ASSUME IInv, ConfInv, [Next]_vars
  PROVE  ConfInv'
<1>. USE DEF IInv
<1>1. SUFFICES ASSUME pc' = "confirmNonce"
               PROVE  HasReceipt(tx)'
  BY DEF ConfInv
<1>2. CASE SettleFromReceipt
  BY <1>2 DEF SettleFromReceipt, Goto, HasReceipt, tx
<1>3. CASE pc = "confirmNonce" /\ current' = current
  <2>1. tx \in Txs /\ current \in 1 .. Len(stream)
    BY <1>3, CurrentTx
  <2>2. tx' = tx
    BY <1>3, <2>1, StreamGrows DEF tx, TypeOK, StreamTyped
  <2>3. HasReceipt(tx)
    BY <1>3 DEF ConfInv
  <2>. QED
    BY <2>1, <2>2, <2>3, ReceiptKept DEF HasReceipt
<1>. QED
  BY <1>1, <1>2, <1>3, ConfirmFrame

\* A mined transaction keeps its nonce, and last_reserved never falls.
LEMMA MinedNonceKept ==
  ASSUME IInv, [Next]_vars, NEW u \in Txs, HasReceipt(u)
  PROVE  nonce'[u] = nonce[u] /\ lastReserved <= lastReserved' /\ lastReserved' \in Int
<1>. USE DEF IInv
<1>1. lastReserved \in Int
  BY DEF TypeOK, WalletTyped
<1>2. ASSUME NEW t \in Txs, ReserveNonce(t)
      PROVE  nonce'[u] = nonce[u] /\ lastReserved < lastReserved' /\ lastReserved' \in Int
  <2>1. t # u
    BY <1>2, ChainReserve
  <2>2. NextNonce(t) \in Nat /\ NextNonce(t) > lastReserved
    BY DEF NextNonce, Larger, TypeOK, WalletTyped, SignerTyped
  <2>. QED
    BY <1>2, <2>1, <2>2 DEF ReserveNonce, TypeOK, RowsTyped
<1>3. ASSUME NEW t \in Txs, (Signer(t) /\ ~ReserveNonce(t)) \/ SignerFault(t)
      PROVE  UNCHANGED <<nonce, lastReserved>>
  BY <1>3 DEF Signer, SignerFault, InsertDraft, ReadChainNonce, RecordQueued, Enqueue, SignFails,
              RequestDies
<1>. QED
  BY <1>1, <1>2, <1>3, NonceFrame DEF Next, vars

\* last_confirmed is raised to the nonce of a transaction with a receipt.
LEMMA ConfirmedWrite ==
  ASSUME IInv, ConfInv, [Next]_vars
  PROVE  lastConfirmed' = lastConfirmed \/ \E t \in Txs : HasReceipt(t) /\ lastConfirmed' = nonce[t]
<1>1. CASE ConfirmNonce
  <2>1. tx \in Txs /\ HasReceipt(tx)
    BY <1>1, CurrentTx DEF ConfirmNonce, IInv, ConfInv
  <2>2. lastConfirmed' = lastConfirmed \/ lastConfirmed' = nonce[tx]
    BY <1>1 DEF ConfirmNonce, Larger
  <2>. QED
    BY <2>1, <2>2
<1>2. ASSUME NEW t \in Txs, RecoverNonce(t)
      PROVE  lastConfirmed' = lastConfirmed \/ (HasReceipt(t) /\ lastConfirmed' = nonce[t])
  BY <1>2 DEF RecoverNonce, Larger, IInv, SettledInv
<1>3. CASE lastConfirmed' = lastConfirmed
  BY <1>3
<1>. QED
  BY <1>1, <1>2, <1>3
     DEF Next, vars, Signer, SignerFault, InsertDraft, ReadChainNonce, ReserveNonce, RecordQueued,
         Enqueue, SignFails, RequestDies, Recovery, Start, RecoverDone, RecoverStatus,
         RecoverLeave, Consume, ReadGroup, FetchRow, SendAccepted, SendRejected, MarkBroadcasted,
         LogAttempt, GiveUp, ScheduleRetry, SettleFromReceipt, ReceiptTimeout, Ack,
         BroadcasterFault, ReadGroupFails, SendFails, TryThrows, ConfirmNonceFails, ProcessThrows,
         AckFails, Crash, RecoverMisses, ReEnqueueFails, ReEnqueue, Chain, ForeignTx, MineForeign,
         Mine, Evict

LEMMA ConfirmedStep ==
  ASSUME IInv, ConfInv, LastConfirmedMined, [Next]_vars
  PROVE  LastConfirmedMined'
<1>1. SUFFICES ASSUME lastConfirmed' # -1
               PROVE  /\ lastConfirmed' <= lastReserved'
                      /\ \E t \in Txs : nonce'[t] = lastConfirmed' /\ HasReceipt(t)'
  BY DEF LastConfirmedMined
<1>2. PICK t \in Txs : HasReceipt(t) /\ lastConfirmed' = nonce[t]
  BY <1>1, ConfirmedWrite DEF LastConfirmedMined
<1>3. HasReceipt(t)' /\ nonce'[t] = nonce[t] /\ lastReserved <= lastReserved' /\ lastReserved' \in Int
  BY <1>2, ReceiptKept, MinedNonceKept DEF IInv
<1>4. nonce[t] <= lastReserved /\ nonce[t] \in Int /\ lastReserved \in Int
  BY DEF IInv, NonceInv, TypeOK, RowsTyped, WalletTyped
<1>. QED
  BY <1>2, <1>3, <1>4

\* last_confirmed names a nonce at which a transaction of the signer was mined
\* and never runs ahead of last_reserved, whatever order the poll, the recovery
\* and failing updates confirm in (processTx, recoverOrphanedTxs).
THEOREM ConfirmedNonceMined == Spec => []LastConfirmedMined
<1>1. Init => ConfInv /\ LastConfirmedMined
  BY DEF Init, ConfInv, LastConfirmedMined
<1>2. IInv /\ ConfInv /\ LastConfirmedMined /\ [Next]_vars => ConfInv' /\ LastConfirmedMined'
  BY ConfStep, ConfirmedStep
<1>. QED
  BY <1>1, <1>2, Inductive, PTL DEF Spec

-----------------------------------------------------------------------------
(***************************************************************************)
(* Final rows.  Between the signer's XADD, the consumer and the retry      *)
(* timers a request is in one place at a time: at one position of the      *)
(* stream still to be worked on, or in a timer, or nowhere.  So a row is   *)
(* settled, or BROADCASTED, while its message is still to be worked on     *)
(* only if it is the message in work; and the recovery, which starts from  *)
(* the BROADCASTED rows before anything is read, writes no settled row.    *)
(***************************************************************************)
Working == pc \notin {"down", "recover", "recoverNonce", "idle"}
First == IF pc = "ack" THEN current + 1 ELSE current
Live == First .. Len(stream)      \* positions still to be worked on
Busy == Settled \cup {"BROADCASTED"}

AtRest == ~Working => current = lastDelivered + 1
LiveOnce == \A i, j \in Live : stream[i] = stream[j] => i = j
LiveQueued == \A i \in Live : stream[i] \notin timers /\ handler[stream[i]] = "done"
TimersArmed == \A t \in timers : handler[t] = "done" /\ status[t] \notin Busy
UnsentNotBusy == \A t \in Txs : handler[t] \notin {"done", "error"} => status[t] \notin Busy
LiveSettled ==
  \A i \in Live : status[stream[i]] \in Settled => i = current /\ pc \in {"poll", "confirmNonce"}
LiveBroadcasted ==
  \A i \in Live : status[stream[i]] = "BROADCASTED" =>
    i = current /\ pc \in {"logAttempt", "caught", "decide", "poll"}
RecoveryList ==
  /\ pc \notin {"recover", "recoverNonce"} => todo = {}
  /\ pc = "recover" => \A t \in todo : status[t] = "BROADCASTED"
  /\ pc = "recoverNonce" =>
       /\ \A t \in todo : status[t] \in Busy
       /\ \A t, u \in todo : t # u => status[t] = "BROADCASTED" \/ status[u] = "BROADCASTED"

Placed == LiveOnce /\ LiveQueued /\ TimersArmed /\ UnsentNotBusy
QueueInv == AtRest /\ Placed /\ LiveSettled /\ LiveBroadcasted /\ RecoveryList

LEMMA LivePositions ==
  ASSUME TypeOK
  PROVE  /\ Len(stream) \in Nat /\ current \in Nat /\ First \in Nat /\ First >= 1
         /\ \A i \in Live : i \in 1 .. Len(stream) /\ stream[i] \in Txs
         /\ lastDelivered \in Nat
BY DEF TypeOK, StreamTyped, CurrentTyped, Live, First

\* While processTx runs, the message in work is live.
LEMMA CurrentLive ==
  ASSUME TypeOK, Working
  PROVE  tx \in Txs /\ (pc # "ack" => current \in Live)
<1>1. tx \in Txs /\ current \in 1 .. Len(stream)
  BY CurrentTx DEF Working
<1>. QED
  BY <1>1, LivePositions DEF Live, First

\* A step that only drops messages and timers keeps the places.
LEMMA PlacedShrinks ==
  ASSUME Placed, Live' \subseteq Live, timers' \subseteq timers, UNCHANGED <<stream, handler, status>>
  PROVE  Placed'
BY DEF Placed, LiveOnce, LiveQueued, TimersArmed, UnsentNotBusy

\* What the consumer loop does to its position: it moves past messages.
LEMMA MovesOn ==
  ASSUME TypeOK, AtRest,
         \/ ReadGroup \/ FetchRow \/ SendAccepted \/ SendRejected \/ SendFails \/ LogAttempt
         \/ TryThrows \/ ConfirmNonce \/ ConfirmNonceFails \/ ProcessThrows \/ Ack
         \/ ReadGroupFails \/ AckFails \/ Crash
  PROVE  /\ Live' \subseteq Live /\ timers' \subseteq timers /\ UNCHANGED <<stream, handler, status>>
         /\ AtRest'
<1>. USE DEF Goto
<1>1. /\ Len(stream) \in Nat /\ lastDelivered \in Nat
      /\ current \in 1 .. (lastDelivered + 1) /\ lastDelivered <= Len(stream)
      /\ Working => current <= lastDelivered
  BY DEF TypeOK, StreamTyped, CurrentTyped, Working
<1>2. CASE \/ FetchRow \/ SendAccepted \/ SendRejected \/ SendFails \/ LogAttempt
           \/ TryThrows \/ ConfirmNonce \/ ConfirmNonceFails \/ ProcessThrows
  <2>1. UNCHANGED <<stream, handler, status, timers, current, lastDelivered>>
    BY <1>2 DEF FetchRow, SendAccepted, SendRejected, SendFails, LogAttempt, TryThrows,
                ConfirmNonce, ConfirmNonceFails, ProcessThrows
  <2>2. Working /\ Working' /\ pc # "ack"
    BY <1>2 DEF FetchRow, SendAccepted, SendRejected, SendFails, LogAttempt, TryThrows,
                ConfirmNonce, ConfirmNonceFails, ProcessThrows, Working
  <2>3. First' \in {current, current + 1} /\ First = current
    BY <2>1, <2>2 DEF First
  <2>. QED
    BY <1>1, <2>1, <2>2, <2>3 DEF Live, AtRest
<1>3. CASE ReadGroup
  <2>1. UNCHANGED <<stream, handler, status, timers>> /\ pc = "idle" /\ pc' = "fetch"
        /\ current' = lastDelivered + 1
    BY <1>3 DEF ReadGroup, Deliver
  <2>2. current = lastDelivered + 1
    BY <2>1 DEF AtRest, Working
  <2>. QED
    BY <1>1, <2>1, <2>2 DEF Live, First, AtRest, Working
<1>4. CASE ReadGroupFails
  <2>1. UNCHANGED <<stream, handler, status, timers>> /\ pc = "idle" /\ pc' = "idle"
        /\ current' = lastDelivered' + 1
    BY <1>4 DEF ReadGroupFails, Deliver
  <2>2. current = lastDelivered + 1
    BY <2>1 DEF AtRest, Working
  <2>3. lastDelivered' \in Nat /\ lastDelivered + 1 <= lastDelivered'
    BY <1>4, <2>1, DeliverTyped DEF ReadGroupFails, TypeOK
  <2>. QED
    BY <1>1, <2>1, <2>2, <2>3 DEF Live, First, AtRest, Working
<1>5. CASE Ack
  <2>1. UNCHANGED <<stream, handler, status, timers, lastDelivered>> /\ pc = "ack"
        /\ pc' = (IF current < lastDelivered THEN "fetch" ELSE "idle") /\ current' = current + 1
    BY <1>5 DEF Ack
  <2>2. current <= lastDelivered
    BY <1>1, <2>1 DEF Working
  <2>. QED
    BY <1>1, <2>1, <2>2 DEF Live, First, AtRest, Working
<1>6. CASE AckFails
  <2>1. UNCHANGED <<stream, handler, status, timers, lastDelivered>> /\ pc = "ack"
        /\ pc' = "idle" /\ current' = lastDelivered + 1
    BY <1>6 DEF AckFails
  <2>2. current <= lastDelivered
    BY <1>1, <2>1 DEF Working
  <2>. QED
    BY <1>1, <2>1, <2>2 DEF Live, First, AtRest, Working
<1>7. CASE Crash
  <2>1. UNCHANGED <<stream, handler, status, lastDelivered>> /\ timers' = {}
        /\ pc' = "down" /\ current' = lastDelivered + 1
    BY <1>7 DEF Crash
  <2>2. First <= lastDelivered + 1
    BY <1>1 DEF First, Working
  <2>. QED
    BY <1>1, <2>1, <2>2 DEF Live, First, AtRest, Working
<1>. QED
  BY <1>2, <1>3, <1>4, <1>5, <1>6, <1>7

\* The consumer's steps that write no row keep every part.
LEMMA QueueMoves ==
  ASSUME TypeOK, QueueInv,
         \/ ReadGroup \/ FetchRow \/ SendAccepted \/ SendRejected \/ SendFails \/ LogAttempt
         \/ TryThrows \/ ConfirmNonce \/ ConfirmNonceFails \/ ProcessThrows \/ Ack
         \/ ReadGroupFails \/ AckFails \/ Crash
  PROVE  QueueInv'
<1>. USE DEF Goto
<1>1. /\ Live' \subseteq Live /\ timers' \subseteq timers /\ UNCHANGED <<stream, handler, status>>
      /\ AtRest'
  BY MovesOn DEF QueueInv
<1>2. Placed'
  BY <1>1, PlacedShrinks DEF QueueInv
<1>3. ASSUME pc \in {"poll", "confirmNonce", "logAttempt", "caught", "decide"}
      PROVE  \/ pc' = "ack" /\ current' = current
             \/ pc' = "down" /\ current' = lastDelivered + 1
             \/ pc = "logAttempt" /\ pc' \in {"poll", "caught"} /\ current' = current
             \/ pc = "caught" /\ pc' = "decide" /\ current' = current
             \/ pc = "confirmNonce" /\ pc' = "poll" /\ current' = current
  BY <1>3 DEF ReadGroup, FetchRow, SendAccepted, SendRejected, SendFails, LogAttempt, TryThrows,
         ConfirmNonce, ConfirmNonceFails, ProcessThrows, Ack, ReadGroupFails, AckFails, Crash, Deliver
<1>4. ASSUME pc \in {"poll", "confirmNonce", "logAttempt", "caught", "decide"},
             \/ pc' = "ack" /\ current' = current
             \/ pc' = "down" /\ current' = lastDelivered + 1
      PROVE  current \notin Live'
  <2>1. current \in Nat /\ current <= lastDelivered /\ lastDelivered \in Nat /\ Len(stream) \in Nat
    BY <1>4, LivePositions DEF TypeOK, CurrentTyped
  <2>2. First' = IF pc' = "ack" THEN current' + 1 ELSE current'
    BY DEF First
  <2>3. First' > current /\ First' \in Nat
    BY <1>4, <2>1, <2>2
  <2>. QED
    BY <1>1, <2>1, <2>3 DEF Live
<1>9. LiveSettled'
  <2>1. SUFFICES ASSUME NEW i \in Live', status[stream[i]] \in Settled
                 PROVE  i = current' /\ pc' \in {"poll", "confirmNonce"}
    BY <1>1 DEF LiveSettled
  <2>2. i = current /\ pc \in {"poll", "confirmNonce"}
    BY <1>1, <2>1 DEF QueueInv, LiveSettled
  <2>. QED
    BY <1>3, <1>4, <2>1, <2>2
<1>10. LiveBroadcasted'
  <2>1. SUFFICES ASSUME NEW i \in Live', status[stream[i]] = "BROADCASTED"
                 PROVE  i = current' /\ pc' \in {"logAttempt", "caught", "decide", "poll"}
    BY <1>1 DEF LiveBroadcasted
  <2>2. i = current /\ pc \in {"logAttempt", "caught", "decide", "poll"}
    BY <1>1, <2>1 DEF QueueInv, LiveBroadcasted
  <2>. QED
    BY <1>3, <1>4, <2>1, <2>2
<1>11. RecoveryList'
  BY DEF QueueInv, RecoveryList, ReadGroup, FetchRow, SendAccepted, SendRejected, SendFails, LogAttempt,
         TryThrows, ConfirmNonce, ConfirmNonceFails, ProcessThrows, Ack, ReadGroupFails, AckFails, Crash,
         Deliver
<1>. QED
  BY <1>1, <1>2, <1>9, <1>10, <1>11 DEF QueueInv

\* processTx writes the row of its own message, which is live at no other
\* position and in no timer.
LEMMA QueueWrites ==
  ASSUME TypeOK, QueueInv,
         MarkBroadcasted \/ GiveUp \/ ScheduleRetry \/ SettleFromReceipt \/ ReceiptTimeout
  PROVE  QueueInv'
<1>. USE DEF Goto
<1>1. /\ UNCHANGED <<stream, handler, current, lastDelivered, todo>>
      /\ pc \in {"sent", "decide", "poll"}
      /\ pc' \in {"logAttempt", "ack", "confirmNonce"}
  BY DEF MarkBroadcasted, GiveUp, ScheduleRetry, SettleFromReceipt, ReceiptTimeout
<1>2. PICK s : status' = [status EXCEPT ![tx] = s]
  BY DEF MarkBroadcasted, GiveUp, ScheduleRetry, SettleFromReceipt, ReceiptTimeout
<1>3. \/ pc' = "logAttempt" /\ s = "BROADCASTED" /\ timers' = timers
      \/ pc' = "confirmNonce" /\ s \in Settled /\ timers' = timers
      \/ pc' = "ack" /\ s \notin Busy /\ timers' \subseteq timers \cup {tx}
  BY <1>2, CurrentLive
     DEF MarkBroadcasted, GiveUp, ScheduleRetry, SettleFromReceipt, ReceiptTimeout, Outcome,
         Settled, Busy, TypeOK, RowsTyped, Working
<1>4. tx \in Txs /\ current \in Live /\ current \in Nat
  BY <1>1, CurrentLive, LivePositions DEF Working
<1>5. /\ status'[tx] = s /\ \A t \in Txs : t # tx => status'[t] = status[t]
      /\ \A i \in Live : i # current => stream[i] # tx
  BY <1>2, <1>4 DEF TypeOK, RowsTyped, QueueInv, Placed, LiveOnce, tx
<1>6. Live' \subseteq Live /\ (pc' = "ack" => current \notin Live')
  BY <1>1, <1>4, LivePositions DEF Live, First
<1>7. tx \notin timers /\ handler[tx] = "done"
  BY <1>4 DEF QueueInv, Placed, LiveQueued, tx
<1>8. \A i \in Live : stream[i] \in Txs
  BY LivePositions
<1>9. LiveOnce' /\ LiveQueued'
  BY <1>1, <1>3, <1>5, <1>6 DEF QueueInv, Placed, LiveOnce, LiveQueued
<1>10. TimersArmed' /\ UnsentNotBusy'
  BY <1>1, <1>3, <1>4, <1>5, <1>7 DEF QueueInv, Placed, TimersArmed, UnsentNotBusy, TypeOK, BroadcasterTyped
<1>11. LiveSettled'
  BY <1>1, <1>3, <1>4, <1>5, <1>6, <1>8 DEF QueueInv, LiveSettled, tx, Busy, Settled
<1>12. LiveBroadcasted'
  BY <1>1, <1>3, <1>4, <1>5, <1>6, <1>8 DEF QueueInv, LiveBroadcasted, tx, Busy, Settled
<1>13. AtRest' /\ RecoveryList'
  BY <1>1 DEF QueueInv, AtRest, RecoveryList, Working
<1>. QED
  BY <1>9, <1>10, <1>11, <1>12, <1>13 DEF QueueInv, Placed

\* The recovery writes rows that were BROADCASTED at startup: no message in work,
\* no live message and no timer is about them.
LEMMA QueueRecovery ==
  ASSUME TypeOK, QueueInv, Recovery \/ \E t \in Txs : RecoverMisses(t)
  PROVE  QueueInv'
<1>. USE DEF Goto
<1>1. /\ UNCHANGED <<stream, handler, current, lastDelivered, timers>>
      /\ ~Working /\ ~Working'
  BY DEF Recovery, Start, RecoverDone, RecoverStatus, RecoverNonce, RecoverLeave, RecoverMisses, Working
<1>2. Live' = Live /\ \A i \in Live : stream[i] \in Txs
  BY <1>1, LivePositions DEF Live, First, Working
<1>3. \A i \in Live : status[stream[i]] \notin Busy
  BY <1>1 DEF QueueInv, LiveSettled, LiveBroadcasted, Working, Busy
<1>4. AtRest'
  BY <1>1 DEF QueueInv, AtRest
<1>5. CASE status' = status
  <2>1. Placed' /\ LiveSettled' /\ LiveBroadcasted'
    BY <1>1, <1>2, <1>3, <1>5, PlacedShrinks DEF QueueInv, LiveSettled, LiveBroadcasted, Busy
  <2>2. RecoveryList'
    BY <1>5 DEF QueueInv, RecoveryList, Recovery, Start, RecoverDone, RecoverStatus, RecoverNonce,
       RecoverLeave, RecoverMisses, Settled, Busy
  <2>. QED
    BY <1>4, <2>1, <2>2 DEF QueueInv
<1>6. ASSUME NEW t \in Txs, RecoverStatus(t)
      PROVE  QueueInv'
  <2>1. /\ t \in todo /\ status[t] = "BROADCASTED" /\ pc' = "recoverNonce" /\ pc = "recover"
        /\ todo' = todo /\ todo \subseteq Txs
    BY <1>6 DEF RecoverStatus, QueueInv, RecoveryList, TypeOK, BroadcasterTyped
  <2>2. status'[t] \in Settled /\ \A u \in Txs : u # t => status'[u] = status[u]
    BY <1>6 DEF RecoverStatus, Outcome, Settled, TypeOK, RowsTyped
  <2>3. t \notin timers /\ (\A i \in Live : stream[i] # t) /\ handler[t] \in {"done", "error"}
    BY <1>3, <2>1 DEF QueueInv, Placed, TimersArmed, UnsentNotBusy, Busy
  <2>4. LiveOnce' /\ LiveQueued'
    BY <1>1, <1>2 DEF QueueInv, Placed, LiveOnce, LiveQueued
  <2>5. TimersArmed' /\ UnsentNotBusy'
    BY <1>1, <2>2, <2>3 DEF QueueInv, Placed, TimersArmed, UnsentNotBusy, TypeOK, BroadcasterTyped
  <2>6. LiveSettled' /\ LiveBroadcasted'
    BY <1>1, <1>2, <1>3, <2>2, <2>3 DEF LiveSettled, LiveBroadcasted, Busy
  <2>7. RecoveryList'
    BY <2>1, <2>2 DEF QueueInv, RecoveryList, Busy
  <2>. QED
    BY <1>4, <2>4, <2>5, <2>6, <2>7 DEF QueueInv, Placed
<1>. QED
  BY <1>5, <1>6 DEF Recovery, Start, RecoverDone, RecoverNonce, RecoverLeave, RecoverMisses

\* A request of the signer that has not been put into the stream is nowhere else.
LEMMA QueueSigner ==
  ASSUME TypeOK, QueueInv, NEW t \in Txs, Signer(t) \/ SignerFault(t)
  PROVE  QueueInv'
<1>1. /\ UNCHANGED <<current, lastDelivered, timers, pc, todo>>
      /\ handler[t] \notin {"done", "error"}
  BY DEF Signer, SignerFault, InsertDraft, ReadChainNonce, ReserveNonce, RecordQueued, Enqueue,
         SignFails, RequestDies
<1>2. PICK h : handler' = [handler EXCEPT ![t] = h]
  BY DEF Signer, SignerFault, InsertDraft, ReadChainNonce, ReserveNonce, RecordQueued, Enqueue,
         SignFails, RequestDies
<1>3. status'[t] \notin Busy /\ \A u \in Txs : u # t => status'[u] = status[u] /\ handler'[u] = handler[u]
  <2>1. status[t] \notin Busy
    BY <1>1 DEF QueueInv, Placed, UnsentNotBusy
  <2>2. \/ status' = status
        \/ \E s \in {"DRAFT", "FAILED", "QUEUED"} : status' = [status EXCEPT ![t] = s]
    BY DEF Signer, SignerFault, InsertDraft, ReadChainNonce, ReserveNonce, RecordQueued, Enqueue,
           SignFails, RequestDies
  <2>. QED
    BY <1>2, <2>1, <2>2 DEF Busy, Settled, TypeOK, RowsTyped, SignerTyped
<1>4. t \notin timers /\ \A i \in Live : stream[i] # t
  BY <1>1 DEF QueueInv, Placed, LiveQueued, TimersArmed
<1>5. \A i \in Live : stream[i] \in Txs
  BY LivePositions
<1>6. AtRest'
  BY <1>1 DEF QueueInv, AtRest, Working
<1>7. TimersArmed' /\ UnsentNotBusy'
  BY <1>1, <1>3, <1>4 DEF QueueInv, Placed, TimersArmed, UnsentNotBusy, TypeOK, BroadcasterTyped
<1>8. RecoveryList'
  <2>1. pc = "recoverNonce" \/ pc = "recover" => t \notin todo
    BY <1>1 DEF QueueInv, Placed, UnsentNotBusy, RecoveryList, Busy
  <2>. QED
    BY <1>1, <1>3, <2>1 DEF QueueInv, RecoveryList, TypeOK, BroadcasterTyped
<1>9. CASE stream' = stream
  <2>1. Live' = Live
    BY <1>1, <1>9 DEF Live, First
  <2>2. LiveOnce' /\ LiveQueued' /\ LiveSettled' /\ LiveBroadcasted'
    BY <1>1, <1>3, <1>4, <1>5, <1>9, <2>1
       DEF QueueInv, Placed, LiveOnce, LiveQueued, LiveSettled, LiveBroadcasted
  <2>. QED
    BY <1>6, <1>7, <1>8, <2>2 DEF QueueInv, Placed
<1>10. CASE Enqueue(t)
  <2>1. /\ stream' = Append(stream, t) /\ handler' = [handler EXCEPT ![t] = "done"]
        /\ status' = status /\ stream \in Seq(Txs)
    BY <1>10 DEF Enqueue, TypeOK, StreamTyped
  <2>2. \A i \in Live' : \/ i \in Live /\ stream'[i] = stream[i]
                         \/ i = Len(stream) + 1 /\ stream'[i] = t
    BY <1>1, <2>1, LivePositions DEF Live, First
  <2>3. handler'[t] = "done"
    BY <2>1 DEF TypeOK, SignerTyped
  <2>4. LiveOnce' /\ LiveQueued'
    BY <1>1, <1>3, <1>4, <1>5, <2>2, <2>3, LivePositions DEF QueueInv, Placed, LiveOnce, LiveQueued
  <2>5. LiveSettled' /\ LiveBroadcasted'
    BY <1>1, <1>3, <1>4, <1>5, <2>2, LivePositions DEF QueueInv, LiveSettled, LiveBroadcasted, Busy
  <2>. QED
    BY <1>6, <1>7, <1>8, <2>4, <2>5 DEF QueueInv, Placed
<1>. QED
  BY <1>9, <1>10
     DEF Signer, SignerFault, InsertDraft, ReadChainNonce, ReserveNonce, RecordQueued, SignFails,
         RequestDies

\* A retry timer's message goes back into the stream, or is lost.
LEMMA QueueTimers ==
  ASSUME TypeOK, QueueInv, NEW t \in Txs, ReEnqueue(t) \/ ReEnqueueFails(t)
  PROVE  QueueInv'
<1>1. /\ UNCHANGED <<current, lastDelivered, pc, todo, status, handler>>
      /\ timers' = timers \ {t} /\ t \in timers
  BY DEF ReEnqueue, ReEnqueueFails
<1>2. AtRest' /\ TimersArmed' /\ UnsentNotBusy' /\ RecoveryList'
  BY <1>1 DEF QueueInv, AtRest, Working, Placed, TimersArmed, UnsentNotBusy, RecoveryList
<1>3. handler[t] = "done" /\ status[t] \notin Busy /\ \A i \in Live : stream[i] # t
  BY <1>1 DEF QueueInv, Placed, TimersArmed, LiveQueued
<1>4. stream \in Seq(Txs)
  BY DEF TypeOK, StreamTyped
<1>5. \A i \in Live' : \/ i \in Live /\ stream'[i] = stream[i]
                       \/ i = Len(stream) + 1 /\ stream'[i] = t
  <2>1. CASE stream' = stream
    BY <1>1, <2>1 DEF Live, First
  <2>2. CASE stream' = Append(stream, t)
    BY <1>1, <1>4, <2>2, LivePositions DEF Live, First
  <2>. QED
    BY <2>1, <2>2 DEF ReEnqueue, ReEnqueueFails
<1>6. LiveOnce' /\ LiveQueued'
  BY <1>1, <1>3, <1>5, LivePositions DEF QueueInv, Placed, LiveOnce, LiveQueued
<1>7. LiveSettled' /\ LiveBroadcasted'
  BY <1>1, <1>3, <1>5, LivePositions DEF QueueInv, LiveSettled, LiveBroadcasted, Busy
<1>. QED
  BY <1>2, <1>6, <1>7 DEF QueueInv, Placed

LEMMA QueueInit == Init => QueueInv
BY DEF Init, QueueInv, AtRest, Working, Placed, LiveOnce, LiveQueued, TimersArmed, UnsentNotBusy,
       LiveSettled, LiveBroadcasted, RecoveryList, Live, First, Busy, Settled, None

LEMMA QueueStep ==
  ASSUME TypeOK, QueueInv, [Next]_vars
  PROVE  QueueInv'
<1>1. CASE Chain \/ UNCHANGED vars
  <2>1. UNCHANGED <<stream, current, lastDelivered, pc, todo, timers, status, handler>>
    BY <1>1 DEF Chain, ForeignTx, MineForeign, Mine, Evict, vars
  <2>. QED
    BY <2>1 DEF QueueInv, AtRest, Working, Placed, LiveOnce, LiveQueued, TimersArmed,
       UnsentNotBusy, LiveSettled, LiveBroadcasted, RecoveryList, Live, First
<1>2. CASE Consume
  BY <1>2, QueueMoves, QueueWrites DEF Consume
<1>3. CASE BroadcasterFault
  BY <1>3, QueueMoves, QueueRecovery, QueueTimers DEF BroadcasterFault
<1>4. CASE Recovery
  BY <1>4, QueueRecovery
<1>5. CASE \E t \in Txs : Signer(t) \/ SignerFault(t) \/ ReEnqueue(t)
  BY <1>5, QueueSigner, QueueTimers
<1>. QED
  BY <1>1, <1>2, <1>3, <1>4, <1>5 DEF Next

\* Only the poll deadline writes something else over a settled row.
LEMMA SettledRowKept ==
  ASSUME IInv, QueueInv, [Next]_vars, NEW u \in Txs, status[u] \in Settled
  PROVE  status'[u] = status[u] \/ ReceiptTimeout
<1>. USE DEF IInv, TypeOK, RowsTyped
<1>1. ASSUME NEW t \in Txs, InsertDraft(t) \/ SignFails(t) \/ RecordQueued(t)
      PROVE  status'[u] = status[u]
  <2>1. handler[t] \notin {"done", "error"} /\ t \in Txs
    BY <1>1 DEF InsertDraft, SignFails, RecordQueued
  <2>2. t # u
    BY <2>1 DEF QueueInv, Placed, UnsentNotBusy, Busy
  <2>. QED
    BY <1>1, <2>2 DEF InsertDraft, SignFails, RecordQueued
<1>2. CASE MarkBroadcasted \/ GiveUp \/ ScheduleRetry
  <2>1. Working /\ pc \in {"sent", "decide"}
    BY <1>2 DEF MarkBroadcasted, GiveUp, ScheduleRetry, Working
  <2>2. tx \in Txs /\ current \in Live
    BY <2>1, CurrentLive
  <2>3. tx # u
    BY <2>1, <2>2 DEF QueueInv, LiveSettled, tx
  <2>. QED
    BY <1>2, <2>2, <2>3 DEF MarkBroadcasted, GiveUp, ScheduleRetry
<1>3. CASE SettleFromReceipt
  BY <1>3, CurrentTx DEF SettleFromReceipt, SettledInv
<1>4. ASSUME NEW t \in Txs, RecoverStatus(t)
      PROVE  status'[u] = status[u]
  BY <1>4 DEF RecoverStatus, SettledInv
<1>5. CASE status' = status
  BY <1>5
<1>6. CASE ReceiptTimeout
  BY <1>6
<1>. QED
  BY <1>1, <1>2, <1>3, <1>4, <1>5, <1>6
     DEF Next, vars, Signer, SignerFault, ReadChainNonce, ReserveNonce, Enqueue, RequestDies,
         Recovery, Start, RecoverDone, RecoverNonce, RecoverLeave, Consume, ReadGroup, FetchRow,
         SendAccepted, SendRejected, LogAttempt, ConfirmNonce, Ack, BroadcasterFault,
         ReadGroupFails, SendFails, TryThrows, ConfirmNonceFails, ProcessThrows, AckFails, Crash,
         RecoverMisses, ReEnqueueFails, ReEnqueue, Chain, ForeignTx, MineForeign, Mine, Evict

\* A row that says CONFIRMED or REVERTED never changes again: no late retry, no
\* redelivery and no recovery after a crash overwrites it, whatever the batch size
\* and the faults; only the poll deadline does (processTx, recoverOrphanedTxs).
THEOREM SettledStays == Spec => SettledIsFinal
<1>1. Spec => []QueueInv
  <2>1. IInv /\ QueueInv /\ [Next]_vars => QueueInv'
    BY QueueStep DEF IInv
  <2>. QED
    BY <2>1, QueueInit, Inductive, PTL DEF Spec
<1>2. IInv /\ QueueInv /\ [Next]_vars =>
        [\A t \in Txs : status[t] \in Settled => status'[t] = status[t] \/ ReceiptTimeout]_vars
  BY SettledRowKept
<1>. QED
  BY <1>1, <1>2, Inductive, PTL DEF Spec, SettledIsFinal
=============================================================================
