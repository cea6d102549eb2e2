----------------------------- MODULE AnchorKeys -----------------------------
(***************************************************************************)
(* The post-quantum key of services/anchor-worker: loaded from Vault or    *)
(* generated and written there at the start (vaultKey.ts), compared with   *)
(* PQAnchorRegistry.currentPQKeyHash and rotated on chain if it differs    *)
(* (index.ts bootstrap), then used to sign every anchor.  The contract     *)
(* tags an anchor with the key hash of the moment it is mined.  One wallet *)
(* sends everything, so its transactions mine in the order sent; they      *)
(* outlive the process that sent them.  Other writers anchor by the SDKs.  *)
(***************************************************************************)
EXTENDS Naturals, Sequences

CONSTANTS
  MaxKeys,        \* bound: keys generated; a key is the number of its generation
  MaxLives,       \* bound: starts of the worker
  MaxAnchors,     \* bound: anchors sent
  MaxKeyFaults    \* bound: Vault writes that fail, rotations that revert

ASSUME AnchorKeysAssumption == {MaxKeys, MaxLives, MaxAnchors, MaxKeyFaults} \subseteq Nat

VARIABLES
  secret,         \* the Vault secret: whether it exists, its PQ key (0: fields absent)
  versions,       \* keys any version of the secret held
  chainKeys,      \* values currentPQKeyHash had, the last one now; 0: the placeholder
  worker,         \* program counter, life, the key in memory
  walletTxs,      \* sent by the worker's wallet, not mined, in nonce order
  tagged,         \* anchors recorded: who signed, the tag, the signer's life
  reverted,       \* lives whose rotation reverted
  prefunded,      \* the wallet has a balance
  keysMade, anchorsSent, keyFaults

keyVars == <<secret, versions, chainKeys, worker, walletTxs, tagged, reverted,
             prefunded, keysMade, anchorsSent, keyFaults>>

SdkWriter == MaxKeys + 1        \* the key of the other writers
Down == [pc |-> "down", life |-> worker.life, key |-> 0]
KeyFault == keyFaults < MaxKeyFaults /\ keyFaults' = keyFaults + 1
ChainKey == chainKeys[Len(chainKeys)]

KeysInit ==
  /\ secret = [exists |-> FALSE, pq |-> 0] /\ versions = {}
  /\ chainKeys = <<0>>
  /\ worker = [pc |-> "down", life |-> 0, key |-> 0]
  /\ walletTxs = <<>> /\ tagged = {} /\ reverted = {}
  /\ prefunded \in BOOLEAN /\ keysMade = 0 /\ anchorsSent = 0 /\ keyFaults = 0

-----------------------------------------------------------------------------
(* loadOrInitKeys                                                            *)

\* The PQ key of the secret, 0 without the fields; nothing without the secret.
ReadAnchorSecret == IF secret.exists THEN {secret.pq} ELSE {}

\* Without the secret the process ends at once.
LoadOrInitKeys ==
  /\ worker.pc = "down" /\ worker.life < MaxLives
  /\ \E pq \in ReadAnchorSecret :
     IF pq # 0
       THEN /\ worker' = [pc |-> "loaded", life |-> worker.life + 1, key |-> pq]
            /\ UNCHANGED keysMade
       ELSE /\ keysMade < MaxKeys /\ keysMade' = keysMade + 1
            /\ worker' = [pc |-> "seed", life |-> worker.life + 1, key |-> keysMade']
  /\ UNCHANGED <<secret, versions, chainKeys, walletTxs, tagged, reverted, prefunded,
                 anchorsSent, keyFaults>>

\* (mutant) a write that fails is only logged
WritePQFieldsBestEffort ==
  /\ worker.pc = "seed"
  /\ worker' = [worker EXCEPT !.pc = "loaded"]
  /\ \/ secret' = [secret EXCEPT !.pq = worker.key] /\ versions' = versions \cup {worker.key}
        /\ UNCHANGED keyFaults
     \/ KeyFault /\ UNCHANGED <<secret, versions>>
  /\ UNCHANGED <<chainKeys, walletTxs, tagged, reverted, prefunded, keysMade, anchorsSent>>

\* The secret is read again and written with the new fields.  An error ends the
\* process, whether or not Vault has made the version.
WritePQFields ==
  /\ worker.pc = "seed"
  /\ \/ /\ secret' = [secret EXCEPT !.pq = worker.key] /\ versions' = versions \cup {worker.key}
        /\ \/ worker' = [worker EXCEPT !.pc = "loaded"] /\ UNCHANGED keyFaults
           \/ worker' = Down /\ KeyFault
     \/ worker' = Down /\ KeyFault /\ UNCHANGED <<secret, versions>>
  /\ UNCHANGED <<chainKeys, walletTxs, tagged, reverted, prefunded, keysMade, anchorsSent>>

-----------------------------------------------------------------------------
(* bootstrap: the key on chain                                               *)

\* A wallet without a balance ends the process: Besu would drop what it sends.
EnsureWalletPrefunded ==
  /\ worker.pc = "loaded"
  /\ worker' = IF prefunded THEN [worker EXCEPT !.pc = "funded"] ELSE Down
  /\ UNCHANGED <<secret, versions, chainKeys, walletTxs, tagged, reverted, prefunded, keysMade,
                 anchorsSent, keyFaults>>

\* A replica may answer with a value the contract had before.
CurrentPQKeyHash == {chainKeys[n] : n \in DOMAIN chainKeys}

\* (mutant) only the placeholder of the deployment is replaced
DiffersIfUnset(onChain, ours) == onChain = 0
Differs(onChain, ours) == onChain # ours

RotateTx(life, key) == [op |-> "rotate", key |-> key, life |-> life]
AnchorTx(life, key) == [op |-> "anchor", key |-> key, life |-> life]

ReconcileKeys ==
  /\ worker.pc = "funded"
  /\ \E onChain \in CurrentPQKeyHash :
       IF Differs(onChain, worker.key)
         THEN /\ walletTxs' = Append(walletTxs, RotateTx(worker.life, worker.key))
              /\ worker' = [worker EXCEPT !.pc = "rotating"]
         ELSE UNCHANGED walletTxs /\ worker' = [worker EXCEPT !.pc = "anchoring"]
  /\ UNCHANGED <<secret, versions, chainKeys, tagged, reverted, prefunded, keysMade,
                 anchorsSent, keyFaults>>

\* rotatePQKey's receipt, whatever its status; or the wait throws and the process ends.
AwaitRotation ==
  /\ worker.pc = "rotating"
  /\ worker' = IF walletTxs = <<>> THEN [worker EXCEPT !.pc = "anchoring"] ELSE Down
  /\ UNCHANGED <<secret, versions, chainKeys, walletTxs, tagged, reverted, prefunded, keysMade,
                 anchorsSent, keyFaults>>

\* An anchor is signed and sent; a cycle that fails or times out is followed by another.
SendAnchor ==
  /\ worker.pc = "anchoring" /\ anchorsSent < MaxAnchors
  /\ anchorsSent' = anchorsSent + 1
  /\ walletTxs' = Append(walletTxs, AnchorTx(worker.life, worker.key))
  /\ UNCHANGED <<secret, versions, chainKeys, worker, tagged, reverted, prefunded,
                 keysMade, keyFaults>>

WorkerStops ==
  /\ worker.pc # "down" /\ worker' = Down
  /\ UNCHANGED <<secret, versions, chainKeys, walletTxs, tagged, reverted, prefunded, keysMade,
                 anchorsSent, keyFaults>>

-----------------------------------------------------------------------------
(* The contract, other writers, and the operator                             *)

Recorded(by, life) == [by |-> by, tag |-> ChainKey, life |-> life]

\* rotatePQKey reverts if the wallet has no KEY_ROTATOR_ROLE.
MineRotation ==
  /\ walletTxs # <<>> /\ Head(walletTxs).op = "rotate"
  /\ walletTxs' = Tail(walletTxs)
  /\ \/ /\ chainKeys' = Append(chainKeys, Head(walletTxs).key)
        /\ UNCHANGED <<reverted, keyFaults>>
     \/ KeyFault /\ reverted' = reverted \cup {Head(walletTxs).life} /\ UNCHANGED chainKeys
  /\ UNCHANGED <<secret, versions, worker, tagged, prefunded, keysMade, anchorsSent>>

\* recordAnchor
MineRecord ==
  /\ walletTxs # <<>> /\ Head(walletTxs).op = "anchor"
  /\ walletTxs' = Tail(walletTxs)
  /\ tagged' = tagged \cup {Recorded(Head(walletTxs).key, Head(walletTxs).life)}
  /\ UNCHANGED <<secret, versions, chainKeys, worker, reverted, prefunded, keysMade,
                 anchorsSent, keyFaults>>

\* An SDK client with ANCHOR_ROLE, which signs with its own key.
SdkRecordAnchor ==
  /\ anchorsSent < MaxAnchors /\ anchorsSent' = anchorsSent + 1
  /\ tagged' = tagged \cup {Recorded(SdkWriter, 0)}
  /\ UNCHANGED <<secret, versions, chainKeys, worker, walletTxs, reverted, prefunded,
                 keysMade, keyFaults>>

\* seed-anchor-key.sh posts address and private key: a new version of the secret,
\* without the PQ fields.
StoreSignerKey ==
  /\ secret' = [exists |-> TRUE, pq |-> 0] /\ secret' # secret
  /\ UNCHANGED <<versions, chainKeys, worker, walletTxs, tagged, reverted, prefunded, keysMade,
                 anchorsSent, keyFaults>>

\* prefund-vault-key.sh
Prefund ==
  /\ ~prefunded /\ prefunded' = TRUE
  /\ UNCHANGED <<secret, versions, chainKeys, worker, walletTxs, tagged, reverted, keysMade,
                 anchorsSent, keyFaults>>

KeysNext ==
  \/ LoadOrInitKeys \/ WritePQFields \/ EnsureWalletPrefunded \/ ReconcileKeys \/ AwaitRotation
  \/ SendAnchor \/ WorkerStops \/ MineRotation \/ MineRecord \/ SdkRecordAnchor
  \/ StoreSignerKey \/ Prefund

KeysSpec == KeysInit /\ [][KeysNext]_keyVars

-----------------------------------------------------------------------------
(* Property                                                                  *)

\* PQAnchorRegistry.sol says of pqKeyHash "the PQ pubkey hash at signing time", and
\* has auditors fetch the key by it; the code stores currentPQKeyHash of the block.
\* An anchor of the worker still carries the hash of the key that signed it, over
\* restarts, lost and stale answers, keys replaced in Vault and transactions that
\* outlive their process, unless a rotation of its own life reverted; and Vault
\* has a version with that key (rotatePQKey's receipt status is not read).
AnchorsAttributable ==
  \A a \in tagged : a.by # SdkWriter =>
    /\ a.by \in versions
    /\ a.tag = a.by \/ a.life \in reverted
=============================================================================
