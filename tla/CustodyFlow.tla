---------------------------- MODULE CustodyFlow ----------------------------
(***************************************************************************)
(* Palm-oil custody: one batch of HaraPalmOil moved along its custodians,  *)
(* by TraceabilityBatchRelay in one transaction or holder by holder.  The  *)
(* programs of ops/load-tests prime the wallets, mint, approve the relay,  *)
(* execute and check; the SDKs' examples do it one awaited call at a time. *)
(* Transactions mine in nonce order for each sender and in any order       *)
(* across senders.  The indexer's views (migration 003) and the trace API  *)
(* rebuild the custody graph from the TransferSingle events.               *)
(***************************************************************************)
EXTENDS Naturals, Integers, Sequences, FiniteSets, SequencesExt

CONSTANTS
    Deployer,         \* mints, primes the wallets and calls the relay
    Flows,            \* scenarios: style, holders, hops, outputs, liters, expected,
                      \* and the holders that approved the relay beforehand
    MaxCustodyFaults  \* batches and calls with refusals, approvals withdrawn

SdkStyles == {"ts", "go", "py"}
\* batched, with one awaited approval; batched and read back; one send at a time
\* but for the approvals; one send at a time, hop by hop
Styles == {"await_last", "verify", "relay", "sequential"} \cup SdkStyles

\* The holders of a scenario are different accounts, and its hops are theirs.
IsFlow(f) ==
    LET hs == ToSet(f.holders) IN
    /\ f.style \in Styles
    /\ f.holders \in Seq(hs) /\ Len(f.holders) > 1 /\ IsInjective(f.holders)
    /\ f.hops \in Seq([from : hs, to : hs, liters : Nat]) /\ f.hops # <<>>
    /\ f.outputs \subseteq hs /\ f.preapproved \subseteq hs
    /\ f.liters \in Nat /\ f.expected \in Nat

ASSUME CustodyAssumption == MaxCustodyFaults \in Nat /\ \A f \in Flows : IsFlow(f)

VARIABLES
    flow,      \* the scenario that runs
    phase,     \* its phase
    awaited,   \* the transaction whose receipt it waits for
    verdict,   \* what the program reports
    hopNo,     \* the hop a sequential program is at, the call an SDK program is at
    txPool,    \* submitted, not mined
    nextNonce, \* account -> transactions mined
    primed,    \* holders with native HARA
    minted,    \* the batch exists
    balance,   \* holder -> liters
    approved,  \* holders whose approval the relay has
    transfers, \* the TransferSingle events of the batch but its mint, in order
    shown,   \* how many of them the indexer has committed
    custodyFaults

balanceVars == <<primed, minted, balance, approved, transfers>>
scriptVars == <<phase, awaited, verdict, hopNo>>
custodyVars == <<flow, scriptVars, txPool, nextNonce, balanceVars, shown, custodyFaults>>

Hop(a, b, n) == [from |-> a, to |-> b, liters |-> n]
\* executeChain's hops: the same amount along the holders.
ChainHops(hs, n) == [i \in 1..Len(hs) - 1 |-> Hop(hs[i], hs[i + 1], n)]

HoldersOf(f) == ToSet(f.holders)
SendersOf(f) == {f.hops[i].from : i \in 1..Len(f.hops)}

\* The sum of a sequence of numbers, the holders that are in a set, in their order,
\* and the sum over the holders
Total[w \in Seq(Int)] == IF w = <<>> THEN 0 ELSE Total[Front(w)] + Last(w)
HoldersIn(S) ==
    LET kept[n \in 0..Len(flow.holders)] ==
            IF n = 0 THEN <<>>
            ELSE IF flow.holders[n] \in S THEN Append(kept[n - 1], flow.holders[n])
            ELSE kept[n - 1]
    IN  kept[Len(flow.holders)]
OfHolders(f) == Total[[i \in DOMAIN flow.holders |-> f[flow.holders[i]]]]

NoTx == [kind |-> "none"]
Prime(h, n) == [kind |-> "prime", by |-> Deployer, nonce |-> n, to |-> h]
Mint(n) == [kind |-> "mint", by |-> Deployer, nonce |-> n]
Approve(h) == [kind |-> "approve", by |-> h, nonce |-> 0]
Execute(n) == [kind |-> "execute", by |-> Deployer, nonce |-> n]
Transfer(i, h) == [kind |-> "transfer", by |-> h, nonce |-> 0, hop |-> i]

\* What the scenarios are: the wallets of a load program are its own; all but the
\* refinery's end at the last holder; and the programs that read no balance send the
\* minted volume along the whole chain.
ASSUME CustodyPlans ==
    \A f \in Flows :
        /\ f.style \notin SdkStyles => Deployer \notin HoldersOf(f)
        /\ f.style # "await_last" => f.outputs = {Last(f.holders)}
        /\ f.style \in {"verify"} \cup SdkStyles =>
              f.hops = ChainHops(f.holders, f.liters) /\ f.expected = f.liters

-----------------------------------------------------------------------------
(* The token and the relay *)

\* _update of ERC-1155: subtract, then add to what is there now.
Moved(bal, h) ==
    LET less == [bal EXCEPT ![h.from] = @ - h.liters]
    IN  [less EXCEPT ![h.to] = @ + h.liters]
CanMove(bal, h) == bal[h.from] >= h.liters

\* What the hops make of the balances; one that fails reverts them all.
Hopped(acc, h) ==
    IF acc.ok /\ CanMove(acc.bal, h) THEN [acc EXCEPT !.bal = Moved(@, h)]
    ELSE [acc EXCEPT !.ok = FALSE]
AfterHops(bal, hops) ==
    LET after[n \in 0..Len(hops)] ==
            IF n = 0 THEN [ok |-> TRUE, bal |-> bal] ELSE Hopped(after[n - 1], hops[n])
    IN  after[Len(hops)]

\* mintBatch, the whole volume to the first owner, once per batch id.
MintBatch ==
    /\ minted' = TRUE
    /\ balance' = IF minted THEN balance
                  ELSE [balance EXCEPT ![flow.holders[1]] = @ + flow.liters]
    /\ UNCHANGED <<primed, approved, transfers>>

\* executeChain, executeChainVariable and executeHops: every hop or none.  Each
\* hop's sender must have approved the relay.
ExecuteHops ==
    LET after == AfterHops(balance, flow.hops)
        ok == after.ok /\ SendersOf(flow) \subseteq approved
    IN  /\ balance' = IF ok THEN after.bal ELSE balance
        /\ transfers' = IF ok THEN transfers \o flow.hops ELSE transfers
        /\ UNCHANGED <<primed, minted, approved>>

\* safeTransferFrom by the holder itself.
SafeTransferFrom(h) ==
    /\ balance' = IF CanMove(balance, h) THEN Moved(balance, h) ELSE balance
    /\ transfers' = IF CanMove(balance, h) THEN Append(transfers, h) ELSE transfers
    /\ UNCHANGED <<primed, minted, approved>>

\* The node executes the next transaction of a sender that has native HARA.
Mineable(t) ==
    /\ t.nonce = nextNonce[t.by]
    /\ t.by = Deployer \/ t.by \in primed
MineCustody(t) ==
    /\ Mineable(t)
    /\ txPool' = txPool \ {t}
    /\ nextNonce' = [nextNonce EXCEPT ![t.by] = @ + 1]
    /\ CASE t.kind = "prime" -> /\ primed' = primed \cup {t.to}
                                /\ UNCHANGED <<minted, balance, approved, transfers>>
         [] t.kind = "mint" -> MintBatch
         [] t.kind = "approve" -> /\ approved' = approved \cup {t.by}
                                  /\ UNCHANGED <<primed, minted, balance, transfers>>
         [] t.kind = "execute" -> ExecuteHops
         [] t.kind = "transfer" -> SafeTransferFrom(flow.hops[t.hop])
    /\ UNCHANGED <<flow, scriptVars, shown, custodyFaults>>

\* A receipt exists, whatever its status.
IsMined(t) == t.nonce < nextNonce[t.by]

-----------------------------------------------------------------------------
(* The programs *)

\* What a phase has submitted, by the places in txs of what the node accepted and of
\* what is in its pool: the program goes on with the last one accepted, if there is
\* one; after throwing it is over.
Sent(txs, accepted, pooled, throws, then) ==
    LET faults == IF accepted = DOMAIN txs THEN 0 ELSE 1 IN
    /\ custodyFaults + faults <= MaxCustodyFaults
    /\ custodyFaults' = custodyFaults + faults
    /\ txPool' = txPool \cup {txs[i] : i \in pooled}
    /\ \/ /\ throws \/ accepted = {}
          /\ phase' = "done" /\ verdict' = "aborted" /\ awaited' = NoTx
       \/ \E last \in accepted :
             /\ ~throws /\ \A i \in accepted : i <= last
             /\ phase' = then /\ awaited' = txs[last]
             /\ verdict' = IF faults = 0 THEN "running" ELSE "incomplete"
    /\ UNCHANGED <<flow, nextNonce, balanceVars, shown>>

\* Awaited calls, one per transaction: the first refusal throws.
SendOneByOne(txs, then) ==
    \E n \in 0..Len(txs) : Sent(txs, 1..n, 1..n, n < Len(txs), then)

\* One batch: any of its transactions refused, or its answer lost, whatever of it the
\* node has.  The programs that send again what had no answer may take a transaction
\* for refused that the node has.
Resends == flow.style \in {"verify", "relay"}
SendTogether(txs, then) ==
    \E pooled \in SUBSET DOMAIN txs :
        \/ ~Resends /\ Sent(txs, {}, pooled, TRUE, then)
        \/ \E accepted \in SUBSET pooled :
              /\ Resends \/ accepted = pooled
              /\ Sent(txs, accepted, pooled, FALSE, then)

Primes == [i \in 1..Len(flow.holders) |-> Prime(flow.holders[i], i - 1)]
SendPrimes ==
    /\ phase = "start" /\ flow.style \notin SdkStyles
    /\ IF flow.style \in {"relay", "sequential"} THEN SendOneByOne(Primes, "prime")
                                               ELSE SendTogether(Primes, "prime")
    /\ UNCHANGED hopNo

Received(p) == phase = p /\ IsMined(awaited)

\* Only the stress program reads back what the batch should have done.
PrimesVerified == flow.style = "verify" => HoldersOf(flow) \subseteq primed
Approvers == IF flow.style = "verify" THEN HoldersOf(flow) ELSE SendersOf(flow)
\* The approvals are taken for granted once the last one is mined (mutant).
LastApprovalEnough == TRUE
ApprovalsVerified == flow.style = "verify" => Approvers \subseteq approved

Abort ==
    /\ phase' = "done" /\ verdict' = "aborted" /\ awaited' = NoTx
    /\ UNCHANGED <<flow, hopNo, txPool, nextNonce, balanceVars, shown, custodyFaults>>

Nonces == Len(flow.holders)
Approvals ==
    LET hs == HoldersIn(Approvers) IN [i \in 1..Len(hs) |-> Approve(hs[i])]

SendMint == SendOneByOne(<<Mint(Nonces)>>, "mint") /\ UNCHANGED hopNo
SendApprovals == SendTogether(Approvals, "approve") /\ UNCHANGED hopNo
SendExecute == SendOneByOne(<<Execute(Nonces + 1)>>, "execute") /\ UNCHANGED hopNo
SendHop(i) == SendOneByOne(<<Transfer(i, flow.hops[i].from)>>, "hop") /\ hopNo' = i

\* The primes are in: mint, or go to the approvals first (stress).
AfterPrimes ==
    /\ Received("prime")
    /\ IF ~PrimesVerified THEN Abort
       ELSE IF flow.style = "verify" THEN SendApprovals ELSE SendMint

\* The mint's receipt, its status not read.
AfterMint ==
    /\ Received("mint")
    /\ IF flow.style = "sequential" THEN SendHop(1) ELSE SendApprovals

\* The receipt of the last approval accepted.  The relay programs have minted;
\* the stress program sends mint and execution together.
AfterApprovals ==
    /\ Received("approve")
    /\ IF ~ApprovalsVerified THEN Abort
       ELSE IF flow.style # "verify" THEN SendExecute
       ELSE /\ SendTogether(<<Mint(Nonces), Execute(Nonces + 1)>>, "execute")
            /\ UNCHANGED hopNo

\* The outputs hold what was to be delivered.
Delivered ==
    OfHolders([h \in HoldersOf(flow) |-> IF h \in flow.outputs THEN balance[h] ELSE 0])
        = flow.expected

\* What a program reads in the end: the last holder's balance, or the outputs'.
FinalHolds == balance[Last(flow.holders)] = flow.expected
ReportsSuccess ==
    CASE flow.style \in {"relay", "sequential"} -> FinalHolds
      [] flow.style = "await_last" -> Delivered
      [] flow.style = "verify" -> TRUE

\* The stress program only requires that every transaction was accepted.
Report ==
    /\ phase' = "done" /\ awaited' = NoTx
    /\ verdict' = IF ReportsSuccess THEN "delivered" ELSE "failed"
    /\ UNCHANGED <<flow, hopNo, txPool, nextNonce, balanceVars, shown, custodyFaults>>

AllAccepted == verdict # "incomplete"
AfterExecute ==
    /\ Received("execute")
    /\ IF flow.style = "verify" /\ ~AllAccepted THEN Abort ELSE Report

\* A hop's receipt: the next hop if it succeeded, the report otherwise.
HopSucceeded == Len(transfers) = hopNo
AfterHop ==
    /\ Received("hop")
    /\ IF HopSucceeded /\ hopNo < Len(flow.hops) THEN SendHop(hopNo + 1) ELSE Report

\* The SDKs' examples: who is asked to approve the relay, and who executes.  In
\* the TypeScript one the minter is the first owner; the Python one lets the first
\* owner execute; both ask only a first owner that has not approved.
FirstHolder == flow.holders[1]
FirstOwnerAsked == IF FirstHolder \in approved THEN <<>> ELSE <<FirstHolder>>
TsProgram == [asks |-> FirstOwnerAsked, caller |-> Deployer]
PyProgram == [asks |-> FirstOwnerAsked, caller |-> FirstHolder]
GoProgram == [asks |-> HoldersIn(SendersOf(flow)), caller |-> Deployer]
Program == CASE flow.style = "ts" -> TsProgram
             [] flow.style = "py" -> PyProgram
             [] flow.style = "go" -> GoProgram

\* The next call, with the pending nonce of its sender.
SdkCall(kind, h) == [kind |-> kind, by |-> h, nonce |-> nextNonce[h]]
NextCall ==
    IF phase = "start" THEN SdkCall("mint", Deployer)
    ELSE IF hopNo <= Len(Program.asks) THEN SdkCall("approve", Program.asks[hopNo])
    ELSE SdkCall("execute", Program.caller)

\* A gas estimate: it fails if the call would revert, and nothing is sent.
WouldSucceed(t) ==
    t.kind = "execute" =>
        AfterHops(balance, flow.hops).ok /\ SendersOf(flow) \subseteq approved
SdkSend(t) ==
    IF ~WouldSucceed(t) THEN Abort
    ELSE /\ txPool' = txPool \cup {t} /\ awaited' = t /\ phase' = "sdk"
         /\ hopNo' = IF t.kind = "approve" THEN hopNo + 1 ELSE hopNo
         /\ UNCHANGED <<flow, verdict, nextNonce, balanceVars, shown, custodyFaults>>

\* A receipt is taken for success (mutant).
MinedIsDone == TRUE
\* The receipt's status: an execution that reverted left no transfer.
CallSucceeded == awaited.kind = "execute" => transfers # <<>>

\* The next call is sent when the receipt of the last is in.
SdkStep ==
    /\ flow.style \in SdkStyles
    /\ phase = "start" \/ Received("sdk")
    /\ IF awaited # NoTx /\ ~CallSucceeded THEN Abort
       ELSE IF awaited # NoTx /\ awaited.kind = "execute" THEN
            /\ phase' = "done" /\ verdict' = "delivered" /\ awaited' = NoTx
            /\ UNCHANGED <<flow, hopNo, txPool, nextNonce, balanceVars, shown, custodyFaults>>
       ELSE SdkSend(NextCall)

\* A holder withdraws its approval meanwhile.
WithdrawApproval ==
    /\ custodyFaults < MaxCustodyFaults /\ custodyFaults' = custodyFaults + 1
    /\ flow.style \in SdkStyles
    /\ \E h \in approved : approved' = approved \ {h}
    /\ UNCHANGED <<flow, scriptVars, txPool, nextNonce, primed, minted, balance,
                   transfers, shown>>

\* waitForTransactionReceipt times out: the program throws.
AwaitTimeout ==
    /\ awaited # NoTx /\ ~IsMined(awaited)
    /\ Abort

-----------------------------------------------------------------------------
(* The indexer and the trace API *)

\* A range is committed.
IndexTransfers ==
    /\ \E n \in shown + 1..Len(transfers) : shown' = n
    /\ UNCHANGED <<flow, scriptVars, txPool, nextNonce, balanceVars, custodyFaults>>

\* custody_hops: the decoded events.
CustodyHops == SubSeq(transfers, 1, shown)

ReceivedL(hs, a) == Total[[i \in DOMAIN hs |-> IF hs[i].to = a THEN hs[i].liters ELSE 0]]
SentL(hs, a) == Total[[i \in DOMAIN hs |-> IF hs[i].from = a THEN hs[i].liters ELSE 0]]

\* Only inbound liters counted (mutant).
ReceivedAsCurrent(hs, a) == ReceivedL(hs, a)
\* A node of the graph: what it received less what it sent.
CurrentLiters(hs, a) == ReceivedL(hs, a) - SentL(hs, a)

\* ?aggregate=true: one edge for the parallel hops between two nodes.
EdgeLiters(hs, a, b) ==
    Total[[i \in DOMAIN hs |-> IF hs[i].from = a /\ hs[i].to = b THEN hs[i].liters ELSE 0]]

-----------------------------------------------------------------------------
CustodyInit ==
    /\ flow \in Flows
    /\ phase = "start" /\ awaited = NoTx /\ verdict = "running" /\ hopNo = 1
    /\ txPool = {}
    /\ nextNonce = [a \in {Deployer} \cup HoldersOf(flow) |-> 0]
    /\ primed = IF flow.style \in SdkStyles THEN HoldersOf(flow) ELSE {}
    /\ approved = flow.preapproved
    /\ minted = FALSE /\ transfers = <<>>
    /\ balance = [h \in HoldersOf(flow) |-> 0]
    /\ shown = 0 /\ custodyFaults = 0

CustodyNext ==
    \/ SendPrimes \/ AfterPrimes \/ AfterMint \/ AfterApprovals \/ AfterExecute
    \/ AfterHop \/ SdkStep \/ WithdrawApproval \/ AwaitTimeout \/ IndexTransfers
    \/ \E t \in txPool : MineCustody(t)

CustodySpec == CustodyInit /\ [][CustodyNext]_custodyVars

-----------------------------------------------------------------------------
(* What custody must keep *)

\* A program that reports success has moved the whole volume to its outputs,
\* although the load programs wait for the last transaction of a batch only and
\* never read a status (scenario-refinery-dag.ts main, scenario-stress-200x500.ts),
\* and an approval may go between an SDK program's check and its execution.
SuccessIsDelivery == verdict = "delivered" => Delivered

\* Liters are neither made nor lost by hops, refused batches or reverts, and the
\* custody graph of the events agrees with the token: when the indexer has caught
\* up, a node's current liters, with the mint for the first owner (custody_hops
\* leaves mints out), are its balance, and its edges add up to the same.
GraphIsTheLedger ==
    shown = Len(transfers) =>
        \A h \in HoldersOf(flow) :
            LET start == IF h = flow.holders[1] /\ minted THEN flow.liters ELSE 0
                net == [o \in HoldersOf(flow) |-> EdgeLiters(CustodyHops, o, h)
                                                    - EdgeLiters(CustodyHops, h, o)]
            IN  /\ balance[h] = start + CurrentLiters(CustodyHops, h)
                /\ OfHolders(net) = CurrentLiters(CustodyHops, h)

=============================================================================
