----------------------------- MODULE Governance -----------------------------
(***************************************************************************)
(* GovernanceContract: proposals that become executable when enough        *)
(* governors have approved them.  What a proposal's call does is left to   *)
(* the module that composes this one with its targets.                     *)
(***************************************************************************)
EXTENDS Integers, FiniteSets

CONSTANTS
  Accounts,          \* externally owned accounts that may be governors
  InitialGovernors, InitialThreshold,   \* arguments of the constructor
  Thresholds,        \* values the admin may set the threshold to
  Calls,             \* calls a proposal may carry
  NoCall,            \* the zero target and empty data of an unused slot
  MaxProposals       \* bound: proposals made

ASSUME GovernanceAssumption ==
  /\ InitialGovernors \subseteq Accounts
  /\ InitialThreshold \in 1 .. Cardinality(InitialGovernors)
  /\ IsFiniteSet(Accounts)
  /\ Thresholds \subseteq Nat \ {0}
  /\ MaxProposals \in Nat

VARIABLES
  governors,      \* holders of GOVERNANCE_ROLE
  threshold,      \* approvalThreshold
  proposalCount,
  proposals,      \* id |-> its call, state and approvalCount
  approvals       \* pairs of an id and an account that approved it

govVars == <<governors, threshold, proposalCount, proposals, approvals>>

\* Ids the mappings are read at: those proposed, and those not proposed yet.
Ids == 1 .. MaxProposals
States == {"Pending", "Approved", "Executed", "Cancelled"}
Unused == [call |-> NoCall, state |-> "Pending", count |-> 0]

GovInit ==
  /\ governors = InitialGovernors /\ threshold = InitialThreshold
  /\ proposalCount = 0
  /\ proposals = [id \in Ids |-> Unused] /\ approvals = {}

\* _approve on the contents p of slot id; reverts unless pending and new
WithApproval(p) ==
  [call |-> p.call, count |-> p.count + 1,
   state |-> IF p.count + 1 >= threshold THEN "Approved" ELSE p.state]

\* (mutant) the governor's earlier approval is not looked at
ApproveAgain(g, id, p) ==
  /\ p.state = "Pending"
  /\ approvals' = approvals \cup {<<id, g>>}
  /\ proposals' = [proposals EXCEPT ![id] = WithApproval(p)]

ApproveSlot(g, id, p) ==
  /\ p.state = "Pending" /\ <<id, g>> \notin approvals
  /\ approvals' = approvals \cup {<<id, g>>}
  /\ proposals' = [proposals EXCEPT ![id] = WithApproval(p)]

\* The proposer approves at once.  A governor who approved the slot before it
\* was proposed makes the whole transaction revert.
Propose(g, c) ==
  /\ g \in governors /\ proposalCount < MaxProposals
  /\ proposalCount' = proposalCount + 1
  /\ ApproveSlot(g, proposalCount + 1, [call |-> c, state |-> "Pending", count |-> 0])
  /\ UNCHANGED <<governors, threshold>>

\* Any id can be approved, proposed or not.
Approve(g, id) ==
  /\ g \in governors
  /\ ApproveSlot(g, id, proposals[id])
  /\ UNCHANGED <<governors, threshold, proposalCount>>

\* The call's own effect is conjoined by the composing module; a call that
\* reverts makes execute revert.
Execute(g, id) ==
  /\ g \in governors /\ proposals[id].state = "Approved"
  /\ proposals' = [proposals EXCEPT ![id].state = "Executed"]
  /\ UNCHANGED <<governors, threshold, proposalCount, approvals>>

\* (mutant) an executed proposal can be cancelled
CancelAny(g, id) ==
  /\ g \in governors /\ proposals[id].state # "Cancelled"
  /\ proposals' = [proposals EXCEPT ![id].state = "Cancelled"]
  /\ UNCHANGED <<governors, threshold, proposalCount, approvals>>

Cancel(g, id) ==
  /\ g \in governors /\ proposals[id].state \in {"Pending", "Approved"}
  /\ proposals' = [proposals EXCEPT ![id].state = "Cancelled"]
  /\ UNCHANGED <<governors, threshold, proposalCount, approvals>>

\* setApprovalThreshold by the admin; proposals are not looked at again
SetApprovalThreshold(n) ==
  /\ n # threshold /\ threshold' = n
  /\ UNCHANGED <<governors, proposalCount, proposals, approvals>>

\* grantRole and revokeRole of GOVERNANCE_ROLE by the admin
ChangeGovernor(a) ==
  /\ governors' \in {governors \cup {a}, governors \ {a}} \ {governors}
  /\ UNCHANGED <<threshold, proposalCount, proposals, approvals>>

GovStep ==
  \/ \E g \in Accounts, c \in Calls : Propose(g, c)
  \/ \E g \in Accounts, id \in Ids : Approve(g, id) \/ Cancel(g, id)
  \/ \E n \in Thresholds : SetApprovalThreshold(n)
  \/ \E a \in Accounts : ChangeGovernor(a)

-----------------------------------------------------------------------------
GovTypeOK ==
  /\ governors \subseteq Accounts
  /\ threshold \in Thresholds \cup {InitialThreshold}
  /\ proposalCount \in 0 .. MaxProposals
  /\ proposals \in [Ids -> [call : Calls \cup {NoCall}, state : States, count : Nat]]
  /\ approvals \subseteq Ids \X Accounts

Approvers(id) == {a \in Accounts : <<id, a>> \in approvals}
Proposed == {id \in Ids : id <= proposalCount}

\* Quorum: what is or was executable has as many distinct approvers as its
\* count says, and at least as many as the lowest threshold there ever was,
\* whatever the admin does to the governors and the threshold, and although
\* slots can be approved before they are proposed.
Quorum ==
  \A id \in Ids : proposals[id].state \in {"Approved", "Executed"} =>
    /\ proposals[id].count <= Cardinality(Approvers(id))
    /\ \E n \in Thresholds \cup {InitialThreshold} : n <= proposals[id].count

\* ProposedIsFixed: the contents of a proposal never change once it was made,
\* and an executed proposal stays executed.
ProposedIsFixed ==
  [][\A id \in Proposed :
       /\ proposals'[id].call = proposals[id].call
       /\ proposals[id].state = "Executed" => proposals'[id] = proposals[id]]_govVars
=============================================================================
