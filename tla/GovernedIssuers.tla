-------------------------- MODULE GovernedIssuers --------------------------
(***************************************************************************)
(* The production arrangement of IssuerRegistry: the GovernanceContract is *)
(* its registrar, so the registry changes by executed proposals, by        *)
(* controllers who rotate their key, and by whoever the admin makes a      *)
(* registrar besides.                                                      *)
(***************************************************************************)
EXTENDS Governance, IssuerRegistry

CONSTANT Contract   \* the address of the GovernanceContract

\* Calls to the registry a proposal can carry
IssuerCalls ==
  [op : {"add"}, issuer : Issuers, controller : Controllers, key : Keys]
    \cup [op : {"status"}, issuer : Issuers, status : Statuses]
    \cup [op : {"rotate"}, issuer : Issuers, key : Keys]

ASSUME GovernedAssumption ==
  /\ Calls \subseteq IssuerCalls /\ NoCall = [op |-> "none"]
  /\ Contract \in Registrars

vars == <<govVars, regVars>>

Init == GovInit /\ RegInit(Contract)

\* An operation of the registry with the given sender
Registry(sender, c) ==
  \/ c.op = "add" /\ AddIssuer(sender, c.issuer, c.controller, c.key)
  \/ c.op = "status" /\ SetIssuerStatus(sender, c.issuer, c.status)
  \/ c.op = "rotate" /\ RotateIssuerKey(sender, c.issuer, c.key)

\* execute calls the registry, or the zero address with no data, which
\* succeeds and does nothing: an unused slot can be approved and executed.
ExecuteProposal ==
  \E g \in Accounts, id \in Ids :
    /\ Execute(g, id)
    /\ \/ Registry(Contract, proposals[id].call)
       \/ proposals[id].call = NoCall /\ UNCHANGED regVars

\* A controller, a registrar besides the contract, or anyone else tries.
CallRegistry ==
  /\ \E sender \in (Registrars \cup Controllers) \ {Contract}, c \in Calls : Registry(sender, c)
  /\ UNCHANGED govVars

Next ==
  \/ GovStep /\ UNCHANGED regVars
  \/ ExecuteProposal
  \/ CallRegistry
  \/ (\E a \in Registrars : ChangeRegistrar(a)) /\ UNCHANGED govVars

Spec == Init /\ [][Next]_vars

-----------------------------------------------------------------------------
\* TypeOK of both contracts
TypeOK == GovTypeOK /\ RegTypeOK

\* AddedOnce: two executed proposals never register the same issuer: the
\* second reverts, its proposal stays approved.
Adds(id, i) ==
  proposals[id].state = "Executed" /\ proposals[id].call.op = "add" /\ proposals[id].call.issuer = i

AddedOnce ==
  \A i \in Issuers : \A id, other \in Ids : Adds(id, i) /\ Adds(other, i) => id = other

\* ChangesBacked: while the contract is the only registrar, an issuer changes
\* only when an approved proposal about it is executed, except that a
\* controller may rotate the key ("even the controller cannot self-revoke").
ChangesBacked ==
  [][\A i \in Issuers : issuers'[i] # issuers[i] /\ registrars \subseteq {Contract} =>
       \/ \E id \in Proposed :
            /\ proposals[id].state = "Approved" /\ proposals'[id].state = "Executed"
            /\ proposals[id].call # NoCall /\ proposals[id].call.issuer = i
       \/ issuers'[i] = [issuers[i] EXCEPT !.key = issuers'[i].key]]_vars
=============================================================================
