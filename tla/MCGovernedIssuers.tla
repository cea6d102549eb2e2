------------------------- MODULE MCGovernedIssuers -------------------------
(***************************************************************************)
(* Instances of what is kept on the ledger's chain: one issuer, its         *)
(* controller and a few governed calls about it; and the tree heads of a    *)
(* tenant with one attestation of the subject.  The checkpoints submitted   *)
(* are two of the tenant's log, the second smaller than the first and with  *)
(* a root of zeros, and one of a chain of events, too large for the         *)
(* contract's eventCount and for the store's bigint; the memory store is    *)
(* explored without anchoring.  The two share no state; a behaviour is one  *)
(* of one of them, the focus.                                               *)
(***************************************************************************)
EXTENDS GovernedIssuers, LedgerHeads, TLC

CONSTANTS g1, g2, g3, i1, ctl, k1, k2,
          tenant, events,       \* logs
          ra, rb                \* roots

Symmetry == Permutations(Accounts)
MCNoCall == [op |-> "none"]
MCCalls ==
  {[op |-> "add", issuer |-> i1, controller |-> ctl, key |-> k1],
   [op |-> "status", issuer |-> i1, status |-> "Active"],
   [op |-> "status", issuer |-> i1, status |-> "Revoked"],
   [op |-> "rotate", issuer |-> i1, key |-> k2]}

MCTreeHead == tenant :> [log |-> tenant, size |-> 1, root |-> ra]
MCLogs == <<tenant>>
NoLogs == <<>>
MCSubmissions ==
  {[log |-> tenant, size |-> 2, root |-> ra], [log |-> tenant, size |-> 1, root |-> ZeroRoot],
   [log |-> events, size |-> 4, root |-> rb]}

VARIABLE focus

MCInit ==
  /\ focus \in {"issuers", "heads"}
  /\ Init /\ HeadsInit
  /\ headStore = "memory" => ~anchoring
  /\ focus = "heads" \/ headStore = "memory"

IssuersStep == focus = "issuers" /\ Next /\ UNCHANGED headVars
HeadsStep == focus = "heads" /\ HeadsNext /\ UNCHANGED vars

MCNext == UNCHANGED focus /\ (IssuersStep \/ HeadsStep)

MCSpec == MCInit /\ [][MCNext]_<<focus, vars, headVars>>
=============================================================================
