--------------------------- MODULE IssuerRegistry ---------------------------
(***************************************************************************)
(* IssuerRegistry: trusted issuers, their status and signing key.  Each    *)
(* operation is an action of its msg.sender; a revert is a disabled        *)
(* action.  Categories, times and metadata are left out.                   *)
(***************************************************************************)
CONSTANTS Issuers, Controllers, Keys,
          Nobody,      \* the zero controller and key of an unknown issuer
          Registrars   \* accounts that may ever hold REGISTRAR_ROLE

VARIABLES
  issuers,     \* issuer |-> whether it is registered, status, controller, key
  registrars   \* holders of REGISTRAR_ROLE

regVars == <<issuers, registrars>>

Statuses == {"Pending", "Active", "Suspended", "Revoked"}
Unknown == [known |-> FALSE, status |-> "Pending", controller |-> Nobody, key |-> Nobody]

RegInit(registrar) ==
  issuers = [i \in Issuers |-> Unknown] /\ registrars = {registrar}

\* (mutant) no AlreadyExists
AddIssuerAgain(sender, i, c, k) ==
  /\ sender \in registrars
  /\ issuers' = [issuers EXCEPT ![i] =
                  [known |-> TRUE, status |-> "Active", controller |-> c, key |-> k]]
  /\ UNCHANGED registrars

AddIssuer(sender, i, c, k) ==
  /\ sender \in registrars /\ ~issuers[i].known
  /\ issuers' = [issuers EXCEPT ![i] =
                  [known |-> TRUE, status |-> "Active", controller |-> c, key |-> k]]
  /\ UNCHANGED registrars

\* (mutant) a revoked issuer may be reinstated
ReinstateTransition(from, to) == from # to /\ to # "Pending"

\* _isValidTransition
IsValidTransition(from, to) ==
  \/ from = "Pending" /\ to \in {"Active", "Revoked"}
  \/ from = "Active" /\ to \in {"Suspended", "Revoked"}
  \/ from = "Suspended" /\ to \in {"Active", "Revoked"}

\* (mutant) the controller may set the status too
SetIssuerStatusSelf(sender, i, s) ==
  /\ sender \in registrars \cup {issuers[i].controller} /\ issuers[i].known
  /\ IsValidTransition(issuers[i].status, s)
  /\ issuers' = [issuers EXCEPT ![i].status = s]
  /\ UNCHANGED registrars

SetIssuerStatus(sender, i, s) ==
  /\ sender \in registrars /\ issuers[i].known
  /\ IsValidTransition(issuers[i].status, s)
  /\ issuers' = [issuers EXCEPT ![i].status = s]
  /\ UNCHANGED registrars

RotateIssuerKey(sender, i, k) ==
  /\ issuers[i].known
  /\ sender = issuers[i].controller \/ sender \in registrars
  /\ issuers' = [issuers EXCEPT ![i].key = k]
  /\ UNCHANGED registrars

\* grantRole and revokeRole of REGISTRAR_ROLE by the admin
ChangeRegistrar(a) ==
  /\ registrars' \in {registrars \cup {a}, registrars \ {a}} \ {registrars}
  /\ UNCHANGED issuers

RegTypeOK ==
  /\ registrars \subseteq Registrars
  /\ issuers \in [Issuers -> [known : BOOLEAN, status : Statuses,
                              controller : Controllers \cup {Nobody}, key : Keys \cup {Nobody}]]

\* RevokedIsFinal: whoever holds the registrar role, a revoked issuer stays
\* revoked ("Revoked is terminal"), and an issuer once registered stays so
\* with its controller.
RevokedIsFinal ==
  [][\A i \in Issuers : issuers[i].known =>
       /\ issuers'[i].known /\ issuers'[i].controller = issuers[i].controller
       /\ issuers[i].status = "Revoked" => issuers'[i].status = "Revoked"]_regVars
=============================================================================
