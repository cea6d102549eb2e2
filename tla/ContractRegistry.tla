-------------------------- MODULE ContractRegistry --------------------------
(***************************************************************************)
(* ContractRegistry: the deployments of a logical contract by version, and *)
(* the version clients resolve.  The SDKs submit the registrar's calls and *)
(* read getActive; calls of several registrars are mined in any order.     *)
(***************************************************************************)
EXTENDS Naturals, FiniteSets

CONSTANTS
    Names,             \* logical contract names
    MaxVersion,        \* versions are 0..MaxVersion, a uint64 in the contract
    Addrs,             \* deployed addresses
    ZeroAddress,       \* the zero address, which an absent entry holds
    MaxRegistrarCalls  \* calls submitted

ASSUME RegistryAssumption ==
    MaxVersion \in Nat /\ MaxRegistrarCalls \in Nat /\ ZeroAddress \notin Addrs

Versions == 0..MaxVersion

VARIABLES
    entries,       \* name, version -> address
    inactive,      \* entries marked inactive
    activeVersion, \* name -> version, 0 when there is none
    submitted,     \* calls in the transaction pool
    submissions    \* how many were submitted

registryVars == <<entries, inactive, activeVersion, submitted, submissions>>

Entry(n, v) == entries[<<n, v>>]
IsRegistered(n, v) == Entry(n, v) # ZeroAddress
\* getActive: whatever entry the active version names.
GetActive(n) == Entry(n, activeVersion[n])

Calls == [op : {"register"}, name : Names, version : Versions, addr : Addrs]
            \cup [op : {"setActiveVersion", "deactivate"}, name : Names, version : Versions]

\* The TypeScript wrappers; the Python and Go ones only register.
SubmitCall(call) ==
    /\ submissions < MaxRegistrarCalls /\ submissions' = submissions + 1
    /\ call \notin submitted /\ submitted' = submitted \cup {call}
    /\ UNCHANGED <<entries, inactive, activeVersion>>

\* The first version registered for a name becomes active, which the contract
\* recognises by the active version being 0.
Activated(n, v) == IF activeVersion[n] = 0 THEN v ELSE activeVersion[n]

\* Any version is registered again (mutant).
Overwrites(n, v) == TRUE
IsFree(n, v) == ~IsRegistered(n, v)

Register(n, v, a) ==
    /\ IF IsFree(n, v)
       THEN /\ entries' = [entries EXCEPT ![<<n, v>>] = a]
            /\ inactive' = inactive \ {<<n, v>>}
            /\ activeVersion' = [activeVersion EXCEPT ![n] = Activated(n, v)]
       ELSE UNCHANGED <<entries, inactive, activeVersion>>

SetActiveVersion(n, v) ==
    /\ activeVersion' = IF IsRegistered(n, v) THEN [activeVersion EXCEPT ![n] = v]
                        ELSE activeVersion
    /\ UNCHANGED <<entries, inactive>>

\* The active pointer is left alone.
Deactivate(n, v) ==
    /\ inactive' = IF IsRegistered(n, v) THEN inactive \cup {<<n, v>>} ELSE inactive
    /\ UNCHANGED <<entries, activeVersion>>

MineCall(call) ==
    /\ submitted' = submitted \ {call}
    /\ UNCHANGED submissions
    /\ CASE call.op = "register" -> Register(call.name, call.version, call.addr)
         [] call.op = "setActiveVersion" -> SetActiveVersion(call.name, call.version)
         [] call.op = "deactivate" -> Deactivate(call.name, call.version)

RegistryInit ==
    /\ entries = [k \in Names \X Versions |-> ZeroAddress]
    /\ inactive = {} /\ activeVersion = [n \in Names |-> 0]
    /\ submitted = {} /\ submissions = 0

RegistryNext ==
    \/ \E call \in Calls : SubmitCall(call)
    \/ \E call \in submitted : MineCall(call)

RegistrySpec == RegistryInit /\ [][RegistryNext]_registryVars

-----------------------------------------------------------------------------
(* What clients that resolve a name rely on *)

\* Once a name resolves to an address it never stops resolving, and what it resolves
\* to changes by a mined setActiveVersion only, in whatever order registrations,
\* switches and deactivations are mined; but while the active version is 0 the next
\* registration takes the name over, since 0 also means that there is none
\* (ContractRegistry.sol:67).
ResolutionMovesBySwitch ==
    [][\A n \in Names :
          GetActive(n) # ZeroAddress /\ GetActive(n)' # GetActive(n) =>
              /\ GetActive(n)' # ZeroAddress
              /\ \/ \E v \in Versions :
                       [op |-> "setActiveVersion", name |-> n, version |-> v]
                           \in submitted \ submitted'
                 \/ activeVersion[n] = 0 /\ activeVersion'[n] # 0]_registryVars
=============================================================================
