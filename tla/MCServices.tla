---------------------------- MODULE MCServices ----------------------------
(***************************************************************************)
(* Instances of the services and clients that share no state: the Gapura    *)
(* gateway, evidence under retention, the SDKs' access to the chain, the    *)
(* console's users, token caches, the backup report and the anchor worker's *)
(* post-quantum key.  A behaviour is one of one component, the focus; the   *)
(* others stay where they start.                                            *)
(***************************************************************************)
EXTENDS GapuraAnchors, EvidenceRetention, ChainAccess, ConsoleUsers, TokenCache, BackupReport,
        AnchorKeys, TLC

CONSTANTS c1, c2, p1, p2,       \* the gateway's clients and purposes
          w1, w2,               \* wallets of the SDKs
          j1, j2, h1, h2,       \* backup jobs and their hosts
          MaxCalling,           \* bound: sendLegacyTx calls of both wallets together
          Focus                 \* the components to explore

MCFlavor == [c \in Clients |-> IF c = c1 THEN "ts" ELSE "py"]
MCBodies == [digest : Digests, purpose : {p1, p2}]
MCRetentions == {[until |-> 1, hold |-> FALSE], [until |-> 2, hold |-> TRUE]}
MCSdk == (w1 :> "go") @@ (w2 :> "ts")
MCHostOf == (j1 :> h1) @@ (j2 :> h2)
MCInterval == (j1 :> 1) @@ (j2 :> 2)

VARIABLE focus

\* A component not in focus starts in one of its initial states.
StartsAt(name, unfocused) == focus = name \/ unfocused

MCInit ==
  /\ focus \in Focus
  /\ GapuraInit /\ EvidenceInit /\ ChainAccessInit
  /\ ConsoleInit /\ TokenInit /\ BackupInit /\ KeysInit
  /\ StartsAt("gateway", store = "memory")
  /\ StartsAt("evidence", backend = "memory")
  /\ StartsAt("access", funded = {})
  /\ StartsAt("tokens", kind = "ts")
  /\ StartsAt("keys", prefunded)

GapuraStep ==
  /\ focus = "gateway" /\ GapuraNext
  /\ UNCHANGED <<evidenceVars, accessVars, consoleVars, tokenVars, backupVars, keyVars>>
EvidenceStep ==
  /\ focus = "evidence" /\ EvidenceNext
  /\ UNCHANGED <<gapuraVars, accessVars, consoleVars, tokenVars, backupVars, keyVars>>
AccessStep ==
  /\ focus = "access" /\ ChainAccessNext /\ send'[w1] + send'[w2] <= MaxCalling
  /\ UNCHANGED <<gapuraVars, evidenceVars, consoleVars, tokenVars, backupVars, keyVars>>
ConsoleStep ==
  /\ focus = "users" /\ ConsoleNext
  /\ UNCHANGED <<gapuraVars, evidenceVars, accessVars, tokenVars, backupVars, keyVars>>
TokenStep ==
  /\ focus = "tokens" /\ TokenNext
  /\ UNCHANGED <<gapuraVars, evidenceVars, accessVars, consoleVars, backupVars, keyVars>>
BackupStep ==
  /\ focus = "backups" /\ BackupNext
  /\ UNCHANGED <<gapuraVars, evidenceVars, accessVars, consoleVars, tokenVars, keyVars>>
KeysStep ==
  /\ focus = "keys" /\ KeysNext
  /\ UNCHANGED <<gapuraVars, evidenceVars, accessVars, consoleVars, tokenVars, backupVars>>

MCNext ==
  /\ UNCHANGED focus
  /\ \/ GapuraStep \/ EvidenceStep \/ AccessStep
     \/ ConsoleStep \/ TokenStep \/ BackupStep \/ KeysStep

MCSpec ==
  MCInit /\ [][MCNext]_<<focus, gapuraVars, evidenceVars, accessVars, consoleVars,
                         tokenVars, backupVars, keyVars>>
=============================================================================
