----------------------------- MODULE TokenCache -----------------------------
(***************************************************************************)
(* Short-lived tokens kept in memory: the Gapura SDKs' client-credentials  *)
(* tokens (TypeScript and Python) and the services' Vault AppRole token.   *)
(* Concurrent callers share one login; the cached token is given out until *)
(* shortly before it expires by the caller's clock, which starts when the  *)
(* answer arrives, not when the token was issued.                          *)
(***************************************************************************)
EXTENDS Integers, FiniteSets, FiniteSetsExt

CONSTANTS
    Callers,     \* concurrent callers of one process
    Lifetimes,   \* lifetimes an issuer gives its tokens
    Skew,        \* how long before expiry a token is renewed
    MinLease,    \* the least time the Vault client keeps one
    MaxDelay,    \* how long the answer to a login may take
    MaxTime,     \* the clock stops
    MaxLogins    \* logins

ASSUME TokenAssumption ==
    /\ Lifetimes \subseteq Nat /\ {Skew, MinLease, MaxTime, MaxLogins} \subseteq Nat
    /\ MaxDelay \in 0..Skew

Kinds == {"ts", "py", "vault"}

VARIABLES
    kind,        \* which of the caches
    now,         \* the clock
    issued,      \* token -> when it was issued and for how long
    login,       \* the login in flight: its token, 0 when there is none
    cached,      \* the cached token, 0 when there is none
    keptUntil,   \* when it is no longer given out
    caller       \* caller -> where it is, the token it holds, the one refused

tokenVars == <<kind, now, issued, login, cached, keptUntil, caller>>

Logins == DOMAIN issued
IsLive(t) == now < issued[t].at + issued[t].life

AtRest == [at |-> "rest", token |-> 0, refused |-> 0]

\* expiresAtMs - refreshSkewMs, its Python and its Vault form; how long a token is
\* kept from the moment its answer arrives.
TsKeeps(life) == life - Skew
PyKeeps(life) == Max({life - Skew, 0})
VaultKeeps(life) == Max({MinLease, life - Skew})
\* Kept for as long as it lives (mutant).
KeepsLifetime(life) == life
Keeps(life) == CASE kind = "ts" -> TsKeeps(life)
                 [] kind = "py" -> PyKeeps(life)
                 [] kind = "vault" -> VaultKeeps(life)

\* getToken, token, currentToken: the cached one, or the login in flight.
Ask(c) ==
    /\ caller[c].at \in {"rest", "retry"}
    /\ IF cached # 0 /\ now < keptUntil
       THEN /\ caller' = [caller EXCEPT ![c].at = "holds", ![c].token = cached]
            /\ UNCHANGED <<issued, login>>
       ELSE /\ caller' = [caller EXCEPT ![c].at = "waits"]
            /\ IF login # 0 THEN UNCHANGED <<issued, login>>
               ELSE /\ Cardinality(Logins) < MaxLogins
                    /\ login' = Cardinality(Logins) + 1
                    /\ \E l \in Lifetimes :
                          issued' = [t \in Logins \cup {login'} |->
                                        IF t = login' THEN [at |-> now, life |-> l]
                                        ELSE issued[t]]
    /\ UNCHANGED <<kind, now, cached, keptUntil>>

Waiting == {c \in Callers : caller[c].at = "waits"}

\* The answer: every caller that waits for this login has the token.
LoginAnswers ==
    /\ login # 0
    /\ cached' = login /\ keptUntil' = now + Keeps(issued[login].life)
    /\ caller' = [c \in Callers |->
                     IF c \in Waiting THEN [caller[c] EXCEPT !.at = "holds", !.token = login]
                     ELSE caller[c]]
    /\ login' = 0
    /\ UNCHANGED <<kind, now, issued>>

\* It fails for all of them; Python's callers each try again under the lock.
LoginFails ==
    /\ login # 0 /\ login' = 0
    /\ caller' = [c \in Callers |-> IF c \in Waiting THEN AtRest ELSE caller[c]]
    /\ UNCHANGED <<kind, now, issued, cached, keptUntil>>

\* The cached token is asked for again (mutant).
RetryKeepsCache == cached
RetryCache == 0

\* The service takes the token or refuses it; Vault's refusal is tried once more
\* with the cache emptied.
Use(c) ==
    /\ caller[c].at = "holds"
    /\ IF IsLive(caller[c].token) \/ kind # "vault" \/ caller[c].refused # 0
       THEN caller' = [caller EXCEPT ![c] = AtRest] /\ UNCHANGED cached
       ELSE /\ caller' = [caller EXCEPT ![c].at = "retry", ![c].refused = caller[c].token]
            /\ cached' = RetryCache
    /\ UNCHANGED <<kind, now, issued, login, keptUntil>>

\* Time passes, an answer being late by at most MaxDelay; callers use a token at once.
Tick ==
    /\ now < MaxTime /\ now' = now + 1
    /\ login # 0 => now < issued[login].at + MaxDelay
    /\ UNCHANGED <<kind, issued, login, cached, keptUntil, caller>>

TokenInit ==
    /\ kind \in Kinds /\ now = 0 /\ issued = [t \in {} |-> 0] /\ login = 0
    /\ cached = 0 /\ keptUntil = 0
    /\ caller = [c \in Callers |-> AtRest]

TokenNext ==
    \/ \E c \in Callers : Ask(c) \/ Use(c)
    \/ LoginAnswers \/ LoginFails \/ Tick
TokenSpec == TokenInit /\ [][TokenNext]_tokenVars

-----------------------------------------------------------------------------
\* A token of the cache lives when it is given out, although the clock of its
\* lifetime started before its answer came; Vault's may not when its lease is
\* shorter than the least time the client keeps it (shared/src/vault.ts:66).  And
\* the one retry Vault's client makes is never with the token just refused,
\* whatever the other callers did to the cache meanwhile (vault.ts:120-123).
GivenOutAlive ==
    /\ (cached # 0 /\ now < keptUntil) =>
          IsLive(cached) \/ (kind = "vault" /\ issued[cached].life < MinLease + Skew)
    /\ \A c \in Callers :
          caller[c].at = "holds" => caller[c].token # caller[c].refused
=============================================================================
