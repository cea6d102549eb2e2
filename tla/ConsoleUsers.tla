--------------------------- MODULE ConsoleUsers ---------------------------
(***************************************************************************)
(* The console's users and sessions (console/server: users.ts, auth.ts and *)
(* the routes of index.ts).  A request is authenticated once, then each    *)
(* query of its handler is a step: the row is read, the active owners are  *)
(* counted, the row is written, the sessions are deleted.  A login reads   *)
(* the row, hashes, and inserts a session later.                           *)
(***************************************************************************)
EXTENDS Naturals, FiniteSets

CONSTANTS
    Users,           \* user ids, never reused (BIGSERIAL)
    FirstOwner,      \* the id of the owner the first boot creates
    MaxAdmins,       \* user-management requests handled at a time
    MaxSignIns,      \* logins handled at a time
    MaxConsoleCalls  \* requests in all

ASSUME ConsoleAssumption ==
    /\ FirstOwner \in Users
    /\ {MaxAdmins, MaxSignIns, MaxConsoleCalls} \subseteq Nat

VARIABLES
    account,      \* console.users: role, status and a counter for the password
    sessions,     \* console.sessions: user, the password it was opened with, and
                  \* whether a known gap let it outlive a change (for checking)
    admin,        \* user-management requests being handled, each with whether the
                  \* active owners changed since it looked (for checking)
    signIn,       \* logins being handled
    consoleCalls

consoleVars == <<account, sessions, admin, signIn, consoleCalls>>

Roles == {"viewer", "owner"}
NoAccount(state) == [state |-> state, role |-> "viewer", status |-> "disabled", pw |-> 0]
NewAccount(role) == [state |-> "row", role |-> role, status |-> "active", pw |-> 1]

Rows == {u \in Users : account[u].state = "row"}
IsActiveOwner(a) == a.role = "owner" /\ a.status = "active"
ActiveOwners == {u \in Rows : IsActiveOwner(account[u])}

Patches == {"demote", "promote", "disable", "enable", "password", "delete"}
NoRequest == [pc |-> "idle"]
AdminRequest(pc, u, patch) == [pc |-> pc, target |-> u, patch |-> patch, stale |-> FALSE]

\* resolveSession: an active account's, by what the row says now.
Signed(u) == \E s \in sessions : s.user = u /\ account[u].status = "active"
\* requireRole "owner"
Administers(u) == u \in ActiveOwners /\ Signed(u)
Session(u, pw, excused) == [user |-> u, pw |-> pw, excused |-> excused]
Counted == consoleCalls < MaxConsoleCalls /\ consoleCalls' = consoleCalls + 1

-----------------------------------------------------------------------------
(* PATCH and DELETE /api/users/:id *)

\* The preHandler, the role gate and the checks that need no query.
StartAdmin(k) ==
    /\ admin[k] = NoRequest /\ Counted
    /\ \E actor, u \in Users, patch \in Patches :
          /\ Administers(actor)
          /\ patch \in {"disable", "delete"} => u # actor
          /\ admin' = [admin EXCEPT ![k] = AdminRequest("target", u, patch)]
    /\ UNCHANGED <<account, sessions, signIn>>

\* Whether the last owner is at stake is not asked for a change of role (mutant).
RemovesOwnerButDemoted(patch, a) == patch \in {"disable", "delete"} /\ IsActiveOwner(a)
\* assertNotLastOwner runs for a demotion, a disabling or a deletion, and only
\* matters for an active owner.
RemovesOwner(patch, a) == patch \in {"demote", "disable", "delete"} /\ IsActiveOwner(a)

\* getById.
ReadTarget(k) ==
    /\ admin[k].pc = "target"
    /\ LET u == admin[k].target
           patch == admin[k].patch
       IN  admin' = [admin EXCEPT ![k] =
              IF u \notin Rows THEN NoRequest
              ELSE AdminRequest(IF RemovesOwner(patch, account[u]) THEN "count" ELSE "write",
                           u, patch)]
    /\ UNCHANGED <<account, sessions, signIn, consoleCalls>>

\* The count of active owners: refused if this is the last one.
CountOwners(k) ==
    /\ admin[k].pc = "count"
    /\ admin' = [admin EXCEPT ![k] =
          IF Cardinality(ActiveOwners) <= 1 THEN NoRequest
          ELSE AdminRequest("write", admin[k].target, admin[k].patch)]
    /\ UNCHANGED <<account, sessions, signIn, consoleCalls>>

Patched(a, patch) ==
    CASE patch = "demote" -> [a EXCEPT !.role = "viewer"]
      [] patch = "promote" -> [a EXCEPT !.role = "owner"]
      [] patch = "disable" -> [a EXCEPT !.status = "disabled"]
      [] patch = "enable" -> [a EXCEPT !.status = "active"]
      [] patch = "password" -> [a EXCEPT !.pw = @ + 1]
      [] patch = "delete" -> NoAccount("deleted")

\* A password reset leaves the sessions alone (mutant).
RevokesOnRoleOnly(patch) == patch \in {"demote", "promote", "disable"}
\* updateUser's revoke flag.
Revokes(patch) == patch \in {"demote", "promote", "disable", "password"}

\* A login of u that has read its row is overtaken by a write to it.
Overtaken(u) ==
    [k \in DOMAIN signIn |->
        IF signIn[k].pc = "create" /\ signIn[k].user = u
        THEN [signIn[k] EXCEPT !.excused = TRUE] ELSE signIn[k]]

\* A request about to write has looked at owners who are no longer the active ones.
Outdated(r) ==
    IF r.pc = "write" /\ ActiveOwners' # ActiveOwners THEN [r EXCEPT !.stale = TRUE] ELSE r

\* The UPDATE or the DELETE, which takes the sessions with it (CASCADE).  A row
\* that has gone meanwhile is not written.  Nothing locks what was read before.
WriteAccount(k) ==
    /\ admin[k].pc = "write"
    /\ LET u == admin[k].target
           patch == admin[k].patch
       IN  /\ account' = IF u \in Rows
                         THEN [account EXCEPT ![u] = Patched(@, patch)] ELSE account
           /\ sessions' = IF patch = "delete" THEN {s \in sessions : s.user # u} ELSE sessions
           /\ signIn' = Overtaken(u)
           /\ admin' = [j \in DOMAIN admin |->
                 IF j # k THEN Outdated(admin[j])
                 ELSE IF Revokes(patch) THEN AdminRequest("revoke", u, patch) ELSE NoRequest]
    /\ UNCHANGED consoleCalls

\* destroyUserSessions.
RevokeSessions(k) ==
    /\ admin[k].pc = "revoke"
    /\ sessions' = {s \in sessions : s.user # admin[k].target}
    /\ admin' = [admin EXCEPT ![k] = NoRequest]
    /\ UNCHANGED <<account, signIn, consoleCalls>>

-----------------------------------------------------------------------------
(* POST /api/users, /api/auth/login, /logout and /password *)

CreateUser ==
    /\ Counted
    /\ \E actor \in Users : Administers(actor)
    /\ \E u \in Users, role \in Roles :
          /\ account[u].state = "unborn"
          /\ account' = [account EXCEPT ![u] = NewAccount(role)]
    /\ UNCHANGED <<sessions, admin, signIn>>

\* login: an active account and its password.
StartLogin(k) ==
    /\ signIn[k] = NoRequest /\ Counted
    /\ \E u \in Rows :
          /\ account[u].status = "active"
          /\ signIn' = [signIn EXCEPT ![k] =
                [pc |-> "create", user |-> u, pw |-> account[u].pw, excused |-> FALSE]]
    /\ UNCHANGED <<account, sessions, admin>>

\* createSession: the foreign key refuses a user that has gone.
CreateSession(k) ==
    /\ signIn[k].pc = "create"
    /\ sessions' = IF signIn[k].user \in Rows
                   THEN sessions \cup {Session(signIn[k].user, signIn[k].pw, signIn[k].excused)}
                   ELSE sessions
    /\ signIn' = [signIn EXCEPT ![k] = NoRequest]
    /\ UNCHANGED <<account, admin, consoleCalls>>

\* changeOwnPassword: the user's other sessions stay.
ChangeOwnPassword ==
    /\ Counted
    /\ \E u \in Rows :
          /\ Signed(u)
          /\ account' = [account EXCEPT ![u].pw = @ + 1]
          /\ sessions' = {IF s.user = u THEN [s EXCEPT !.excused = TRUE] ELSE s : s \in sessions}
          /\ signIn' = Overtaken(u)
    /\ UNCHANGED admin

\* A logout, or the end of a session's lifetime.
EndSession ==
    /\ \E s \in sessions : sessions' = sessions \ {s}
    /\ UNCHANGED <<account, admin, signIn, consoleCalls>>

\* The console restarts: requests are lost, also between the UPDATE and the
\* deletion of the sessions, and an empty table gets an owner.
RestartConsole ==
    /\ admin' = [k \in DOMAIN admin |-> NoRequest]
    /\ signIn' = [k \in DOMAIN signIn |-> NoRequest]
    /\ account' = IF Rows = {} /\ \E u \in Users : account[u].state = "unborn"
                  THEN [account EXCEPT ![CHOOSE u \in Users : account[u].state = "unborn"]
                            = NewAccount("owner")]
                  ELSE account
    /\ sessions' = {IF \E k \in DOMAIN admin : /\ admin[k].pc = "revoke"
                                                /\ admin[k].target = s.user
                    THEN [s EXCEPT !.excused = TRUE] ELSE s : s \in sessions}
    /\ UNCHANGED consoleCalls

-----------------------------------------------------------------------------
\* The first boot: ensureBootstrapOwner creates the owner.
ConsoleInit ==
    /\ account = [u \in Users |-> IF u = FirstOwner THEN NewAccount("owner")
                                                    ELSE NoAccount("unborn")]
    /\ sessions = {}
    /\ admin = [k \in 1..MaxAdmins |-> NoRequest]
    /\ signIn = [k \in 1..MaxSignIns |-> NoRequest]
    /\ consoleCalls = 0

ConsoleNext ==
    \/ \E k \in 1..MaxAdmins : StartAdmin(k) \/ ReadTarget(k) \/ CountOwners(k)
                                 \/ WriteAccount(k) \/ RevokeSessions(k)
    \/ \E k \in 1..MaxSignIns : StartLogin(k) \/ CreateSession(k)
    \/ CreateUser \/ ChangeOwnPassword \/ EndSession \/ RestartConsole

ConsoleSpec == ConsoleInit /\ [][ConsoleNext]_consoleVars

-----------------------------------------------------------------------------
(* What the safety rails promise *)

\* users.ts:2 promises last-owner protection and assertNotLastOwner refuses to
\* "remove/demote/disable the last active owner": someone can always administer
\* the console.
SomeActiveOwner == ActiveOwners # {}

\* The active owners are counted in one query and the row is written in a later
\* one.  The last active owner goes only by a write whose request looked before
\* another one's write changed who the active owners are; no single request, and
\* no login, restart or change of a password, takes them.
LastOwnerLostByStaleWriteOnly ==
    [][ActiveOwners' = {} /\ ActiveOwners # {} =>
          \E k \in DOMAIN admin : /\ admin[k].pc = "write" /\ admin[k].stale
                                  /\ admin[k].target \in ActiveOwners
                                  /\ admin'[k].pc # "write"]_consoleVars

\* auth.ts:3 promises that changing a password deletes the sessions.  A session
\* opened with an earlier password outlives an administrator's reset only if its
\* login was overtaken by a write, its owner changed the password, or the console
\* stopped between the two statements of the reset.
ResetEndsSessions ==
    \A s \in sessions :
        s.pw < account[s.user].pw =>
            s.excused \/ \E k \in DOMAIN admin :
                            admin[k].pc = "revoke" /\ admin[k].target = s.user
=============================================================================
