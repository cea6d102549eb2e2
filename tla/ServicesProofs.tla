--------------------------- MODULE ServicesProofs ---------------------------
(***************************************************************************)
(* Proofs about the services and clients that share no state: the console's *)
(* users and sessions, the token caches of the clients, the post-quantum    *)
(* key of the anchor worker, the backups the console reports, the chain     *)
(* behind rpc-cache, and the gateway's anchors.                             *)
(***************************************************************************)
EXTENDS ConsoleUsers, TokenCache, AnchorKeys, BackupReport, ChainAccess, GapuraAnchors,
        FiniteSetTheorems, TLAPS

(***************************************************************************)
(* ConsoleUsers.  A session opened with an earlier password outlives a     *)
(* reset only for the reasons the property names, and the last active      *)
(* owner goes only by a stale write, however many requests overlap.        *)
(***************************************************************************)

Accounts == [state : {"unborn", "row", "deleted"}, role : Roles,
             status : {"active", "disabled"}, pw : Nat]
Sessions == [user : Users, pw : Nat \ {0}, excused : BOOLEAN]
PatchRequests == [pc : {"target", "count", "write", "revoke"}, target : Users, patch : Patches,
                  stale : BOOLEAN]
LoginRequests == [pc : {"create"}, user : Users, pw : Nat \ {0}, excused : BOOLEAN]

ConsoleTyped ==
  /\ account \in [Users -> Accounts]
  /\ \A u \in Rows : account[u].pw # 0
  /\ sessions \subseteq Sessions
  /\ admin \in [1 .. MaxAdmins -> {NoRequest} \cup PatchRequests]
  /\ signIn \in [1 .. MaxSignIns -> {NoRequest} \cup LoginRequests]

\* A login that no write overtook has read the password of now.
SignInOk ==
  \A k \in DOMAIN signIn :
    signIn[k].pc = "create" =>
      signIn[k].excused \/ ~(signIn[k].pw < account[signIn[k].user].pw)

\* A request is about to revoke the sessions of u.
Revoking(u) == \E k \in DOMAIN admin : admin[k].pc = "revoke" /\ admin[k].target = u
SessionOk(s) == s.pw < account[s.user].pw => s.excused \/ Revoking(s.user)

ResetInv == ConsoleTyped /\ SignInOk /\ \A s \in sessions : SessionOk(s)

\* What a patch does to a row.
LEMMA PatchDoes ==
  ASSUME NEW a \in Accounts, NEW patch \in Patches
  PROVE  /\ Patched(a, patch) \in Accounts
         /\ patch = "delete" => Patched(a, patch).state = "deleted" /\ Patched(a, patch).pw = 0
         /\ patch = "password" => Patched(a, patch).pw = a.pw + 1
         /\ patch # "delete" => Patched(a, patch).state = a.state
         /\ patch \notin {"delete", "password"} => Patched(a, patch).pw = a.pw
         /\ ~RemovesOwner(patch, a) /\ IsActiveOwner(a) => IsActiveOwner(Patched(a, patch))
<1>. USE DEF Accounts, Roles, IsActiveOwner, RemovesOwner
<1>1. CASE patch = "demote"
  <2>1. Patched(a, patch) = [a EXCEPT !.role = "viewer"] BY <1>1, Zenon DEF Patched
  <2>. QED BY <1>1, <2>1
<1>2. CASE patch = "promote"
  <2>1. Patched(a, patch) = [a EXCEPT !.role = "owner"] BY <1>2, Zenon DEF Patched
  <2>. QED BY <1>2, <2>1
<1>3. CASE patch = "disable"
  <2>1. Patched(a, patch) = [a EXCEPT !.status = "disabled"] BY <1>3, Zenon DEF Patched
  <2>. QED BY <1>3, <2>1
<1>4. CASE patch = "enable"
  <2>1. Patched(a, patch) = [a EXCEPT !.status = "active"] BY <1>4, Zenon DEF Patched
  <2>. QED BY <1>4, <2>1
<1>5. CASE patch = "password"
  <2>1. Patched(a, patch) = [a EXCEPT !.pw = @ + 1] BY <1>5, Zenon DEF Patched
  <2>. QED BY <1>5, <2>1
<1>6. CASE patch = "delete"
  <2>1. Patched(a, patch) = NoAccount("deleted") BY <1>6, Zenon DEF Patched
  <2>. QED BY <1>6, <2>1 DEF NoAccount
<1>. QED BY <1>1, <1>2, <1>3, <1>4, <1>5, <1>6 DEF Patches

LEMMA ConsoleStarts == ConsoleInit => ResetInv
<1>. SUFFICES ASSUME ConsoleInit PROVE ResetInv OBVIOUS
<1>1. account \in [Users -> Accounts] /\ \A u \in Users : account[u].state = "row" => account[u].pw # 0
  BY DEF ConsoleInit, Accounts, Roles, NewAccount, NoAccount
<1>. QED BY <1>1 DEF ConsoleInit, ResetInv, ConsoleTyped, SignInOk, Rows, NoRequest

-----------------------------------------------------------------------------
\* Request k becomes a; the others stay.
AdminTurns(k, a) ==
  /\ k \in DOMAIN admin /\ DOMAIN admin' = DOMAIN admin
  /\ admin' \in [1 .. MaxAdmins -> {NoRequest} \cup PatchRequests]
  /\ admin'[k] = a /\ \A j \in DOMAIN admin : j # k => admin'[j] = admin[j]

LEMMA SetAdmin ==
  ASSUME ConsoleTyped, NEW k \in 1 .. MaxAdmins, NEW a \in {NoRequest} \cup PatchRequests,
         admin' = [admin EXCEPT ![k] = a]
  PROVE  AdminTurns(k, a)
BY DEF ConsoleTyped, AdminTurns

\* A request at a step after the first is a patch to an account.
LEMMA AdminAtWork ==
  ASSUME ConsoleTyped, NEW k \in 1 .. MaxAdmins, admin[k].pc # "idle"
  PROVE  admin[k] \in PatchRequests /\ admin[k].target \in Users /\ admin[k].patch \in Patches
<1>1. admin[k] \in PatchRequests BY DEF ConsoleTyped, NoRequest
<1>. QED BY <1>1 DEF PatchRequests

\* The steps of a patch before its write only move the request; none of them is at
\* the revocation before or after.
LEMMA StartDoes ==
  ASSUME ConsoleTyped, NEW k \in 1 .. MaxAdmins, StartAdmin(k)
  PROVE  /\ UNCHANGED <<account, sessions, signIn>> /\ admin[k].pc = "idle"
         /\ \E a \in PatchRequests : AdminTurns(k, a) /\ a.pc = "target"
<1>1. PICK u \in Users, patch \in Patches :
        admin' = [admin EXCEPT ![k] = AdminRequest("target", u, patch)]
  BY DEF StartAdmin
<1>2. AdminRequest("target", u, patch) \in PatchRequests
      /\ AdminRequest("target", u, patch).pc = "target"
  BY DEF AdminRequest, PatchRequests
<1>3. AdminTurns(k, AdminRequest("target", u, patch)) BY <1>1, <1>2, SetAdmin
<1>4. admin[k].pc = "idle" BY DEF StartAdmin, NoRequest
<1>. QED BY <1>2, <1>3, <1>4 DEF StartAdmin

LEMMA ReadDoes ==
  ASSUME ConsoleTyped, NEW k \in 1 .. MaxAdmins, ReadTarget(k)
  PROVE  /\ UNCHANGED <<account, sessions, signIn>> /\ admin[k].pc = "target"
         /\ \/ AdminTurns(k, NoRequest)
            \/ /\ admin[k].target \in Rows
               /\ \/ AdminTurns(k, AdminRequest("count", admin[k].target, admin[k].patch))
                  \/ /\ AdminTurns(k, AdminRequest("write", admin[k].target, admin[k].patch))
                     /\ ~RemovesOwner(admin[k].patch, account[admin[k].target])
<1>1. admin[k].target \in Users /\ admin[k].patch \in Patches BY AdminAtWork DEF ReadTarget
<1>. DEFINE a(pc) == AdminRequest(pc, admin[k].target, admin[k].patch)
<1>2. a("count") \in PatchRequests /\ a("write") \in PatchRequests
  BY <1>1 DEF AdminRequest, PatchRequests
<1>. HIDE DEF a
<1>3. \/ admin' = [admin EXCEPT ![k] = NoRequest]
      \/ admin[k].target \in Rows /\ admin' = [admin EXCEPT ![k] = a("count")]
      \/ /\ admin[k].target \in Rows /\ admin' = [admin EXCEPT ![k] = a("write")]
         /\ ~RemovesOwner(admin[k].patch, account[admin[k].target])
  BY DEF ReadTarget, a
<1>4. \/ AdminTurns(k, NoRequest)
      \/ /\ admin[k].target \in Rows
         /\ \/ AdminTurns(k, a("count"))
            \/ /\ AdminTurns(k, a("write"))
               /\ ~RemovesOwner(admin[k].patch, account[admin[k].target])
  BY <1>2, <1>3, SetAdmin
<1>. QED BY <1>4 DEF ReadTarget, a

LEMMA CountDoes ==
  ASSUME ConsoleTyped, NEW k \in 1 .. MaxAdmins, CountOwners(k)
  PROVE  /\ UNCHANGED <<account, sessions, signIn>> /\ admin[k].pc = "count"
         /\ \/ AdminTurns(k, NoRequest)
            \/ /\ AdminTurns(k, AdminRequest("write", admin[k].target, admin[k].patch))
               /\ ~(Cardinality(ActiveOwners) <= 1)
<1>1. admin[k] \in PatchRequests BY AdminAtWork DEF CountOwners
<1>. DEFINE a == AdminRequest("write", admin[k].target, admin[k].patch)
<1>2. a \in PatchRequests BY <1>1 DEF AdminRequest, PatchRequests
<1>3. \/ admin' = [admin EXCEPT ![k] = NoRequest]
      \/ admin' = [admin EXCEPT ![k] = a] /\ ~(Cardinality(ActiveOwners) <= 1)
  BY DEF CountOwners
<1>. HIDE DEF a
<1>4. AdminTurns(k, NoRequest) \/ (AdminTurns(k, a) /\ ~(Cardinality(ActiveOwners) <= 1))
  BY <1>2, <1>3, SetAdmin
<1>. QED BY <1>4 DEF CountOwners, a

\* What a write leaves of the sign-ins: those of u are overtaken, the others stay.
LEMMA OvertakenIs ==
  ASSUME ConsoleTyped, NEW u, signIn' = Overtaken(u)
  PROVE  /\ signIn' \in [1 .. MaxSignIns -> {NoRequest} \cup LoginRequests]
         /\ DOMAIN signIn' = DOMAIN signIn
         /\ \A j \in DOMAIN signIn :
              /\ signIn'[j].pc = signIn[j].pc
              /\ signIn[j].pc = "create" =>
                   /\ signIn'[j].user = signIn[j].user /\ signIn'[j].pw = signIn[j].pw
                   /\ signIn[j].excused => signIn'[j].excused
                   /\ signIn[j].user = u => signIn'[j].excused
<1>1. ASSUME NEW j \in DOMAIN signIn
      PROVE  /\ signIn'[j] \in {NoRequest} \cup LoginRequests
             /\ signIn'[j].pc = signIn[j].pc
             /\ signIn[j].pc = "create" =>
                  /\ signIn'[j].user = signIn[j].user /\ signIn'[j].pw = signIn[j].pw
                  /\ signIn[j].excused => signIn'[j].excused
                  /\ signIn[j].user = u => signIn'[j].excused
  <2>1. signIn[j] = NoRequest \/ signIn[j] \in LoginRequests BY DEF ConsoleTyped
  <2>2. CASE signIn[j] = NoRequest BY <2>2 DEF Overtaken, NoRequest
  <2>3. CASE signIn[j] \in LoginRequests BY <2>3 DEF Overtaken, LoginRequests
  <2>. QED BY <2>1, <2>2, <2>3
<1>2. DOMAIN signIn' = DOMAIN signIn /\ DOMAIN signIn = 1 .. MaxSignIns
  BY DEF Overtaken, ConsoleTyped
<1>3. signIn' \in [1 .. MaxSignIns -> {NoRequest} \cup LoginRequests]
  BY <1>1, <1>2 DEF Overtaken
<1>. QED BY <1>1, <1>2, <1>3

\* Request k becomes a; of the others, those about to write are stale when the
\* active owners changed.
OthersOutdated(k, a) ==
  /\ DOMAIN admin' = DOMAIN admin
  /\ admin' \in [1 .. MaxAdmins -> {NoRequest} \cup PatchRequests]
  /\ admin'[k] = a
  /\ \A j \in DOMAIN admin : j # k =>
       /\ admin'[j].pc = admin[j].pc
       /\ admin[j].pc # "idle" =>
            /\ admin'[j].target = admin[j].target /\ admin'[j].patch = admin[j].patch
            /\ admin'[j].stale \/ admin'[j].stale = admin[j].stale
       /\ admin[j].pc = "write" /\ ActiveOwners' # ActiveOwners => admin'[j].stale

\* The write changes the target's row, if there is one, by the patch, and goes on to
\* the revocation where updateUser asks for it.
LEMMA WriteDoes ==
  ASSUME ConsoleTyped, NEW k \in 1 .. MaxAdmins, WriteAccount(k),
         NEW u \in Users, u = admin[k].target, NEW patch \in Patches, patch = admin[k].patch
  PROVE  /\ admin[k].pc = "write"
         /\ account' = IF u \in Rows THEN [account EXCEPT ![u] = Patched(@, patch)] ELSE account
         /\ sessions' = IF patch = "delete" THEN {s \in sessions : s.user # u} ELSE sessions
         /\ signIn' = Overtaken(u)
         /\ IF Revokes(patch) THEN OthersOutdated(k, AdminRequest("revoke", u, patch))
                              ELSE OthersOutdated(k, NoRequest)
<1>. DEFINE a == IF Revokes(patch) THEN AdminRequest("revoke", u, patch) ELSE NoRequest
<1>1. a \in {NoRequest} \cup PatchRequests BY DEF AdminRequest, PatchRequests
<1>2. admin' = [j \in DOMAIN admin |-> IF j # k THEN Outdated(admin[j]) ELSE a]
  BY DEF WriteAccount
<1>. HIDE DEF a
<1>3. ASSUME NEW j \in DOMAIN admin
      PROVE  /\ Outdated(admin[j]) \in {NoRequest} \cup PatchRequests
             /\ Outdated(admin[j]).pc = admin[j].pc
             /\ admin[j].pc # "idle" =>
                  /\ Outdated(admin[j]).target = admin[j].target
                  /\ Outdated(admin[j]).patch = admin[j].patch
                  /\ Outdated(admin[j]).stale \/ Outdated(admin[j]).stale = admin[j].stale
             /\ admin[j].pc = "write" /\ ActiveOwners' # ActiveOwners => Outdated(admin[j]).stale
  <2>1. admin[j] = NoRequest \/ admin[j] \in PatchRequests BY DEF ConsoleTyped
  <2>2. CASE admin[j] = NoRequest BY <2>2 DEF Outdated, NoRequest
  <2>3. CASE admin[j] \in PatchRequests BY <2>3 DEF Outdated, PatchRequests
  <2>. QED BY <2>1, <2>2, <2>3
<1>4. DOMAIN admin = 1 .. MaxAdmins BY DEF ConsoleTyped
<1>5. admin' \in [1 .. MaxAdmins -> {NoRequest} \cup PatchRequests] BY <1>1, <1>2, <1>3, <1>4
<1>6. admin'[k] = a /\ \A j \in DOMAIN admin : j # k => admin'[j] = Outdated(admin[j])
  BY <1>2, <1>4
<1>7. OthersOutdated(k, a) BY <1>3, <1>4, <1>5, <1>6, Zenon DEF OthersOutdated
<1>. QED BY <1>7 DEF WriteAccount, a

\* The rows after the write.
LEMMA WrittenRows ==
  ASSUME ConsoleTyped, NEW u \in Users, NEW patch \in Patches,
         account' = IF u \in Rows THEN [account EXCEPT ![u] = Patched(@, patch)] ELSE account
  PROVE  /\ account' \in [Users -> Accounts]
         /\ \A v \in Rows' : account'[v].pw # 0
         /\ \A v \in Users : v # u => account'[v] = account[v]
         /\ account'[u] = account[u] \/ (u \in Rows /\ account'[u] = Patched(account[u], patch))
         /\ patch \notin {"delete", "password"} => account'[u].pw = account[u].pw
<1>1. account[u] \in Accounts BY DEF ConsoleTyped
<1>2. CASE u \in Rows
  <2>1. account' = [account EXCEPT ![u] = Patched(account[u], patch)] BY <1>2
  <2>2. account' \in [Users -> Accounts] BY <1>1, <2>1, PatchDoes DEF ConsoleTyped
  <2>3. ASSUME NEW v \in Rows' PROVE account'[v].pw # 0
    <3>1. CASE v # u BY <2>1, <2>3, <3>1 DEF ConsoleTyped, Rows
    <3>2. CASE v = u
      <4>1. account'[u] = Patched(account[u], patch) BY <2>1 DEF ConsoleTyped
      <4>2. account[u].pw \in Nat /\ account[u].pw # 0
        BY <1>1, <1>2 DEF Accounts, ConsoleTyped
      <4>3. patch # "delete" BY <2>3, <3>2, <4>1, <1>1, PatchDoes DEF Rows
      <4>. QED BY <1>1, <3>2, <4>1, <4>2, <4>3, PatchDoes
    <3>. QED BY <3>1, <3>2
  <2>. QED BY <1>1, <1>2, <2>1, <2>2, <2>3, PatchDoes DEF ConsoleTyped
<1>3. CASE u \notin Rows BY <1>3 DEF ConsoleTyped, Rows
<1>. QED BY <1>2, <1>3

-----------------------------------------------------------------------------
\* A step that changes neither rows nor sessions nor sign-ins, and starts or ends no
\* revocation, keeps ResetInv.
LEMMA AdminOnly ==
  ASSUME ResetInv, UNCHANGED <<account, sessions, signIn>>,
         NEW k \in 1 .. MaxAdmins, admin[k].pc # "revoke", NEW a, AdminTurns(k, a)
  PROVE  ResetInv'
<1>1. ConsoleTyped' BY DEF ResetInv, ConsoleTyped, Rows, AdminTurns
<1>2. SignInOk' BY DEF ResetInv, SignInOk
<1>3. ASSUME NEW u, Revoking(u) PROVE Revoking(u)'
  BY <1>3 DEF Revoking, AdminTurns
<1>4. ASSUME NEW s \in sessions PROVE SessionOk(s)' BY <1>3 DEF ResetInv, SessionOk
<1>. QED BY <1>1, <1>2, <1>4 DEF ResetInv

LEMMA WriteKeepsReset ==
  ASSUME ResetInv, NEW k \in 1 .. MaxAdmins, WriteAccount(k)
  PROVE  ResetInv'
<1>. USE DEF ResetInv
<1>1. PICK u \in Users, patch \in Patches : u = admin[k].target /\ patch = admin[k].patch
  BY AdminAtWork DEF WriteAccount
<1>2. /\ admin[k].pc = "write"
      /\ account' = IF u \in Rows THEN [account EXCEPT ![u] = Patched(@, patch)] ELSE account
      /\ sessions' = IF patch = "delete" THEN {s \in sessions : s.user # u} ELSE sessions
      /\ signIn' = Overtaken(u)
      /\ IF Revokes(patch) THEN OthersOutdated(k, AdminRequest("revoke", u, patch))
                           ELSE OthersOutdated(k, NoRequest)
  BY <1>1, WriteDoes
<1>3. /\ account' \in [Users -> Accounts]
      /\ \A v \in Rows' : account'[v].pw # 0
      /\ \A v \in Users : v # u => account'[v] = account[v]
      /\ account'[u] = account[u] \/ (u \in Rows /\ account'[u] = Patched(account[u], patch))
      /\ patch \notin {"delete", "password"} => account'[u].pw = account[u].pw
  BY <1>1, <1>2, WrittenRows
<1>4. /\ signIn' \in [1 .. MaxSignIns -> {NoRequest} \cup LoginRequests]
      /\ DOMAIN signIn' = DOMAIN signIn
      /\ \A j \in DOMAIN signIn :
           /\ signIn'[j].pc = signIn[j].pc
           /\ signIn[j].pc = "create" =>
                /\ signIn'[j].user = signIn[j].user /\ signIn'[j].pw = signIn[j].pw
                /\ signIn[j].excused => signIn'[j].excused
                /\ signIn[j].user = u => signIn'[j].excused
  BY <1>2, OvertakenIs
<1>5. sessions' \subseteq sessions BY <1>2
<1>6. ConsoleTyped' BY <1>2, <1>3, <1>4, <1>5 DEF ConsoleTyped, OthersOutdated
<1>7. SignInOk'
  <2>. SUFFICES ASSUME NEW j \in DOMAIN signIn, signIn[j].pc = "create", ~signIn'[j].excused
                PROVE  ~(signIn'[j].pw < account'[signIn'[j].user].pw)
    BY <1>4 DEF SignInOk
  <2>1. signIn[j].user \in Users BY DEF ConsoleTyped, LoginRequests, NoRequest
  <2>2. signIn[j].user # u /\ ~signIn[j].excused BY <1>4
  <2>. QED BY <1>3, <1>4, <2>1, <2>2 DEF SignInOk
<1>8. ASSUME NEW v, Revoking(v) PROVE Revoking(v)'
  <2>1. PICK j \in DOMAIN admin : admin[j].pc = "revoke" /\ admin[j].target = v
    BY <1>8 DEF Revoking
  <2>2. j # k BY <1>2, <2>1
  <2>. QED BY <1>2, <2>1, <2>2 DEF Revoking, OthersOutdated
<1>9. ASSUME NEW s \in sessions' PROVE SessionOk(s)'
  <2>1. s \in sessions /\ s.user \in Users BY <1>5 DEF ConsoleTyped, Sessions
  <2>2. CASE s.user # u BY <1>3, <1>8, <2>1, <2>2 DEF SessionOk
  <2>3. CASE s.user = u /\ patch = "password"
    <3>1. OthersOutdated(k, AdminRequest("revoke", u, patch)) BY <1>2, <2>3 DEF Revokes
    <3>2. k \in DOMAIN admin' BY <3>1 DEF OthersOutdated, ConsoleTyped
    <3>. QED BY <2>3, <3>1, <3>2 DEF SessionOk, Revoking, OthersOutdated, AdminRequest
  <2>4. CASE s.user = u /\ patch # "password"
    <3>1. patch # "delete" BY <1>2, <2>4
    <3>2. account'[u].pw = account[u].pw BY <1>3, <2>4, <3>1
    <3>. QED BY <1>8, <2>1, <2>4, <3>2 DEF SessionOk
  <2>. QED BY <2>2, <2>3, <2>4
<1>. QED BY <1>6, <1>7, <1>9

LEMMA RevokeKeepsReset ==
  ASSUME ResetInv, NEW k \in 1 .. MaxAdmins, RevokeSessions(k)
  PROVE  ResetInv'
<1>. USE DEF ResetInv
<1>1. AdminTurns(k, NoRequest) BY SetAdmin DEF RevokeSessions
<1>2. ConsoleTyped' BY <1>1 DEF RevokeSessions, ConsoleTyped, Rows, AdminTurns
<1>3. SignInOk' BY DEF RevokeSessions, SignInOk
<1>4. ASSUME NEW s \in sessions' PROVE SessionOk(s)'
  <2>1. s \in sessions /\ s.user # admin[k].target BY DEF RevokeSessions
  <2>2. Revoking(s.user) => Revoking(s.user)' BY <1>1, <2>1 DEF Revoking, AdminTurns
  <2>. QED BY <2>1, <2>2 DEF SessionOk, RevokeSessions
<1>. QED BY <1>2, <1>3, <1>4

\* A new account's password is the first: nothing was opened with an earlier one.
LEMMA NewRow ==
  ASSUME ConsoleTyped, NEW u \in Users, NEW role \in Roles,
         account' = [account EXCEPT ![u] = NewAccount(role)]
  PROVE  /\ account' \in [Users -> Accounts]
         /\ \A v \in Rows' : account'[v].pw # 0
         /\ \A v \in Users : v # u => account'[v] = account[v]
         /\ \A v \in Users, pw \in Nat \ {0} :
              pw < account'[v].pw => v # u /\ account'[v] = account[v]
<1>1. NewAccount(role) \in Accounts /\ NewAccount(role).pw = 1
  BY DEF NewAccount, Accounts
<1>2. /\ account' \in [Users -> Accounts] /\ account'[u].pw = 1
      /\ \A v \in Users : v # u => account'[v] = account[v]
  BY <1>1 DEF ConsoleTyped
<1>3. \A v \in Rows' : account'[v].pw # 0 BY <1>2 DEF ConsoleTyped, Rows
<1>. QED BY <1>2, <1>3

\* Accounts of which none has a new password that the sessions and sign-ins lack.
LEMMA RowsChange ==
  ASSUME ResetInv, ConsoleTyped', UNCHANGED <<sessions, admin, signIn>>,
         \A v \in Users, pw \in Nat \ {0} : pw < account'[v].pw => pw < account[v].pw
  PROVE  ResetInv'
<1>. USE DEF ResetInv
<1>1. SignInOk'
  <2>. SUFFICES ASSUME NEW j \in DOMAIN signIn, signIn[j].pc = "create"
                PROVE  signIn[j].excused \/ ~(signIn[j].pw < account'[signIn[j].user].pw)
    BY DEF SignInOk
  <2>1. signIn[j] \in LoginRequests BY DEF ConsoleTyped, NoRequest
  <2>2. signIn[j].user \in Users /\ signIn[j].pw \in Nat \ {0} BY <2>1 DEF LoginRequests
  <2>. QED BY <2>2 DEF SignInOk
<1>2. ASSUME NEW s \in sessions PROVE SessionOk(s)'
  <2>1. s.user \in Users /\ s.pw \in Nat \ {0} BY DEF ConsoleTyped, Sessions
  <2>. QED BY <2>1 DEF SessionOk, Revoking
<1>. QED BY <1>1, <1>2

LEMMA CreateKeepsReset == ResetInv /\ CreateUser => ResetInv'
<1>. SUFFICES ASSUME ResetInv, CreateUser PROVE ResetInv' OBVIOUS
<1>1. PICK u \in Users, role \in Roles : account' = [account EXCEPT ![u] = NewAccount(role)]
  BY DEF CreateUser
<1>2. ConsoleTyped' BY <1>1, NewRow DEF CreateUser, ResetInv, ConsoleTyped
<1>3. \A v \in Users, pw \in Nat \ {0} : pw < account'[v].pw => pw < account[v].pw
  BY <1>1, NewRow DEF ResetInv
<1>. QED BY <1>2, <1>3, RowsChange DEF CreateUser

LEMMA LoginKeepsReset ==
  ASSUME ResetInv, NEW k \in 1 .. MaxSignIns, StartLogin(k)
  PROVE  ResetInv'
<1>. USE DEF ResetInv
<1>1. PICK u \in Rows :
        signIn' = [signIn EXCEPT ![k] =
                     [pc |-> "create", user |-> u, pw |-> account[u].pw, excused |-> FALSE]]
  BY DEF StartLogin
<1>. DEFINE c == [pc |-> "create", user |-> u, pw |-> account[u].pw, excused |-> FALSE]
<1>2. c \in LoginRequests /\ ~(c.pw < account[c.user].pw)
  <2>1. u \in Users /\ account[u].pw \in Nat \ {0} BY DEF ConsoleTyped, Rows, Accounts
  <2>. QED BY <2>1 DEF LoginRequests
<1>. HIDE DEF c
<1>3. ConsoleTyped' BY <1>1, <1>2 DEF StartLogin, ConsoleTyped, Rows, c
<1>4. SignInOk'
  <2>1. DOMAIN signIn' = DOMAIN signIn /\ signIn'[k] = c
        /\ \A j \in DOMAIN signIn : j # k => signIn'[j] = signIn[j]
    BY <1>1 DEF ConsoleTyped, c
  <2>. QED BY <1>2, <2>1 DEF StartLogin, SignInOk
<1>5. ASSUME NEW s \in sessions PROVE SessionOk(s)' BY DEF StartLogin, SessionOk, Revoking
<1>. QED BY <1>3, <1>4, <1>5 DEF StartLogin

LEMMA SessionKeepsReset ==
  ASSUME ResetInv, NEW k \in 1 .. MaxSignIns, CreateSession(k)
  PROVE  ResetInv'
<1>. USE DEF ResetInv
<1>1. signIn[k] \in LoginRequests BY DEF CreateSession, ConsoleTyped, NoRequest
<1>. DEFINE s0 == Session(signIn[k].user, signIn[k].pw, signIn[k].excused)
<1>2. s0 \in Sessions /\ SessionOk(s0)
  BY <1>1 DEF LoginRequests, Session, Sessions, SessionOk, SignInOk, CreateSession, ConsoleTyped
<1>. HIDE DEF s0
<1>3. sessions' \subseteq sessions \cup {s0} BY DEF CreateSession, s0
<1>4. ConsoleTyped' BY <1>2, <1>3 DEF CreateSession, ConsoleTyped, Rows
<1>5. SignInOk' BY DEF CreateSession, SignInOk, ConsoleTyped, NoRequest
<1>6. ASSUME NEW s \in sessions' PROVE SessionOk(s)'
  BY <1>2, <1>3 DEF CreateSession, SessionOk, Revoking
<1>. QED BY <1>4, <1>5, <1>6

\* The caller's sessions, this one among them, are excused; so are its sign-ins.
LEMMA OwnPasswordKeepsReset == ResetInv /\ ChangeOwnPassword => ResetInv'
<1>. SUFFICES ASSUME ResetInv, ChangeOwnPassword PROVE ResetInv' OBVIOUS
<1>. USE DEF ResetInv
<1>1. PICK u \in Rows :
        /\ account' = [account EXCEPT ![u].pw = @ + 1]
        /\ sessions' = {IF s.user = u THEN [s EXCEPT !.excused = TRUE] ELSE s : s \in sessions}
        /\ signIn' = Overtaken(u)
  BY DEF ChangeOwnPassword
<1>2. /\ account' \in [Users -> Accounts]
      /\ \A v \in Rows' : account'[v].pw # 0
      /\ \A v \in Users : v # u => account'[v] = account[v]
  <2>1. u \in Users /\ account[u] \in Accounts /\ account[u].pw \in Nat
    BY DEF ConsoleTyped, Rows, Accounts
  <2>2. [account[u] EXCEPT !.pw = @ + 1] \in Accounts
        /\ [account[u] EXCEPT !.pw = @ + 1].pw = account[u].pw + 1
    BY <2>1 DEF Accounts
  <2>3. account' = [account EXCEPT ![u] = [account[u] EXCEPT !.pw = @ + 1]]
    BY <1>1, <2>1 DEF ConsoleTyped
  <2>. QED BY <2>1, <2>2, <2>3 DEF ConsoleTyped, Rows
<1>3. /\ signIn' \in [1 .. MaxSignIns -> {NoRequest} \cup LoginRequests]
      /\ DOMAIN signIn' = DOMAIN signIn
      /\ \A j \in DOMAIN signIn :
           /\ signIn'[j].pc = signIn[j].pc
           /\ signIn[j].pc = "create" =>
                /\ signIn'[j].user = signIn[j].user /\ signIn'[j].pw = signIn[j].pw
                /\ signIn[j].excused => signIn'[j].excused
                /\ signIn[j].user = u => signIn'[j].excused
  BY <1>1, OvertakenIs
<1>4. ASSUME NEW s \in sessions' PROVE s \in Sessions /\ SessionOk(s)'
  <2>1. PICK r \in sessions : s = IF r.user = u THEN [r EXCEPT !.excused = TRUE] ELSE r
    BY <1>1
  <2>2. r \in Sessions /\ SessionOk(r) /\ r.user \in Users BY DEF ConsoleTyped, Sessions
  <2>3. CASE r.user = u BY <2>1, <2>2, <2>3 DEF SessionOk, Sessions
  <2>4. CASE r.user # u
    BY <1>2, <2>1, <2>2, <2>4 DEF SessionOk, Revoking, ChangeOwnPassword
  <2>. QED BY <2>3, <2>4
<1>5. ConsoleTyped' BY <1>2, <1>3, <1>4 DEF ConsoleTyped, ChangeOwnPassword
<1>6. SignInOk'
  <2>. SUFFICES ASSUME NEW j \in DOMAIN signIn, signIn[j].pc = "create", ~signIn'[j].excused
                PROVE  ~(signIn'[j].pw < account'[signIn'[j].user].pw)
    BY <1>3 DEF SignInOk
  <2>1. signIn[j].user \in Users BY DEF ConsoleTyped, LoginRequests, NoRequest
  <2>2. signIn[j].user # u /\ ~signIn[j].excused BY <1>3
  <2>. QED BY <1>2, <1>3, <2>1, <2>2 DEF SignInOk
<1>. QED BY <1>4, <1>5, <1>6

LEMMA EndKeepsReset == ResetInv /\ EndSession => ResetInv'
<1>. SUFFICES ASSUME ResetInv, EndSession PROVE ResetInv' OBVIOUS
<1>1. sessions' \subseteq sessions BY DEF EndSession
<1>2. ConsoleTyped' BY <1>1 DEF ResetInv, EndSession, ConsoleTyped, Rows
<1>. QED BY <1>1, <1>2 DEF ResetInv, EndSession, SignInOk, SessionOk, Revoking

\* A revocation the restart loses is what the sessions it meant are excused for.
LEMMA RestartKeepsReset == ResetInv /\ RestartConsole => ResetInv'
<1>. SUFFICES ASSUME ResetInv, RestartConsole PROVE ResetInv' OBVIOUS
<1>. USE DEF ResetInv
<1>1. /\ account' \in [Users -> Accounts]
      /\ \A v \in Rows' : account'[v].pw # 0
      /\ \A v \in Users, pw \in Nat \ {0} : pw < account'[v].pw => account'[v] = account[v]
  <2>1. CASE account' = account BY <2>1 DEF ConsoleTyped, Rows
  <2>2. CASE account' # account
    <3>. DEFINE u == CHOOSE v \in Users : account[v].state = "unborn"
    <3>1. account' = [account EXCEPT ![u] = NewAccount("owner")] /\ u \in Users
      BY <2>2 DEF RestartConsole
    <3>. HIDE DEF u
    <3>2. "owner" \in Roles BY DEF Roles
    <3>. QED BY <3>1, <3>2, NewRow
  <2>. QED BY <2>1, <2>2
<1>2. ASSUME NEW s \in sessions' PROVE s \in Sessions /\ SessionOk(s)'
  <2>1. PICK r \in sessions :
          s = IF Revoking(r.user) THEN [r EXCEPT !.excused = TRUE] ELSE r
    BY DEF RestartConsole, Revoking
  <2>2. r \in Sessions /\ SessionOk(r) /\ r.user \in Users /\ r.pw \in Nat \ {0}
    BY DEF ConsoleTyped, Sessions
  <2>3. CASE Revoking(r.user) BY <2>1, <2>2, <2>3 DEF SessionOk, Sessions
  <2>4. CASE ~Revoking(r.user) BY <1>1, <2>1, <2>2, <2>4 DEF SessionOk
  <2>. QED BY <2>3, <2>4
<1>3. /\ admin' \in [1 .. MaxAdmins -> {NoRequest}] /\ signIn' \in [1 .. MaxSignIns -> {NoRequest}]
  BY DEF RestartConsole, ConsoleTyped
<1>4. ConsoleTyped' BY <1>1, <1>2, <1>3 DEF ConsoleTyped
<1>5. SignInOk' BY <1>3 DEF SignInOk, NoRequest
<1>. QED BY <1>2, <1>4, <1>5

LEMMA ConsoleKeeps == ResetInv /\ [ConsoleNext]_consoleVars => ResetInv'
<1>. SUFFICES ASSUME ResetInv, [ConsoleNext]_consoleVars PROVE ResetInv' OBVIOUS
<1>1. ASSUME NEW k \in 1 .. MaxAdmins, StartAdmin(k) PROVE ResetInv'
  BY <1>1, StartDoes, AdminOnly DEF ResetInv
<1>2. ASSUME NEW k \in 1 .. MaxAdmins, ReadTarget(k) PROVE ResetInv'
  BY <1>2, ReadDoes, AdminOnly DEF ResetInv
<1>3. ASSUME NEW k \in 1 .. MaxAdmins, CountOwners(k) PROVE ResetInv'
  BY <1>3, CountDoes, AdminOnly DEF ResetInv
<1>4. ASSUME NEW k \in 1 .. MaxAdmins, WriteAccount(k) PROVE ResetInv'
  BY <1>4, WriteKeepsReset
<1>5. ASSUME NEW k \in 1 .. MaxAdmins, RevokeSessions(k) PROVE ResetInv'
  BY <1>5, RevokeKeepsReset
<1>6. ASSUME NEW k \in 1 .. MaxSignIns, StartLogin(k) \/ CreateSession(k) PROVE ResetInv'
  BY <1>6, LoginKeepsReset, SessionKeepsReset
<1>7. CASE CreateUser BY <1>7, CreateKeepsReset
<1>8. CASE ChangeOwnPassword BY <1>8, OwnPasswordKeepsReset
<1>9. CASE EndSession BY <1>9, EndKeepsReset
<1>10. CASE RestartConsole BY <1>10, RestartKeepsReset
<1>11. CASE UNCHANGED consoleVars
  BY <1>11 DEF consoleVars, ResetInv, ConsoleTyped, Rows, SignInOk, SessionOk, Revoking
<1>. QED BY <1>1, <1>2, <1>3, <1>4, <1>5, <1>6, <1>7, <1>8, <1>9, <1>10, <1>11 DEF ConsoleNext

\* auth.ts:3 promises that a reset of a password ends the sessions opened with the old
\* one; for every number of users, requests and logins at a time, a session outlives
\* the reset only if it is excused or its revocation is still to come.
THEOREM ResetEnds == ConsoleSpec => []ResetEndsSessions
<1>1. ResetInv => ResetEndsSessions BY DEF ResetInv, SessionOk, Revoking, ResetEndsSessions
<1>. QED BY ConsoleStarts, ConsoleKeeps, <1>1, PTL DEF ConsoleSpec

-----------------------------------------------------------------------------
(***************************************************************************)
(* The last owner.  Between the query a request decided by and its write   *)
(* another one may write; while none has changed the active owners, what   *)
(* assertNotLastOwner counted still holds.                                 *)
(***************************************************************************)
\* An owner other than u.
OwnerBesides(u, owners) == \E w \in owners : w # u

\* The patch would take an owner.
TakesOwner(a, owners) == a.patch \in {"demote", "disable", "delete"} /\ a.target \in owners

\* A request about to write has seen its target's row, and unless it is stale
\* there is an owner besides the one it takes.
PatchOk(a, rows, owners) ==
  a.pc \in {"count", "write"} =>
    /\ rows[a.target].state # "unborn"
    /\ a.pc = "write" /\ ~a.stale /\ TakesOwner(a, owners) => OwnerBesides(a.target, owners)
OwnerInv == \A k \in DOMAIN admin : PatchOk(admin[k], account, ActiveOwners)

\* More than one owner leaves another one.
LEMMA Another ==
  ASSUME NEW u, ~(Cardinality(ActiveOwners) <= 1)
  PROVE  OwnerBesides(u, ActiveOwners)
<1>1. ActiveOwners # {} BY FS_EmptySet
<1>2. ActiveOwners # {u} BY FS_Singleton
<1>. QED BY <1>1, <1>2 DEF OwnerBesides

\* A request at rest, or before its first query, has nothing to keep.
LEMMA NothingToKeep ==
  ASSUME NEW a, a.pc \notin {"count", "write"}, NEW rows, NEW owners
  PROVE  PatchOk(a, rows, owners)
BY DEF PatchOk

\* One request moves and the rows stay.
LEMMA AdminMoves ==
  ASSUME OwnerInv, UNCHANGED account,
         NEW k \in 1 .. MaxAdmins, NEW a, AdminTurns(k, a), PatchOk(a, account, ActiveOwners)
  PROVE  OwnerInv' /\ ActiveOwners' = ActiveOwners
<1>1. ActiveOwners' = ActiveOwners BY DEF ActiveOwners, Rows
<1>2. \A j \in DOMAIN admin' : PatchOk(admin'[j], account, ActiveOwners)
  BY DEF OwnerInv, AdminTurns
<1>. QED BY <1>1, <1>2 DEF OwnerInv

LEMMA ReadKeepsOwner ==
  ASSUME ConsoleTyped, OwnerInv, NEW k \in 1 .. MaxAdmins, ReadTarget(k)
  PROVE  OwnerInv' /\ ActiveOwners' = ActiveOwners
<1>. DEFINE u == admin[k].target
            patch == admin[k].patch
<1>1. UNCHANGED account
      /\ \/ AdminTurns(k, NoRequest)
         \/ /\ u \in Rows
            /\ \/ AdminTurns(k, AdminRequest("count", u, patch))
               \/ /\ AdminTurns(k, AdminRequest("write", u, patch))
                  /\ ~RemovesOwner(patch, account[u])
  BY ReadDoes
<1>2. PatchOk(NoRequest, account, ActiveOwners) BY NothingToKeep DEF NoRequest
<1>3. u \in Rows => PatchOk(AdminRequest("count", u, patch), account, ActiveOwners)
  BY DEF PatchOk, AdminRequest, Rows
<1>4. u \in Rows /\ ~RemovesOwner(patch, account[u])
        => PatchOk(AdminRequest("write", u, patch), account, ActiveOwners)
  BY DEF PatchOk, AdminRequest, TakesOwner, RemovesOwner, ActiveOwners, Rows
<1>. HIDE DEF u, patch
<1>. QED BY <1>1, <1>2, <1>3, <1>4, AdminMoves

LEMMA CountKeepsOwner ==
  ASSUME ConsoleTyped, OwnerInv, NEW k \in 1 .. MaxAdmins, CountOwners(k)
  PROVE  OwnerInv' /\ ActiveOwners' = ActiveOwners
<1>. DEFINE a == AdminRequest("write", admin[k].target, admin[k].patch)
<1>1. UNCHANGED account /\ admin[k].pc = "count"
      /\ \/ AdminTurns(k, NoRequest)
         \/ AdminTurns(k, a) /\ ~(Cardinality(ActiveOwners) <= 1)
  BY CountDoes
<1>2. PatchOk(NoRequest, account, ActiveOwners) BY NothingToKeep DEF NoRequest
<1>3. account[admin[k].target].state # "unborn"
  BY <1>1 DEF OwnerInv, PatchOk, ConsoleTyped
<1>4. ~(Cardinality(ActiveOwners) <= 1) => PatchOk(a, account, ActiveOwners)
  BY <1>3, Another DEF PatchOk, AdminRequest
<1>. HIDE DEF a
<1>. QED BY <1>1, <1>2, <1>4, AdminMoves

\* A write that leaves no owner was one that looked before the owners changed.
LEMMA WriteKeepsOwner ==
  ASSUME ConsoleTyped, OwnerInv, NEW k \in 1 .. MaxAdmins, WriteAccount(k)
  PROVE  /\ OwnerInv'
         /\ ActiveOwners # {} /\ ActiveOwners' = {} =>
              /\ admin[k].pc = "write" /\ admin[k].stale
              /\ admin[k].target \in ActiveOwners /\ admin'[k].pc # "write"
<1>1. PICK u \in Users, patch \in Patches : u = admin[k].target /\ patch = admin[k].patch
  BY AdminAtWork DEF WriteAccount
<1>2. /\ admin[k].pc = "write"
      /\ account' = IF u \in Rows THEN [account EXCEPT ![u] = Patched(@, patch)] ELSE account
      /\ \E a : OthersOutdated(k, a) /\ a.pc \notin {"count", "write"}
  <2>1. /\ AdminRequest("revoke", u, patch).pc \notin {"count", "write"}
        /\ NoRequest.pc \notin {"count", "write"}
    BY DEF AdminRequest, NoRequest
  <2>2. /\ admin[k].pc = "write"
        /\ account' = IF u \in Rows THEN [account EXCEPT ![u] = Patched(@, patch)] ELSE account
        /\ \/ OthersOutdated(k, AdminRequest("revoke", u, patch))
           \/ OthersOutdated(k, NoRequest)
    BY <1>1, WriteDoes
  <2>. QED BY <2>1, <2>2
<1>3. PICK a : OthersOutdated(k, a) /\ a.pc \notin {"count", "write"} BY <1>2
<1>4. /\ account[u] \in Accounts
      /\ \A v \in Users : v # u => account'[v] = account[v]
      /\ account'[u] = account[u] \/ (u \in Rows /\ account'[u] = Patched(account[u], patch))
  BY <1>2, WrittenRows DEF ConsoleTyped
<1>5. \A v \in Users : account[v].state # "unborn" => account'[v].state # "unborn"
  <2>1. account'[u].state = "deleted" \/ account'[u].state = account[u].state
    BY <1>4, PatchDoes
  <2>. QED BY <1>4, <2>1
<1>6. \A v \in ActiveOwners : v # u => v \in ActiveOwners' BY <1>4 DEF ActiveOwners, Rows
<1>7. ~TakesOwner(admin[k], ActiveOwners) => ActiveOwners \subseteq ActiveOwners'
  <2>. SUFFICES ASSUME ~TakesOwner(admin[k], ActiveOwners), u \in ActiveOwners
                PROVE  u \in ActiveOwners'
    BY <1>6
  <2>1. IsActiveOwner(account[u]) /\ account[u].state = "row" BY DEF ActiveOwners, Rows
  <2>2. patch \notin {"demote", "disable", "delete"} BY <1>1 DEF TakesOwner
  <2>3. IsActiveOwner(account'[u]) BY <1>4, <2>1, <2>2, PatchDoes DEF RemovesOwner
  <2>4. account'[u].state = "row" BY <1>4, <2>1, <2>2, PatchDoes
  <2>. QED BY <2>3, <2>4 DEF ActiveOwners, Rows
<1>8. ASSUME NEW j \in DOMAIN admin' PROVE PatchOk(admin'[j], account', ActiveOwners')
  <2>1. CASE j = k BY <1>3, <2>1, NothingToKeep DEF OthersOutdated
  <2>2. CASE j # k
    <3>. SUFFICES ASSUME admin'[j].pc \in {"count", "write"}
                  PROVE  PatchOk(admin'[j], account', ActiveOwners')
      BY NothingToKeep
    <3>1. j \in 1 .. MaxAdmins /\ j \in DOMAIN admin BY <1>3 DEF OthersOutdated, ConsoleTyped
    <3>2. /\ admin'[j].pc = admin[j].pc /\ admin[j].pc # "idle"
          /\ admin'[j].target = admin[j].target /\ admin'[j].patch = admin[j].patch
          /\ admin'[j].stale \/ admin'[j].stale = admin[j].stale
          /\ admin[j].pc = "write" /\ ActiveOwners' # ActiveOwners => admin'[j].stale
      BY <1>3, <2>2, <3>1 DEF OthersOutdated
    <3>3. admin[j].target \in Users BY <3>1, <3>2, AdminAtWork
    <3>4. PatchOk(admin[j], account, ActiveOwners) BY <3>1 DEF OwnerInv
    <3>5. account'[admin'[j].target].state # "unborn" BY <1>5, <3>2, <3>3, <3>4 DEF PatchOk
    <3>6. CASE ActiveOwners' = ActiveOwners
      BY <3>2, <3>4, <3>5, <3>6 DEF PatchOk, TakesOwner
    <3>7. CASE ActiveOwners' # ActiveOwners BY <3>2, <3>5, <3>7 DEF PatchOk
    <3>. QED BY <3>6, <3>7
  <2>. QED BY <2>1, <2>2
<1>9. ASSUME ActiveOwners # {}, ActiveOwners' = {}
      PROVE  admin[k].stale /\ u \in ActiveOwners
  <2>1. TakesOwner(admin[k], ActiveOwners) BY <1>7, <1>9
  <2>2. ~OwnerBesides(u, ActiveOwners) BY <1>6, <1>9 DEF OwnerBesides
  <2>3. PatchOk(admin[k], account, ActiveOwners) BY DEF OwnerInv, ConsoleTyped
  <2>. QED BY <1>1, <1>2, <2>1, <2>2, <2>3 DEF PatchOk, TakesOwner
<1>10. admin'[k].pc # "write" BY <1>3 DEF OthersOutdated
<1>. QED BY <1>1, <1>2, <1>8, <1>9, <1>10 DEF OwnerInv

\* New rows and new passwords take no owner and make none of a row already there.
LEMMA RowsKeepOwner ==
  ASSUME ConsoleTyped, OwnerInv, UNCHANGED admin,
         \A v \in Users : account[v].state # "unborn" =>
           /\ account'[v].state = account[v].state /\ account'[v].role = account[v].role
           /\ account'[v].status = account[v].status
  PROVE  OwnerInv' /\ ActiveOwners \subseteq ActiveOwners'
<1>1. ActiveOwners \subseteq ActiveOwners' BY DEF ActiveOwners, Rows, IsActiveOwner
<1>2. ASSUME NEW j \in DOMAIN admin PROVE PatchOk(admin[j], account', ActiveOwners')
  <2>. SUFFICES ASSUME admin[j].pc \in {"count", "write"}
                PROVE  PatchOk(admin[j], account', ActiveOwners')
    BY NothingToKeep
  <2>1. admin[j].target \in Users /\ PatchOk(admin[j], account, ActiveOwners)
    BY AdminAtWork DEF OwnerInv, ConsoleTyped
  <2>2. account[admin[j].target].state # "unborn" BY <2>1 DEF PatchOk
  <2>3. admin[j].target \in ActiveOwners' => admin[j].target \in ActiveOwners
    BY <2>1, <2>2 DEF ActiveOwners, Rows, IsActiveOwner
  <2>. QED BY <1>1, <2>1, <2>2, <2>3 DEF PatchOk, TakesOwner, OwnerBesides
<1>. QED BY <1>1, <1>2 DEF OwnerInv

\* assertNotLastOwner refuses to take the last active owner; for every number of users,
\* logins and overlapping requests, that owner goes only by a request that looked before another
\* one changed the active owners.
THEOREM LastOwnerStays == ConsoleSpec => LastOwnerLostByStaleWriteOnly
<1>. DEFINE Stays == ActiveOwners' = {} /\ ActiveOwners # {} =>
                       \E k \in DOMAIN admin : /\ admin[k].pc = "write" /\ admin[k].stale
                                               /\ admin[k].target \in ActiveOwners
                                               /\ admin'[k].pc # "write"
<1>1. ConsoleInit => OwnerInv BY DEF ConsoleInit, OwnerInv, PatchOk, NoRequest
<1>2. ResetInv /\ OwnerInv /\ [ConsoleNext]_consoleVars => OwnerInv' /\ [Stays]_consoleVars
  <2>. SUFFICES ASSUME ResetInv, OwnerInv, [ConsoleNext]_consoleVars PROVE OwnerInv' /\ Stays
    OBVIOUS
  <2>. USE DEF ResetInv
  <2>1. ASSUME NEW k \in 1 .. MaxAdmins, StartAdmin(k) PROVE OwnerInv' /\ Stays
    <3>1. PICK a \in PatchRequests : AdminTurns(k, a) /\ a.pc = "target" BY <2>1, StartDoes
    <3>2. PatchOk(a, account, ActiveOwners) BY <3>1, NothingToKeep
    <3>3. UNCHANGED account BY <2>1, StartDoes
    <3>. QED BY <3>1, <3>2, <3>3, AdminMoves
  <2>2. ASSUME NEW k \in 1 .. MaxAdmins, ReadTarget(k) PROVE OwnerInv' /\ Stays
    BY <2>2, ReadKeepsOwner
  <2>3. ASSUME NEW k \in 1 .. MaxAdmins, CountOwners(k) PROVE OwnerInv' /\ Stays
    BY <2>3, CountKeepsOwner
  <2>4. ASSUME NEW k \in 1 .. MaxAdmins, WriteAccount(k) PROVE OwnerInv' /\ Stays
    <3>1. k \in DOMAIN admin BY DEF ConsoleTyped
    <3>. QED BY <2>4, <3>1, WriteKeepsOwner
  <2>5. ASSUME NEW k \in 1 .. MaxAdmins, RevokeSessions(k) PROVE OwnerInv' /\ Stays
    <3>1. AdminTurns(k, NoRequest) BY <2>5, SetAdmin DEF RevokeSessions
    <3>2. PatchOk(NoRequest, account, ActiveOwners) BY NothingToKeep DEF NoRequest
    <3>. QED BY <2>5, <3>1, <3>2, AdminMoves DEF RevokeSessions
  <2>6. ASSUME NEW k \in 1 .. MaxSignIns, StartLogin(k) \/ CreateSession(k)
        PROVE  OwnerInv' /\ Stays
    BY <2>6, RowsKeepOwner DEF StartLogin, CreateSession
  <2>7. CASE CreateUser
    <3>1. PICK u \in Users, role \in Roles :
            account[u].state = "unborn" /\ account' = [account EXCEPT ![u] = NewAccount(role)]
      BY <2>7 DEF CreateUser
    <3>. QED BY <2>7, <3>1, RowsKeepOwner DEF CreateUser, ConsoleTyped
  <2>8. CASE ChangeOwnPassword
    <3>1. PICK u \in Rows : account' = [account EXCEPT ![u].pw = @ + 1]
      BY <2>8 DEF ChangeOwnPassword
    <3>2. \A v \in Users : /\ account'[v].state = account[v].state
                           /\ account'[v].role = account[v].role
                           /\ account'[v].status = account[v].status
      BY <3>1 DEF Rows, ConsoleTyped, Accounts
    <3>. QED BY <2>8, <3>2, RowsKeepOwner DEF ChangeOwnPassword
  <2>9. CASE EndSession BY <2>9, RowsKeepOwner DEF EndSession
  <2>10. CASE RestartConsole
    <3>1. \A k \in DOMAIN admin' : PatchOk(admin'[k], account', ActiveOwners')
      <4>1. \A k \in DOMAIN admin' : admin'[k] = NoRequest BY <2>10 DEF RestartConsole
      <4>2. PatchOk(NoRequest, account', ActiveOwners') BY NothingToKeep DEF NoRequest
      <4>. QED BY <4>1, <4>2
    <3>2. Stays
      <4>1. CASE Rows = {} BY <4>1 DEF ActiveOwners
      <4>2. CASE Rows # {}
        <5>1. account' = account BY <2>10, <4>2 DEF RestartConsole
        <5>. QED BY <5>1 DEF ActiveOwners, Rows
      <4>. QED BY <4>1, <4>2
    <3>. QED BY <3>1, <3>2 DEF OwnerInv
  <2>11. CASE UNCHANGED consoleVars BY <2>11, RowsKeepOwner DEF consoleVars
  <2>. QED BY <2>1, <2>2, <2>3, <2>4, <2>5, <2>6, <2>7, <2>8, <2>9, <2>10, <2>11 DEF ConsoleNext
<1>. QED BY ConsoleStarts, ConsoleKeeps, <1>1, <1>2, PTL
         DEF ConsoleSpec, LastOwnerLostByStaleWriteOnly

-----------------------------------------------------------------------------
(***************************************************************************)
(* TokenCache.  A token given out lives, and Vault's retry is never with   *)
(* the token just refused, for every number of callers and lifetimes.      *)
(***************************************************************************)

TokenCalls == [at : {"rest", "waits", "holds", "retry"}, token : Nat, refused : Nat]
TokenTyped ==
  /\ kind \in Kinds /\ now \in Nat /\ keptUntil \in Int
  /\ \E n \in Nat : Logins = 1 .. n
  /\ issued \in [Logins -> [at : Nat, life : Nat]]
  /\ login \in {0} \cup Logins /\ cached \in {0} \cup Logins
  /\ caller \in [Callers -> TokenCalls]

\* An answer that is still to come is not later than MaxDelay, and nobody has it yet.
LoginOk == login # 0 => now <= issued[login].at + MaxDelay /\ cached # login

\* What is given out has not expired, but for a short lease of Vault's.
KeptOk ==
  cached # 0 =>
    \/ keptUntil <= now
    \/ keptUntil <= issued[cached].at + issued[cached].life
    \/ kind = "vault" /\ issued[cached].life < MinLease + Skew

\* A token a caller holds has been answered; the one it was refused is not cached and
\* will not be the next answer.
CallOk(c) ==
  /\ c.at = "holds" => c.token \in Logins \ {login} /\ c.token # c.refused
  /\ c.refused # 0 => c.refused \in Logins \ {login, cached}

TokenInv == TokenTyped /\ LoginOk /\ KeptOk /\ \A c \in Callers : CallOk(caller[c])

LEMMA Numbers ==
  ASSUME TokenTyped
  PROVE  Logins \subseteq Nat \ {0} /\ 0 \notin Logins /\ login \in Nat /\ cached \in Nat
BY DEF TokenTyped

\* A new login has a number no login had, and the earlier ones stay.
LEMMA NewLogin ==
  ASSUME TokenTyped, NEW l \in Nat, login' = Cardinality(Logins) + 1,
         issued' = [t \in Logins \cup {login'} |->
                      IF t = login' THEN [at |-> now, life |-> l] ELSE issued[t]]
  PROVE  /\ login' \in Nat \ {0} /\ login' \notin Logins /\ Logins' = Logins \cup {login'}
         /\ \E n \in Nat : Logins' = 1 .. n
         /\ issued' \in [Logins' -> [at : Nat, life : Nat]]
         /\ issued'[login'] = [at |-> now, life |-> l]
         /\ \A t \in Logins : issued'[t] = issued[t]
<1>1. PICK n \in Nat : Logins = 1 .. n BY DEF TokenTyped
<1>2. Cardinality(Logins) = n
  <2>1. Cardinality(1 .. n) = IF 1 > n THEN 0 ELSE n - 1 + 1 BY FS_Interval
  <2> QED BY <1>1, <2>1
<1>3. login' = n + 1 BY <1>2
<1>4. login' \notin Logins /\ login' \in Nat \ {0} BY <1>1, <1>3
<1>5. Logins' = Logins \cup {login'} BY DEF Logins
<1>6. Logins' = 1 .. n + 1 BY <1>1, <1>3, <1>5
<1>7. /\ issued'[login'] = [at |-> now, life |-> l]
      /\ \A t \in Logins : issued'[t] = issued[t]
  BY <1>4
<1>8. issued' \in [Logins' -> [at : Nat, life : Nat]]
  BY <1>5 DEF TokenTyped, Logins
<1>9. \E m \in Nat : Logins' = 1 .. m
  <2>1. n + 1 \in Nat BY <1>1
  <2> QED BY <1>6, <2>1, Zenon
<1>. QED BY <1>4, <1>5, <1>7, <1>8, <1>9, Zenon

\* How long the three clients keep a token: never beyond its end by more than the
\* answer took, but for Python's that is not kept at all and Vault's short leases.
LEMMA KeepsAtMost ==
  ASSUME kind \in Kinds, NEW life \in Nat
  PROVE  /\ Keeps(life) \in Int
         /\ \/ Keeps(life) <= life - Skew
            \/ Keeps(life) <= 0
            \/ kind = "vault" /\ life < MinLease + Skew
<1>. USE TokenAssumption
<1>1. ASSUME NEW a \in Int, NEW b \in Int PROVE Max({a, b}) = a \/ Max({a, b}) = b
  <2>1. \E x \in {a, b} : \A y \in {a, b} : x >= y BY SMT
  <2>. QED BY <2>1, Zenon DEF Max
<1>2. CASE kind = "ts"
  <2>1. Keeps(life) = TsKeeps(life) BY <1>2, Zenon DEF Keeps
  <2>. QED BY <2>1 DEF TsKeeps
<1>3. CASE kind = "py"
  <2>1. Keeps(life) = PyKeeps(life) BY <1>3, Zenon DEF Keeps
  <2>2. life - Skew \in Int /\ 0 \in Int OBVIOUS
  <2>3. PyKeeps(life) \in {life - Skew, 0} BY <1>1, <2>2 DEF PyKeeps
  <2>. QED BY <2>1, <2>3
<1>4. CASE kind = "vault"
  <2>1. Keeps(life) = VaultKeeps(life) BY <1>4, Zenon DEF Keeps
  <2>2. life - Skew \in Int /\ MinLease \in Int OBVIOUS
  <2>3. \E x \in {MinLease, life - Skew} : \A y \in {MinLease, life - Skew} : x >= y BY <2>2, SMT
  <2>4. VaultKeeps(life) \in {MinLease, life - Skew}
        /\ \A y \in {MinLease, life - Skew} : VaultKeeps(life) >= y
    BY <2>3, Zenon DEF VaultKeeps, Max
  <2>. QED BY <1>4, <2>1, <2>2, <2>4
<1>. QED BY <1>2, <1>3, <1>4 DEF Kinds

\* A caller's new place; the others stay.
CallTurns(c, x) ==
  /\ x \in TokenCalls /\ caller' \in [Callers -> TokenCalls] /\ caller'[c] = x
  /\ \A d \in Callers : d # c => caller'[d] = caller[d]

LEMMA SetCaller ==
  ASSUME TokenTyped, NEW c \in Callers, NEW x \in TokenCalls, caller' = [caller EXCEPT ![c] = x]
  PROVE  CallTurns(c, x)
BY DEF TokenTyped, CallTurns

LEMMA AskKeeps ==
  ASSUME TokenInv, NEW c \in Callers, Ask(c)
  PROVE  TokenInv'
<1>. USE DEF TokenInv
<1>1. caller[c] \in TokenCalls BY DEF TokenTyped
<1>2. CASE cached # 0 /\ now < keptUntil
  <2>. DEFINE x == [caller[c] EXCEPT !.at = "holds", !.token = cached]
  <2>1. x \in TokenCalls /\ x.at = "holds" /\ x.token = cached /\ x.refused = caller[c].refused
    BY <1>1, <1>2, Numbers DEF TokenCalls
  <2>2. caller' = [caller EXCEPT ![c] = x] BY <1>1, <1>2 DEF Ask, TokenCalls, TokenTyped
  <2>. HIDE DEF x
  <2>3. CallTurns(c, x) BY <2>1, <2>2, SetCaller
  <2>4. cached \in Logins \ {login} BY <1>2 DEF TokenTyped, LoginOk
  <2>5. cached # x.refused BY <1>2, <2>1 DEF CallOk
  <2>6. CallOk(x) BY <2>1, <2>4, <2>5 DEF CallOk
  <2>7. UNCHANGED <<kind, now, issued, login, cached, keptUntil>> BY <1>2 DEF Ask
  <2>8. TokenTyped' BY <2>3, <2>7 DEF TokenTyped, CallTurns, Logins
  <2>9. \A d \in Callers : CallOk(caller'[d]) BY <2>3, <2>6 DEF CallTurns
  <2>. QED BY <2>7, <2>8, <2>9 DEF CallOk, LoginOk, KeptOk, Logins
<1>3. CASE ~(cached # 0 /\ now < keptUntil)
  <2>. DEFINE x == [caller[c] EXCEPT !.at = "waits"]
  <2>1. x \in TokenCalls /\ x.at = "waits" /\ x.refused = caller[c].refused
    BY <1>1 DEF TokenCalls
  <2>2. caller' = [caller EXCEPT ![c] = x] BY <1>1, <1>3 DEF Ask, TokenCalls, TokenTyped
  <2>. HIDE DEF x
  <2>3. CallTurns(c, x) BY <2>1, <2>2, SetCaller
  <2>4. UNCHANGED <<kind, now, cached, keptUntil>> BY DEF Ask
  <2>5. PICK y : y = x /\ CallOk(y) BY <2>1 DEF CallOk
  <2>6. CASE login # 0
    <3>1. UNCHANGED <<issued, login>> BY <1>3, <2>6 DEF Ask
    <3>2. TokenTyped' BY <2>3, <2>4, <3>1 DEF TokenTyped, CallTurns, Logins
    <3>3. \A d \in Callers : CallOk(caller'[d]) BY <2>3, <2>5 DEF CallTurns
    <3>. QED BY <2>4, <3>1, <3>2, <3>3 DEF CallOk, LoginOk, KeptOk, Logins
  <2>7. CASE login = 0
    <3>1. PICK l \in Lifetimes :
            /\ login' = Cardinality(Logins) + 1
            /\ issued' = [t \in Logins \cup {login'} |->
                            IF t = login' THEN [at |-> now, life |-> l] ELSE issued[t]]
      BY <1>3, <2>7 DEF Ask
    <3>2. l \in Nat BY TokenAssumption
    <3>3. /\ login' \in Nat \ {0} /\ login' \notin Logins /\ Logins' = Logins \cup {login'}
          /\ \E n \in Nat : Logins' = 1 .. n
          /\ issued' \in [Logins' -> [at : Nat, life : Nat]]
          /\ issued'[login'] = [at |-> now, life |-> l]
          /\ \A t \in Logins : issued'[t] = issued[t]
      BY <3>1, <3>2, NewLogin
    <3>4. TokenTyped' BY <2>3, <2>4, <3>3 DEF TokenTyped, CallTurns
    <3>5. LoginOk'
      BY <2>4, <3>3, TokenAssumption DEF LoginOk, TokenTyped
    <3>6. KeptOk' BY <2>4, <3>3 DEF KeptOk, TokenTyped
    <3>7. ASSUME NEW z, CallOk(z) PROVE CallOk(z)' BY <2>4, <3>3, <3>7 DEF CallOk
    <3>8. (\A d \in Callers : CallOk(caller[d]))' BY <2>3, <2>5, <3>7 DEF CallTurns
    <3>. QED BY <3>4, <3>5, <3>6, <3>8
  <2>. QED BY <2>6, <2>7 
<1>. QED BY <1>2, <1>3

LEMMA AnswerKeeps == TokenInv /\ LoginAnswers => TokenInv'
<1>. SUFFICES ASSUME TokenInv, LoginAnswers PROVE TokenInv' OBVIOUS
<1>. USE DEF TokenInv
<1>1. /\ login # 0 /\ login \in Logins /\ login' = 0 /\ cached' = login
      /\ keptUntil' = now + Keeps(issued[login].life) /\ UNCHANGED <<kind, now, issued>>
  BY DEF LoginAnswers, TokenTyped
<1>. DEFINE life == issued[login].life
<1>2. issued[login].at \in Nat /\ life \in Nat /\ now \in Nat /\ kind \in Kinds
  BY <1>1 DEF TokenTyped
<1>3. /\ Keeps(life) \in Int
      /\ \/ Keeps(life) <= life - Skew
         \/ Keeps(life) <= 0
         \/ kind = "vault" /\ life < MinLease + Skew
  BY <1>2, KeepsAtMost
<1>4. LoginOk' BY <1>1 DEF LoginOk
<1>5. KeptOk'
  <2>1. now <= issued[login].at + MaxDelay BY <1>1 DEF LoginOk
  <2>. QED BY <1>1, <1>2, <1>3, <2>1, TokenAssumption DEF KeptOk
<1>6. ASSUME NEW c \in Callers PROVE caller'[c] \in TokenCalls /\ CallOk(caller[c])'
  <2>1. caller[c] \in TokenCalls BY DEF TokenTyped
  <2>2. 0 \notin Logins BY DEF TokenTyped
  <2>3. CASE c \in Waiting
    <3>1. caller'[c] = [caller[c] EXCEPT !.at = "holds", !.token = login]
      BY <2>3 DEF LoginAnswers
    <3>2. /\ caller'[c] \in TokenCalls /\ caller'[c].token = login
          /\ caller'[c].refused = caller[c].refused
      BY <1>1, <2>1, <3>1, Numbers DEF TokenCalls
    <3>3. login # caller[c].refused BY <1>1 DEF CallOk
    <3>4. caller[c].refused # 0 => caller[c].refused \in Logins \ {login} BY DEF CallOk
    <3>. QED BY <1>1, <2>2, <3>2, <3>3, <3>4 DEF CallOk, Logins
  <2>4. CASE c \notin Waiting
    <3>1. caller'[c] = caller[c] BY <2>4 DEF LoginAnswers
    <3>. QED BY <1>1, <2>1, <2>2, <3>1 DEF CallOk, Logins
  <2>. QED BY <2>3, <2>4
<1>7. caller' \in [Callers -> TokenCalls] BY <1>6 DEF LoginAnswers
<1>8. TokenTyped' BY <1>1, <1>2, <1>3, <1>7 DEF TokenTyped, Logins
<1>. QED BY <1>4, <1>5, <1>6, <1>8

LEMMA FailKeeps == TokenInv /\ LoginFails => TokenInv'
<1>. SUFFICES ASSUME TokenInv, LoginFails PROVE TokenInv' OBVIOUS
<1>. USE DEF TokenInv
<1>1. login' = 0 /\ UNCHANGED <<kind, now, issued, cached, keptUntil>> BY DEF LoginFails
<1>2. ASSUME NEW c \in Callers PROVE caller'[c] \in TokenCalls /\ CallOk(caller[c])'
  <2>1. caller'[c] = AtRest \/ caller'[c] = caller[c] BY DEF LoginFails
  <2>2. AtRest \in TokenCalls /\ AtRest.at = "rest" /\ AtRest.refused = 0
    BY DEF AtRest, TokenCalls
  <2>3. 0 \notin Logins BY DEF TokenTyped
  <2>. QED BY <1>1, <2>1, <2>2, <2>3 DEF CallOk, Logins, TokenTyped
<1>3. caller' \in [Callers -> TokenCalls] BY <1>2 DEF LoginFails
<1>4. TokenTyped' BY <1>1, <1>3 DEF TokenTyped, Logins
<1>. QED BY <1>1, <1>2, <1>4 DEF LoginOk, KeptOk

LEMMA UseKeeps ==
  ASSUME TokenInv, NEW c \in Callers, Use(c)
  PROVE  TokenInv'
<1>. USE DEF TokenInv
<1>1. caller[c] \in TokenCalls /\ caller[c].at = "holds" BY DEF TokenTyped, Use
<1>2. UNCHANGED <<kind, now, issued, login, keptUntil>> BY DEF Use
<1>3. CASE IsLive(caller[c].token) \/ kind # "vault" \/ caller[c].refused # 0
  <2>1. AtRest \in TokenCalls /\ CallOk(AtRest) BY DEF AtRest, TokenCalls, CallOk
  <2>2. CallTurns(c, AtRest) /\ cached' = cached BY <1>3, <2>1, SetCaller DEF Use
  <2>3. TokenTyped' BY <1>2, <2>2 DEF TokenTyped, CallTurns, Logins
  <2>4. \A d \in Callers : CallOk(caller'[d]) BY <2>1, <2>2 DEF CallTurns
  <2>. QED BY <1>2, <2>2, <2>3, <2>4 DEF CallOk, LoginOk, KeptOk, Logins
<1>4. CASE ~(IsLive(caller[c].token) \/ kind # "vault" \/ caller[c].refused # 0)
  <2>1. PICK x \in TokenCalls :
          /\ x.at = "retry" /\ x.refused = caller[c].token
          /\ x = [caller[c] EXCEPT !.at = "retry", !.refused = caller[c].token]
    BY <1>1 DEF TokenCalls
  <2>2. caller' = [caller EXCEPT ![c] = x] /\ cached' = 0
    BY <1>1, <1>4, <2>1 DEF Use, TokenCalls, TokenTyped, RetryCache
  <2>3. CallTurns(c, x) BY <2>1, <2>2, SetCaller
  <2>4. TokenTyped' BY <1>2, <2>2, <2>3 DEF TokenTyped, CallTurns, Logins
  <2>5. 0 \notin Logins BY DEF TokenTyped
  <2>6. caller[c].token \in Logins \ {login} BY <1>1 DEF CallOk
  <2>7. CallOk(x)' BY <1>2, <2>1, <2>2, <2>5, <2>6 DEF CallOk, Logins
  <2>8. ASSUME NEW y, CallOk(y) PROVE CallOk(y)'
    BY <1>2, <2>2, <2>5, <2>8 DEF CallOk, Logins
  <2>9. (\A d \in Callers : CallOk(caller[d]))' BY <2>3, <2>7, <2>8 DEF CallTurns
  <2>. QED BY <1>2, <2>2, <2>4, <2>9 DEF LoginOk, KeptOk
<1>. QED BY <1>3, <1>4

LEMMA TickKeeps == TokenInv /\ Tick => TokenInv'
<1>. SUFFICES ASSUME TokenInv, Tick PROVE TokenInv' OBVIOUS
<1>. USE DEF TokenInv
<1>1. now' = now + 1 /\ UNCHANGED <<kind, issued, login, cached, keptUntil, caller>> BY DEF Tick
<1>2. TokenTyped' BY <1>1 DEF TokenTyped, Logins
<1>3. LoginOk'
  <2>1. login # 0 => issued[login].at \in Nat BY DEF TokenTyped
  <2>. QED BY <1>1, <2>1, TokenAssumption DEF Tick, LoginOk, TokenTyped
<1>4. KeptOk' BY <1>1 DEF KeptOk, TokenTyped
<1>. QED BY <1>1, <1>2, <1>3, <1>4 DEF CallOk, Logins

\* The caches renew a token Skew before its end, counted from the arrival of its answer
\* (client.ts, client.py, vault.ts): a token given out lives, whatever its lifetime and
\* however many callers share the login, if answers take no longer than Skew; and the
\* retry after Vault's refusal is never with the refused token.
THEOREM TokensGivenOutLive == TokenSpec => []GivenOutAlive
<1>1. TokenInit => TokenInv
  <2>. SUFFICES ASSUME TokenInit PROVE TokenInv OBVIOUS
  <2>1. AtRest \in TokenCalls /\ CallOk(AtRest) BY DEF AtRest, TokenCalls, CallOk
  <2>2. Logins = 1 .. 0 BY DEF TokenInit, Logins
  <2>3. TokenTyped BY <2>1, <2>2 DEF TokenInit, TokenTyped, Logins
  <2>. QED BY <2>1, <2>3 DEF TokenInit, TokenInv, LoginOk, KeptOk
<1>2. TokenInv /\ [TokenNext]_tokenVars => TokenInv'
  <2>. SUFFICES ASSUME TokenInv, [TokenNext]_tokenVars PROVE TokenInv' OBVIOUS
  <2>1. ASSUME NEW c \in Callers, Ask(c) \/ Use(c) PROVE TokenInv'
    BY <2>1, AskKeeps, UseKeeps
  <2>2. CASE LoginAnswers BY <2>2, AnswerKeeps
  <2>3. CASE LoginFails BY <2>3, FailKeeps
  <2>4. CASE Tick BY <2>4, TickKeeps
  <2>5. CASE UNCHANGED tokenVars
    BY <2>5 DEF tokenVars, TokenInv, TokenTyped, LoginOk, KeptOk, CallOk, Logins
  <2>. QED BY <2>1, <2>2, <2>3, <2>4, <2>5 DEF TokenNext
<1>3. TokenInv => GivenOutAlive
  <2>. SUFFICES ASSUME TokenInv PROVE GivenOutAlive OBVIOUS
  <2>1. cached # 0 /\ now < keptUntil =>
          IsLive(cached) \/ (kind = "vault" /\ issued[cached].life < MinLease + Skew)
    <3>1. cached # 0 => issued[cached].at \in Nat /\ issued[cached].life \in Nat
      BY DEF TokenInv, TokenTyped
    <3>. QED BY <3>1 DEF TokenInv, TokenTyped, KeptOk, IsLive
  <2>. QED BY <2>1 DEF TokenInv, CallOk, GivenOutAlive
<1>. QED BY <1>1, <1>2, <1>3, PTL DEF TokenSpec

-----------------------------------------------------------------------------
(***************************************************************************)
(* AnchorKeys.  Keys only grow along what the contract had, what the       *)
(* wallet has sent and what the worker holds, so a key read from the chain *)
(* that is the worker's own, however stale, is the last one to come.       *)
(***************************************************************************)

KeyTxs == [op : {"rotate", "anchor"}, key : Nat, life : Nat]
KeysTyped ==
  /\ secret \in [exists : BOOLEAN, pq : Nat] /\ keysMade \in Nat
  /\ chainKeys \in Seq(Nat) /\ chainKeys # <<>>
  /\ worker \in [pc : {"down", "seed", "loaded", "funded", "rotating", "anchoring"},
                 life : Nat, key : Nat]
  /\ walletTxs \in Seq(KeyTxs)

Rotation(n) == n \in DOMAIN walletTxs /\ walletTxs[n].op = "rotate"

\* No key on chain or under way there is after k.
Newest(k) == ChainKey <= k /\ \A n \in DOMAIN walletTxs : Rotation(n) => walletTxs[n].key <= k
\* Every key under way is k, and so is the one on chain.
Settled(k) == ChainKey = k /\ \A n \in DOMAIN walletTxs : Rotation(n) => walletTxs[n].key = k

OrderInv ==
  /\ \A n \in DOMAIN chainKeys : chainKeys[n] <= ChainKey
  /\ \A n \in DOMAIN walletTxs : Rotation(n) => ChainKey <= walletTxs[n].key
  /\ \A m, n \in DOMAIN walletTxs :
       Rotation(m) /\ Rotation(n) /\ m < n => walletTxs[m].key <= walletTxs[n].key
  /\ Newest(keysMade)
  /\ worker.pc # "down" => Newest(worker.key) /\ worker.key <= keysMade
  /\ secret.pq # 0 => Newest(secret.pq) /\ secret.pq <= keysMade

\* What the worker holds is what Vault has, unless the secret lost its fields.
VaultInv ==
  /\ secret.pq # 0 => secret.pq \in versions
  /\ worker.pc = "seed" => worker.key = keysMade
  /\ worker.pc \notin {"down", "seed"} =>
       worker.key \in versions /\ secret.pq \in {0, worker.key}

\* The chain has the worker's key, or will before what it signs, unless a rotation of
\* its life reverted.
WorkerInv ==
  worker.life \notin reverted =>
    /\ worker.pc = "anchoring" => Settled(worker.key)
    /\ worker.pc = "rotating" =>
         \/ ChainKey = worker.key
         \/ \E n \in DOMAIN walletTxs : walletTxs[n] = RotateTx(worker.life, worker.key)

AnchorOk(n) ==
  /\ walletTxs[n].key \in versions
  /\ walletTxs[n].life \notin reverted =>
       /\ ChainKey = walletTxs[n].key
       /\ \A m \in DOMAIN walletTxs : m < n /\ Rotation(m) => walletTxs[m].key = walletTxs[n].key
PoolInv == \A n \in DOMAIN walletTxs : walletTxs[n].op = "anchor" => AnchorOk(n)

KeysInv == KeysTyped /\ OrderInv /\ VaultInv /\ WorkerInv /\ PoolInv /\ AnchorsAttributable

LEMMA TypedKeys ==
  ASSUME KeysTyped
  PROVE  /\ ChainKey \in Nat /\ worker.key \in Nat /\ worker.life \in Nat
         /\ \A n \in DOMAIN walletTxs : walletTxs[n] \in KeyTxs /\ walletTxs[n].key \in Nat
         /\ worker = [pc |-> worker.pc, life |-> worker.life, key |-> worker.key]
<1>1. ChainKey \in Nat BY DEF KeysTyped, ChainKey
<1>2. \A n \in DOMAIN walletTxs : walletTxs[n] \in KeyTxs BY DEF KeysTyped
<1>. QED BY <1>1, <1>2 DEF KeysTyped, KeyTxs

-----------------------------------------------------------------------------
\* Steps of the worker and of Vault that send and mine nothing.
ChainStays ==
  /\ UNCHANGED <<chainKeys, walletTxs, tagged, reverted>> /\ versions \subseteq versions'

LEMMA QuietKeeps ==
  ASSUME KeysInv, ChainStays
  PROVE  PoolInv' /\ AnchorsAttributable'
<1>1. PoolInv' BY DEF KeysInv, ChainStays, PoolInv, AnchorOk, Rotation, ChainKey
<1>2. AnchorsAttributable' BY DEF KeysInv, ChainStays, AnchorsAttributable, SdkWriter
<1>. QED BY <1>1, <1>2

LEMMA LoadKeeps == KeysInv /\ LoadOrInitKeys => KeysInv'
<1>. SUFFICES ASSUME KeysInv, LoadOrInitKeys PROVE KeysInv' OBVIOUS
<1>. USE DEF KeysInv
<1>1. ChainStays /\ UNCHANGED secret BY DEF LoadOrInitKeys, ChainStays
<1>2. worker.pc = "down" BY DEF LoadOrInitKeys
<1>3. \/ /\ secret.pq # 0 /\ keysMade' = keysMade
         /\ worker' = [pc |-> "loaded", life |-> worker.life + 1, key |-> secret.pq]
      \/ /\ secret.pq = 0 /\ keysMade' = keysMade + 1
         /\ worker' = [pc |-> "seed", life |-> worker.life + 1, key |-> keysMade']
  BY DEF LoadOrInitKeys, ReadAnchorSecret
<1>4. KeysTyped' BY <1>1, <1>3, TypedKeys DEF KeysTyped, ChainStays
<1>5. OrderInv'
  <2>1. ASSUME NEW k \in Nat, Newest(k) PROVE Newest(k)' /\ Newest(k + 1)'
    BY <1>1, <2>1, TypedKeys DEF Newest, Rotation, ChainStays, ChainKey, KeysTyped
  <2>2. Newest(keysMade)' BY <1>3, <2>1 DEF OrderInv, KeysTyped, Newest, ChainKey, Rotation
  <2>. QED BY <1>1, <1>3, <2>2 DEF OrderInv, ChainStays, KeysTyped, Newest, Rotation, ChainKey
<1>6. VaultInv' BY <1>1, <1>3 DEF VaultInv, ChainStays
<1>7. WorkerInv' BY <1>3 DEF WorkerInv
<1>. QED BY <1>1, <1>4, <1>5, <1>6, <1>7, QuietKeeps

LEMMA WriteFieldsKeeps == KeysInv /\ WritePQFields => KeysInv'
<1>. SUFFICES ASSUME KeysInv, WritePQFields PROVE KeysInv' OBVIOUS
<1>. USE DEF KeysInv
<1>1. ChainStays /\ UNCHANGED keysMade /\ worker.pc = "seed" BY DEF WritePQFields, ChainStays
<1>2. /\ \/ worker' = [worker EXCEPT !.pc = "loaded"] \/ worker' = Down
      /\ \/ secret' = [secret EXCEPT !.pq = worker.key] /\ versions' = versions \cup {worker.key}
         \/ UNCHANGED <<secret, versions>> /\ worker' = Down
  BY DEF WritePQFields
<1>3. /\ KeysTyped' /\ worker'.pc \in {"loaded", "down"} /\ worker'.life = worker.life
      /\ worker'.pc = "loaded" => worker'.key = worker.key
  <2>1. worker' \in [pc : {"loaded", "down"}, life : {worker.life}, key : Nat]
        /\ (worker'.pc = "loaded" => worker'.key = worker.key)
    BY <1>2 DEF Down, KeysTyped
  <2>2. secret' \in [exists : BOOLEAN, pq : Nat]
    BY <1>2, TypedKeys DEF KeysTyped
  <2>3. worker' \in [pc : {"down", "seed", "loaded", "funded", "rotating", "anchoring"},
                     life : Nat, key : Nat]
    BY <2>1, TypedKeys
  <2>. QED BY <1>1, <2>1, <2>2, <2>3 DEF KeysTyped, ChainStays
<1>4. \/ secret'.pq = worker.key /\ versions' = versions \cup {worker.key}
      \/ UNCHANGED <<secret, versions>> /\ worker'.pc = "down"
  BY <1>2 DEF KeysTyped, Down
<1>5. OrderInv'
  BY <1>1, <1>3, <1>4 DEF OrderInv, ChainStays, Newest, Rotation, ChainKey
<1>6. VaultInv' BY <1>1, <1>3, <1>4 DEF VaultInv
<1>7. WorkerInv' BY <1>3 DEF WorkerInv
<1>. QED BY <1>1, <1>3, <1>5, <1>6, <1>7, QuietKeeps

\* A step between loading and anchoring that only moves the worker's program counter,
\* or stops it.
LEMMA WorkerMoves ==
  ASSUME KeysInv, ChainStays, UNCHANGED <<secret, versions, keysMade>>,
         \/ worker' = Down
         \/ /\ worker.pc \notin {"down", "seed"}
            /\ \/ worker' = [worker EXCEPT !.pc = "funded"]
               \/ /\ worker' = [worker EXCEPT !.pc = "anchoring"]
                  /\ worker.life \notin reverted => Settled(worker.key)
  PROVE  KeysInv'
<1>. USE DEF KeysInv
<1>1. KeysTyped' BY TypedKeys DEF KeysTyped, ChainStays, Down
<1>2. /\ worker'.life = worker.life /\ worker'.pc \in {"down", "funded", "anchoring"}
      /\ worker'.pc # "down" => worker.pc \notin {"down", "seed"} /\ worker'.key = worker.key
      /\ worker'.pc = "anchoring" => (worker.life \notin reverted => Settled(worker.key))
  BY DEF Down, KeysTyped
<1>3. OrderInv' BY <1>2 DEF OrderInv, ChainStays, Newest, Rotation, ChainKey
<1>4. VaultInv' BY <1>2 DEF VaultInv
<1>5. WorkerInv' BY <1>2 DEF WorkerInv, Settled, ChainStays, Rotation, ChainKey
<1>. QED BY <1>1, <1>3, <1>4, <1>5, QuietKeeps

\* A key of the chain that is the worker's own, however old the answer, is the last one
\* there and the only one under way.
LEMMA OwnKeyIsLast ==
  ASSUME KeysTyped, OrderInv, worker.pc # "down", NEW n \in DOMAIN chainKeys,
         chainKeys[n] = worker.key
  PROVE  Settled(worker.key)
<1>1. ChainKey = worker.key BY TypedKeys DEF OrderInv, Newest
<1>. QED BY <1>1, TypedKeys DEF OrderInv, Newest, Settled

LEMMA AwaitKeeps == KeysInv /\ AwaitRotation => KeysInv'
<1>. SUFFICES ASSUME KeysInv, AwaitRotation PROVE KeysInv' OBVIOUS
<1>1. ChainStays /\ UNCHANGED <<secret, versions, keysMade>> /\ worker.pc = "rotating"
  BY DEF AwaitRotation, ChainStays
<1>2. worker' = Down \/ (walletTxs = <<>> /\ worker' = [worker EXCEPT !.pc = "anchoring"])
  BY DEF AwaitRotation
<1>3. walletTxs = <<>> /\ worker.life \notin reverted => Settled(worker.key)
  BY <1>1 DEF KeysInv, WorkerInv, Settled, Rotation
<1>. QED BY <1>1, <1>2, <1>3, WorkerMoves

\* A secret without PQ fields, or another balance, change nothing the worker holds.
LEMMA OutsideKeeps ==
  ASSUME KeysInv, UNCHANGED <<chainKeys, walletTxs, reverted, versions, worker, keysMade>>,
         secret' = secret \/ secret' = [exists |-> TRUE, pq |-> 0], AnchorsAttributable'
  PROVE  KeysInv'
<1>. USE DEF KeysInv
<1>1. KeysTyped'
  <2>1. [exists |-> TRUE, pq |-> 0] \in [exists : BOOLEAN, pq : Nat] OBVIOUS
  <2>2. secret' \in [exists : BOOLEAN, pq : Nat] BY <2>1, Zenon DEF KeysTyped
  <2>. QED BY <2>2 DEF KeysTyped
<1>2. secret'.pq \in {0, secret.pq} OBVIOUS
<1>3. OrderInv' BY <1>2 DEF OrderInv, Newest, Rotation, ChainKey
<1>4. VaultInv' BY <1>2 DEF VaultInv
<1>5. WorkerInv' BY DEF WorkerInv, Settled, Rotation, ChainKey
<1>6. PoolInv' BY DEF PoolInv, AnchorOk, Rotation, ChainKey
<1>. QED BY <1>1, <1>3, <1>4, <1>5, <1>6

-----------------------------------------------------------------------------
(* What is sent, and what is mined                                           *)

\* Transaction t goes to the end of the wallet's queue.
LEMMA Sent ==
  ASSUME KeysTyped, NEW t \in KeyTxs, walletTxs' = Append(walletTxs, t)
  PROVE  /\ walletTxs' \in Seq(KeyTxs)
         /\ \E last \in Nat : /\ DOMAIN walletTxs' = DOMAIN walletTxs \cup {last}
                             /\ last \notin DOMAIN walletTxs /\ walletTxs'[last] = t
                             /\ \A n \in DOMAIN walletTxs : n < last
         /\ \A n \in DOMAIN walletTxs : n \in Nat /\ walletTxs'[n] = walletTxs[n]
<1>. DEFINE last == Len(walletTxs) + 1
<1>1. /\ last \in Nat /\ DOMAIN walletTxs' = DOMAIN walletTxs \cup {last}
      /\ last \notin DOMAIN walletTxs /\ walletTxs'[last] = t
      /\ \A n \in DOMAIN walletTxs : n < last
  BY DEF KeysTyped
<1>2. walletTxs' \in Seq(KeyTxs)
      /\ \A n \in DOMAIN walletTxs : n \in Nat /\ walletTxs'[n] = walletTxs[n]
  BY DEF KeysTyped
<1>. HIDE DEF last
<1>. QED BY <1>1, <1>2

\* The first transaction leaves, the others move up.
LEMMA Mined ==
  ASSUME KeysTyped, walletTxs # <<>>, walletTxs' = Tail(walletTxs)
  PROVE  /\ walletTxs' \in Seq(KeyTxs)
         /\ 1 \in DOMAIN walletTxs /\ Head(walletTxs) = walletTxs[1] /\ walletTxs[1] \in KeyTxs
         /\ \A n \in DOMAIN walletTxs' :
              n \in Nat \ {0} /\ n + 1 \in DOMAIN walletTxs /\ walletTxs'[n] = walletTxs[n + 1]
         /\ \A n \in DOMAIN walletTxs :
              n # 1 => n - 1 \in DOMAIN walletTxs' /\ walletTxs'[n - 1] = walletTxs[n]
<1>. USE DEF KeysTyped
<1>1. walletTxs' \in Seq(KeyTxs) OBVIOUS
<1>2. Len(walletTxs) > 0 /\ Len(walletTxs') = Len(walletTxs) - 1 OBVIOUS
<1>3. 1 \in DOMAIN walletTxs /\ Head(walletTxs) = walletTxs[1] /\ walletTxs[1] \in KeyTxs
  BY <1>2
<1>4. ASSUME NEW n \in DOMAIN walletTxs'
      PROVE  n \in Nat \ {0} /\ n + 1 \in DOMAIN walletTxs /\ walletTxs'[n] = walletTxs[n + 1]
  BY <1>1, <1>2
<1>5. ASSUME NEW n \in DOMAIN walletTxs, n # 1
      PROVE  n - 1 \in DOMAIN walletTxs' /\ walletTxs'[n - 1] = walletTxs[n]
  BY <1>1, <1>2, <1>5
<1>. QED BY <1>1, <1>3, <1>4, <1>5

LEMMA ReconcileKeeps == KeysInv /\ ReconcileKeys => KeysInv'
<1>. SUFFICES ASSUME KeysInv, ReconcileKeys PROVE KeysInv' OBVIOUS
<1>. USE DEF KeysInv
<1>1. PICK at \in DOMAIN chainKeys :
        IF chainKeys[at] # worker.key
          THEN /\ walletTxs' = Append(walletTxs, RotateTx(worker.life, worker.key))
               /\ worker' = [worker EXCEPT !.pc = "rotating"]
          ELSE UNCHANGED walletTxs /\ worker' = [worker EXCEPT !.pc = "anchoring"]
  BY DEF ReconcileKeys, CurrentPQKeyHash, Differs
<1>2. /\ worker.pc = "funded"
      /\ UNCHANGED <<secret, versions, chainKeys, tagged, reverted, keysMade>>
  BY DEF ReconcileKeys
<1>3. CASE chainKeys[at] = worker.key
  <2>1. Settled(worker.key) BY <1>2, <1>3, OwnKeyIsLast
  <2>. QED BY <1>1, <1>2, <1>3, <2>1, WorkerMoves DEF ChainStays
<1>4. CASE chainKeys[at] # worker.key
  <2>1. PICK t \in KeyTxs : t = RotateTx(worker.life, worker.key)
    BY TypedKeys DEF RotateTx, KeyTxs
  <2>2. walletTxs' = Append(walletTxs, t) BY <1>1, <1>4, <2>1
  <2>3. t.op = "rotate" /\ t.key = worker.key BY <2>1 DEF RotateTx
  <2>4. PICK last \in Nat : /\ DOMAIN walletTxs' = DOMAIN walletTxs \cup {last}
                            /\ last \notin DOMAIN walletTxs /\ walletTxs'[last] = t
                            /\ \A n \in DOMAIN walletTxs : n < last
    BY <2>2, Sent
  <2>5. walletTxs' \in Seq(KeyTxs)
        /\ \A n \in DOMAIN walletTxs : n \in Nat /\ walletTxs'[n] = walletTxs[n]
    BY <2>2, Sent
  <2>6. /\ worker'.pc = "rotating" /\ worker'.life = worker.life /\ worker'.key = worker.key
        /\ KeysTyped'
    <3>1. /\ worker'.pc = "rotating" /\ worker'.life = worker.life /\ worker'.key = worker.key
          /\ worker' \in [pc : {"down", "seed", "loaded", "funded", "rotating", "anchoring"},
                           life : Nat, key : Nat]
      BY <1>1, <1>4, TypedKeys DEF KeysTyped
    <3>. QED BY <1>2, <2>5, <3>1 DEF KeysTyped
  <2>7. Newest(worker.key) /\ worker.key <= keysMade BY <1>2 DEF OrderInv
  <2>8. ChainKey' = ChainKey BY <1>2 DEF ChainKey
  <2>9. ASSUME NEW k \in Nat, Newest(k), worker.key <= k PROVE Newest(k)'
    BY <2>3, <2>4, <2>5, <2>8, <2>9 DEF Newest, Rotation
  <2>10. OrderInv'
    <3>1. Newest(keysMade)' BY <1>2, <2>7, <2>9 DEF OrderInv, KeysTyped
    <3>2. Newest(worker.key)'
      <4>1. \A n \in DOMAIN walletTxs' : walletTxs'[n].op = "rotate" => walletTxs'[n].key <= worker.key
        BY <2>3, <2>4, <2>5, <2>7, TypedKeys DEF Newest, Rotation
      <4>. QED BY <2>6, <2>7, <2>8, <4>1 DEF Newest, Rotation
    <3>3. secret.pq # 0 => Newest(secret.pq)'
      BY <1>2, <2>7, <2>9 DEF OrderInv, VaultInv, KeysTyped
    <3>4. \A n \in DOMAIN walletTxs' : walletTxs'[n].op = "rotate" => ChainKey <= walletTxs'[n].key
      BY <2>3, <2>4, <2>5, <2>7 DEF OrderInv, Newest, Rotation
    <3>5. \A m, n \in DOMAIN walletTxs' :
            walletTxs'[m].op = "rotate" /\ walletTxs'[n].op = "rotate" /\ m < n
              => walletTxs'[m].key <= walletTxs'[n].key
      <4>. SUFFICES ASSUME NEW m \in DOMAIN walletTxs', NEW n \in DOMAIN walletTxs',
                           walletTxs'[m].op = "rotate", walletTxs'[n].op = "rotate", m < n
                    PROVE  walletTxs'[m].key <= walletTxs'[n].key
        OBVIOUS
      <4>1. m # last BY <2>4, <2>5
      <4>2. CASE n = last BY <2>3, <2>4, <2>5, <2>7, <4>1, <4>2 DEF Newest, Rotation
      <4>3. CASE n # last BY <2>4, <2>5, <4>1, <4>3 DEF OrderInv, Rotation
      <4>. QED BY <4>2, <4>3
    <3>. QED BY <1>2, <2>6, <2>7, <2>8, <3>1, <3>2, <3>3, <3>4, <3>5 DEF OrderInv, Rotation
  <2>11. VaultInv' BY <1>2, <2>6 DEF VaultInv
  <2>12. WorkerInv'
    <3>1. walletTxs'[last] = RotateTx(worker'.life, worker'.key)
      BY <2>1, <2>4, <2>6 DEF RotateTx
    <3>. QED BY <2>4, <2>6, <3>1 DEF WorkerInv, RotateTx
  <2>13. PoolInv'
    <3>. SUFFICES ASSUME NEW n \in DOMAIN walletTxs', walletTxs'[n].op = "anchor"
                  PROVE  AnchorOk(n)'
      BY DEF PoolInv
    <3>1. n # last /\ n \in DOMAIN walletTxs BY <2>3, <2>4
    <3>2. AnchorOk(n) BY <2>5, <3>1 DEF PoolInv
    <3>3. \A m \in DOMAIN walletTxs' : m < n => m \in DOMAIN walletTxs
      BY <2>4, <2>5, <3>1
    <3>. QED BY <1>2, <2>5, <2>8, <3>1, <3>2, <3>3 DEF AnchorOk, Rotation
  <2>14. AnchorsAttributable' BY <1>2 DEF AnchorsAttributable, SdkWriter
  <2>. QED BY <2>6, <2>10, <2>11, <2>12, <2>13, <2>14
<1>. QED BY <1>3, <1>4

LEMMA SendKeeps == KeysInv /\ SendAnchor => KeysInv'
<1>. SUFFICES ASSUME KeysInv, SendAnchor PROVE KeysInv' OBVIOUS
<1>. USE DEF KeysInv
<1>1. /\ worker.pc = "anchoring"
      /\ UNCHANGED <<secret, versions, chainKeys, worker, tagged, reverted, keysMade>>
  BY DEF SendAnchor
<1>2. PICK t \in KeyTxs : t = AnchorTx(worker.life, worker.key)
  BY TypedKeys DEF AnchorTx, KeyTxs
<1>3. walletTxs' = Append(walletTxs, t) BY <1>2 DEF SendAnchor
<1>4. t.op = "anchor" /\ t.key = worker.key /\ t.life = worker.life BY <1>2 DEF AnchorTx
<1>5. PICK last \in Nat : /\ DOMAIN walletTxs' = DOMAIN walletTxs \cup {last}
                          /\ last \notin DOMAIN walletTxs /\ walletTxs'[last] = t
                          /\ \A n \in DOMAIN walletTxs : n < last
  BY <1>3, Sent
<1>6. walletTxs' \in Seq(KeyTxs)
      /\ \A n \in DOMAIN walletTxs : n \in Nat /\ walletTxs'[n] = walletTxs[n]
  BY <1>3, Sent
<1>7. ChainKey' = ChainKey BY <1>1 DEF ChainKey
<1>8. \A n : Rotation(n)' <=> Rotation(n) BY <1>4, <1>5, <1>6 DEF Rotation
<1>9. KeysTyped' BY <1>1, <1>6 DEF KeysTyped
<1>10. OrderInv'
  <2>1. ASSUME NEW k, Newest(k) PROVE Newest(k)'
    BY <1>6, <1>7, <1>8, <2>1 DEF Newest, Rotation
  <2>2. Newest(keysMade)' /\ (secret.pq # 0 => Newest(secret.pq)') /\ Newest(worker.key)'
    BY <1>1, <1>6, <1>7, <1>8 DEF OrderInv, Newest, Rotation
  <2>. QED BY <1>1, <1>6, <1>7, <1>8, <2>2 DEF OrderInv, Rotation
<1>11. VaultInv' BY <1>1 DEF VaultInv
<1>12. WorkerInv'
  BY <1>1, <1>6, <1>7, <1>8 DEF WorkerInv, Settled, Rotation
<1>13. PoolInv'
  <2>. SUFFICES ASSUME NEW n \in DOMAIN walletTxs', walletTxs'[n].op = "anchor"
                PROVE  AnchorOk(n)'
    BY DEF PoolInv
  <2>1. CASE n = last
    BY <1>1, <1>4, <1>5, <1>6, <1>7, <1>8, <2>1 DEF AnchorOk, VaultInv, WorkerInv, Settled, Rotation
  <2>2. CASE n # last
    <3>1. n \in DOMAIN walletTxs /\ AnchorOk(n) BY <1>5, <1>6, <2>2 DEF PoolInv
    <3>. QED BY <1>1, <1>6, <1>7, <1>8, <3>1 DEF AnchorOk, Rotation
  <2>. QED BY <2>1, <2>2
<1>14. AnchorsAttributable' BY <1>1 DEF AnchorsAttributable, SdkWriter
<1>. QED BY <1>9, <1>10, <1>11, <1>12, <1>13, <1>14

LEMMA MineRotationKeeps == KeysInv /\ MineRotation => KeysInv'
<1>. SUFFICES ASSUME KeysInv, MineRotation PROVE KeysInv' OBVIOUS
<1>. USE DEF KeysInv
<1>1. walletTxs # <<>> /\ walletTxs' = Tail(walletTxs)
      /\ UNCHANGED <<secret, versions, worker, tagged, keysMade>>
  BY DEF MineRotation
<1>2. PICK r \in KeyTxs : /\ 1 \in DOMAIN walletTxs /\ r = walletTxs[1] /\ r = Head(walletTxs)
  BY <1>1, Mined
<1>3. /\ walletTxs' \in Seq(KeyTxs)
      /\ \A n \in DOMAIN walletTxs' :
           n \in Nat \ {0} /\ n + 1 \in DOMAIN walletTxs /\ walletTxs'[n] = walletTxs[n + 1]
      /\ \A n \in DOMAIN walletTxs :
           n # 1 => n - 1 \in DOMAIN walletTxs' /\ walletTxs'[n - 1] = walletTxs[n]
  BY <1>1, Mined
<1>4. r.op = "rotate" /\ Rotation(1) /\ r.key \in Nat
  BY <1>2 DEF MineRotation, Rotation, KeyTxs
<1>5. ChainKey <= r.key /\ ChainKey \in Nat /\ worker.key \in Nat
  BY <1>2, <1>4, TypedKeys DEF OrderInv
<1>6. \/ chainKeys' = Append(chainKeys, r.key) /\ reverted' = reverted
      \/ reverted' = reverted \cup {r.life} /\ chainKeys' = chainKeys
  BY <1>2 DEF MineRotation
<1>7. /\ chainKeys' \in Seq(Nat) /\ chainKeys' # <<>>
      /\ \/ ChainKey' = r.key /\ reverted' = reverted
         \/ ChainKey' = ChainKey /\ reverted' = reverted \cup {r.life}
      /\ \A n \in DOMAIN chainKeys' : chainKeys'[n] <= ChainKey'
  <2>1. CASE chainKeys' = Append(chainKeys, r.key) /\ reverted' = reverted
    <3>1. chainKeys' \in Seq(Nat) /\ Len(chainKeys') = Len(chainKeys) + 1
          /\ chainKeys'[Len(chainKeys) + 1] = r.key
          /\ \A n \in DOMAIN chainKeys : chainKeys'[n] = chainKeys[n] /\ chainKeys[n] \in Nat
      BY <1>4, <2>1 DEF KeysTyped
    <3>2. ChainKey' = r.key BY <3>1 DEF ChainKey
    <3>3. ASSUME NEW n \in DOMAIN chainKeys' PROVE chainKeys'[n] <= ChainKey'
      <4>1. n \in DOMAIN chainKeys \/ n = Len(chainKeys) + 1
        BY <3>1 DEF KeysTyped
      <4>2. n \in DOMAIN chainKeys => chainKeys[n] <= ChainKey /\ chainKeys[n] \in Nat
        BY <3>1 DEF OrderInv
      <4>. QED BY <1>4, <1>5, <3>1, <3>2, <4>1, <4>2
    <3>4. chainKeys' # <<>> BY <2>1, <3>1 DEF KeysTyped
    <3>. QED BY <2>1, <3>1, <3>2, <3>3, <3>4
  <2>2. CASE reverted' = reverted \cup {r.life} /\ chainKeys' = chainKeys
    BY <2>2 DEF KeysTyped, OrderInv, ChainKey
  <2>. QED BY <1>6, <2>1, <2>2
<1>8. KeysTyped' BY <1>1, <1>3, <1>7 DEF KeysTyped
<1>9. ASSUME NEW n \in DOMAIN walletTxs', walletTxs'[n].op = "rotate"
      PROVE  /\ n \in Nat \ {0} /\ n + 1 \in DOMAIN walletTxs /\ Rotation(n + 1)
             /\ walletTxs'[n].key = walletTxs[n + 1].key /\ walletTxs[n + 1].key \in Nat
             /\ r.key <= walletTxs'[n].key
  <2>1. /\ n \in Nat \ {0} /\ n + 1 \in DOMAIN walletTxs /\ Rotation(n + 1)
        /\ walletTxs'[n].key = walletTxs[n + 1].key /\ walletTxs[n + 1].key \in Nat
    BY <1>3, <1>9, TypedKeys DEF Rotation
  <2>2. 1 < n + 1 BY <2>1
  <2>. QED BY <1>2, <1>4, <2>1, <2>2 DEF OrderInv
<1>10. ASSUME NEW k, k \in Nat, Newest(k) PROVE Newest(k)'
  BY <1>2, <1>4, <1>5, <1>7, <1>9, <1>10 DEF Newest, Rotation
<1>11. OrderInv'
  <2>1. \A n \in DOMAIN walletTxs' :
          walletTxs'[n].op = "rotate" => ChainKey' <= walletTxs'[n].key
    BY <1>4, <1>5, <1>7, <1>9
  <2>2. ASSUME NEW m \in DOMAIN walletTxs', NEW n \in DOMAIN walletTxs',
               walletTxs'[m].op = "rotate", walletTxs'[n].op = "rotate", m < n
        PROVE  walletTxs'[m].key <= walletTxs'[n].key
    <3>1. m + 1 < n + 1 BY <1>9, <2>2
    <3>. QED BY <1>9, <2>2, <3>1 DEF OrderInv
  <2>3. Newest(keysMade)' /\ (worker.pc # "down" => Newest(worker.key)')
        /\ (secret.pq # 0 => Newest(secret.pq)')
    <3>1. keysMade \in Nat /\ worker.key \in Nat /\ secret.pq \in Nat BY TypedKeys DEF KeysTyped
    <3>2. PICK a \in Nat, b \in Nat, c \in Nat : a = keysMade /\ b = worker.key /\ c = secret.pq
      BY <3>1
    <3>3. Newest(a)' /\ (worker.pc # "down" => Newest(b)') /\ (secret.pq # 0 => Newest(c)')
      BY <1>10, <3>2 DEF OrderInv
    <3>. QED BY <1>1, <3>2, <3>3 DEF Newest
  <2>. QED BY <1>1, <1>7, <2>1, <2>2, <2>3 DEF OrderInv, Rotation
<1>12. VaultInv' BY <1>1 DEF VaultInv
<1>13. WorkerInv'
  <2>. SUFFICES ASSUME worker.life \notin reverted' PROVE
                /\ worker.pc = "anchoring" => Settled(worker.key)'
                /\ worker.pc = "rotating" =>
                     \/ ChainKey' = worker.key
                     \/ \E n \in DOMAIN walletTxs' : walletTxs'[n] = RotateTx(worker.life, worker.key)
    BY <1>1 DEF WorkerInv, RotateTx, Settled
  <2>1. worker.life \notin reverted BY <1>7
  <2>2. ASSUME worker.pc = "anchoring" PROVE Settled(worker.key)'
    <3>1. ChainKey = worker.key /\ r.key = worker.key
      BY <1>2, <1>4, <2>1, <2>2 DEF WorkerInv, Settled
    <3>2. \A n \in DOMAIN walletTxs' : walletTxs'[n].op = "rotate" => walletTxs'[n].key = worker.key
      BY <1>9, <2>1, <2>2 DEF WorkerInv, Settled
    <3>. QED BY <1>1, <1>7, <3>1, <3>2 DEF Settled, Rotation
  <2>3. ASSUME worker.pc = "rotating"
        PROVE  \/ ChainKey' = worker.key
               \/ \E n \in DOMAIN walletTxs' : walletTxs'[n] = RotateTx(worker.life, worker.key)
    <3>1. r.key <= worker.key BY <1>2, <1>4, <2>3 DEF OrderInv, Newest
    <3>2. CASE ChainKey = worker.key BY <1>4, <1>5, <1>7, <3>1, <3>2
    <3>3. CASE \E n \in DOMAIN walletTxs : walletTxs[n] = RotateTx(worker.life, worker.key)
      <4>1. PICK n \in DOMAIN walletTxs : walletTxs[n] = RotateTx(worker.life, worker.key) BY <3>3
      <4>2. CASE n = 1
        <5>1. r.life = worker.life /\ r.key = worker.key BY <1>2, <4>1, <4>2 DEF RotateTx
        <5>. QED BY <1>7, <5>1
      <4>3. CASE n # 1 BY <1>3, <4>1, <4>3
      <4>. QED BY <4>2, <4>3
    <3>. QED BY <2>1, <2>3, <3>2, <3>3 DEF WorkerInv
  <2>. QED BY <2>2, <2>3
<1>14. PoolInv'
  <2>. SUFFICES ASSUME NEW n \in DOMAIN walletTxs', walletTxs'[n].op = "anchor"
                PROVE  AnchorOk(n)'
    BY DEF PoolInv
  <2>1. /\ n \in Nat \ {0} /\ n + 1 \in DOMAIN walletTxs /\ walletTxs'[n] = walletTxs[n + 1]
        /\ AnchorOk(n + 1)
    BY <1>3 DEF PoolInv
  <2>. SUFFICES ASSUME walletTxs[n + 1].life \notin reverted'
                PROVE  /\ ChainKey' = walletTxs[n + 1].key
                       /\ \A m \in DOMAIN walletTxs' :
                            m < n /\ walletTxs'[m].op = "rotate"
                              => walletTxs'[m].key = walletTxs[n + 1].key
    BY <1>1, <2>1 DEF AnchorOk, Rotation
  <2>2. walletTxs[n + 1].life \notin reverted BY <1>7
  <2>3. 1 < n + 1 BY <2>1
  <2>4. ChainKey = walletTxs[n + 1].key /\ r.key = walletTxs[n + 1].key
    BY <1>2, <1>4, <2>1, <2>2, <2>3 DEF AnchorOk
  <2>5. ASSUME NEW m \in DOMAIN walletTxs', m < n, walletTxs'[m].op = "rotate"
        PROVE  walletTxs'[m].key = walletTxs[n + 1].key
    <3>1. m + 1 < n + 1 BY <1>9, <2>1, <2>5
    <3>. QED BY <1>9, <2>1, <2>2, <2>5, <3>1 DEF AnchorOk
  <2>. QED BY <1>7, <2>4, <2>5
<1>15. AnchorsAttributable' BY <1>1, <1>7 DEF AnchorsAttributable, SdkWriter
<1>. QED BY <1>8, <1>11, <1>12, <1>13, <1>14, <1>15

LEMMA MineRecordKeeps == KeysInv /\ MineRecord => KeysInv'
<1>. SUFFICES ASSUME KeysInv, MineRecord PROVE KeysInv' OBVIOUS
<1>. USE DEF KeysInv
<1>1. walletTxs # <<>> /\ walletTxs' = Tail(walletTxs)
      /\ UNCHANGED <<secret, versions, chainKeys, worker, reverted, keysMade>>
  BY DEF MineRecord
<1>2. PICK r \in KeyTxs : /\ 1 \in DOMAIN walletTxs /\ r = walletTxs[1] /\ r = Head(walletTxs)
  BY <1>1, Mined
<1>3. /\ walletTxs' \in Seq(KeyTxs)
      /\ \A n \in DOMAIN walletTxs' :
           n \in Nat \ {0} /\ n + 1 \in DOMAIN walletTxs /\ walletTxs'[n] = walletTxs[n + 1]
      /\ \A n \in DOMAIN walletTxs :
           n # 1 => n - 1 \in DOMAIN walletTxs' /\ walletTxs'[n - 1] = walletTxs[n]
  BY <1>1, Mined
<1>4. r.op = "anchor" /\ AnchorOk(1) BY <1>2 DEF MineRecord, PoolInv
<1>5. ChainKey' = ChainKey BY <1>1 DEF ChainKey
<1>6. KeysTyped' BY <1>1, <1>3 DEF KeysTyped
<1>7. ASSUME NEW n \in DOMAIN walletTxs', walletTxs'[n].op = "rotate"
      PROVE  /\ n \in Nat \ {0} /\ n + 1 \in DOMAIN walletTxs /\ Rotation(n + 1)
             /\ walletTxs'[n].key = walletTxs[n + 1].key
  BY <1>3, <1>7 DEF Rotation
<1>8. OrderInv'
  <2>1. \A n \in DOMAIN walletTxs' :
          walletTxs'[n].op = "rotate" => ChainKey <= walletTxs'[n].key
    BY <1>7 DEF OrderInv
  <2>2. ASSUME NEW m \in DOMAIN walletTxs', NEW n \in DOMAIN walletTxs',
               walletTxs'[m].op = "rotate", walletTxs'[n].op = "rotate", m < n
        PROVE  walletTxs'[m].key <= walletTxs'[n].key
    <3>1. m + 1 < n + 1 BY <1>7, <2>2
    <3>. QED BY <1>7, <2>2, <3>1 DEF OrderInv
  <2>3. ASSUME NEW k, Newest(k) PROVE Newest(k)' BY <1>5, <1>7, <2>3 DEF Newest, Rotation
  <2>4. Newest(keysMade)' /\ (worker.pc # "down" => Newest(worker.key)')
        /\ (secret.pq # 0 => Newest(secret.pq)')
    <3>1. PICK a, b, c : a = keysMade /\ b = worker.key /\ c = secret.pq OBVIOUS
    <3>2. Newest(a)' /\ (worker.pc # "down" => Newest(b)') /\ (secret.pq # 0 => Newest(c)')
      BY <2>3, <3>1 DEF OrderInv
    <3>. QED BY <1>1, <3>1, <3>2 DEF Newest
  <2>. QED BY <1>1, <1>5, <2>1, <2>2, <2>4 DEF OrderInv, Rotation
<1>9. VaultInv' BY <1>1 DEF VaultInv
<1>10. WorkerInv'
  <2>1. ASSUME Settled(worker.key) PROVE Settled(worker.key)'
    BY <1>1, <1>5, <1>7, <2>1 DEF Settled, Rotation
  <2>2. ASSUME NEW n \in DOMAIN walletTxs, walletTxs[n] = RotateTx(worker.life, worker.key)
        PROVE  \E m \in DOMAIN walletTxs' : walletTxs'[m] = RotateTx(worker.life, worker.key)'
    <3>1. n # 1 BY <1>2, <1>4, <2>2 DEF RotateTx
    <3>. QED BY <1>1, <1>3, <2>2, <3>1 DEF RotateTx
  <2>. QED BY <1>1, <1>5, <2>1, <2>2 DEF WorkerInv
<1>11. PoolInv'
  <2>. SUFFICES ASSUME NEW n \in DOMAIN walletTxs', walletTxs'[n].op = "anchor"
                PROVE  AnchorOk(n)'
    BY DEF PoolInv
  <2>1. /\ n \in Nat \ {0} /\ n + 1 \in DOMAIN walletTxs /\ walletTxs'[n] = walletTxs[n + 1]
        /\ AnchorOk(n + 1)
    BY <1>3 DEF PoolInv
  <2>2. ASSUME NEW m \in DOMAIN walletTxs', m < n, walletTxs'[m].op = "rotate",
               walletTxs[n + 1].life \notin reverted
        PROVE  walletTxs'[m].key = walletTxs[n + 1].key
    <3>1. m + 1 < n + 1 BY <1>7, <2>1, <2>2
    <3>. QED BY <1>7, <2>1, <2>2, <3>1 DEF AnchorOk
  <2>. QED BY <1>1, <1>5, <2>1, <2>2 DEF AnchorOk, Rotation
<1>12. AnchorsAttributable'
  <2>1. tagged' = tagged \cup {Recorded(r.key, r.life)} BY <1>2 DEF MineRecord
  <2>2. /\ Recorded(r.key, r.life).by \in versions
        /\ \/ Recorded(r.key, r.life).tag = Recorded(r.key, r.life).by
           \/ Recorded(r.key, r.life).life \in reverted
    BY <1>2, <1>4 DEF AnchorOk, Recorded
  <2>. QED BY <1>1, <2>1, <2>2 DEF AnchorsAttributable, SdkWriter
<1>. QED BY <1>6, <1>8, <1>9, <1>10, <1>11, <1>12

\* PQAnchorRegistry.sol tags an anchor with currentPQKeyHash of the block, which its
\* comment calls the hash at signing time: for every number of keys, restarts, anchors
\* and faults, an anchor of the worker carries the key that signed it, which Vault has
\* a version of, unless a rotation of its own life reverted.
THEOREM AnchorsCarryTheirKey == KeysSpec => []AnchorsAttributable
<1>1. KeysInit => KeysInv
  <2>. SUFFICES ASSUME KeysInit PROVE KeysInv OBVIOUS
  <2>1. KeysTyped BY DEF KeysInit, KeysTyped
  <2>2. ChainKey = 0 BY DEF KeysInit, ChainKey
  <2>3. OrderInv BY <2>2 DEF KeysInit, OrderInv, Newest, Rotation
  <2>. QED BY <2>1, <2>3
       DEF KeysInit, KeysInv, VaultInv, WorkerInv, PoolInv, AnchorsAttributable
<1>2. KeysInv /\ [KeysNext]_keyVars => KeysInv'
  <2>. SUFFICES ASSUME KeysInv, [KeysNext]_keyVars PROVE KeysInv' OBVIOUS
  <2>1. CASE LoadOrInitKeys BY <2>1, LoadKeeps
  <2>2. CASE WritePQFields BY <2>2, WriteFieldsKeeps
  <2>3. CASE EnsureWalletPrefunded
    BY <2>3, WorkerMoves DEF EnsureWalletPrefunded, ChainStays
  <2>4. CASE ReconcileKeys BY <2>4, ReconcileKeeps
  <2>5. CASE AwaitRotation BY <2>5, AwaitKeeps
  <2>6. CASE SendAnchor BY <2>6, SendKeeps
  <2>7. CASE WorkerStops BY <2>7, WorkerMoves DEF WorkerStops, ChainStays
  <2>8. CASE MineRotation BY <2>8, MineRotationKeeps
  <2>9. CASE MineRecord BY <2>9, MineRecordKeeps
  <2>10. CASE SdkRecordAnchor
    <3>1. tagged' = tagged \cup {Recorded(SdkWriter, 0)} /\ UNCHANGED <<versions, reverted>>
      BY <2>10 DEF SdkRecordAnchor
    <3>2. Recorded(SdkWriter, 0).by = SdkWriter BY DEF Recorded
    <3>3. AnchorsAttributable'
      BY <3>1, <3>2 DEF KeysInv, AnchorsAttributable, SdkWriter
    <3>. QED BY <2>10, <3>3, OutsideKeeps DEF SdkRecordAnchor
  <2>11. CASE StoreSignerKey \/ Prefund
    <3>1. AnchorsAttributable'
      BY <2>11 DEF StoreSignerKey, Prefund, KeysInv, AnchorsAttributable, SdkWriter
    <3>. QED BY <2>11, <3>1, OutsideKeeps DEF StoreSignerKey, Prefund
  <2>12. CASE UNCHANGED keyVars
    <3>1. AnchorsAttributable'
      BY <2>12 DEF keyVars, KeysInv, AnchorsAttributable, SdkWriter
    <3>. QED BY <2>12, <3>1, OutsideKeeps DEF keyVars
  <2>. QED BY <2>1, <2>2, <2>3, <2>4, <2>5, <2>6, <2>7, <2>8, <2>9, <2>10, <2>11, <2>12
       DEF KeysNext
<1>3. KeysInv => AnchorsAttributable BY DEF KeysInv
<1>. QED BY <1>1, <1>2, <1>3, PTL DEF KeysSpec

-----------------------------------------------------------------------------
(***************************************************************************)
(* BackupReport.  The report has the trigger of a run, or the end of one   *)
(* started by hand; a run that ended well ended after the last trigger.    *)
(***************************************************************************)

Times == Nat \cup {Missing}
RunStates == {"none", "running", "manual", "success", "failed"}
JobOk(j) ==
  /\ run[j] = "none" => lastTrigger[j] = Missing /\ lastExit[j] = Missing
  /\ lastTrigger[j] # Missing => lastTrigger[j] <= clock
  /\ run[j] = "running" => lastTrigger[j] # Missing
  /\ Runs(j) => lastExit[j] = Missing
  /\ run[j] = "success" =>
       /\ lastSuccess[j] \in Nat /\ lastExit[j] = lastSuccess[j] /\ lastSuccess[j] <= clock
       /\ lastTrigger[j] # Missing => lastTrigger[j] <= lastSuccess[j]
BackupTyped ==
  /\ clock \in Nat /\ run \in [Jobs -> RunStates]
  /\ lastTrigger \in [Jobs -> Times] /\ lastExit \in [Jobs -> Times]
  /\ lastSuccess \in [Jobs -> Times]
BackupInv == BackupTyped /\ \A j \in Jobs : JobOk(j)

\* Nothing a job's timer and service are known by changes.
LEMMA JobsStay ==
  ASSUME BackupInv, UNCHANGED <<clock, run, lastTrigger, lastExit, lastSuccess>>
  PROVE  BackupInv'
BY DEF BackupInv, BackupTyped, JobOk, Runs

\* One job's run starts or ends; the others stay.
LEMMA JobMoves ==
  ASSUME BackupInv, NEW j \in Jobs, UNCHANGED clock, BackupTyped', JobOk(j)',
         \A i \in Jobs : i # j =>
           /\ run'[i] = run[i] /\ lastTrigger'[i] = lastTrigger[i]
           /\ lastExit'[i] = lastExit[i] /\ lastSuccess'[i] = lastSuccess[i]
  PROVE  BackupInv'
<1>1. ASSUME NEW i \in Jobs, i # j PROVE JobOk(i)' BY <1>1 DEF BackupInv, JobOk, Runs
<1>. QED BY <1>1 DEF BackupInv

\* A timer somebody stopped, a run that hangs and a run that failed stop showing as ok
\* within the cadence and the grace, for every number of jobs, hosts and hours, runs
\* started by hand included (agent's listTimers, sources.ts classify).
THEOREM OkIsRecent == BackupSpec => []OkMeansRecent
<1>. USE MissingAssumption
<1>1. BackupInit => BackupInv
  BY DEF BackupInit, BackupInv, BackupTyped, JobOk, Times, RunStates, Runs
<1>2. BackupInv /\ [BackupNext]_backupVars => BackupInv'
  <2>. SUFFICES ASSUME BackupInv, [BackupNext]_backupVars PROVE BackupInv' OBVIOUS
  <2>0. BackupTyped /\ \A j \in Jobs : JobOk(j) BY DEF BackupInv
  <2>1. ASSUME NEW j \in Jobs, Fire(j) PROVE BackupInv'
    <3>1. BackupTyped' BY <2>0, <2>1 DEF Fire, BackupTyped, Times, RunStates
    <3>2. JobOk(j)' BY <2>0, <2>1 DEF Fire, BackupTyped, JobOk, Times, Runs
    <3>. QED BY <2>0, <2>1, <3>1, <3>2, JobMoves DEF Fire, BackupTyped
  <2>2. ASSUME NEW j \in Jobs, StartByHand(j) PROVE BackupInv'
    <3>1. BackupTyped' BY <2>0, <2>2 DEF StartByHand, BackupTyped, Times, RunStates
    <3>2. JobOk(j)' BY <2>0, <2>2 DEF StartByHand, BackupTyped, JobOk, Times, Runs
    <3>. QED BY <2>0, <2>2, <3>1, <3>2, JobMoves DEF StartByHand, BackupTyped
  <2>3. ASSUME NEW j \in Jobs, EndsWell(j) PROVE BackupInv'
    <3>1. BackupTyped' BY <2>0, <2>3 DEF EndsWell, BackupTyped, Times, RunStates
    <3>2. JobOk(j)' BY <2>0, <2>3 DEF EndsWell, BackupTyped, JobOk, Times, Runs
    <3>. QED BY <2>0, <2>3, <3>1, <3>2, JobMoves DEF EndsWell, BackupTyped
  <2>4. ASSUME NEW j \in Jobs, EndsBadly(j) PROVE BackupInv'
    <3>1. BackupTyped' BY <2>0, <2>4 DEF EndsBadly, BackupTyped, Times, RunStates
    <3>2. JobOk(j)' BY <2>0, <2>4 DEF EndsBadly, BackupTyped, JobOk, Times, Runs
    <3>. QED BY <2>0, <2>4, <3>1, <3>2, JobMoves DEF EndsBadly, BackupTyped
  <2>5. ASSUME NEW j \in Jobs, StopTimer(j) \/ ShowFails(j) PROVE BackupInv'
    BY <2>5, JobsStay DEF StopTimer, ShowFails
  <2>6. ASSUME NEW h \in Hosts, HostDown(h) PROVE BackupInv' BY <2>6, JobsStay DEF HostDown
  <2>7. CASE Hour
    <3>1. BackupTyped' BY <2>0, <2>7 DEF Hour, BackupTyped
    <3>2. ASSUME NEW j \in Jobs PROVE JobOk(j)'
      BY <2>0, <2>7, <3>2 DEF Hour, BackupTyped, JobOk, Times, Runs
    <3>. QED BY <3>1, <3>2 DEF BackupInv
  <2>8. CASE UNCHANGED backupVars BY <2>8, JobsStay DEF backupVars
  <2>. QED BY <2>1, <2>2, <2>3, <2>4, <2>5, <2>6, <2>7, <2>8 DEF BackupNext
<1>3. BackupInv => OkMeansRecent
  <2>. SUFFICES ASSUME BackupInv, NEW j \in Jobs, j \in Listed, Health(Timer(j)) = "ok"
                PROVE  LET since == IF Runs(j) THEN lastTrigger[j] ELSE lastSuccess[j]
                       IN  since # Missing /\ clock - since <= Interval[j] + Grace
    BY DEF OkMeansRecent, Reported, Timer
  <2>1. /\ Timer(j).job = j /\ Timer(j).lastRun = LastRun(j) /\ Timer(j).result = Result(j)
    BY DEF Timer
  <2>2. LastRun(j) # Missing /\ ~Overdue(Timer(j)) /\ Result(j) = "success"
    BY <2>1 DEF Health
  <2>3. ~(clock - LastRun(j) > Interval[j] + Grace)
    BY <2>1, <2>2 DEF Overdue, Failed, Age
  <2>4. j \notin mute /\ run[j] # "failed" BY <2>2 DEF Result
  <2>5. Interval[j] \in Nat /\ Grace \in Nat BY BackupAssumption
  <2>6. BackupTyped /\ JobOk(j) BY DEF BackupInv
  <2>7. CASE Runs(j)
    <3>1. LastRun(j) = lastTrigger[j] BY <2>2, <2>6, <2>7 DEF LastRun, JobOk
    <3>. QED BY <2>2, <2>3, <2>5, <2>6, <2>7, <3>1 DEF BackupTyped, Times
  <2>8. CASE ~Runs(j)
    <3>1. run[j] \in {"none", "success"} BY <2>4, <2>6, <2>8 DEF BackupTyped, RunStates, Runs
    <3>2. run[j] = "success" BY <2>2, <2>6, <3>1 DEF LastRun, JobOk
    <3>3. lastSuccess[j] \in Nat /\ LastRun(j) \in Nat /\ LastRun(j) <= lastSuccess[j]
      BY <2>2, <2>4, <2>6, <3>2 DEF LastRun, JobOk, BackupTyped, Times
    <3>. QED BY <2>3, <2>5, <2>6, <2>8, <3>3 DEF BackupTyped
  <2>. QED BY <2>7, <2>8
<1>. QED BY <1>1, <1>2, <1>3, PTL DEF BackupSpec

-----------------------------------------------------------------------------
(***************************************************************************)
(* ChainAccess.  What was mined stays, what a client was told of it stays   *)
(* true, and so does what the cache keeps: a receipt is one the chain has,  *)
(* a nonce counts no more than the calls that were accepted.                *)
(***************************************************************************)

Steps == {"idle", "funds", "nonce", "send", "wait"}
Statuses == {"success", "reverted"}
Outcomes == {"none", "open", "ok", "reverted", "unknown", "failed"}
Results == {Null} \cup {Quantity(n) : n \in Nat} \cup {Receipt(s) : s \in Statuses}
Txs == [from : Wallets, call : 1 .. MaxSends, nonce : Nat]
MinedTxs == [tx : Txs, status : Statuses]

AccessTyped ==
  /\ mined \in [Wallets -> Seq(MinedTxs)]
  /\ pool \subseteq Txs
  /\ view \in [Replicas -> [Wallets -> Nat]]
  /\ \A r \in Replicas, w \in Wallets : view[r][w] <= Len(mined[w])
  /\ step \in [Wallets -> Steps]
  /\ send \in [Wallets -> 0 .. MaxSends]
  /\ nonce \in [Wallets -> Nat]
  /\ outcome \in [Wallets -> [1 .. MaxSends -> Outcomes]]
  /\ rpc \in [Wallets -> [stage : {"idle", "upstream", "store"}, result : Results, due : BOOLEAN]]

\* Call i of w has a receipt with status s.
HasReceipt(w, i, s) ==
  \E k \in 1 .. Len(mined[w]) : mined[w][k].tx.call = i /\ mined[w][k].status = s

\* The result is one the request may be answered with, now or later.
Told(q, result) ==
  /\ q.method = "eth_getBalance" => \E n \in Nat : result = Quantity(n)
  /\ q.method = "eth_getTransactionCount" =>
        \E n \in 0 .. Cardinality(AcceptedCalls(q.of)) : result = Quantity(n)
  /\ q.method = "eth_getTransactionReceipt" =>
        \E s \in Statuses : result = Receipt(s) /\ HasReceipt(q.of, q.call, s)

\* Only what is told may be cached, so null never is.
CacheOk == \A q \in DOMAIN cache : q \in Requests /\ Told(q, cache[q])

ClientOk(w) ==
  /\ step[w] # "idle" => send[w] >= 1 /\ outcome[w][send[w]] = "open"
  /\ step[w] = "send" => nonce[w] <= Cardinality(AcceptedCalls(w))

\* "Not mined yet" is on its way only to a poll that began before every replica had
\* the receipt.
RpcOk(w) ==
  /\ \/ rpc[w] = NoRpc
     \/ rpc[w].stage \in {"upstream", "store"} /\ step[w] \in Reading /\ ~Uncached(w)
  /\ rpc[w].stage = "upstream" /\ rpc[w].due => MinedEverywhere(w)
  /\ rpc[w].stage = "store" =>
        \/ rpc[w].result = Null /\ step[w] = "wait" /\ ~rpc[w].due
        \/ Told(Wanted(w), rpc[w].result)

OutcomeOk(w) ==
  \A i \in 1 .. MaxSends :
     /\ outcome[w][i] = "ok" => HasReceipt(w, i, "success")
     /\ outcome[w][i] = "reverted" => HasReceipt(w, i, "reverted")

\* A transaction is of a call that was accepted, or of the one that waits for it,
\* and no two are of one call.
Submitted(w, i) == i \in AcceptedCalls(w) \/ (step[w] = "wait" /\ i = send[w])
TxOk ==
  /\ \A w \in Wallets : \A k \in 1 .. Len(mined[w]) : Submitted(w, mined[w][k].tx.call)
  /\ \A w \in Wallets : \A k, l \in 1 .. Len(mined[w]) :
        mined[w][k].tx.call = mined[w][l].tx.call => k = l
  /\ \A t \in pool : Submitted(t.from, t.call)
  /\ \A t, u \in pool : t.from = u.from /\ t.call = u.call => t = u
  /\ \A t \in pool : \A k \in 1 .. Len(mined[t.from]) : mined[t.from][k].tx.call # t.call

AccessInv ==
  /\ AccessTyped /\ CacheOk /\ TxOk
  /\ \A w \in Wallets : ClientOk(w) /\ RpcOk(w) /\ OutcomeOk(w)

\* The three kinds of result differ, and carry what they were made of.
LEMMA QueryKinds ==
  /\ \A n : Quantity(n) # Null /\ Quantity(n).value = n
  /\ \A s : Receipt(s) # Null /\ Receipt(s).status = s
  /\ Null \in Results
  /\ \A n \in Nat : Quantity(n) \in Results
  /\ \A s \in Statuses : Receipt(s) \in Results
<1>1. Null.kind = "null" /\ \A n : Quantity(n).kind = "quantity" /\ Quantity(n).value = n
      /\ \A s : Receipt(s).kind = "receipt" /\ Receipt(s).status = s
  BY DEF Null, Quantity, Receipt
<1>2. \A n : Quantity(n) # Null BY <1>1
<1>3. \A s : Receipt(s) # Null BY <1>1
<1>. QED BY <1>1, <1>2, <1>3, Zenon DEF Results

\* What a client at each step waits for, and what it may be told.
LEMMA WantedIs ==
  ASSUME NEW w \in Wallets
  PROVE  /\ step[w] = "funds" => Wanted(w) = BalanceOf(w)
         /\ step[w] = "nonce" => Wanted(w) = NonceOf(w)
         /\ step[w] = "wait" => Wanted(w) = ReceiptOf(w, send[w])
<1>1. step[w] = "funds" => Wanted(w) = BalanceOf(w) BY Zenon DEF Wanted
<1>2. step[w] = "nonce" => Wanted(w) = NonceOf(w) BY Zenon DEF Wanted
<1>3. step[w] = "wait" => Wanted(w) = ReceiptOf(w, send[w]) BY Zenon DEF Wanted
<1>. QED BY <1>1, <1>2, <1>3

LEMMA ToldIs ==
  ASSUME NEW w \in Wallets, NEW result
  PROVE  /\ Told(BalanceOf(w), result) <=> \E n \in Nat : result = Quantity(n)
         /\ Told(NonceOf(w), result) <=>
              \E n \in 0 .. Cardinality(AcceptedCalls(w)) : result = Quantity(n)
         /\ \A i : Told(ReceiptOf(w, i), result) <=>
              \E s \in Statuses : result = Receipt(s) /\ HasReceipt(w, i, s)
<1>1. /\ BalanceOf(w).method = "eth_getBalance"
      /\ NonceOf(w).method = "eth_getTransactionCount" /\ NonceOf(w).of = w
      /\ \A i : /\ ReceiptOf(w, i).method = "eth_getTransactionReceipt"
                /\ ReceiptOf(w, i).of = w /\ ReceiptOf(w, i).call = i
  BY DEF BalanceOf, NonceOf, ReceiptOf
<1>2. /\ "eth_getBalance" # "eth_getTransactionCount"
      /\ "eth_getBalance" # "eth_getTransactionReceipt"
      /\ "eth_getTransactionCount" # "eth_getTransactionReceipt"
  OBVIOUS
<1>. QED BY <1>1, <1>2, Zenon DEF Told

LEMMA RequestsAre ==
  ASSUME NEW q \in Requests
  PROVE  \E w \in Wallets : q = BalanceOf(w) \/ q = NonceOf(w) \/ \E i \in 1 .. MaxSends : q = ReceiptOf(w, i)
BY DEF Requests

\* What was told is never null.
LEMMA ToldIsNotNull ==
  ASSUME NEW q \in Requests, NEW result, Told(q, result)
  PROVE  result # Null
<1>1. PICK w \in Wallets : q = BalanceOf(w) \/ q = NonceOf(w) \/ \E i \in 1 .. MaxSends : q = ReceiptOf(w, i)
  BY RequestsAre
<1>2. CASE q = BalanceOf(w) BY <1>2, ToldIs, QueryKinds
<1>3. CASE q = NonceOf(w) BY <1>3, ToldIs, QueryKinds
<1>4. CASE \E i \in 1 .. MaxSends : q = ReceiptOf(w, i) BY <1>4, ToldIs, QueryKinds
<1>. QED BY <1>1, <1>2, <1>3, <1>4

\* The calls a client had accepted are finitely many.
LEMMA AcceptedFinite ==
  ASSUME AccessTyped, NEW w \in Wallets
  PROVE  /\ IsFiniteSet(AcceptedCalls(w)) /\ Cardinality(AcceptedCalls(w)) \in Nat
         /\ \A S \in SUBSET AcceptedCalls(w) : IsFiniteSet(S) /\ Cardinality(S) <= Cardinality(AcceptedCalls(w))
<1>1. send[w] \in Nat BY ChainAccessAssumption DEF AccessTyped
<1>2. AcceptedCalls(w) \subseteq 1 .. send[w] BY DEF AcceptedCalls
<1>3. IsFiniteSet(1 .. send[w]) BY <1>1, FS_Interval
<1>4. IsFiniteSet(AcceptedCalls(w)) BY <1>2, <1>3, FS_Subset
<1>. QED BY <1>4, FS_CardinalityType, FS_Subset

\* Blocks are only added, replicas only catch up and accepted calls stay accepted.
Grows ==
  /\ \A w \in Wallets : \A k \in 1 .. Len(mined[w]) :
        k \in 1 .. Len(mined'[w]) /\ mined'[w][k] = mined[w][k]
  /\ \A w \in Wallets : AcceptedCalls(w) \subseteq AcceptedCalls(w)'

LEMMA ReceiptStays ==
  ASSUME Grows, NEW w \in Wallets, NEW i, NEW s, HasReceipt(w, i, s)
  PROVE  HasReceipt(w, i, s)'
BY DEF Grows, HasReceipt

\* What was true of a result stays true of it.
LEMMA ToldStays ==
  ASSUME AccessTyped, AccessTyped', Grows, NEW q \in Requests, NEW result, Told(q, result)
  PROVE  Told(q, result)'
<1>1. PICK w \in Wallets : q = BalanceOf(w) \/ q = NonceOf(w) \/ \E i \in 1 .. MaxSends : q = ReceiptOf(w, i)
  BY RequestsAre
<1>2. /\ Cardinality(AcceptedCalls(w)) \in Nat /\ Cardinality(AcceptedCalls(w)') \in Nat
      /\ Cardinality(AcceptedCalls(w)) <= Cardinality(AcceptedCalls(w)')
  <2>1. send'[w] \in Nat BY ChainAccessAssumption DEF AccessTyped
  <2>2. AcceptedCalls(w)' \subseteq 1 .. send'[w] BY DEF AcceptedCalls
  <2>3. IsFiniteSet(1 .. send'[w]) BY <2>1, FS_Interval
  <2>4. IsFiniteSet(AcceptedCalls(w)') BY <2>2, <2>3, FS_Subset
  <2>. QED BY <2>4, AcceptedFinite, FS_CardinalityType, FS_Subset DEF Grows
<1>3. CASE q = BalanceOf(w)
  <2>1. Told(BalanceOf(w), result)' BY <1>3, ToldIs DEF Told, BalanceOf
  <2>. QED BY <1>3, <2>1
<1>4. CASE q = NonceOf(w)
  <2>1. PICK n \in 0 .. Cardinality(AcceptedCalls(w)) : result = Quantity(n) BY <1>4, ToldIs
  <2>2. n \in 0 .. Cardinality(AcceptedCalls(w)') BY <1>2
  <2>3. NonceOf(w).method = "eth_getTransactionCount" /\ NonceOf(w).of = w BY DEF NonceOf
  <2>. QED BY <1>4, <2>1, <2>2, <2>3 DEF Told
<1>5. ASSUME NEW i \in 1 .. MaxSends, q = ReceiptOf(w, i) PROVE Told(q, result)'
  <2>1. PICK s \in Statuses : result = Receipt(s) /\ HasReceipt(w, i, s) BY <1>5, ToldIs
  <2>2. HasReceipt(w, i, s)' BY <2>1, ReceiptStays
  <2>3. /\ ReceiptOf(w, i).method = "eth_getTransactionReceipt"
        /\ ReceiptOf(w, i).of = w /\ ReceiptOf(w, i).call = i
    BY DEF ReceiptOf
  <2>. QED BY <1>5, <2>1, <2>2, <2>3 DEF Told
<1>. QED BY <1>1, <1>3, <1>4, <1>5

-----------------------------------------------------------------------------
(* The pending nonce.  It counts transactions at different nonces, so of    *)
(* different calls, and all of them were accepted.                          *)

LEMMA Least ==
  ASSUME NEW S \in SUBSET Nat, S # {}
  PROVE  \E n \in S : \A m \in S : n <= m
<1>1. PICK n \in S : \A m \in S : <<m, n>> \notin OpToRel(<, Nat)
  BY NatLessThanWellFounded, WFMin
<1>2. \A m \in S : ~(m < n) BY <1>1 DEF OpToRel
<1>. QED BY <1>2

\* The pool holds w's nonces from Len(mined[w]) up to the pending one.
LEMMA Pending ==
  ASSUME AccessTyped, NEW w \in Wallets
  PROVE  /\ PendingCount(w) \in Nat /\ Len(mined[w]) <= PendingCount(w)
         /\ \A p \in Len(mined[w]) + 1 .. PendingCount(w) :
               \E t \in pool : t.from = w /\ t.nonce = p - 1
<1>. DEFINE Gaps == {MaxSends - k : k \in Executable(w)}
<1>1. Len(mined[w]) \in Nat BY DEF AccessTyped
<1>2. Executable(w) \subseteq 0 .. MaxSends /\ MaxSends \in Nat
  BY ChainAccessAssumption DEF Executable
<1>3. 0 \in Executable(w) BY ChainAccessAssumption DEF Executable
<1>4. Gaps \in SUBSET Nat /\ Gaps # {} BY <1>2, <1>3
<1>5. PICK g \in Gaps : \A h \in Gaps : g <= h
  <2>. HIDE DEF Gaps
  <2>. QED BY <1>4, Least
<1>6. PICK most \in Executable(w) : g = MaxSends - most BY <1>5
<1>7. \A j \in Executable(w) : j <= most
  <2>1. SUFFICES ASSUME NEW j \in Executable(w) PROVE j <= most OBVIOUS
  <2>2. MaxSends - j \in Gaps OBVIOUS
  <2>. QED BY <1>2, <1>5, <1>6, <2>2
<1>. DEFINE last == CHOOSE k \in Executable(w) : \A j \in Executable(w) : j <= k
<1>8. last \in Executable(w) BY <1>7
<1>9. PendingCount(w) = Len(mined[w]) + last BY DEF PendingCount
<1>10. ASSUME NEW p \in Len(mined[w]) + 1 .. Len(mined[w]) + last
       PROVE  \E t \in pool : t.from = w /\ t.nonce = p - 1
  <2>1. last \in 0 .. MaxSends BY <1>2, <1>8
  <2>. HIDE DEF last
  <2>2. p - Len(mined[w]) \in 1 .. last BY <1>1, <2>1
  <2>3. PICK t \in pool : t.from = w /\ t.nonce = Len(mined[w]) + (p - Len(mined[w])) - 1
    BY <1>8, <2>2 DEF Executable
  <2>. QED BY <1>1, <2>1, <2>3
<1>. HIDE DEF last
<1>. QED BY <1>1, <1>2, <1>8, <1>9, <1>10

\* While the client has no call on its way, the pending nonce of any node is at most
\* the number of calls it had accepted (eth_getTransactionCount, "pending").
LEMMA PendingIsAccepted ==
  ASSUME AccessTyped, TxOk, NEW w \in Wallets, step[w] # "wait"
  PROVE  PendingCount(w) <= Cardinality(AcceptedCalls(w))
<1>. DEFINE CallAt(p, i) ==
       \/ p <= Len(mined[w]) /\ i = mined[w][p].tx.call
       \/ p > Len(mined[w]) /\ \E t \in pool : t.from = w /\ t.nonce = p - 1 /\ t.call = i
<1>. DEFINE Places == 1 .. PendingCount(w)
<1>1. Len(mined[w]) \in Nat /\ PendingCount(w) \in Nat /\ Len(mined[w]) <= PendingCount(w)
  <2>1. Len(mined[w]) \in Nat BY DEF AccessTyped
  <2>. QED BY <2>1, Pending
<1>2. ASSUME NEW p \in Places PROVE \E i \in AcceptedCalls(w) : CallAt(p, i)
  <2>1. CASE p <= Len(mined[w])
    <3>1. p \in 1 .. Len(mined[w]) BY <1>1, <2>1
    <3>2. mined[w][p].tx.call \in AcceptedCalls(w) BY <3>1 DEF TxOk, Submitted
    <3>. QED BY <2>1, <3>2
  <2>2. CASE p > Len(mined[w])
    <3>1. p \in Len(mined[w]) + 1 .. PendingCount(w) BY <1>1, <2>2
    <3>2. PICK t \in pool : t.from = w /\ t.nonce = p - 1 BY <3>1, Pending
    <3>3. t.call \in AcceptedCalls(w) BY <3>2 DEF TxOk, Submitted
    <3>. QED BY <2>2, <3>2, <3>3
  <2>. QED BY <1>1, <2>1, <2>2
<1>3. ASSUME NEW p \in Places, NEW q \in Places, NEW i, CallAt(p, i), CallAt(q, i)
      PROVE  p = q
  <2>1. CASE p <= Len(mined[w]) /\ q <= Len(mined[w])
    <3>1. p \in 1 .. Len(mined[w]) /\ q \in 1 .. Len(mined[w]) BY <1>1, <2>1
    <3>2. mined[w][p].tx.call = mined[w][q].tx.call BY <1>1, <1>3, <2>1
    <3>. QED BY <3>1, <3>2 DEF TxOk
  <2>2. CASE p > Len(mined[w]) /\ q > Len(mined[w])
    <3>1. PICK t \in pool : t.from = w /\ t.nonce = p - 1 /\ t.call = i BY <1>1, <1>3, <2>2
    <3>2. PICK u \in pool : u.from = w /\ u.nonce = q - 1 /\ u.call = i BY <1>1, <1>3, <2>2
    <3>3. t = u BY <3>1, <3>2 DEF TxOk
    <3>. QED BY <1>1, <3>1, <3>2, <3>3
  <2>3. ASSUME NEW k \in Places, NEW l \in Places, CallAt(k, i), CallAt(l, i),
               k <= Len(mined[w]), l > Len(mined[w])
        PROVE  FALSE
    <3>1. k \in 1 .. Len(mined[w]) /\ mined[w][k].tx.call = i BY <1>1, <2>3
    <3>2. PICK t \in pool : t.from = w /\ t.call = i BY <1>1, <2>3
    <3>. QED BY <3>1, <3>2 DEF TxOk
  <2>. QED BY <1>1, <1>3, <2>1, <2>2, <2>3
<1>. DEFINE f == [p \in Places |-> CHOOSE i \in AcceptedCalls(w) : CallAt(p, i)]
<1>4. \A p \in Places : f[p] \in AcceptedCalls(w) /\ CallAt(p, f[p])
  <2>. HIDE DEF CallAt, Places
  <2>. QED BY <1>2
<1>5. f \in Injection(Places, AcceptedCalls(w))
  <2>1. f \in [Places -> AcceptedCalls(w)] BY <1>4
  <2>2. \A p, q \in Places : f[p] = f[q] => p = q
    <3>. HIDE DEF CallAt, Places, f
    <3>. QED BY <1>3, <1>4
  <2>. QED BY <2>1, <2>2 DEF Injection, IsInjective
<1>6. Cardinality(Places) <= Cardinality(AcceptedCalls(w))
  <2>. HIDE DEF Places, f
  <2>. QED BY <1>5, AcceptedFinite, FS_Injection
<1>7. Cardinality(Places) = PendingCount(w) BY <1>1, FS_Interval
<1>. QED BY <1>6, <1>7

-----------------------------------------------------------------------------
(* What one step leaves of the facts about a client that takes no part.     *)

\* Replicas only import blocks.
CatchesUp == \A r \in Replicas, w \in Wallets : view[r][w] <= view'[r][w]

LEMMA WantedIsRequest ==
  ASSUME AccessTyped, NEW w \in Wallets, ClientOk(w), step[w] \in Reading
  PROVE  Wanted(w) \in Requests
<1>1. send[w] \in 1 .. MaxSends BY ChainAccessAssumption DEF AccessTyped, ClientOk, Reading
<1>2. step[w] \in {"funds", "nonce", "wait"} BY DEF Reading
<1>. QED BY <1>1, <1>2, WantedIs DEF Requests

\* A receipt that is on every replica stays there.
LEMMA MinedEverywhereStays ==
  ASSUME AccessTyped, AccessTyped', Grows, CatchesUp, NEW w \in Wallets,
         step'[w] = step[w], send'[w] = send[w], MinedEverywhere(w)
  PROVE  MinedEverywhere(w)'
<1>1. ASSUME NEW r \in Replicas PROVE MinedAt(w, send[w], view[r][w])' # {}
  <2>1. PICK k \in 1 .. view[r][w] : mined[w][k].tx.call = send[w]
    BY DEF MinedEverywhere, MinedAt
  <2>2. view[r][w] \in Nat /\ view'[r][w] \in Nat /\ Len(mined[w]) \in Nat
        /\ view[r][w] <= Len(mined[w]) /\ view[r][w] <= view'[r][w]
    BY DEF AccessTyped, CatchesUp
  <2>3. k \in 1 .. view'[r][w] /\ k \in 1 .. Len(mined[w]) BY <2>1, <2>2
  <2>4. mined'[w][k] = mined[w][k] BY <2>3 DEF Grows
  <2>. QED BY <2>1, <2>3, <2>4 DEF MinedAt
<1>. QED BY <1>1 DEF MinedEverywhere, MinedAt

LEMMA RpcStays ==
  ASSUME AccessTyped, AccessTyped', Grows, CatchesUp, NEW w \in Wallets, ClientOk(w), RpcOk(w),
         step'[w] = step[w], send'[w] = send[w], rpc'[w] = rpc[w]
  PROVE  RpcOk(w)'
<1>1. Wanted(w)' = Wanted(w) /\ (Uncached(w)' <=> Uncached(w))
  BY Zenon DEF Wanted, Uncached, BalanceOf, NonceOf, ReceiptOf
<1>2. MinedEverywhere(w) => MinedEverywhere(w)' BY MinedEverywhereStays
<1>3. step[w] \in Reading => Wanted(w) \in Requests BY WantedIsRequest
<1>4. rpc[w].stage = "store" => step[w] \in Reading BY DEF RpcOk, NoRpc
<1>5. ASSUME rpc[w].stage = "store", Told(Wanted(w), rpc[w].result)
      PROVE  Told(Wanted(w), rpc[w].result)'
  <2>1. \A q : q = Wanted(w) => \A a : a = rpc[w].result => Told(q, a)'
    BY <1>3, <1>4, <1>5, ToldStays
  <2>. QED BY <1>1, <1>5, <2>1
<1>. QED BY <1>1, <1>2, <1>4, <1>5 DEF RpcOk, NoRpc

LEMMA OutcomeStays ==
  ASSUME Grows, NEW w \in Wallets, OutcomeOk(w), outcome'[w] = outcome[w]
  PROVE  OutcomeOk(w)'
BY ReceiptStays DEF OutcomeOk

LEMMA ClientStays ==
  ASSUME AccessTyped, NEW w \in Wallets, ClientOk(w),
         step'[w] = step[w], send'[w] = send[w], nonce'[w] = nonce[w], outcome'[w] = outcome[w]
  PROVE  ClientOk(w)' /\ AcceptedCalls(w)' = AcceptedCalls(w)
         /\ \A i : Submitted(w, i)' <=> Submitted(w, i)
<1>1. AcceptedCalls(w)' = AcceptedCalls(w) BY DEF AcceptedCalls
<1>. QED BY <1>1 DEF ClientOk, Submitted

\* The cache only forgets, or stores what was told.
CacheKeeps ==
  \A q \in DOMAIN cache' :
    q \in Requests /\ ((q \in DOMAIN cache /\ cache'[q] = cache[q]) \/ Told(q, cache'[q]))

LEMMA CacheStays ==
  ASSUME AccessTyped, AccessTyped', CacheOk, Grows, CacheKeeps
  PROVE  CacheOk'
<1>. SUFFICES ASSUME NEW q \in DOMAIN cache' PROVE q \in Requests /\ Told(q, cache[q])'
  BY DEF CacheOk
<1>1. q \in Requests /\ Told(q, cache'[q]) BY DEF CacheKeeps, CacheOk
<1>2. PICK result : result = cache'[q] OBVIOUS
<1>3. Told(q, result)' BY <1>1, <1>2, ToldStays
<1>. QED BY <1>1, <1>2, <1>3 DEF Told

\* A step of the chain or of the cache's clock.
LEMMA WorldTurn ==
  ASSUME AccessInv, AccessTyped', Grows, CatchesUp, CacheKeeps, TxOk', UNCHANGED <<clientVars, rpc>>
  PROVE  AccessInv'
<1>1. CacheOk' BY CacheStays DEF AccessInv
<1>2. ASSUME NEW w \in Wallets PROVE ClientOk(w)' /\ RpcOk(w)' /\ OutcomeOk(w)'
  <2>1. AccessTyped /\ ClientOk(w) /\ RpcOk(w) /\ OutcomeOk(w) BY DEF AccessInv
  <2>2. /\ step'[w] = step[w] /\ send'[w] = send[w] /\ nonce'[w] = nonce[w]
        /\ outcome'[w] = outcome[w] /\ rpc'[w] = rpc[w]
    BY DEF clientVars
  <2>. QED BY <2>1, <2>2, RpcStays, ClientStays, OutcomeStays
<1>. QED BY <1>1, <1>2 DEF AccessInv

\* A step of w's client: nobody else's call moves.
OthersStay(w) ==
  \A u \in Wallets \ {w} :
    /\ step'[u] = step[u] /\ send'[u] = send[u] /\ nonce'[u] = nonce[u]
    /\ outcome'[u] = outcome[u] /\ rpc'[u] = rpc[u]

LEMMA ClientTurn ==
  ASSUME AccessInv, AccessTyped', NEW w \in Wallets, OthersStay(w), UNCHANGED <<mined, view>>,
         AcceptedCalls(w) \subseteq AcceptedCalls(w)', CacheKeeps, TxOk',
         ClientOk(w)', RpcOk(w)', OutcomeOk(w)'
  PROVE  AccessInv'
<1>0. AccessTyped BY DEF AccessInv
<1>1. Grows
  <2>1. \A u \in Wallets : AcceptedCalls(u) \subseteq AcceptedCalls(u)'
    BY DEF OthersStay, AcceptedCalls
  <2>. QED BY <2>1 DEF Grows
<1>2. CatchesUp BY <1>0 DEF CatchesUp, AccessTyped
<1>3. CacheOk' BY <1>0, <1>1, CacheStays DEF AccessInv
<1>4. ASSUME NEW u \in Wallets, u # w PROVE ClientOk(u)' /\ RpcOk(u)' /\ OutcomeOk(u)'
  <2>1. ClientOk(u) /\ RpcOk(u) /\ OutcomeOk(u) BY DEF AccessInv
  <2>2. /\ step'[u] = step[u] /\ send'[u] = send[u] /\ nonce'[u] = nonce[u]
        /\ outcome'[u] = outcome[u] /\ rpc'[u] = rpc[u]
    BY <1>4 DEF OthersStay
  <2>. QED BY <1>0, <1>1, <1>2, <2>1, <2>2, RpcStays, ClientStays, OutcomeStays
<1>. QED BY <1>3, <1>4 DEF AccessInv

\* The transactions of others stay theirs, and w's stay those of its calls.
LEMMA TxStays ==
  ASSUME AccessInv, NEW w \in Wallets, OthersStay(w), UNCHANGED <<mined, pool>>,
         \A i \in 1 .. MaxSends : Submitted(w, i) => Submitted(w, i)'
  PROVE  TxOk'
<1>0. AccessTyped /\ TxOk BY DEF AccessInv
<1>1. \A u \in Wallets, i \in 1 .. MaxSends : Submitted(u, i) => Submitted(u, i)'
  BY DEF OthersStay, Submitted, AcceptedCalls
<1>2. ASSUME NEW u \in Wallets, NEW k \in 1 .. Len(mined[u])
      PROVE  mined[u][k].tx.call \in 1 .. MaxSends
  <2>1. mined[u] \in Seq(MinedTxs) BY <1>0 DEF AccessTyped
  <2>2. mined[u][k] \in MinedTxs BY <2>1
  <2>. QED BY <2>2 DEF MinedTxs, Txs
<1>3. \A t \in pool : t.from \in Wallets /\ t.call \in 1 .. MaxSends
  BY <1>0 DEF AccessTyped, Txs
<1>4. \A u \in Wallets : \A k \in 1 .. Len(mined[u]) : Submitted(u, mined[u][k].tx.call)'
  BY <1>0, <1>1, <1>2 DEF TxOk, Submitted, AcceptedCalls
<1>5. \A t \in pool : Submitted(t.from, t.call)'
  BY <1>0, <1>1, <1>3 DEF TxOk
<1>. QED BY <1>0, <1>4, <1>5 DEF TxOk

-----------------------------------------------------------------------------
(* The client's calls.                                                      *)

RpcRecords == [stage : {"idle", "upstream", "store"}, result : Results, due : BOOLEAN]

LEMMA NoRpcIs == NoRpc \in RpcRecords /\ NoRpc.stage = "idle"
BY QueryKinds DEF NoRpc, RpcRecords

\* A call that ends leaves nothing behind: what it may have submitted was accepted,
\* and what it tells of a receipt is on the chain.
LEMMA Finishing ==
  ASSUME AccessInv, NEW w \in Wallets, step[w] # "idle",
         NEW o \in {"ok", "reverted", "unknown", "failed"}, Finish(w, o),
         UNCHANGED <<mined, pool, view>>, CacheKeeps, rpc' = [rpc EXCEPT ![w] = NoRpc],
         step[w] = "wait" => o # "failed",
         o = "ok" => HasReceipt(w, send[w], "success"),
         o = "reverted" => HasReceipt(w, send[w], "reverted")
  PROVE  AccessInv'
<1>0. AccessTyped /\ ClientOk(w) /\ RpcOk(w) /\ OutcomeOk(w) BY DEF AccessInv
<1>1. send[w] \in 1 .. MaxSends /\ outcome[w][send[w]] = "open"
  BY <1>0, ChainAccessAssumption DEF AccessTyped, ClientOk
<1>2. /\ step' = [step EXCEPT ![w] = "idle"] /\ send' = send
      /\ outcome' = [outcome EXCEPT ![w][send[w]] = o] /\ nonce' = [nonce EXCEPT ![w] = 0]
  BY DEF Finish
<1>3. AccessTyped'
  <2>1. step' \in [Wallets -> Steps] /\ send' \in [Wallets -> 0 .. MaxSends]
        /\ nonce' \in [Wallets -> Nat]
    BY <1>0, <1>2 DEF AccessTyped, Steps
  <2>2. o \in Outcomes BY DEF Outcomes
  <2>3. outcome' \in [Wallets -> [1 .. MaxSends -> Outcomes]]
    BY <1>0, <1>1, <1>2, <2>2 DEF AccessTyped
  <2>4. rpc' \in [Wallets -> RpcRecords]
    BY <1>0, NoRpcIs DEF AccessTyped, RpcRecords
  <2>. QED BY <1>0, <2>1, <2>3, <2>4 DEF AccessTyped, RpcRecords
<1>4. /\ step'[w] = "idle" /\ send'[w] = send[w] /\ rpc'[w] = NoRpc
      /\ outcome'[w][send[w]] = o
      /\ \A i \in 1 .. MaxSends : i # send[w] => outcome'[w][i] = outcome[w][i]
  BY <1>0, <1>1, <1>2 DEF AccessTyped
<1>5. OthersStay(w)
  BY <1>0, <1>2 DEF AccessTyped, OthersStay
<1>6. AcceptedCalls(w) \subseteq AcceptedCalls(w)'
      /\ (o # "failed" => send[w] \in AcceptedCalls(w)')
  <2>1. \A i \in 1 .. send[w] : i \in 1 .. MaxSends BY <1>1, ChainAccessAssumption
  <2>2. send[w] \in 1 .. send[w] BY <1>1
  <2>. QED BY <1>1, <1>4, <2>1, <2>2 DEF AcceptedCalls
<1>7. TxOk'
  <2>1. \A i \in 1 .. MaxSends : Submitted(w, i) => Submitted(w, i)' BY <1>6 DEF Submitted
  <2>. QED BY <1>5, <2>1, TxStays
<1>8. ClientOk(w)' /\ RpcOk(w)'
  BY <1>4, NoRpcIs DEF ClientOk, RpcOk
<1>9. OutcomeOk(w)'
  BY <1>0, <1>4 DEF OutcomeOk, HasReceipt
<1>. QED BY <1>3, <1>5, <1>6, <1>7, <1>8, <1>9, ClientTurn

\* A client that goes on in its call: what it reads from the chain may be no more
\* than the nonce.
LEMMA Continuing ==
  ASSUME AccessInv, NEW w \in Wallets, step[w] \in Reading,
         NEW next \in {"nonce", "send", "wait"}, NEW n \in Nat,
         step' = [step EXCEPT ![w] = next], nonce' = [nonce EXCEPT ![w] = n],
         UNCHANGED <<mined, pool, view, send, outcome>>, CacheKeeps,
         rpc' = [rpc EXCEPT ![w] = NoRpc],
         step[w] = "wait" => next = "wait",
         next = "send" => n <= Cardinality(AcceptedCalls(w))
  PROVE  AccessInv'
<1>0. AccessTyped /\ ClientOk(w) /\ RpcOk(w) /\ OutcomeOk(w) BY DEF AccessInv
<1>1. /\ step'[w] = next /\ send'[w] = send[w] /\ rpc'[w] = NoRpc
      /\ nonce'[w] = n /\ outcome'[w] = outcome[w]
  BY <1>0 DEF AccessTyped
<1>2. AccessTyped'
  <2>1. step' \in [Wallets -> Steps] /\ nonce' \in [Wallets -> Nat] BY <1>0 DEF AccessTyped, Steps
  <2>2. rpc' \in [Wallets -> RpcRecords] BY <1>0, NoRpcIs DEF AccessTyped, RpcRecords
  <2>. QED BY <1>0, <2>1, <2>2 DEF AccessTyped, RpcRecords
<1>3. OthersStay(w) BY <1>0 DEF AccessTyped, OthersStay
<1>4. AcceptedCalls(w)' = AcceptedCalls(w) BY <1>1 DEF AcceptedCalls
<1>5. TxOk'
  <2>1. \A i \in 1 .. MaxSends : Submitted(w, i) => Submitted(w, i)' BY <1>1, <1>4 DEF Submitted
  <2>. QED BY <1>3, <2>1, TxStays
<1>6. ClientOk(w)'
  <2>1. step[w] # "idle" BY DEF Reading
  <2>. QED BY <1>0, <1>1, <1>4, <2>1 DEF ClientOk
<1>7. RpcOk(w)' BY <1>1, NoRpcIs DEF RpcOk
<1>8. OutcomeOk(w)' BY <1>0, <1>1 DEF OutcomeOk, HasReceipt
<1>. QED BY <1>2, <1>3, <1>4, <1>5, <1>6, <1>7, <1>8, ClientTurn

LEMMA ReplyIs ==
  ASSUME NEW w \in Wallets, NEW result, Reply(w, result)
  PROVE  /\ rpc' = [rpc EXCEPT ![w] = NoRpc]
         /\ step[w] = "funds" => CheckFunds(w, result)
         /\ step[w] = "nonce" => TakeNonce(w, result)
         /\ step[w] = "wait" => TakeReceipt(w, result)
<1>1. step[w] = "funds" => CheckFunds(w, result) BY Zenon DEF Reply
<1>2. step[w] = "nonce" => TakeNonce(w, result) BY Zenon DEF Reply
<1>3. step[w] = "wait" => TakeReceipt(w, result) BY Zenon DEF Reply
<1>4. rpc' = [rpc EXCEPT ![w] = NoRpc] BY Zenon DEF Reply
<1>. QED BY <1>1, <1>2, <1>3, <1>4

\* A reply that may be told leaves the client with nothing false.
LEMMA Replying ==
  ASSUME AccessInv, NEW w \in Wallets, step[w] \in Reading, NEW result, Reply(w, result),
         (result = Null /\ step[w] = "wait") \/ Told(Wanted(w), result),
         UNCHANGED <<mined, pool, view>>, CacheKeeps
  PROVE  AccessInv'
<1>0. AccessTyped /\ ClientOk(w) BY DEF AccessInv
<1>1. step[w] \in {"funds", "nonce", "wait"} /\ step[w] # "idle" BY DEF Reading
<1>2. rpc' = [rpc EXCEPT ![w] = NoRpc] BY ReplyIs
<1>3. nonce[w] \in Nat /\ nonce = [nonce EXCEPT ![w] = nonce[w]]
      /\ step = [step EXCEPT ![w] = step[w]]
  BY <1>0 DEF AccessTyped
<1>4. CASE step[w] = "funds"
  <2>1. CheckFunds(w, result) BY <1>4, ReplyIs
  <2>2. CASE Finish(w, "failed") BY <1>1, <1>2, <1>4, <2>2, Finishing
  <2>3. CASE step' = [step EXCEPT ![w] = "nonce"] /\ UNCHANGED <<send, nonce, outcome>>
    BY <1>2, <1>3, <1>4, <2>3, Continuing
  <2>. QED BY <2>1, <2>2, <2>3 DEF CheckFunds
<1>5. CASE step[w] = "nonce"
  <2>1. TakeNonce(w, result) BY <1>5, ReplyIs
  <2>2. Told(NonceOf(w), result) BY <1>5, WantedIs
  <2>3. PICK n \in 0 .. Cardinality(AcceptedCalls(w)) : result = Quantity(n) BY <2>2, ToldIs
  <2>4. n \in Nat /\ n <= Cardinality(AcceptedCalls(w)) BY <1>0, AcceptedFinite
  <2>5. /\ step' = [step EXCEPT ![w] = "send"] /\ nonce' = [nonce EXCEPT ![w] = n]
        /\ UNCHANGED <<send, outcome>>
    BY <2>1, <2>3, QueryKinds DEF TakeNonce
  <2>. QED BY <1>2, <1>5, <2>4, <2>5, Continuing
<1>6. CASE step[w] = "wait"
  <2>1. TakeReceipt(w, result) BY <1>6, ReplyIs
  <2>2. CASE result = Null
    <3>1. UNCHANGED clientVars BY <2>1, <2>2 DEF TakeReceipt
    <3>. QED BY <1>2, <1>3, <1>6, <3>1, Continuing DEF clientVars
  <2>3. CASE result # Null
    <3>1. Told(ReceiptOf(w, send[w]), result) BY <1>6, <2>3, WantedIs
    <3>2. PICK s \in Statuses : result = Receipt(s) /\ HasReceipt(w, send[w], s)
      BY <3>1, ToldIs
    <3>3. result.status = s BY <3>2, QueryKinds
    <3>4. CASE s = "success"
      <4>1. Finish(w, "ok") BY <2>1, <2>3, <3>3, <3>4 DEF TakeReceipt
      <4>. QED BY <1>1, <1>2, <1>6, <3>2, <3>4, <4>1, Finishing
    <3>5. CASE s = "reverted"
      <4>1. Finish(w, "reverted") BY <2>1, <2>3, <3>3, <3>5 DEF TakeReceipt
      <4>. QED BY <1>1, <1>2, <1>6, <3>2, <3>5, <4>1, Finishing
    <3>. QED BY <3>4, <3>5 DEF Statuses
  <2>. QED BY <2>2, <2>3
<1>. QED BY <1>1, <1>4, <1>5, <1>6

\* What a replica may answer is true when it answers; "not mined yet" only while some
\* replica has yet to import the block.
LEMMA Answering ==
  ASSUME AccessInv, NEW w \in Wallets, step[w] \in Reading,
         NEW r \in Replicas, NEW a \in Answers(r, Wanted(w))
  PROVE  a \in Results
         /\ \/ a = Null /\ step[w] = "wait" /\ ~MinedEverywhere(w)
            \/ Told(Wanted(w), a)
<1>0. AccessTyped /\ TxOk /\ ClientOk(w) BY DEF AccessInv
<1>1. step[w] \in {"funds", "nonce", "wait"} BY DEF Reading
<1>2. CASE step[w] = "funds"
  <2>1. Wanted(w) = BalanceOf(w) BY <1>2, WantedIs
  <2>2. BalanceOf(w).method = "eth_getBalance" BY DEF BalanceOf
  <2>3. a \in {Quantity(IF Wanted(w).of \in funded THEN 1 ELSE 0)}
    BY <2>1, <2>2, Zenon DEF Answers
  <2>4. \E n \in Nat : a = Quantity(n) BY <2>3
  <2>. QED BY <2>1, <2>4, ToldIs, QueryKinds
<1>3. CASE step[w] = "nonce"
  <2>1. Wanted(w) = NonceOf(w) BY <1>3, WantedIs
  <2>2. NonceOf(w).method = "eth_getTransactionCount" /\ NonceOf(w).of = w BY DEF NonceOf
  <2>3. NonceOf(w).method # "eth_getBalance" BY <2>2
  <2>4. a \in {Quantity(n) : n \in view[r][w] .. PendingCount(w)}
    BY <2>1, <2>2, <2>3, Zenon DEF Answers
  <2>5. PendingCount(w) \in Nat /\ PendingCount(w) <= Cardinality(AcceptedCalls(w))
    BY <1>0, <1>3, Pending, PendingIsAccepted
  <2>6. view[r][w] \in Nat /\ Cardinality(AcceptedCalls(w)) \in Nat
    <3>1. view[r] \in [Wallets -> Nat] BY <1>0 DEF AccessTyped
    <3>2. Cardinality(AcceptedCalls(w)) \in Nat BY <1>0, AcceptedFinite
    <3>. QED BY <3>1, <3>2
  <2>7. \E n \in 0 .. Cardinality(AcceptedCalls(w)) : a = Quantity(n)
    BY <2>4, <2>5, <2>6
  <2>8. \E n \in Nat : a = Quantity(n) BY <2>6, <2>7
  <2>9. Told(Wanted(w), a) BY <2>1, <2>7, ToldIs
  <2>10. a \in Results BY <2>8, QueryKinds
  <2>. QED BY <2>9, <2>10
<1>4. CASE step[w] = "wait"
  <2>1. Wanted(w) = ReceiptOf(w, send[w]) BY <1>4, WantedIs
  <2>2. /\ ReceiptOf(w, send[w]).method = "eth_getTransactionReceipt"
        /\ ReceiptOf(w, send[w]).of = w /\ ReceiptOf(w, send[w]).call = send[w]
    BY DEF ReceiptOf
  <2>3. /\ ReceiptOf(w, send[w]).method # "eth_getBalance"
        /\ ReceiptOf(w, send[w]).method # "eth_getTransactionCount"
    BY <2>2
  <2>. DEFINE at == MinedAt(w, send[w], view[r][w])
  <2>4. a \in IF at = {} THEN {Null} ELSE {Receipt(mined[w][k].status) : k \in at}
    BY <2>1, <2>2, <2>3, Zenon DEF Answers
  <2>5. CASE at = {}
    <3>1. a = Null BY <2>4, <2>5
    <3>2. ~MinedEverywhere(w) BY <2>5 DEF MinedEverywhere
    <3>. QED BY <1>4, <3>1, <3>2, QueryKinds
  <2>6. CASE at # {}
    <3>1. PICK k \in at : a = Receipt(mined[w][k].status) BY <2>4, <2>6
    <3>2. k \in 1 .. view[r][w] /\ mined[w][k].tx.call = send[w] BY DEF MinedAt
    <3>3. mined[w] \in Seq(MinedTxs) /\ view[r][w] \in Nat /\ view[r][w] <= Len(mined[w])
      BY <1>0 DEF AccessTyped
    <3>4. k \in 1 .. Len(mined[w]) BY <3>2, <3>3
    <3>5. mined[w][k] \in MinedTxs BY <3>3, <3>4
    <3>6. mined[w][k].status \in Statuses BY <3>5 DEF MinedTxs
    <3>7. HasReceipt(w, send[w], mined[w][k].status) BY <3>2, <3>4 DEF HasReceipt
    <3>. QED BY <2>1, <3>1, <3>6, <3>7, ToldIs, QueryKinds
  <2>. QED BY <2>5, <2>6
<1>. QED BY <1>1, <1>2, <1>3, <1>4

LEMMA CacheUntouched ==
  ASSUME AccessInv, UNCHANGED cache
  PROVE  CacheKeeps
BY DEF AccessInv, CacheOk, CacheKeeps

\* A step of w that reads: only its pending read moves.
LEMMA WaitingKeeps ==
  ASSUME AccessInv, NEW w \in Wallets, NEW record \in RpcRecords,
         rpc' = [rpc EXCEPT ![w] = record], UNCHANGED <<chainVars, cache, clientVars>>,
         RpcOk(w)'
  PROVE  AccessInv'
<1>0. AccessTyped /\ ClientOk(w) /\ OutcomeOk(w) BY DEF AccessInv
<1>. USE DEF chainVars, clientVars
<1>1. AccessTyped' BY <1>0 DEF AccessTyped, RpcRecords
<1>2. OthersStay(w) BY <1>0 DEF AccessTyped, OthersStay
<1>3. AcceptedCalls(w)' = AcceptedCalls(w) BY DEF AcceptedCalls
<1>4. TxOk'
  <2>1. \A i \in 1 .. MaxSends : Submitted(w, i) => Submitted(w, i)' BY <1>3 DEF Submitted
  <2>. QED BY <1>2, <2>1, TxStays
<1>5. ClientOk(w)' BY <1>0, <1>3 DEF ClientOk
<1>6. OutcomeOk(w)' BY <1>0 DEF OutcomeOk, HasReceipt
<1>. QED BY <1>1, <1>2, <1>3, <1>4, <1>5, <1>6, CacheUntouched, ClientTurn

LEMMA StartKeeps ==
  ASSUME AccessInv, NEW w \in Wallets, StartSend(w)
  PROVE  AccessInv'
<1>0. AccessTyped /\ ClientOk(w) /\ RpcOk(w) /\ OutcomeOk(w) BY DEF AccessInv
<1>. DEFINE first == IF Sdk[w] = "ts" THEN "nonce" ELSE "funds"
<1>. DEFINE next == send[w] + 1
<1>1. next \in 1 .. MaxSends BY <1>0, ChainAccessAssumption DEF AccessTyped, StartSend
<1>2. /\ send' = [send EXCEPT ![w] = next] /\ step' = [step EXCEPT ![w] = first]
      /\ outcome' = [outcome EXCEPT ![w][next] = "open"]
      /\ UNCHANGED <<nonce, chainVars, cache, rpc>>
      /\ step[w] = "idle"
  <2>1. send[w] + 1 = next OBVIOUS
  <2>. QED BY <2>1 DEF StartSend
<1>3. first \in {"nonce", "funds"} OBVIOUS
<1>. HIDE DEF first, next
<1>4. AccessTyped'
  <2>1. step' \in [Wallets -> Steps] /\ send' \in [Wallets -> 0 .. MaxSends]
    BY <1>0, <1>1, <1>2, <1>3, ChainAccessAssumption DEF AccessTyped, Steps
  <2>2. outcome' \in [Wallets -> [1 .. MaxSends -> Outcomes]]
    BY <1>0, <1>1, <1>2 DEF AccessTyped, Outcomes
  <2>. QED BY <1>0, <1>2, <2>1, <2>2 DEF AccessTyped, chainVars
<1>5. /\ step'[w] = first /\ send'[w] = next /\ rpc'[w] = rpc[w]
      /\ outcome'[w][next] = "open"
      /\ \A i \in 1 .. MaxSends : i # next => outcome'[w][i] = outcome[w][i]
  BY <1>0, <1>1, <1>2 DEF AccessTyped
<1>6. OthersStay(w) BY <1>0, <1>2 DEF AccessTyped, OthersStay
<1>7. send[w] \in 0 .. MaxSends /\ next = send[w] + 1 BY <1>0 DEF AccessTyped, next
<1>8. AcceptedCalls(w) \subseteq AcceptedCalls(w)'
  BY <1>5, <1>7, ChainAccessAssumption DEF AcceptedCalls
<1>9. TxOk'
  <2>1. \A i \in 1 .. MaxSends : Submitted(w, i) => Submitted(w, i)'
    BY <1>2, <1>8 DEF Submitted
  <2>. QED BY <1>2, <1>6, <2>1, TxStays DEF chainVars
<1>10. ClientOk(w)' BY <1>1, <1>3, <1>5 DEF ClientOk
<1>11. RpcOk(w)'
  <2>1. rpc[w] = NoRpc BY <1>0, <1>2 DEF RpcOk, Reading
  <2>. QED BY <1>5, <2>1, NoRpcIs DEF RpcOk
<1>12. OutcomeOk(w)' BY <1>0, <1>2, <1>5 DEF OutcomeOk, HasReceipt, chainVars
<1>. QED BY <1>2, <1>4, <1>6, <1>8, <1>9, <1>10, <1>11, <1>12, CacheUntouched, ClientTurn DEF chainVars

LEMMA HitKeeps ==
  ASSUME AccessInv, NEW w \in Wallets, Hit(w)
  PROVE  AccessInv'
<1>1. Wanted(w) \in DOMAIN cache /\ Reply(w, cache[Wanted(w)])
  BY DEF Hit, Cached, CacheKey
<1>2. Told(Wanted(w), cache[Wanted(w)]) BY <1>1 DEF AccessInv, CacheOk
<1>3. step[w] \in Reading /\ UNCHANGED <<mined, pool, view, cache>> BY DEF Hit, chainVars
<1>. QED BY <1>1, <1>2, <1>3, CacheUntouched, Replying

LEMMA MissKeeps ==
  ASSUME AccessInv, NEW w \in Wallets, Miss(w)
  PROVE  AccessInv'
<1>. DEFINE record == [stage |-> "upstream", result |-> Null, due |-> MinedEverywhere(w)]
<1>0. AccessTyped BY DEF AccessInv
<1>1. MinedEverywhere(w) \in BOOLEAN BY Zenon DEF MinedEverywhere
<1>2. record \in RpcRecords BY <1>1, QueryKinds DEF RpcRecords
<1>3. /\ rpc' = [rpc EXCEPT ![w] = record]
      /\ UNCHANGED <<chainVars, cache, clientVars>>
      /\ step[w] \in Reading /\ ~Uncached(w)
  BY DEF Miss
<1>4. rpc'[w] = record BY <1>0, <1>3 DEF AccessTyped
<1>5. record.stage = "upstream" /\ (record.due <=> MinedEverywhere(w)) OBVIOUS
<1>. HIDE DEF record
<1>6. step'[w] \in Reading /\ ~Uncached(w)' /\ (MinedEverywhere(w)' <=> MinedEverywhere(w))
  BY <1>3 DEF clientVars, chainVars, Uncached, MinedEverywhere, MinedAt
<1>7. RpcOk(w)' BY <1>4, <1>5, <1>6 DEF RpcOk
<1>. QED BY <1>2, <1>3, <1>7, WaitingKeeps

LEMMA UpstreamKeeps ==
  ASSUME AccessInv, NEW w \in Wallets, Upstream(w)
  PROVE  AccessInv'
<1>0. AccessTyped /\ RpcOk(w) /\ ClientOk(w) BY DEF AccessInv
<1>. PICK r \in Replicas : \E a \in Answers(r, Wanted(w)) :
        rpc' = [rpc EXCEPT ![w].stage = "store", ![w].result = a]
  BY DEF Upstream
<1>1. PICK a \in Answers(r, Wanted(w)) :
        rpc' = [rpc EXCEPT ![w].stage = "store", ![w].result = a]
  OBVIOUS
<1>2. rpc[w].stage = "upstream" /\ UNCHANGED <<chainVars, cache, clientVars>> BY DEF Upstream
<1>3. step[w] \in Reading /\ ~Uncached(w) BY <1>0, <1>2, NoRpcIs DEF RpcOk
<1>4. /\ a \in Results
      /\ \/ a = Null /\ step[w] = "wait" /\ ~MinedEverywhere(w)
         \/ Told(Wanted(w), a)
  BY <1>3, Answering
<1>. DEFINE record == [rpc[w] EXCEPT !.stage = "store", !.result = a]
<1>5. rpc[w] \in RpcRecords BY <1>0 DEF AccessTyped, RpcRecords
<1>6. record \in RpcRecords /\ record.stage = "store" /\ record.result = a
      /\ record.due = rpc[w].due
  BY <1>4, <1>5 DEF RpcRecords
<1>7. rpc' = [rpc EXCEPT ![w] = record]
  BY <1>0, <1>1 DEF AccessTyped
<1>8. rpc'[w] = record BY <1>0, <1>7 DEF AccessTyped
<1>. HIDE DEF record
<1>9. /\ step'[w] \in Reading /\ ~Uncached(w)' /\ step'[w] = step[w]
      /\ Wanted(w)' = Wanted(w)
      /\ Told(Wanted(w), a) => Told(Wanted(w), a)'
  <2>1. step' = step /\ send' = send /\ mined' = mined /\ outcome' = outcome
    BY <1>2 DEF clientVars, chainVars
  <2>2. Wanted(w)' = Wanted(w) BY <2>1, Zenon DEF Wanted, BalanceOf, NonceOf, ReceiptOf
  <2>3. Told(Wanted(w), a) => Told(Wanted(w), a)'
    BY <2>1, <2>2, Zenon DEF Told, HasReceipt, AcceptedCalls
  <2>. QED BY <1>3, <2>1, <2>2, <2>3 DEF Uncached
<1>10. rpc[w].due => MinedEverywhere(w) BY <1>0, <1>2 DEF RpcOk
<1>11. RpcOk(w)'
  <2>1. rpc'[w].stage = "store" /\ rpc'[w].result = a /\ rpc'[w].due = rpc[w].due
    BY <1>6, <1>8
  <2>2. \/ rpc'[w].result = Null /\ step'[w] = "wait" /\ ~rpc'[w].due
        \/ Told(Wanted(w), rpc[w].result)'
    BY <1>4, <1>9, <1>10, <2>1 DEF Told
  <2>. QED BY <1>9, <2>1, <2>2 DEF RpcOk
<1>. QED BY <1>2, <1>6, <1>7, <1>11, WaitingKeeps

LEMMA UpstreamErrorKeeps ==
  ASSUME AccessInv, NEW w \in Wallets, UpstreamError(w)
  PROVE  AccessInv'
<1>0. AccessTyped /\ RpcOk(w) BY DEF AccessInv
<1>1. /\ rpc[w].stage = "upstream" /\ rpc' = [rpc EXCEPT ![w] = NoRpc]
      /\ Raise(w) /\ UNCHANGED <<mined, pool, view, cache, chainVars>>
  BY DEF UpstreamError, chainVars
<1>2. step[w] \in {"funds", "nonce", "wait"} /\ step[w] \in Reading /\ step[w] # "idle"
  BY <1>0, <1>1, NoRpcIs DEF RpcOk, Reading
<1>3. CASE UNCHANGED clientVars
  <2>1. NoRpc \in RpcRecords BY NoRpcIs
  <2>2. rpc'[w] = NoRpc BY <1>0, <1>1 DEF AccessTyped
  <2>3. RpcOk(w)' BY <2>2, NoRpcIs DEF RpcOk
  <2>. QED BY <1>1, <1>3, <2>1, <2>3, WaitingKeeps
<1>4. CASE step[w] = "wait" /\ Finish(w, "unknown")
  BY <1>1, <1>2, <1>4, CacheUntouched, Finishing
<1>5. CASE step[w] # "wait" /\ Finish(w, "failed")
  BY <1>1, <1>2, <1>5, CacheUntouched, Finishing
<1>. QED BY <1>1, <1>3, <1>4, <1>5 DEF Raise

LEMMA StoreKeeps ==
  ASSUME AccessInv, NEW w \in Wallets, Store(w)
  PROVE  AccessInv'
<1>0. AccessTyped /\ RpcOk(w) /\ ClientOk(w) BY DEF AccessInv
<1>. DEFINE key == Wanted(w)
<1>. DEFINE result == rpc[w].result
<1>1. /\ rpc[w].stage = "store" /\ Reply(w, result)
      /\ UNCHANGED <<mined, pool, view>>
      /\ \/ /\ result # Null
            /\ cache' = [k \in DOMAIN cache \cup {key} |-> IF k = key THEN result ELSE cache[k]]
         \/ UNCHANGED cache
  BY DEF Store, CacheKey, Cacheable, chainVars
<1>2. step[w] \in Reading BY <1>0, <1>1, NoRpcIs DEF RpcOk
<1>3. (result = Null /\ step[w] = "wait") \/ Told(key, result) BY <1>0, <1>1 DEF RpcOk
<1>4. key \in Requests BY <1>0, <1>2, WantedIsRequest
<1>. HIDE DEF key, result
<1>5. CacheKeeps
  <2>1. CASE UNCHANGED cache BY <2>1, CacheUntouched
  <2>2. CASE /\ result # Null
             /\ cache' = [k \in DOMAIN cache \cup {key} |-> IF k = key THEN result ELSE cache[k]]
    BY <1>3, <1>4, <2>2 DEF AccessInv, CacheOk, CacheKeeps
  <2>. QED BY <1>1, <2>1, <2>2
<1>. QED BY <1>1, <1>2, <1>3, <1>5, Replying DEF key

\* A client between two reads waits for none.
LEMMA NoRead ==
  ASSUME AccessInv, NEW w \in Wallets, step[w] \notin Reading \/ Uncached(w) \/ rpc[w] = NoRpc
  PROVE  rpc[w] = NoRpc /\ rpc = [rpc EXCEPT ![w] = NoRpc]
<1>1. rpc[w] = NoRpc BY DEF AccessInv, RpcOk
<1>. QED BY <1>1 DEF AccessInv, AccessTyped

LEMMA ReadNonceDirectKeeps ==
  ASSUME AccessInv, NEW w \in Wallets, ReadNonceDirect(w)
  PROVE  AccessInv'
<1>0. AccessTyped /\ TxOk BY DEF AccessInv
<1>1. step[w] \in Reading /\ Uncached(w) /\ step[w] = "nonce"
      /\ UNCHANGED <<mined, pool, view, cache, rpc>>
  BY DEF ReadNonceDirect, Uncached, chainVars
<1>2. PICK n \in Len(mined[w]) .. PendingCount(w) : TakeNonce(w, Quantity(n))
  BY DEF ReadNonceDirect
<1>3. n \in Nat /\ n <= Cardinality(AcceptedCalls(w))
  <2>1. PendingCount(w) \in Nat /\ PendingCount(w) <= Cardinality(AcceptedCalls(w))
    BY <1>0, <1>1, Pending, PendingIsAccepted
  <2>2. Len(mined[w]) \in Nat BY <1>0 DEF AccessTyped
  <2>3. Cardinality(AcceptedCalls(w)) \in Nat BY <1>0, AcceptedFinite
  <2>. QED BY <2>1, <2>2, <2>3
<1>4. /\ step' = [step EXCEPT ![w] = "send"] /\ nonce' = [nonce EXCEPT ![w] = n]
      /\ UNCHANGED <<send, outcome>>
  BY <1>2, QueryKinds DEF TakeNonce
<1>5. rpc' = [rpc EXCEPT ![w] = NoRpc] BY <1>1, NoRead
<1>. QED BY <1>1, <1>3, <1>4, <1>5, CacheUntouched, Continuing

LEMMA EndsKeep ==
  ASSUME AccessInv, NEW w \in Wallets, EstimateFails(w) \/ GiveUp(w)
  PROVE  AccessInv'
<1>1. CASE EstimateFails(w)
  <2>1. step[w] = "send" /\ Finish(w, "failed") /\ UNCHANGED <<mined, pool, view, cache, rpc>>
    BY <1>1 DEF EstimateFails, chainVars
  <2>2. rpc' = [rpc EXCEPT ![w] = NoRpc] BY <2>1, NoRead DEF Reading
  <2>. QED BY <2>1, <2>2, CacheUntouched, Finishing
<1>2. CASE GiveUp(w)
  <2>1. step[w] = "wait" /\ rpc[w] = NoRpc /\ Finish(w, "unknown")
        /\ UNCHANGED <<mined, pool, view, cache, rpc>>
    BY <1>2 DEF GiveUp, chainVars
  <2>2. rpc' = [rpc EXCEPT ![w] = NoRpc] BY <2>1, NoRead
  <2>. QED BY <2>1, <2>2, CacheUntouched, Finishing
<1>. QED BY <1>1, <1>2

\* The transaction sent is the first of its call.
LEMMA SendRawKeeps ==
  ASSUME AccessInv, NEW w \in Wallets, SendRaw(w)
  PROVE  AccessInv'
<1>0. AccessTyped /\ TxOk /\ ClientOk(w) /\ RpcOk(w) /\ OutcomeOk(w) BY DEF AccessInv
<1>t. PICK t : t = Tx(w, send[w], nonce[w]) OBVIOUS
<1>1. step[w] = "send" /\ UNCHANGED <<mined, view, cache, rpc>> BY DEF SendRaw
<1>2. rpc[w] = NoRpc /\ rpc' = [rpc EXCEPT ![w] = NoRpc] BY <1>1, NoRead DEF Reading
<1>3. CASE UNCHANGED pool /\ Finish(w, "failed")
  BY <1>1, <1>2, <1>3, CacheUntouched, Finishing
<1>4. CASE /\ step' = [step EXCEPT ![w] = "wait"] /\ UNCHANGED <<send, nonce, outcome>>
           /\ pool' \in {pool, pool \cup {t}}
  <2>1. send[w] \in 1 .. MaxSends /\ outcome[w][send[w]] = "open"
    BY <1>0, <1>1, ChainAccessAssumption DEF AccessTyped, ClientOk
  <2>2. t \in Txs /\ t.from = w /\ t.call = send[w] BY <1>0, <1>t, <2>1 DEF AccessTyped, Tx, Txs
  <2>3. step'[w] = "wait" /\ send'[w] = send[w] /\ rpc'[w] = NoRpc /\ outcome'[w] = outcome[w]
    BY <1>0, <1>1, <1>2, <1>4 DEF AccessTyped
  <2>4. AccessTyped'
    <3>1. step' \in [Wallets -> Steps] BY <1>0, <1>4 DEF AccessTyped, Steps
    <3>2. pool' \subseteq Txs BY <1>0, <1>4, <2>2 DEF AccessTyped
    <3>. QED BY <1>0, <1>1, <1>4, <3>1, <3>2 DEF AccessTyped
  <2>5. OthersStay(w) BY <1>0, <1>1, <1>4 DEF AccessTyped, OthersStay
  <2>6. \A u \in Wallets : AcceptedCalls(u)' = AcceptedCalls(u) BY <1>4 DEF AcceptedCalls
  <2>7. \A u \in Wallets : \A i : Submitted(u, i) => Submitted(u, i)'
    BY <1>1, <2>5, <2>6 DEF Submitted, OthersStay
  <2>8. \A i : Submitted(w, i) => i # send[w] BY <1>1, <2>1 DEF Submitted, AcceptedCalls
  <2>9. Submitted(w, send[w])' BY <2>3 DEF Submitted
  <2>10. TxOk'
    <3>1. \A u \in Wallets : \A k \in 1 .. Len(mined[u]) : Submitted(u, mined[u][k].tx.call)'
      BY <1>0, <1>1, <2>7 DEF TxOk, Submitted
    <3>2. \A u \in pool' : Submitted(u.from, u.call)'
      <4>1. \A u \in pool : u.from \in Wallets BY <1>0 DEF AccessTyped, Txs
      <4>2. \A u \in pool : Submitted(u.from, u.call)' BY <1>0, <2>7, <4>1 DEF TxOk
      <4>3. Submitted(t.from, t.call)' BY <2>2, <2>3 DEF Submitted
      <4>. QED BY <1>4, <4>2, <4>3
    <3>3. \A u \in pool : u.from = w => u.call # send[w] BY <1>0, <2>8 DEF TxOk
    <3>4. \A u, v \in pool' : u.from = v.from /\ u.call = v.call => u = v
      BY <1>0, <1>4, <2>2, <3>3 DEF TxOk
    <3>5. \A u \in pool' : \A k \in 1 .. Len(mined'[u.from]) : mined'[u.from][k].tx.call # u.call
      <4>1. \A k \in 1 .. Len(mined[w]) : mined[w][k].tx.call # send[w] BY <1>0, <2>8 DEF TxOk
      <4>. QED BY <1>0, <1>1, <1>4, <2>2, <4>1 DEF TxOk
    <3>. QED BY <1>0, <1>1, <3>1, <3>2, <3>4, <3>5 DEF TxOk
  <2>11. ClientOk(w)' BY <2>1, <2>3 DEF ClientOk
  <2>12. RpcOk(w)' BY <2>3, NoRpcIs DEF RpcOk
  <2>13. OutcomeOk(w)' BY <1>0, <1>1, <2>3 DEF OutcomeOk, HasReceipt
  <2>. QED BY <1>1, <2>4, <2>5, <2>6, <2>10, <2>11, <2>12, <2>13, CacheUntouched, ClientTurn
<1>5. \/ UNCHANGED pool /\ Finish(w, "failed")
      \/ /\ step' = [step EXCEPT ![w] = "wait"] /\ UNCHANGED <<send, nonce, outcome>>
         /\ pool' \in {pool, pool \cup {t}}
  BY <1>t DEF SendRaw
<1>. QED BY <1>3, <1>4, <1>5

-----------------------------------------------------------------------------
(* The chain, the replicas and the cache's clock.                           *)

\* A step after which the chain and the accepted calls are as they were.
LEMMA ChainAsBefore ==
  ASSUME AccessInv, UNCHANGED <<mined, clientVars>>
  PROVE  Grows /\ \A w \in Wallets : \A i : Submitted(w, i)' <=> Submitted(w, i)
BY DEF Grows, clientVars, Submitted, AcceptedCalls

LEMMA MineKeeps ==
  ASSUME AccessInv, NEW t \in pool, MineTx(t)
  PROVE  AccessInv'
<1>0. AccessTyped /\ TxOk BY DEF AccessInv
<1>. DEFINE w == t.from
<1>1. t \in Txs /\ w \in Wallets BY <1>0 DEF AccessTyped, Txs
<1>2. PICK s \in Statuses : mined' = [mined EXCEPT ![w] = Append(@, [tx |-> t, status |-> s])]
  BY DEF MineTx, Statuses
<1>. DEFINE entry == [tx |-> t, status |-> s]
<1>3. entry \in MinedTxs /\ entry.tx = t BY <1>1 DEF MinedTxs
<1>4. pool' = pool \ {t} /\ UNCHANGED <<view, cache, rpc, clientVars>> BY DEF MineTx
<1>5. mined[w] \in Seq(MinedTxs) BY <1>0, <1>1 DEF AccessTyped
<1>. HIDE DEF entry
<1>6. mined' = [mined EXCEPT ![w] = Append(mined[w], entry)] BY <1>2 DEF entry
<1>. HIDE DEF w
<1>7. /\ mined'[w] = Append(mined[w], entry) /\ mined'[w] \in Seq(MinedTxs)
      /\ \A u \in Wallets : u # w => mined'[u] = mined[u]
  BY <1>0, <1>1, <1>3, <1>5, <1>6 DEF AccessTyped
<1>8. /\ Len(mined[w]) \in Nat /\ Len(mined'[w]) = Len(mined[w]) + 1
      /\ mined'[w][Len(mined[w]) + 1] = entry
      /\ \A k \in 1 .. Len(mined[w]) : mined'[w][k] = mined[w][k]
  BY <1>3, <1>5, <1>7
<1>9. AccessTyped'
  <2>1. mined' \in [Wallets -> Seq(MinedTxs)] BY <1>0, <1>6, <1>7, <1>1 DEF AccessTyped
  <2>2. \A r \in Replicas, u \in Wallets : view'[r][u] <= Len(mined'[u])
    <3>1. \A u \in Wallets : Len(mined[u]) \in Nat BY <1>0 DEF AccessTyped
    <3>2. \A r \in Replicas, u \in Wallets : view[r][u] \in Nat /\ view[r][u] <= Len(mined[u])
      BY <1>0 DEF AccessTyped
    <3>. QED BY <1>4, <1>7, <1>8, <3>1, <3>2
  <2>. QED BY <1>0, <1>4, <2>1, <2>2 DEF AccessTyped, clientVars
<1>10. \A u \in Wallets : \A i : Submitted(u, i)' <=> Submitted(u, i)
  BY <1>4 DEF Submitted, AcceptedCalls, clientVars
<1>11. Grows
  <2>1. \A u \in Wallets : AcceptedCalls(u)' = AcceptedCalls(u)
    BY <1>4 DEF AcceptedCalls, clientVars
  <2>2. \A u \in Wallets : \A k \in 1 .. Len(mined[u]) :
           k \in 1 .. Len(mined'[u]) /\ mined'[u][k] = mined[u][k]
    BY <1>7, <1>8
  <2>. QED BY <2>1, <2>2 DEF Grows
<1>12. TxOk'
  <2>1. \A k \in 1 .. Len(mined'[w]) :
           \/ k \in 1 .. Len(mined[w]) /\ mined'[w][k] = mined[w][k]
           \/ k = Len(mined[w]) + 1 /\ mined'[w][k].tx = t
    BY <1>3, <1>8
  <2>2. Submitted(w, t.call) /\ \A k \in 1 .. Len(mined[w]) : mined[w][k].tx.call # t.call
    BY <1>0 DEF TxOk, w
  <2>3. \A u \in pool' : u \in pool /\ (u.from = w => u.call # t.call)
    BY <1>0, <1>4 DEF TxOk, w
  <2>4. \A u \in Wallets : \A k \in 1 .. Len(mined'[u]) : Submitted(u, mined'[u][k].tx.call)
    <3>1. ASSUME NEW u \in Wallets, u # w, NEW k \in 1 .. Len(mined'[u])
          PROVE  Submitted(u, mined'[u][k].tx.call)
      BY <1>0, <1>7, <3>1 DEF TxOk
    <3>2. ASSUME NEW k \in 1 .. Len(mined'[w]) PROVE Submitted(w, mined'[w][k].tx.call)
      BY <1>0, <1>1, <2>1, <2>2 DEF TxOk
    <3>. QED BY <3>1, <3>2
  <2>5. \A u \in Wallets : \A k, l \in 1 .. Len(mined'[u]) :
           mined'[u][k].tx.call = mined'[u][l].tx.call => k = l
    <3>1. ASSUME NEW u \in Wallets, u # w
          PROVE  \A k, l \in 1 .. Len(mined'[u]) :
                    mined'[u][k].tx.call = mined'[u][l].tx.call => k = l
      BY <1>0, <1>7, <3>1 DEF TxOk
    <3>2. \A k, l \in 1 .. Len(mined'[w]) : mined'[w][k].tx.call = mined'[w][l].tx.call => k = l
      BY <1>0, <1>1, <2>1, <2>2 DEF TxOk
    <3>. QED BY <3>1, <3>2
  <2>6. \A u \in pool' : Submitted(u.from, u.call) /\ u.from \in Wallets
    BY <1>0, <2>3 DEF TxOk, AccessTyped, Txs
  <2>7. \A u, v \in pool' : u.from = v.from /\ u.call = v.call => u = v
    BY <1>0, <2>3 DEF TxOk
  <2>8. \A u \in pool' : \A k \in 1 .. Len(mined'[u.from]) : mined'[u.from][k].tx.call # u.call
    <3>1. ASSUME NEW u \in pool', u.from = w, NEW k \in 1 .. Len(mined'[w])
          PROVE  mined'[w][k].tx.call # u.call
      BY <1>0, <2>1, <2>3, <3>1 DEF TxOk
    <3>2. ASSUME NEW u \in pool', u.from # w, NEW k \in 1 .. Len(mined'[u.from])
          PROVE  mined'[u.from][k].tx.call # u.call
      BY <1>0, <1>7, <2>3, <2>6, <3>2 DEF TxOk
    <3>. QED BY <3>1, <3>2
  <2>. QED BY <1>10, <2>4, <2>5, <2>6, <2>7, <2>8 DEF TxOk, Submitted, AcceptedCalls
<1>13. CatchesUp BY <1>0, <1>4 DEF CatchesUp, AccessTyped
<1>. QED BY <1>4, <1>9, <1>11, <1>12, <1>13, CacheUntouched, WorldTurn

LEMMA ImportKeeps ==
  ASSUME AccessInv, NEW r \in Replicas, ImportBlocks(r)
  PROVE  AccessInv'
<1>0. AccessTyped /\ TxOk BY DEF AccessInv
<1>1. /\ view' = [view EXCEPT ![r] = [w \in Wallets |-> Len(mined[w])]]
      /\ UNCHANGED <<mined, pool, cache, clientVars, rpc>>
  BY DEF ImportBlocks
<1>2. \A w \in Wallets : Len(mined[w]) \in Nat BY <1>0 DEF AccessTyped
<1>3. AccessTyped' BY <1>0, <1>1, <1>2 DEF AccessTyped, clientVars
<1>4. CatchesUp BY <1>0, <1>1, <1>2 DEF AccessTyped, CatchesUp
<1>5. TxOk' BY <1>0, <1>1 DEF TxOk, Submitted, AcceptedCalls, clientVars
<1>. QED BY <1>1, <1>3, <1>4, <1>5, ChainAsBefore, CacheUntouched, WorldTurn

\* A dropped transaction, a funded wallet and an expired entry make nothing false.
LEMMA ForgettingKeeps ==
  ASSUME AccessInv, UNCHANGED <<mined, view, clientVars, rpc>>, pool' \subseteq pool,
         CacheKeeps
  PROVE  AccessInv'
<1>0. AccessTyped /\ TxOk BY DEF AccessInv
<1>1. AccessTyped' BY <1>0 DEF AccessTyped, clientVars
<1>2. CatchesUp BY <1>0 DEF AccessTyped, CatchesUp
<1>3. TxOk' BY <1>0 DEF TxOk, Submitted, AcceptedCalls, clientVars
<1>. QED BY <1>1, <1>2, <1>3, ChainAsBefore, WorldTurn

LEMMA AccessStart == ChainAccessInit => AccessInv
<1>. SUFFICES ASSUME ChainAccessInit PROVE AccessInv OBVIOUS
<1>. USE DEF ChainAccessInit
<1>1. AccessTyped
  <2>1. rpc \in [Wallets -> RpcRecords] BY NoRpcIs
  <2>2. mined \in [Wallets -> Seq(MinedTxs)] OBVIOUS
  <2>3. step \in [Wallets -> Steps] BY DEF Steps
  <2>4. outcome \in [Wallets -> [1 .. MaxSends -> Outcomes]] BY DEF Outcomes
  <2>5. send \in [Wallets -> 0 .. MaxSends] BY ChainAccessAssumption
  <2>6. \A r \in Replicas, w \in Wallets : view[r][w] <= Len(mined[w]) OBVIOUS
  <2>. QED BY <2>1, <2>2, <2>3, <2>4, <2>5, <2>6 DEF AccessTyped, RpcRecords
<1>2. CacheOk BY DEF CacheOk
<1>3. TxOk BY DEF TxOk
<1>4. ASSUME NEW w \in Wallets PROVE ClientOk(w) /\ RpcOk(w) /\ OutcomeOk(w)
  BY NoRpcIs DEF ClientOk, RpcOk, OutcomeOk
<1>. QED BY <1>1, <1>2, <1>3, <1>4 DEF AccessInv

LEMMA AccessStep == AccessInv /\ [ChainAccessNext]_accessVars => AccessInv'
<1>. SUFFICES ASSUME AccessInv, [ChainAccessNext]_accessVars PROVE AccessInv' OBVIOUS
<1>1. ASSUME NEW w \in Wallets,
             StartSend(w) \/ Hit(w) \/ Miss(w) \/ Upstream(w) \/ UpstreamError(w)
               \/ Store(w) \/ ReadNonceDirect(w) \/ SendRaw(w) \/ GiveUp(w) \/ EstimateFails(w)
      PROVE  AccessInv'
  BY <1>1, StartKeeps, HitKeeps, MissKeeps, UpstreamKeeps, UpstreamErrorKeeps, StoreKeeps,
     ReadNonceDirectKeeps, SendRawKeeps, EndsKeep
<1>2. ASSUME NEW w \in Wallets, Fund(w) PROVE AccessInv'
  BY <1>2, CacheUntouched, ForgettingKeeps DEF Fund
<1>3. ASSUME NEW t \in pool, MineTx(t) \/ DropTx(t) PROVE AccessInv'
  <2>1. CASE MineTx(t) BY <2>1, MineKeeps
  <2>2. CASE DropTx(t) BY <2>2, CacheUntouched, ForgettingKeeps DEF DropTx
  <2>. QED BY <1>3, <2>1, <2>2
<1>4. ASSUME NEW r \in Replicas, ImportBlocks(r) PROVE AccessInv' BY <1>4, ImportKeeps
<1>5. ASSUME NEW k \in Requests, Expire(k) PROVE AccessInv'
  <2>1. CacheKeeps BY <1>5 DEF Expire, CacheKeeps, AccessInv, CacheOk
  <2>. QED BY <1>5, <2>1, ForgettingKeeps DEF Expire, chainVars
<1>6. CASE UNCHANGED accessVars
  BY <1>6, CacheUntouched, ForgettingKeeps DEF accessVars, chainVars
<1>. QED BY <1>1, <1>2, <1>3, <1>4, <1>5, <1>6 DEF ChainAccessNext

\* What a receipt poll tells is true, and not "not mined yet" once every replica had the
\* receipt when the poll began: for every number of wallets, replicas and calls, whatever
\* is cached, stale, dropped or lost (waitForReceipt, handleOne, cacheKey).
THEOREM ReceiptPollsAreTrue == ChainAccessSpec => []ReceiptsAreTrue
<1>1. AccessInv => ResultIsTheChains
  BY DEF AccessInv, OutcomeOk, HasReceipt, ResultIsTheChains
<1>2. AccessInv => PollSeesMined
  <2>. SUFFICES ASSUME AccessInv, NEW w \in Wallets, MinedEverywhere(w)
                PROVE  /\ rpc[w] = NoRpc /\ Cached(w) => cache[CacheKey(Wanted(w))] # Null
                       /\ rpc[w].stage = "store" /\ rpc[w].due => rpc[w].result # Null
    BY DEF PollSeesMined
  <2>0. AccessTyped /\ CacheOk /\ ClientOk(w) /\ RpcOk(w) BY DEF AccessInv
  <2>1. step[w] = "wait" /\ step[w] \in Reading BY DEF MinedEverywhere, Reading
  <2>2. Wanted(w) \in Requests BY <2>0, <2>1, WantedIsRequest
  <2>3. Cached(w) => cache[CacheKey(Wanted(w))] # Null
    BY <2>0, <2>2, ToldIsNotNull DEF Cached, CacheKey, CacheOk
  <2>4. rpc[w].stage = "store" /\ rpc[w].due => rpc[w].result # Null
    BY <2>0, <2>2, ToldIsNotNull DEF RpcOk
  <2>. QED BY <2>3, <2>4
<1>. QED BY <1>1, <1>2, AccessStart, AccessStep, PTL DEF ChainAccessSpec, ReceiptsAreTrue

\* The nonce a client is about to send with counts no more transactions than it had
\* accepted, so it never leaves a gap: for every number of replicas, however far they
\* lag, and whatever the cache keeps (getTransactionCount, PendingNonceAt).
THEOREM NonceLeavesNoGap == ChainAccessSpec => []NonceNeverAhead
<1>1. AccessInv => NonceNeverAhead BY DEF AccessInv, ClientOk, NonceNeverAhead
<1>. QED BY <1>1, AccessStart, AccessStep, PTL DEF ChainAccessSpec

-----------------------------------------------------------------------------
(***************************************************************************)
(* GapuraAnchors.  What an acknowledged POST /anchors promises about the    *)
(* chain, the rows and its Idempotency-Key, and that a digest acknowledged  *)
(* before is not recorded again, for every number of clients, requests,     *)
(* keys, retries and faults, on either store.                               *)
(***************************************************************************)

Pcs == {"key", "digest", "submit", "receipt", "store", "putKey", "done"}
AnchorAnswers == {"none", "ok", "conflict", "missing", "unavailable", "failed"}
AnchorRequests == [body : Bodies, key : Keys, pc : Pcs, tx : Nat, id : Nat, answer : AnchorAnswers,
             before : SUBSET Nat, during : SUBSET Nat]
Transactions == [digest : Digests, state : {"pooled", "mined", "reverted"}]

GapuraTyped ==
  /\ txs \in Seq(Transactions) /\ reqs \in Seq(AnchorRequests)
  /\ byDigest \in [Digests -> Nat] /\ byId \subseteq Nat
  /\ idem \in [Keys -> {NoEntry} \cup [body : Bodies, id : Nat]]
  /\ gone \in [rows : SUBSET Nat, keys : SUBSET Nat]
  /\ gone.rows \subseteq DOMAIN reqs /\ gone.keys \subseteq DOMAIN reqs
  /\ clients \in [Clients -> [req : Nat, attempt : Nat]]
  /\ \A c \in Clients : clients[c] # Idle => clients[c].req \in DOMAIN reqs

\* An answer ends its handler; a request was sent after those acknowledged by then.
AnswerInv ==
  \A r \in DOMAIN reqs :
    /\ reqs[r].answer # "none" => reqs[r].pc = "done"
    /\ reqs[r].before \subseteq Acked /\ reqs[r].during \subseteq DOMAIN reqs

RecordedAs(d, id) == id \in DOMAIN txs /\ txs[id] = [digest |-> d, state |-> "mined"]

\* Whatever the stores and the handlers hold is recorded on chain.
RowInv == \A d \in Digests : Anchored(d) => RecordedAs(d, byDigest[d])
EntryInv == \A k \in Keys : idem[k].id # 0 =>
  RecordedAs(idem[k].body.digest, idem[k].id) /\ Anchored(idem[k].body.digest)
HandlerOk(r) ==
  /\ reqs[r].pc = "receipt" => reqs[r].tx \in DOMAIN txs /\ txs[reqs[r].tx].digest = Digest(r)
  /\ reqs[r].pc = "store" => RecordedAs(Digest(r), reqs[r].tx)
  /\ reqs[r].pc = "putKey" => RecordedAs(Digest(r), reqs[r].id) /\ Anchored(Digest(r))
AckOk(r) == RecordedAs(Digest(r), reqs[r].id) /\ (r \in gone.rows \/ Anchored(Digest(r)))
HandlerInv == (\A r \in DOMAIN reqs : HandlerOk(r)) /\ \A r \in Acked : AckOk(r)

AnchoredInv == RowInv /\ EntryInv /\ HandlerInv

\* An entry of a key is there as long as an answer under it is kept, with the
\* body of one.
KeyInv ==
  /\ \A r \in gone.keys : r \in DOMAIN reqs => reqs[r].pc = "done"
  /\ \A q \in Acked \ gone.keys : idem[reqs[q].key].id # 0
  /\ \A k \in Keys : idem[k].id # 0 =>
       \E q \in Acked \ gone.keys : reqs[q].key = k /\ reqs[q].body = idem[k].body

\* A request sent after an answer under its key, when none of that key was at work.
Earlier(r) == {q \in reqs[r].before \ gone.keys : reqs[q].key = reqs[r].key}
Alone(r) == Earlier(r) # {} /\ \A q \in reqs[r].during : reqs[q].key # reqs[r].key

\* From then on no handler of the key is past its lookup, so the entry stays.
QuietOk(r) ==
  /\ idem[reqs[r].key].id # 0
  /\ \E q \in Earlier(r) : reqs[q].body = idem[reqs[r].key].body
  /\ \A s \in Running : reqs[s].key = reqs[r].key => reqs[s].pc = "key"
  /\ reqs[r].answer = "ok" => \E q \in Earlier(r) : reqs[q].body = reqs[r].body
QuietInv == \A r \in DOMAIN reqs : Alone(r) => QuietOk(r)

\* Past the lookup of its digest, nothing that was acknowledged before has it.
SubmitInv == \A r \in DOMAIN reqs : reqs[r].pc = "submit" =>
  \A q \in reqs[r].before \ gone.rows : Digest(q) # Digest(r)

GapuraInv == GapuraTyped /\ AnswerInv /\ AnchoredInv /\ KeyInv /\ QuietInv /\ SubmitInv

-----------------------------------------------------------------------------
(***************************************************************************)
(* What each step does.                                                    *)
(***************************************************************************)

\* Only handler r moves: to p, with its locals and its answer.
Moves(r, p, t, i, a) ==
  /\ reqs' \in Seq(AnchorRequests) /\ DOMAIN reqs' = DOMAIN reqs /\ r \in DOMAIN reqs
  /\ \A q \in DOMAIN reqs : q # r => reqs'[q] = reqs[q]
  /\ reqs'[r] = [reqs[r] EXCEPT !.pc = p, !.tx = t, !.id = i, !.answer = a]

\* The fields of a request.
LEMMA Fields ==
  ASSUME GapuraTyped, NEW r \in DOMAIN reqs
  PROVE  /\ reqs[r] \in AnchorRequests /\ reqs[r].body \in Bodies /\ Digest(r) \in Digests
         /\ reqs[r].key \in Keys /\ reqs[r].pc \in Pcs /\ reqs[r].tx \in Nat /\ reqs[r].id \in Nat
         /\ reqs[r].answer \in AnchorAnswers /\ reqs[r].before \subseteq Nat /\ reqs[r].during \subseteq Nat
<1>1. reqs[r] \in AnchorRequests BY DEF GapuraTyped
<1>. QED BY <1>1, GapuraAssumption DEF AnchorRequests, Digest

\* An assignment to a handler's fields.
LEMMA Assign ==
  ASSUME GapuraTyped, NEW r \in DOMAIN reqs, NEW p \in Pcs, NEW t \in Nat, NEW i \in Nat, NEW a \in AnchorAnswers,
         reqs' = [reqs EXCEPT ![r] = [@ EXCEPT !.pc = p, !.tx = t, !.id = i, !.answer = a]]
  PROVE  Moves(r, p, t, i, a)
<1>1. reqs[r] \in AnchorRequests
  BY DEF GapuraTyped
<1>2. [reqs[r] EXCEPT !.pc = p, !.tx = t, !.id = i, !.answer = a] \in AnchorRequests
  BY <1>1 DEF AnchorRequests
<1>. QED BY <1>2 DEF GapuraTyped, Moves

\* An answer, or a new place: both are such assignments.
LEMMA Answered ==
  ASSUME GapuraTyped, NEW r \in DOMAIN reqs, NEW a \in AnchorAnswers, NEW i \in Nat, reqs' = Answer(r, a, i)
  PROVE  Moves(r, "done", 0, i, a)
<1>1. reqs' = [reqs EXCEPT ![r] = [@ EXCEPT !.pc = "done", !.tx = 0, !.id = i, !.answer = a]]
  <2>1. reqs[r] \in AnchorRequests BY DEF GapuraTyped
  <2>. QED BY <2>1 DEF Answer, AnchorRequests, GapuraTyped
<1>. QED BY <1>1, Assign DEF Pcs

LEMMA Goes ==
  ASSUME GapuraTyped, NEW r \in DOMAIN reqs, NEW p \in Pcs, NEW t \in Nat, NEW i \in Nat,
         reqs' = [reqs EXCEPT ![r].pc = p, ![r].tx = t, ![r].id = i]
  PROVE  Moves(r, p, t, i, reqs[r].answer)
<1>1. reqs[r] \in AnchorRequests BY DEF GapuraTyped
<1>2. reqs' = [reqs EXCEPT ![r] = [@ EXCEPT !.pc = p, !.tx = t, !.id = i, !.answer = reqs[r].answer]]
  BY <1>1 DEF AnchorRequests, GapuraTyped
<1>3. reqs[r].answer \in AnchorAnswers BY <1>1 DEF AnchorRequests
<1>. QED BY <1>2, <1>3, Assign

\* The handler's own locals stay when only its place changes.
LEMMA GoesOn ==
  ASSUME GapuraTyped, NEW r \in DOMAIN reqs, NEW p \in Pcs, reqs' = [reqs EXCEPT ![r].pc = p]
  PROVE  Moves(r, p, reqs[r].tx, reqs[r].id, reqs[r].answer)
<1>1. reqs[r] \in AnchorRequests BY DEF GapuraTyped
<1>2. reqs' = [reqs EXCEPT ![r].pc = p, ![r].tx = reqs[r].tx, ![r].id = reqs[r].id]
  BY <1>1 DEF AnchorRequests, GapuraTyped
<1>3. reqs[r].tx \in Nat /\ reqs[r].id \in Nat BY <1>1 DEF AnchorRequests
<1>. QED BY <1>2, <1>3, Goes

LEMMA LookupKeyDoes ==
  ASSUME GapuraTyped, NEW r, LookupKey(r)
  PROVE  /\ At(r, "key") /\ UNCHANGED <<store, txs, byDigest, byId, idem, clients, gone, faults>>
         /\ \/ /\ idem[reqs[r].key].id = 0
               /\ Moves(r, "digest", reqs[r].tx, reqs[r].id, reqs[r].answer)
            \/ /\ idem[reqs[r].key].id # 0 /\ idem[reqs[r].key].body = reqs[r].body
               /\ Moves(r, "done", 0, idem[reqs[r].key].id, "ok")
            \/ /\ idem[reqs[r].key].id # 0
               /\ \E a \in AnchorAnswers \ {"ok", "none"} : Moves(r, "done", 0, 0, a)
<1>1. At(r, "key") /\ UNCHANGED <<store, txs, byDigest, byId, idem, clients, gone, faults>>
  BY DEF LookupKey
<1>2. r \in DOMAIN reqs /\ reqs[r] \in AnchorRequests BY <1>1 DEF At, GapuraTyped
<1>. DEFINE entry == idem[reqs[r].key]
<1>3. entry.id \in Nat BY <1>2 DEF GapuraTyped, AnchorRequests, NoEntry
<1>4. reqs' = CASE entry.id = 0 -> [reqs EXCEPT ![r].pc = "digest"]
                [] entry.id # 0 /\ entry.body # reqs[r].body -> Answer(r, "conflict", 0)
                [] entry.id # 0 /\ entry.body = reqs[r].body ->
                     IF entry.id \in byId THEN Answer(r, "ok", entry.id) ELSE Answer(r, "missing", 0)
  BY Zenon DEF LookupKey
<1>. HIDE DEF entry
<1>5. CASE entry.id = 0
  <2>1. reqs' = [reqs EXCEPT ![r].pc = "digest"] BY <1>4, <1>5, Zenon
  <2>. QED BY <1>1, <1>2, <1>5, <2>1, GoesOn DEF Pcs, entry
<1>6. CASE entry.id # 0 /\ entry.body # reqs[r].body
  <2>1. reqs' = Answer(r, "conflict", 0) BY <1>4, <1>6, Zenon
  <2>. QED BY <1>1, <1>2, <1>6, <2>1, Answered DEF AnchorAnswers, entry
<1>7. CASE entry.id # 0 /\ entry.body = reqs[r].body
  <2>1. reqs' = IF entry.id \in byId THEN Answer(r, "ok", entry.id) ELSE Answer(r, "missing", 0)
    BY <1>4, <1>7, Zenon
  <2>. QED BY <1>1, <1>2, <1>3, <1>7, <2>1, Answered DEF AnchorAnswers, entry
<1>. QED BY <1>5, <1>6, <1>7

LEMMA LookupDigestDoes ==
  ASSUME GapuraTyped, NEW r, LookupDigest(r)
  PROVE  /\ At(r, "digest") /\ UNCHANGED <<store, txs, byDigest, byId, idem, clients, gone, faults>>
         /\ \/ ~Anchored(Digest(r)) /\ Moves(r, "submit", reqs[r].tx, reqs[r].id, reqs[r].answer)
            \/ /\ Anchored(Digest(r))
               /\ Moves(r, "putKey", reqs[r].tx, byDigest[Digest(r)], reqs[r].answer)
<1>1. At(r, "digest") /\ UNCHANGED <<store, txs, byDigest, byId, idem, clients, gone, faults>>
  BY DEF LookupDigest
<1>2. r \in DOMAIN reqs /\ reqs[r] \in AnchorRequests /\ Digest(r) \in Digests
  BY <1>1, Fields DEF At
<1>3. CASE byDigest[Digest(r)] = 0
  <2>1. reqs' = [reqs EXCEPT ![r].pc = "submit"] BY <1>3 DEF LookupDigest
  <2>. QED BY <1>1, <1>2, <1>3, <2>1, GoesOn DEF Pcs, Anchored
<1>4. CASE byDigest[Digest(r)] # 0
  <2>1. reqs' = [reqs EXCEPT ![r].pc = "putKey", ![r].id = byDigest[Digest(r)]]
    BY <1>4 DEF LookupDigest
  <2>2. reqs' = [reqs EXCEPT ![r].pc = "putKey", ![r].tx = reqs[r].tx, ![r].id = byDigest[Digest(r)]]
    BY <1>2, <2>1 DEF AnchorRequests, GapuraTyped
  <2>3. byDigest[Digest(r)] \in Nat /\ reqs[r].tx \in Nat BY <1>2 DEF GapuraTyped, AnchorRequests
  <2>. QED BY <1>1, <1>2, <1>4, <2>2, <2>3, Goes DEF Pcs, Anchored
<1>. QED BY <1>3, <1>4

\* The next transaction, pooled; what was recorded is untouched.
Pooled(d) == txs' = Append(txs, [digest |-> d, state |-> "pooled"])

LEMMA SubmitDoes ==
  ASSUME GapuraTyped, NEW r, Submit(r)
  PROVE  /\ At(r, "submit") /\ UNCHANGED <<store, byDigest, byId, idem, clients, gone>>
         /\ txs' = txs \/ Pooled(Digest(r))
         /\ \/ \E a \in AnchorAnswers \ {"ok", "none"} : Moves(r, "done", 0, 0, a)
            \/ Pooled(Digest(r)) /\ Moves(r, "receipt", Len(txs) + 1, reqs[r].id, reqs[r].answer)
<1>1. At(r, "submit") /\ UNCHANGED <<store, byDigest, byId, idem, clients, gone>>
  BY DEF Submit
<1>2. r \in DOMAIN reqs /\ reqs[r] \in AnchorRequests BY <1>1 DEF At, GapuraTyped
<1>3. CASE UNCHANGED txs /\ \E answer \in {"unavailable", "failed"} : reqs' = Answer(r, answer, 0)
  BY <1>1, <1>2, <1>3, Answered DEF AnchorAnswers
<1>4. CASE Pooled(Digest(r)) /\ reqs' = Answer(r, "failed", 0)
  BY <1>1, <1>2, <1>4, Answered DEF AnchorAnswers
<1>5. CASE Pooled(Digest(r)) /\ reqs' = [reqs EXCEPT ![r].pc = "receipt", ![r].tx = Len(txs) + 1]
  <2>1. reqs' = [reqs EXCEPT ![r].pc = "receipt", ![r].tx = Len(txs) + 1, ![r].id = reqs[r].id]
    BY <1>2, <1>5 DEF AnchorRequests, GapuraTyped
  <2>2. Len(txs) + 1 \in Nat /\ reqs[r].id \in Nat BY <1>2 DEF GapuraTyped, AnchorRequests
  <2>. QED BY <1>1, <1>2, <1>5, <2>1, <2>2, Goes DEF Pcs
<1>. QED BY <1>3, <1>4, <1>5 DEF Submit, Pooled

LEMMA AwaitReceiptDoes ==
  ASSUME GapuraTyped, NEW r, AwaitReceipt(r)
  PROVE  /\ At(r, "receipt") /\ UNCHANGED <<store, txs, byDigest, byId, idem, clients, gone>>
         /\ \/ \E a \in AnchorAnswers \ {"ok", "none"} : Moves(r, "done", 0, 0, a)
            \/ /\ txs[reqs[r].tx].state = "mined"
               /\ Moves(r, "store", reqs[r].tx, reqs[r].id, reqs[r].answer)
<1>1. At(r, "receipt") /\ UNCHANGED <<store, txs, byDigest, byId, idem, clients, gone>>
  BY DEF AwaitReceipt
<1>2. r \in DOMAIN reqs BY <1>1 DEF At
<1>3. \/ \E answer \in {"unavailable", "failed"} : reqs' = Answer(r, answer, 0)
      \/ txs[reqs[r].tx].state = "mined" /\ reqs' = [reqs EXCEPT ![r].pc = "store"]
  BY DEF AwaitReceipt
<1>. QED BY <1>1, <1>2, <1>3, Answered, GoesOn DEF AnchorAnswers, Pcs

LEMMA PutAnchorDoes ==
  ASSUME GapuraTyped, NEW r, PutAnchor(r)
  PROVE  /\ At(r, "store") /\ UNCHANGED <<store, txs, idem, clients, gone, faults>>
         /\ Moves(r, "putKey", reqs[r].tx, reqs[r].tx, reqs[r].answer)
         /\ \/ byDigest' = [byDigest EXCEPT ![Digest(r)] = reqs[r].tx] /\ byId' = byId \cup {reqs[r].tx}
            \/ Anchored(Digest(r)) /\ UNCHANGED <<byDigest, byId>>
<1>1. /\ At(r, "store") /\ UNCHANGED <<store, txs, idem, clients, gone, faults>>
      /\ reqs' = [reqs EXCEPT ![r].pc = "putKey", ![r].id = reqs[r].tx]
  BY DEF PutAnchor
<1>2. r \in DOMAIN reqs /\ reqs[r] \in AnchorRequests BY <1>1 DEF At, GapuraTyped
<1>3. reqs' = [reqs EXCEPT ![r].pc = "putKey", ![r].tx = reqs[r].tx, ![r].id = reqs[r].tx]
  BY <1>1, <1>2 DEF AnchorRequests, GapuraTyped
<1>4. reqs[r].tx \in Nat BY <1>2 DEF AnchorRequests
<1>5. \/ PutMemory(Digest(r), reqs[r].tx)
      \/ Anchored(Digest(r)) /\ UNCHANGED <<byDigest, byId>>
  BY DEF PutAnchor, PutPostgres, Anchored
<1>. QED BY <1>1, <1>2, <1>3, <1>4, <1>5, Goes DEF Pcs, PutMemory

LEMMA PutKeyDoes ==
  ASSUME GapuraTyped, NEW r, PutKey(r)
  PROVE  /\ At(r, "putKey") /\ UNCHANGED <<store, txs, byDigest, byId, clients, gone, faults>>
         /\ \/ /\ idem' = [idem EXCEPT ![reqs[r].key] = [body |-> reqs[r].body, id |-> reqs[r].id]]
               /\ Moves(r, "done", 0, reqs[r].id, "ok")
            \/ /\ idem' = idem /\ idem[reqs[r].key].id # 0
               /\ Moves(r, "done", 0, reqs[r].id, "ok")
            \/ idem' = idem /\ Moves(r, "done", 0, 0, "failed")
<1>1. At(r, "putKey") /\ UNCHANGED <<store, txs, byDigest, byId, clients, gone, faults>>
  BY DEF PutKey
<1>2. r \in DOMAIN reqs /\ reqs[r].id \in Nat BY <1>1, Fields DEF At
<1>3. \/ /\ idem' = [idem EXCEPT ![reqs[r].key] = [body |-> reqs[r].body, id |-> reqs[r].id]]
         /\ reqs' = Answer(r, "ok", reqs[r].id)
      \/ idem' = idem /\ idem[reqs[r].key].id # 0 /\ reqs' = Answer(r, "ok", reqs[r].id)
      \/ idem' = idem /\ reqs' = Answer(r, "failed", 0)
  BY DEF PutKey
<1>. QED BY <1>1, <1>2, <1>3, Answered DEF AnchorAnswers

\* A block: one pooled transaction is mined or reverts.
LEMMA MineDoes ==
  ASSUME GapuraTyped, NEW t, Mine(t)
  PROVE  /\ UNCHANGED <<store, byDigest, byId, idem, reqs, clients, gone>>
         /\ txs' \in Seq(Transactions) /\ DOMAIN txs' = DOMAIN txs
         /\ \A u \in DOMAIN txs : txs'[u].digest = txs[u].digest
                                  /\ (txs[u].state # "pooled" => txs'[u] = txs[u])
<1>1. t \in DOMAIN txs /\ txs[t].state = "pooled" BY DEF Mine
<1>2. txs[t] \in Transactions BY <1>1 DEF GapuraTyped
<1>3. PICK s \in {"mined", "reverted"} : txs' = [txs EXCEPT ![t].state = s] BY DEF Mine
<1>4. [txs[t] EXCEPT !.state = s] \in Transactions BY <1>2 DEF Transactions
<1>. QED BY <1>1, <1>2, <1>3, <1>4 DEF Mine, GapuraTyped, Transactions

\* A client sends a request, a first one or again, or is done with its call.
Fresh(body, key) ==
  [body |-> body, key |-> key, pc |-> "key", tx |-> 0, id |-> 0, answer |-> "none",
   before |-> Acked, during |-> Running]
LEMMA ClientDoes ==
  ASSUME GapuraTyped, NEW c \in Clients, Create(c) \/ Receive(c) \/ LoseConnection(c)
  PROVE  /\ UNCHANGED <<store, txs, byDigest, byId, idem, gone>>
         /\ \/ /\ \E body \in Bodies, key \in Keys : reqs' = Append(reqs, Fresh(body, key))
               /\ \E n \in Nat : clients' = [clients EXCEPT ![c] = [req |-> Len(reqs) + 1, attempt |-> n]]
            \/ reqs' = reqs /\ clients' = [clients EXCEPT ![c] = Idle]
<1>1. ASSUME NEW body \in Bodies, NEW key \in Keys, NEW n \in Nat, SendRequest(c, body, key, n)
      PROVE  /\ UNCHANGED <<store, txs, byDigest, byId, idem, gone>>
             /\ reqs' = Append(reqs, Fresh(body, key))
             /\ clients' = [clients EXCEPT ![c] = [req |-> Len(reqs) + 1, attempt |-> n]]
  BY <1>1 DEF SendRequest, Fresh
<1>2. CASE Create(c) BY <1>1, <1>2 DEF Create
<1>3. ASSUME NEW end, clients[c] # Idle, Outcome(c, end)
      PROVE  \/ /\ UNCHANGED <<store, txs, byDigest, byId, idem, reqs, gone>>
                /\ clients' = [clients EXCEPT ![c] = Idle]
             \/ \E body \in Bodies, key \in Keys, n \in Nat : SendRequest(c, body, key, n)
  <2>1. clients[c].req \in DOMAIN reqs /\ clients[c].attempt + 1 \in Nat
    BY <1>3 DEF GapuraTyped
  <2>2. reqs[clients[c].req].body \in Bodies /\ reqs[clients[c].req].key \in Keys
    BY <2>1, Fields
  <2>. QED BY <1>3, <2>1, <2>2 DEF Outcome
<1>4. CASE Receive(c) \/ LoseConnection(c)
  BY <1>1, <1>3, <1>4 DEF Receive, LoseConnection
<1>. QED BY <1>2, <1>4

\* The process restarts.
LEMMA RestartDoes ==
  ASSUME GapuraTyped, Restart
  PROVE  /\ UNCHANGED <<store, txs, clients>>
         /\ reqs' \in Seq(AnchorRequests) /\ DOMAIN reqs' = DOMAIN reqs
         /\ \A r \in DOMAIN reqs : reqs'[r] = [reqs[r] EXCEPT !.pc = "done", !.tx = 0]
         /\ \/ UNCHANGED <<byDigest, byId, idem, gone>>
            \/ /\ byDigest' = [d \in Digests |-> 0] /\ byId' = {}
               /\ idem' = [k \in Keys |-> NoEntry]
               /\ gone' = [rows |-> DOMAIN reqs, keys |-> DOMAIN reqs]
<1>1. reqs' = [r \in DOMAIN reqs |-> [reqs[r] EXCEPT !.pc = "done", !.tx = 0]]
  BY DEF Restart
<1>2. \A r \in DOMAIN reqs : [reqs[r] EXCEPT !.pc = "done", !.tx = 0] \in AnchorRequests
  BY Fields DEF AnchorRequests, Pcs
<1>3. Len(reqs) \in Nat /\ DOMAIN reqs = 1 .. Len(reqs) BY DEF GapuraTyped
<1>4. reqs' \in [1 .. Len(reqs) -> AnchorRequests] BY <1>1, <1>2, <1>3
<1>5. reqs' \in Seq(AnchorRequests) BY <1>3, <1>4
<1>. QED BY <1>1, <1>5 DEF Restart

-----------------------------------------------------------------------------
(***************************************************************************)
(* The invariant.                                                          *)
(***************************************************************************)

\* What only grows: the requests with what they ask, the answers, what is
\* recorded on chain, what is lost.
LogGrows ==
  /\ \A r \in DOMAIN reqs :
       /\ r \in DOMAIN reqs' /\ reqs'[r].body = reqs[r].body /\ reqs'[r].key = reqs[r].key
       /\ reqs'[r].before = reqs[r].before /\ reqs'[r].during = reqs[r].during
       /\ reqs'[r].answer = "ok" \/ reqs[r].answer # "ok"
  /\ \A t \in DOMAIN txs :
       /\ t \in DOMAIN txs' /\ txs'[t].digest = txs[t].digest
       /\ txs[t].state # "pooled" => txs'[t] = txs[t]
  /\ gone.rows \subseteq gone'.rows /\ gone.keys \subseteq gone'.keys

\* No request is new.
Kept ==
  /\ reqs' \in Seq(AnchorRequests) /\ DOMAIN reqs' = DOMAIN reqs
  /\ clients' \in [Clients -> [req : Nat, attempt : Nat]]
  /\ \A c \in Clients : clients'[c] # Idle => clients'[c].req \in DOMAIN reqs'
  /\ \A q \in DOMAIN reqs :
       /\ reqs'[q].body = reqs[q].body /\ reqs'[q].key = reqs[q].key
       /\ reqs'[q].before = reqs[q].before /\ reqs'[q].during = reqs[q].during
       /\ reqs'[q].answer = "ok" \/ reqs[q].answer # "ok"

LEMMA TypedStep ==
  ASSUME GapuraTyped, AnswerInv, [GapuraNext]_gapuraVars
  PROVE  GapuraTyped' /\ AnswerInv' /\ LogGrows
<1>1. ASSUME NEW r, NEW p, NEW t, NEW i, NEW a, Moves(r, p, t, i, a), reqs[r].pc # "done", a = "none" \/ p = "done",
             UNCHANGED clients, UNCHANGED gone
      PROVE  AnswerInv' /\ Kept
  <2>1. reqs' \in Seq(AnchorRequests) /\ DOMAIN reqs' = DOMAIN reqs /\ r \in DOMAIN reqs
    BY <1>1 DEF Moves
  <2>2. reqs[r] \in AnchorRequests BY <2>1, Fields
  <2>3. /\ reqs'[r].body = reqs[r].body /\ reqs'[r].key = reqs[r].key
        /\ reqs'[r].before = reqs[r].before /\ reqs'[r].during = reqs[r].during
        /\ reqs'[r].pc = p /\ reqs'[r].answer = a /\ reqs[r].answer = "none"
    BY <1>1, <2>1, <2>2 DEF Moves, AnchorRequests, AnswerInv
  <2>4. \A q \in DOMAIN reqs : q # r => reqs'[q] = reqs[q]
    BY <1>1 DEF Moves
  <2>5. Acked \subseteq Acked'
    BY <2>1, <2>3, <2>4 DEF Acked
  <2>6. AnswerInv'
    BY <1>1, <2>1, <2>3, <2>4, <2>5 DEF AnswerInv
  <2>. QED BY <1>1, <2>1, <2>3, <2>4, <2>6 DEF GapuraTyped, Kept
<1>2. ASSUME NEW r, LookupKey(r) \/ LookupDigest(r) \/ AwaitReceipt(r)
      PROVE  GapuraTyped' /\ AnswerInv' /\ LogGrows
  <2>1. UNCHANGED <<txs, byDigest, byId, idem, clients, gone>>
    BY <1>2 DEF LookupKey, LookupDigest, AwaitReceipt
  <2>2. r \in DOMAIN reqs /\ reqs[r].pc # "done" /\ reqs[r].answer = "none"
    BY <1>2 DEF LookupKey, LookupDigest, AwaitReceipt, At, AnswerInv
  <2>3. \E p, t, i, a : Moves(r, p, t, i, a) /\ (a = "none" \/ p = "done")
    BY <1>2, <2>2, LookupKeyDoes, LookupDigestDoes, AwaitReceiptDoes
  <2>4. AnswerInv' /\ Kept BY <1>1, <2>1, <2>2, <2>3
  <2>. QED BY <2>1, <2>4 DEF GapuraTyped, LogGrows, Kept
<1>3. ASSUME NEW r, Submit(r)
      PROVE  GapuraTyped' /\ AnswerInv' /\ LogGrows
  <2>1. UNCHANGED <<byDigest, byId, idem, clients, gone>>
    BY <1>3 DEF Submit
  <2>2. r \in DOMAIN reqs /\ reqs[r].pc # "done" /\ reqs[r].answer = "none"
    BY <1>3 DEF Submit, At, AnswerInv
  <2>3. \E p, t, i, a : Moves(r, p, t, i, a) /\ (a = "none" \/ p = "done")
    BY <1>3, <2>2, SubmitDoes
  <2>4. txs' \in Seq(Transactions) /\ \A t \in DOMAIN txs : t \in DOMAIN txs' /\ txs'[t] = txs[t]
    <3>1. CASE txs' = txs BY <3>1 DEF GapuraTyped
    <3>2. CASE Pooled(Digest(r))
      <4>1. [digest |-> Digest(r), state |-> "pooled"] \in Transactions
        BY <2>2, Fields DEF Transactions
      <4>. QED BY <3>2, <4>1 DEF Pooled, GapuraTyped
    <3>. QED BY <1>3, <3>1, <3>2, SubmitDoes
  <2>5. AnswerInv' /\ Kept BY <1>1, <2>1, <2>2, <2>3
  <2>6. GapuraTyped' BY <2>1, <2>4, <2>5 DEF GapuraTyped, Kept
  <2>7. LogGrows BY <2>1, <2>4, <2>5 DEF LogGrows, Kept
  <2>. QED BY <2>5, <2>6, <2>7
<1>4. ASSUME NEW r, PutAnchor(r)
      PROVE  GapuraTyped' /\ AnswerInv' /\ LogGrows
  <2>1. UNCHANGED <<txs, idem, clients, gone>>
    BY <1>4, PutAnchorDoes
  <2>2. r \in DOMAIN reqs /\ reqs[r].pc # "done" /\ reqs[r].answer = "none"
    BY <1>4 DEF PutAnchor, At, AnswerInv
  <2>3. \E p, t, i, a : Moves(r, p, t, i, a) /\ (a = "none" \/ p = "done")
    BY <1>4, <2>2, PutAnchorDoes
  <2>4. byDigest' \in [Digests -> Nat] /\ byId' \subseteq Nat
    <3>1. reqs[r].tx \in Nat /\ Digest(r) \in Digests BY <2>2, Fields
    <3>2. \/ byDigest' = [byDigest EXCEPT ![Digest(r)] = reqs[r].tx] /\ byId' = byId \cup {reqs[r].tx}
          \/ UNCHANGED <<byDigest, byId>>
      BY <1>4, PutAnchorDoes
    <3>. QED BY <3>1, <3>2 DEF GapuraTyped
  <2>5. AnswerInv' /\ Kept BY <1>1, <2>1, <2>2, <2>3
  <2>6. GapuraTyped' BY <2>1, <2>4, <2>5 DEF GapuraTyped, Kept
  <2>7. LogGrows BY <2>1, <2>4, <2>5 DEF LogGrows, Kept
  <2>. QED BY <2>5, <2>6, <2>7
<1>5. ASSUME NEW r, PutKey(r)
      PROVE  GapuraTyped' /\ AnswerInv' /\ LogGrows
  <2>1. UNCHANGED <<txs, byDigest, byId, clients, gone>>
    BY <1>5, PutKeyDoes
  <2>2. r \in DOMAIN reqs /\ reqs[r].pc # "done" /\ reqs[r].answer = "none"
    BY <1>5 DEF PutKey, At, AnswerInv
  <2>3. \E p, t, i, a : Moves(r, p, t, i, a) /\ (a = "none" \/ p = "done")
    BY <1>5, <2>2, PutKeyDoes
  <2>4. idem' \in [Keys -> {NoEntry} \cup [body : Bodies, id : Nat]]
    <3>1. reqs[r].body \in Bodies /\ reqs[r].id \in Nat BY <2>2, Fields
    <3>2. idem' = idem \/ idem' = [idem EXCEPT ![reqs[r].key] = [body |-> reqs[r].body, id |-> reqs[r].id]]
      BY <1>5, PutKeyDoes
    <3>. QED BY <3>1, <3>2 DEF GapuraTyped
  <2>5. AnswerInv' /\ Kept BY <1>1, <2>1, <2>2, <2>3
  <2>6. GapuraTyped' BY <2>1, <2>4, <2>5 DEF GapuraTyped, Kept
  <2>7. LogGrows BY <2>1, <2>4, <2>5 DEF LogGrows, Kept
  <2>. QED BY <2>5, <2>6, <2>7
<1>6. ASSUME NEW t, Mine(t)
      PROVE  GapuraTyped' /\ AnswerInv' /\ LogGrows
  BY <1>6, MineDoes DEF GapuraTyped, AnswerInv, Acked, LogGrows
<1>7. ASSUME NEW c \in Clients, Create(c) \/ Receive(c) \/ LoseConnection(c)
      PROVE  GapuraTyped' /\ AnswerInv' /\ LogGrows
  <2>1. UNCHANGED <<txs, byDigest, byId, idem, gone>>
    BY <1>7, ClientDoes
  <2>2. CASE reqs' = reqs /\ clients' = [clients EXCEPT ![c] = Idle]
    BY <2>1, <2>2 DEF GapuraTyped, AnswerInv, Acked, LogGrows, Idle
  <2>3. CASE /\ \E body \in Bodies, key \in Keys : reqs' = Append(reqs, Fresh(body, key))
             /\ \E n \in Nat : clients' = [clients EXCEPT ![c] = [req |-> Len(reqs) + 1, attempt |-> n]]
    <3>1. PICK body \in Bodies, key \in Keys : reqs' = Append(reqs, Fresh(body, key))
      BY <2>3
    <3>2. DOMAIN reqs = 1 .. Len(reqs) /\ Len(reqs) \in Nat BY DEF GapuraTyped
    <3>3. Fresh(body, key) \in AnchorRequests
      BY <3>2 DEF Fresh, AnchorRequests, Pcs, AnchorAnswers, Acked, Running
    <3>4. /\ reqs' \in Seq(AnchorRequests) /\ DOMAIN reqs' = DOMAIN reqs \cup {Len(reqs) + 1}
          /\ \A q \in DOMAIN reqs : reqs'[q] = reqs[q]
          /\ reqs'[Len(reqs) + 1] = Fresh(body, key)
      BY <3>1, <3>2, <3>3 DEF GapuraTyped
    <3>5. Acked \subseteq Acked' BY <3>4 DEF Acked
    <3>6. AnswerInv' BY <3>4, <3>5 DEF AnswerInv, Fresh, Running
    <3>7. /\ clients' \in [Clients -> [req : Nat, attempt : Nat]]
          /\ \A d \in Clients : clients'[d] # Idle => clients'[d].req \in DOMAIN reqs'
      BY <2>3, <3>2, <3>4 DEF GapuraTyped
    <3>. QED BY <2>1, <3>4, <3>6, <3>7 DEF GapuraTyped, LogGrows
  <2>. QED BY <1>7, <2>2, <2>3, ClientDoes
<1>8. CASE Restart
  <2>1. /\ reqs' \in Seq(AnchorRequests) /\ DOMAIN reqs' = DOMAIN reqs
        /\ \A r \in DOMAIN reqs : /\ reqs'[r].pc = "done"
                                  /\ reqs'[r].body = reqs[r].body /\ reqs'[r].key = reqs[r].key
                                  /\ reqs'[r].before = reqs[r].before /\ reqs'[r].during = reqs[r].during
                                  /\ reqs'[r].answer = reqs[r].answer
    BY <1>8, RestartDoes, Fields DEF AnchorRequests
  <2>2. AnswerInv' BY <2>1 DEF AnswerInv, Acked
  <2>3. DOMAIN reqs \subseteq Nat BY DEF GapuraTyped
  <2>4. CASE UNCHANGED <<byDigest, byId, idem, gone>>
    BY <1>8, <2>1, <2>2, <2>4, RestartDoes DEF GapuraTyped, LogGrows
  <2>5. CASE /\ byDigest' = [d \in Digests |-> 0] /\ byId' = {}
             /\ idem' = [k \in Keys |-> NoEntry]
             /\ gone' = [rows |-> DOMAIN reqs, keys |-> DOMAIN reqs]
    <3>1. /\ byDigest' \in [Digests -> Nat] /\ byId' \subseteq Nat
          /\ idem' \in [Keys -> {NoEntry} \cup [body : Bodies, id : Nat]]
          /\ gone' \in [rows : SUBSET Nat, keys : SUBSET Nat]
      BY <2>3, <2>5
    <3>. QED BY <1>8, <2>1, <2>2, <2>5, <3>1, RestartDoes DEF GapuraTyped, LogGrows
  <2>. QED BY <1>8, <2>4, <2>5, RestartDoes
<1>9. ASSUME NEW k \in Keys, KeyExpires(k)
      PROVE  GapuraTyped' /\ AnswerInv' /\ LogGrows
  <2>1. /\ UNCHANGED <<txs, byDigest, byId, reqs, clients>>
        /\ idem' = [idem EXCEPT ![k] = NoEntry]
        /\ gone' = [gone EXCEPT !.keys = @ \cup {r \in Acked : reqs[r].key = k}]
    BY <1>9 DEF KeyExpires
  <2>2. DOMAIN reqs \subseteq Nat BY DEF GapuraTyped
  <2>3. gone' \in [rows : SUBSET Nat, keys : SUBSET Nat] /\ gone'.rows = gone.rows
        /\ gone.keys \subseteq gone'.keys
    BY <2>1, <2>2 DEF GapuraTyped, Acked
  <2>. QED BY <2>1, <2>3 DEF GapuraTyped, AnswerInv, Acked, LogGrows
<1>10. CASE UNCHANGED gapuraVars
  BY <1>10 DEF gapuraVars, GapuraTyped, AnswerInv, Acked, LogGrows
<1>. QED BY <1>2, <1>3, <1>4, <1>5, <1>6, <1>7, <1>8, <1>9, <1>10 DEF GapuraNext

\* What is recorded stays so, and with it what the stores and the handlers that
\* do not move hold, as long as the rows stay.
RowsStay == (\A d \in Digests : Anchored(d) => Anchored(d)') /\ gone'.rows = gone.rows
LEMMA RecordedStays ==
  ASSUME LogGrows, NEW d, NEW id, RecordedAs(d, id)
  PROVE  RecordedAs(d, id)'
BY DEF LogGrows, RecordedAs

LEMMA OtherRequestsStay ==
  ASSUME GapuraTyped, AnchoredInv, LogGrows, RowsStay, NEW q \in DOMAIN reqs, reqs'[q] = reqs[q]
  PROVE  HandlerOk(q)' /\ (q \in Acked' => AckOk(q)')
<1>1. Digest(q)' = Digest(q) /\ Digest(q) \in Digests BY Fields DEF Digest
<1>2. HandlerOk(q) /\ (q \in Acked' => AckOk(q)) BY DEF AnchoredInv, HandlerInv, Acked
<1>3. HandlerOk(q)'
  <2>1. reqs[q].pc = "receipt" => reqs[q].tx \in DOMAIN txs' /\ txs'[reqs[q].tx].digest = Digest(q)
    BY <1>2 DEF HandlerOk, LogGrows
  <2>2. reqs[q].pc = "store" => RecordedAs(Digest(q), reqs[q].tx)'
    BY <1>1, <1>2, RecordedStays DEF HandlerOk, RecordedAs
  <2>3. reqs[q].pc = "putKey" => RecordedAs(Digest(q), reqs[q].id)' /\ Anchored(Digest(q))'
    BY <1>1, <1>2, RecordedStays DEF HandlerOk, RecordedAs, RowsStay, Anchored
  <2>. QED BY <1>1, <2>1, <2>2, <2>3 DEF HandlerOk, RecordedAs, Anchored
<1>4. q \in Acked' => AckOk(q)'
  BY <1>1, <1>2, RecordedStays DEF AckOk, RecordedAs, Anchored, RowsStay
<1>. QED BY <1>3, <1>4

\* The rows and the entries that stay.
LEMMA StoresStay ==
  ASSUME GapuraTyped, AnchoredInv, LogGrows
  PROVE  /\ byDigest' = byDigest => RowInv'
         /\ idem' = idem /\ RowsStay => EntryInv'
<1>1. byDigest' = byDigest => RowInv'
  BY RecordedStays DEF AnchoredInv, RowInv, RecordedAs, Anchored
<1>2. ASSUME idem' = idem, RowsStay, NEW k \in Keys, idem[k].id # 0
      PROVE  RecordedAs(idem[k].body.digest, idem[k].id)' /\ Anchored(idem[k].body.digest)'
  <2>1. RecordedAs(idem[k].body.digest, idem[k].id) /\ Anchored(idem[k].body.digest)
    BY <1>2 DEF AnchoredInv, EntryInv
  <2>2. idem[k].body.digest \in Digests BY <1>2, GapuraAssumption DEF GapuraTyped, NoEntry
  <2>. QED BY <1>2, <2>1, <2>2, RecordedStays DEF RowsStay, Anchored, RecordedAs
<1>. QED BY <1>1, <1>2 DEF EntryInv, RecordedAs, Anchored

\* One handler moves and no row goes: what remains is to be shown of it.
LEMMA MovesAnchored ==
  ASSUME GapuraTyped, AnchoredInv, LogGrows, RowsStay,
         NEW r, NEW p, NEW t, NEW i, NEW a, Moves(r, p, t, i, a),
         HandlerOk(r)', a = "ok" => AckOk(r)', RowInv', EntryInv'
  PROVE  AnchoredInv'
<1>1. r \in DOMAIN reqs /\ DOMAIN reqs' = DOMAIN reqs /\ reqs'[r].answer = a
  BY Fields DEF Moves, AnchorRequests
<1>2. \A q \in DOMAIN reqs : q # r => HandlerOk(q)' /\ (q \in Acked' => AckOk(q)')
  BY OtherRequestsStay DEF Moves
<1>3. r \in Acked' => AckOk(r)'
  BY <1>1 DEF Acked
<1>. QED BY <1>1, <1>2, <1>3 DEF AnchoredInv, HandlerInv, Acked

LEMMA AnchoredStep ==
  ASSUME GapuraTyped, AnswerInv, AnchoredInv, GapuraTyped', LogGrows, [GapuraNext]_gapuraVars
  PROVE  AnchoredInv'
<1>. USE DEF AnchoredInv
<1>0. ASSUME NEW r, NEW p, NEW t, NEW i, NEW a, Moves(r, p, t, i, a)
      PROVE  /\ r \in DOMAIN reqs /\ Digest(r)' = Digest(r) /\ Digest(r) \in Digests
             /\ reqs'[r].pc = p /\ reqs'[r].tx = t /\ reqs'[r].id = i
  BY <1>0, Fields DEF Moves, AnchorRequests, Digest
<1>1. ASSUME NEW r, LookupKey(r) PROVE AnchoredInv'
  <2>1. /\ UNCHANGED <<txs, byDigest, idem, gone>> /\ RowsStay
        /\ r \in DOMAIN reqs
    BY <1>1 DEF LookupKey, RowsStay, Anchored, At
  <2>2. RowInv' /\ EntryInv' BY <2>1, StoresStay
  <2>3. PICK p \in {"digest", "done"}, t \in Nat, i \in Nat, a \in AnchorAnswers :
          /\ Moves(r, p, t, i, a)
          /\ a = "ok" => idem[reqs[r].key].id # 0 /\ idem[reqs[r].key].body = reqs[r].body
                         /\ i = idem[reqs[r].key].id
    <3>1. reqs[r].tx \in Nat /\ reqs[r].id \in Nat /\ reqs[r].answer = "none" /\ "none" \in AnchorAnswers
      BY <1>1, <2>1, Fields DEF LookupKey, At, AnswerInv, AnchorAnswers
    <3>2. idem[reqs[r].key].id \in Nat /\ "ok" \in AnchorAnswers
      BY <2>1, Fields DEF GapuraTyped, NoEntry, AnchorAnswers
    <3>3. CASE Moves(r, "digest", reqs[r].tx, reqs[r].id, reqs[r].answer)
      BY <3>1, <3>3
    <3>4. CASE /\ idem[reqs[r].key].id # 0 /\ idem[reqs[r].key].body = reqs[r].body
               /\ Moves(r, "done", 0, idem[reqs[r].key].id, "ok")
      BY <3>2, <3>4
    <3>5. CASE \E a \in AnchorAnswers \ {"ok", "none"} : Moves(r, "done", 0, 0, a)
      BY <3>5
    <3>. QED BY <1>1, <3>3, <3>4, <3>5, LookupKeyDoes
  <2>4. HandlerOk(r)' BY <1>0, <2>3 DEF HandlerOk
  <2>5. a = "ok" => AckOk(r)'
    BY <1>0, <2>1, <2>3, Fields DEF AckOk, EntryInv, RecordedAs, Anchored, Digest
  <2>. QED BY <2>1, <2>2, <2>3, <2>4, <2>5, MovesAnchored
<1>2. ASSUME NEW r, LookupDigest(r) PROVE AnchoredInv'
  <2>1. /\ UNCHANGED <<txs, byDigest, idem, gone>> /\ RowsStay
        /\ r \in DOMAIN reqs /\ reqs[r].answer = "none"
    BY <1>2 DEF LookupDigest, RowsStay, Anchored, At, AnswerInv
  <2>2. RowInv' /\ EntryInv' BY <2>1, StoresStay
  <2>3. \/ Moves(r, "submit", reqs[r].tx, reqs[r].id, "none")
        \/ Anchored(Digest(r)) /\ Moves(r, "putKey", reqs[r].tx, byDigest[Digest(r)], "none")
    BY <1>2, <2>1, LookupDigestDoes
  <2>4. HandlerOk(r)'
    BY <1>0, <2>1, <2>3 DEF HandlerOk, RowInv, RecordedAs, Anchored
  <2>. QED BY <2>1, <2>2, <2>3, <2>4, MovesAnchored
<1>3. ASSUME NEW r, Submit(r) PROVE AnchoredInv'
  <2>1. /\ UNCHANGED <<byDigest, idem, gone>> /\ RowsStay
        /\ r \in DOMAIN reqs /\ reqs[r].answer = "none"
    BY <1>3 DEF Submit, RowsStay, Anchored, At, AnswerInv
  <2>2. RowInv' /\ EntryInv' BY <2>1, StoresStay
  <2>3. CASE \E a \in AnchorAnswers \ {"ok", "none"} : Moves(r, "done", 0, 0, a)
    <3>1. PICK a \in AnchorAnswers \ {"ok", "none"} : Moves(r, "done", 0, 0, a) BY <2>3
    <3>2. HandlerOk(r)' BY <1>0, <3>1 DEF HandlerOk
    <3>. QED BY <2>1, <2>2, <3>1, <3>2, MovesAnchored
  <2>4. CASE Pooled(Digest(r)) /\ Moves(r, "receipt", Len(txs) + 1, reqs[r].id, "none")
    <3>1. Len(txs) + 1 \in DOMAIN txs' /\ txs'[Len(txs) + 1].digest = Digest(r)
      BY <2>4 DEF Pooled, GapuraTyped
    <3>2. HandlerOk(r)' BY <1>0, <2>4, <3>1 DEF HandlerOk
    <3>. QED BY <2>1, <2>2, <2>4, <3>2, MovesAnchored
  <2>. QED BY <1>3, <2>1, <2>3, <2>4, SubmitDoes
<1>4. ASSUME NEW r, AwaitReceipt(r) PROVE AnchoredInv'
  <2>1. /\ UNCHANGED <<txs, byDigest, idem, gone>> /\ RowsStay
        /\ r \in DOMAIN reqs /\ reqs[r].answer = "none" /\ reqs[r].pc = "receipt"
    BY <1>4 DEF AwaitReceipt, RowsStay, Anchored, At, AnswerInv
  <2>2. RowInv' /\ EntryInv' BY <2>1, StoresStay
  <2>3. CASE \E a \in AnchorAnswers \ {"ok", "none"} : Moves(r, "done", 0, 0, a)
    <3>1. PICK a \in AnchorAnswers \ {"ok", "none"} : Moves(r, "done", 0, 0, a) BY <2>3
    <3>2. HandlerOk(r)' BY <1>0, <3>1 DEF HandlerOk
    <3>. QED BY <2>1, <2>2, <3>1, <3>2, MovesAnchored
  <2>4. CASE txs[reqs[r].tx].state = "mined" /\ Moves(r, "store", reqs[r].tx, reqs[r].id, "none")
    <3>1. reqs[r].tx \in DOMAIN txs /\ txs[reqs[r].tx].digest = Digest(r)
      BY <2>1 DEF HandlerInv, HandlerOk
    <3>2. txs[reqs[r].tx] \in Transactions BY <3>1 DEF GapuraTyped
    <3>3. RecordedAs(Digest(r), reqs[r].tx)'
      BY <1>0, <2>1, <2>4, <3>1, <3>2 DEF RecordedAs, Transactions
    <3>4. HandlerOk(r)' BY <1>0, <2>4, <3>3 DEF HandlerOk, RecordedAs
    <3>. QED BY <2>1, <2>2, <2>4, <3>4, MovesAnchored
  <2>. QED BY <1>4, <2>1, <2>3, <2>4, AwaitReceiptDoes
<1>5. ASSUME NEW r, PutAnchor(r) PROVE AnchoredInv'
  <2>1. /\ UNCHANGED <<txs, idem, gone>>
        /\ r \in DOMAIN reqs /\ reqs[r].answer = "none" /\ reqs[r].pc = "store"
    BY <1>5 DEF PutAnchor, At, AnswerInv
  <2>2. RecordedAs(Digest(r), reqs[r].tx) /\ reqs[r].tx # 0 /\ Digest(r) \in Digests
    BY <2>1, Fields DEF HandlerInv, HandlerOk, RecordedAs, GapuraTyped
  <2>3. \/ byDigest' = [byDigest EXCEPT ![Digest(r)] = reqs[r].tx]
        \/ Anchored(Digest(r)) /\ byDigest' = byDigest
    BY <1>5, PutAnchorDoes
  <2>4. RowsStay /\ Anchored(Digest(r))'
    BY <1>0, <1>5, PutAnchorDoes, <2>1, <2>2, <2>3 DEF RowsStay, Anchored, GapuraTyped
  <2>5. RowInv'
    BY <2>1, <2>2, <2>3 DEF RowInv, Anchored, RecordedAs, GapuraTyped
  <2>6. EntryInv' BY <2>1, <2>4, StoresStay
  <2>7. Moves(r, "putKey", reqs[r].tx, reqs[r].tx, "none") BY <1>5, <2>1, PutAnchorDoes
  <2>8. HandlerOk(r)'
    BY <1>0, <2>1, <2>2, <2>4, <2>7 DEF HandlerOk, RecordedAs, Anchored
  <2>. QED BY <2>4, <2>5, <2>6, <2>7, <2>8, MovesAnchored
<1>6. ASSUME NEW r, PutKey(r) PROVE AnchoredInv'
  <2>1. /\ UNCHANGED <<txs, byDigest, gone>> /\ RowsStay
        /\ r \in DOMAIN reqs /\ reqs[r].pc = "putKey"
    BY <1>6 DEF PutKey, RowsStay, Anchored, At
  <2>2. RecordedAs(Digest(r), reqs[r].id) /\ Anchored(Digest(r)) /\ reqs[r].key \in Keys
    BY <2>1, Fields DEF HandlerInv, HandlerOk
  <2>3. RowInv' BY <2>1, StoresStay
  <2>4. EntryInv'
    <3>1. CASE idem' = idem BY <2>1, <3>1, StoresStay
    <3>2. CASE idem' = [idem EXCEPT ![reqs[r].key] = [body |-> reqs[r].body, id |-> reqs[r].id]]
      <4>1. \A k \in Keys : k # reqs[r].key => idem'[k] = idem[k]
        BY <3>2 DEF GapuraTyped
      <4>2. idem'[reqs[r].key] = [body |-> reqs[r].body, id |-> reqs[r].id]
        BY <2>2, <3>2 DEF GapuraTyped
      <4>. QED BY <2>1, <2>2, <4>1, <4>2 DEF EntryInv, RecordedAs, Anchored, Digest
    <3>. QED BY <1>6, <3>1, <3>2, PutKeyDoes
  <2>5. CASE Moves(r, "done", 0, reqs[r].id, "ok")
    <3>1. HandlerOk(r)' /\ AckOk(r)'
      BY <1>0, <2>1, <2>2, <2>5 DEF HandlerOk, AckOk, RecordedAs, Anchored
    <3>. QED BY <2>1, <2>3, <2>4, <2>5, <3>1, MovesAnchored
  <2>6. CASE Moves(r, "done", 0, 0, "failed")
    <3>1. HandlerOk(r)' BY <1>0, <2>6 DEF HandlerOk
    <3>. QED BY <2>1, <2>3, <2>4, <2>6, <3>1, MovesAnchored
  <2>. QED BY <1>6, <2>5, <2>6, PutKeyDoes
<1>7. ASSUME RowsStay, reqs' = reqs, RowInv', EntryInv' PROVE AnchoredInv'
  BY <1>7, OtherRequestsStay DEF HandlerInv, Acked
<1>8. ASSUME NEW t, Mine(t) PROVE AnchoredInv'
  <2>1. UNCHANGED <<byDigest, idem, gone, reqs>> /\ RowsStay
    BY <1>8, MineDoes DEF RowsStay, Anchored
  <2>. QED BY <1>7, <2>1, StoresStay
<1>9. ASSUME NEW c \in Clients, Create(c) \/ Receive(c) \/ LoseConnection(c)
      PROVE  AnchoredInv'
  <2>1. UNCHANGED <<byDigest, idem, gone>> /\ RowsStay
    BY <1>9, ClientDoes DEF RowsStay, Anchored
  <2>2. CASE reqs' = reqs
    BY <1>7, <2>1, <2>2, StoresStay
  <2>3. CASE \E body \in Bodies, key \in Keys : reqs' = Append(reqs, Fresh(body, key))
    <3>1. PICK body \in Bodies, key \in Keys : reqs' = Append(reqs, Fresh(body, key))
      BY <2>3
    <3>2. /\ DOMAIN reqs' = DOMAIN reqs \cup {Len(reqs) + 1}
          /\ \A q \in DOMAIN reqs : reqs'[q] = reqs[q]
          /\ reqs'[Len(reqs) + 1] = Fresh(body, key)
      BY <3>1 DEF GapuraTyped
    <3>3. HandlerInv'
      BY <2>1, <3>2, OtherRequestsStay DEF HandlerInv, HandlerOk, Acked, Fresh
    <3>. QED BY <2>1, <3>3, StoresStay
  <2>. QED BY <1>9, <2>2, <2>3, ClientDoes
<1>10. CASE Restart
  <2>1. /\ txs' = txs /\ DOMAIN reqs' = DOMAIN reqs
        /\ \A r \in DOMAIN reqs : /\ reqs'[r].pc = "done" /\ reqs'[r].body = reqs[r].body
                                  /\ reqs'[r].id = reqs[r].id /\ reqs'[r].answer = reqs[r].answer
    BY <1>10, RestartDoes, Fields DEF AnchorRequests
  <2>2. \A r \in DOMAIN reqs : HandlerOk(r)' BY <2>1 DEF HandlerOk
  <2>3. Acked' = Acked BY <2>1 DEF Acked
  <2>4. CASE UNCHANGED <<byDigest, idem, gone>>
    <3>1. RowsStay BY <2>4 DEF RowsStay, Anchored
    <3>2. \A r \in Acked : AckOk(r)'
      BY <2>1, <2>4 DEF HandlerInv, AckOk, RecordedAs, Anchored, Digest, Acked
    <3>. QED BY <2>1, <2>2, <2>3, <2>4, <3>1, <3>2, StoresStay DEF HandlerInv
  <2>5. CASE /\ byDigest' = [d \in Digests |-> 0] /\ idem' = [k \in Keys |-> NoEntry]
             /\ gone' = [rows |-> DOMAIN reqs, keys |-> DOMAIN reqs]
    <3>1. RowInv' /\ EntryInv' BY <2>5 DEF RowInv, EntryInv, Anchored, NoEntry
    <3>2. \A r \in Acked : AckOk(r)'
      BY <2>1, <2>5 DEF HandlerInv, AckOk, RecordedAs, Digest, Acked
    <3>. QED BY <2>1, <2>2, <2>3, <3>1, <3>2 DEF HandlerInv
  <2>. QED BY <1>10, <2>4, <2>5, RestartDoes
<1>11. ASSUME NEW k \in Keys, KeyExpires(k) PROVE AnchoredInv'
  <2>1. /\ UNCHANGED <<txs, byDigest, reqs>> /\ gone'.rows = gone.rows
        /\ idem' = [idem EXCEPT ![k] = NoEntry]
    BY <1>11 DEF KeyExpires, GapuraTyped
  <2>2. RowsStay BY <2>1 DEF RowsStay, Anchored
  <2>3. EntryInv'
    BY <2>1 DEF EntryInv, NoEntry, RecordedAs, Anchored, GapuraTyped
  <2>. QED BY <1>7, <2>1, <2>2, <2>3, StoresStay
<1>12. CASE UNCHANGED gapuraVars
  BY <1>7, <1>12, StoresStay DEF gapuraVars, RowsStay, Anchored
<1>. QED
  BY <1>1, <1>2, <1>3, <1>4, <1>5, <1>6, <1>8, <1>9, <1>10, <1>11, <1>12 DEF GapuraNext

-----------------------------------------------------------------------------
(***************************************************************************)
(* The Idempotency-Key.                                                    *)
(***************************************************************************)

LEMMA MovesKeys ==
  ASSUME GapuraTyped, AnswerInv, KeyInv, LogGrows, idem' = idem, gone' = gone,
         NEW r, NEW p, NEW t, NEW i, NEW a, Moves(r, p, t, i, a), reqs[r].pc # "done",
         a = "ok" => idem[reqs[r].key].id # 0
  PROVE  KeyInv'
<1>1. /\ r \in DOMAIN reqs /\ DOMAIN reqs' = DOMAIN reqs /\ r \notin gone.keys
      /\ reqs'[r].answer = a /\ reqs'[r].key = reqs[r].key
  BY Fields DEF Moves, AnchorRequests, KeyInv
<1>2. \A q \in Acked' : q \in Acked \/ (q = r /\ a = "ok")
  BY <1>1 DEF Moves, Acked
<1>3. \A q \in Acked' \ gone.keys : idem[reqs'[q].key].id # 0
  BY <1>1, <1>2 DEF KeyInv, LogGrows, Acked
<1>4. \A k \in Keys : idem[k].id # 0 =>
        \E q \in Acked' \ gone.keys : reqs'[q].key = k /\ reqs'[q].body = idem[k].body
  BY DEF KeyInv, LogGrows, Acked
<1>5. \A q \in gone.keys : q \in DOMAIN reqs' => reqs'[q].pc = "done"
  BY <1>1 DEF Moves, KeyInv
<1>. QED BY <1>3, <1>4, <1>5 DEF KeyInv

LEMMA KeyStep ==
  ASSUME GapuraTyped, AnswerInv, KeyInv, LogGrows, AnchoredInv, [GapuraNext]_gapuraVars
  PROVE  KeyInv'
<1>1. ASSUME NEW r, LookupKey(r) PROVE KeyInv'
  BY <1>1, LookupKeyDoes, MovesKeys DEF At, AnswerInv
<1>2. ASSUME NEW r, LookupDigest(r) PROVE KeyInv'
  BY <1>2, LookupDigestDoes, MovesKeys DEF At, AnswerInv
<1>3. ASSUME NEW r, Submit(r) PROVE KeyInv'
  BY <1>3, SubmitDoes, MovesKeys DEF At, AnswerInv
<1>4. ASSUME NEW r, AwaitReceipt(r) PROVE KeyInv'
  BY <1>4, AwaitReceiptDoes, MovesKeys DEF At, AnswerInv
<1>5. ASSUME NEW r, PutAnchor(r) PROVE KeyInv'
  BY <1>5, PutAnchorDoes, MovesKeys DEF At, AnswerInv
<1>6. ASSUME NEW r, PutKey(r) PROVE KeyInv'
  <2>1. r \in DOMAIN reqs /\ reqs[r].pc = "putKey" /\ gone' = gone
    BY <1>6, PutKeyDoes DEF At
  <2>2. CASE /\ idem' = idem
             /\ \/ idem[reqs[r].key].id # 0 /\ Moves(r, "done", 0, reqs[r].id, "ok")
                \/ Moves(r, "done", 0, 0, "failed")
    BY <2>1, <2>2, MovesKeys
  <2>3. CASE /\ idem' = [idem EXCEPT ![reqs[r].key] = [body |-> reqs[r].body, id |-> reqs[r].id]]
             /\ Moves(r, "done", 0, reqs[r].id, "ok")
    <3>0. HandlerOk(r) /\ 0 \notin DOMAIN txs
      BY <2>1 DEF AnchoredInv, HandlerInv, GapuraTyped
    <3>1. reqs[r].key \in Keys /\ reqs[r].id # 0
      BY <2>1, <3>0, Fields DEF HandlerOk, RecordedAs
    <3>2. /\ \A k \in Keys : k # reqs[r].key => idem'[k] = idem[k]
          /\ idem'[reqs[r].key] = [body |-> reqs[r].body, id |-> reqs[r].id]
      BY <2>3, <3>1 DEF GapuraTyped
    <3>3. /\ DOMAIN reqs' = DOMAIN reqs /\ r \notin gone.keys
          /\ reqs'[r].answer = "ok" /\ reqs'[r].key = reqs[r].key /\ reqs'[r].body = reqs[r].body
      BY <2>1, <2>3, Fields DEF Moves, AnchorRequests, KeyInv
    <3>4. Acked' = Acked \cup {r}
      BY <2>1, <2>3, <3>3 DEF Moves, Acked
    <3>5. \A q \in Acked' \ gone.keys : idem'[reqs'[q].key].id # 0
      <4>1. \A q \in Acked : q \in DOMAIN reqs /\ reqs'[q].key = reqs[q].key /\ reqs[q].key \in Keys
        BY Fields DEF LogGrows, Acked
      <4>. QED BY <3>1, <3>2, <3>3, <3>4, <4>1 DEF KeyInv
    <3>6. \A k \in Keys : idem'[k].id # 0 =>
            \E q \in Acked' \ gone.keys : reqs'[q].key = k /\ reqs'[q].body = idem'[k].body
      BY <3>2, <3>3, <3>4 DEF KeyInv, LogGrows, Acked
    <3>7. \A q \in gone.keys : q \in DOMAIN reqs' => reqs'[q].pc = "done"
      BY <2>3, <3>3 DEF Moves, KeyInv
    <3>. QED BY <2>1, <3>5, <3>6, <3>7 DEF KeyInv
  <2>. QED BY <1>6, <2>2, <2>3, PutKeyDoes
<1>7. ASSUME NEW t, Mine(t) PROVE KeyInv'
  BY <1>7, MineDoes DEF KeyInv, Acked
<1>8. ASSUME NEW c \in Clients, Create(c) \/ Receive(c) \/ LoseConnection(c)
      PROVE  KeyInv'
  <2>1. UNCHANGED <<idem, gone>> BY <1>8, ClientDoes
  <2>2. CASE reqs' = reqs BY <2>1, <2>2 DEF KeyInv, Acked
  <2>3. CASE \E body \in Bodies, key \in Keys : reqs' = Append(reqs, Fresh(body, key))
    <3>1. PICK body \in Bodies, key \in Keys : reqs' = Append(reqs, Fresh(body, key))
      BY <2>3
    <3>2. /\ DOMAIN reqs' = DOMAIN reqs \cup {Len(reqs) + 1} /\ Len(reqs) + 1 \notin DOMAIN reqs
          /\ \A q \in DOMAIN reqs : reqs'[q] = reqs[q]
          /\ reqs'[Len(reqs) + 1] = Fresh(body, key)
      BY <3>1 DEF GapuraTyped
    <3>3. Acked' = Acked BY <3>2 DEF Acked, Fresh
    <3>4. \A q \in gone.keys : q \in DOMAIN reqs' => reqs'[q].pc = "done"
      BY <3>2 DEF KeyInv, GapuraTyped
    <3>. QED BY <2>1, <3>2, <3>3, <3>4 DEF KeyInv, Acked
  <2>. QED BY <1>8, <2>2, <2>3, ClientDoes
<1>9. CASE Restart
  <2>1. /\ DOMAIN reqs' = DOMAIN reqs
        /\ \A r \in DOMAIN reqs : /\ reqs'[r].pc = "done" /\ reqs'[r].body = reqs[r].body
                                  /\ reqs'[r].key = reqs[r].key /\ reqs'[r].answer = reqs[r].answer
    BY <1>9, RestartDoes, Fields DEF AnchorRequests
  <2>2. Acked' = Acked BY <2>1 DEF Acked
  <2>3. CASE UNCHANGED <<idem, gone>>
    BY <2>1, <2>2, <2>3 DEF KeyInv, Acked
  <2>4. CASE /\ idem' = [k \in Keys |-> NoEntry]
             /\ gone' = [rows |-> DOMAIN reqs, keys |-> DOMAIN reqs]
    BY <2>1, <2>2, <2>4 DEF KeyInv, Acked, NoEntry
  <2>. QED BY <1>9, <2>3, <2>4, RestartDoes
<1>10. ASSUME NEW k \in Keys, KeyExpires(k) PROVE KeyInv'
  <2>1. /\ reqs' = reqs /\ idem' = [idem EXCEPT ![k] = NoEntry]
        /\ gone' = [gone EXCEPT !.keys = @ \cup {r \in Acked : reqs[r].key = k}]
    BY <1>10 DEF KeyExpires
  <2>2. gone'.keys = gone.keys \cup {r \in Acked : reqs[r].key = k}
    BY <2>1 DEF GapuraTyped
  <2>3. /\ idem'[k].id = 0
        /\ \A j \in Keys : j # k => idem'[j] = idem[j]
    BY <2>1 DEF GapuraTyped, NoEntry
  <2>4. \A q \in Acked \ gone'.keys : reqs[q].key # k /\ reqs[q].key \in Keys
    BY <2>2, Fields DEF Acked
  <2>5. ASSUME NEW q \in Acked, q \notin gone'.keys
        PROVE  idem'[reqs[q].key].id # 0
    <3>1. reqs[q].key # k /\ reqs[q].key \in Keys /\ q \notin gone.keys
      BY <2>2, <2>4, <2>5
    <3>. QED BY <2>3, <2>5, <3>1 DEF KeyInv
  <2>6. \A q \in gone'.keys : q \in DOMAIN reqs => reqs[q].pc = "done"
    BY <2>2 DEF KeyInv, AnswerInv, Acked
  <2>7. ASSUME NEW j \in Keys, idem'[j].id # 0
        PROVE  \E q \in Acked \ gone'.keys : reqs[q].key = j /\ reqs[q].body = idem'[j].body
    <3>1. j # k /\ idem'[j] = idem[j] BY <2>3, <2>7
    <3>2. PICK q \in Acked \ gone.keys : reqs[q].key = j /\ reqs[q].body = idem[j].body
      BY <2>7, <3>1 DEF KeyInv
    <3>3. q \notin gone'.keys BY <2>2, <3>1, <3>2
    <3>. QED BY <3>1, <3>2, <3>3
  <2>. QED BY <2>1, <2>5, <2>6, <2>7 DEF KeyInv, Acked
<1>11. CASE UNCHANGED gapuraVars
  BY <1>11 DEF gapuraVars, KeyInv, Acked
<1>. QED
  BY <1>1, <1>2, <1>3, <1>4, <1>5, <1>6, <1>7, <1>8, <1>9, <1>10, <1>11 DEF GapuraNext

\* A request stays alone, with the same answers before it, until they are lost.
LEMMA AloneStays ==
  ASSUME AnswerInv, LogGrows, NEW q \in DOMAIN reqs
  PROVE  /\ Alone(q)' => Alone(q)
         /\ gone' = gone => Earlier(q)' = Earlier(q)
<1>1. /\ Earlier(q)' \subseteq Earlier(q)
      /\ gone' = gone => Earlier(q)' = Earlier(q)
  BY DEF Earlier, LogGrows, AnswerInv, Acked
<1>2. \A p \in reqs[q].during : reqs'[p].key = reqs[p].key
  BY DEF LogGrows, AnswerInv
<1>. QED BY <1>1, <1>2 DEF Alone, LogGrows

\* A handler that moves leaves a lone request its entry: under the same key it
\* can only be at its lookup, which the entry ends.
LEMMA MovesQuiet ==
  ASSUME GapuraTyped, AnswerInv, QuietInv, LogGrows, gone' = gone,
         NEW r, NEW p, NEW t, NEW i, NEW a, Moves(r, p, t, i, a), reqs[r].pc # "done",
         \A k \in Keys : k # reqs[r].key => idem'[k] = idem[k],
         reqs[r].pc = "key" =>
           /\ idem' = idem
           /\ \/ idem[reqs[r].key].id = 0
              \/ p = "done" /\ (a = "ok" => idem[reqs[r].key].body = reqs[r].body)
  PROVE  QuietInv'
<1>1. SUFFICES ASSUME NEW q \in DOMAIN reqs, Alone(q)'
               PROVE  QuietOk(q)'
  BY DEF Moves, QuietInv
<1>2. Alone(q) /\ QuietOk(q) /\ Earlier(q)' = Earlier(q)
  BY <1>1, AloneStays DEF QuietInv
<1>3. /\ r \in Running /\ DOMAIN reqs' = DOMAIN reqs
      /\ reqs'[r].pc = p /\ reqs'[r].answer = a
  BY Fields DEF Moves, AnchorRequests, Running
<1>4. /\ \A s \in DOMAIN reqs : reqs'[s].key = reqs[s].key /\ reqs'[s].body = reqs[s].body
      /\ \A s \in Earlier(q) : s \in DOMAIN reqs
      /\ reqs[q].key \in Keys
  BY Fields DEF LogGrows, Earlier, AnswerInv, Acked
<1>5. CASE reqs[r].key = reqs[q].key
  <2>1. reqs[r].pc = "key" /\ idem[reqs[q].key].id # 0
    BY <1>2, <1>3, <1>5 DEF QuietOk
  <2>2. idem' = idem /\ p = "done" /\ (a = "ok" => idem[reqs[q].key].body = reqs[r].body)
    BY <1>5, <2>1
  <2>3. \A s \in Running' : s # r /\ s \in Running /\ reqs'[s] = reqs[s]
    BY <1>3, <2>2 DEF Running, Moves
  <2>4. reqs'[q].answer = "ok" => \E e \in Earlier(q) : reqs[e].body = reqs[q].body
    BY <1>2, <1>3, <2>2 DEF QuietOk, Moves
  <2>. QED BY <1>2, <1>4, <2>1, <2>2, <2>3, <2>4 DEF QuietOk
<1>6. CASE reqs[r].key # reqs[q].key
  <2>1. idem'[reqs[q].key] = idem[reqs[q].key] /\ reqs'[q] = reqs[q]
    BY <1>4, <1>6 DEF Moves
  <2>2. \A s \in Running' : reqs'[s].key = reqs[q].key => s \in Running /\ reqs'[s] = reqs[s]
    BY <1>3, <1>4, <1>6 DEF Running, Moves
  <2>. QED BY <1>2, <1>4, <2>1, <2>2 DEF QuietOk
<1>. QED BY <1>5, <1>6

LEMMA QuietStep ==
  ASSUME GapuraTyped, AnswerInv, KeyInv, QuietInv, LogGrows, [GapuraNext]_gapuraVars
  PROVE  QuietInv'
<1>1. ASSUME NEW r, LookupKey(r) PROVE QuietInv'
  BY <1>1, LookupKeyDoes, MovesQuiet DEF At, AnswerInv
<1>2. ASSUME NEW r, LookupDigest(r) PROVE QuietInv'
  BY <1>2, LookupDigestDoes, MovesQuiet DEF At
<1>3. ASSUME NEW r, Submit(r) PROVE QuietInv'
  BY <1>3, SubmitDoes, MovesQuiet DEF At
<1>4. ASSUME NEW r, AwaitReceipt(r) PROVE QuietInv'
  BY <1>4, AwaitReceiptDoes, MovesQuiet DEF At
<1>5. ASSUME NEW r, PutAnchor(r) PROVE QuietInv'
  BY <1>5, PutAnchorDoes, MovesQuiet DEF At
<1>6. ASSUME NEW r, PutKey(r) PROVE QuietInv'
  <2>1. reqs[r].pc = "putKey" /\ gone' = gone
    BY <1>6, PutKeyDoes DEF At
  <2>2. \A k \in Keys : k # reqs[r].key => idem'[k] = idem[k]
    BY <1>6, PutKeyDoes DEF GapuraTyped
  <2>3. \E p, t, i, a : Moves(r, p, t, i, a)
    BY <1>6, PutKeyDoes
  <2>. QED BY <2>1, <2>2, <2>3, MovesQuiet
<1>7. ASSUME reqs' = reqs, idem' = idem, gone' = gone PROVE QuietInv'
  BY <1>7 DEF QuietInv, QuietOk, Alone, Earlier, Running
<1>8. ASSUME NEW t, Mine(t) PROVE QuietInv'
  BY <1>7, <1>8, MineDoes
<1>9. ASSUME NEW c \in Clients, Create(c) \/ Receive(c) \/ LoseConnection(c)
      PROVE  QuietInv'
  <2>1. UNCHANGED <<idem, gone>> BY <1>9, ClientDoes
  <2>2. CASE reqs' = reqs BY <1>7, <2>1, <2>2
  <2>3. CASE \E body \in Bodies, key \in Keys : reqs' = Append(reqs, Fresh(body, key))
    <3>1. PICK body \in Bodies, key \in Keys : reqs' = Append(reqs, Fresh(body, key))
      BY <2>3
    <3>0. PICK n : n = Len(reqs) + 1 OBVIOUS
    <3>2. /\ DOMAIN reqs' = DOMAIN reqs \cup {n} /\ n \notin DOMAIN reqs
          /\ \A q \in DOMAIN reqs : reqs'[q] = reqs[q]
          /\ reqs'[n] = Fresh(body, key)
      BY <3>0, <3>1 DEF GapuraTyped
    <3>3. /\ Running' = Running \cup {n}
          /\ \A q \in Running : q \in DOMAIN reqs
      BY <3>2 DEF Running, Fresh
    <3>4. ASSUME NEW q \in DOMAIN reqs, Alone(q)' PROVE QuietOk(q)'
      <4>1. Alone(q) /\ QuietOk(q) /\ Earlier(q)' = Earlier(q)
        BY <2>1, <3>4, AloneStays DEF QuietInv
      <4>2. \A e \in Earlier(q) : e \in DOMAIN reqs BY DEF Earlier, AnswerInv, Acked
      <4>3. \A s \in Running' : reqs'[s].key = reqs[q].key => reqs'[s].pc = "key"
        BY <3>2, <3>3, <4>1 DEF QuietOk, Fresh
      <4>. QED BY <2>1, <3>2, <4>1, <4>2, <4>3 DEF QuietOk
    <3>5. ASSUME Alone(n)' PROVE QuietOk(n)'
      <4>1. /\ reqs'[n].key = key /\ reqs'[n].pc = "key" /\ reqs'[n].answer = "none"
            /\ reqs'[n].before = Acked /\ reqs'[n].during = Running
        BY <3>2 DEF Fresh
      <4>2. \A q \in Acked : q \in DOMAIN reqs BY DEF Acked
      <4>3. Earlier(n)' = {q \in Acked \ gone.keys : reqs[q].key = key}
        BY <2>1, <3>2, <4>1, <4>2 DEF Earlier
      <4>4. PICK e \in Acked \ gone.keys : reqs[e].key = key
        BY <3>5, <4>3 DEF Alone
      <4>5. idem[key].id # 0 BY <4>4 DEF KeyInv
      <4>6. PICK f \in Acked \ gone.keys : reqs[f].key = key /\ reqs[f].body = idem[key].body
        BY <4>5 DEF KeyInv
      <4>7. \A q \in Running : reqs[q].key # key
        BY <3>2, <3>3, <3>5, <4>1 DEF Alone
      <4>8. \A s \in Running' : reqs'[s].key = key => reqs'[s].pc = "key"
        BY <3>2, <3>3, <4>1, <4>7
      <4>. QED BY <2>1, <3>2, <4>1, <4>2, <4>3, <4>5, <4>6, <4>8 DEF QuietOk
    <3>. QED BY <3>2, <3>4, <3>5 DEF QuietInv
  <2>. QED BY <1>9, <2>2, <2>3, ClientDoes
<1>10. CASE Restart
  <2>1. /\ DOMAIN reqs' = DOMAIN reqs
        /\ \A r \in DOMAIN reqs : /\ reqs'[r].pc = "done" /\ reqs'[r].body = reqs[r].body
                                  /\ reqs'[r].key = reqs[r].key /\ reqs'[r].answer = reqs[r].answer
    BY <1>10, RestartDoes, Fields DEF AnchorRequests
  <2>2. CASE UNCHANGED <<idem, gone>>
    <3>1. ASSUME NEW q \in DOMAIN reqs, Alone(q)' PROVE QuietOk(q)'
      <4>1. Alone(q) /\ QuietOk(q) /\ Earlier(q)' = Earlier(q)
        BY <2>2, <3>1, AloneStays DEF QuietInv
      <4>2. \A e \in Earlier(q) : e \in DOMAIN reqs BY DEF Earlier, AnswerInv, Acked
      <4>. QED BY <2>1, <2>2, <4>1, <4>2 DEF QuietOk, Running
    <3>. QED BY <2>1, <3>1 DEF QuietInv
  <2>3. CASE gone' = [rows |-> DOMAIN reqs, keys |-> DOMAIN reqs]
    <3>1. \A q \in DOMAIN reqs : reqs'[q].before \subseteq DOMAIN reqs
      BY DEF LogGrows, AnswerInv, Acked
    <3>. QED BY <2>1, <2>3, <3>1 DEF QuietInv, Alone, Earlier
  <2>. QED BY <1>10, <2>2, <2>3, RestartDoes
<1>11. ASSUME NEW k \in Keys, KeyExpires(k) PROVE QuietInv'
  <2>1. /\ reqs' = reqs /\ idem' = [idem EXCEPT ![k] = NoEntry]
        /\ gone' = [gone EXCEPT !.keys = @ \cup {r \in Acked : reqs[r].key = k}]
    BY <1>11 DEF KeyExpires
  <2>2. gone'.keys = gone.keys \cup {r \in Acked : reqs[r].key = k}
    BY <2>1 DEF GapuraTyped
  <2>3. ASSUME NEW q \in DOMAIN reqs, Alone(q)' PROVE QuietOk(q)'
    <3>1. Alone(q) /\ QuietOk(q) BY <2>3, AloneStays DEF QuietInv
    <3>2. reqs[q].key # k
      BY <2>1, <2>2, <2>3 DEF Alone, Earlier, AnswerInv
    <3>3. idem'[reqs[q].key] = idem[reqs[q].key]
      BY <2>1, <3>2, Fields DEF GapuraTyped
    <3>4. Earlier(q)' = Earlier(q)
      BY <2>1, <2>2, <3>2 DEF Earlier
    <3>. QED BY <2>1, <3>1, <3>3, <3>4 DEF QuietOk, Running
  <2>. QED BY <2>1, <2>3 DEF QuietInv
<1>12. CASE UNCHANGED gapuraVars
  BY <1>7, <1>12 DEF gapuraVars
<1>. QED
  BY <1>1, <1>2, <1>3, <1>4, <1>5, <1>6, <1>8, <1>9, <1>10, <1>11, <1>12 DEF GapuraNext

-----------------------------------------------------------------------------
(***************************************************************************)
(* The lookup of the digest.                                               *)
(***************************************************************************)

LEMMA SubmitStep ==
  ASSUME GapuraTyped, AnswerInv, AnchoredInv, SubmitInv, LogGrows, [GapuraNext]_gapuraVars
  PROVE  SubmitInv'
<1>0. ASSUME NEW q \in DOMAIN reqs, reqs[q].pc = "submit"
      PROVE  \A e \in reqs'[q].before \ gone'.rows : Digest(e)' # Digest(q)'
  <2>1. \A e \in reqs'[q].before \ gone'.rows :
          e \in reqs[q].before \ gone.rows /\ Digest(e)' = Digest(e) /\ Digest(q)' = Digest(q)
    BY DEF LogGrows, AnswerInv, Acked, Digest
  <2>. QED BY <1>0, <2>1 DEF SubmitInv
<1>1. ASSUME NEW r, NEW p, NEW t, NEW i, NEW a, Moves(r, p, t, i, a), p # "submit"
      PROVE  SubmitInv'
  <2>1. reqs'[r].pc = p /\ DOMAIN reqs' = DOMAIN reqs
    BY <1>1, Fields DEF Moves, AnchorRequests
  <2>. QED BY <1>0, <1>1, <2>1 DEF SubmitInv, Moves
<1>2. ASSUME NEW r, LookupKey(r) \/ Submit(r) \/ AwaitReceipt(r) \/ PutAnchor(r) \/ PutKey(r)
      PROVE  SubmitInv'
  <2>1. CASE LookupKey(r) BY <1>1, <2>1, LookupKeyDoes
  <2>2. CASE Submit(r) BY <1>1, <2>2, SubmitDoes
  <2>3. CASE AwaitReceipt(r) BY <1>1, <2>3, AwaitReceiptDoes
  <2>4. CASE PutAnchor(r) BY <1>1, <2>4, PutAnchorDoes
  <2>5. CASE PutKey(r) BY <1>1, <2>5, PutKeyDoes
  <2>. QED BY <1>2, <2>1, <2>2, <2>3, <2>4, <2>5
<1>3. ASSUME NEW r, LookupDigest(r) PROVE SubmitInv'
  <2>1. CASE Moves(r, "putKey", reqs[r].tx, byDigest[Digest(r)], reqs[r].answer)
    BY <1>1, <2>1
  <2>2. CASE ~Anchored(Digest(r)) /\ Moves(r, "submit", reqs[r].tx, reqs[r].id, reqs[r].answer)
    <3>1. r \in DOMAIN reqs /\ DOMAIN reqs' = DOMAIN reqs BY <2>2 DEF Moves
    <3>2. \A e \in reqs[r].before \ gone.rows : Anchored(Digest(e))
      BY <3>1 DEF AnchoredInv, HandlerInv, AckOk, AnswerInv
    <3>3. \A e \in reqs[r].before \ gone.rows : Digest(e) # Digest(r)
      BY <2>2, <3>2
    <3>4. \A e \in reqs'[r].before \ gone'.rows :
            e \in reqs[r].before \ gone.rows /\ Digest(e)' = Digest(e) /\ Digest(r)' = Digest(r)
      BY <3>1 DEF LogGrows, AnswerInv, Acked, Digest
    <3>5. \A e \in reqs'[r].before \ gone'.rows : Digest(e)' # Digest(r)'
      BY <3>3, <3>4
    <3>. QED BY <1>0, <2>2, <3>1, <3>5 DEF SubmitInv, Moves
  <2>. QED BY <1>3, <2>1, <2>2, LookupDigestDoes
<1>4. ASSUME reqs' = reqs PROVE SubmitInv'
  BY <1>0, <1>4 DEF SubmitInv
<1>5. ASSUME NEW c \in Clients, Create(c) \/ Receive(c) \/ LoseConnection(c)
      PROVE  SubmitInv'
  <2>1. CASE \E body \in Bodies, key \in Keys : reqs' = Append(reqs, Fresh(body, key))
    <3>1. PICK body \in Bodies, key \in Keys : reqs' = Append(reqs, Fresh(body, key))
      BY <2>1
    <3>2. /\ DOMAIN reqs' = DOMAIN reqs \cup {Len(reqs) + 1}
          /\ \A q \in DOMAIN reqs : reqs'[q] = reqs[q]
          /\ reqs'[Len(reqs) + 1].pc = "key"
      BY <3>1 DEF GapuraTyped, Fresh
    <3>. QED BY <1>0, <3>2 DEF SubmitInv
  <2>. QED BY <1>4, <1>5, <2>1, ClientDoes
<1>6. CASE Restart
  <2>1. DOMAIN reqs' = DOMAIN reqs /\ \A r \in DOMAIN reqs : reqs'[r].pc = "done"
    BY <1>6, RestartDoes, Fields DEF AnchorRequests
  <2>. QED BY <2>1 DEF SubmitInv
<1>7. ASSUME NEW t, Mine(t) PROVE SubmitInv'
  BY <1>4, <1>7, MineDoes
<1>8. ASSUME NEW k \in Keys, KeyExpires(k) PROVE SubmitInv'
  BY <1>4, <1>8 DEF KeyExpires
<1>9. CASE UNCHANGED gapuraVars
  BY <1>4, <1>9 DEF gapuraVars
<1>. QED BY <1>2, <1>3, <1>5, <1>6, <1>7, <1>8, <1>9 DEF GapuraNext

-----------------------------------------------------------------------------
LEMMA IInvInit == GapuraInit => GapuraInv
<1> SUFFICES ASSUME GapuraInit PROVE GapuraInv
  OBVIOUS
<1>1. GapuraTyped BY DEF GapuraInit, GapuraTyped, NoEntry, Idle
<1>. QED
  BY <1>1 DEF GapuraInit, GapuraInv, AnswerInv, AnchoredInv, RowInv, EntryInv, HandlerInv, KeyInv,
              QuietInv, SubmitInv, Anchored, Acked, NoEntry

LEMMA IInvStep == GapuraInv /\ [GapuraNext]_gapuraVars => GapuraInv'
<1> SUFFICES ASSUME GapuraInv, [GapuraNext]_gapuraVars PROVE GapuraInv'
  OBVIOUS
<1>1. GapuraTyped' /\ AnswerInv' /\ LogGrows BY TypedStep DEF GapuraInv
<1>2. AnchoredInv' BY <1>1, AnchoredStep DEF GapuraInv
<1>3. KeyInv' /\ QuietInv' BY <1>1, KeyStep, QuietStep DEF GapuraInv
<1>4. SubmitInv' BY <1>1, SubmitStep DEF GapuraInv
<1>. QED BY <1>1, <1>2, <1>3, <1>4 DEF GapuraInv

LEMMA AckedIsRightHolds == GapuraInv => AckedIsRight
<1> SUFFICES ASSUME GapuraInv PROVE AckedIsRight
  OBVIOUS
<1>1. AckedIsAnchored
  BY DEF GapuraInv, AnchoredInv, HandlerInv, AckOk, RecordedAs, AckedIsAnchored
<1>2. ASSUME NEW r \in Acked PROVE
        LET earlier == {q \in reqs[r].before \ gone.keys : reqs[q].key = reqs[r].key}
        IN \/ earlier = {}
           \/ \E q \in reqs[r].during : reqs[q].key = reqs[r].key
           \/ \E q \in earlier : reqs[q].body = reqs[r].body
  BY DEF GapuraInv, QuietInv, QuietOk, Alone, Earlier, Acked
<1>. QED BY <1>1, <1>2 DEF AckedIsRight, KeyKeepsBody

\* AnswersAreRight: a 200 or 201 of POST /anchors names a mined recordAnchor of the
\* request's own digest, which GET ?digest= finds unless the memory store was lost,
\* and a key acknowledged before is not acknowledged for another body, whatever
\* retries, losses and restarts come between.
THEOREM AnswersAreRight == GapuraSpec => []AckedIsRight
BY IInvInit, IInvStep, AckedIsRightHolds, PTL DEF GapuraSpec

\* NotRecordedAgain: a request sent after its digest was acknowledged sends no
\* recordAnchor (createAnchor's getAnchorByDigest), unless the row was lost.
THEOREM NotRecordedAgain == GapuraSpec => AckedNotRecordedAgain
<1>. DEFINE Again == \A r \in DOMAIN reqs :
               (reqs[r].pc = "submit" /\ txs' # txs /\ reqs'[r].pc # "submit")
                 => \A q \in reqs[r].before \ gone.rows : Digest(q) # Digest(r)
<1>1. GapuraInv /\ [GapuraNext]_gapuraVars => [Again]_gapuraVars
  BY DEF GapuraInv, SubmitInv
<1>. QED
  BY <1>1, IInvInit, IInvStep, PTL DEF GapuraSpec, AckedNotRecordedAgain
=============================================================================
