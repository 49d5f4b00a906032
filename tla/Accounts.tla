------------------------------ MODULE Accounts ------------------------------
(* Who may administer the machine: accounts and roles, sessions, the second *)
(* factor and the lock after failed logins (auth, api/handlers/users.go and *)
(* roles.go, storage/repo_rbac.go). A request is admitted, reads what its   *)
(* guards need and writes; others get in between, and a restart at any time.*)
EXTENDS Naturals, FiniteSets

CONSTANTS
    AccountIds,         \* ids of accounts, in use or not yet
    DefaultAdmin,       \* the account of the installation
    AdminRole,          \* the built-in role that is kept in step with the catalogue
    OtherRoles,         \* other roles
    AccountRequests,    \* requests under way at the same time, numbered
    Codes,              \* secrets of the second factor
    MaxAttempts,        \* failed logins before the lock
    MaxAccountEvents    \* bound on requests, logins, failures and restarts

ASSUME AccountAssumption ==
    /\ AccountRequests \subseteq Nat /\ DefaultAdmin \in AccountIds /\ AdminRole \notin OtherRoles
    /\ MaxAttempts \in Nat \ {0} /\ MaxAccountEvents \in Nat

VARIABLES
    account,        \* users and user_roles
    roleBook,       \* roles and role_permissions
    factor,         \* the vault: the active secret of each account and the draft one
    attempts,       \* Service.attempts
    tokens,         \* tokens that were handed out
    login,          \* a login between reading its row and its answer
    asked,          \* the requests under way
    shrunk,         \* history: an edit took users.manage from a role
    crossed,        \* history: a change was written on guards another had outdated
    redrafted,      \* history: a draft was written, or an older one put in force, on an outdated look
    accountEvents

accountVars == <<account, roleBook, factor, attempts, tokens, login, asked, shrunk, crossed,
                 redrafted, accountEvents>>

RoleIds == OtherRoles \cup {AdminRole}
Permissions == {"users.manage", "roles.manage"}
NoRoleHere == {"deleted"}
KeptRoles == {"kept"}
NoCode == "no code"
InUse == CHOOSE code \in Codes : TRUE
Person(roles) == [is |-> "here", roles |-> roles, version |-> 0, hash |-> 0]
NotYet == [is |-> "unused", roles |-> {}, version |-> 0, hash |-> 0]
Here(u) == account[u].is = "here"
RoleExists(r) == roleBook[r] # NoRoleHere

GrantsIn(book, roles) == UNION {book[r] : r \in {s \in roles : book[s] # NoRoleHere}}
GetUserPermissions(u) == GrantsIn(roleBook, account[u].roles)
Manages(u) == Here(u) /\ "users.manage" \in GetUserPermissions(u)

NoAsk == [kind |-> "none"]
NotAsked == [at |-> "idle", actor |-> DefaultAdmin, ask |-> NoAsk, seen |-> NoCode]
NoLogin == [at |-> "idle", user |-> DefaultAdmin, version |-> 0, hash |-> 0]
FreshAttempts == [count |-> 0, locked |-> FALSE]

AccountInit ==
    /\ account \in {[u \in AccountIds |-> IF u = DefaultAdmin THEN Person({AdminRole})
                                          ELSE IF u \in used THEN Person(OtherRoles) ELSE NotYet]
                    : used \in {{}, AccountIds}}
    /\ roleBook = [r \in RoleIds |-> IF r = AdminRole THEN Permissions ELSE {"users.manage"}]
    /\ factor = [u \in AccountIds |-> [active |-> IF Here(u) /\ u # DefaultAdmin THEN InUse ELSE NoCode,
                                       draft |-> NoCode]]
    /\ attempts = [u \in AccountIds |-> FreshAttempts]
    /\ tokens = {[user |-> u, version |-> 0, hash |-> 0] : u \in {v \in AccountIds : Here(v)}}
    /\ login = NoLogin
    /\ asked = [q \in AccountRequests |-> NotAsked]
    /\ shrunk = FALSE /\ crossed = FALSE /\ redrafted = FALSE
    /\ accountEvents = 0

AccountEvent == accountEvents < MaxAccountEvents /\ accountEvents' = accountEvents + 1

-----------------------------------------------------------------------------
\* Login reads the lock and the row, compares for a while, and answers.
LoginReads(u) ==
    /\ login.at = "idle" /\ Here(u) /\ ~attempts[u].locked
    /\ AccountEvent
    /\ login' = [at |-> "compare", user |-> u, version |-> account[u].version, hash |-> account[u].hash]
    /\ UNCHANGED <<account, roleBook, factor, attempts, tokens, asked, shrunk, crossed, redrafted>>

\* Mutant: one wrong password more than the limit.
RecordFailureLate(a) ==
    IF a.count + 1 > MaxAttempts THEN [count |-> 0, locked |-> TRUE] ELSE [a EXCEPT !.count = @ + 1]

RecordFailure(a) ==
    IF a.count + 1 >= MaxAttempts THEN [count |-> 0, locked |-> TRUE]
    ELSE [a EXCEPT !.count = @ + 1]

\* A wrong password or code counts; a code that is missing does not.
LoginRefused ==
    /\ login.at = "compare"
    /\ attempts' \in {[attempts EXCEPT ![login.user] = RecordFailure(@)],
                      IF factor[login.user].active # NoCode THEN attempts
                      ELSE [attempts EXCEPT ![login.user] = RecordFailure(@)]}
    /\ login' = NoLogin
    /\ UNCHANGED <<account, roleBook, factor, tokens, asked, shrunk, crossed, redrafted, accountEvents>>

LoginAccepted ==
    /\ login.at = "compare"
    /\ attempts' = [attempts EXCEPT ![login.user] = FreshAttempts]
    /\ tokens' = tokens \cup {[user |-> login.user, version |-> login.version, hash |-> login.hash]}
    /\ login' = NoLogin
    /\ UNCHANGED <<account, roleBook, factor, asked, shrunk, crossed, redrafted, accountEvents>>

LockExpires(u) ==
    /\ attempts[u].locked
    /\ attempts' = [attempts EXCEPT ![u].locked = FALSE]
    /\ UNCHANGED <<account, roleBook, factor, tokens, login, asked, shrunk, crossed, redrafted,
                   accountEvents>>

-----------------------------------------------------------------------------
\* Requests worth telling apart; an update may keep the roles, or the password.
Used == {u \in AccountIds : Here(u)}
Updates == [kind : {"update"}, target : Used, roles : {KeptRoles}, reset : {TRUE}]
           \cup [kind : {"update"}, target : Used, roles : SUBSET RoleIds, reset : BOOLEAN]
Creations == [kind : {"create"}, target : {u \in AccountIds : account[u].is = "unused"}, roles : SUBSET RoleIds]
Deletions == [kind : {"delete"}, target : Used]
RoleEdits == [kind : {"editRole"}, role : RoleIds, grants : {{}, {"users.manage"}, Permissions}]
RoleDrops == [kind : {"dropRole"}, role : OtherRoles]
OwnChanges == [kind : {"ownPassword", "setup", "activate", "disable"}]

Needed(ask) ==
    CASE ask.kind \in {"update", "create", "delete"} -> {"users.manage"}
      [] ask.kind \in {"editRole", "dropRole"} -> {"roles.manage"}
      [] OTHER -> {}

\* Middleware: the account is there and has the password the token was given for.
Accepted(t) == Here(t.user) /\ account[t.user].version = t.version

\* Middleware, Require: the token and the permissions are those of this moment.
Admitted(q) ==
    /\ asked[q].at = "idle" /\ \A p \in AccountRequests : p < q => asked[p].at # "idle"
    /\ AccountEvent
    /\ \E t \in tokens :
         /\ Accepted(t)
         /\ \E ask \in Updates \cup Creations \cup Deletions \cup RoleEdits \cup RoleDrops \cup OwnChanges :
              /\ Needed(ask) \subseteq GetUserPermissions(t.user)
              /\ asked' = [asked EXCEPT ![q] = [NotAsked EXCEPT !.at = "guard", !.actor = t.user, !.ask = ask]]
    /\ UNCHANGED <<account, roleBook, factor, attempts, tokens, login, shrunk, crossed, redrafted>>

Goes(q, at) == asked' = [asked EXCEPT ![q].at = at]
RequestEnds(q) == asked' = [asked EXCEPT ![q] = NotAsked]
Keeps == UNCHANGED <<attempts, tokens, login>>

\* Mutant: the account under change keeps its old roles in the count.
SomeoneStaysUnchanged(id, roles) ==
    \E u \in AccountIds : Here(u) /\ "users.manage" \in GetUserPermissions(u)

\* guardLastAdmin: with this change somebody still holds users.manage.
SomeoneStays(id, roles) ==
    \E u \in AccountIds :
      Here(u) /\ "users.manage" \in GrantsIn(roleBook, IF u = id THEN roles ELSE account[u].roles)

MayGrant(actor) == "roles.manage" \in GetUserPermissions(actor)
RolesExist(roles) == \A r \in roles : RoleExists(r)

\* permissionsBeyond: an actor resets its own password, or of nobody above it.
MayReset(actor, id) == actor = id \/ GetUserPermissions(id) \subseteq GetUserPermissions(actor)

\* What the guards of a request say, where it goes when they let it pass.
Allowed(actor, ask) ==
    CASE ask.kind = "update" ->
           /\ Here(ask.target)
           /\ ask.roles # KeptRoles => /\ MayGrant(actor) /\ RolesExist(ask.roles)
                                       /\ SomeoneStays(ask.target, ask.roles)
      [] ask.kind = "create" -> account[ask.target].is = "unused" /\ RolesExist(ask.roles)
                                /\ (ask.roles # {} => MayGrant(actor))
      [] ask.kind = "delete" -> Here(ask.target) /\ actor # ask.target /\ SomeoneStays(ask.target, {})
      [] ask.kind = "editRole" -> RoleExists(ask.role)
      [] ask.kind = "dropRole" -> RoleExists(ask.role) /\ ask.role # AdminRole
                                  /\ \A u \in AccountIds : Here(u) => ask.role \notin account[u].roles
      [] ask.kind = "ownPassword" -> Here(actor)
      [] ask.kind = "setup" -> factor[actor].active = NoCode
      [] ask.kind = "activate" -> factor[actor].draft # NoCode
      [] ask.kind = "disable" -> factor[actor].active # NoCode

FirstWrite(ask) == IF ask.kind = "update" /\ ask.roles = KeptRoles THEN "mayReset" ELSE ask.kind

Seen(actor, ask) ==
    CASE ask.kind = "activate" -> factor[actor].draft
      [] ask.kind \in {"setup", "disable"} -> factor[actor].active
      [] OTHER -> NoCode

Guards(q) ==
    LET actor == asked[q].actor
        ask == asked[q].ask
    IN /\ asked[q].at = "guard"
       /\ \/ /\ Allowed(actor, ask)
             /\ asked' = [asked EXCEPT ![q].at = FirstWrite(ask), ![q].seen = Seen(actor, ask)]
          \/ ~Allowed(actor, ask) /\ RequestEnds(q)
       /\ UNCHANGED <<account, roleBook, factor, shrunk, crossed, redrafted, accountEvents>> /\ Keeps

\* A write another change has overtaken: its guards would not let it pass now.
Outdated(q) == crossed' = (crossed \/ ~Allowed(asked[q].actor, asked[q].ask))

\* SetUserRoles, DeleteUser, CreateUser: one transaction, refused by its foreign keys.
WritesRoles(q) ==
    LET ask == asked[q].ask IN
    /\ asked[q].at = "update"
    /\ \/ /\ RolesExist(ask.roles) /\ (ask.roles = {} \/ Here(ask.target))
          /\ account' = IF Here(ask.target) THEN [account EXCEPT ![ask.target].roles = ask.roles] ELSE account
          /\ Outdated(q)
          /\ IF ask.reset THEN Goes(q, "mayReset") ELSE RequestEnds(q)
       \/ /\ ~RolesExist(ask.roles) \/ (ask.roles # {} /\ ~Here(ask.target))
          /\ RequestEnds(q)
          /\ UNCHANGED <<account, crossed>>
    /\ UNCHANGED <<roleBook, factor, shrunk, redrafted, accountEvents>> /\ Keeps

\* Update: may this actor reset that password; then the new hash is computed.
LooksBeforeReset(q) ==
    /\ asked[q].at = "mayReset"
    /\ IF MayReset(asked[q].actor, asked[q].ask.target) THEN Goes(q, "reset") ELSE RequestEnds(q)
    /\ UNCHANGED <<account, roleBook, factor, shrunk, crossed, redrafted, accountEvents>> /\ Keeps

\* UpdateUserPassword: the hash and the version change in one statement.
Rehashed(u) == [account EXCEPT ![u].hash = @ + 1, ![u].version = @ + 1]

WritesPassword(q) ==
    LET id == IF asked[q].at = "reset" THEN asked[q].ask.target ELSE asked[q].actor IN
    /\ asked[q].at \in {"reset", "ownPassword"}
    /\ account' = IF Here(id) THEN Rehashed(id) ELSE account
    /\ RequestEnds(q)
    /\ UNCHANGED <<roleBook, factor, shrunk, crossed, redrafted, accountEvents>> /\ Keeps

WritesAccount(q) ==
    LET ask == asked[q].ask IN
    /\ \/ /\ asked[q].at = "create" /\ RolesExist(ask.roles) /\ account[ask.target].is = "unused"
          /\ account' = [account EXCEPT ![ask.target] = Person(ask.roles)]
          /\ UNCHANGED crossed
       \/ /\ asked[q].at = "create" /\ ~(RolesExist(ask.roles) /\ account[ask.target].is = "unused")
          /\ UNCHANGED <<account, crossed>>
       \/ /\ asked[q].at = "delete"
          /\ account' = [account EXCEPT ![ask.target].is = "gone", ![ask.target].roles = {}]
          /\ Outdated(q)
    /\ RequestEnds(q)
    /\ UNCHANGED <<roleBook, factor, shrunk, redrafted, accountEvents>> /\ Keeps

\* UpdateRole asks nobody who would be left; DeleteRole takes the role from whoever has it.
WritesRole(q) ==
    LET ask == asked[q].ask IN
    /\ \/ /\ asked[q].at = "editRole" /\ RoleExists(ask.role)
          /\ roleBook' = [roleBook EXCEPT ![ask.role] = ask.grants]
          /\ shrunk' = (shrunk \/ "users.manage" \in roleBook[ask.role] \ ask.grants)
          /\ UNCHANGED <<account, crossed>>
       \/ /\ asked[q].at = "editRole" /\ ~RoleExists(ask.role)
          /\ UNCHANGED <<roleBook, account, shrunk, crossed>>
       \/ /\ asked[q].at = "dropRole"
          /\ roleBook' = [roleBook EXCEPT ![ask.role] = NoRoleHere]
          /\ account' = [u \in AccountIds |-> [account[u] EXCEPT !.roles = @ \ {ask.role}]]
          /\ Outdated(q)
          /\ UNCHANGED shrunk
    /\ RequestEnds(q)
    /\ UNCHANGED <<factor, redrafted, accountEvents>> /\ Keeps

-----------------------------------------------------------------------------
\* Mutant: the setup puts its new secret in force at once.
DraftsInForce(u, code) == [factor EXCEPT ![u].active = code]

\* BeginTwoFASetup: the draft alone is written.
Drafted(u, code) == [factor EXCEPT ![u].draft = code]

\* BeginTwoFASetup writes on a look at the active secret.
WritesDraft(q) ==
    LET u == asked[q].actor IN
    /\ asked[q].at = "setup"
    /\ \E code \in Codes \ {factor[u].active, factor[u].draft} : factor' = Drafted(u, code)
    /\ redrafted' = (redrafted \/ factor[u].active # asked[q].seen)
    /\ RequestEnds(q)
    /\ UNCHANGED <<account, roleBook, shrunk, crossed, accountEvents>> /\ Keeps

\* ActivateTwoFA, DisableTwoFA: the active secret, then the draft goes.  The
\* draft an activation read may have been replaced since.
WritesFactor(q) ==
    LET u == asked[q].actor IN
    /\ asked[q].at \in {"activate", "disable"}
    /\ factor' = [factor EXCEPT ![u].active = IF asked[q].at = "activate" THEN asked[q].seen ELSE NoCode]
    /\ redrafted' = (redrafted \/ (asked[q].at = "activate" /\ factor[u].draft # asked[q].seen))
    /\ Goes(q, "clear")
    /\ UNCHANGED <<account, roleBook, shrunk, crossed, accountEvents>> /\ Keeps

ClearsDraft(q) ==
    LET u == asked[q].actor IN
    /\ asked[q].at = "clear"
    /\ \/ factor' = [factor EXCEPT ![u].draft = NoCode] /\ UNCHANGED accountEvents
       \/ AccountEvent /\ UNCHANGED factor
    /\ RequestEnds(q)
    /\ UNCHANGED <<account, roleBook, shrunk, crossed, redrafted>> /\ Keeps

\* Any write may fail; what the request wrote before stays. (A read that fails
\* ends it before it wrote anything, as a guard that refuses does.)
RequestFails(q) ==
    /\ asked[q].at \notin {"idle", "guard", "clear"}
    /\ AccountEvent
    /\ RequestEnds(q)
    /\ UNCHANGED <<account, roleBook, factor, shrunk, crossed, redrafted>> /\ Keeps

\* SeedInitialAdmin, EnsureDefaultRoles: the first account if there is none,
\* the built-in role whole again, and the default account never without a role.
AccountRestart ==
    LET seeded == IF \E u \in AccountIds : Here(u) THEN account
                  ELSE [account EXCEPT ![DefaultAdmin] = [Person({}) EXCEPT !.hash = MaxAccountEvents + 1]]
    IN /\ AccountEvent
       /\ roleBook' = [roleBook EXCEPT ![AdminRole] = Permissions]
       /\ account' = IF seeded[DefaultAdmin].is = "here" /\ seeded[DefaultAdmin].roles = {}
                     THEN [seeded EXCEPT ![DefaultAdmin].roles = {AdminRole}] ELSE seeded
       /\ attempts' = [u \in AccountIds |-> FreshAttempts]
       /\ login' = NoLogin
       /\ asked' = [q \in AccountRequests |-> NotAsked]
       /\ UNCHANGED <<factor, tokens, shrunk, crossed, redrafted>>

RequestStep(q) ==
    \/ Guards(q) \/ WritesRoles(q) \/ LooksBeforeReset(q) \/ WritesPassword(q) \/ WritesAccount(q)
    \/ WritesRole(q) \/ WritesDraft(q) \/ WritesFactor(q) \/ ClearsDraft(q)

AccountNext ==
    \/ \E q \in AccountRequests : Admitted(q) \/ RequestStep(q) \/ RequestFails(q)
    \/ \E u \in AccountIds : LoginReads(u) \/ LockExpires(u)
    \/ LoginRefused \/ LoginAccepted \/ AccountRestart

AccountSpec == AccountInit /\ [][AccountNext]_accountVars

-----------------------------------------------------------------------------
\* Type invariant of accounts, roles and sessions.
AccountTypeOK ==
    /\ \A u \in AccountIds :
         /\ account[u].is \in {"unused", "here", "gone"} /\ account[u].roles \subseteq RoleIds
         /\ account[u].version \in 0..MaxAccountEvents /\ account[u].hash \in Nat
         /\ factor[u].active \in Codes \cup {NoCode} /\ factor[u].draft \in Codes \cup {NoCode}
         /\ attempts[u].count \in 0..(MaxAttempts - 1) /\ attempts[u].locked \in BOOLEAN
    /\ \A r \in RoleIds : roleBook[r] \subseteq Permissions \/ roleBook[r] = NoRoleHere
    /\ \A t \in tokens : t.user \in AccountIds /\ t.version \in 0..MaxAccountEvents
    /\ login.at \in {"idle", "compare"}
    /\ \A q \in AccountRequests :
         asked[q].at \in {"idle", "guard", "update", "mayReset", "reset", "create", "delete", "editRole",
                          "dropRole", "ownPassword", "setup", "activate", "disable", "clear"}
    /\ accountEvents \in 0..MaxAccountEvents

\* guardLastAdmin: somebody can always administer the accounts, unless an edit
\* took users.manage from a role or two changes were judged side by side.
SomebodyManages == ~shrunk /\ ~crossed => \E u \in AccountIds : Manages(u)

\* UpdateUserPassword: whatever crosses it, a login that read the old row
\* included, no token opens an account whose password is another than the one
\* it was given for.
TokensAreOfThePassword ==
    ~crossed => \A t \in tokens : Accepted(t) => t.hash = account[t.user].hash

\* "Trocar de aparelho passa por desativar primeiro": an active second factor
\* is not replaced by another, unless a setup looked before it was activated or
\* an activation puts a draft in force that another setup has replaced.
FactorIsNotReplaced ==
    \A u \in AccountIds :
      factor[u].active # NoCode => factor'[u].active \in {NoCode, factor[u].active} \/ redrafted'

=============================================================================
