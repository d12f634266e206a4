---------------- MODULE UserAccounts ----------------
(* Server users, their passwords and their roles: meta/user.rs and
   meta/role_grant.rs of peryx-storage, users.rs and authz.rs of
   peryx-driver, user.rs, password.rs and roles.rs of peryx-identity.

   Every write is one transaction.  A login is not: it reads the account,
   reads the verifier, waits for a permit to derive the password, and,
   when the verifier was derived under another policy, waits again to
   store a new one. *)
EXTENDS Integers, Sequences, FiniteSets

CONSTANTS
    DisplayNames,   \* the trimmed, non-empty names operators and clients give
    Canonical,      \* display name -> the lower-case, composed lookup key
    Passwords,      \* plaintexts
    Costs,          \* Argon2id cost parameters
    Repositories,   \* what a repository grant names
    Logins,         \* calls of authenticate in progress at the same time
    Operators,      \* calls of set_password in progress at the same time
    MaxPasswordChecks,  \* DEFAULT_PASSWORD_CHECKS
    MaxUsers,       \* bound on the accounts created
    MaxRevision,    \* bound on the changes of an account
    MaxSteps        \* bound on password and role changes and restarts

ASSUME UserAccountsAssumption ==
    /\ Canonical \in [DisplayNames -> DisplayNames]
    /\ IsFiniteSet(Logins) /\ IsFiniteSet(Operators)
    /\ Costs # {} /\ MaxPasswordChecks \in Nat \ {0}
    /\ {MaxUsers, MaxRevision, MaxSteps} \subseteq Nat

VARIABLES
    users,      \* USER: id -> [name, state, revision]
    names,      \* USER_NAME: canonical name -> id
    userEvents, \* USER_EVENT: id -> changes in key order
    verifiers,  \* USER_VERIFIER: id -> [password, cost]
    roleGrants, \* ROLE_GRANT
    policy,     \* the PasswordPolicy of this process
    login,      \* per authenticate: [pc, name, password, user, verifier]
    enroll,     \* per set_password of an operator: [pc, user, password]
    intended,   \* history: id -> the password its operators last asked for
    userSteps   \* bounded steps so far

userVars == <<users, names, userEvents, verifiers, roleGrants, policy, login, enroll, intended, userSteps>>

NoPassword == "none"
Ids == 1..MaxUsers
LoggedOut == [pc |-> "idle"]

Roles == {"administrator", "repository_publisher", "repository_reader", "operator"}
Server == <<"server">>
GrantScopes == {Server} \cup {<<"repository", r>> : r \in Repositories}

UserInit ==
    /\ users = <<>> /\ names = <<>> /\ userEvents = <<>> /\ verifiers = <<>> /\ roleGrants = {}
    /\ policy = CHOOSE c \in Costs : TRUE
    /\ login = [l \in Logins |-> LoggedOut]
    /\ enroll = [o \in Operators |-> LoggedOut]
    /\ intended = [i \in Ids |-> NoPassword]
    /\ userSteps = 0

With(f, k, v) == [x \in DOMAIN f \cup {k} |-> IF x = k THEN v ELSE f[x]]
Without(f, k) == [x \in DOMAIN f \ {k} |-> f[x]]

--------------------------------
(* The account store                                                       *)

\* create_user: a canonical name in use is a conflict and nothing is written.
CreateUser(display) ==
    LET id == Len(users) + 1
    IN  /\ id <= MaxUsers
        /\ Canonical[display] \notin DOMAIN names
        /\ users' = Append(users, [name |-> display, state |-> "active", revision |-> 1])
        /\ names' = With(names, Canonical[display], id)
        /\ userEvents' = Append(userEvents, <<[kind |-> "created", display |-> display]>>)
        /\ UNCHANGED <<verifiers, roleGrants, policy, login, enroll, intended, userSteps>>

Change(id, user, change) ==
    /\ users' = [users EXCEPT ![id] = user]
    /\ userEvents' = [userEvents EXCEPT ![id] = Append(@, change)]

RenameKeepingName(id, display) ==
    LET user == users[id]
    IN  /\ user.revision < MaxRevision
        /\ user.name # display
        /\ Canonical[user.name] # Canonical[display] => Canonical[display] \notin DOMAIN names
        /\ names' = With(names, Canonical[display], id)
        /\ Change(id, [name |-> display, state |-> user.state, revision |-> user.revision + 1],
                  [kind |-> "renamed", previous |-> user.name, display |-> display])
        /\ UNCHANGED <<verifiers, roleGrants, policy, login, enroll, intended, userSteps>>

\* rename_user: another spelling of the same canonical name leaves the index alone.
RenameUser(id, display) ==
    LET user == users[id]
        old == Canonical[user.name]
        new == Canonical[display]
    IN  /\ user.revision < MaxRevision
        /\ user.name # display
        /\ IF old = new THEN UNCHANGED names
           ELSE new \notin DOMAIN names /\ names' = With(Without(names, old), new, id)
        /\ Change(id, [name |-> display, state |-> user.state, revision |-> user.revision + 1],
                  [kind |-> "renamed", previous |-> user.name, display |-> display])
        /\ UNCHANGED <<verifiers, roleGrants, policy, login, enroll, intended, userSteps>>

\* set_user_state: disable and reactivate.
SetUserState(id, state) ==
    /\ users[id].revision < MaxRevision
    /\ users[id].state # state
    /\ Change(id, [name |-> users[id].name, state |-> state, revision |-> users[id].revision + 1],
              [kind |-> IF state = "active" THEN "reactivated" ELSE "disabled"])
    /\ UNCHANGED <<names, verifiers, roleGrants, policy, login, enroll, intended, userSteps>>

Step == userSteps < MaxSteps /\ userSteps' = userSteps + 1

\* clear_user_password
ClearPassword(id) ==
    /\ Step
    /\ verifiers' = Without(verifiers, id)
    /\ intended' = [intended EXCEPT ![id] = NoPassword]
    /\ UNCHANGED <<users, names, userEvents, roleGrants, policy, login, enroll>>

\* grant_role, for a user that exists.
GrantRole(id, role, scope) ==
    /\ Step
    /\ roleGrants' = roleGrants \cup {[user |-> id, role |-> role, scope |-> scope]}
    /\ UNCHANGED <<users, names, userEvents, verifiers, policy, login, enroll, intended>>

\* revoke_role
RevokeRole(grant) ==
    /\ Step
    /\ roleGrants' = roleGrants \ {grant}
    /\ UNCHANGED <<users, names, userEvents, verifiers, policy, login, enroll, intended>>

--------------------------------
(* Derivations                                                             *)

Deriving == {l \in Logins : login[l].pc \in {"checking", "decoy", "rehashing", "orphan"}}
            \cup {o \in Operators : enroll[o].pc = "hashing"}

\* gated: one permit for the whole derivation, on the blocking pool.
Permit == Cardinality(Deriving) < MaxPasswordChecks

\* set_password: derive, then store for a user that exists; the plaintext is gone after this.
SetPassword(o, id, password) ==
    /\ Step
    /\ enroll[o].pc = "idle"
    /\ enroll' = [enroll EXCEPT ![o] = [pc |-> "waiting", user |-> id, password |-> password]]
    /\ UNCHANGED <<users, names, userEvents, verifiers, roleGrants, policy, login, intended>>

Hash(o) ==
    /\ enroll[o].pc = "waiting" /\ Permit
    /\ enroll' = [enroll EXCEPT ![o].pc = "hashing"]
    /\ UNCHANGED <<users, names, userEvents, verifiers, roleGrants, policy, login, intended, userSteps>>

StorePassword(o) ==
    LET e == enroll[o]
    IN  /\ e.pc = "hashing"
        /\ verifiers' = With(verifiers, e.user, [password |-> e.password, cost |-> policy])
        /\ intended' = [intended EXCEPT ![e.user] = e.password]
        /\ enroll' = [enroll EXCEPT ![o] = LoggedOut]
        /\ UNCHANGED <<users, names, userEvents, roleGrants, policy, login, userSteps>>

--------------------------------
(* authenticate                                                            *)

LoginTo(l, next) ==
    /\ login' = [login EXCEPT ![l] = next]
    /\ UNCHANGED <<users, names, userEvents, verifiers, roleGrants, policy, enroll, intended, userSteps>>

Active(name) == Canonical[name] \in DOMAIN names /\ users[names[Canonical[name]]].state = "active"

\* get_user_by_name, and the filter on active users.
LookUpUser(l, name, password) ==
    /\ login[l].pc \in {"idle", "accepted", "rejected"}
    /\ IF Active(name)
       THEN LoginTo(l, [pc |-> "verifier", password |-> password, user |-> names[Canonical[name]]])
       ELSE LoginTo(l, [pc |-> "unknown"])

\* get_user_password, in a transaction of its own.
LookUpVerifier(l) ==
    LET at == login[l]
    IN  /\ at.pc = "verifier"
        /\ IF at.user \in DOMAIN verifiers
           THEN LoginTo(l, [pc |-> "waiting", password |-> at.password, user |-> at.user, verifier |-> verifiers[at.user]])
           ELSE LoginTo(l, [pc |-> "unknown"])

\* spend_decoy: an account that cannot log in costs a derivation as well.
SpendDecoy(l) ==
    \/ login[l].pc = "unknown" /\ Permit /\ LoginTo(l, [pc |-> "decoy"])
    \/ login[l].pc = "decoy" /\ LoginTo(l, [pc |-> "rejected"])

\* PasswordVerifier::check under a permit; a verifier derived under another policy is stale.
CheckPassword(l) ==
    \/ login[l].pc = "waiting" /\ Permit /\ LoginTo(l, [login[l] EXCEPT !.pc = "checking"])
    \/ /\ login[l].pc = "checking"
       /\ LoginTo(l, IF login[l].verifier.password # login[l].password THEN [pc |-> "rejected"]
                     ELSE IF login[l].verifier.cost = policy THEN [pc |-> "accepted"]
                     ELSE [pc |-> "stale", password |-> login[l].password, user |-> login[l].user])

\* A stale verifier is derived anew and stored: set_password with the presented password.
Rehash(l) ==
    \/ login[l].pc = "stale" /\ Permit /\ LoginTo(l, [login[l] EXCEPT !.pc = "rehashing"])
    \/ /\ login[l].pc = "rehashing"
       /\ verifiers' = With(verifiers, login[l].user, [password |-> login[l].password, cost |-> policy])
       /\ login' = [login EXCEPT ![l] = [pc |-> "accepted"]]
       /\ UNCHANGED <<users, names, userEvents, roleGrants, policy, enroll, intended, userSteps>>

\* The client goes away.  A derivation that has begun runs to its end and keeps its permit until then.
DropLogin(l) ==
    \/ login[l].pc \in {"verifier", "unknown", "waiting", "stale"} /\ LoginTo(l, LoggedOut)
    \/ login[l].pc \in {"checking", "decoy", "rehashing"} /\ LoginTo(l, [pc |-> "orphan"])

EndOrphan(l) == login[l].pc = "orphan" /\ LoginTo(l, LoggedOut)

\* The process starts again, perhaps with another policy.
RestartUsers(cost) ==
    /\ Step
    /\ policy' = cost
    /\ login' = [l \in Logins |-> LoggedOut]
    /\ enroll' = [o \in Operators |-> LoggedOut]
    /\ UNCHANGED <<users, names, userEvents, verifiers, roleGrants, intended>>

UserNext ==
    \/ \E d \in DisplayNames : CreateUser(d)
    \/ \E id \in DOMAIN users :
          \/ \E d \in DisplayNames : RenameUser(id, d)
          \/ \E s \in {"active", "disabled"} : SetUserState(id, s)
          \/ ClearPassword(id)
          \/ \E r \in Roles, s \in GrantScopes : GrantRole(id, r, s)
          \/ \E o \in Operators, p \in Passwords : SetPassword(o, id, p)
    \/ \E g \in roleGrants : RevokeRole(g)
    \/ \E o \in Operators : Hash(o) \/ StorePassword(o)
    \/ \E l \in Logins :
          \/ \E d \in DisplayNames, p \in Passwords : LookUpUser(l, d, p)
          \/ LookUpVerifier(l) \/ SpendDecoy(l) \/ CheckPassword(l) \/ Rehash(l)
          \/ DropLogin(l) \/ EndOrphan(l)
    \/ \E c \in Costs : RestartUsers(c)

UserSpec == UserInit /\ [][UserNext]_userVars

--------------------------------
(* Role decisions                                                          *)

\* Role::scopes
RoleScopes(role) ==
    CASE role = "administrator" -> {"repository:read", "repository:write", "repository:delete", "operator:read"}
      [] role = "repository_publisher" -> {"repository:read", "repository:write", "repository:delete"}
      [] role = "repository_reader" -> {"repository:read"}
      [] OTHER -> {"operator:read"}

\* GrantScope::covers
Covers(scope, resource) == scope = Server \/ scope = resource

\* authorize of AuthorizationService over user_role_grants: denied unless a grant carries the scope and covers
\* the resource, and denied when the grants cannot be read.
Decision(id, scope, resource, readable) ==
    /\ readable
    /\ \E g \in roleGrants : g.user = id /\ scope \in RoleScopes(g.role) /\ Covers(g.scope, resource)

--------------------------------
(* Properties                                                              *)

\* The events of an account tell what it is: the last that names it, the last that switches it off or on, one event
\* per revision.
Naming == {"created", "renamed"}
Retold(user, events) ==
    /\ user.revision = Len(events)
    /\ \E i \in DOMAIN events : /\ events[i].kind \in Naming /\ events[i].display = user.name
                                /\ \A j \in (i + 1)..Len(events) : events[j].kind \notin Naming
    /\ user.state = "disabled" <=>
          \E i \in DOMAIN events : /\ events[i].kind = "disabled"
                                  /\ \A j \in (i + 1)..Len(events) : events[j].kind # "reactivated"

\* Through any sequence of creations, renames and state changes the name index is exactly the canonical names
\* of the accounts, no two accounts share one, an account's events retell it, and no password or role belongs to
\* an account that is not there; no more derivations run than the semaphore allows; and roles over repositories,
\* however many, never add up to operator data.
UsersAreConsistent ==
    /\ DOMAIN names = {Canonical[users[i].name] : i \in DOMAIN users}
    /\ \A i \in DOMAIN users : names[Canonical[users[i].name]] = i /\ Retold(users[i], userEvents[i])
    /\ DOMAIN verifiers \cup {g.user : g \in roleGrants} \subseteq DOMAIN users
    /\ Cardinality(Deriving) <= MaxPasswordChecks
    /\ \A i \in DOMAIN users :
          (\A g \in roleGrants : g.user = i => g.scope # Server) => ~Decision(i, "operator:read", <<"operator">>, TRUE)

\* Not met by the code (see the README): a cleared password stays cleared until a new one is enrolled.  The
\* login that finds its verifier stale stores the password it was given, whatever happened since.
ClearedStaysCleared == \A i \in DOMAIN users : intended[i] = NoPassword => i \notin DOMAIN verifiers
================================
