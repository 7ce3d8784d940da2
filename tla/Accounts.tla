------------------------------ MODULE Accounts ------------------------------
(***************************************************************************)
(* Users, service accounts, sessions and API keys of one tenant            *)
(* (auth.rs, identity.rs, tenant.rs).                                      *)
(*                                                                         *)
(* A login, and the verification of a bearer token that starts every other *)
(* request, are sequences of separate reads; a handler then checks what it *)
(* read and writes in a transaction of its own, and disabling a user ends  *)
(* with a second write that revokes the user's sessions.  A call is at one *)
(* of these steps; other calls run in between, and a call may be cut off   *)
(* at any step.                                                            *)
(*                                                                         *)
(* Roles are rows with grants, tenant_admin and those clients make; who may*)
(* do what follows from the keys of the roles a call has read.  Platform   *)
(* admins, whom no grant is asked of, are left out, and so is the role     *)
(* member, which grants none of the permissions below.                     *)
(***************************************************************************)
EXTENDS Naturals, FiniteSets

CONSTANTS
    Requests,   \* slots for concurrently running calls
    Users, Services,   \* ids of users and of service accounts
    Founder,    \* the user bootstrap_tenant creates
    SessionIds, KeyIds,
    CustomRoles,   \* keys of the roles clients may create
    RoleGrants,    \* bound: the grants they may give a role
    MaxAborts,  \* bound: calls that may be cut off
    None

Principals  == Users \cup Services
Credentials == SessionIds \cup KeyIds
RoleKeys    == {"tenant_admin"} \cup CustomRoles

\* What the handlers ask for: an action on admin:users, admin:roles or
\* admin:api_keys.  None has a target record, so that a role grants one of them
\* or does not, but for conditions on the actor: each has the principals it
\* is granted to.
Permissions == {"configure users", "read users", "configure roles", "configure api_keys"}
RoleGrant   == [Permissions -> SUBSET Principals]

ASSUME AccountsAssumption ==
    /\ Founder \in Users
    /\ MaxAborts \in Nat
    /\ None \notin Principals \cup Credentials
    /\ Users \cap Services = {} /\ SessionIds \cap KeyIds = {}
    /\ "tenant_admin" \notin CustomRoles /\ RoleGrants \subseteq RoleGrant

VARIABLES
    tenant,     \* status of the tenant
    status,     \* status of each principal, "absent" before it is created
    roles,      \* the roles table: the grants of each role there is
    assigned,   \* the role_assignments table: role keys of each principal
    sessions,   \* the sessions table
    keys,       \* the api_keys table: the principal of each key, or None
    call,       \* what each running call has read and does next
    aborts,
    seen,       \* history: the parts of its credential that were in force at
                \* some moment since the call began
    spared      \* history: sessions that a disabling of their user could miss

tables == <<tenant, status, roles, assigned, sessions, keys>>
vars == <<tables, call, aborts, seen, spared>>

Parts == {"credential", "tenant", "principal"}

\* Rows are deleted for good: a token is never issued twice.
Session == {row \in [user: Users \cup {None},
                     state: {"unused", "live", "revoked", "expired", "deleted"}] :
                row.user = None <=> row.state = "unused"}
Unused == [user |-> None, state |-> "unused"]

Steps == {"idle", "login_user", "login_commit", "tenant", "principal", "roles",
          "accepted", "write_status", "revoke", "write_key"}

\* by: the principal of the call; roles: the keys of its roles, as read;
\* on, to: what the handler is about to write.
Call == {c \in [step: Steps, cred: Credentials \cup {None},
                by: Principals \cup {None}, roles: SUBSET RoleKeys,
                on: Principals \cup {None}, to: {"active", "disabled"}] :
             /\ c.by = None => c.step = "idle"
             /\ c.step \in {"login_user", "login_commit"} => c.by \in Users
             /\ c.step \in {"write_status", "revoke", "write_key"} => c.on # None}
Idle == [step |-> "idle", cred |-> None, by |-> None, roles |-> {},
         on |-> None, to |-> "active"]

TypeOK ==
    /\ tenant \in {"active", "suspended"}
    /\ status \in [Principals -> {"absent", "active", "disabled"}]
    /\ roles \in UNION {[known -> RoleGrant] : known \in SUBSET RoleKeys}
    /\ assigned \in [Principals -> SUBSET RoleKeys]
    /\ sessions \in [SessionIds -> Session]
    /\ keys \in [KeyIds -> Principals \cup {None}]
    /\ call \in [Requests -> Call]
    /\ aborts \in Nat
    /\ seen \in [Requests -> SUBSET Parts]
    /\ spared \in SUBSET SessionIds

\* bootstrap_tenant
Init ==
    /\ tenant = "active"
    /\ status = [p \in Principals |-> IF p = Founder THEN "active" ELSE "absent"]
    /\ roles = [k \in {"tenant_admin"} |-> [permission \in Permissions |-> Principals]]
    /\ assigned = [p \in Principals |-> IF p = Founder THEN {"tenant_admin"} ELSE {}]
    /\ sessions = [s \in SessionIds |-> Unused]
    /\ keys = [k \in KeyIds |-> None]
    /\ call = [q \in Requests |-> Idle]
    /\ aborts = 0
    /\ seen = [q \in Requests |-> {}]
    /\ spared = {}

-----------------------------------------------------------------------------
Live(s) == sessions[s].state = "live"
Dead(s) == sessions[s].state \in {"revoked", "expired"}
SessionsOf(u) == {s \in SessionIds : Live(s) /\ sessions[s].user = u}

\* Mutant: a session row that was never revoked will do.
InForceUnlessRevoked(c) ==
    IF c \in SessionIds THEN sessions[c].state # "revoked" ELSE keys[c] # None

InForce(c) == IF c \in SessionIds THEN Live(c) ELSE keys[c] # None
Holder(c)  == IF c \in SessionIds THEN sessions[c].user ELSE keys[c]

\* The parts of call q's credential that are in force now.
PartsOf(q) ==
    {part \in Parts :
        \/ part = "credential" /\ call[q].cred # None /\ InForce(call[q].cred)
        \/ part = "tenant"     /\ tenant = "active"
        \/ part = "principal"  /\ call[q].by # None /\ status[call[q].by] = "active"}

\* effective_grants: a key that names no role grants nothing.
Permits(held, p, permission) ==
    \E k \in held \cap DOMAIN roles : p \in roles[k][permission]

\* authorize
Allowed(q, permission) == Permits(call[q].roles, call[q].by, permission)

At(q, step) == call[q].step = step
Go(q, step) == call' = [call EXCEPT ![q].step = step]
End(q)      == call' = [call EXCEPT ![q] = Idle]

-----------------------------------------------------------------------------
(* login *)

\* The tenant is found and active, or the login fails and nothing is kept.
LoginTenant(q, u) ==
    /\ At(q, "idle")
    /\ tenant = "active"
    /\ call' = [call EXCEPT ![q] = [Idle EXCEPT !.step = "login_user", !.by = u]]
    /\ UNCHANGED <<tables, spared>>

\* The user is active and the password right.
LoginUser(q) ==
    /\ At(q, "login_user")
    /\ status[call[q].by] = "active"
    /\ Go(q, "login_commit")
    /\ UNCHANGED <<tables, spared>>

\* The transaction that inserts the session.
LoginCommit(q, s) ==
    /\ At(q, "login_commit")
    /\ sessions[s] = Unused
    /\ sessions' = [sessions EXCEPT ![s] = [user |-> call[q].by, state |-> "live"]]
    /\ End(q)
    /\ spared' = IF status[call[q].by] = "active" THEN spared ELSE spared \cup {s}
    /\ UNCHANGED <<tenant, status, roles, assigned, keys>>

-----------------------------------------------------------------------------
(* authenticate: every request with a bearer token *)

AuthenticateCredential(q, c) ==
    /\ At(q, "idle")
    /\ InForce(c)
    /\ call' = [call EXCEPT ![q] =
                  [Idle EXCEPT !.step = "tenant", !.cred = c, !.by = Holder(c)]]
    /\ UNCHANGED <<tables, spared>>

\* require_tenant_active
AuthenticateTenant(q) ==
    /\ At(q, "tenant")
    /\ tenant = "active"
    /\ Go(q, "principal")
    /\ UNCHANGED <<tables, spared>>

\* Mutant: an API key is not checked against its principal.
AuthenticatePrincipalOfSession(q) ==
    /\ At(q, "principal")
    /\ call[q].cred \in SessionIds => status[call[q].by] = "active"
    /\ Go(q, "roles")
    /\ UNCHANGED <<tables, spared>>

AuthenticatePrincipal(q) ==
    /\ At(q, "principal")
    /\ status[call[q].by] = "active"
    /\ Go(q, "roles")
    /\ UNCHANGED <<tables, spared>>

\* roles_for_principal; the AuthContext is complete.
AuthenticateRoles(q) ==
    /\ At(q, "roles")
    /\ call' = [call EXCEPT ![q].step = "accepted",
                            ![q].roles = assigned[call[q].by]]
    /\ UNCHANGED <<tables, spared>>

\* A check fails, the handler refuses or it is one of those that touch none of
\* these tables: the call ends as it is.
Refuse(q) ==
    /\ call[q].step \in {"login_user", "tenant", "principal", "accepted"}
    /\ End(q)
    /\ UNCHANGED <<tables, spared>>

-----------------------------------------------------------------------------
(* Handlers of a verified call *)

\* Mutant: without the check of one's own account.
SetUserStatusCheckAnyone(q, u, to) ==
    /\ At(q, "accepted")
    /\ Allowed(q, "configure users") /\ Allowed(q, "read users")
    /\ status[u] # "absent"
    /\ call' = [call EXCEPT ![q].step = "write_status", ![q].on = u, ![q].to = to]
    /\ UNCHANGED <<tables, spared>>

\* set_user_status up to its transaction: nobody disables their own account,
\* and get_user, which it calls, wants to see the user.
SetUserStatusCheck(q, u, to) ==
    /\ At(q, "accepted")
    /\ Allowed(q, "configure users") /\ Allowed(q, "read users")
    /\ ~(u = call[q].by /\ to = "disabled")
    /\ status[u] # "absent"
    /\ call' = [call EXCEPT ![q].step = "write_status", ![q].on = u, ![q].to = to]
    /\ UNCHANGED <<tables, spared>>

\* Mutant: the sessions are revoked when the user is enabled.
SetUserStatusCommitRevokesLate(q) ==
    /\ At(q, "write_status")
    /\ status' = [status EXCEPT ![call[q].on] = call[q].to]
    /\ IF call[q].to = "active" THEN Go(q, "revoke") ELSE End(q)
    /\ UNCHANGED <<tenant, roles, assigned, sessions, keys, spared>>

SetUserStatusCommit(q) ==
    /\ At(q, "write_status")
    /\ status' = [status EXCEPT ![call[q].on] = call[q].to]
    /\ IF call[q].to = "disabled" THEN Go(q, "revoke") ELSE End(q)
    /\ UNCHANGED <<tenant, roles, assigned, sessions, keys, spared>>

\* Mutant: the sessions of the caller are revoked.
RevokeSessionsOfCaller(q) ==
    /\ At(q, "revoke")
    /\ sessions' = [s \in SessionIds |->
                      IF s \in SessionsOf(call[q].by)
                      THEN [sessions[s] EXCEPT !.state = "revoked"] ELSE sessions[s]]
    /\ End(q)
    /\ UNCHANGED <<tenant, status, roles, assigned, keys, spared>>

\* revoke_sessions_for_user, after the transaction
RevokeSessions(q) ==
    /\ At(q, "revoke")
    /\ sessions' = [s \in SessionIds |->
                      IF s \in SessionsOf(call[q].on)
                      THEN [sessions[s] EXCEPT !.state = "revoked"] ELSE sessions[s]]
    /\ End(q)
    /\ UNCHANGED <<tenant, status, roles, assigned, keys, spared>>

\* create_user and create_service_account, with any role keys, of a role or not;
\* an id is created once (UNIQUE for the email of a user, a fresh id for an
\* account) and a key assigned once.
CreatePrincipal(q, p, given) ==
    /\ At(q, "accepted") /\ Allowed(q, "configure users")
    /\ status[p] = "absent" /\ assigned[p] \cap given = {}
    /\ status' = [status EXCEPT ![p] = "active"]
    /\ assigned' = [assigned EXCEPT ![p] = @ \cup given]
    /\ End(q)
    /\ UNCHANGED <<tenant, roles, sessions, keys, spared>>

\* create_role; a key names one role (UNIQUE), and no operation changes its grants.
CreateRole(q, k, grants) ==
    /\ At(q, "accepted") /\ Allowed(q, "configure roles")
    /\ k \notin DOMAIN roles
    /\ roles' = [r \in DOMAIN roles \cup {k} |-> IF r = k THEN grants ELSE roles[r]]
    /\ End(q)
    /\ UNCHANGED <<tenant, status, assigned, sessions, keys, spared>>

\* assign_role: neither the principal nor the role is looked up; there is no
\* operation that takes a role away.
AssignRole(q, p, k) ==
    /\ At(q, "accepted") /\ Allowed(q, "configure roles")
    /\ assigned' = [assigned EXCEPT ![p] = @ \cup {k}]
    /\ End(q)
    /\ UNCHANGED <<tenant, status, roles, sessions, keys, spared>>

\* create_api_key: the principal is looked up before the transaction.
CreateApiKeyCheck(q, p) ==
    /\ At(q, "accepted") /\ Allowed(q, "configure api_keys")
    /\ status[p] = "active"
    /\ call' = [call EXCEPT ![q].step = "write_key", ![q].on = p]
    /\ UNCHANGED <<tables, spared>>

CreateApiKeyCommit(q, k) ==
    /\ At(q, "write_key")
    /\ keys[k] = None
    /\ keys' = [keys EXCEPT ![k] = call[q].on]
    /\ End(q)
    /\ UNCHANGED <<tenant, status, roles, assigned, sessions, spared>>

-----------------------------------------------------------------------------
(* Everything that needs no verified call of this tenant *)

\* set_tenant_status, by a platform admin or the system
SetTenantStatus(to) ==
    /\ tenant' = to
    /\ UNCHANGED <<status, roles, assigned, sessions, keys, call, spared>>

\* logout: whoever presents the token revokes the session.
Logout(s) ==
    /\ Live(s)
    /\ sessions' = [sessions EXCEPT ![s].state = "revoked"]
    /\ UNCHANGED <<tenant, status, roles, assigned, keys, call, spared>>

\* The clock passes expires_at.
Expire(s) ==
    /\ Live(s)
    /\ sessions' = [sessions EXCEPT ![s].state = "expired"]
    /\ UNCHANGED <<tenant, status, roles, assigned, keys, call, spared>>

\* Mutant: expired sessions are kept.
CleanupRevoked ==
    /\ sessions' = [s \in SessionIds |->
                      IF sessions[s].state = "revoked"
                      THEN [sessions[s] EXCEPT !.state = "deleted"] ELSE sessions[s]]
    /\ UNCHANGED <<tenant, status, roles, assigned, keys, call, spared>>

\* cleanup_expired_sessions, from the housekeeping loop
Cleanup ==
    /\ sessions' = [s \in SessionIds |->
                      IF Dead(s)
                      THEN [sessions[s] EXCEPT !.state = "deleted"] ELSE sessions[s]]
    /\ UNCHANGED <<tenant, status, roles, assigned, keys, call, spared>>

\* A query fails, the client goes away or the process ends: the call stops
\* where it is, and what it has committed stays.
Abort(q) ==
    /\ ~At(q, "idle") /\ aborts < MaxAborts
    /\ aborts' = aborts + 1
    /\ End(q)
    /\ spared' = IF At(q, "revoke") THEN spared \cup SessionsOf(call[q].on) ELSE spared
    /\ UNCHANGED tables

-----------------------------------------------------------------------------
Login(q) ==
    \/ \E u \in Users : LoginTenant(q, u)
    \/ LoginUser(q)
    \/ \E s \in SessionIds : LoginCommit(q, s)

Authenticate(q) ==
    \/ \E c \in Credentials : AuthenticateCredential(q, c)
    \/ AuthenticateTenant(q) \/ AuthenticatePrincipal(q) \/ AuthenticateRoles(q)

Handle(q) ==
    \/ \E u \in Users, to \in {"active", "disabled"} : SetUserStatusCheck(q, u, to)
    \/ SetUserStatusCommit(q) \/ RevokeSessions(q)
    \/ \E p \in Principals : \/ \E given \in SUBSET RoleKeys : CreatePrincipal(q, p, given)
                             \/ \E k \in RoleKeys : AssignRole(q, p, k)
                             \/ CreateApiKeyCheck(q, p)
    \/ \E k \in RoleKeys, grants \in RoleGrants : CreateRole(q, k, grants)
    \/ \E k \in KeyIds : CreateApiKeyCommit(q, k)

Environment ==
    \/ \E to \in {"active", "suspended"} : SetTenantStatus(to)
    \/ \E s \in SessionIds : Logout(s) \/ Expire(s)
    \/ Cleanup

\* What the call has seen in force, from its first step on.
Remember ==
    seen' = [q \in Requests |->
               IF call'[q] = Idle THEN {}
               ELSE (IF call[q] = Idle THEN {} ELSE seen[q]) \cup PartsOf(q)']

Next ==
    /\ \/ /\ \E q \in Requests :
                Login(q) \/ Authenticate(q) \/ Handle(q) \/ Refuse(q)
          /\ UNCHANGED aborts
       \/ /\ Environment
          /\ UNCHANGED aborts
       \/ \E q \in Requests : Abort(q)
    /\ Remember

Spec == Init /\ [][Next]_vars

\* Time passes and the housekeeping loop runs every hour.
FairSpec ==
    /\ Spec
    /\ \A s \in SessionIds : WF_vars(Expire(s) /\ UNCHANGED aborts /\ Remember)
    /\ WF_vars(Cleanup /\ UNCHANGED aborts /\ Remember)

-----------------------------------------------------------------------------
(***************************************************************************)
(* A call is accepted only if its session or key, its tenant and its       *)
(* principal were each in force at some moment of the call: what ended     *)
(* before the call began is refused, however the reads of authenticate     *)
(* interleave with suspensions, disablings and logouts.                    *)
(***************************************************************************)
AcceptedWereInForce ==
    \A q \in Requests : At(q, "accepted") => seen[q] = Parts

(***************************************************************************)
(* A disabled user has no live session unless a disabling is about to      *)
(* revoke it, or it is one of those a disabling can miss: the session of a *)
(* login that had read the user before, or of a disabling cut off between  *)
(* its two writes (set_user_status, revoke_sessions_for_user).             *)
(***************************************************************************)
OnlySparedSurvive ==
    \A s \in SessionIds :
        Live(s) /\ status[sessions[s].user] = "disabled" =>
            \/ s \in spared
            \/ \E q \in Requests : At(q, "revoke") /\ call[q].on = sessions[s].user

(***************************************************************************)
(* Once a disabling is through, the user has no live session.              *)
(***************************************************************************)
DisabledHasNoSessions ==
    \A s \in SessionIds :
        Live(s) /\ status[sessions[s].user] = "disabled" =>
            \E q \in Requests : At(q, "revoke") /\ call[q].on = sessions[s].user

\* p may enable and disable users, and has a way in: a user can log in, a
\* service account needs a key.
ManagesUsers(p) ==
    /\ status[p] = "active"
    /\ \A permission \in {"configure users", "read users"} : Permits(assigned[p], p, permission)
    /\ p \in Users \/ \E k \in KeyIds : keys[k] = p

(***************************************************************************)
(* The tenant never locks itself out: someone active can always manage its *)
(* users, so that whoever is disabled may be enabled again.  The check of  *)
(* set_user_status that nobody disables their own account is enough for    *)
(* that while calls run one at a time, whichever roles clients create and  *)
(* assign.  It is not always a holder of tenant_admin: whom a custom role  *)
(* lets manage users may disable the last of those.                        *)
(***************************************************************************)
AUserManagerRemains == \E p \in Principals : ManagesUsers(p)

(***************************************************************************)
(* Every session is deleted in the end, logged out or not.                 *)
(***************************************************************************)
SessionsAreDeleted ==
    \A s \in SessionIds : Live(s) ~> sessions[s].state = "deleted"
=============================================================================
