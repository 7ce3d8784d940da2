-------------------------- MODULE Accounts_proofs --------------------------
(***************************************************************************)
(* Proofs about the credentials of a tenant, for any number of calls,      *)
(* users, service accounts, sessions and keys and any number of calls cut  *)
(* off:                                                                    *)
(*                                                                         *)
(*   CredentialsTyped      Spec => []TypeOK                                *)
(*   AcceptanceJustified   Spec => []AcceptedWereInForce                   *)
(*   DisablingMissesOnly   Spec => []OnlySparedSurvive                     *)
(*                                                                         *)
(* and for one call at a time (OneRequest):                                *)
(*                                                                         *)
(*   UserManagersRemain    Spec => []AUserManagerRemains                   *)
(*   DisablingIsComplete   Spec => []DisabledHasNoSessions                 *)
(*                                                                         *)
(* AcceptedWereInForce speaks of the end of a verification; its inductive  *)
(* form, Checked, says for every step what has been seen so far.           *)
(* OnlySparedSurvive is inductive together with TypeOK.                    *)
(***************************************************************************)
EXTENDS Accounts, TLAPS

\* What a call at a step has seen in force.
Checked ==
    \A q \in Requests :
        /\ call[q].step \in {"tenant", "principal", "roles", "accepted"} =>
               call[q].cred # None /\ "credential" \in seen[q]
        /\ call[q].step \in {"principal", "roles", "accepted"} => "tenant" \in seen[q]
        /\ call[q].step \in {"roles", "accepted"} => "principal" \in seen[q]

-----------------------------------------------------------------------------
\* A call that ends has the type of a call.
LEMMA IdleTyped == Idle \in Call /\ Idle.step = "idle" /\ Idle.by = None
  BY DEF Idle, Call, Steps

LEMMA TypeInit == Init => TypeOK
  <1>. SUFFICES ASSUME Init PROVE TypeOK
    OBVIOUS
  <1>1. Unused \in Session /\ Unused.user = None /\ Unused.state = "unused"
    BY DEF Unused, Session
  <1>2. roles \in UNION {[known -> RoleGrant] : known \in SUBSET RoleKeys}
    <2>1. /\ roles = [k \in {"tenant_admin"} |-> [permission \in Permissions |-> Principals]]
          /\ {"tenant_admin"} \in SUBSET RoleKeys
          /\ [permission \in Permissions |-> Principals] \in RoleGrant
      BY DEF Init, RoleKeys, RoleGrant
    <2>2. roles \in [{"tenant_admin"} -> RoleGrant]
      BY <2>1
    <2>. QED
      BY <2>1, <2>2
  <1>3. assigned \in [Principals -> SUBSET RoleKeys]
    BY DEF Init, RoleKeys
  <1>. QED
    BY <1>1, <1>2, <1>3, IdleTyped, AccountsAssumption DEF Init, TypeOK, Principals

\* A call that goes on to another step.
LEMMA GoTyped ==
    ASSUME TypeOK, NEW q \in Requests, NEW step \in Steps, ~At(q, "idle"),
           step \in {"login_user", "login_commit"} => call[q].by \in Users,
           step \in {"write_status", "revoke", "write_key"} => call[q].on # None,
           Go(q, step)
    PROVE  call' \in [Requests -> Call]
  <1>1. call[q] \in Call /\ call[q].by # None
    BY DEF TypeOK, At, Call
  <1>2. [call[q] EXCEPT !.step = step] \in Call
    BY <1>1 DEF Call
  <1>. QED
    BY <1>2 DEF Go, TypeOK

LEMMA EndTyped ==
    ASSUME TypeOK, NEW q \in Requests, End(q)
    PROVE  call' \in [Requests -> Call]
  BY IdleTyped DEF End, TypeOK

\* The type of a call's fields.
LEMMA CallFields ==
    ASSUME TypeOK, NEW q \in Requests
    PROVE  /\ call[q] \in Call
           /\ ~At(q, "idle") => call[q].by \in Principals
           /\ call[q].step \in {"login_user", "login_commit"} => call[q].by \in Users
           /\ call[q].step \in {"write_status", "revoke", "write_key"}
                => call[q].on \in Principals
           /\ call[q].to \in {"active", "disabled"}
  BY DEF TypeOK, Call, At

\* Changing the state of sessions that are in use leaves the table typed.
LEMMA SessionsTyped ==
    ASSUME TypeOK, NEW S \in SUBSET SessionIds, NEW st \in {"revoked", "expired", "deleted"},
           \A s \in S : sessions[s].state # "unused",
           sessions' = [s \in SessionIds |->
                          IF s \in S THEN [sessions[s] EXCEPT !.state = st] ELSE sessions[s]]
    PROVE  sessions' \in [SessionIds -> Session]
  <1>1. ASSUME NEW s \in SessionIds
        PROVE  sessions'[s] \in Session
    <2>1. sessions[s] \in Session
      BY DEF TypeOK
    <2>2. CASE s \in S
      <3>1. sessions'[s] = [sessions[s] EXCEPT !.state = st]
        BY <2>2
      <3>. QED
        BY <2>1, <2>2, <3>1 DEF Session
    <2>3. CASE s \notin S
      BY <2>1, <2>3
    <2>. QED
      BY <2>2, <2>3
  <1>. QED
    BY <1>1

-----------------------------------------------------------------------------
\* The table of roles.
RolesTyped ==
    /\ DOMAIN roles \subseteq RoleKeys
    /\ roles = [k \in DOMAIN roles |-> roles[k]]
    /\ \A k \in DOMAIN roles : roles[k] \in RoleGrant

LEMMA RolesTypedSays ==
    RolesTyped <=> roles \in UNION {[known -> RoleGrant] : known \in SUBSET RoleKeys}
  BY DEF RolesTyped

\* Everything TypeOK says but of aborts and seen.
CoreTyped ==
    /\ tenant \in {"active", "suspended"}
    /\ status \in [Principals -> {"absent", "active", "disabled"}]
    /\ roles \in UNION {[known -> RoleGrant] : known \in SUBSET RoleKeys}
    /\ assigned \in [Principals -> SUBSET RoleKeys]
    /\ sessions \in [SessionIds -> Session]
    /\ keys \in [KeyIds -> Principals \cup {None}]
    /\ call \in [Requests -> Call]
    /\ spared \in SUBSET SessionIds

\* A call goes on and writes nothing.
LEMMA CallTyped ==
    ASSUME TypeOK, call' \in [Requests -> Call], UNCHANGED <<tables, spared>>
    PROVE  CoreTyped'
  <1>1. UNCHANGED <<tenant, status, roles, assigned, sessions, keys, spared>>
    BY DEF tables
  <1>2. CoreTyped
    BY DEF TypeOK, CoreTyped
  <1>. QED
    BY <1>1, <1>2, Zenon DEF CoreTyped

LEMMA TypeLogin ==
    ASSUME TypeOK, NEW q \in Requests, Login(q)
    PROVE  CoreTyped'
  <1>1. ASSUME NEW u \in Users, LoginTenant(q, u)
        PROVE  CoreTyped'
    <2>1. [Idle EXCEPT !.step = "login_user", !.by = u] \in Call
      BY AccountsAssumption DEF Idle, Call, Steps, Principals
    <2>. QED
      BY <1>1, <2>1 DEF LoginTenant, TypeOK, CoreTyped, tables
  <1>2. CASE LoginUser(q)
    <2>1. ~At(q, "idle") /\ Go(q, "login_commit") /\ "login_commit" \in Steps
          /\ call[q].by \in Users
      BY <1>2, CallFields DEF LoginUser, At, Steps
    <2>. QED
      BY <1>2, <2>1, GoTyped DEF LoginUser, TypeOK, CoreTyped, tables
  <1>3. ASSUME NEW s \in SessionIds, LoginCommit(q, s)
        PROVE  CoreTyped'
    <2>1. call[q].by \in Users
      BY <1>3, CallFields DEF LoginCommit, At
    <2>2. [user |-> call[q].by, state |-> "live"] \in Session
      BY <2>1, AccountsAssumption DEF Session, Principals
    <2>3. call' \in [Requests -> Call]
      BY <1>3, EndTyped DEF LoginCommit
    <2>. QED
      BY <1>3, <2>2, <2>3 DEF LoginCommit, TypeOK, CoreTyped
  <1>. QED
    BY <1>1, <1>2, <1>3 DEF Login

LEMMA TypeAuthenticate ==
    ASSUME TypeOK, NEW q \in Requests, Authenticate(q)
    PROVE  CoreTyped'
  <1>1. ASSUME NEW c \in Credentials, AuthenticateCredential(q, c)
        PROVE  CoreTyped'
    <2>1. Holder(c) \in Principals
      <3>1. CASE c \in SessionIds
        BY <1>1, <3>1 DEF AuthenticateCredential, InForce, Holder, Live, TypeOK,
                          Session, Principals
      <3>2. CASE c \notin SessionIds
        BY <1>1, <3>2 DEF AuthenticateCredential, InForce, Holder, TypeOK, Credentials
      <3>. QED
        BY <3>1, <3>2
    <2>2. [Idle EXCEPT !.step = "tenant", !.cred = c, !.by = Holder(c)] \in Call
      BY <2>1, AccountsAssumption DEF Idle, Call, Steps
    <2>. QED
      BY <1>1, <2>2 DEF AuthenticateCredential, TypeOK, CoreTyped, tables
  <1>2. CASE AuthenticateTenant(q)
    <2>1. ~At(q, "idle") /\ Go(q, "principal") /\ "principal" \in Steps
      BY <1>2 DEF AuthenticateTenant, At, Steps
    <2>. QED
      BY <1>2, <2>1, GoTyped DEF AuthenticateTenant, TypeOK, CoreTyped, tables
  <1>3. CASE AuthenticatePrincipal(q)
    <2>1. ~At(q, "idle") /\ Go(q, "roles") /\ "roles" \in Steps
      BY <1>3 DEF AuthenticatePrincipal, At, Steps
    <2>. QED
      BY <1>3, <2>1, GoTyped DEF AuthenticatePrincipal, TypeOK, CoreTyped, tables
  <1>4. CASE AuthenticateRoles(q)
    <2>. DEFINE c == [call[q] EXCEPT !.step = "accepted", !.roles = assigned[call[q].by]]
    <2>1. call[q] \in Call /\ call[q].by # None
      BY <1>4, CallFields, AccountsAssumption DEF AuthenticateRoles, At
    <2>2. assigned[call[q].by] \in SUBSET RoleKeys
      BY <1>4, CallFields DEF AuthenticateRoles, At, TypeOK
    <2>3. c \in Call
      BY <2>1, <2>2 DEF Call, Steps
    <2>4. call' = [call EXCEPT ![q] = c]
      BY <1>4 DEF AuthenticateRoles
    <2>. HIDE DEF c
    <2>. QED
      BY <1>4, <2>3, <2>4 DEF AuthenticateRoles, TypeOK, CoreTyped, tables
  <1>. QED
    BY <1>1, <1>2, <1>3, <1>4 DEF Authenticate

LEMMA TypeHandle ==
    ASSUME TypeOK, NEW q \in Requests, Handle(q)
    PROVE  CoreTyped'
  <1>1. ASSUME NEW u \in Users, NEW to \in {"active", "disabled"},
               SetUserStatusCheck(q, u, to)
        PROVE  CoreTyped'
    <2>. DEFINE c == [call[q] EXCEPT !.step = "write_status", !.on = u, !.to = to]
    <2>1. call[q] \in Call /\ call[q].by # None
      BY <1>1, CallFields, AccountsAssumption DEF SetUserStatusCheck, At
    <2>2. c \in Call
      BY <2>1, AccountsAssumption DEF Call, Steps, Principals
    <2>3. call' = [call EXCEPT ![q] = c]
      BY <1>1 DEF SetUserStatusCheck
    <2>. HIDE DEF c
    <2>4. call' \in [Requests -> Call]
      BY <2>2, <2>3 DEF TypeOK
    <2>5. UNCHANGED <<tables, spared>>
      BY <1>1 DEF SetUserStatusCheck
    <2>. QED
      BY <2>4, <2>5, CallTyped
  <1>2. CASE SetUserStatusCommit(q)
    <2>1. call' \in [Requests -> Call]
      <3>1. CASE Go(q, "revoke")
        BY <1>2, <3>1, GoTyped, CallFields, AccountsAssumption
           DEF SetUserStatusCommit, At, Steps
      <3>2. CASE End(q)
        BY <3>2, EndTyped
      <3>. QED
        BY <1>2, <3>1, <3>2 DEF SetUserStatusCommit
    <2>. QED
      BY <1>2, <2>1, CallFields DEF SetUserStatusCommit, At, TypeOK, CoreTyped
  <1>3. CASE RevokeSessions(q)
    <2>1. \A s \in SessionsOf(call[q].on) : s \in SessionIds /\ sessions[s].state # "unused"
      BY DEF SessionsOf, Live
    <2>2. sessions' \in [SessionIds -> Session]
      BY <1>3, <2>1, SessionsTyped DEF RevokeSessions
    <2>. QED
      BY <1>3, <2>2, EndTyped DEF RevokeSessions, TypeOK, CoreTyped
  <1>4. ASSUME NEW p \in Principals, NEW given \in SUBSET RoleKeys,
               CreatePrincipal(q, p, given)
        PROVE  CoreTyped'
    BY <1>4, EndTyped DEF CreatePrincipal, TypeOK, CoreTyped
  <1>5. ASSUME NEW p \in Principals, NEW k \in RoleKeys, AssignRole(q, p, k)
        PROVE  CoreTyped'
    BY <1>5, EndTyped DEF AssignRole, TypeOK, CoreTyped
  <1>8. ASSUME NEW k \in RoleKeys, NEW grants \in RoleGrants, CreateRole(q, k, grants)
        PROVE  CoreTyped'
    <2>1. grants \in RoleGrant
      BY AccountsAssumption
    <2>2. RolesTyped
      BY RolesTypedSays DEF TypeOK
    <2>3. RolesTyped'
      BY <1>8, <2>1, <2>2 DEF CreateRole, RolesTyped
    <2>4. (roles \in UNION {[known -> RoleGrant] : known \in SUBSET RoleKeys})'
      BY <2>3 DEF RolesTyped
    <2>. QED
      BY <1>8, <2>4, EndTyped DEF CreateRole, TypeOK, CoreTyped
  <1>6. ASSUME NEW p \in Principals, CreateApiKeyCheck(q, p)
        PROVE  CoreTyped'
    <2>. DEFINE c == [call[q] EXCEPT !.step = "write_key", !.on = p]
    <2>1. call[q] \in Call /\ call[q].by # None
      BY <1>6, CallFields, AccountsAssumption DEF CreateApiKeyCheck, At
    <2>2. c \in Call
      BY <2>1, AccountsAssumption DEF Call, Steps
    <2>3. call' = [call EXCEPT ![q] = c]
      BY <1>6 DEF CreateApiKeyCheck
    <2>. HIDE DEF c
    <2>. QED
      BY <1>6, <2>2, <2>3 DEF CreateApiKeyCheck, TypeOK, CoreTyped, tables
  <1>7. ASSUME NEW k \in KeyIds, CreateApiKeyCommit(q, k)
        PROVE  CoreTyped'
    BY <1>7, EndTyped, CallFields DEF CreateApiKeyCommit, At, TypeOK, CoreTyped
  <1>. QED
    BY <1>1, <1>2, <1>3, <1>4, <1>5, <1>6, <1>7, <1>8 DEF Handle

LEMMA TypeEnvironment ==
    ASSUME TypeOK, Environment
    PROVE  CoreTyped'
  <1>1. ASSUME NEW to \in {"active", "suspended"}, SetTenantStatus(to)
        PROVE  CoreTyped'
    BY <1>1 DEF SetTenantStatus, TypeOK, CoreTyped
  <1>2. ASSUME NEW s \in SessionIds, Logout(s) \/ Expire(s)
        PROVE  CoreTyped'
    <2>1. ASSUME NEW st \in {"revoked", "expired"}
          PROVE  [sessions[s] EXCEPT !.state = st] \in Session
      BY <1>2 DEF Logout, Expire, Live, TypeOK, Session
    <2>. QED
      BY <1>2, <2>1 DEF Logout, Expire, TypeOK, CoreTyped
  <1>3. CASE Cleanup
    <2>. DEFINE S == {s \in SessionIds : Dead(s)}
    <2>1. \A s \in S : sessions[s].state # "unused"
      BY DEF Dead
    <2>2. sessions' = [s \in SessionIds |->
                         IF s \in S THEN [sessions[s] EXCEPT !.state = "deleted"]
                         ELSE sessions[s]]
      BY <1>3 DEF Cleanup
    <2>3. S \in SUBSET SessionIds
      OBVIOUS
    <2>. HIDE DEF S
    <2>4. sessions' \in [SessionIds -> Session]
      BY <2>1, <2>2, <2>3, SessionsTyped
    <2>. QED
      BY <1>3, <2>4 DEF Cleanup, TypeOK, CoreTyped
  <1>. QED
    BY <1>1, <1>2, <1>3 DEF Environment

LEMMA TypeStep ==
    ASSUME TypeOK, Next
    PROVE  TypeOK'
  <1>1. CoreTyped' /\ aborts' \in Nat
    <2>1. ASSUME NEW q \in Requests, Refuse(q)
          PROVE  CoreTyped'
      BY <2>1, EndTyped DEF Refuse, TypeOK, CoreTyped, tables
    <2>2. ASSUME NEW q \in Requests, Abort(q)
          PROVE  CoreTyped' /\ aborts' \in Nat
      BY <2>2, EndTyped DEF Abort, TypeOK, CoreTyped, tables, SessionsOf
    <2>. QED
      BY <2>1, <2>2, TypeLogin, TypeAuthenticate, TypeHandle, TypeEnvironment
         DEF Next, TypeOK
  <1>2. seen' \in [Requests -> SUBSET Parts]
    <2>1. ASSUME NEW q \in Requests
          PROVE  (IF call'[q] = Idle THEN {}
                  ELSE (IF call[q] = Idle THEN {} ELSE seen[q]) \cup PartsOf(q)')
                   \in SUBSET Parts
      BY DEF TypeOK, PartsOf
    <2>. QED
      BY <2>1 DEF Next, Remember
  <1>. QED
    BY <1>1, <1>2 DEF CoreTyped, TypeOK

(***************************************************************************)
(* The tables and the calls stay well typed: a stored session has a user,  *)
(* a running call a principal, and a call that is about to write its       *)
(* subject.                                                                *)
(***************************************************************************)
THEOREM CredentialsTyped == Spec => []TypeOK
  <1>1. TypeOK /\ [Next]_vars => TypeOK'
    <2>. SUFFICES ASSUME TypeOK, [Next]_vars PROVE TypeOK'
      OBVIOUS
    <2>1. CASE Next
      BY <2>1, TypeStep
    <2>2. CASE UNCHANGED vars
      BY <2>2 DEF vars, tables, TypeOK
    <2>. QED
      BY <2>1, <2>2
  <1>. QED
    BY TypeInit, <1>1, PTL DEF Spec
-----------------------------------------------------------------------------
\* What a running call has seen is not forgotten, and what is in force counts.
LEMMA SeenGrows ==
    ASSUME TypeOK, Next, NEW q \in Requests, call'[q].step # "idle"
    PROVE  /\ call[q].step # "idle" => seen[q] \subseteq seen'[q]
           /\ PartsOf(q)' \subseteq seen'[q]
  <1>1. call'[q] # Idle
    BY IdleTyped
  <1>2. call[q].step # "idle" => call[q] # Idle
    BY IdleTyped
  <1>. QED
    BY <1>1, <1>2 DEF Next, Remember

\* The steps of call q that bring it to a step of authenticate.
LEMMA CallMoves ==
    ASSUME TypeOK, Next, NEW q \in Requests, call'[q] # call[q],
           call'[q].step \in {"tenant", "principal", "roles", "accepted"}
    PROVE  \/ \E c \in Credentials : AuthenticateCredential(q, c)
           \/ AuthenticateTenant(q) \/ AuthenticatePrincipal(q) \/ AuthenticateRoles(q)
  <1>1. call \in [Requests -> Call] /\ call[q] \in Call
    BY DEF TypeOK
  <1>2. ASSUME NEW r \in Requests, Login(r)
        PROVE  call'[q].step \notin {"tenant", "principal", "roles", "accepted"}
    <2>1. ASSUME NEW u \in Users, LoginTenant(r, u)
          PROVE  call'[q].step \notin {"tenant", "principal", "roles", "accepted"}
      BY <1>1, <2>1 DEF LoginTenant, Idle
    <2>2. CASE LoginUser(r)
      BY <1>1, <2>2 DEF LoginUser, Go, Call
    <2>3. ASSUME NEW s \in SessionIds, LoginCommit(r, s)
          PROVE  call'[q].step \notin {"tenant", "principal", "roles", "accepted"}
      BY <1>1, <2>3, IdleTyped DEF LoginCommit, End
    <2>. QED
      BY <1>2, <2>1, <2>2, <2>3 DEF Login
  <1>3. ASSUME NEW r \in Requests, Handle(r)
        PROVE  call'[q].step \notin {"tenant", "principal", "roles", "accepted"}
    <2>1. ASSUME NEW c \in Call, call' = [call EXCEPT ![r] = c],
                 c.step \notin {"tenant", "principal", "roles", "accepted"}
          PROVE  call'[q].step \notin {"tenant", "principal", "roles", "accepted"}
      BY <1>1, <2>1
    <2>2. CASE End(r)
      BY <2>1, <2>2, IdleTyped DEF End
    <2>3. CASE SetUserStatusCommit(r) /\ Go(r, "revoke")
      BY <1>1, <2>3 DEF Go, Call
    <2>4. ASSUME NEW u \in Users, NEW to \in {"active", "disabled"},
                 SetUserStatusCheck(r, u, to)
          PROVE  call'[q].step \notin {"tenant", "principal", "roles", "accepted"}
      BY <1>1, <2>4 DEF SetUserStatusCheck, Call
    <2>5. ASSUME NEW p \in Principals, CreateApiKeyCheck(r, p)
          PROVE  call'[q].step \notin {"tenant", "principal", "roles", "accepted"}
      BY <1>1, <2>5 DEF CreateApiKeyCheck, Call
    <2>. QED
      BY <1>3, <2>2, <2>3, <2>4, <2>5
         DEF Handle, SetUserStatusCommit, RevokeSessions, CreatePrincipal, CreateRole,
             AssignRole, CreateApiKeyCommit
  <1>4. ASSUME NEW r \in Requests, Refuse(r) \/ Abort(r)
        PROVE  call'[q].step \notin {"tenant", "principal", "roles", "accepted"}
    BY <1>1, <1>4, IdleTyped DEF Refuse, Abort, End
  <1>5. ~Environment
    BY DEF Environment, SetTenantStatus, Logout, Expire, Cleanup
  <1>6. PICK r \in Requests : Authenticate(r)
    BY <1>2, <1>3, <1>4, <1>5 DEF Next
  <1>7. r = q
    BY <1>1, <1>6 DEF Authenticate, AuthenticateCredential, AuthenticateTenant,
                      AuthenticatePrincipal, AuthenticateRoles, Go
  <1>. QED
    BY <1>6, <1>7 DEF Authenticate

LEMMA CheckedStep ==
    ASSUME TypeOK, Checked, Next
    PROVE  Checked'
  <1>. SUFFICES ASSUME NEW q \in Requests,
                       call'[q].step \in {"tenant", "principal", "roles", "accepted"}
                PROVE  /\ call'[q].cred # None /\ "credential" \in seen'[q]
                       /\ call'[q].step # "tenant" => "tenant" \in seen'[q]
                       /\ call'[q].step \in {"roles", "accepted"}
                            => "principal" \in seen'[q]
    BY DEF Checked
  <1>1. call \in [Requests -> Call] /\ call[q] \in Call
    BY DEF TypeOK
  <1>2. CASE call'[q] = call[q]
    BY <1>2, SeenGrows DEF Checked
  <1>3. ASSUME NEW c \in Credentials, AuthenticateCredential(q, c)
        PROVE  /\ call'[q].step = "tenant" /\ call'[q].cred # None
               /\ "credential" \in seen'[q]
    <2>1. call'[q].step = "tenant" /\ call'[q].cred = c /\ c # None
      BY <1>1, <1>3, AccountsAssumption DEF AuthenticateCredential, Idle
    <2>2. InForce(c)'
      BY <1>3 DEF AuthenticateCredential, InForce, Live, tables
    <2>3. "credential" \in PartsOf(q)'
      BY <2>1, <2>2 DEF PartsOf, Parts
    <2>. QED
      BY <2>1, <2>3, SeenGrows
  <1>4. ASSUME AuthenticateTenant(q) \/ AuthenticatePrincipal(q) \/ AuthenticateRoles(q)
        PROVE  call'[q].cred = call[q].cred /\ call[q].step # "idle"
    BY <1>1, <1>4 DEF AuthenticateTenant, AuthenticatePrincipal, AuthenticateRoles, At, Go, Call
  <1>5. CASE AuthenticateTenant(q)
    <2>1. call[q].step = "tenant" /\ call'[q].step = "principal"
      BY <1>1, <1>5 DEF AuthenticateTenant, At, Go, Call
    <2>2. "tenant" \in PartsOf(q)'
      BY <1>5 DEF AuthenticateTenant, PartsOf, Parts, tables
    <2>. QED
      BY <1>4, <1>5, <2>1, <2>2, SeenGrows DEF Checked
  <1>6. CASE AuthenticatePrincipal(q)
    <2>1. call[q].step = "principal" /\ call'[q].step = "roles" /\ call'[q].by = call[q].by
      BY <1>1, <1>6 DEF AuthenticatePrincipal, At, Go, Call
    <2>2. call[q].by # None
      BY <2>1, CallFields, AccountsAssumption DEF At
    <2>3. "principal" \in PartsOf(q)'
      BY <1>6, <2>1, <2>2 DEF AuthenticatePrincipal, PartsOf, Parts, tables
    <2>. QED
      BY <1>4, <1>6, <2>1, <2>3, SeenGrows DEF Checked
  <1>7. CASE AuthenticateRoles(q)
    <2>1. call[q].step = "roles" /\ call'[q].step = "accepted"
      BY <1>1, <1>7 DEF AuthenticateRoles, At, Call
    <2>. QED
      BY <1>4, <1>7, <2>1, SeenGrows DEF Checked
  <1>. QED
    BY <1>2, <1>3, <1>5, <1>6, <1>7, CallMoves

(***************************************************************************)
(* A call is accepted only with a credential, a tenant and a principal     *)
(* that were each in force at some moment of the call, whatever runs       *)
(* between the reads of authenticate.                                      *)
(***************************************************************************)
THEOREM AcceptanceJustified == Spec => []AcceptedWereInForce
  <1>1. Init => Checked
    BY IdleTyped DEF Init, Checked
  <1>2. TypeOK /\ Checked /\ [Next]_vars => Checked'
    <2>1. ASSUME Checked, UNCHANGED vars PROVE Checked'
      BY <2>1 DEF vars, Checked
    <2>. QED
      BY <2>1, CheckedStep
  <1>3. TypeOK /\ Checked => AcceptedWereInForce
    BY DEF TypeOK, Checked, AcceptedWereInForce, At, Parts
  <1>. QED
    BY <1>1, <1>2, <1>3, CredentialsTyped, PTL DEF Spec

-----------------------------------------------------------------------------
\* Session s is excused from the rule that a disabled user has none.
Excused(s) ==
    \/ s \in spared
    \/ \E q \in Requests : At(q, "revoke") /\ call[q].on = sessions[s].user

\* Only these steps take a call from the step that revokes sessions.
LEMMA RevokersStay ==
    ASSUME TypeOK, Next, NEW q \in Requests, At(q, "revoke"), call'[q] # call[q]
    PROVE  RevokeSessions(q) \/ Abort(q)
  <1>1. call \in [Requests -> Call] /\ call[q] \in Call
    BY DEF TypeOK
  <1>2. ASSUME NEW r \in Requests, Login(r) PROVE FALSE
    BY <1>1, <1>2 DEF Login, LoginTenant, LoginUser, LoginCommit, Go, End, At
  <1>3. ASSUME NEW r \in Requests, Authenticate(r) PROVE FALSE
    BY <1>1, <1>3 DEF Authenticate, AuthenticateCredential, AuthenticateTenant,
                      AuthenticatePrincipal, AuthenticateRoles, Go, At
  <1>4. ASSUME NEW r \in Requests, Handle(r) PROVE RevokeSessions(q)
    BY <1>1, <1>4 DEF Handle, SetUserStatusCheck, SetUserStatusCommit, RevokeSessions,
                      CreatePrincipal, CreateRole, AssignRole, CreateApiKeyCheck,
                      CreateApiKeyCommit,
                      Go, End, At
  <1>5. ASSUME NEW r \in Requests, Refuse(r) PROVE FALSE
    BY <1>1, <1>5 DEF Refuse, End, At
  <1>6. ASSUME NEW r \in Requests, Abort(r) PROVE Abort(q)
    BY <1>1, <1>6 DEF Abort, End, At
  <1>7. ~Environment
    BY DEF Environment, SetTenantStatus, Logout, Expire, Cleanup
  <1>. QED
    BY <1>2, <1>3, <1>4, <1>5, <1>6, <1>7 DEF Next

\* Sessions come to life only in login.
LEMMA LiveBefore ==
    ASSUME TypeOK, Next, NEW s \in SessionIds, Live(s)',
           ~\E q \in Requests : LoginCommit(q, s)
    PROVE  Live(s) /\ sessions'[s].user = sessions[s].user
  <1>1. sessions \in [SessionIds -> Session] /\ sessions[s] \in Session
    BY DEF TypeOK
  <1>2. CASE sessions' = sessions
    BY <1>2 DEF Live
  <1>3. ASSUME NEW S, NEW st \in {"revoked", "deleted"},
               sessions' = [t \in SessionIds |->
                              IF t \in S THEN [sessions[t] EXCEPT !.state = st] ELSE sessions[t]]
        PROVE  Live(s) /\ sessions'[s].user = sessions[s].user
    BY <1>1, <1>3 DEF Live, Session
  <1>4. ASSUME NEW t \in SessionIds, Logout(t) \/ Expire(t)
        PROVE  Live(s) /\ sessions'[s].user = sessions[s].user
    BY <1>1, <1>4 DEF Live, Logout, Expire, Session
  <1>5. ASSUME NEW q \in Requests, NEW t \in SessionIds, LoginCommit(q, t)
        PROVE  Live(s) /\ sessions'[s].user = sessions[s].user
    BY <1>1, <1>5 DEF Live, LoginCommit
  <1>6. ASSUME NEW q \in Requests, Login(q)
        PROVE  sessions' = sessions \/ \E t \in SessionIds : LoginCommit(q, t)
    BY <1>6 DEF Login, LoginTenant, LoginUser, tables
  <1>7. ASSUME NEW q \in Requests, Authenticate(q) \/ Refuse(q) \/ Abort(q)
        PROVE  sessions' = sessions
    BY <1>7 DEF Authenticate, AuthenticateCredential, AuthenticateTenant,
                AuthenticatePrincipal, AuthenticateRoles, Refuse, Abort, tables
  <1>8. ASSUME NEW q \in Requests, Handle(q)
        PROVE  sessions' = sessions \/ RevokeSessions(q)
    BY <1>8 DEF Handle, SetUserStatusCheck, SetUserStatusCommit, CreatePrincipal,
                CreateRole, AssignRole, CreateApiKeyCheck, CreateApiKeyCommit, tables
  <1>9. ASSUME NEW q \in Requests, RevokeSessions(q)
        PROVE  Live(s) /\ sessions'[s].user = sessions[s].user
    BY <1>3, <1>9 DEF RevokeSessions
  <1>10. CASE Environment
    <2>1. CASE Cleanup
      <3>. DEFINE S == {t \in SessionIds : Dead(t)}
      <3>1. sessions' = [t \in SessionIds |->
                           IF t \in S THEN [sessions[t] EXCEPT !.state = "deleted"]
                           ELSE sessions[t]]
        BY <2>1 DEF Cleanup
      <3>. HIDE DEF S
      <3>. QED
        BY <1>3, <3>1
    <2>. QED
      BY <1>2, <1>4, <1>10, <2>1 DEF Environment, SetTenantStatus
  <1>. QED
    BY <1>2, <1>5, <1>6, <1>7, <1>8, <1>9, <1>10 DEF Next

\* A principal is disabled only by set_user_status.
LEMMA DisabledBefore ==
    ASSUME TypeOK, Next, NEW p \in Principals, status'[p] = "disabled", status[p] # "disabled"
    PROVE  \E q \in Requests : SetUserStatusCommit(q)
  <1>1. status \in [Principals -> {"absent", "active", "disabled"}]
    BY DEF TypeOK
  <1>2. status' # status
    OBVIOUS
  <1>3. ASSUME NEW q \in Requests, Login(q) \/ Authenticate(q) \/ Refuse(q) \/ Abort(q)
        PROVE  FALSE
    BY <1>2, <1>3 DEF Login, LoginTenant, LoginUser, LoginCommit, Authenticate,
                      AuthenticateCredential, AuthenticateTenant, AuthenticatePrincipal,
                      AuthenticateRoles, Refuse, Abort, tables
  <1>4. ASSUME NEW q \in Requests, Handle(q)
        PROVE  \/ SetUserStatusCommit(q)
               \/ \E r \in Principals, given \in SUBSET RoleKeys : CreatePrincipal(q, r, given)
    BY <1>2, <1>4 DEF Handle, SetUserStatusCheck, RevokeSessions, CreateRole, AssignRole,
                      CreateApiKeyCheck, CreateApiKeyCommit, tables
  <1>5. ASSUME NEW q \in Requests, NEW r \in Principals, NEW given \in SUBSET RoleKeys,
               CreatePrincipal(q, r, given)
        PROVE  FALSE
    BY <1>1, <1>5 DEF CreatePrincipal
  <1>6. ~Environment
    BY <1>2 DEF Environment, SetTenantStatus, Logout, Expire, Cleanup
  <1>. QED
    BY <1>3, <1>4, <1>5, <1>6 DEF Next

\* Sessions are spared by the end of a login or of a call that is cut off.
LEMMA WhoSpares ==
    ASSUME Next
    PROVE  /\ \/ spared' = spared
              \/ \E q \in Requests, s \in SessionIds : LoginCommit(q, s)
              \/ \E q \in Requests : Abort(q)
           /\ aborts' = aborts \/ \E q \in Requests : Abort(q)
  <1>1. ASSUME NEW q \in Requests, Login(q)
        PROVE  spared' = spared \/ \E s \in SessionIds : LoginCommit(q, s)
    BY <1>1 DEF Login, LoginTenant, LoginUser
  <1>2. ASSUME NEW q \in Requests, Authenticate(q) PROVE spared' = spared
    BY <1>2 DEF Authenticate, AuthenticateCredential, AuthenticateTenant,
                AuthenticatePrincipal, AuthenticateRoles
  <1>3. ASSUME NEW q \in Requests, Handle(q) PROVE spared' = spared
    BY <1>3 DEF Handle, SetUserStatusCheck, SetUserStatusCommit, RevokeSessions,
                CreatePrincipal, CreateRole, AssignRole, CreateApiKeyCheck,
                CreateApiKeyCommit
  <1>4. ASSUME NEW q \in Requests, Refuse(q) PROVE spared' = spared
    BY <1>4 DEF Refuse
  <1>5. Environment => spared' = spared
    BY DEF Environment, SetTenantStatus, Logout, Expire, Cleanup
  <1>. QED
    BY <1>1, <1>2, <1>3, <1>4, <1>5 DEF Next

LEMMA SparedStep ==
    ASSUME TypeOK, OnlySparedSurvive, Next
    PROVE  OnlySparedSurvive'
  <1>. SUFFICES ASSUME NEW s \in SessionIds,
                       Live(s)', status'[sessions'[s].user] = "disabled"
                PROVE  Excused(s)'
    BY DEF OnlySparedSurvive, Excused
  <1>1. /\ call \in [Requests -> Call] /\ status \in [Principals -> {"absent", "active", "disabled"}]
        /\ sessions \in [SessionIds -> Session] /\ sessions[s] \in Session
    BY DEF TypeOK
  <1>2. spared \subseteq spared'
    BY WhoSpares DEF LoginCommit, Abort
  <1>3. ASSUME NEW q \in Requests, LoginCommit(q, s)
        PROVE  Excused(s)'
    <2>1. sessions'[s].user = call[q].by
      BY <1>1, <1>3 DEF LoginCommit
    <2>2. status[call[q].by] # "active"
      BY <1>3, <2>1 DEF LoginCommit
    <2>. QED
      BY <1>3, <2>2 DEF LoginCommit, Excused
  \* Its user is disabled by this step, which then goes on to revoke.
  <1>4. ASSUME NEW q \in Requests, SetUserStatusCommit(q),
               status[sessions[s].user] # "disabled"
        PROVE  Excused(s)'
    <2>1. sessions' = sessions
      BY <1>4 DEF SetUserStatusCommit
    <2>2. call[q].on = sessions[s].user /\ call[q].to = "disabled"
      BY <1>1, <1>4, <2>1, CallFields DEF SetUserStatusCommit, At
    <2>3. call'[q].step = "revoke" /\ call'[q].on = call[q].on
      BY <1>1, <1>4, <2>2 DEF SetUserStatusCommit, Go, Call
    <2>. QED
      BY <2>1, <2>2, <2>3 DEF Excused, At
  \* The call that is to revoke it does so, or is cut off.
  <1>5. ASSUME NEW q \in Requests, RevokeSessions(q), s \in SessionsOf(call[q].on)
        PROVE  FALSE
    BY <1>1, <1>5 DEF RevokeSessions, Live, Session
  <1>6. ASSUME NEW q \in Requests, Abort(q), At(q, "revoke"), s \in SessionsOf(call[q].on)
        PROVE  Excused(s)'
    BY <1>6 DEF Abort, Excused
  \* Otherwise the session was live and its user disabled before.
  <1>7. CASE /\ ~\E q \in Requests : LoginCommit(q, s)
             /\ ~\E q \in Requests : SetUserStatusCommit(q) /\ status[sessions[s].user] # "disabled"
    <2>1. Live(s) /\ sessions'[s].user = sessions[s].user
      BY <1>7, LiveBefore
    <2>2. status[sessions[s].user] = "disabled"
      <3>1. sessions[s].user \in Principals
        BY <1>1, <2>1 DEF Live, Session, Principals
      <3>. QED
        BY <1>7, <2>1, <3>1, DisabledBefore
    <2>3. Excused(s)
      BY <2>1, <2>2 DEF OnlySparedSurvive, Excused
    <2>4. CASE s \in spared
      BY <1>2, <2>4 DEF Excused
    <2>5. CASE \E q \in Requests : At(q, "revoke") /\ call[q].on = sessions[s].user
      <3>1. PICK q \in Requests : At(q, "revoke") /\ call[q].on = sessions[s].user
        BY <2>5
      <3>2. CASE call'[q] = call[q]
        BY <2>1, <3>1, <3>2 DEF Excused, At
      <3>3. CASE call'[q] # call[q]
        <4>1. s \in SessionsOf(call[q].on)
          BY <2>1, <3>1 DEF SessionsOf
        <4>. QED
          BY <1>5, <1>6, <3>1, <3>3, <4>1, RevokersStay
      <3>. QED
        BY <3>2, <3>3
    <2>. QED
      BY <2>3, <2>4, <2>5 DEF Excused
  <1>. QED
    BY <1>3, <1>4, <1>7

(***************************************************************************)
(* However calls interleave and wherever they are cut off, the live        *)
(* sessions of a disabled user are those about to be revoked, those of a   *)
(* login that overlapped the disabling and those of a disabling cut off    *)
(* before revoke_sessions_for_user.                                        *)
(***************************************************************************)
THEOREM DisablingMissesOnly == Spec => []OnlySparedSurvive
  <1>1. Init => OnlySparedSurvive
    BY DEF Init, OnlySparedSurvive, Live, Unused
  <1>2. TypeOK /\ OnlySparedSurvive /\ [Next]_vars => OnlySparedSurvive'
    <2>1. ASSUME OnlySparedSurvive, UNCHANGED vars PROVE OnlySparedSurvive'
      BY <2>1 DEF vars, tables, OnlySparedSurvive, Live, At
    <2>. QED
      BY <2>1, SparedStep
  <1>. QED
    BY <1>1, <1>2, CredentialsTyped, PTL DEF Spec

-----------------------------------------------------------------------------
(***************************************************************************)
(* One call at a time.  What a call has read of its principal is then      *)
(* still so at its later steps: the principal of a verified call is active *)
(* and has the roles that were read, and that of a call about to disable   *)
(* someone manages the tenant's users and is not the one disabled.         *)
(***************************************************************************)
OneRequest == \A q, r \in Requests : q = r
NeverCutOff == MaxAborts = 0

HasAWayIn(p) == p \in Users \/ \E k \in KeyIds : keys[k] = p

\* What a call c may rely on.
StandsOn(c) ==
    /\ c.step \in {"login_commit", "roles", "accepted", "write_status"} =>
           status[c.by] = "active"
    /\ c.step \in {"tenant", "principal", "roles", "accepted"} => HasAWayIn(c.by)
    /\ c.step = "accepted" => c.roles \subseteq assigned[c.by]
    /\ c.step = "write_status" =>
           ManagesUsers(c.by) /\ (c.to = "disabled" => c.on # c.by)

Standing == \A q \in Requests : StandsOn(call[q])

Governed == TypeOK /\ Standing /\ AUserManagerRemains

\* What the standing of a call depends on.
authority == <<status, roles, assigned, keys>>

\* Who manages users goes on doing so while active: roles keep their grants,
\* and no operation takes a role or a key away.
LEMMA ManagersStay ==
    ASSUME NEW p \in Principals, ManagesUsers(p), status'[p] = "active",
           \A k \in DOMAIN roles : k \in DOMAIN roles' /\ roles'[k] = roles[k],
           assigned[p] \subseteq assigned'[p],
           \A k \in KeyIds : keys[k] = p => keys'[k] = p
    PROVE  ManagesUsers(p)'
  <1>1. ASSUME NEW permission \in {"configure users", "read users"}
        PROVE  Permits(assigned[p], p, permission)'
    <2>1. PICK k \in assigned[p] \cap DOMAIN roles : p \in roles[k][permission]
      BY DEF ManagesUsers, Permits
    <2>2. k \in assigned'[p] \cap DOMAIN roles' /\ p \in roles'[k][permission]
      BY <2>1
    <2>. QED
      BY <2>2 DEF Permits
  <1>. QED
    BY <1>1 DEF ManagesUsers

LEMMA SomeManagerStays ==
    ASSUME TypeOK, AUserManagerRemains,
           \A p \in Principals : status[p] = "active" => status'[p] = "active",
           \A k \in DOMAIN roles : k \in DOMAIN roles' /\ roles'[k] = roles[k],
           \A p \in Principals : assigned[p] \subseteq assigned'[p],
           \A k \in KeyIds : keys[k] # None => keys'[k] = keys[k]
    PROVE  AUserManagerRemains'
  <1>1. PICK p \in Principals : ManagesUsers(p)
    BY DEF AUserManagerRemains
  <1>2. status'[p] = "active" /\ \A k \in KeyIds : keys[k] = p => keys'[k] = p
    BY <1>1, AccountsAssumption DEF ManagesUsers
  <1>3. ManagesUsers(p)'
    BY <1>1, <1>2, ManagersStay
  <1>. QED
    BY <1>3 DEF AUserManagerRemains

\* A call that ends relies on nothing.
LEMMA EndStands ==
    ASSUME OneRequest, TypeOK, NEW q \in Requests, End(q)
    PROVE  Standing'
  <1>1. ASSUME NEW r \in Requests PROVE call'[r].step = "idle"
    BY IdleTyped DEF OneRequest, End, TypeOK
  <1>. QED
    BY <1>1 DEF Standing, StandsOn

\* A call that goes on, over tables as they were.
LEMMA CallStands ==
    ASSUME OneRequest, TypeOK, NEW q \in Requests, NEW c, StandsOn(c),
           call' = [call EXCEPT ![q] = c], UNCHANGED authority
    PROVE  Standing'
  <1>1. \A r \in Requests : call'[r] = c
    BY DEF OneRequest, TypeOK
  <1>2. ManagesUsers(c.by) => ManagesUsers(c.by)'
    BY DEF ManagesUsers, Permits, authority
  <1>3. HasAWayIn(c.by) => HasAWayIn(c.by)'
    BY DEF HasAWayIn, authority
  <1>. QED
    BY <1>1, <1>2, <1>3 DEF Standing, StandsOn, authority

LEMMA LoginStands ==
    ASSUME OneRequest, Governed, NEW q \in Requests, Login(q)
    PROVE  Standing' /\ UNCHANGED authority
  <1>1. ASSUME NEW u \in Users, LoginTenant(q, u)
        PROVE  Standing' /\ UNCHANGED authority
    <2>. DEFINE c == [Idle EXCEPT !.step = "login_user", !.by = u]
    <2>1. /\ c.step = "login_user" /\ call' = [call EXCEPT ![q] = c]
          /\ UNCHANGED authority
      BY <1>1 DEF LoginTenant, Idle, tables, authority
    <2>. HIDE DEF c
    <2>. QED
      BY <2>1, CallStands DEF Governed, StandsOn
  <1>2. CASE LoginUser(q)
    <2>. DEFINE c == [call[q] EXCEPT !.step = "login_commit"]
    <2>1. /\ c.step = "login_commit" /\ c.by = call[q].by
          /\ call' = [call EXCEPT ![q] = c] /\ UNCHANGED authority
          /\ status[call[q].by] = "active"
      BY <1>2 DEF LoginUser, Go, Governed, TypeOK, Call, tables, authority
    <2>. HIDE DEF c
    <2>. QED
      BY <2>1, CallStands DEF Governed, StandsOn
  <1>3. ASSUME NEW s \in SessionIds, LoginCommit(q, s)
        PROVE  Standing' /\ UNCHANGED authority
    BY <1>3, EndStands DEF LoginCommit, Governed, authority
  <1>. QED
    BY <1>1, <1>2, <1>3 DEF Login

LEMMA AuthenticateStands ==
    ASSUME OneRequest, Governed, NEW q \in Requests, Authenticate(q)
    PROVE  Standing' /\ UNCHANGED authority
  <1>1. ASSUME NEW k \in Credentials, AuthenticateCredential(q, k)
        PROVE  Standing' /\ UNCHANGED authority
    <2>. DEFINE c == [Idle EXCEPT !.step = "tenant", !.cred = k, !.by = Holder(k)]
    <2>1. /\ c.step = "tenant" /\ c.by = Holder(k) /\ call' = [call EXCEPT ![q] = c]
          /\ UNCHANGED authority
      BY <1>1 DEF AuthenticateCredential, Idle, tables, authority
    <2>2. HasAWayIn(Holder(k))
      <3>1. CASE k \in SessionIds
        BY <1>1, <3>1 DEF AuthenticateCredential, InForce, Live, Holder, HasAWayIn,
                          Governed, TypeOK, Session
      <3>2. CASE k \in KeyIds
        BY <3>2, AccountsAssumption DEF Holder, HasAWayIn
      <3>. QED
        BY <3>1, <3>2 DEF Credentials
    <2>. HIDE DEF c
    <2>. QED
      BY <2>1, <2>2, CallStands DEF Governed, StandsOn
  <1>2. CASE AuthenticateTenant(q)
    <2>. DEFINE c == [call[q] EXCEPT !.step = "principal"]
    <2>1. /\ c.step = "principal" /\ c.by = call[q].by
          /\ call' = [call EXCEPT ![q] = c] /\ UNCHANGED authority
      BY <1>2 DEF AuthenticateTenant, Go, Governed, TypeOK, Call, tables, authority
    <2>2. HasAWayIn(call[q].by)
      BY <1>2 DEF AuthenticateTenant, At, Governed, Standing, StandsOn
    <2>. HIDE DEF c
    <2>. QED
      BY <2>1, <2>2, CallStands DEF Governed, StandsOn
  <1>3. CASE AuthenticatePrincipal(q)
    <2>. DEFINE c == [call[q] EXCEPT !.step = "roles"]
    <2>1. /\ c.step = "roles" /\ c.by = call[q].by
          /\ call' = [call EXCEPT ![q] = c] /\ UNCHANGED authority
          /\ status[call[q].by] = "active"
      BY <1>3 DEF AuthenticatePrincipal, Go, Governed, TypeOK, Call, tables, authority
    <2>2. HasAWayIn(call[q].by)
      BY <1>3 DEF AuthenticatePrincipal, At, Governed, Standing, StandsOn
    <2>. HIDE DEF c
    <2>. QED
      BY <2>1, <2>2, CallStands DEF Governed, StandsOn
  <1>4. CASE AuthenticateRoles(q)
    <2>. DEFINE c == [call[q] EXCEPT !.step = "accepted", !.roles = assigned[call[q].by]]
    <2>1. call[q] \in Call /\ call \in [Requests -> Call]
      BY DEF Governed, TypeOK
    <2>2. /\ c.step = "accepted" /\ c.by = call[q].by
          /\ c.roles = assigned[call[q].by]
          /\ call' = [call EXCEPT ![q] = c] /\ UNCHANGED authority
      BY <1>4, <2>1 DEF AuthenticateRoles, Call, tables, authority
    <2>3. status[call[q].by] = "active" /\ HasAWayIn(call[q].by)
      BY <1>4 DEF AuthenticateRoles, At, Governed, Standing, StandsOn
    <2>. HIDE DEF c
    <2>. QED
      BY <2>2, <2>3, CallStands DEF Governed, StandsOn
  <1>. QED
    BY <1>1, <1>2, <1>3, <1>4 DEF Authenticate

\* The one who disables another goes on managing users.
LEMMA SetUserStatusGoverned ==
    ASSUME OneRequest, Governed, NEW q \in Requests, SetUserStatusCommit(q)
    PROVE  Standing' /\ AUserManagerRemains'
  <1>1. /\ status \in [Principals -> {"absent", "active", "disabled"}]
        /\ call[q].by \in Principals /\ call[q].on \in Principals
        /\ call[q].to \in {"active", "disabled"}
    BY CallFields DEF Governed, TypeOK, SetUserStatusCommit, At
  <1>2. /\ status' = [status EXCEPT ![call[q].on] = call[q].to]
        /\ UNCHANGED <<roles, assigned, keys>>
    BY DEF SetUserStatusCommit
  <1>3. AUserManagerRemains'
    <2>1. CASE call[q].to = "active"
      <3>1. \A p \in Principals : status[p] = "active" => status'[p] = "active"
        BY <1>1, <1>2, <2>1
      <3>. QED
        BY <1>2, <3>1, SomeManagerStays DEF Governed
    <2>2. CASE call[q].to = "disabled"
      <3>1. ManagesUsers(call[q].by) /\ call[q].on # call[q].by
        BY <2>2 DEF SetUserStatusCommit, At, Governed, Standing, StandsOn
      <3>2. status'[call[q].by] = "active"
        BY <1>1, <1>2, <3>1 DEF ManagesUsers
      <3>3. ASSUME NEW p \in Principals, p = call[q].by
            PROVE  ManagesUsers(p)'
        BY <1>2, <3>1, <3>2, <3>3, ManagersStay
      <3>. QED
        BY <1>1, <3>3 DEF AUserManagerRemains
    <2>. QED
      BY <1>1, <2>1, <2>2
  <1>4. CASE End(q)
    BY <1>3, <1>4, EndStands DEF Governed
  <1>5. CASE Go(q, "revoke")
    <2>1. \A r \in Requests : call'[r].step = "revoke"
      BY <1>5 DEF Go, OneRequest, Governed, TypeOK, Call
    <2>. QED
      BY <1>3, <2>1 DEF Standing, StandsOn
  <1>. QED
    BY <1>4, <1>5 DEF SetUserStatusCommit

LEMMA HandleGoverned ==
    ASSUME OneRequest, Governed, NEW q \in Requests, Handle(q)
    PROVE  Standing' /\ AUserManagerRemains'
  <1>. DEFINE Kept == Standing' /\ AUserManagerRemains'
  <1>0. call[q] \in Call /\ call \in [Requests -> Call] /\ TypeOK /\ AUserManagerRemains
    BY DEF Governed, TypeOK
  <1>1. ASSUME NEW u \in Users, NEW to \in {"active", "disabled"},
               SetUserStatusCheck(q, u, to)
        PROVE  Kept
    <2>. DEFINE c == [call[q] EXCEPT !.step = "write_status", !.on = u, !.to = to]
    <2>1. /\ c.step = "write_status" /\ c.by = call[q].by /\ c.on = u /\ c.to = to
          /\ call' = [call EXCEPT ![q] = c] /\ UNCHANGED authority
      BY <1>0, <1>1 DEF SetUserStatusCheck, Call, tables, authority
    <2>2. /\ status[call[q].by] = "active" /\ HasAWayIn(call[q].by)
          /\ call[q].roles \subseteq assigned[call[q].by]
          /\ to = "disabled" => u # call[q].by
      BY <1>1 DEF SetUserStatusCheck, At, Governed, Standing, StandsOn
    <2>3. ASSUME NEW permission \in {"configure users", "read users"}
          PROVE  Permits(assigned[call[q].by], call[q].by, permission)
      BY <1>1, <2>2 DEF SetUserStatusCheck, Allowed, Permits
    <2>4. ManagesUsers(call[q].by)
      BY <2>2, <2>3 DEF ManagesUsers, HasAWayIn
    <2>. HIDE DEF c
    <2>5. Standing'
      BY <1>0, <2>1, <2>2, <2>4, CallStands DEF StandsOn
    <2>. QED
      BY <1>0, <2>1, <2>5, SomeManagerStays DEF authority
  <1>2. CASE SetUserStatusCommit(q)
    BY <1>2, SetUserStatusGoverned
  <1>3. CASE RevokeSessions(q)
    BY <1>0, <1>3, EndStands, SomeManagerStays DEF RevokeSessions
  <1>4. ASSUME NEW p \in Principals, NEW given \in SUBSET RoleKeys,
               CreatePrincipal(q, p, given)
        PROVE  Kept
    <2>1. /\ End(q) /\ UNCHANGED <<roles, keys>>
          /\ \A x \in Principals : status[x] = "active" => status'[x] = "active"
          /\ \A x \in Principals : assigned[x] \subseteq assigned'[x]
      BY <1>0, <1>4 DEF CreatePrincipal, TypeOK
    <2>. QED
      BY <1>0, <2>1, EndStands, SomeManagerStays
  <1>5. ASSUME NEW p \in Principals, NEW k \in RoleKeys, AssignRole(q, p, k)
        PROVE  Kept
    <2>1. /\ End(q) /\ UNCHANGED <<status, roles, keys>>
          /\ \A x \in Principals : assigned[x] \subseteq assigned'[x]
      BY <1>0, <1>5 DEF AssignRole, TypeOK
    <2>. QED
      BY <1>0, <2>1, EndStands, SomeManagerStays
  <1>6. ASSUME NEW k \in RoleKeys, NEW grants \in RoleGrants, CreateRole(q, k, grants)
        PROVE  Kept
    <2>1. /\ End(q) /\ UNCHANGED <<status, assigned, keys>>
          /\ \A r \in DOMAIN roles : r \in DOMAIN roles' /\ roles'[r] = roles[r]
      BY <1>6 DEF CreateRole
    <2>. QED
      BY <1>0, <2>1, EndStands, SomeManagerStays
  <1>7. ASSUME NEW p \in Principals, CreateApiKeyCheck(q, p)
        PROVE  Kept
    <2>. DEFINE c == [call[q] EXCEPT !.step = "write_key", !.on = p]
    <2>1. /\ c.step = "write_key" /\ call' = [call EXCEPT ![q] = c]
          /\ UNCHANGED authority
      BY <1>0, <1>7 DEF CreateApiKeyCheck, Call, tables, authority
    <2>. HIDE DEF c
    <2>2. Standing'
      BY <1>0, <2>1, CallStands DEF StandsOn
    <2>. QED
      BY <1>0, <2>1, <2>2, SomeManagerStays DEF authority
  <1>8. ASSUME NEW k \in KeyIds, CreateApiKeyCommit(q, k)
        PROVE  Kept
    <2>1. /\ End(q) /\ UNCHANGED <<status, roles, assigned>>
          /\ \A j \in KeyIds : keys[j] # None => keys'[j] = keys[j]
      BY <1>0, <1>8 DEF CreateApiKeyCommit, TypeOK
    <2>. QED
      BY <1>0, <2>1, EndStands, SomeManagerStays
  <1>. QED
    BY <1>1, <1>2, <1>3, <1>4, <1>5, <1>6, <1>7, <1>8 DEF Handle

\* Nothing that decides who manages users has changed.
LEMMA RestStands ==
    ASSUME Governed, UNCHANGED authority
    PROVE  AUserManagerRemains' /\ (call' = call => Standing')
  <1>1. AUserManagerRemains'
    BY SomeManagerStays DEF Governed, authority
  <1>2. ASSUME call' = call, NEW q \in Requests
        PROVE  StandsOn(call[q])'
    BY <1>2 DEF Governed, Standing, StandsOn, HasAWayIn, ManagesUsers, Permits, authority
  <1>. QED
    BY <1>1, <1>2 DEF Standing

LEMMA GovernedStep ==
    ASSUME OneRequest, Governed, [Next]_vars
    PROVE  Governed'
  <1>1. CASE UNCHANGED vars
    <2>1. UNCHANGED authority /\ call' = call
      BY <1>1 DEF vars, tables, authority
    <2>2. TypeOK'
      BY <1>1 DEF vars, tables, Governed, TypeOK
    <2>. QED
      BY <2>1, <2>2, RestStands DEF Governed
  <1>2. CASE Next
    <2>1. TypeOK'
      BY <1>2, TypeStep DEF Governed
    <2>2. ASSUME NEW q \in Requests, Login(q) \/ Authenticate(q)
          PROVE  Standing' /\ AUserManagerRemains'
      BY <2>2, LoginStands, AuthenticateStands, RestStands
    <2>3. ASSUME NEW q \in Requests, Refuse(q) \/ Abort(q)
          PROVE  Standing' /\ AUserManagerRemains'
      <3>1. End(q) /\ UNCHANGED authority
        BY <2>3 DEF Refuse, Abort, tables, authority
      <3>. QED
        BY <3>1, EndStands, RestStands DEF Governed
    <2>4. ASSUME Environment
          PROVE  Standing' /\ AUserManagerRemains'
      <3>1. UNCHANGED authority /\ call' = call
        BY <2>4 DEF Environment, SetTenantStatus, Logout, Expire, Cleanup, authority
      <3>. QED
        BY <3>1, RestStands
    <2>. QED
      BY <1>2, <2>1, <2>2, <2>3, <2>4, HandleGoverned DEF Next, Governed
  <1>. QED
    BY <1>1, <1>2

\* The founder manages users from the start.
LEMMA GovernedAlways == ASSUME OneRequest PROVE Spec => []Governed
  <1>1. Init => Governed
    <2>. SUFFICES ASSUME Init PROVE Governed
      OBVIOUS
    <2>1. Standing
      BY IdleTyped DEF Init, Standing, StandsOn
    <2>2. /\ Founder \in Principals /\ status[Founder] = "active"
          /\ assigned[Founder] = {"tenant_admin"} /\ DOMAIN roles = {"tenant_admin"}
          /\ \A permission \in Permissions : Founder \in roles["tenant_admin"][permission]
      BY AccountsAssumption DEF Init, Principals
    <2>3. \A permission \in {"configure users", "read users"} :
              Permits(assigned[Founder], Founder, permission)
      BY <2>2 DEF Permits, Permissions
    <2>4. ManagesUsers(Founder)
      BY <2>2, <2>3, AccountsAssumption DEF ManagesUsers
    <2>. QED
      BY <2>1, <2>2, <2>4, TypeInit DEF Governed, AUserManagerRemains
  <1>2. Governed /\ [Next]_vars => Governed'
    BY GovernedStep
  <1>. QED
    BY <1>1, <1>2, PTL DEF Spec

(***************************************************************************)
(* With one call at a time, cut off anywhere, the check that nobody        *)
(* disables their own account keeps someone active who manages the users   *)
(* of the tenant, whichever roles exist and whoever they are assigned to.  *)
(***************************************************************************)
THEOREM UserManagersRemain == OneRequest => (Spec => []AUserManagerRemains)
  <1>. SUFFICES ASSUME OneRequest PROVE Spec => []AUserManagerRemains
    OBVIOUS
  <1>1. Governed => AUserManagerRemains
    BY DEF Governed
  <1>. QED
    BY <1>1, GovernedAlways, PTL

\* With no call cut off and no other call in between no session is missed.
NobodySpared == spared = {} /\ aborts = 0

LEMMA SparedNobody ==
    ASSUME OneRequest, NeverCutOff, Governed, NobodySpared, [Next]_vars
    PROVE  NobodySpared'
  <1>1. CASE UNCHANGED vars
    BY <1>1 DEF vars, NobodySpared
  <1>2. ASSUME NEW q \in Requests, Abort(q) PROVE FALSE
    BY <1>2 DEF Abort, NeverCutOff, NobodySpared
  <1>3. ASSUME NEW q \in Requests, NEW s \in SessionIds, LoginCommit(q, s)
        PROVE  spared' = spared
    BY <1>3 DEF LoginCommit, Governed, Standing, StandsOn, At
  <1>4. CASE Next
    <2>1. spared' = spared /\ aborts' = aborts
      BY <1>2, <1>3, <1>4, WhoSpares
    <2>. QED
      BY <2>1 DEF NobodySpared
  <1>. QED
    BY <1>1, <1>4

(***************************************************************************)
(* With one call at a time and none cut off, a disabled user has no live   *)
(* session once the disabling is through: nothing comes between the read   *)
(* of the user and the session a login inserts.                            *)
(***************************************************************************)
THEOREM DisablingIsComplete ==
    OneRequest /\ NeverCutOff => (Spec => []DisabledHasNoSessions)
  <1>. SUFFICES ASSUME OneRequest, NeverCutOff PROVE Spec => []DisabledHasNoSessions
    OBVIOUS
  <1>1. Init => NobodySpared
    BY DEF Init, NobodySpared
  <1>2. Governed /\ NobodySpared /\ [Next]_vars => NobodySpared'
    BY SparedNobody
  <1>3. OnlySparedSurvive /\ NobodySpared => DisabledHasNoSessions
    BY DEF OnlySparedSurvive, NobodySpared, DisabledHasNoSessions
  <1>. QED
    BY <1>1, <1>2, <1>3, GovernedAlways, DisablingMissesOnly, PTL DEF Spec
=============================================================================
