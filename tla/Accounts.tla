------------------------------ MODULE Accounts ------------------------------
(***************************************************************************)
(* Who may do what in one tenant: accounts and roles (routers/admin.py),   *)
(* login and SSO (routers/auth.py), the check of every request (deps.py,   *)
(* reo_common/security.py).                                                *)
(*                                                                         *)
(* A request is authorised by the account as the database has it then, not *)
(* by its token.  An update reads the account, counts the administrators,  *)
(* and commits: three statements, no lock.                                 *)
(*                                                                         *)
(* Abstractions: of the roles, the two that administer; tokens do not      *)
(* expire; what a login counts is in LoginThrottle.                        *)
(***************************************************************************)
EXTENDS Integers, FiniteSets

CONSTANTS Users, FirstAdmin, nobody,
          Updates       \* administrative requests, each made once

Roles == {"tenant_admin", "platform_admin"}
Row == [active : BOOLEAN, roles : SUBSET Roles]

ASSUME AccountAssumption ==
  /\ FirstAdmin \in Users /\ nobody \notin Row
  /\ nobody \notin BOOLEAN /\ \A roles \in SUBSET Roles : roles # nobody

VARIABLES account,      \* User rows
          signedIn,     \* users who hold a token
          update,       \* what each administrative request does
          ssoState      \* users on their way through the identity provider

accountVars == <<account, signedIn, update, ssoState>>

Exists(u) == account[u] # nobody
IsAdmin(a) == a # nobody /\ a.active /\ "tenant_admin" \in a.roles
Admins == {u \in Users : IsAdmin(account[u])}
Waiting == [pc |-> "idle", by |-> nobody, who |-> nobody, seen |-> nobody,
            change |-> nobody, overtaken |-> FALSE]
Done == [Waiting EXCEPT !.pc = "done"]

(* bootstrap.py has created the tenant and its first administrator.        *)
AccountInit ==
  /\ \E platform \in BOOLEAN :
       account = [u \in Users |->
         IF u # FirstAdmin THEN nobody
         ELSE [active |-> TRUE, roles |-> {"tenant_admin"} \union
                                          (IF platform THEN {"platform_admin"} ELSE {})]]
  /\ signedIn = {} /\ ssoState = {} /\ update = [r \in Updates |-> Waiting]

-----------------------------------------------------------------------------
(* deps.py: the account as it is now.  AuthContext.permissions: the        *)
(* platform administrator has every permission.                            *)
MayManageUsers(u) ==
  Exists(u) /\ account[u].active /\ account[u].roles \intersect Roles # {}

Authorise(r, u) ==
  /\ update[r].pc = "idle" /\ u \in signedIn /\ MayManageUsers(u)
  /\ update' = [update EXCEPT ![r].pc = "authorised", ![r].by = u]
  /\ UNCHANGED <<account, signedIn, ssoState>>

(* What others commit while a request is under way.                        *)
Overtake(r) ==
  [q \in Updates |->
     IF q = r THEN Done
     ELSE [update[q] EXCEPT !.overtaken = @ \/ update[q].pc \in {"read", "counted"}]]

CreateUser(r, u) ==
  /\ update[r].pc = "authorised" /\ ~Exists(u)
  /\ \E roles \in {{}, {"tenant_admin"}} :
       account' = [account EXCEPT ![u] = [active |-> TRUE, roles |-> roles]]
  /\ update' = Overtake(r)
  /\ UNCHANGED <<signedIn, ssoState>>

(* update_user: new roles (never the platform's), a new state, or both;    *)
(* nobody stands for a field that is not in the body.                      *)
Changes == [roles : {nobody, {}, {"tenant_admin"}}, active : {nobody, TRUE, FALSE}]

ReadUser(r, u, change) ==
  /\ update[r].pc = "authorised" /\ Exists(u)
  /\ update' = [update EXCEPT ![r].pc = "read", ![r].who = u,
                              ![r].seen = account[u], ![r].change = change]
  /\ UNCHANGED <<account, signedIn, ssoState>>

LosesAdmin(seen, change) ==
  /\ IsAdmin(seen)
  /\ \/ change.roles # nobody /\ "tenant_admin" \notin change.roles
     \/ change.active = FALSE

(* _active_tenant_admins: the row the session has read before keeps the    *)
(* roles it had then.                                                      *)
Counted(u, r) ==
  IF u = update[r].who
  THEN account[u].active /\ "tenant_admin" \in update[r].seen.roles
  ELSE IsAdmin(account[u])

(* Mutant: the count includes administrators who are deactivated.          *)
CountAdminsAny(r) ==
  LET x == update[r] IN
    /\ x.pc = "read"
    /\ LET refused ==
             \/ /\ LosesAdmin(x.seen, x.change)
                /\ Cardinality({u \in Users :
                     Exists(u) /\ "tenant_admin" \in account[u].roles}) <= 1
             \/ x.by = x.who /\ x.seen.active /\ x.change.active = FALSE
       IN update' = [update EXCEPT ![r] = IF refused THEN Done ELSE [x EXCEPT !.pc = "counted"]]
    /\ UNCHANGED <<account, signedIn, ssoState>>

CountAdmins(r) ==
  LET x == update[r] IN
    /\ x.pc = "read"
    /\ LET refused ==
             \/ /\ LosesAdmin(x.seen, x.change)
                /\ Cardinality({u \in Users : Exists(u) /\ Counted(u, r)}) <= 1
             \/ x.by = x.who /\ x.seen.active /\ x.change.active = FALSE
       IN update' = [update EXCEPT ![r] = IF refused THEN Done ELSE [x EXCEPT !.pc = "counted"]]
    /\ UNCHANGED <<account, signedIn, ssoState>>

(* Only what differs from the row as it was read is written.               *)
Written(now, seen, new) == IF new = nobody \/ new = seen THEN now ELSE new

CommitUpdate(r) ==
  LET x == update[r] IN
    /\ x.pc = "counted"
    /\ account' = [account EXCEPT
         ![x.who].roles = Written(@, x.seen.roles, x.change.roles),
         ![x.who].active = Written(@, x.seen.active, x.change.active)]
    /\ update' = Overtake(r)
    /\ UNCHANGED <<signedIn, ssoState>>

(* bootstrap.py run again, for another address.                            *)
Bootstrap(u) ==
  /\ ~Exists(u)
  /\ account' = [account EXCEPT ![u] = [active |-> TRUE, roles |-> {"tenant_admin"}]]
  /\ UNCHANGED <<signedIn, update, ssoState>>

-----------------------------------------------------------------------------
(* login, with the password of an active account.                          *)
Login(u) ==
  /\ u \notin signedIn /\ Exists(u) /\ account[u].active
  /\ signedIn' = signedIn \union {u}
  /\ UNCHANGED <<account, update, ssoState>>

(* SSO: the state is good for one callback; an unknown person becomes a    *)
(* viewer, a deactivated one is refused.                                   *)
StartSso(u) ==
  /\ u \notin ssoState \union signedIn
  /\ ssoState' = ssoState \union {u}
  /\ UNCHANGED <<account, signedIn, update>>

FinishSso(u) ==
  /\ u \in ssoState /\ (Exists(u) => account[u].active)
  /\ ssoState' = ssoState \ {u} /\ signedIn' = signedIn \union {u}
  /\ account' = IF Exists(u) THEN account
                ELSE [account EXCEPT ![u] = [active |-> TRUE, roles |-> {}]]
  /\ UNCHANGED <<update>>

SsoRefused(u) ==
  /\ u \in ssoState
  /\ ssoState' = ssoState \ {u}
  /\ UNCHANGED <<account, signedIn, update>>

Administer(r) ==
  \/ \E u \in Users : Authorise(r, u) \/ CreateUser(r, u)
  \/ \E u \in Users, change \in Changes : ReadUser(r, u, change)
  \/ CountAdmins(r) \/ CommitUpdate(r)

AccountNext ==
  \/ \E r \in Updates : Administer(r)
  \/ \E u \in Users : Login(u) \/ StartSso(u) \/ FinishSso(u) \/ SsoRefused(u) \/ Bootstrap(u)

AccountSpec == AccountInit /\ [][AccountNext]_accountVars

-----------------------------------------------------------------------------
(* admin.py: "never let a tenant lose its last administrator".  It may lose*)
(* it to two updates of which one committed after the other had read; every*)
(* update that nobody overtook leaves an active administrator.             *)
AdminStays ==
  [][(Admins # {} /\ Admins' = {}) =>
       \E r \in Updates : update[r].overtaken /\ update'[r] # update[r]]_accountVars
=============================================================================
