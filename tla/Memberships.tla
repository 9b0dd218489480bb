---------------------------- MODULE Memberships -----------------------------
(***************************************************************************)
(* Who belongs to which organisation with which role (org_membership.py,   *)
(* routers/users.py, routers/orgs.py create_org, manage.py), and the API   *)
(* tokens issued there (auth.py).                                          *)
(*                                                                         *)
(* A request that reads before it writes is two steps.  With `memOverlap'  *)
(* others may commit in between, otherwise it is served alone.  Every user *)
(* may act: activation and sign-in are the subject of Accounts.            *)
(*                                                                         *)
(* Of the roles, the two that are provisioned everywhere and one of the    *)
(* others are kept.  Names carry the prefix mem so that a model can extend *)
(* this module beside others.                                              *)
(***************************************************************************)
EXTENDS Integers, FiniteSets

CONSTANTS Users, Orgs,        \* the users and organisations that may come to exist
          Founder, Root,      \* the first bootstrapped administrator and its organisation
          MemRequests,        \* requests in flight at a time
          MemMax, MemRaced    \* bounds on the requests served, alone and overlapping

ASSUME MemAssumption ==
    /\ Founder \in Users /\ Root \in Orgs
    /\ MemMax \in Nat /\ MemRaced \in Nat

VARIABLES memOrgs,      \* organisation rows
          memHome,      \* user -> [org, role] of its row, NoUser before it exists
          memRole,      \* user -> organisation -> role of the membership, or "none"
          memTokens,    \* API tokens neither revoked nor expired
          memTxn,       \* request -> what it has read
          memRevoked,   \* history: memberships revoked once
          memPatched,   \* history: users whose role was changed
          memSeeded,    \* history: users and organisations of a later bootstrap
          memServed, memOverlap

memVars == <<memOrgs, memHome, memRole, memTokens, memTxn, memRevoked,
             memPatched, memSeeded, memServed, memOverlap>>
memHistory == <<memRevoked, memPatched, memSeeded>>

_AUTO_PROVISION_ROLES == {"msp_admin", "msp_engineer"}
Roles == _AUTO_PROVISION_ROLES \cup {"customer_poc"}
RoleRank(r) == CASE r = "msp_admin" -> 5 [] r = "msp_engineer" -> 3 [] r = "customer_poc" -> 2

NoUser == [org |-> Root, role |-> "none"]
MemIdle == [op |-> "idle"]
Known == {u \in Users : memHome[u] # NoUser}
HomeOf(u) == memHome[u].org

OrgMembership == [Users -> [Orgs -> Roles \cup {"none"}]]
Organization == SUBSET Orgs
ApiToken == [user : Users, org : Orgs, role : Roles]

MemTypeOK ==
    /\ memOrgs \in Organization
    /\ memHome \in [Users -> [org : Orgs, role : Roles \cup {"none"}]]
    /\ memRole \in OrgMembership
    /\ memTokens \subseteq ApiToken
    /\ \A q \in MemRequests :
           memTxn[q].op \in {"idle", "org", "invite", "revoke", "patch"}
    /\ \A u \in Users, o \in Orgs :
           memRole[u][o] # "none" => u \in Known /\ o \in memOrgs
    /\ memServed \in Nat /\ memOverlap \in BOOLEAN

-----------------------------------------------------------------------------

\* What the helpers of auth.py and org_membership.py compute.

\* require_org_access: only the membership of that organisation counts.
Access(u, o, allowed) == memRole[u][o] \in allowed

\* The role at home, without a membership the one of the user row.
RoleForMembership(u) ==
    IF memRole[u][HomeOf(u)] # "none" THEN memRole[u][HomeOf(u)] ELSE memHome[u].role

\* Mutant: the role the token was issued with.
ResolveApiToken_issued(k) ==
    IF k.user \in Known /\ HomeOf(k.user) = k.org THEN k.role ELSE "refused"

\* The role a request with the token has: the lower of the one it was issued
\* with and its owner's of today.  The owner is looked up in the token's
\* organisation.
ResolveApiToken(k) ==
    IF k.user \in Known /\ HomeOf(k.user) = k.org
    THEN CHOOSE r \in {k.role, RoleForMembership(k.user)} :
             \A x \in {k.role, RoleForMembership(k.user)} : RoleRank(r) <= RoleRank(x)
    ELSE "refused"

\* auth.grant_org_membership: ON CONFLICT DO NOTHING.
Granted(roles, u, o, r) == [roles EXCEPT ![u][o] = IF @ = "none" THEN r ELSE @]

MspRoleUsers == {u \in Known : memHome[u].role \in _AUTO_PROVISION_ROLES}

ProvisionNewOrg(staff, o) ==
    [u \in Users |-> IF u \in DOMAIN staff
                     THEN Granted(memRole, u, o, staff[u])[u] ELSE memRole[u]]

ProvisionNewUser(roles, u, o, r, others) ==
    [roles EXCEPT ![u] =
        [x \in Orgs |-> IF x = o \/ (r \in _AUTO_PROVISION_ROLES /\ x \in others)
                        THEN Granted(roles, u, x, r)[u][x] ELSE roles[u][x]]]

-----------------------------------------------------------------------------

\* bootstrap-admin on an empty database.
MemInit ==
    /\ memOrgs = {Root}
    /\ memHome = [u \in Users |-> IF u = Founder THEN [org |-> Root, role |-> "msp_admin"]
                                                 ELSE NoUser]
    /\ memRole = [u \in Users |-> [o \in Orgs |-> IF u = Founder /\ o = Root
                                                  THEN "msp_admin" ELSE "none"]]
    /\ memTokens = {}
    /\ memTxn = [q \in MemRequests |-> MemIdle]
    /\ memRevoked = {} /\ memPatched = {} /\ memSeeded = {}
    /\ memServed = 0 /\ memOverlap \in BOOLEAN

MemServe ==
    /\ memServed < IF memOverlap THEN MemRaced ELSE MemMax
    /\ memServed' = memServed + 1
    /\ UNCHANGED memOverlap

Quiet == \A q \in MemRequests : memTxn[q] = MemIdle

MemBegin(q, read) ==
    /\ memTxn[q] = MemIdle /\ (memOverlap \/ Quiet)
    /\ memTxn' = [memTxn EXCEPT ![q] = read]
    /\ MemServe
    /\ UNCHANGED <<memOrgs, memHome, memRole, memTokens, memHistory>>

MemEnd(q) ==
    /\ memTxn' = [memTxn EXCEPT ![q] = MemIdle]
    /\ UNCHANGED <<memServed, memOverlap>>

MemAtOnce == (memOverlap \/ Quiet) /\ MemServe /\ UNCHANGED memTxn

-----------------------------------------------------------------------------

\* A user that neither exists nor is being created.
Fresh(u) ==
    u \notin Known /\ \A p \in MemRequests : memTxn[p].op = "invite" => memTxn[p].user # u

\* bootstrap-admin later on: nobody else is provisioned.
BootstrapAdmin(u, o) ==
    /\ Fresh(u)
    /\ MemAtOnce
    /\ memOrgs' = memOrgs \cup {o}
    /\ memHome' = [memHome EXCEPT ![u] = [org |-> o, role |-> "msp_admin"]]
    /\ memRole' = [memRole EXCEPT ![u][o] = "msp_admin"]
    /\ memSeeded' = memSeeded \cup {u} \cup ({o} \ memOrgs)
    /\ UNCHANGED <<memTokens, memRevoked, memPatched>>

CreateOrgBegin(q, c, o) ==
    /\ c \in Known /\ RoleForMembership(c) \in _AUTO_PROVISION_ROLES
    /\ o \notin memOrgs
    /\ MemBegin(q, [op |-> "org", org |-> o,
                    staff |-> [u \in MspRoleUsers |-> memHome[u].role]])

CreateOrg(q) ==
    LET t == memTxn[q]
    IN /\ t.op = "org"
       /\ t.org \notin memOrgs
       /\ memOrgs' = memOrgs \cup {t.org}
       /\ memRole' = ProvisionNewOrg(t.staff, t.org)
       /\ MemEnd(q)
       /\ UNCHANGED <<memHome, memTokens, memHistory>>

\* The name was taken meanwhile: the unique constraint refuses the row.
CreateOrgConflict(q) ==
    /\ memTxn[q].op = "org" /\ memTxn[q].org \in memOrgs
    /\ MemEnd(q)
    /\ UNCHANGED <<memOrgs, memHome, memRole, memTokens, memHistory>>

\* invite_user and create_api_user: the user is new.
InviteBegin(q, c, o, u, r, api) ==
    /\ Access(c, o, {"msp_admin"}) /\ Fresh(u)
    /\ MemBegin(q, [op |-> "invite", user |-> u, org |-> o, role |-> r, api |-> api,
                    others |-> memOrgs \ {o}])

InviteUser(q) ==
    LET t == memTxn[q]
    IN /\ t.op = "invite" /\ ~ t.api
       /\ memHome' = [memHome EXCEPT ![t.user] = [org |-> t.org, role |-> t.role]]
       /\ memRole' = ProvisionNewUser(memRole, t.user, t.org, t.role, t.others)
       /\ MemEnd(q)
       /\ UNCHANGED <<memOrgs, memTokens, memHistory>>

CreateApiUser(q) ==
    LET t == memTxn[q]
    IN /\ t.op = "invite" /\ t.api
       /\ memHome' = [memHome EXCEPT ![t.user] = [org |-> t.org, role |-> t.role]]
       /\ memRole' = ProvisionNewUser(memRole, t.user, t.org, t.role, t.others)
       /\ memTokens' = memTokens \cup {[user |-> t.user, org |-> t.org, role |-> t.role]}
       /\ MemEnd(q)
       /\ UNCHANGED <<memOrgs, memHistory>>

\* Row level security, where it is enforced, hides the users at home elsewhere.
GrantMembership(c, u, o, r) ==
    /\ Access(c, o, {"msp_admin"}) /\ u \in Known
    /\ MemAtOnce
    /\ memRole' = Granted(memRole, u, o, r)
    /\ UNCHANGED <<memOrgs, memHome, memTokens, memHistory>>

RevokeBegin(q, c, u, o) ==
    /\ Access(c, o, {"msp_admin"}) /\ u # c /\ memRole[u][o] # "none"
    /\ memRole[u][o] = "msp_admin" => \E x \in Users \ {u} : memRole[x][o] = "msp_admin"
    /\ MemBegin(q, [op |-> "revoke", user |-> u, org |-> o])

\* The row is deleted by its key.  Another revocation of it under way deletes
\* nothing any more, and ends here.
RevokeMembership(q) ==
    LET t == memTxn[q]
    IN /\ t.op = "revoke"
       /\ memRole' = [memRole EXCEPT ![t.user][t.org] = "none"]
       /\ memRevoked' = memRevoked \cup {<<t.user, t.org>>}
       /\ memTxn' = [p \in MemRequests |-> IF memTxn[p] = t THEN MemIdle ELSE memTxn[p]]
       /\ UNCHANGED <<memOrgs, memHome, memTokens, memPatched, memSeeded,
                      memServed, memOverlap>>

\* The user row is read first, its membership when it is written.
PatchUserBegin(q, c, u, r) ==
    /\ u \in Known /\ Access(c, HomeOf(u), {"msp_admin"})
    /\ MemBegin(q, [op |-> "patch", user |-> u, role |-> r, read |-> memHome[u].role])

\* A column is written when its value differs from the one read.
PatchUserRole(q) ==
    LET t == memTxn[q]
        home == HomeOf(t.user)
    IN /\ t.op = "patch"
       /\ memHome' = [memHome EXCEPT ![t.user].role = IF t.role = t.read THEN @ ELSE t.role]
       /\ memRole' = [memRole EXCEPT ![t.user][home] = IF @ = "none" THEN @ ELSE t.role]
       /\ memPatched' = memPatched \cup {t.user}
       /\ MemEnd(q)
       /\ UNCHANGED <<memOrgs, memTokens, memRevoked, memSeeded>>

\* For oneself against one's membership, for another against the user row.
CreateApiToken(c, u, o, r) ==
    /\ Access(c, o, _AUTO_PROVISION_ROLES)
    /\ u \in Known /\ HomeOf(u) = o
    /\ u # c => Access(c, o, {"msp_admin"})
    /\ RoleRank(r) <= RoleRank(IF u = c THEN memRole[c][o] ELSE memHome[u].role)
    /\ MemAtOnce
    /\ memTokens' = memTokens \cup {[user |-> u, org |-> o, role |-> r]}
    /\ UNCHANGED <<memOrgs, memHome, memRole, memHistory>>

RevokeApiToken(c, k) ==
    /\ k \in memTokens /\ Access(c, k.org, _AUTO_PROVISION_ROLES)
    /\ MemAtOnce
    /\ memTokens' = memTokens \ {k}
    /\ UNCHANGED <<memOrgs, memHome, memRole, memHistory>>

MemNext ==
    \/ \E u \in Users, o \in Orgs : BootstrapAdmin(u, o)
    \/ \E q \in MemRequests, c \in Users, o \in Orgs : CreateOrgBegin(q, c, o)
    \/ \E q \in MemRequests, c, u \in Users, o \in Orgs, r \in Roles, api \in BOOLEAN :
           InviteBegin(q, c, o, u, r, api)
    \/ \E q \in MemRequests, c, u \in Users, o \in Orgs : RevokeBegin(q, c, u, o)
    \/ \E q \in MemRequests, c, u \in Users, r \in Roles : PatchUserBegin(q, c, u, r)
    \/ \E q \in MemRequests :
           \/ CreateOrg(q) \/ CreateOrgConflict(q) \/ InviteUser(q) \/ CreateApiUser(q)
           \/ RevokeMembership(q) \/ PatchUserRole(q)
    \/ \E c, u \in Users, o \in Orgs, r \in Roles :
           GrantMembership(c, u, o, r) \/ CreateApiToken(c, u, o, r)
    \/ \E c \in Users, k \in memTokens : RevokeApiToken(c, k)

-----------------------------------------------------------------------------

\* Revocation never leaves an organisation without an administrator to grant
\* access again: the last msp_admin membership stays, whoever revokes what, as
\* long as no role is changed (patch_user has no such guard).  Requests that
\* overlap can break it: two administrators revoke each other.
OrgKeepsAnAdmin ==
    ~ memOverlap /\ memPatched = {} =>
        \A o \in memOrgs : \E u \in Users : memRole[u][o] = "msp_admin"

\* The provisioning rule: whoever holds a staff role is a member of every
\* organisation, whichever of the two came first, unless that membership was
\* revoked, the role was changed later, or one of them was bootstrapped.
\* Overlapping requests can break it: an invitation does not see the
\* organisation that is being created, nor that one the new user.
StaffReachEveryOrg ==
    ~ memOverlap =>
        \A u \in MspRoleUsers \ (memPatched \cup memSeeded), o \in memOrgs \ memSeeded :
            memRole[u][o] # "none" \/ <<u, o>> \in memRevoked

\* A user row and the home membership name the same role until that membership
\* is revoked, whatever roles are granted and changed.  Two role changes that
\* overlap can break it: the one that reads the user row first and the
\* membership last writes only the second.
HomeRoleAgrees ==
    ~ memOverlap =>
        \A u \in Known : <<u, HomeOf(u)>> \notin memRevoked =>
            memRole[u][HomeOf(u)] = memHome[u].role

\* Every token in force belongs to a user that is at home where the token is
\* used, so that it can authenticate (_resolve_api_token refuses the others).
TokensCanAuthenticate == \A k \in memTokens : ResolveApiToken(k) # "refused"

\* A token never lets its bearer do more than its owner may do in person at the
\* time, whatever became of the owner's role since it was issued.
TokensNeverOutrank ==
    \A k \in memTokens : RoleRank(ResolveApiToken(k)) <= RoleRank(RoleForMembership(k.user))

\* Who may act where: administrators remain, staff reach every organisation, the
\* two places a role is kept in agree, and a token gives nothing its owner does
\* not have (grant, revoke, patch_user, provisioning, _resolve_api_token).
MembershipsAreSound ==
    /\ OrgKeepsAnAdmin /\ StaffReachEveryOrg /\ HomeRoleAgrees
    /\ TokensCanAuthenticate /\ TokensNeverOutrank
=============================================================================
