------------------------- MODULE OrganisationProofs --------------------------
(***************************************************************************)
(* For any number of users, organisations, contacts, assessments,          *)
(* submissions, environments and controls, and of requests in flight: who  *)
(* belongs to an organisation, who answers for its papers and which of     *)
(* these stand, whose assets it is shown, and which product baseline it is *)
(* assessed against.                                                       *)
(*                                                                         *)
(* Memberships: MembershipsAreSound is not inductive. An organisation      *)
(* being created was told its staff earlier: while no role has been        *)
(* changed, the first administrator must be among them. Two invitations in *)
(* flight may not be for the same user. And where requests do not overlap, *)
(* what each has read must be what is there still, so that a revocation    *)
(* leaves another administrator.                                           *)
(*                                                                         *)
(* Casework: CaseworkIsSound is not inductive either. Addresses must be    *)
(* stored normalised, or the unique constraint would not see two spellings *)
(* of one; two requests in flight may not be about to create the same      *)
(* contact, assessment or submission; a run of the job may only be about   *)
(* what is filed, due and not marked, and what it has mailed about counts  *)
(* already; and where requests do not overlap, the gaps that a bulk        *)
(* request read must be gaps still, and the rows to carry forward those of *)
(* the last completed assessment.                                          *)
(*                                                                         *)
(* Environments: PendingIsAnnounced is inductive but for the types; that   *)
(* the assets are the organisation's own needs the mapping that a pull or  *)
(* a request read to be the one that is there, where nothing overlaps.     *)
(*                                                                         *)
(* Library: LibraryIsSound needs what an import has read to be current,    *)
(* its rows to have passed validation, and the screen to show the rows and *)
(* the preview of the version that was current when it was asked for. What *)
(* a preview announces is what the import stores, and no page of the web   *)
(* replaces what the vendor's documents say: the second is shown by        *)
(* induction over the pages (MergeResearchKeeps).                          *)
(***************************************************************************)
EXTENDS Memberships, Casework, Environments, Library, SetLemmas, SequenceTheorems, TLAPS

MemSpec == MemInit /\ [][MemNext]_memVars

\* The rows: a user that exists has a home and a role there, a membership is of
\* a user and an organisation that exist, a token of a user at home where it is
\* used; the first administrator stays one until a role is changed.
MemRowsOK ==
    /\ memOrgs \subseteq Orgs
    /\ memHome \in [Users -> [org : Orgs, role : Roles \cup {"none"}]]
    /\ memRole \in OrgMembership
    /\ memTokens \subseteq ApiToken
    /\ memServed \in Nat /\ memOverlap \in BOOLEAN
    /\ \A u \in Known : memHome[u].role \in Roles /\ HomeOf(u) \in memOrgs
    /\ \A u \in Users, o \in Orgs : memRole[u][o] # "none" => u \in Known /\ o \in memOrgs
    /\ \A k \in memTokens : k.user \in Known /\ HomeOf(k.user) = k.org
    /\ memPatched = {} => memHome[Founder] = [org |-> Root, role |-> "msp_admin"]

\* What still holds of what a request in flight read, whatever the others did.
MemReadOK(t) ==
    /\ t.op \in {"idle", "org", "invite", "revoke", "patch"}
    /\ t.op = "idle" => t = MemIdle
    /\ t.op = "org" =>
          /\ t.org \in Orgs /\ DOMAIN t.staff \subseteq Known
          /\ \A u \in DOMAIN t.staff : t.staff[u] \in _AUTO_PROVISION_ROLES
          /\ memPatched = {} => Founder \in DOMAIN t.staff /\ t.staff[Founder] = "msp_admin"
    /\ t.op = "invite" =>
          /\ t.user \in Users \ Known /\ t.role \in Roles
          /\ t.org \in memOrgs /\ t.others \subseteq memOrgs
    /\ t.op = "revoke" => t.user \in Users /\ t.org \in Orgs
    /\ t.op = "patch" => t.user \in Known /\ t.role \in Roles

MemReadsOK ==
    /\ memTxn = [q \in MemRequests |-> memTxn[q]]
    /\ \A q \in MemRequests : MemReadOK(memTxn[q])
    /\ \A p, q \in MemRequests :
          memTxn[p].op = "invite" /\ memTxn[q].op = "invite"
            /\ memTxn[p].user = memTxn[q].user => p = q

\* Alone, a request has read what is there, and who revokes stays.
MemCurrent(t) ==
    /\ t.op = "org" =>
          /\ DOMAIN t.staff = MspRoleUsers
          /\ \A u \in MspRoleUsers : t.staff[u] = memHome[u].role
    /\ t.op = "invite" => t.others = memOrgs \ {t.org}
    /\ t.op = "revoke" => \E x \in Users \ {t.user} : memRole[x][t.org] = "msp_admin"
    /\ t.op = "patch" => t.read = memHome[t.user].role

MemAloneOK ==
    ~ memOverlap =>
        /\ \A p, q \in MemRequests : memTxn[p] # MemIdle /\ memTxn[q] # MemIdle => p = q
        /\ \A q \in MemRequests : MemCurrent(memTxn[q])

MemInv ==
    /\ MemRowsOK /\ MemReadsOK /\ MemAloneOK
    /\ OrgKeepsAnAdmin /\ StaffReachEveryOrg /\ HomeRoleAgrees

-----------------------------------------------------------------------------
(* What is granted.                                                        *)

\* A grant adds a membership where there is none, and nothing else.
LEMMA GrantedIs ==
    ASSUME NEW roles \in OrgMembership, NEW u \in Users, NEW o \in Orgs, NEW r \in Roles
    PROVE  /\ Granted(roles, u, o, r) \in OrgMembership
           /\ \A x \in Users, y \in Orgs :
                 Granted(roles, u, o, r)[x][y] =
                     IF x = u /\ y = o /\ roles[x][y] = "none" THEN r ELSE roles[x][y]
BY DEF Granted, OrgMembership

\* A new user is granted its organisation, and staff the others.
LEMMA ProvisionedUser ==
    ASSUME NEW roles \in OrgMembership, NEW u \in Users, NEW o \in Orgs, NEW r \in Roles,
           NEW others
    PROVE  LET new == ProvisionNewUser(roles, u, o, r, others)
           IN /\ new \in OrgMembership
              /\ \A x \in Users, y \in Orgs :
                    new[x][y] = IF /\ x = u /\ roles[x][y] = "none"
                                   /\ y = o \/ (r \in _AUTO_PROVISION_ROLES /\ y \in others)
                                THEN r ELSE roles[x][y]
<1> DEFINE new == ProvisionNewUser(roles, u, o, r, others)
           row == [x \in Orgs |-> IF x = o \/ (r \in _AUTO_PROVISION_ROLES /\ x \in others)
                                  THEN Granted(roles, u, x, r)[u][x] ELSE roles[u][x]]
<1>1. new = [roles EXCEPT ![u] = row]
  BY DEF ProvisionNewUser
<1>2. \A x \in Orgs :
         row[x] = IF /\ roles[u][x] = "none"
                     /\ x = o \/ (r \in _AUTO_PROVISION_ROLES /\ x \in others)
                  THEN r ELSE roles[u][x]
  BY GrantedIs
<1>3. row \in [Orgs -> Roles \cup {"none"}]
  BY <1>2 DEF OrgMembership
<1> HIDE DEF new, row
<1>4. new \in OrgMembership
  BY <1>1, <1>3 DEF OrgMembership
<1>5. \A x \in Users, y \in Orgs : new[x][y] = IF x = u THEN row[y] ELSE roles[x][y]
  BY <1>1 DEF OrgMembership
<1> QED
  BY <1>2, <1>4, <1>5 DEF new

\* A new organisation is granted to the staff that was found.
LEMMA ProvisionedOrg ==
    ASSUME memRole \in OrgMembership, NEW staff, NEW o \in Orgs,
           DOMAIN staff \subseteq Users, \A u \in DOMAIN staff : staff[u] \in Roles
    PROVE  LET new == ProvisionNewOrg(staff, o)
           IN /\ new \in OrgMembership
              /\ \A x \in Users, y \in Orgs :
                    new[x][y] = IF x \in DOMAIN staff /\ y = o /\ memRole[x][y] = "none"
                                THEN staff[x] ELSE memRole[x][y]
<1> DEFINE new == ProvisionNewOrg(staff, o)
<1>1. ASSUME NEW x \in DOMAIN staff
      PROVE  /\ Granted(memRole, x, o, staff[x])[x] \in [Orgs -> Roles \cup {"none"}]
             /\ \A y \in Orgs : Granted(memRole, x, o, staff[x])[x][y] =
                   IF y = o /\ memRole[x][y] = "none" THEN staff[x] ELSE memRole[x][y]
  BY GrantedIs DEF OrgMembership
<1>2. new = [u \in Users |-> IF u \in DOMAIN staff
                             THEN Granted(memRole, u, o, staff[u])[u] ELSE memRole[u]]
  BY DEF ProvisionNewOrg
<1> HIDE DEF new
<1>3. new \in OrgMembership
  BY <1>1, <1>2 DEF OrgMembership
<1> QED
  BY <1>1, <1>2, <1>3 DEF new

-----------------------------------------------------------------------------
(* Requests.                                                               *)

\* In the initial state there is one administrator.
LEMMA MemInitInv == MemInit => MemInv
<1> SUFFICES ASSUME MemInit PROVE MemInv
  OBVIOUS
<1> USE MemAssumption DEF MemInit
<1>1. Known = {Founder}
  BY DEF Known, NoUser
<1>2. MemRowsOK
  BY <1>1 DEF MemRowsOK, OrgMembership, Roles, _AUTO_PROVISION_ROLES, HomeOf, ApiToken, NoUser
<1>3. MemReadsOK
  BY DEF MemReadsOK, MemReadOK, MemIdle
<1>4. MemAloneOK
  BY DEF MemAloneOK, MemCurrent, MemIdle
<1>5. OrgKeepsAnAdmin
  BY DEF OrgKeepsAnAdmin
<1>6. StaffReachEveryOrg
  BY <1>1 DEF StaffReachEveryOrg, MspRoleUsers, _AUTO_PROVISION_ROLES
<1>7. HomeRoleAgrees
  BY <1>1 DEF HomeRoleAgrees, HomeOf
<1> QED
  BY <1>2, <1>3, <1>4, <1>5, <1>6, <1>7 DEF MemInv

\* A request begins: t is what it read.
LEMMA MemBeginStep ==
    ASSUME MemInv, NEW q \in MemRequests, NEW t, MemBegin(q, t),
           MemReadOK(t), ~ memOverlap => MemCurrent(t),
           t.op = "invite" =>
              \A p \in MemRequests : memTxn[p].op = "invite" => memTxn[p].user # t.user
    PROVE  MemInv'
<1>1. /\ memTxn' = [memTxn EXCEPT ![q] = t] /\ memTxn[q] = MemIdle
      /\ memOverlap \/ \A p \in MemRequests : memTxn[p] = MemIdle
      /\ memServed' = memServed + 1
      /\ UNCHANGED <<memOrgs, memHome, memRole, memTokens, memRevoked, memPatched, memSeeded,
                     memOverlap>>
  BY DEF MemBegin, MemServe, Quiet, memHistory
<1>2. memTxn'[q] = t /\ \A p \in MemRequests : p # q => memTxn'[p] = memTxn[p]
  BY <1>1 DEF MemInv, MemReadsOK
<1>3. Known' = Known /\ MspRoleUsers' = MspRoleUsers
  BY <1>1 DEF Known, MspRoleUsers
<1>4. MemRowsOK'
  BY <1>1, <1>3 DEF MemInv, MemRowsOK, HomeOf
<1>5. MemReadsOK'
  <2>1. memTxn' = [p \in MemRequests |-> memTxn'[p]]
    BY <1>1 DEF MemInv, MemReadsOK
  <2>2. \A p \in MemRequests : MemReadOK(memTxn[p])'
    BY <1>1, <1>2, <1>3 DEF MemInv, MemReadsOK, MemReadOK
  <2>3. \A p, r \in MemRequests :
           memTxn'[p].op = "invite" /\ memTxn'[r].op = "invite"
             /\ memTxn'[p].user = memTxn'[r].user => p = r
    BY <1>2 DEF MemInv, MemReadsOK
  <2> QED
    BY <2>1, <2>2, <2>3 DEF MemReadsOK
<1>6. MemAloneOK'
  <2> SUFFICES ASSUME ~ memOverlap PROVE MemAloneOK'
    BY <1>1 DEF MemAloneOK
  <2>1. \A p \in MemRequests : p # q => memTxn'[p] = MemIdle
    BY <1>1, <1>2
  <2>2. MemCurrent(t)'
    BY <1>1, <1>3 DEF MemCurrent
  <2>3. \A p \in MemRequests : MemCurrent(memTxn[p])'
    BY <1>2, <2>1, <2>2 DEF MemCurrent, MemIdle
  <2> QED
    BY <2>1, <2>3 DEF MemAloneOK
<1>7. OrgKeepsAnAdmin' /\ StaffReachEveryOrg' /\ HomeRoleAgrees'
  BY <1>1, <1>3 DEF MemInv, OrgKeepsAnAdmin, StaffReachEveryOrg, HomeRoleAgrees, HomeOf
<1> QED
  BY <1>4, <1>5, <1>6, <1>7 DEF MemInv

\* What each request reads.
LEMMA MemBeginInv ==
    ASSUME MemInv, NEW q \in MemRequests, NEW c \in Users,
           \/ \E o \in Orgs :
                 \/ CreateOrgBegin(q, c, o)
                 \/ \E u \in Users :
                       \/ RevokeBegin(q, c, u, o)
                       \/ \E r \in Roles, api \in BOOLEAN : InviteBegin(q, c, o, u, r, api)
           \/ \E u \in Users, r \in Roles : PatchUserBegin(q, c, u, r)
    PROVE  MemInv'
<1>1. ASSUME NEW o \in Orgs, CreateOrgBegin(q, c, o) PROVE MemInv'
  <2> DEFINE staff == [u \in MspRoleUsers |-> memHome[u].role]
             t == [op |-> "org", org |-> o, staff |-> staff]
  <2>1. MemBegin(q, t)
    BY <1>1 DEF CreateOrgBegin
  <2>2. DOMAIN staff = MspRoleUsers /\ \A u \in MspRoleUsers : staff[u] = memHome[u].role
    OBVIOUS
  <2>3. memPatched = {} => Founder \in MspRoleUsers /\ memHome[Founder].role = "msp_admin"
    BY MemAssumption
    DEF MemInv, MemRowsOK, MspRoleUsers, _AUTO_PROVISION_ROLES, Known, NoUser
  <2> HIDE DEF staff
  <2>4. MemReadOK(t) /\ MemCurrent(t)
    BY <2>2, <2>3 DEF MemReadOK, MemCurrent, MspRoleUsers
  <2> QED
    BY <2>1, <2>4, MemBeginStep
<1>2. ASSUME NEW o \in Orgs, NEW u \in Users, RevokeBegin(q, c, u, o) PROVE MemInv'
  <2> DEFINE t == [op |-> "revoke", user |-> u, org |-> o]
  <2>1. MemBegin(q, t) /\ memRole[c][o] = "msp_admin" /\ u # c
    BY <1>2 DEF RevokeBegin, Access
  <2>2. MemReadOK(t) /\ MemCurrent(t)
    BY <2>1 DEF MemReadOK, MemCurrent
  <2> QED
    BY <2>1, <2>2, MemBeginStep
<1>3. ASSUME NEW o \in Orgs, NEW u \in Users, NEW r \in Roles, NEW api \in BOOLEAN,
             InviteBegin(q, c, o, u, r, api)
      PROVE  MemInv'
  <2> DEFINE t == [op |-> "invite", user |-> u, org |-> o, role |-> r, api |-> api,
                   others |-> memOrgs \ {o}]
  <2>1. MemBegin(q, t) /\ memRole[c][o] = "msp_admin" /\ Fresh(u)
    BY <1>3 DEF InviteBegin, Access
  <2>2. o \in memOrgs
    BY <2>1 DEF MemInv, MemRowsOK
  <2>3. MemReadOK(t) /\ MemCurrent(t)
    BY <2>1, <2>2 DEF MemReadOK, MemCurrent, Fresh
  <2> QED
    BY <2>1, <2>3, MemBeginStep DEF Fresh
<1>4. ASSUME NEW u \in Users, NEW r \in Roles, PatchUserBegin(q, c, u, r) PROVE MemInv'
  <2> DEFINE t == [op |-> "patch", user |-> u, role |-> r, read |-> memHome[u].role]
  <2>1. MemBegin(q, t) /\ u \in Known
    BY <1>4 DEF PatchUserBegin
  <2>2. MemReadOK(t) /\ MemCurrent(t)
    BY <2>1 DEF MemReadOK, MemCurrent
  <2> QED
    BY <2>1, <2>2, MemBeginStep
<1> QED
  BY <1>1, <1>2, <1>3, <1>4

\* A request commits.  As long as users and organisations stay, nobody in
\* flight invites one of them, and alone nothing is left in flight, the others
\* may rely on what they read.
LEMMA MemWriteStep ==
    ASSUME MemInv, MemRowsOK', UNCHANGED memOverlap,
           memTxn' = [p \in MemRequests |-> memTxn'[p]],
           \A p \in MemRequests : memTxn'[p] = memTxn[p] \/ memTxn'[p] = MemIdle,
           Known \subseteq Known', memOrgs \subseteq memOrgs', memPatched \subseteq memPatched',
           \A p \in MemRequests : memTxn'[p].op = "invite" => memTxn[p].user \notin Known',
           ~ memOverlap => \A p \in MemRequests : memTxn'[p] = MemIdle
    PROVE  MemReadsOK' /\ MemAloneOK'
<1>1. memPatched' = {} => memPatched = {}
  OBVIOUS
<1>2. \A p \in MemRequests : MemReadOK(memTxn[p])'
  <2> SUFFICES ASSUME NEW p \in MemRequests PROVE MemReadOK(memTxn[p])'
    OBVIOUS
  <2>1. CASE memTxn'[p] = MemIdle
    BY <2>1 DEF MemReadOK, MemIdle
  <2>2. CASE memTxn'[p] = memTxn[p]
    <3>1. MemReadOK(memTxn[p])
      BY DEF MemInv, MemReadsOK
    <3> QED
      BY <1>1, <2>2, <3>1 DEF MemReadOK
  <2> QED
    BY <2>1, <2>2
<1>3. \A p, r \in MemRequests :
         memTxn'[p].op = "invite" /\ memTxn'[r].op = "invite"
           /\ memTxn'[p].user = memTxn'[r].user => p = r
  BY DEF MemInv, MemReadsOK, MemIdle
<1>4. MemAloneOK'
  BY DEF MemAloneOK, MemCurrent, MemIdle
<1> QED
  BY <1>2, <1>3, <1>4 DEF MemReadsOK

\* What is left when a request ends, or is served at once: without overlap
\* nothing in flight.
LEMMA MemEnded ==
    ASSUME MemInv,
           \/ MemAtOnce
           \/ \E q \in MemRequests : memTxn[q] # MemIdle /\ MemEnd(q)
    PROVE  /\ memTxn' = [p \in MemRequests |-> memTxn'[p]]
           /\ \A p \in MemRequests : memTxn'[p] = memTxn[p] \/ memTxn'[p] = MemIdle
           /\ ~ memOverlap => \A p \in MemRequests : memTxn'[p] = MemIdle
           /\ UNCHANGED memOverlap /\ memServed' \in Nat
<1>1. CASE MemAtOnce
  BY <1>1 DEF MemAtOnce, MemServe, Quiet, MemInv, MemReadsOK, MemRowsOK
<1>2. ASSUME NEW q \in MemRequests, memTxn[q] # MemIdle, MemEnd(q)
      PROVE  /\ memTxn' = [p \in MemRequests |-> memTxn'[p]]
             /\ \A p \in MemRequests : memTxn'[p] = memTxn[p] \/ memTxn'[p] = MemIdle
             /\ ~ memOverlap => \A p \in MemRequests : memTxn'[p] = MemIdle
             /\ UNCHANGED memOverlap /\ memServed' \in Nat
  BY <1>2 DEF MemEnd, MemInv, MemReadsOK, MemRowsOK, MemAloneOK
<1> QED
  BY <1>1, <1>2

\* An organisation is created for the staff there was.
LEMMA CreateOrgInv ==
    ASSUME MemInv, NEW q \in MemRequests, CreateOrg(q)
    PROVE  MemInv'
<1> DEFINE t == memTxn[q]
<1>1. /\ t.op = "org" /\ t # MemIdle /\ MemEnd(q)
      /\ t.org \notin memOrgs /\ memOrgs' = memOrgs \cup {t.org}
      /\ memRole' = ProvisionNewOrg(t.staff, t.org)
      /\ UNCHANGED <<memHome, memTokens, memRevoked, memPatched, memSeeded>>
  BY DEF CreateOrg, memHistory, MemIdle
<1>2. /\ t.org \in Orgs /\ DOMAIN t.staff \subseteq Known
      /\ \A u \in DOMAIN t.staff : t.staff[u] \in Roles \ {"none"}
      /\ memPatched = {} => Founder \in DOMAIN t.staff /\ t.staff[Founder] = "msp_admin"
      /\ ~ memOverlap => /\ DOMAIN t.staff = MspRoleUsers
                         /\ \A u \in MspRoleUsers : t.staff[u] = memHome[u].role
  BY <1>1 DEF MemInv, MemReadsOK, MemReadOK, MemAloneOK, MemCurrent, Roles,
              _AUTO_PROVISION_ROLES
<1>3. Known' = Known /\ Known \subseteq Users /\ MspRoleUsers' = MspRoleUsers
  BY <1>1 DEF Known, MspRoleUsers
<1>4. /\ memRole \in OrgMembership /\ memRole' \in OrgMembership
      /\ \A x \in Users, y \in Orgs :
            memRole'[x][y] = IF x \in DOMAIN t.staff /\ y = t.org /\ memRole[x][y] = "none"
                             THEN t.staff[x] ELSE memRole[x][y]
  <2>1. memRole \in OrgMembership
    BY DEF MemInv, MemRowsOK
  <2> QED
    BY <1>1, <1>2, <1>3, <2>1, ProvisionedOrg
<1>5. \A u \in Users : memRole[u][t.org] = "none"
  BY <1>1, <1>2 DEF MemInv, MemRowsOK
<1>6. /\ memTxn' = [p \in MemRequests |-> memTxn'[p]]
      /\ \A p \in MemRequests : memTxn'[p] = memTxn[p] \/ memTxn'[p] = MemIdle
      /\ ~ memOverlap => \A p \in MemRequests : memTxn'[p] = MemIdle
      /\ UNCHANGED memOverlap /\ memServed' \in Nat
  BY <1>1, MemEnded
<1>7. MemRowsOK'
  BY <1>1, <1>2, <1>3, <1>4, <1>6 DEF MemInv, MemRowsOK, HomeOf
<1>8. MemReadsOK' /\ MemAloneOK'
  <2>1. \A p \in MemRequests : memTxn'[p].op = "invite" => memTxn[p].user \notin Known'
    BY <1>3, <1>6 DEF MemInv, MemReadsOK, MemReadOK, MemIdle
  <2> QED
    BY <1>1, <1>3, <1>6, <1>7, <2>1, MemWriteStep
<1>9. OrgKeepsAnAdmin'
  <2> SUFFICES ASSUME ~ memOverlap, memPatched = {}, NEW o \in memOrgs'
               PROVE  \E u \in Users : memRole'[u][o] = "msp_admin"
    BY <1>1, <1>6 DEF OrgKeepsAnAdmin
  <2>1. CASE o = t.org
    <3>1. memRole'[Founder][o] = "msp_admin"
      BY <1>2, <1>4, <1>5, <2>1, MemAssumption
    <3> QED
      BY <3>1, MemAssumption
  <2>2. CASE o \in memOrgs
    <3>1. PICK u \in Users : memRole[u][o] = "msp_admin"
      BY <2>2 DEF MemInv, OrgKeepsAnAdmin
    <3>2. o \in Orgs
      BY <2>2 DEF MemInv, MemRowsOK
    <3> QED
      BY <1>4, <3>1, <3>2
  <2> QED
    BY <1>1, <2>1, <2>2
<1>10. StaffReachEveryOrg'
  <2> SUFFICES ASSUME ~ memOverlap, NEW u \in MspRoleUsers \ (memPatched \cup memSeeded),
                      NEW o \in memOrgs' \ memSeeded
               PROVE  memRole'[u][o] # "none" \/ <<u, o>> \in memRevoked
    BY <1>1, <1>3, <1>6 DEF StaffReachEveryOrg
  <2>1. u \in Users /\ o \in Orgs
    BY <1>1, <1>2, <1>3 DEF MspRoleUsers, MemInv, MemRowsOK
  <2>2. CASE o = t.org
    BY <1>2, <1>4, <1>5, <2>1, <2>2
  <2>3. CASE o \in memOrgs
    BY <1>2, <1>4, <2>1, <2>3 DEF MemInv, StaffReachEveryOrg
  <2> QED
    BY <1>1, <2>2, <2>3
<1>11. HomeRoleAgrees'
  <2> SUFFICES ASSUME ~ memOverlap, NEW u \in Known, <<u, HomeOf(u)>> \notin memRevoked
               PROVE  memRole'[u][HomeOf(u)] = memHome[u].role
    BY <1>1, <1>3, <1>6 DEF HomeRoleAgrees, HomeOf
  <2>1. HomeOf(u) \in memOrgs /\ memRole[u][HomeOf(u)] = memHome[u].role
    BY DEF MemInv, MemRowsOK, HomeRoleAgrees
  <2>2. u \in Users /\ HomeOf(u) \in Orgs /\ HomeOf(u) # t.org
    BY <1>1, <1>3, <2>1 DEF MemInv, MemRowsOK
  <2> QED
    BY <1>4, <2>1, <2>2
<1> QED
  BY <1>7, <1>8, <1>9, <1>10, <1>11 DEF MemInv

\* A user is created with what it is provisioned with; a token may be issued.
LEMMA NewUserInv ==
    ASSUME MemInv, NEW q \in MemRequests, InviteUser(q) \/ CreateApiUser(q)
    PROVE  MemInv'
<1> DEFINE t == memTxn[q]
           token == [user |-> t.user, org |-> t.org, role |-> t.role]
<1>1. /\ t.op = "invite" /\ t # MemIdle /\ MemEnd(q)
      /\ memHome' = [memHome EXCEPT ![t.user] = [org |-> t.org, role |-> t.role]]
      /\ memRole' = ProvisionNewUser(memRole, t.user, t.org, t.role, t.others)
      /\ memTokens' = memTokens \/ memTokens' = memTokens \cup {token}
      /\ UNCHANGED <<memOrgs, memRevoked, memPatched, memSeeded>>
  BY DEF InviteUser, CreateApiUser, memHistory, MemIdle
<1>2. /\ t.user \in Users \ Known /\ t.role \in Roles /\ t.role # "none"
      /\ t.org \in memOrgs /\ t.org \in Orgs /\ t.others \subseteq memOrgs
      /\ ~ memOverlap => t.others = memOrgs \ {t.org}
  BY <1>1 DEF MemInv, MemReadsOK, MemReadOK, MemAloneOK, MemCurrent, MemRowsOK, Roles,
              _AUTO_PROVISION_ROLES
<1>3. /\ memHome' \in [Users -> [org : Orgs, role : Roles \cup {"none"}]]
      /\ memHome'[t.user] = [org |-> t.org, role |-> t.role]
      /\ \A u \in Users : u # t.user => memHome'[u] = memHome[u]
  BY <1>1, <1>2 DEF MemInv, MemRowsOK
<1>4. Known' = Known \cup {t.user}
  BY <1>2, <1>3 DEF Known, NoUser
<1>5. /\ memRole \in OrgMembership /\ memRole' \in OrgMembership
      /\ \A x \in Users, y \in Orgs :
            memRole'[x][y] = IF /\ x = t.user /\ memRole[x][y] = "none"
                                /\ \/ y = t.org
                                   \/ t.role \in _AUTO_PROVISION_ROLES /\ y \in t.others
                             THEN t.role ELSE memRole[x][y]
  <2>1. memRole \in OrgMembership
    BY DEF MemInv, MemRowsOK
  <2> QED
    BY <1>1, <1>2, <2>1, ProvisionedUser
<1>6. \A y \in Orgs : memRole[t.user][y] = "none"
  BY <1>2 DEF MemInv, MemRowsOK
<1>7. /\ memTxn' = [p \in MemRequests |-> memTxn'[p]]
      /\ \A p \in MemRequests : memTxn'[p] = memTxn[p] \/ memTxn'[p] = MemIdle
      /\ ~ memOverlap => \A p \in MemRequests : memTxn'[p] = MemIdle
      /\ UNCHANGED memOverlap /\ memServed' \in Nat
  BY <1>1, MemEnded
<1>8. MemRowsOK'
  <2>1. \A u \in Known' : memHome'[u].role \in Roles /\ memHome'[u].org \in memOrgs'
    BY <1>1, <1>2, <1>3, <1>4 DEF MemInv, MemRowsOK, HomeOf, Known
  <2>2. \A u \in Users, o \in Orgs : memRole'[u][o] # "none" => u \in Known' /\ o \in memOrgs'
    BY <1>1, <1>2, <1>4, <1>5 DEF MemInv, MemRowsOK
  <2>3. memTokens' \subseteq ApiToken
    BY <1>1, <1>2 DEF MemInv, MemRowsOK, ApiToken
  <2>4. \A k \in memTokens' : k.user \in Known' /\ memHome'[k.user].org = k.org
    BY <1>1, <1>2, <1>3, <1>4 DEF MemInv, MemRowsOK, HomeOf, Known
  <2>5. memPatched' = {} => memHome'[Founder] = [org |-> Root, role |-> "msp_admin"]
    BY <1>1, <1>2, <1>3, MemAssumption DEF MemInv, MemRowsOK, Known, NoUser
  <2> QED
    BY <1>1, <1>3, <1>5, <1>7, <2>1, <2>2, <2>3, <2>4, <2>5 DEF MemInv, MemRowsOK, HomeOf
<1>9. MemReadsOK' /\ MemAloneOK'
  <2>1. ASSUME NEW p \in MemRequests, memTxn'[p].op = "invite"
        PROVE  memTxn[p].user \notin Known'
    <3>1. p # q /\ memTxn[p].op = "invite"
      BY <1>1, <1>7, <2>1 DEF MemEnd, MemIdle, MemInv, MemReadsOK
    <3> QED
      BY <1>1, <1>4, <3>1 DEF MemInv, MemReadsOK, MemReadOK
  <2> QED
    BY <1>1, <1>4, <1>7, <1>8, <2>1, MemWriteStep
<1>10. OrgKeepsAnAdmin'
  BY <1>1, <1>2, <1>5, <1>6, <1>7 DEF MemInv, MemRowsOK, OrgKeepsAnAdmin
<1>11. StaffReachEveryOrg'
  <2> SUFFICES ASSUME ~ memOverlap, NEW u \in Known', u \notin memSeeded \cup memPatched,
                      memHome'[u].role \in _AUTO_PROVISION_ROLES,
                      NEW o \in memOrgs \ memSeeded
               PROVE  memRole'[u][o] # "none" \/ <<u, o>> \in memRevoked
    BY <1>1, <1>7 DEF StaffReachEveryOrg, MspRoleUsers
  <2>1. o \in Orgs
    BY DEF MemInv, MemRowsOK
  <2>2. CASE u = t.user
    BY <1>2, <1>3, <1>5, <1>6, <2>1, <2>2
  <2>3. CASE u \in Known /\ u # t.user
    <3>1. u \in Users /\ u \in MspRoleUsers
      BY <1>3, <2>3 DEF MspRoleUsers, Known
    <3> QED
      BY <1>2, <1>5, <2>1, <2>3, <3>1 DEF MemInv, StaffReachEveryOrg
  <2> QED
    BY <1>4, <2>2, <2>3
<1>12. HomeRoleAgrees'
  <2> SUFFICES ASSUME ~ memOverlap, NEW u \in Known',
                      <<u, memHome'[u].org>> \notin memRevoked
               PROVE  memRole'[u][memHome'[u].org] = memHome'[u].role
    BY <1>1, <1>7 DEF HomeRoleAgrees, HomeOf
  <2>1. CASE u = t.user
    BY <1>2, <1>3, <1>5, <1>6, <2>1
  <2>2. CASE u \in Known /\ u # t.user
    <3>1. u \in Users /\ memHome'[u] = memHome[u] /\ memHome[u].org \in Orgs
      BY <1>3, <2>2 DEF Known, MemInv, MemRowsOK
    <3>2. memRole[u][memHome[u].org] = memHome[u].role
      BY <2>2, <3>1 DEF MemInv, HomeRoleAgrees, HomeOf
    <3> QED
      BY <1>5, <2>2, <3>1, <3>2
  <2> QED
    BY <1>4, <2>1, <2>2
<1> QED
  BY <1>8, <1>9, <1>10, <1>11, <1>12 DEF MemInv

\* An administrator is bootstrapped, perhaps with an organisation.
LEMMA BootstrapInv ==
    ASSUME MemInv, NEW u \in Users, NEW o \in Orgs, BootstrapAdmin(u, o)
    PROVE  MemInv'
<1>1. /\ u \notin Known /\ MemAtOnce
      /\ \A p \in MemRequests : memTxn[p].op = "invite" => memTxn[p].user # u
      /\ memOrgs' = memOrgs \cup {o}
      /\ memHome' = [memHome EXCEPT ![u] = [org |-> o, role |-> "msp_admin"]]
      /\ memRole' = [memRole EXCEPT ![u][o] = "msp_admin"]
      /\ memSeeded' = memSeeded \cup {u} \cup ({o} \ memOrgs)
      /\ UNCHANGED <<memTokens, memRevoked, memPatched>>
  BY DEF BootstrapAdmin, Fresh
<1>2. /\ memHome' \in [Users -> [org : Orgs, role : Roles \cup {"none"}]]
      /\ memHome'[u] = [org |-> o, role |-> "msp_admin"]
      /\ \A x \in Users : x # u => memHome'[x] = memHome[x]
  BY <1>1 DEF MemInv, MemRowsOK, Roles, _AUTO_PROVISION_ROLES
<1>3. Known' = Known \cup {u}
  BY <1>2 DEF Known, NoUser
<1>4. /\ memRole' \in OrgMembership
      /\ \A x \in Users, y \in Orgs :
            memRole'[x][y] = IF x = u /\ y = o THEN "msp_admin" ELSE memRole[x][y]
  BY <1>1 DEF MemInv, MemRowsOK, OrgMembership, Roles, _AUTO_PROVISION_ROLES
<1>5. /\ memTxn' = [p \in MemRequests |-> memTxn'[p]]
      /\ memTxn' = memTxn
      /\ ~ memOverlap => \A p \in MemRequests : memTxn'[p] = MemIdle
      /\ UNCHANGED memOverlap /\ memServed' \in Nat
  BY <1>1, MemEnded DEF MemAtOnce
<1>6. MemRowsOK'
  <2>1. \A x \in Known' : memHome'[x].role \in Roles /\ memHome'[x].org \in memOrgs'
    BY <1>1, <1>2, <1>3 DEF MemInv, MemRowsOK, HomeOf, Known, Roles, _AUTO_PROVISION_ROLES
  <2>2. \A k \in memTokens' : k.user \in Known' /\ memHome'[k.user].org = k.org
    BY <1>1, <1>2, <1>3 DEF MemInv, MemRowsOK, HomeOf, Known
  <2>3. memPatched' = {} => memHome'[Founder] = [org |-> Root, role |-> "msp_admin"]
    BY <1>1, <1>2, MemAssumption DEF MemInv, MemRowsOK, Known, NoUser
  <2>4. \A x \in Users, y \in Orgs : memRole'[x][y] # "none" => x \in Known' /\ y \in memOrgs'
    BY <1>1, <1>3, <1>4 DEF MemInv, MemRowsOK
  <2> QED
    BY <1>1, <1>2, <1>4, <1>5, <2>1, <2>2, <2>3, <2>4 DEF MemInv, MemRowsOK, HomeOf
<1>7. MemReadsOK' /\ MemAloneOK'
  <2>1. \A p \in MemRequests : memTxn'[p].op = "invite" => memTxn[p].user \notin Known'
    BY <1>1, <1>3, <1>5 DEF MemInv, MemReadsOK, MemReadOK
  <2> QED
    BY <1>1, <1>3, <1>5, <1>6, <2>1, MemWriteStep
<1>8. OrgKeepsAnAdmin'
  BY <1>1, <1>4, <1>5 DEF MemInv, MemRowsOK, OrgKeepsAnAdmin
<1>9. StaffReachEveryOrg'
  <2> SUFFICES ASSUME ~ memOverlap, NEW x \in Known', x \notin memSeeded' \cup memPatched,
                      memHome'[x].role \in _AUTO_PROVISION_ROLES,
                      NEW y \in memOrgs' \ memSeeded'
               PROVE  memRole'[x][y] # "none" \/ <<x, y>> \in memRevoked
    BY <1>1, <1>5 DEF StaffReachEveryOrg, MspRoleUsers
  <2>1. x \in Known /\ x # u /\ y \in memOrgs \ memSeeded /\ x \in Users
    BY <1>1, <1>3 DEF Known
  <2>2. x \in MspRoleUsers \ (memPatched \cup memSeeded) /\ y \in Orgs
    BY <1>1, <1>2, <2>1 DEF MspRoleUsers, MemInv, MemRowsOK
  <2> QED
    BY <1>4, <2>1, <2>2 DEF MemInv, StaffReachEveryOrg
<1>10. HomeRoleAgrees'
  <2> SUFFICES ASSUME ~ memOverlap, NEW x \in Known',
                      <<x, memHome'[x].org>> \notin memRevoked
               PROVE  memRole'[x][memHome'[x].org] = memHome'[x].role
    BY <1>1, <1>5 DEF HomeRoleAgrees, HomeOf
  <2>1. CASE x = u
    BY <1>2, <1>4, <2>1
  <2>2. CASE x # u
    <3>1. x \in Known /\ x \in Users /\ memHome'[x] = memHome[x] /\ memHome[x].org \in Orgs
      BY <1>2, <1>3, <2>2 DEF Known, MemInv, MemRowsOK
    <3> QED
      BY <1>4, <2>2, <3>1 DEF MemInv, HomeRoleAgrees, HomeOf
  <2> QED
    BY <2>1, <2>2
<1> QED
  BY <1>6, <1>7, <1>8, <1>9, <1>10 DEF MemInv

\* A step that changes memberships only, and those of nobody but who exists
\* in an organisation that does; the home stays what it is.
LEMMA RolesStep ==
    ASSUME MemInv, memRole' \in OrgMembership,
           UNCHANGED <<memOrgs, memHome, memPatched, memSeeded, memOverlap>>,
           memTokens' \subseteq ApiToken,
           \A k \in memTokens' : k.user \in Known /\ HomeOf(k.user) = k.org,
           memRevoked \subseteq memRevoked',
           \A u \in Users, o \in Orgs : memRole'[u][o] # "none" => u \in Known /\ o \in memOrgs,
           \A u \in Users, o \in Orgs :
              \/ memRole'[u][o] = memRole[u][o]
              \/ memRole[u][o] = "none"
              \/ <<u, o>> \in memRevoked',
           \A u \in Known : memRole[u][HomeOf(u)] = memHome[u].role
                              => \/ memRole'[u][HomeOf(u)] = memRole[u][HomeOf(u)]
                                 \/ <<u, HomeOf(u)>> \in memRevoked',
           ~ memOverlap /\ memPatched = {} =>
              \A u \in Users, o \in Orgs : memRole[u][o] = "msp_admin" =>
                  \E x \in Users : memRole'[x][o] = "msp_admin",
           memTxn' = [p \in MemRequests |-> memTxn'[p]],
           \A p \in MemRequests : memTxn'[p] = memTxn[p] \/ memTxn'[p] = MemIdle,
           ~ memOverlap => \A p \in MemRequests : memTxn'[p] = MemIdle,
           memServed' \in Nat
    PROVE  MemInv'
<1>1. Known' = Known /\ MspRoleUsers' = MspRoleUsers /\ Known \subseteq Users
  BY DEF Known, MspRoleUsers
<1>2. MemRowsOK'
  BY <1>1 DEF MemInv, MemRowsOK, HomeOf
<1>3. MemReadsOK' /\ MemAloneOK'
  <2>1. \A p \in MemRequests : memTxn'[p].op = "invite" => memTxn[p].user \notin Known'
    BY <1>1 DEF MemInv, MemReadsOK, MemReadOK, MemIdle
  <2> QED
    BY <1>1, <1>2, <2>1, MemWriteStep
<1>4. OrgKeepsAnAdmin'
  BY DEF MemInv, MemRowsOK, OrgKeepsAnAdmin
<1>5. StaffReachEveryOrg'
  <2> SUFFICES ASSUME ~ memOverlap, NEW u \in MspRoleUsers \ (memPatched \cup memSeeded),
                      NEW o \in memOrgs \ memSeeded
               PROVE  memRole'[u][o] # "none" \/ <<u, o>> \in memRevoked'
    BY <1>1 DEF StaffReachEveryOrg
  <2>1. u \in Users /\ o \in Orgs
    BY <1>1 DEF MspRoleUsers, MemInv, MemRowsOK
  <2>2. memRole[u][o] # "none" \/ <<u, o>> \in memRevoked
    BY DEF MemInv, StaffReachEveryOrg
  <2> QED
    BY <2>1, <2>2
<1>6. HomeRoleAgrees'
  <2> SUFFICES ASSUME ~ memOverlap, NEW u \in Known, <<u, HomeOf(u)>> \notin memRevoked'
               PROVE  memRole'[u][HomeOf(u)] = memHome[u].role
    BY <1>1 DEF HomeRoleAgrees, HomeOf
  <2>1. memRole[u][HomeOf(u)] = memHome[u].role
    BY DEF MemInv, HomeRoleAgrees
  <2> QED
    BY <2>1
<1> QED
  BY <1>2, <1>3, <1>4, <1>5, <1>6 DEF MemInv

\* A membership is granted where there is none.
LEMMA GrantInv ==
    ASSUME MemInv, NEW c \in Users, NEW u \in Users, NEW o \in Orgs, NEW r \in Roles,
           GrantMembership(c, u, o, r)
    PROVE  MemInv'
<1>1. /\ memRole[c][o] = "msp_admin" /\ u \in Known /\ MemAtOnce
      /\ memRole' = Granted(memRole, u, o, r)
      /\ UNCHANGED <<memOrgs, memHome, memTokens, memRevoked, memPatched, memSeeded>>
  BY DEF GrantMembership, Access, memHistory
<1>2. memRole \in OrgMembership /\ o \in memOrgs
  BY <1>1 DEF MemInv, MemRowsOK
<1>3. /\ memRole' \in OrgMembership
      /\ \A x \in Users, y \in Orgs :
            memRole'[x][y] = IF x = u /\ y = o /\ memRole[x][y] = "none" THEN r
                             ELSE memRole[x][y]
  BY <1>1, <1>2, GrantedIs
<1>4. \A x \in Known : x \in Users /\ HomeOf(x) \in Orgs /\ memHome[x].role # "none"
  BY DEF MemInv, MemRowsOK, Known, Roles, _AUTO_PROVISION_ROLES
<1>5. \A x \in Known : memRole[x][HomeOf(x)] = memHome[x].role
                         => memRole'[x][HomeOf(x)] = memRole[x][HomeOf(x)]
  BY <1>3, <1>4
<1>6. \A x \in Users, y \in Orgs : memRole'[x][y] # "none" => x \in Known /\ y \in memOrgs
  BY <1>1, <1>2, <1>3 DEF MemInv, MemRowsOK
<1>7. \A x \in Users, y \in Orgs : memRole[x][y] = "msp_admin" => memRole'[x][y] = "msp_admin"
  BY <1>3
<1>8. /\ memTokens' \subseteq ApiToken
      /\ \A k \in memTokens' : k.user \in Known /\ HomeOf(k.user) = k.org
  BY <1>1 DEF MemInv, MemRowsOK
<1> QED
  BY <1>1, <1>3, <1>5, <1>6, <1>7, <1>8, MemEnded, RolesStep

\* A membership is revoked; alone, by another administrator, who stays.
LEMMA RevokeInv ==
    ASSUME MemInv, NEW q \in MemRequests, RevokeMembership(q)
    PROVE  MemInv'
<1> DEFINE t == memTxn[q]
<1>1. /\ t.op = "revoke" /\ t # MemIdle
      /\ memRole' = [memRole EXCEPT ![t.user][t.org] = "none"]
      /\ memRevoked' = memRevoked \cup {<<t.user, t.org>>}
      /\ memTxn' = [p \in MemRequests |-> IF memTxn[p] = t THEN MemIdle ELSE memTxn[p]]
      /\ UNCHANGED <<memOrgs, memHome, memTokens, memPatched, memSeeded, memServed, memOverlap>>
  BY DEF RevokeMembership, MemIdle
<1>2. /\ t.user \in Users /\ t.org \in Orgs
      /\ ~ memOverlap => \E x \in Users \ {t.user} : memRole[x][t.org] = "msp_admin"
  BY <1>1 DEF MemInv, MemReadsOK, MemReadOK, MemAloneOK, MemCurrent
<1>3. /\ memRole' \in OrgMembership
      /\ \A x \in Users, y \in Orgs :
            memRole'[x][y] = IF x = t.user /\ y = t.org THEN "none" ELSE memRole[x][y]
  BY <1>1, <1>2 DEF MemInv, MemRowsOK, OrgMembership
<1>4. \A x \in Known : x \in Users /\ HomeOf(x) \in Orgs
  BY DEF MemInv, MemRowsOK, Known
<1>5. \A x \in Known : \/ memRole'[x][HomeOf(x)] = memRole[x][HomeOf(x)]
                       \/ <<x, HomeOf(x)>> \in memRevoked'
  BY <1>1, <1>3, <1>4
<1>6. \A x \in Users, y \in Orgs : memRole'[x][y] # "none" => x \in Known /\ y \in memOrgs
  BY <1>3 DEF MemInv, MemRowsOK
<1>7. ~ memOverlap => \A u \in Users, o \in Orgs : memRole[u][o] = "msp_admin" =>
                          \E x \in Users : memRole'[x][o] = "msp_admin"
  BY <1>2, <1>3
<1>8. /\ memTokens' \subseteq ApiToken
      /\ \A k \in memTokens' : k.user \in Known /\ HomeOf(k.user) = k.org
  BY <1>1 DEF MemInv, MemRowsOK
<1>9. /\ memTxn' = [p \in MemRequests |-> memTxn'[p]]
      /\ \A p \in MemRequests : memTxn'[p] = memTxn[p] \/ memTxn'[p] = MemIdle
      /\ ~ memOverlap => \A p \in MemRequests : memTxn'[p] = MemIdle
      /\ memServed' \in Nat
  BY <1>1 DEF MemInv, MemRowsOK, MemAloneOK
<1>10. \A x \in Users, y \in Orgs :
          \/ memRole'[x][y] = memRole[x][y] \/ memRole[x][y] = "none"
          \/ <<x, y>> \in memRevoked'
  BY <1>1, <1>3
<1> QED
  BY <1>1, <1>3, <1>5, <1>6, <1>7, <1>8, <1>9, <1>10, RolesStep

\* A role is changed in both places it is kept in; alone, to the same.
LEMMA PatchUserInv ==
    ASSUME MemInv, NEW q \in MemRequests, PatchUserRole(q)
    PROVE  MemInv'
<1> DEFINE t == memTxn[q]
           home == HomeOf(t.user)
<1>1. /\ t.op = "patch" /\ t # MemIdle /\ MemEnd(q)
      /\ memHome' = [memHome EXCEPT ![t.user].role = IF t.role = t.read THEN @ ELSE t.role]
      /\ memRole' = [memRole EXCEPT ![t.user][home] = IF @ = "none" THEN @ ELSE t.role]
      /\ memPatched' = memPatched \cup {t.user}
      /\ UNCHANGED <<memOrgs, memTokens, memRevoked, memSeeded>>
  BY DEF PatchUserRole, MemIdle
<1>2. /\ t.user \in Known /\ t.user \in Users /\ t.role \in Roles
      /\ memHome[t.user].role \in Roles /\ home \in Orgs
      /\ ~ memOverlap => t.read = memHome[t.user].role
  BY <1>1 DEF MemInv, MemReadsOK, MemReadOK, MemAloneOK, MemCurrent, MemRowsOK, Known
<1>3. /\ memHome' \in [Users -> [org : Orgs, role : Roles \cup {"none"}]]
      /\ memHome'[t.user].org = memHome[t.user].org
      /\ memHome'[t.user].role = IF t.role = t.read THEN memHome[t.user].role ELSE t.role
      /\ \A u \in Users : u # t.user => memHome'[u] = memHome[u]
  BY <1>1, <1>2 DEF MemInv, MemRowsOK
<1>4. /\ Known' = Known /\ Known \subseteq Users
      /\ \A u \in Known : memHome'[u].org = memHome[u].org /\ memHome'[u].role \in Roles
  <2>1. memHome'[t.user] # NoUser
    BY <1>2, <1>3 DEF NoUser, Roles, _AUTO_PROVISION_ROLES
  <2> QED
    BY <1>2, <1>3, <2>1 DEF Known, MemInv, MemRowsOK
<1>5. /\ memRole' \in OrgMembership
      /\ \A x \in Users, y \in Orgs :
            memRole'[x][y] = IF x = t.user /\ y = home /\ memRole[x][y] # "none"
                             THEN t.role ELSE memRole[x][y]
  BY <1>1, <1>2 DEF MemInv, MemRowsOK, OrgMembership
<1>6. /\ memTxn' = [p \in MemRequests |-> memTxn'[p]]
      /\ \A p \in MemRequests : memTxn'[p] = memTxn[p] \/ memTxn'[p] = MemIdle
      /\ ~ memOverlap => \A p \in MemRequests : memTxn'[p] = MemIdle
      /\ UNCHANGED memOverlap /\ memServed' \in Nat
  BY <1>1, MemEnded
<1>7. MemRowsOK'
  <2>1. memPatched' # {}
    BY <1>1
  <2>2. \A u \in Users, o \in Orgs : memRole'[u][o] # "none" => u \in Known' /\ o \in memOrgs'
    BY <1>1, <1>4, <1>5 DEF MemInv, MemRowsOK
  <2>3. \A k \in memTokens' : k.user \in Known' /\ memHome'[k.user].org = k.org
    BY <1>1, <1>4 DEF MemInv, MemRowsOK, HomeOf
  <2>4. \A u \in Known' : memHome'[u].role \in Roles /\ memHome'[u].org \in memOrgs'
    BY <1>1, <1>4 DEF MemInv, MemRowsOK, HomeOf
  <2>5. memTokens' \subseteq ApiToken /\ memOrgs' \subseteq Orgs
    BY <1>1 DEF MemInv, MemRowsOK
  <2> QED
    BY <1>3, <1>5, <1>6, <2>1, <2>2, <2>3, <2>4, <2>5 DEF MemRowsOK, HomeOf, MemInv
<1>8. MemReadsOK' /\ MemAloneOK'
  <2>1. \A p \in MemRequests : memTxn'[p].op = "invite" => memTxn[p].user \notin Known'
    BY <1>4, <1>6 DEF MemInv, MemReadsOK, MemReadOK, MemIdle
  <2> QED
    BY <1>1, <1>4, <1>6, <1>7, <2>1, MemWriteStep
<1>9. OrgKeepsAnAdmin'
  BY <1>1 DEF OrgKeepsAnAdmin
<1>10. StaffReachEveryOrg'
  <2> SUFFICES ASSUME ~ memOverlap, NEW u \in Known, u \notin memSeeded \cup memPatched',
                      memHome'[u].role \in _AUTO_PROVISION_ROLES,
                      NEW o \in memOrgs \ memSeeded
               PROVE  memRole'[u][o] # "none" \/ <<u, o>> \in memRevoked
    BY <1>1, <1>4, <1>6 DEF StaffReachEveryOrg, MspRoleUsers
  <2>1. u \in Users /\ u # t.user /\ o \in Orgs /\ u \in MspRoleUsers \ (memPatched \cup memSeeded)
    BY <1>1, <1>3, <1>4 DEF MspRoleUsers, MemInv, MemRowsOK
  <2> QED
    BY <1>5, <2>1 DEF MemInv, StaffReachEveryOrg
<1>11. HomeRoleAgrees'
  <2> SUFFICES ASSUME ~ memOverlap, NEW u \in Known, <<u, HomeOf(u)>> \notin memRevoked
               PROVE  memRole'[u][HomeOf(u)] = memHome'[u].role
    BY <1>1, <1>4, <1>6 DEF HomeRoleAgrees, HomeOf
  <2>1. memRole[u][HomeOf(u)] = memHome[u].role /\ memHome[u].role # "none"
        /\ u \in Users /\ HomeOf(u) \in Orgs
    BY <1>4 DEF MemInv, HomeRoleAgrees, MemRowsOK, Roles, _AUTO_PROVISION_ROLES
  <2>2. CASE u = t.user
    BY <1>2, <1>3, <1>5, <2>1, <2>2
  <2>3. CASE u # t.user
    BY <1>3, <1>5, <2>1, <2>3
  <2> QED
    BY <2>2, <2>3
<1> QED
  BY <1>7, <1>8, <1>9, <1>10, <1>11 DEF MemInv

\* A token is issued to a user at home there, or revoked.
LEMMA TokenInv ==
    ASSUME MemInv, NEW c \in Users,
           \/ \E u \in Users, o \in Orgs, r \in Roles : CreateApiToken(c, u, o, r)
           \/ \E k \in memTokens : RevokeApiToken(c, k)
    PROVE  MemInv'
<1>1. /\ MemAtOnce
      /\ UNCHANGED <<memOrgs, memHome, memRole, memRevoked, memPatched, memSeeded>>
  BY DEF CreateApiToken, RevokeApiToken, memHistory
<1>2. /\ memTokens' \subseteq ApiToken
      /\ \A k \in memTokens' : k.user \in Known /\ HomeOf(k.user) = k.org
  <2>1. /\ memTokens \subseteq ApiToken
        /\ \A k \in memTokens : k.user \in Known /\ HomeOf(k.user) = k.org
    BY DEF MemInv, MemRowsOK
  <2>2. ASSUME NEW u \in Users, NEW o \in Orgs, NEW r \in Roles, CreateApiToken(c, u, o, r)
        PROVE  /\ memTokens' \subseteq ApiToken
               /\ \A k \in memTokens' : k.user \in Known /\ HomeOf(k.user) = k.org
    BY <2>1, <2>2 DEF CreateApiToken, ApiToken
  <2>3. ASSUME NEW k \in memTokens, RevokeApiToken(c, k)
        PROVE  memTokens' \subseteq memTokens
    BY <2>3 DEF RevokeApiToken
  <2> QED
    BY <2>1, <2>2, <2>3
<1>3. /\ memRole' \in OrgMembership
      /\ \A u \in Users, o \in Orgs : memRole'[u][o] # "none" => u \in Known /\ o \in memOrgs
  BY <1>1 DEF MemInv, MemRowsOK
<1> QED
  BY <1>1, <1>2, <1>3, MemEnded, RolesStep

-----------------------------------------------------------------------------
(* The specification.                                                      *)

\* No step breaks the invariant.
LEMMA MemNextInv == MemInv /\ [MemNext]_memVars => MemInv'
<1> SUFFICES ASSUME MemInv, [MemNext]_memVars PROVE MemInv'
  OBVIOUS
<1>1. CASE UNCHANGED memVars
  BY <1>1
  DEF memVars, MemInv, MemRowsOK, MemReadsOK, MemReadOK, MemAloneOK, MemCurrent, Known, HomeOf,
      MspRoleUsers, OrgKeepsAnAdmin, StaffReachEveryOrg, HomeRoleAgrees
<1>2. ASSUME NEW q \in MemRequests, CreateOrgConflict(q) PROVE MemInv'
  <2>1. /\ memTxn[q] # MemIdle /\ MemEnd(q)
        /\ UNCHANGED <<memOrgs, memHome, memRole, memTokens, memRevoked, memPatched, memSeeded>>
    BY <1>2 DEF CreateOrgConflict, memHistory, MemIdle
  <2>2. /\ memRole' \in OrgMembership /\ memTokens' \subseteq ApiToken
        /\ \A u \in Users, o \in Orgs : memRole'[u][o] # "none" => u \in Known /\ o \in memOrgs
        /\ \A k \in memTokens' : k.user \in Known /\ HomeOf(k.user) = k.org
    BY <2>1 DEF MemInv, MemRowsOK
  <2> QED
    BY <2>1, <2>2, MemEnded, RolesStep
<1> QED
  BY <1>1, <1>2, BootstrapInv, MemBeginInv, CreateOrgInv, NewUserInv, RevokeInv, PatchUserInv,
     GrantInv, TokenInv DEF MemNext

\* Whatever the requests and their order, users, organisations, memberships and
\* tokens agree (routers/users.py, routers/orgs.py, auth.py).
THEOREM MemInvariant == MemSpec => []MemInv
BY MemInitInv, MemNextInv, PTL DEF MemSpec

\* Every row keeps its type, and a membership is of a user and an organisation
\* that exist (models.py).
THEOREM MemTypeCorrect == MemSpec => []MemTypeOK
<1>1. MemInv => MemTypeOK
  BY DEF MemInv, MemTypeOK, MemRowsOK, MemReadsOK, MemReadOK, Organization
<1> QED
  BY <1>1, MemInvariant, PTL

\* A request with a token has the lower of two roles.
LEMMA TokenRank ==
    ASSUME MemInv, NEW k \in memTokens
    PROVE  /\ ResolveApiToken(k) \in Roles
           /\ RoleRank(ResolveApiToken(k)) <= RoleRank(RoleForMembership(k.user))
<1> DEFINE own == RoleForMembership(k.user)
<1>1. k.role \in Roles /\ k.user \in Known /\ HomeOf(k.user) = k.org
  BY DEF MemInv, MemRowsOK, ApiToken
<1>2. own \in Roles
  BY <1>1 DEF RoleForMembership, MemInv, MemRowsOK, OrgMembership, Known, HomeOf
<1>3. \A r \in Roles : RoleRank(r) \in Int
  BY DEF Roles, _AUTO_PROVISION_ROLES, RoleRank
<1>4. \E r \in {k.role, own} : \A x \in {k.role, own} : RoleRank(r) <= RoleRank(x)
  BY <1>1, <1>2, <1>3
<1>5. /\ ResolveApiToken(k) \in {k.role, own}
      /\ \A x \in {k.role, own} : RoleRank(ResolveApiToken(k)) <= RoleRank(x)
  BY <1>1, <1>4 DEF ResolveApiToken
<1> QED
  BY <1>1, <1>2, <1>5

\* Where requests do not overlap an organisation keeps an administrator as long
\* as no role is changed, staff reach every organisation, and a role is the same
\* in both places; in any interleaving a token can authenticate and gives
\* nothing its owner does not have (grant, revoke, patch_user, provisioning,
\* _resolve_api_token).
THEOREM MembershipsStaySound == MemSpec => []MembershipsAreSound
<1>1. MemInv => MembershipsAreSound
  <2> SUFFICES ASSUME MemInv PROVE MembershipsAreSound
    OBVIOUS
  <2>1. TokensNeverOutrank
    BY TokenRank DEF TokensNeverOutrank
  <2>2. TokensCanAuthenticate
    BY TokenRank DEF TokensCanAuthenticate, Roles, _AUTO_PROVISION_ROLES
  <2> QED
    BY <2>1, <2>2 DEF MembershipsAreSound, MemInv
<1> QED
  BY <1>1, MemInvariant, PTL

-----------------------------------------------------------------------------
(* Casework.                                                               *)

CwSpec == CwInit /\ [][CwNext]_cwVars

\* A contact as it is stored: with its address normalised.
StoredContact == {row \in Contact : _normalize_email[row.email] = row.email}

\* Contacts, the addresses they share with nobody, and their roles.
CwPeopleOK ==
    /\ cwContact = [c \in Contacts |-> cwContact[c]]
    /\ \A c \in Contacts : cwContact[c] \in StoredContact \cup {NoContact}
    /\ cwGone \subseteq Contacts /\ cwGone \cap Live = {}
    /\ cwDocRole \subseteq ContactDocumentationRole
    /\ \A r \in cwDocRole : r.contact \in Live
    /\ OneContactPerAddress

\* Assessments and the RACI rows in them.
CwPapersOK ==
    /\ cwCycle \in [Numbers -> {"none", "in_progress", "submitted"}]
    /\ cwRaci \subseteq RaciAssignment /\ cwHand \subseteq RaciAssignment
    /\ \A r \in cwRaci : r.contact \in Live /\ r.cycle \in Started
    /\ Started \subseteq 0..cwServed

CwTextOK ==
    /\ cwStatement \in ImplementationStatement \cup {NoStatement}
    /\ cwApproved \subseteq Bodies
    /\ ApprovedTextWasApproved

\* One submitter at most.
OneLink(row) == \A c, d \in row.link : c = d

CwFiledOK ==
    /\ cwFiled = [s \in Numbers |-> cwFiled[s]]
    /\ \A s \in Numbers :
          cwFiled[s] = NoFiling \/ (cwFiled[s] \in SprsSubmission /\ OneLink(cwFiled[s]))
    /\ Filings \subseteq 0..cwServed

\* What the job is about is filed and due, and not marked; a mail more than the
\* crashes explain is marked or about to be.
OverAYear(s) == s \in Filings /\ cwFiled[s].date + Year <= cwNow
Mailed(s) == cwJob.sent /\ s \in cwJob.due

CwRemindOK ==
    /\ cwLog \subseteq Numbers
    /\ cwJob \in [due : SUBSET Numbers, left : SUBSET Staff, sent : BOOLEAN]
    /\ cwMails \in [Numbers -> Nat]
    /\ cwCrashes \in 0..CwCrashMax /\ cwNow \in 0..CwLast
    /\ \A s \in cwLog \cup cwJob.due : OverAYear(s)
    /\ cwLog \cap cwJob.due = {}
    /\ \A s \in Numbers :
          /\ s \in cwLog \/ Mailed(s) => cwMails[s] >= 1
          /\ cwMails[s] <= cwCrashes + (IF s \in cwLog \/ Mailed(s) THEN 1 ELSE 0)

\* What still holds of what a request in flight read, whatever the others did.
CwReadOK(t, served) ==
    /\ t.op \in {"idle", "contact", "raci", "read", "assess", "statement", "file", "void"}
    /\ t.op = "idle" => t = CwIdle
    /\ t.op = "contact" =>
          /\ DOMAIN t.create \subseteq Contacts /\ DOMAIN t.change \subseteq Contacts
          /\ \A c \in DOMAIN t.create : t.create[c] \in StoredContact /\ c \notin Live \cup cwGone
          /\ \A c \in DOMAIN t.change : t.change[c] \in StoredContact
    /\ t.op \in {"raci", "read", "assess"} =>
          t.rows \subseteq RaciAssignment /\ t.hand \subseteq RaciAssignment
    /\ t.op = "raci" => \A r \in t.rows : r.cycle \in Started
    /\ t.op \in {"read", "assess"} =>
          /\ t.cycle \in 1..served /\ t.cycle \notin Started
          /\ \A r \in t.rows : r.cycle = t.cycle
    /\ t.op = "statement" =>
          /\ t.item \in ImplementationStatement
          /\ t.read \in ImplementationStatement \cup {NoStatement}
          /\ t.read # NoStatement => cwStatement # NoStatement
    /\ t.op = "file" =>
          /\ t.number \in 1..served /\ t.number \notin Filings
          /\ t.row \in SprsSubmission /\ OneLink(t.row)
    /\ t.op = "void" => t.number \in Filings /\ t.reason \in {"typo", "wrong"}

\* Two requests in flight create different contacts, assessments and
\* submissions.
Apart(t, u) ==
    /\ t.op = "contact" /\ u.op = "contact" => DOMAIN t.create \cap DOMAIN u.create = {}
    /\ t.op \in {"read", "assess"} /\ u.op \in {"read", "assess"} => t.cycle # u.cycle
    /\ t.op = "file" /\ u.op = "file" => t.number # u.number

CwReadsOK ==
    /\ cwServed \in 0..CwMax /\ cwOverlap \in BOOLEAN
    /\ cwTxn = [q \in CwRequests |-> cwTxn[q]]
    /\ \A q \in CwRequests : CwReadOK(cwTxn[q], cwServed)
    /\ \A p, q \in CwRequests : p # q => Apart(cwTxn[p], cwTxn[q])

\* The same letter on the same objective.
SameGap(r, s) == r.cycle = s.cycle /\ r.obj = s.obj /\ r.letter = s.letter

OneEach(rows) == \A r, s \in rows : SameGap(r, s) => r = s

\* Alone, a request has read what is there: gaps are still gaps, the rows to
\* carry forward those of the last completed assessment.
CwCurrent(t) ==
    /\ t.op \in {"raci", "read", "assess"} => OneEach(t.rows \ t.hand)
    /\ t.op = "raci" => \A r \in t.rows \ t.hand, s \in cwRaci : ~ SameGap(r, s)
    /\ t.op = "read" => \A r \in t.rows : r.contact \in Live
    /\ t.op \in {"read", "assess"} =>
          \A m \in Latest(Completed) : t.rows = {[r EXCEPT !.cycle = t.cycle] : r \in RowsIn(m)}
    /\ t.op = "statement" => t.read = cwStatement
    /\ t.op = "void" => cwFiled[t.number].voided = "no"

CwAloneOK ==
    ~ cwOverlap =>
        /\ \A p, q \in CwRequests : cwTxn[p] # CwIdle /\ cwTxn[q] # CwIdle => p = q
        /\ \A q \in CwRequests : CwCurrent(cwTxn[q])
        /\ OneEach(cwRaci \ cwHand)

CwInv ==
    CwPeopleOK /\ CwPapersOK /\ CwTextOK /\ CwFiledOK /\ CwRemindOK /\ CwReadsOK /\ CwAloneOK

-----------------------------------------------------------------------------
(* What does not change.                                                   *)

\* No contact is the absence of one.
LEMMA NoContactIsNone == NoContact \notin Contact /\ NoContact \notin StoredContact
BY DEF NoContact, Contact, StoredContact, AsTyped, _normalize_email

\* A normalised address is normalised again to itself.
LEMMA NormalIsNormal ==
    ASSUME NEW e \in AsTyped
    PROVE  /\ _normalize_email[e] \in AsTyped
           /\ _normalize_email[_normalize_email[e]] = _normalize_email[e]
BY DEF AsTyped, _normalize_email

\* Who is a contact, and a stored one.
LEMMA LiveIsStored ==
    ASSUME CwPeopleOK
    PROVE  /\ Live \subseteq Contacts
           /\ \A c \in Contacts : c \in Live <=> cwContact[c] \in StoredContact
BY NoContactIsNone DEF CwPeopleOK, Live

\* The tables stay as they are.
LEMMA TablesStand ==
    ASSUME CwInv, UNCHANGED <<cwTables, cwOverlap>>, cwServed <= cwServed', cwServed' \in Int
    PROVE  /\ CwPeopleOK' /\ CwPapersOK' /\ CwTextOK' /\ CwFiledOK'
           /\ Live' = Live /\ Started' = Started /\ Completed' = Completed
           /\ Filings' = Filings
<1>1. UNCHANGED <<cwContact, cwGone, cwDocRole, cwRaci, cwHand, cwCycle, cwStatement,
                  cwApproved, cwFiled, cwOverlap>>
  BY DEF cwTables, cwPeople, cwPapers, cwText
<1>2. Live' = Live /\ Started' = Started /\ Completed' = Completed /\ Filings' = Filings
  BY <1>1 DEF Live, Started, Completed, Filings
<1>3. CwPeopleOK'
  BY <1>1, <1>2 DEF CwInv, CwPeopleOK, OneContactPerAddress
<1>4. cwServed \in Int /\ 0..cwServed \subseteq 0..cwServed'
  BY DEF CwInv, CwReadsOK
<1>5. CwPapersOK'
  BY <1>1, <1>2, <1>4 DEF CwInv, CwPapersOK
<1>6. CwTextOK'
  BY <1>1 DEF CwInv, CwTextOK, ApprovedTextWasApproved
<1>7. CwFiledOK'
  BY <1>1, <1>2, <1>4 DEF CwInv, CwFiledOK, OneLink
<1> QED
  BY <1>2, <1>3, <1>5, <1>6, <1>7

\* What is filed keeps its date: the job is about the same.
LEMMA RemindStands ==
    ASSUME CwInv, UNCHANGED <<cwRemind, cwNow>>,
           \A s \in Filings : s \in Filings' /\ cwFiled'[s].date = cwFiled[s].date
    PROVE  CwRemindOK'
<1>1. UNCHANGED <<cwLog, cwJob, cwMails, cwCrashes, cwNow>>
  BY DEF cwRemind
<1>2. \A s : OverAYear(s) => OverAYear(s)'
  BY <1>1 DEF OverAYear
<1> QED
  BY <1>1, <1>2 DEF CwInv, CwRemindOK, Mailed

-----------------------------------------------------------------------------
(* Requests.                                                               *)

\* Initially there is one contact with one letter.
LEMMA CwInitInv == CwInit => CwInv
<1> SUFFICES ASSUME CwInit PROVE CwInv
  OBVIOUS
<1> USE CwAssumption DEF CwInit
<1>1. Live = {Client} /\ Started = {0} /\ Filings = {}
  <2>1. 0 \in Numbers
    BY DEF Numbers
  <2>2. Live = {Client}
    BY DEF Live, NoContact
  <2>3. Started = {0}
    BY <2>1 DEF Started
  <2> QED
    BY <2>2, <2>3 DEF Filings
<1>2. CwPeopleOK
  BY <1>1 DEF CwPeopleOK, StoredContact, Contact, Names, AsTyped, _normalize_email,
              OneContactPerAddress
<1>3. CwPapersOK
  <2>1. 0 \in Numbers /\ {0} \subseteq 0..0
    BY DEF Numbers
  <2> QED
    BY <1>1, <2>1 DEF CwPapersOK, RaciAssignment, Letters
<1>4. CwTextOK
  BY DEF CwTextOK, ApprovedTextWasApproved, NoStatement
<1>5. CwFiledOK
  BY <1>1 DEF CwFiledOK
<1>6. CwRemindOK
  BY DEF CwRemindOK, NoRun, Mailed
<1>7. CwReadsOK
  BY DEF CwReadsOK, CwReadOK, CwIdle, Apart
<1>8. CwAloneOK
  BY DEF CwAloneOK, CwCurrent, CwIdle, OneEach
<1> QED
  BY <1>2, <1>3, <1>4, <1>5, <1>6, <1>7, <1>8 DEF CwInv

\* A request is served: the count goes up, below its bound.
LEMMA CwServed ==
    ASSUME CwInv, CwServe
    PROVE  /\ cwServed' = cwServed + 1 /\ cwServed \in Nat /\ cwServed' \in 1..CwMax
           /\ UNCHANGED <<cwRemind, cwNow, cwOverlap>>
           /\ cwOverlap \/ \A q \in CwRequests : cwTxn[q] = CwIdle
BY CwAssumption DEF CwInv, CwReadsOK, CwServe

\* A request begins: t is what it read.
LEMMA CwBeginStep ==
    ASSUME CwInv, NEW q \in CwRequests, NEW t, CwBegin(q, t),
           CwReadOK(t, cwServed + 1), ~ cwOverlap => CwCurrent(t),
           \A p \in CwRequests : Apart(t, cwTxn[p]) /\ Apart(cwTxn[p], t)
    PROVE  CwInv'
<1>1. /\ cwTxn' = [cwTxn EXCEPT ![q] = t] /\ cwTxn[q] = CwIdle
      /\ UNCHANGED cwTables
  BY DEF CwBegin
<1>2. cwTxn'[q] = t /\ \A p \in CwRequests : p # q => cwTxn'[p] = cwTxn[p]
  BY <1>1 DEF CwInv, CwReadsOK
<1>3. /\ cwServed' = cwServed + 1 /\ cwServed \in Nat /\ cwServed' \in 1..CwMax
      /\ UNCHANGED <<cwRemind, cwNow, cwOverlap>>
      /\ cwOverlap \/ \A p \in CwRequests : cwTxn[p] = CwIdle
  BY CwServed DEF CwBegin
<1>4. /\ CwPeopleOK' /\ CwPapersOK' /\ CwTextOK' /\ CwFiledOK'
      /\ Live' = Live /\ Started' = Started /\ Completed' = Completed /\ Filings' = Filings
  BY <1>1, <1>3, TablesStand
<1>5. UNCHANGED <<cwContact, cwGone, cwDocRole, cwRaci, cwHand, cwCycle, cwStatement,
                  cwApproved, cwFiled>>
  BY <1>1 DEF cwTables, cwPeople, cwPapers, cwText
<1>6. CwRemindOK'
  BY <1>3, <1>4, <1>5, RemindStands
<1>7. CwReadsOK'
  <2>1. cwTxn' = [p \in CwRequests |-> cwTxn'[p]]
    BY <1>1 DEF CwInv, CwReadsOK
  <2>2. ASSUME NEW u, CwReadOK(u, cwServed) \/ CwReadOK(u, cwServed + 1)
        PROVE  CwReadOK(u, cwServed)'
    <3>1. CwReadOK(u, cwServed')
      BY <1>3, <2>2 DEF CwReadOK
    <3> QED
      BY <1>4, <1>5, <3>1 DEF CwReadOK
  <2>3. \A p \in CwRequests : CwReadOK(cwTxn[p], cwServed)'
    <3> SUFFICES ASSUME NEW p \in CwRequests PROVE CwReadOK(cwTxn[p], cwServed)'
      OBVIOUS
    <3>1. PICK u : u = cwTxn'[p]
      OBVIOUS
    <3>2. CwReadOK(u, cwServed) \/ CwReadOK(u, cwServed + 1)
      BY <1>2, <3>1 DEF CwInv, CwReadsOK
    <3>3. CwReadOK(u, cwServed)'
      BY <2>2, <3>2
    <3> QED
      BY <3>1, <3>3 DEF CwReadOK
  <2>4. \A p, r \in CwRequests : p # r => Apart(cwTxn'[p], cwTxn'[r])
    BY <1>2 DEF CwInv, CwReadsOK
  <2>5. cwServed' \in 0..CwMax /\ cwOverlap' \in BOOLEAN
    BY <1>3 DEF CwInv, CwReadsOK
  <2> QED
    BY <2>1, <2>3, <2>4, <2>5 DEF CwReadsOK, Apart
<1>8. CwAloneOK'
  <2> SUFFICES ASSUME ~ cwOverlap PROVE CwAloneOK'
    BY <1>3 DEF CwAloneOK
  <2>1. \A p \in CwRequests : p # q => cwTxn'[p] = CwIdle
    BY <1>2, <1>3
  <2>2. CwCurrent(t)'
    BY <1>4, <1>5 DEF CwCurrent, RowsIn, Latest
  <2>3. \A p \in CwRequests : CwCurrent(cwTxn[p])'
    BY <1>2, <2>1, <2>2 DEF CwCurrent, CwIdle
  <2>4. OneEach(cwRaci \ cwHand)'
    BY <1>5 DEF CwInv, CwAloneOK, OneEach
  <2> QED
    BY <2>1, <2>3, <2>4 DEF CwAloneOK
<1> QED
  BY <1>4, <1>6, <1>7, <1>8 DEF CwInv

\* Contacts: a new one is of nobody, and what is written is normalised.
LEMMA ContactBegins ==
    ASSUME CwInv, NEW q \in CwRequests, NEW c \in Contacts, NEW e \in AsTyped,
           \/ CreateContactBegin(q, c, e)
           \/ \E n \in Names : PatchContactBegin(q, c, e, n)
           \/ \E d \in Contacts, n \in Names : ImportLiongardContacts(q, c, e, d, n)
    PROVE  CwInv'
<1> DEFINE mail == _normalize_email[e]
<1>1. mail \in AsTyped /\ _normalize_email[mail] = mail
  BY NormalIsNormal
<1>2. /\ Live \subseteq Contacts /\ \A x \in Live : cwContact[x] \in StoredContact
  BY LiveIsStored DEF CwInv
<1> HIDE DEF mail
<1>3. "old" \in Names /\ "new" \in Names
  BY DEF Names
<1>4. \A n \in Names : [email |-> mail, name |-> n] \in StoredContact
  BY <1>1 DEF StoredContact, Contact
<1>5. \A t : Apart(CwIdle, t) /\ Apart(t, CwIdle)
  BY DEF Apart, CwIdle
<1>6. ASSUME NEW new, NEW old, new \subseteq {c}, old \subseteq Contacts,
             NEW create \in [new -> StoredContact], NEW change \in [old -> StoredContact],
             new # {} => Unborn(c),
             CwBegin(q, [op |-> "contact", create |-> create, change |-> change])
      PROVE  CwInv'
  <2> DEFINE t == [op |-> "contact", create |-> create, change |-> change]
  <2>1. t.op = "contact" /\ t.create = create /\ t.change = change /\ CwBegin(q, t)
    BY <1>6
  <2> HIDE DEF t
  <2>2. CwReadOK(t, cwServed + 1)
    BY <1>6, <2>1 DEF CwReadOK, Unborn
  <2>3. \A p \in CwRequests : Apart(t, cwTxn[p]) /\ Apart(cwTxn[p], t)
    BY <1>6, <2>1 DEF Apart, Unborn
  <2>4. CwCurrent(t)
    BY <2>1 DEF CwCurrent
  <2> QED
    BY <2>1, <2>2, <2>3, <2>4, CwBeginStep
<1>7. CASE CreateContactBegin(q, c, e)
  <2> DEFINE create == [d \in {c} |-> [email |-> mail, name |-> "old"]]
  <2>1. Unborn(c) /\ CwBegin(q, [op |-> "contact", create |-> create, change |-> NoRows])
    BY <1>7 DEF CreateContactBegin, mail
  <2>2. create \in [{c} -> StoredContact] /\ NoRows \in [{} -> StoredContact]
    BY <1>3, <1>4 DEF NoRows
  <2> HIDE DEF create
  <2> QED
    BY <1>6, <2>1, <2>2
<1>8. ASSUME NEW n \in Names, PatchContactBegin(q, c, e, n) PROVE CwInv'
  <2> DEFINE change == [d \in {c} |-> [email |-> mail, name |-> n]]
  <2>1. CwBegin(q, [op |-> "contact", create |-> NoRows, change |-> change])
    BY <1>8 DEF PatchContactBegin, mail
  <2>2. change \in [{c} -> StoredContact] /\ NoRows \in [{} -> StoredContact]
    BY <1>4 DEF NoRows
  <2> HIDE DEF change
  <2> QED
    BY <1>6, <2>1, <2>2
<1>9. ASSUME NEW d \in Contacts, NEW n \in Names, ImportLiongardContacts(q, c, e, d, n)
      PROVE  CwInv'
  <2> DEFINE new == IF ByEmail(mail) = {} THEN {c} ELSE {}
             old == {d} \cap Live
             create == [x \in new |-> [email |-> mail, name |-> "new"]]
             change == [x \in old |-> [cwContact[x] EXCEPT !.name = n]]
  <2>1. Unborn(c) /\ CwBegin(q, [op |-> "contact", create |-> create, change |-> change])
    BY <1>9 DEF ImportLiongardContacts, mail
  <2>2. new \subseteq {c} /\ old \subseteq Contacts /\ old \subseteq Live
    OBVIOUS
  <2>3. create \in [new -> StoredContact]
    BY <1>3, <1>4
  <2>4. change \in [old -> StoredContact]
    BY <1>2 DEF StoredContact, Contact
  <2> HIDE DEF create, change, new, old
  <2> QED
    BY <1>6, <2>1, <2>2, <2>3, <2>4
<1> QED
  BY <1>7, <1>8, <1>9

\* A letter assigned one by one, or wherever it is missing.
LEMMA RaciBegins ==
    ASSUME CwInv, NEW q \in CwRequests, NEW n \in Started, NEW c \in Contacts, NEW l \in Letters,
           \/ BulkAssignRaci(q, n, c, l)
           \/ \E o \in CwObjectives :
                 CreateRaciBegin(q, [cycle |-> n, obj |-> o, contact |-> c, letter |-> l])
    PROVE  CwInv'
<1>1. n \in Numbers
  BY DEF Started
<1>2. ASSUME NEW rows \in SUBSET RaciAssignment, NEW hand \in SUBSET RaciAssignment,
             \A r \in rows : r.cycle \in Started,
             OneEach(rows \ hand), \A r \in rows \ hand, s \in cwRaci : ~ SameGap(r, s),
             CwBegin(q, [op |-> "raci", rows |-> rows, hand |-> hand])
      PROVE  CwInv'
  <2> DEFINE t == [op |-> "raci", rows |-> rows, hand |-> hand]
  <2>1. t.op = "raci" /\ t.rows = rows /\ t.hand = hand /\ CwBegin(q, t)
    BY <1>2
  <2> HIDE DEF t
  <2>2. CwReadOK(t, cwServed + 1)
    BY <1>2, <2>1 DEF CwReadOK
  <2>3. \A p \in CwRequests : Apart(t, cwTxn[p]) /\ Apart(cwTxn[p], t)
    BY <2>1 DEF Apart
  <2>4. CwCurrent(t)
    BY <1>2, <2>1 DEF CwCurrent
  <2> QED
    BY <2>1, <2>2, <2>3, <2>4, CwBeginStep
<1>3. CASE BulkAssignRaci(q, n, c, l)
  <2> DEFINE rows == {[cycle |-> n, obj |-> o, contact |-> c, letter |-> l] :
                      o \in CwObjectives \ AlreadyCovered(n, c, l)}
  <2>1. CwBegin(q, [op |-> "raci", rows |-> rows, hand |-> {}])
    BY <1>3 DEF BulkAssignRaci
  <2>2. rows \subseteq RaciAssignment /\ \A r \in rows : r.cycle \in Started
    BY <1>1 DEF RaciAssignment
  <2>3. OneEach(rows)
    BY DEF OneEach, SameGap
  <2>4. \A r \in rows, s \in cwRaci : ~ SameGap(r, s)
    BY DEF SameGap, AlreadyCovered, RowsIn
  <2> HIDE DEF rows
  <2> QED
    BY <1>2, <2>1, <2>2, <2>3, <2>4
<1>4. ASSUME NEW o \in CwObjectives,
             CreateRaciBegin(q, [cycle |-> n, obj |-> o, contact |-> c, letter |-> l])
      PROVE  CwInv'
  <2> DEFINE r == [cycle |-> n, obj |-> o, contact |-> c, letter |-> l]
  <2>1. CwBegin(q, [op |-> "raci", rows |-> {r}, hand |-> {r}])
    BY <1>4 DEF CreateRaciBegin
  <2>2. r \in RaciAssignment /\ r.cycle \in Started
    BY <1>1 DEF RaciAssignment
  <2> HIDE DEF r
  <2>3. OneEach({r} \ {r}) /\ \A x \in {r} \ {r}, s \in cwRaci : ~ SameGap(x, s)
    BY DEF OneEach
  <2> QED
    BY <1>2, <2>1, <2>2, <2>3
<1> QED
  BY <1>3, <1>4

\* The latest of a set of numbers is one.
LEMMA OneLatest ==
    ASSUME NEW S, \A x \in S : x \in Int, NEW m \in Latest(S), NEW n \in Latest(S)
    PROVE  m = n
BY DEF Latest

\* A new assessment reads the rows of the last completed one, or of the last.
LEMMA AssessmentBegins ==
    ASSUME CwInv, NEW q \in CwRequests, CreateAssessmentBegin(q)
    PROVE  CwInv'
<1> DEFINE n == cwServed + 1
           source == UNION {RowsIn(m) : m \in CopySource}
           rows == {[r EXCEPT !.cycle = n] : r \in source}
           hand == {[r EXCEPT !.cycle = n] : r \in source \cap cwHand}
           t == [op |-> "read", cycle |-> n, rows |-> rows, hand |-> hand]
<1>1. CwBegin(q, t) /\ CwServe
  BY DEF CreateAssessmentBegin, CwBegin
<1>2. n \in 1..CwMax /\ cwServed \in Nat
  BY <1>1, CwServed
<1>3. n \in Numbers /\ n \notin Started
  <2>1. n \in Numbers
    BY <1>2, CwAssumption DEF Numbers
  <2>2. n \notin Started
    BY <1>2 DEF CwInv, CwPapersOK
  <2> QED
    BY <2>1, <2>2
<1>4. source \subseteq cwRaci /\ cwRaci \subseteq RaciAssignment
  BY DEF RowsIn, CwInv, CwPapersOK
<1>5. rows \subseteq RaciAssignment /\ hand \subseteq RaciAssignment
      /\ \A r \in rows : r.cycle = n
  BY <1>3, <1>4 DEF RaciAssignment
<1>6. \A m, k \in CopySource : m = k
  <2>1. \A x \in Started : x \in Int
    BY DEF Started, Numbers
  <2>2. \A x \in Completed : x \in Int
    BY DEF Completed, Numbers
  <2> QED
    BY <2>1, <2>2, OneLatest DEF CopySource
<1>7. ~ cwOverlap => OneEach(rows \ hand)
  <2> SUFFICES ASSUME ~ cwOverlap, NEW r \in rows \ hand, NEW s \in rows \ hand, SameGap(r, s)
               PROVE  r = s
    BY DEF OneEach
  <2>1. PICK x \in source : r = [x EXCEPT !.cycle = n]
    OBVIOUS
  <2>2. PICK y \in source : s = [y EXCEPT !.cycle = n]
    OBVIOUS
  <2>3. x \notin cwHand /\ y \notin cwHand
    BY <2>1, <2>2
  <2>4. x \in RaciAssignment /\ y \in RaciAssignment /\ x \in cwRaci /\ y \in cwRaci
    BY <1>4
  <2>5. x.cycle = y.cycle
    BY <1>6 DEF RowsIn
  <2>6. x.obj = y.obj /\ x.letter = y.letter
    BY <2>1, <2>2, <2>4 DEF SameGap, RaciAssignment
  <2>7. x = y
    BY <2>3, <2>4, <2>5, <2>6 DEF CwInv, CwAloneOK, OneEach, SameGap
  <2> QED
    BY <2>1, <2>2, <2>7
<1>8. \A r \in rows : r.contact \in Live
  BY <1>4 DEF CwInv, CwPapersOK, RaciAssignment
<1>9. \A m \in Latest(Completed) : rows = {[r EXCEPT !.cycle = n] : r \in RowsIn(m)}
  <2> SUFFICES ASSUME NEW m \in Latest(Completed) PROVE source = RowsIn(m)
    OBVIOUS
  <2>1. CopySource = Latest(Completed)
    BY DEF CopySource, Latest
  <2> QED
    BY <1>6, <2>1
<1>10. t.op = "read" /\ t.cycle = n /\ t.rows = rows /\ t.hand = hand
  OBVIOUS
<1> HIDE DEF source, rows, hand, t
<1>11. CwReadOK(t, cwServed + 1)
  BY <1>2, <1>3, <1>5, <1>10 DEF CwReadOK
<1>12. ~ cwOverlap => CwCurrent(t)
  BY <1>7, <1>8, <1>9, <1>10 DEF CwCurrent
<1>13. \A p \in CwRequests : Apart(t, cwTxn[p]) /\ Apart(cwTxn[p], t)
  BY <1>2, <1>10 DEF Apart, CwInv, CwReadsOK, CwReadOK
<1> QED
  BY <1>1, <1>11, <1>12, <1>13, CwBeginStep

\* A statement, a submission, a voiding.
LEMMA PaperBegins ==
    ASSUME CwInv, NEW q \in CwRequests,
           \/ \E item \in ImplementationStatement : UpsertBegin(q, item)
           \/ \E c \in Contacts, d \in 0..CwLast : CreateSubmissionBegin(q, c, d)
           \/ \E s \in Numbers, reason \in {"typo", "wrong"} : VoidBegin(q, s, reason)
    PROVE  CwInv'
<1>1. ASSUME NEW item \in ImplementationStatement, UpsertBegin(q, item) PROVE CwInv'
  <2> DEFINE t == [op |-> "statement", read |-> cwStatement, item |-> item]
  <2>1. t.op = "statement" /\ t.read = cwStatement /\ t.item = item /\ CwBegin(q, t)
    BY <1>1 DEF UpsertBegin
  <2> HIDE DEF t
  <2>2. CwReadOK(t, cwServed + 1) /\ CwCurrent(t)
    BY <2>1 DEF CwReadOK, CwCurrent, CwInv, CwTextOK
  <2>3. \A p \in CwRequests : Apart(t, cwTxn[p]) /\ Apart(cwTxn[p], t)
    BY <2>1 DEF Apart
  <2> QED
    BY <2>1, <2>2, <2>3, CwBeginStep
<1>2. ASSUME NEW c \in Contacts, NEW d \in 0..CwLast, CreateSubmissionBegin(q, c, d)
      PROVE  CwInv'
  <2> DEFINE row == [date |-> d, link |-> {c}, who |-> cwContact[c].name, voided |-> "no"]
             t == [op |-> "file", number |-> cwServed + 1, row |-> row]
  <2>1. CwBegin(q, t) /\ c \in Live /\ CwServe
    BY <1>2 DEF CreateSubmissionBegin, CwBegin
  <2>2. row \in SprsSubmission /\ OneLink(row)
    <3>1. cwContact[c].name \in Names
      BY <2>1, LiveIsStored DEF CwInv, StoredContact, Contact
    <3> QED
      BY <3>1 DEF SprsSubmission, OneLink
  <2>3. cwServed + 1 \in 1..CwMax /\ cwServed \in Nat
    BY <2>1, CwServed
  <2>4. cwServed + 1 \notin Filings
    BY <2>3 DEF CwInv, CwFiledOK
  <2>5. t.op = "file" /\ t.number = cwServed + 1 /\ t.row = row
    OBVIOUS
  <2> HIDE DEF row, t
  <2>6. CwReadOK(t, cwServed + 1) /\ CwCurrent(t)
    BY <2>2, <2>3, <2>4, <2>5 DEF CwReadOK, CwCurrent
  <2>7. \A p \in CwRequests : Apart(t, cwTxn[p]) /\ Apart(cwTxn[p], t)
    BY <2>3, <2>5 DEF Apart, CwInv, CwReadsOK, CwReadOK
  <2> QED
    BY <2>1, <2>6, <2>7, CwBeginStep
<1>3. ASSUME NEW s \in Numbers, NEW reason \in {"typo", "wrong"}, VoidBegin(q, s, reason)
      PROVE  CwInv'
  <2> DEFINE t == [op |-> "void", number |-> s, reason |-> reason]
  <2>1. /\ t.op = "void" /\ t.number = s /\ t.reason = reason /\ CwBegin(q, t)
        /\ s \in Filings /\ cwFiled[s].voided = "no"
    BY <1>3 DEF VoidBegin
  <2> HIDE DEF t
  <2>2. CwReadOK(t, cwServed + 1) /\ CwCurrent(t)
    BY <2>1 DEF CwReadOK, CwCurrent
  <2>3. \A p \in CwRequests : Apart(t, cwTxn[p]) /\ Apart(cwTxn[p], t)
    BY <2>1 DEF Apart
  <2> QED
    BY <2>1, <2>2, <2>3, CwBeginStep
<1> QED
  BY <1>1, <1>2, <1>3

\* What is left when a request ends, or is served at once: without overlap
\* nothing in flight.
LEMMA CwEnded ==
    ASSUME CwInv,
           \/ CwAtOnce
           \/ \E q \in CwRequests : cwTxn[q] # CwIdle /\ CwEnd(q)
    PROVE  /\ cwTxn' = [p \in CwRequests |-> cwTxn'[p]]
           /\ \A p \in CwRequests : cwTxn'[p] = cwTxn[p] \/ cwTxn'[p] = CwIdle
           /\ ~ cwOverlap => \A p \in CwRequests : cwTxn'[p] = CwIdle
           /\ UNCHANGED <<cwRemind, cwNow, cwOverlap>>
           /\ cwServed <= cwServed' /\ cwServed' \in 0..CwMax
<1>1. CASE CwAtOnce
  BY <1>1, CwServed DEF CwAtOnce, CwInv, CwReadsOK
<1>2. ASSUME NEW q \in CwRequests, cwTxn[q] # CwIdle, CwEnd(q)
      PROVE  /\ cwTxn' = [p \in CwRequests |-> cwTxn'[p]]
             /\ \A p \in CwRequests : cwTxn'[p] = cwTxn[p] \/ cwTxn'[p] = CwIdle
             /\ ~ cwOverlap => \A p \in CwRequests : cwTxn'[p] = CwIdle
             /\ UNCHANGED <<cwRemind, cwNow, cwOverlap>>
             /\ cwServed <= cwServed' /\ cwServed' \in 0..CwMax
  BY <1>2 DEF CwEnd, CwInv, CwReadsOK, CwAloneOK
<1> QED
  BY <1>1, <1>2

\* A request commits.  As long as nobody in flight creates what it did, and what
\* was started, filed or written stays, the others may rely on what they read.
LEMMA CwWriteStep ==
    ASSUME CwInv, UNCHANGED cwOverlap, cwServed <= cwServed', cwServed' \in 0..CwMax,
           cwTxn' = [p \in CwRequests |-> cwTxn'[p]],
           \A p \in CwRequests : cwTxn'[p] = cwTxn[p] \/ cwTxn'[p] = CwIdle,
           ~ cwOverlap => \A p \in CwRequests : cwTxn'[p] = CwIdle,
           \/ Live' \cup cwGone' = Live \cup cwGone
           \/ \A p \in CwRequests : cwTxn'[p].op = "contact" =>
                 \A c \in DOMAIN cwTxn[p].create : c \notin Live' \cup cwGone',
           \/ Started' = Started
           \/ /\ Started \subseteq Started'
              /\ \A p \in CwRequests : cwTxn'[p].op \in {"read", "assess"} =>
                    cwTxn[p].cycle \notin Started',
           cwStatement' = cwStatement \/ cwStatement' # NoStatement,
           \/ Filings' = Filings
           \/ /\ Filings \subseteq Filings'
              /\ \A p \in CwRequests : cwTxn'[p].op = "file" => cwTxn[p].number \notin Filings',
           ~ cwOverlap => OneEach(cwRaci' \ cwHand')
    PROVE  CwReadsOK' /\ CwAloneOK'
<1>1. \A p \in CwRequests : CwReadOK(cwTxn[p], cwServed)'
  <2> SUFFICES ASSUME NEW p \in CwRequests PROVE CwReadOK(cwTxn[p], cwServed)'
    OBVIOUS
  <2>1. CASE cwTxn'[p] = CwIdle
    BY <2>1 DEF CwReadOK, CwIdle
  <2>2. CASE cwTxn'[p] = cwTxn[p]
    <3>1. PICK u : u = cwTxn'[p]
      OBVIOUS
    <3>2. CwReadOK(u, cwServed)
      BY <2>2, <3>1 DEF CwInv, CwReadsOK
    <3>3. \A n : n \in 1..cwServed => n \in 1..cwServed'
      BY DEF CwInv, CwReadsOK
    <3>4. CASE u.op = "contact"
      BY <2>2, <3>1, <3>2, <3>4 DEF CwReadOK
    <3>5. CASE u.op \in {"raci", "read", "assess"}
      BY <2>2, <3>1, <3>2, <3>3, <3>5 DEF CwReadOK
    <3>6. CASE u.op \in {"file", "void"}
      BY <2>2, <3>1, <3>2, <3>3, <3>6 DEF CwReadOK
    <3>7. CASE u.op \in {"statement", "idle"}
      BY <2>2, <3>1, <3>2, <3>7 DEF CwReadOK
    <3> QED
      BY <3>2, <3>4, <3>5, <3>6, <3>7 DEF CwReadOK
  <2> QED
    BY <2>1, <2>2
<1>2. \A p, r \in CwRequests : p # r => Apart(cwTxn'[p], cwTxn'[r])
  <2> SUFFICES ASSUME NEW p \in CwRequests, NEW r \in CwRequests, p # r
               PROVE  Apart(cwTxn'[p], cwTxn'[r])
    OBVIOUS
  <2>1. Apart(cwTxn[p], cwTxn[r])
    BY DEF CwInv, CwReadsOK
  <2>2. \A t : Apart(CwIdle, t) /\ Apart(t, CwIdle)
    BY DEF Apart, CwIdle
  <2> QED
    BY <2>1, <2>2
<1>3. CwReadsOK'
  BY <1>1, <1>2 DEF CwReadsOK, CwInv, Apart
<1>4. CwAloneOK'
  BY DEF CwAloneOK, CwCurrent, CwIdle, OneEach
<1> QED
  BY <1>3, <1>4

\* A request is refused.
LEMMA RefusedInv ==
    ASSUME CwInv, NEW q \in CwRequests,
           \/ ContactsRefused(q) \/ RaciRefused(q) \/ UpsertConflict(q) \/ SubmissionRefused(q)
    PROVE  CwInv'
<1>1. cwTxn[q] # CwIdle /\ CwEnd(q) /\ UNCHANGED cwTables
  BY DEF ContactsRefused, RaciRefused, UpsertConflict, SubmissionRefused, CwIdle
<1>2. UNCHANGED <<cwContact, cwGone, cwDocRole, cwRaci, cwHand, cwCycle, cwStatement,
                  cwApproved, cwFiled>>
  BY <1>1 DEF cwTables, cwPeople, cwPapers, cwText
<1>3. /\ cwTxn' = [p \in CwRequests |-> cwTxn'[p]]
      /\ \A p \in CwRequests : cwTxn'[p] = cwTxn[p] \/ cwTxn'[p] = CwIdle
      /\ ~ cwOverlap => \A p \in CwRequests : cwTxn'[p] = CwIdle
      /\ UNCHANGED <<cwRemind, cwNow, cwOverlap>>
      /\ cwServed <= cwServed' /\ cwServed' \in 0..CwMax
  BY <1>1, CwEnded
<1>4. /\ CwPeopleOK' /\ CwPapersOK' /\ CwTextOK' /\ CwFiledOK'
      /\ Live' = Live /\ Started' = Started /\ Filings' = Filings
  BY <1>1, <1>3, TablesStand
<1>5. CwRemindOK'
  BY <1>2, <1>3, <1>4, RemindStands
<1>6. ~ cwOverlap => OneEach(cwRaci' \ cwHand')
  BY <1>2 DEF CwInv, CwAloneOK
<1>7. CwReadsOK' /\ CwAloneOK'
  BY <1>2, <1>3, <1>4, <1>6, CwWriteStep
<1> QED
  BY <1>4, <1>5, <1>7 DEF CwInv

-----------------------------------------------------------------------------
(* Contacts.                                                               *)

\* A request that writes contacts and their roles: who is left holds them.
LEMMA PeopleStep ==
    ASSUME CwInv, CwPeopleOK',
           UNCHANGED <<cwPapers, cwText, cwFiled>>, Live \subseteq Live',
           \/ CwAtOnce
           \/ \E q \in CwRequests : cwTxn[q] # CwIdle /\ CwEnd(q),
           \/ Live' \cup cwGone' = Live \cup cwGone
           \/ \A p \in CwRequests : cwTxn'[p].op = "contact" =>
                 \A c \in DOMAIN cwTxn[p].create : c \notin Live' \cup cwGone'
    PROVE  CwInv'
<1>1. /\ cwTxn' = [p \in CwRequests |-> cwTxn'[p]]
      /\ \A p \in CwRequests : cwTxn'[p] = cwTxn[p] \/ cwTxn'[p] = CwIdle
      /\ ~ cwOverlap => \A p \in CwRequests : cwTxn'[p] = CwIdle
      /\ UNCHANGED <<cwRemind, cwNow, cwOverlap>>
      /\ cwServed <= cwServed' /\ cwServed' \in 0..CwMax
  BY CwEnded
<1>2. UNCHANGED <<cwRaci, cwHand, cwCycle, cwStatement, cwApproved, cwFiled>>
  BY DEF cwPapers, cwText
<1>3. Started' = Started /\ Filings' = Filings
  BY <1>2 DEF Started, Filings
<1>4. 0..cwServed \subseteq 0..cwServed'
  BY <1>1 DEF CwInv, CwReadsOK
<1>5. CwPapersOK'
  BY <1>2, <1>3, <1>4 DEF CwInv, CwPapersOK
<1>6. CwTextOK'
  BY <1>1, <1>2 DEF CwInv, CwTextOK, ApprovedTextWasApproved
<1>7. CwFiledOK'
  BY <1>2, <1>3, <1>4 DEF CwInv, CwFiledOK, OneLink
<1>8. CwRemindOK'
  BY <1>1, <1>2, <1>3, RemindStands
<1>9. ~ cwOverlap => OneEach(cwRaci' \ cwHand')
  BY <1>2 DEF CwInv, CwAloneOK
<1>10. CwReadsOK' /\ CwAloneOK'
  BY <1>1, <1>2, <1>3, <1>9, CwWriteStep
<1> QED
  BY <1>5, <1>6, <1>7, <1>8, <1>10 DEF CwInv

\* Contacts are written: the new ones of this request, with their addresses.
LEMMA SaveContactsInv ==
    ASSUME CwInv, NEW q \in CwRequests, SaveContacts(q)
    PROVE  CwInv'
<1> DEFINE t == cwTxn[q]
<1>1. /\ t.op = "contact" /\ t # CwIdle /\ CwEnd(q) /\ ContactsFit(t)
      /\ cwContact' = ContactsAfter(t)
      /\ UNCHANGED <<cwGone, cwDocRole>> /\ UNCHANGED <<cwPapers, cwText, cwFiled>>
  BY DEF SaveContacts, CwIdle
<1>2. /\ DOMAIN t.create \subseteq Contacts
      /\ \A c \in DOMAIN t.create : t.create[c] \in StoredContact /\ c \notin Live \cup cwGone
      /\ \A c \in DOMAIN t.change : t.change[c] \in StoredContact
      /\ DOMAIN t.change \subseteq Live
  BY <1>1 DEF CwInv, CwReadsOK, CwReadOK, ContactsFit
<1>3. cwContact' = [c \in Contacts |-> IF c \in DOMAIN t.create THEN t.create[c]
                                       ELSE IF c \in DOMAIN t.change THEN t.change[c]
                                       ELSE cwContact[c]]
  BY <1>1 DEF ContactsAfter
<1>4. /\ Live \subseteq Contacts
      /\ \A c \in Contacts : c \in Live <=> cwContact[c] \in StoredContact
      /\ \A c \in Contacts : cwContact[c] \in StoredContact \cup {NoContact}
  BY LiveIsStored DEF CwInv, CwPeopleOK
<1> HIDE DEF t
<1>5. \A c \in Contacts : cwContact'[c] \in StoredContact \cup {NoContact}
  BY <1>2, <1>3, <1>4
<1>6. Live' = Live \cup DOMAIN t.create
  BY <1>2, <1>3, <1>4, <1>5, NoContactIsNone DEF Live
<1>7. CwPeopleOK'
  <2>1. cwContact' = [c \in Contacts |-> cwContact'[c]]
    BY <1>3
  <2>2. OneContactPerAddress'
    <3> SUFFICES ASSUME NEW c \in Live', NEW d \in Live', c # d
                 PROVE  _normalize_email[cwContact'[c].email]
                          # _normalize_email[cwContact'[d].email]
      BY DEF OneContactPerAddress
    <3>1. cwContact'[c].email # cwContact'[d].email
      BY <1>1, <1>6 DEF ContactsFit
    <3>2. cwContact'[c] \in StoredContact /\ cwContact'[d] \in StoredContact
      BY <1>2, <1>4, <1>5, <1>6 DEF Live
    <3> QED
      BY <3>1, <3>2 DEF StoredContact
  <2>3. cwGone' \cap Live' = {}
    BY <1>1, <1>2, <1>6 DEF CwInv, CwPeopleOK
  <2>4. \A r \in cwDocRole' : r.contact \in Live'
    BY <1>1, <1>6 DEF CwInv, CwPeopleOK
  <2> QED
    BY <1>1, <1>5, <2>1, <2>2, <2>3, <2>4 DEF CwInv, CwPeopleOK
<1>8. ASSUME NEW p \in CwRequests, cwTxn'[p].op = "contact", NEW c \in DOMAIN cwTxn[p].create
      PROVE  c \notin Live' \cup cwGone'
  <2>1. cwTxn'[q] = CwIdle /\ \A r \in CwRequests : r # q => cwTxn'[r] = cwTxn[r]
    BY <1>1 DEF CwEnd, CwInv, CwReadsOK
  <2>2. p # q /\ cwTxn[p].op = "contact"
    BY <1>8, <2>1 DEF CwIdle
  <2>3. Apart(cwTxn[p], t) /\ CwReadOK(cwTxn[p], cwServed)
    BY <2>2 DEF CwInv, CwReadsOK, t
  <2> QED
    BY <1>1, <1>6, <1>8, <2>2, <2>3 DEF Apart, CwReadOK
<1> QED
  BY <1>1, <1>6, <1>7, <1>8, PeopleStep DEF t

\* A documentation role is given to a contact, or taken.
LEMMA RoleInv ==
    ASSUME CwInv,
           \/ \E c \in Contacts : AddRole(c)
           \/ \E r \in cwDocRole : RemoveRole(r)
    PROVE  CwInv'
<1>1. UNCHANGED <<cwContact, cwGone>> /\ UNCHANGED <<cwPapers, cwText, cwFiled>> /\ CwAtOnce
  BY DEF AddRole, RemoveRole
<1>2. \A r \in cwDocRole' :
         r \in cwDocRole \/ (r \in ContactDocumentationRole /\ r.contact \in Live)
  <2>1. ASSUME NEW c \in Contacts, AddRole(c)
        PROVE  \A r \in cwDocRole' :
                  r \in cwDocRole \/ (r \in ContactDocumentationRole /\ r.contact \in Live)
    <3> DEFINE row == [contact |-> c, role |-> "it_admin"]
    <3>1. c \in Live /\ cwDocRole' = cwDocRole \cup {row}
      BY <2>1 DEF AddRole
    <3>2. row \in ContactDocumentationRole /\ row.contact = c
      BY DEF ContactDocumentationRole
    <3> QED
      BY <3>1, <3>2
  <2>2. ASSUME NEW r \in cwDocRole, RemoveRole(r) PROVE cwDocRole' \subseteq cwDocRole
    BY <2>2 DEF RemoveRole
  <2> QED
    BY <2>1, <2>2
<1>3. Live' = Live
  BY <1>1 DEF Live
<1>4. CwPeopleOK'
  BY <1>1, <1>2, <1>3 DEF CwInv, CwPeopleOK, OneContactPerAddress
<1> QED
  BY <1>1, <1>3, <1>4, PeopleStep

\* A contact is deleted: with its roles and letters, and from submissions.
LEMMA DeleteContactInv ==
    ASSUME CwInv, NEW c \in Contacts, DeleteContact(c)
    PROVE  CwInv'
<1>1. /\ c \in Live /\ CwAtOnce
      /\ cwContact' = [cwContact EXCEPT ![c] = NoContact]
      /\ cwGone' = cwGone \cup {c}
      /\ cwDocRole' = {r \in cwDocRole : r.contact # c}
      /\ cwRaci' = {r \in cwRaci : r.contact # c}
      /\ cwHand' = {r \in cwHand : r.contact # c}
      /\ cwFiled' = [s \in Numbers |-> [cwFiled[s] EXCEPT !.link = @ \ {c}]]
      /\ UNCHANGED <<cwCycle, cwStatement, cwApproved>>
  BY DEF DeleteContact, cwText
<1>2. /\ cwTxn' = [p \in CwRequests |-> cwTxn'[p]]
      /\ \A p \in CwRequests : cwTxn'[p] = cwTxn[p] \/ cwTxn'[p] = CwIdle
      /\ ~ cwOverlap => \A p \in CwRequests : cwTxn'[p] = CwIdle
      /\ UNCHANGED <<cwRemind, cwNow, cwOverlap>>
      /\ cwServed <= cwServed' /\ cwServed' \in 0..CwMax
  BY <1>1, CwEnded
<1>3. /\ cwContact' = [x \in Contacts |-> cwContact'[x]]
      /\ \A x \in Contacts : cwContact'[x] = IF x = c THEN NoContact ELSE cwContact[x]
  BY <1>1 DEF CwInv, CwPeopleOK
<1>4. Live' = Live \ {c}
  BY <1>3 DEF Live
<1>5. CwPeopleOK'
  <2>1. OneContactPerAddress'
    BY <1>3, <1>4, LiveIsStored DEF CwInv, CwPeopleOK, OneContactPerAddress
  <2> QED
    BY <1>1, <1>3, <1>4, <2>1 DEF CwInv, CwPeopleOK
<1>6. \A s \in Numbers :
         \/ cwFiled[s] = NoFiling /\ cwFiled'[s] = NoFiling
         \/ /\ cwFiled[s] \in SprsSubmission /\ OneLink(cwFiled[s])
            /\ cwFiled'[s] \in SprsSubmission /\ OneLink(cwFiled'[s])
            /\ cwFiled'[s].date = cwFiled[s].date
  <2> SUFFICES ASSUME NEW s \in Numbers
               PROVE  \/ cwFiled[s] = NoFiling /\ cwFiled'[s] = NoFiling
                      \/ /\ cwFiled[s] \in SprsSubmission /\ OneLink(cwFiled[s])
                         /\ cwFiled'[s] \in SprsSubmission /\ OneLink(cwFiled'[s])
                         /\ cwFiled'[s].date = cwFiled[s].date
    OBVIOUS
  <2>1. cwFiled'[s] = [cwFiled[s] EXCEPT !.link = cwFiled[s].link \ {c}]
    BY <1>1
  <2>2. CASE cwFiled[s] = NoFiling
    <3>1. NoFiling.link \ {c} = {}
      BY DEF NoFiling
    <3>2. cwFiled'[s] = [NoFiling EXCEPT !.link = {}]
      BY <2>1, <2>2, <3>1
    <3> QED
      BY <2>2, <3>2 DEF NoFiling
  <2>3. CASE cwFiled[s] \in SprsSubmission /\ OneLink(cwFiled[s])
    BY <2>1, <2>3 DEF SprsSubmission, OneLink
  <2> QED
    BY <2>2, <2>3 DEF CwInv, CwFiledOK
<1>7. NoFiling \notin SprsSubmission
  BY DEF NoFiling, SprsSubmission
<1>8. Filings' = Filings /\ Started' = Started
  BY <1>1, <1>6, <1>7 DEF Filings, Started
<1>9. 0..cwServed \subseteq 0..cwServed'
  BY <1>2 DEF CwInv, CwReadsOK
<1>10. CwPapersOK'
  BY <1>1, <1>4, <1>8, <1>9 DEF CwInv, CwPapersOK
<1>11. CwTextOK'
  BY <1>1, <1>2 DEF CwInv, CwTextOK, ApprovedTextWasApproved
<1>12. CwFiledOK'
  <2>1. cwFiled' = [s \in Numbers |-> cwFiled'[s]]
    BY <1>1
  <2> QED
    BY <1>6, <1>8, <1>9, <2>1 DEF CwInv, CwFiledOK, OneLink
<1>13. CwRemindOK'
  <2>1. \A s \in Filings : s \in Filings' /\ cwFiled'[s].date = cwFiled[s].date
    BY <1>6, <1>8 DEF Filings
  <2> QED
    BY <1>2, <2>1, RemindStands
<1>14. ~ cwOverlap => OneEach(cwRaci' \ cwHand')
  <2>1. cwRaci' \ cwHand' \subseteq cwRaci \ cwHand
    BY <1>1
  <2> QED
    BY <2>1 DEF CwInv, CwAloneOK, OneEach
<1>15. Live' \cup cwGone' = Live \cup cwGone
  BY <1>1, <1>4
<1>16. CwReadsOK' /\ CwAloneOK'
  BY <1>1, <1>2, <1>8, <1>14, <1>15, CwWriteStep
<1> QED
  BY <1>5, <1>10, <1>11, <1>12, <1>13, <1>16 DEF CwInv

-----------------------------------------------------------------------------
(* RACI and assessments.                                                   *)

\* A request that writes assessments and letters.
LEMMA PapersStep ==
    ASSUME CwInv, UNCHANGED <<cwPeople, cwText, cwFiled>>,
           \/ CwAtOnce
           \/ \E q \in CwRequests : cwTxn[q] # CwIdle /\ CwEnd(q),
           cwCycle' \in [Numbers -> {"none", "in_progress", "submitted"}],
           cwRaci' \subseteq RaciAssignment, cwHand' \subseteq RaciAssignment,
           \A r \in cwRaci' : r.contact \in Live /\ r.cycle \in Started',
           \/ Started' = Started
           \/ /\ Started \subseteq Started' /\ Started' \subseteq 0..cwServed
              /\ \A p \in CwRequests : cwTxn'[p].op \in {"read", "assess"} =>
                    cwTxn[p].cycle \notin Started',
           ~ cwOverlap => OneEach(cwRaci' \ cwHand')
    PROVE  CwInv'
<1>1. /\ cwTxn' = [p \in CwRequests |-> cwTxn'[p]]
      /\ \A p \in CwRequests : cwTxn'[p] = cwTxn[p] \/ cwTxn'[p] = CwIdle
      /\ ~ cwOverlap => \A p \in CwRequests : cwTxn'[p] = CwIdle
      /\ UNCHANGED <<cwRemind, cwNow, cwOverlap>>
      /\ cwServed <= cwServed' /\ cwServed' \in 0..CwMax
  BY CwEnded
<1>2. UNCHANGED <<cwContact, cwGone, cwDocRole, cwStatement, cwApproved, cwFiled>>
  BY DEF cwPeople, cwText
<1>3. Live' = Live /\ Filings' = Filings
  BY <1>2 DEF Live, Filings
<1>4. 0..cwServed \subseteq 0..cwServed'
  BY <1>1 DEF CwInv, CwReadsOK
<1>5. CwPeopleOK'
  BY <1>2, <1>3 DEF CwInv, CwPeopleOK, OneContactPerAddress
<1>6. CwPapersOK'
  BY <1>3, <1>4 DEF CwInv, CwPapersOK
<1>7. CwTextOK'
  BY <1>1, <1>2 DEF CwInv, CwTextOK, ApprovedTextWasApproved
<1>8. CwFiledOK'
  BY <1>2, <1>3, <1>4 DEF CwInv, CwFiledOK, OneLink
<1>9. CwRemindOK'
  BY <1>1, <1>2, <1>3, RemindStands
<1>10. CwReadsOK' /\ CwAloneOK'
  BY <1>1, <1>2, <1>3, CwWriteStep
<1> QED
  BY <1>5, <1>6, <1>7, <1>8, <1>9, <1>10 DEF CwInv

\* Letters are written: of contacts that are there, and alone where a gap was.
LEMMA SaveRaciInv ==
    ASSUME CwInv, NEW q \in CwRequests, SaveRaci(q)
    PROVE  CwInv'
<1> DEFINE t == cwTxn[q]
<1>1. /\ t.op = "raci" /\ t # CwIdle /\ CwEnd(q) /\ RaciFits(t)
      /\ cwRaci' = cwRaci \cup t.rows /\ cwHand' = cwHand \cup t.hand
      /\ cwCycle' = cwCycle /\ UNCHANGED <<cwPeople, cwText, cwFiled>>
  BY DEF SaveRaci, CwIdle
<1>2. /\ t.rows \subseteq RaciAssignment /\ t.hand \subseteq RaciAssignment
      /\ \A r \in t.rows : r.cycle \in Started /\ r.contact \in Live
      /\ ~ cwOverlap => /\ OneEach(t.rows \ t.hand)
                        /\ \A r \in t.rows \ t.hand, s \in cwRaci : ~ SameGap(r, s)
                        /\ OneEach(cwRaci \ cwHand)
  BY <1>1 DEF CwInv, CwReadsOK, CwReadOK, CwAloneOK, CwCurrent, RaciFits
<1>3. Started' = Started
  BY <1>1 DEF Started
<1>4. ~ cwOverlap => OneEach(cwRaci' \ cwHand')
  <2> HIDE DEF t
  <2>1. cwRaci' \ cwHand' \subseteq (cwRaci \ cwHand) \cup (t.rows \ t.hand)
    BY <1>1
  <2>2. \A r, s : SameGap(r, s) => SameGap(s, r)
    BY DEF SameGap
  <2> QED
    BY <1>2, <2>1, <2>2 DEF OneEach
<1>5. /\ cwCycle' \in [Numbers -> {"none", "in_progress", "submitted"}]
      /\ cwRaci' \subseteq RaciAssignment /\ cwHand' \subseteq RaciAssignment
      /\ \A r \in cwRaci' : r.contact \in Live /\ r.cycle \in Started'
  BY <1>1, <1>2, <1>3 DEF CwInv, CwPapersOK
<1> QED
  BY <1>1, <1>3, <1>4, <1>5, PapersStep

\* A letter is taken back; an assessment is completed or opened again.
LEMMA PapersAtOnceInv ==
    ASSUME CwInv,
           \/ \E r \in cwRaci : DeleteRaci(r)
           \/ \E n \in Numbers : CompleteAssessment(n) \/ ReopenAssessment(n)
    PROVE  CwInv'
<1>1. /\ CwAtOnce /\ UNCHANGED <<cwPeople, cwText, cwFiled>>
      /\ cwRaci' \subseteq cwRaci /\ cwHand' \subseteq cwHand
      /\ cwRaci' \ cwHand' \subseteq cwRaci \ cwHand
  BY DEF DeleteRaci, CompleteAssessment, ReopenAssessment
<1>2. cwCycle' \in [Numbers -> {"none", "in_progress", "submitted"}] /\ Started' = Started
  <2>1. CASE cwCycle' = cwCycle
    BY <2>1 DEF Started, CwInv, CwPapersOK
  <2>2. ASSUME NEW n \in Numbers, CompleteAssessment(n) \/ ReopenAssessment(n)
        PROVE  cwCycle' \in [Numbers -> {"none", "in_progress", "submitted"}]
               /\ Started' = Started
    BY <2>2 DEF CompleteAssessment, ReopenAssessment, Started, CwInv, CwPapersOK
  <2> QED
    BY <2>1, <2>2 DEF DeleteRaci
<1>3. ~ cwOverlap => OneEach(cwRaci' \ cwHand')
  BY <1>1 DEF CwInv, CwAloneOK, OneEach
<1>4. /\ cwRaci' \subseteq RaciAssignment /\ cwHand' \subseteq RaciAssignment
      /\ \A r \in cwRaci' : r.contact \in Live /\ r.cycle \in Started'
  BY <1>1, <1>2 DEF CwInv, CwPapersOK
<1> QED
  BY <1>1, <1>2, <1>3, <1>4, PapersStep

\* A new assessment begins with the rows carried forward.
LEMMA CreateAssessmentInv ==
    ASSUME CwInv, NEW q \in CwRequests, CreateAssessment(q)
    PROVE  CwInv'
<1> DEFINE t == cwTxn[q]
<1>1. /\ t.op = "assess" /\ t # CwIdle /\ CwEnd(q) /\ RaciFits(t)
      /\ cwCycle' = [cwCycle EXCEPT ![t.cycle] = "in_progress"]
      /\ cwRaci' = cwRaci \cup t.rows /\ cwHand' = cwHand \cup t.hand
      /\ UNCHANGED <<cwPeople, cwText, cwFiled>>
  BY DEF CreateAssessment, CwIdle
<1>2. /\ t.rows \subseteq RaciAssignment /\ t.hand \subseteq RaciAssignment
      /\ t.cycle \in 1..cwServed /\ t.cycle \notin Started
      /\ \A r \in t.rows : r.cycle = t.cycle /\ r.contact \in Live
      /\ ~ cwOverlap => OneEach(t.rows \ t.hand) /\ OneEach(cwRaci \ cwHand)
  BY <1>1 DEF CwInv, CwReadsOK, CwReadOK, CwAloneOK, CwCurrent, RaciFits
<1>3. t.cycle \in Numbers
  BY <1>2, CwAssumption DEF CwInv, CwReadsOK, Numbers
<1> HIDE DEF t
<1>4. /\ cwCycle' \in [Numbers -> {"none", "in_progress", "submitted"}]
      /\ Started' = Started \cup {t.cycle}
  BY <1>1, <1>3 DEF CwInv, CwPapersOK, Started
<1>5. ~ cwOverlap => OneEach(cwRaci' \ cwHand')
  <2> SUFFICES ASSUME ~ cwOverlap, NEW r \in cwRaci' \ cwHand', NEW s \in cwRaci' \ cwHand',
                      SameGap(r, s)
               PROVE  r = s
    BY DEF OneEach
  <2>1. \A x \in cwRaci : x.cycle # t.cycle
    BY <1>2 DEF CwInv, CwPapersOK
  <2>2. r.cycle = s.cycle
    BY DEF SameGap
  <2>3. \/ r \in cwRaci \ cwHand /\ s \in cwRaci \ cwHand
        \/ r \in t.rows \ t.hand /\ s \in t.rows \ t.hand
    BY <1>1, <1>2, <2>1, <2>2
  <2> QED
    BY <1>2, <2>3 DEF OneEach
<1>6. Started' \subseteq 0..cwServed
  <2>1. cwServed \in Int /\ 1..cwServed \subseteq 0..cwServed
    BY DEF CwInv, CwReadsOK
  <2> QED
    BY <1>2, <1>4, <2>1 DEF CwInv, CwPapersOK
<1>7. ASSUME NEW p \in CwRequests, cwTxn'[p].op \in {"read", "assess"}
      PROVE  cwTxn[p].cycle \notin Started'
  <2>1. cwTxn'[q] = CwIdle /\ \A r \in CwRequests : r # q => cwTxn'[r] = cwTxn[r]
    BY <1>1 DEF CwEnd, CwInv, CwReadsOK
  <2>2. p # q /\ cwTxn[p].op \in {"read", "assess"}
    BY <1>7, <2>1 DEF CwIdle
  <2>3. Apart(cwTxn[p], t) /\ CwReadOK(cwTxn[p], cwServed)
    BY <2>2 DEF CwInv, CwReadsOK, t
  <2> QED
    BY <1>1, <1>4, <2>2, <2>3 DEF Apart, CwReadOK
<1>8. /\ cwRaci' \subseteq RaciAssignment /\ cwHand' \subseteq RaciAssignment
      /\ \A r \in cwRaci' : r.contact \in Live /\ r.cycle \in Started'
  BY <1>1, <1>2, <1>4 DEF CwInv, CwPapersOK
<1> QED
  BY <1>1, <1>4, <1>5, <1>6, <1>7, <1>8, PapersStep DEF t

\* The contacts that went meanwhile take their rows with them.
LEMMA CopyForwardInv ==
    ASSUME CwInv, NEW q \in CwRequests, CopyForwardRaci(q)
    PROVE  CwInv'
<1> DEFINE t == cwTxn[q]
           rows == {r \in t.rows : r.contact \in Live}
           hand == {r \in t.hand : r.contact \in Live}
<1>1. /\ t.op = "read" /\ UNCHANGED <<cwTables, cwRemind, cwNow, cwServed, cwOverlap>>
      /\ cwTxn' = [cwTxn EXCEPT ![q] = [t EXCEPT !.op = "assess", !.rows = rows, !.hand = hand]]
  BY DEF CopyForwardRaci, CwInv, CwReadsOK
<1>2. PICK u : u = [t EXCEPT !.op = "assess", !.rows = rows, !.hand = hand]
  OBVIOUS
<1>3. cwTxn'[q] = u /\ \A p \in CwRequests : p # q => cwTxn'[p] = cwTxn[p]
  BY <1>1, <1>2 DEF CwInv, CwReadsOK
<1>4. /\ CwReadOK(t, cwServed) /\ t # CwIdle
      /\ ~ cwOverlap => CwCurrent(t) /\ \A p \in CwRequests : p # q => cwTxn[p] = CwIdle
  BY <1>1 DEF CwInv, CwReadsOK, CwAloneOK, CwIdle
<1>5. u.op = "assess" /\ u.cycle = t.cycle /\ u.rows = rows /\ u.hand = hand
  BY <1>1, <1>2, <1>4 DEF CwReadOK
<1>6. /\ CwPeopleOK' /\ CwPapersOK' /\ CwTextOK' /\ CwFiledOK'
      /\ Live' = Live /\ Started' = Started /\ Completed' = Completed /\ Filings' = Filings
  BY <1>1, TablesStand DEF CwInv, CwReadsOK
<1>7. UNCHANGED <<cwContact, cwGone, cwDocRole, cwRaci, cwHand, cwCycle, cwStatement,
                  cwApproved, cwFiled>>
  BY <1>1 DEF cwTables, cwPeople, cwPapers, cwText
<1>8. CwRemindOK'
  BY <1>1, <1>6, <1>7, RemindStands
<1>9. CwReadOK(u, cwServed) /\ (~ cwOverlap => CwCurrent(u))
  <2>1. CwReadOK(u, cwServed)
    BY <1>1, <1>4, <1>5 DEF CwReadOK, CwIdle
  <2>2. ASSUME ~ cwOverlap PROVE CwCurrent(u)
    <3>1. rows = t.rows
      BY <1>1, <1>4, <2>2 DEF CwCurrent
    <3>2. rows \ hand \subseteq t.rows \ t.hand
      OBVIOUS
    <3> HIDE DEF t, rows, hand
    <3> QED
      BY <1>1, <1>4, <1>5, <2>2, <3>1, <3>2 DEF CwCurrent, OneEach
  <2> QED
    BY <2>1, <2>2
<1> HIDE DEF t
<1>10. CwReadsOK'
  <2>1. cwTxn' = [p \in CwRequests |-> cwTxn'[p]]
    BY <1>1 DEF CwInv, CwReadsOK
  <2>2. ASSUME NEW v, CwReadOK(v, cwServed)
        PROVE  CwReadOK(v, cwServed)'
    BY <1>1, <1>6, <1>7, <2>2 DEF CwReadOK
  <2>3. \A p \in CwRequests : CwReadOK(cwTxn[p], cwServed)'
    <3> SUFFICES ASSUME NEW p \in CwRequests PROVE CwReadOK(cwTxn[p], cwServed)'
      OBVIOUS
    <3>1. PICK v : v = cwTxn'[p]
      OBVIOUS
    <3>2. CwReadOK(v, cwServed)
      BY <1>3, <1>9, <3>1 DEF CwInv, CwReadsOK
    <3>3. CwReadOK(v, cwServed)'
      BY <2>2, <3>2
    <3> QED
      BY <3>1, <3>3 DEF CwReadOK
  <2>4. ASSUME NEW v, Apart(t, v) /\ Apart(v, t)
        PROVE  Apart(u, v) /\ Apart(v, u)
    BY <1>1, <1>5, <2>4 DEF Apart, t
  <2>5. \A p, r \in CwRequests : p # r => Apart(cwTxn'[p], cwTxn'[r])
    BY <1>3, <2>4 DEF CwInv, CwReadsOK, t
  <2> QED
    BY <1>1, <2>1, <2>3, <2>5 DEF CwInv, CwReadsOK, Apart
<1>11. CwAloneOK'
  <2> SUFFICES ASSUME ~ cwOverlap PROVE CwAloneOK'
    BY <1>1 DEF CwAloneOK
  <2>1. \A p \in CwRequests : p # q => cwTxn'[p] = CwIdle
    BY <1>3, <1>4
  <2>2. CwCurrent(u)'
    BY <1>6, <1>7, <1>9 DEF CwCurrent, RowsIn, Latest
  <2>3. \A p \in CwRequests : CwCurrent(cwTxn[p])'
    BY <1>3, <2>1, <2>2 DEF CwCurrent, CwIdle
  <2>4. OneEach(cwRaci \ cwHand)'
    BY <1>7 DEF CwInv, CwAloneOK, OneEach
  <2> QED
    BY <2>1, <2>3, <2>4 DEF CwAloneOK
<1> QED
  BY <1>6, <1>8, <1>10, <1>11 DEF CwInv

-----------------------------------------------------------------------------
(* The statement and the submissions.                                      *)

\* A statement is written: alone, with the body that is approved with it.
LEMMA UpsertInv ==
    ASSUME CwInv, NEW q \in CwRequests, UpsertStatement(q)
    PROVE  CwInv'
<1> DEFINE t == cwTxn[q]
           body == IF t.item.body = t.read.body THEN cwStatement.body ELSE t.item.body
           status == IF t.item.status = t.read.status THEN cwStatement.status
                     ELSE t.item.status
<1>1. /\ t.op = "statement" /\ t # CwIdle /\ CwEnd(q)
      /\ t.read = NoStatement => cwStatement = NoStatement
      /\ cwStatement' = [body |-> body, status |-> status]
      /\ cwApproved' = cwApproved \cup
             (IF t.item.status = "approved" THEN {t.item.body} ELSE {})
      /\ UNCHANGED <<cwPeople, cwPapers, cwFiled>>
  BY DEF UpsertStatement, CwIdle
<1>2. /\ t.item \in ImplementationStatement
      /\ t.read \in ImplementationStatement \cup {NoStatement}
      /\ t.read # NoStatement => cwStatement # NoStatement
      /\ ~ cwOverlap => t.read = cwStatement
      /\ cwStatement \in ImplementationStatement \cup {NoStatement}
      /\ cwApproved \subseteq Bodies
  BY <1>1 DEF CwInv, CwReadsOK, CwReadOK, CwAloneOK, CwCurrent, CwTextOK
<1>3. /\ t.item.body \in Bodies /\ t.item.status \in {"draft", "approved"}
  BY <1>2 DEF ImplementationStatement
<1>4. body \in Bodies /\ status \in {"draft", "approved"}
  BY <1>1, <1>2, <1>3 DEF ImplementationStatement, NoStatement, Bodies
<1>5. ~ cwOverlap => body = t.item.body /\ status = t.item.status
  BY <1>2
<1>6. PICK b, st : b = body /\ st = status
  OBVIOUS
<1>7. PICK item : item = t.item
  OBVIOUS
<1>8. /\ cwStatement' = [body |-> b, status |-> st]
      /\ b \in Bodies /\ st \in {"draft", "approved"}
      /\ ~ cwOverlap => b = item.body /\ st = item.status
      /\ cwApproved' = cwApproved \cup (IF item.status = "approved" THEN {item.body} ELSE {})
      /\ item.body \in Bodies
  BY <1>1, <1>3, <1>4, <1>5, <1>6, <1>7
<1>9. /\ cwTxn' = [p \in CwRequests |-> cwTxn'[p]]
      /\ \A p \in CwRequests : cwTxn'[p] = cwTxn[p] \/ cwTxn'[p] = CwIdle
      /\ ~ cwOverlap => \A p \in CwRequests : cwTxn'[p] = CwIdle
      /\ UNCHANGED <<cwRemind, cwNow, cwOverlap>>
      /\ cwServed <= cwServed' /\ cwServed' \in 0..CwMax
  BY <1>1, CwEnded
<1> HIDE DEF t, body, status
<1>10. UNCHANGED <<cwContact, cwGone, cwDocRole, cwRaci, cwHand, cwCycle, cwFiled, cwServed>>
  BY <1>1 DEF cwPeople, cwPapers, CwEnd
<1>11. Live' = Live /\ Started' = Started /\ Filings' = Filings
  BY <1>10 DEF Live, Started, Filings
<1>12. CwPeopleOK'
  BY <1>10, <1>11 DEF CwInv, CwPeopleOK, OneContactPerAddress
<1>13. CwPapersOK'
  BY <1>10, <1>11 DEF CwInv, CwPapersOK
<1>14. CwTextOK'
  BY <1>2, <1>8, <1>9 DEF CwTextOK, ApprovedTextWasApproved, ImplementationStatement
<1>15. CwFiledOK'
  BY <1>10, <1>11 DEF CwInv, CwFiledOK, OneLink
<1>16. CwRemindOK'
  BY <1>9, <1>10, <1>11, RemindStands
<1>17. cwStatement' # NoStatement
  BY <1>8 DEF NoStatement, Bodies
<1>18. ~ cwOverlap => OneEach(cwRaci' \ cwHand')
  BY <1>10 DEF CwInv, CwAloneOK
<1>19. CwReadsOK' /\ CwAloneOK'
  BY <1>9, <1>10, <1>11, <1>17, <1>18, CwWriteStep
<1> QED
  BY <1>12, <1>13, <1>14, <1>15, <1>16, <1>19 DEF CwInv

\* A submission is recorded or voided: the filed ones keep their dates.
LEMMA FiledStep ==
    ASSUME CwInv, UNCHANGED <<cwPeople, cwPapers, cwText>>,
           NEW q \in CwRequests, cwTxn[q] # CwIdle, CwEnd(q),
           NEW n \in Numbers, NEW row \in SprsSubmission, OneLink(row),
           cwFiled' = [cwFiled EXCEPT ![n] = row],
           \/ n \in Filings /\ row.date = cwFiled[n].date
           \/ /\ n \in 0..cwServed /\ n \notin Filings
              /\ \A p \in CwRequests : cwTxn'[p].op = "file" => cwTxn[p].number # n
    PROVE  CwInv'
<1>1. /\ cwTxn' = [p \in CwRequests |-> cwTxn'[p]]
      /\ \A p \in CwRequests : cwTxn'[p] = cwTxn[p] \/ cwTxn'[p] = CwIdle
      /\ ~ cwOverlap => \A p \in CwRequests : cwTxn'[p] = CwIdle
      /\ UNCHANGED <<cwRemind, cwNow, cwOverlap>>
      /\ cwServed <= cwServed' /\ cwServed' \in 0..CwMax
  BY CwEnded
<1>2. UNCHANGED <<cwContact, cwGone, cwDocRole, cwRaci, cwHand, cwCycle, cwStatement, cwApproved,
                  cwServed>>
  BY DEF cwPeople, cwPapers, cwText, CwEnd
<1>3. NoFiling \notin SprsSubmission
  BY DEF NoFiling, SprsSubmission
<1>4. /\ cwFiled'[n] = row /\ \A s \in Numbers : s # n => cwFiled'[s] = cwFiled[s]
      /\ cwFiled' = [s \in Numbers |-> cwFiled'[s]]
  BY DEF CwInv, CwFiledOK
<1>5. Live' = Live /\ Started' = Started /\ Filings' = Filings \cup {n}
  BY <1>2, <1>3, <1>4 DEF Live, Started, Filings
<1>6. CwPeopleOK' /\ CwPapersOK' /\ CwTextOK'
  <2>1. CwPeopleOK'
    BY <1>2, <1>5 DEF CwInv, CwPeopleOK, OneContactPerAddress
  <2>2. CwPapersOK'
    BY <1>2, <1>5 DEF CwInv, CwPapersOK
  <2>3. CwTextOK'
    BY <1>1, <1>2 DEF CwInv, CwTextOK, ApprovedTextWasApproved
  <2> QED
    BY <2>1, <2>2, <2>3
<1>7. CwFiledOK'
  <2>1. Filings' \subseteq 0..cwServed'
    BY <1>2, <1>5 DEF CwInv, CwFiledOK
  <2>2. \A s \in Numbers :
           cwFiled'[s] = NoFiling \/ (cwFiled'[s] \in SprsSubmission /\ OneLink(cwFiled'[s]))
    BY <1>4 DEF CwInv, CwFiledOK
  <2>3. /\ SprsSubmission' = SprsSubmission /\ NoFiling' = NoFiling /\ Numbers' = Numbers
        /\ \A s : OneLink(cwFiled[s])' <=> OneLink(cwFiled'[s])
    BY DEF SprsSubmission, NoFiling, Numbers, OneLink
  <2> QED
    BY <1>4, <2>1, <2>2, <2>3 DEF CwFiledOK
<1>8. CwRemindOK'
  <2>1. \A s \in Filings : s \in Filings' /\ cwFiled'[s].date = cwFiled[s].date
    BY <1>4, <1>5 DEF Filings
  <2> QED
    BY <1>1, <2>1, RemindStands
<1>9. ~ cwOverlap => OneEach(cwRaci' \ cwHand')
  BY <1>2 DEF CwInv, CwAloneOK
<1>10. \/ Filings' = Filings
       \/ /\ Filings \subseteq Filings'
          /\ \A p \in CwRequests : cwTxn'[p].op = "file" => cwTxn[p].number \notin Filings'
  <2>1. CASE n \in Filings
    BY <1>5, <2>1
  <2>2. CASE n \notin Filings
    <3>1. ASSUME NEW p \in CwRequests, cwTxn'[p].op = "file"
          PROVE  cwTxn[p].number \notin Filings
      BY <1>1, <3>1 DEF CwInv, CwReadsOK, CwReadOK, CwIdle
    <3> QED
      BY <1>5, <2>2, <3>1
  <2> QED
    BY <2>1, <2>2
<1>11. CwReadsOK' /\ CwAloneOK'
  BY <1>1, <1>2, <1>5, <1>9, <1>10, CwWriteStep
<1> QED
  BY <1>6, <1>7, <1>8, <1>11 DEF CwInv

\* A new submission takes a number nobody else has.
LEMMA RecordInv ==
    ASSUME CwInv, NEW q \in CwRequests, RecordSubmission(q)
    PROVE  CwInv'
<1> DEFINE t == cwTxn[q]
<1>1. /\ t.op = "file" /\ t # CwIdle /\ CwEnd(q)
      /\ cwFiled' = [cwFiled EXCEPT ![t.number] = t.row]
      /\ UNCHANGED <<cwPeople, cwPapers, cwText>>
  BY DEF RecordSubmission, CwIdle
<1>2. /\ t.number \in 1..cwServed /\ t.number \notin Filings
      /\ t.row \in SprsSubmission /\ OneLink(t.row)
  BY <1>1 DEF CwInv, CwReadsOK, CwReadOK
<1>3. t.number \in Numbers /\ t.number \in 0..cwServed
  BY <1>2, CwAssumption DEF CwInv, CwReadsOK, Numbers
<1>4. ASSUME NEW p \in CwRequests, cwTxn'[p].op = "file"
      PROVE  cwTxn[p].number # t.number
  <2>1. cwTxn'[q] = CwIdle /\ \A r \in CwRequests : r # q => cwTxn'[r] = cwTxn[r]
    BY <1>1 DEF CwEnd, CwInv, CwReadsOK
  <2>2. p # q /\ cwTxn[p].op = "file"
    BY <1>4, <2>1 DEF CwIdle
  <2> QED
    BY <1>1, <2>2 DEF CwInv, CwReadsOK, Apart
<1> HIDE DEF t
<1>5. t = cwTxn[q]
  BY DEF t
<1> QED
  BY <1>1, <1>2, <1>3, <1>4, <1>5, FiledStep

\* A void changes the mark only.
LEMMA VoidInv ==
    ASSUME CwInv, NEW q \in CwRequests, VoidSubmission(q)
    PROVE  CwInv'
<1> DEFINE t == cwTxn[q]
           row == [cwFiled[t.number] EXCEPT !.voided = t.reason]
<1>1. /\ t.op = "void" /\ t # CwIdle /\ CwEnd(q)
      /\ UNCHANGED <<cwPeople, cwPapers, cwText>>
  BY DEF VoidSubmission, CwIdle
<1>2. t.number \in Filings /\ t.reason \in {"typo", "wrong"}
  BY <1>1 DEF CwInv, CwReadsOK, CwReadOK
<1>3. t.number \in Numbers /\ cwFiled[t.number] \in SprsSubmission /\ OneLink(cwFiled[t.number])
  BY <1>2 DEF Filings, CwInv, CwFiledOK
<1>4. row \in SprsSubmission /\ OneLink(row) /\ row.date = cwFiled[t.number].date
  BY <1>2, <1>3 DEF SprsSubmission, OneLink
<1>5. cwFiled' = [cwFiled EXCEPT ![t.number] = row]
  BY DEF VoidSubmission
<1> HIDE DEF t, row
<1>6. t = cwTxn[q]
  BY DEF t
<1> QED
  BY <1>1, <1>2, <1>3, <1>4, <1>5, <1>6, FiledStep

-----------------------------------------------------------------------------
(* The reminder job.                                                       *)

\* A step of the job or of the clock touches nothing a request reads.
LEMMA JobStep ==
    ASSUME CwInv, UNCHANGED <<cwTables, cwTxn, cwServed, cwOverlap>>, CwRemindOK'
    PROVE  CwInv'
<1>1. UNCHANGED <<cwContact, cwGone, cwDocRole, cwRaci, cwHand, cwCycle, cwStatement,
                  cwApproved, cwFiled>>
  BY DEF cwTables, cwPeople, cwPapers, cwText
<1>2. /\ CwPeopleOK' /\ CwPapersOK' /\ CwTextOK' /\ CwFiledOK'
      /\ Live' = Live /\ Started' = Started /\ Completed' = Completed /\ Filings' = Filings
  BY TablesStand DEF CwInv, CwReadsOK
<1>3. CwReadsOK'
  <2>1. \A p \in CwRequests : CwReadOK(cwTxn[p], cwServed)'
    BY <1>1, <1>2 DEF CwInv, CwReadsOK, CwReadOK
  <2> QED
    BY <2>1 DEF CwInv, CwReadsOK, Apart
<1>4. CwAloneOK'
  BY <1>1, <1>2 DEF CwInv, CwAloneOK, CwCurrent, RowsIn, Latest, OneEach
<1> QED
  BY <1>2, <1>3, <1>4 DEF CwInv

\* The job begins with what is filed, due and not marked.
LEMMA RemindBeginInv ==
    ASSUME CwInv, RemindBegin
    PROVE  CwInv'
<1>1. /\ cwJob = NoRun /\ cwJob' = [due |-> DueForReminder, left |-> Staff, sent |-> FALSE]
      /\ UNCHANGED <<cwTables, cwLog, cwMails, cwCrashes, cwNow, cwTxn, cwServed, cwOverlap>>
  BY DEF RemindBegin
<1>2. /\ DueForReminder \subseteq Numbers /\ DueForReminder \cap cwLog = {}
      /\ \A s \in DueForReminder : OverAYear(s)
  BY DEF DueForReminder, GetCurrentSubmission, Filings, OverAYear
<1>3. \A s : ~ Mailed(s) /\ ~ Mailed(s)'
  BY <1>1 DEF Mailed, NoRun
<1>4. \A s : OverAYear(s)' <=> OverAYear(s)
  BY <1>1 DEF OverAYear, Filings, cwTables
<1>5. /\ cwJob' \in [due : SUBSET Numbers, left : SUBSET Staff, sent : BOOLEAN]
      /\ cwJob'.due = DueForReminder
  BY <1>1, <1>2
<1>6. CwRemindOK'
  BY <1>1, <1>2, <1>3, <1>4, <1>5 DEF CwInv, CwRemindOK
<1> QED
  BY <1>1, <1>6, JobStep

\* The first mail that goes out counts for every submission it is about.
LEMMA SendInv ==
    ASSUME CwInv, NEW to \in Staff, NEW ok \in BOOLEAN, Send(to, ok)
    PROVE  CwInv'
<1>1. /\ cwJob' = [cwJob EXCEPT !.left = cwJob.left \ {to}, !.sent = cwJob.sent \/ ok]
      /\ cwMails' = [s \in Numbers |-> cwMails[s] +
                        IF ok /\ ~ cwJob.sent /\ s \in cwJob.due THEN 1 ELSE 0]
      /\ UNCHANGED <<cwTables, cwLog, cwCrashes, cwNow, cwTxn, cwServed, cwOverlap>>
  BY DEF Send
<1>2. cwJob \in [due : SUBSET Numbers, left : SUBSET Staff, sent : BOOLEAN]
  BY DEF CwInv, CwRemindOK
<1>3. cwJob'.due = cwJob.due /\ cwJob'.sent = (cwJob.sent \/ ok)
  BY <1>1, <1>2
<1>4. cwJob' \in [due : SUBSET Numbers, left : SUBSET Staff, sent : BOOLEAN]
  <2>1. cwJob.left \ {to} \in SUBSET Staff /\ (cwJob.sent \/ ok) \in BOOLEAN
    BY <1>2
  <2> QED
    BY <1>1, <1>2, <2>1
<1>5. \A s : OverAYear(s)' <=> OverAYear(s)
  BY <1>1 DEF OverAYear, Filings, cwTables
<1>6. /\ \A s \in cwLog \cup cwJob.due : OverAYear(s)
      /\ cwLog \cap cwJob.due = {} /\ cwMails \in [Numbers -> Nat]
      /\ cwCrashes \in Nat
      /\ \A s \in Numbers :
            /\ s \in cwLog \/ Mailed(s) => cwMails[s] >= 1
            /\ cwMails[s] <= cwCrashes + (IF s \in cwLog \/ Mailed(s) THEN 1 ELSE 0)
  BY DEF CwInv, CwRemindOK
<1>7. ASSUME NEW s \in Numbers
      PROVE  /\ s \in cwLog \/ Mailed(s)' => cwMails'[s] >= 1
             /\ cwMails'[s] <= cwCrashes + (IF s \in cwLog \/ Mailed(s)' THEN 1 ELSE 0)
  <2>1. cwMails[s] \in Nat
    BY <1>6
  <2>2. CASE ok /\ ~ cwJob.sent /\ s \in cwJob.due
    <3>1. cwMails'[s] = cwMails[s] + 1
      BY <1>1, <2>2
    <3>2. Mailed(s)' /\ ~ Mailed(s) /\ s \notin cwLog
      BY <1>3, <1>6, <2>2 DEF Mailed
    <3> QED
      BY <1>6, <2>1, <3>1, <3>2
  <2>3. CASE ~ (ok /\ ~ cwJob.sent /\ s \in cwJob.due)
    <3>1. cwMails'[s] = cwMails[s]
      BY <1>1, <2>1, <2>3
    <3>2. Mailed(s)' <=> Mailed(s)
      BY <1>2, <1>3, <2>3 DEF Mailed
    <3> QED
      BY <1>6, <3>1, <3>2
  <2> QED
    BY <2>2, <2>3
<1>8. cwMails' \in [Numbers -> Nat]
  <2>1. \A s \in Numbers :
           cwMails[s] + (IF ok /\ ~ cwJob.sent /\ s \in cwJob.due THEN 1 ELSE 0) \in Nat
    BY <1>6
  <2> QED
    BY <1>1, <2>1
<1>9. CwRemindOK'
  BY <1>1, <1>3, <1>4, <1>5, <1>6, <1>7, <1>8 DEF CwInv, CwRemindOK
<1> QED
  BY <1>1, <1>9, JobStep

\* What was mailed about is marked with the commit.
LEMMA MarkInv ==
    ASSUME CwInv, MarkReminderSent
    PROVE  CwInv'
<1>1. /\ cwLog' = cwLog \cup (IF cwJob.sent THEN cwJob.due ELSE {}) /\ cwJob' = NoRun
      /\ UNCHANGED <<cwTables, cwMails, cwCrashes, cwNow, cwTxn, cwServed, cwOverlap>>
  BY DEF MarkReminderSent
<1>2. cwJob \in [due : SUBSET Numbers, left : SUBSET Staff, sent : BOOLEAN]
  BY DEF CwInv, CwRemindOK
<1>3. /\ cwJob' \in [due : SUBSET Numbers, left : SUBSET Staff, sent : BOOLEAN]
      /\ cwJob'.due = {} /\ ~ cwJob'.sent
  BY <1>1 DEF NoRun
<1>4. \A s : ~ Mailed(s)' /\ (s \in cwLog' <=> s \in cwLog \/ Mailed(s))
  BY <1>1, <1>3 DEF Mailed
<1>5. \A s : OverAYear(s)' <=> OverAYear(s)
  BY <1>1 DEF OverAYear, Filings, cwTables
<1>6. cwLog' \subseteq Numbers /\ \A s \in cwLog' : OverAYear(s)
  BY <1>1, <1>2 DEF CwInv, CwRemindOK
<1>7. CwRemindOK'
  BY <1>1, <1>3, <1>4, <1>5, <1>6 DEF CwInv, CwRemindOK
<1> QED
  BY <1>1, <1>7, JobStep

\* A crash explains one more mail.
LEMMA RemindCrashInv ==
    ASSUME CwInv, RemindCrash
    PROVE  CwInv'
<1>1. /\ cwJob' = NoRun /\ cwCrashes' = cwCrashes + 1 /\ cwCrashes < CwCrashMax
      /\ UNCHANGED <<cwTables, cwLog, cwMails, cwNow, cwTxn, cwServed, cwOverlap>>
  BY DEF RemindCrash
<1>2. /\ cwJob' \in [due : SUBSET Numbers, left : SUBSET Staff, sent : BOOLEAN]
      /\ cwJob'.due = {} /\ ~ cwJob'.sent
  BY <1>1 DEF NoRun
<1>3. \A s : ~ Mailed(s)' /\ (OverAYear(s)' <=> OverAYear(s))
  BY <1>1, <1>2 DEF Mailed, OverAYear, Filings, cwTables
<1>4. cwCrashes' \in 0..CwCrashMax /\ cwCrashes \in Nat
  BY <1>1, CwAssumption DEF CwInv, CwRemindOK
<1>5. ASSUME NEW s \in Numbers
      PROVE  /\ s \in cwLog => cwMails[s] >= 1
             /\ cwMails[s] <= cwCrashes' + (IF s \in cwLog THEN 1 ELSE 0)
  <2>1. cwMails[s] \in Nat
    BY DEF CwInv, CwRemindOK
  <2> QED
    BY <1>1, <1>4, <2>1 DEF CwInv, CwRemindOK
<1>6. CwRemindOK'
  BY <1>1, <1>2, <1>3, <1>4, <1>5 DEF CwInv, CwRemindOK
<1> QED
  BY <1>1, <1>6, JobStep

\* A day passes: what is over a year stays so.
LEMMA CwTickInv ==
    ASSUME CwInv, CwTick
    PROVE  CwInv'
<1>1. /\ cwNow' = cwNow + 1 /\ cwNow < CwLast
      /\ UNCHANGED <<cwTables, cwTxn, cwServed, cwOverlap>>
      /\ UNCHANGED <<cwLog, cwJob, cwMails, cwCrashes>>
  BY DEF CwTick, cwRemind
<1>2. cwNow' \in 0..CwLast
  BY <1>1, CwAssumption DEF CwInv, CwRemindOK
<1>3. \A s : Mailed(s)' <=> Mailed(s)
  BY <1>1 DEF Mailed
<1>4. ASSUME NEW s, OverAYear(s) PROVE OverAYear(s)'
  <2>1. s \in Filings' /\ cwFiled' = cwFiled
    BY <1>1, <1>4 DEF OverAYear, Filings, cwTables
  <2>2. cwFiled[s].date \in Int /\ Year \in Int /\ cwNow \in Int
    <3>1. cwFiled[s] \in SprsSubmission
      BY <1>4 DEF OverAYear, Filings, CwInv, CwFiledOK
    <3> QED
      BY <3>1, CwAssumption DEF SprsSubmission, CwInv, CwRemindOK
  <2> QED
    BY <1>1, <1>4, <2>1, <2>2 DEF OverAYear
<1>5. CwRemindOK'
  BY <1>1, <1>2, <1>3, <1>4 DEF CwInv, CwRemindOK
<1> QED
  BY <1>1, <1>5, JobStep

-----------------------------------------------------------------------------
(* The specification.                                                      *)

\* Every step keeps the invariant.
LEMMA CwNextInv ==
    ASSUME CwInv, [CwNext]_cwVars
    PROVE  CwInv'
<1>1. CASE UNCHANGED cwVars
  <2>1. UNCHANGED <<cwTables, cwTxn, cwServed, cwOverlap>> /\ UNCHANGED <<cwRemind, cwNow>>
    BY <1>1 DEF cwVars
  <2>2. CwRemindOK'
    BY <2>1, RemindStands DEF Filings, cwTables
  <2> QED
    BY <2>1, <2>2, JobStep
<1>2. ASSUME NEW q \in CwRequests, NEW c \in Contacts, NEW e \in AsTyped,
             \/ CreateContactBegin(q, c, e)
             \/ \E n \in Names : PatchContactBegin(q, c, e, n)
             \/ \E d \in Contacts, n \in Names : ImportLiongardContacts(q, c, e, d, n)
      PROVE  CwInv'
  BY <1>2, ContactBegins
<1>3. ASSUME NEW c \in Contacts, DeleteContact(c) \/ AddRole(c) PROVE CwInv'
  BY <1>3, DeleteContactInv, RoleInv
<1>4. ASSUME NEW r \in cwDocRole, RemoveRole(r) PROVE CwInv'
  BY <1>4, RoleInv
<1>5. ASSUME NEW q \in CwRequests, NEW n \in Started, NEW c \in Contacts, NEW l \in Letters,
             \/ BulkAssignRaci(q, n, c, l)
             \/ \E o \in CwObjectives :
                   CreateRaciBegin(q, [cycle |-> n, obj |-> o, contact |-> c, letter |-> l])
      PROVE  CwInv'
  BY <1>5, RaciBegins
<1>6. CASE \/ \E r \in cwRaci : DeleteRaci(r)
           \/ \E n \in Numbers : CompleteAssessment(n) \/ ReopenAssessment(n)
  BY <1>6, PapersAtOnceInv
<1>7. ASSUME NEW q \in CwRequests,
             \/ SaveContacts(q) \/ ContactsRefused(q)
             \/ SaveRaci(q) \/ RaciRefused(q)
             \/ CreateAssessmentBegin(q) \/ CopyForwardRaci(q) \/ CreateAssessment(q)
      PROVE  CwInv'
  BY <1>7, SaveContactsInv, RefusedInv, SaveRaciInv, AssessmentBegins, CopyForwardInv,
     CreateAssessmentInv
<1>8. ASSUME NEW q \in CwRequests,
             \/ \E item \in ImplementationStatement : UpsertBegin(q, item)
             \/ UpsertStatement(q) \/ UpsertConflict(q)
             \/ \E c \in Contacts, d \in 0..CwLast : CreateSubmissionBegin(q, c, d)
             \/ RecordSubmission(q) \/ SubmissionRefused(q)
             \/ \E s \in Numbers, reason \in {"typo", "wrong"} : VoidBegin(q, s, reason)
             \/ VoidSubmission(q)
      PROVE  CwInv'
  BY <1>8, PaperBegins, UpsertInv, RefusedInv, RecordInv, VoidInv
<1>9. CASE RemindBegin \/ MarkReminderSent \/ RemindCrash \/ CwTick
  BY <1>9, RemindBeginInv, MarkInv, RemindCrashInv, CwTickInv
<1>10. ASSUME NEW to \in Staff, NEW ok \in BOOLEAN, Send(to, ok) PROVE CwInv'
  BY <1>10, SendInv
<1> QED
  BY <1>1, <1>2, <1>3, <1>4, <1>5, <1>6, <1>7, <1>8, <1>9, <1>10 DEF CwNext

\* The inductive invariant holds in every behaviour.
THEOREM CwInvariant == CwSpec => []CwInv
BY CwInitInv, CwNextInv, PTL DEF CwSpec

\* The variables have their types.
THEOREM CwTypeCorrect == CwSpec => []CwTypeOK
<1>1. CwInv => CwTypeOK
  <2> SUFFICES ASSUME CwInv PROVE CwTypeOK
    OBVIOUS
  <2>1. \A c \in Contacts : cwContact[c] \in Contact \/ cwContact[c] = NoContact
    BY DEF CwInv, CwPeopleOK, StoredContact
  <2>2. \A r \in cwRaci : cwCycle[r.cycle] # "none"
    BY DEF CwInv, CwPapersOK, Started
  <2>3. \A s \in Numbers : cwFiled[s] \in SprsSubmission \/ cwFiled[s] = NoFiling
    BY DEF CwInv, CwFiledOK
  <2> QED
    BY <2>1, <2>2, <2>3 DEF CwInv, CwTypeOK, CwPeopleOK, CwPapersOK, CwTextOK, CwRemindOK, CwReadsOK
<1> QED
  BY <1>1, CwInvariant, PTL

\* Who is responsible exists, and is one person; bulk assignment fills gaps
\* only; an approved text is one that somebody approved; the reminder job says
\* what it sent, and sends once but for its crashes.
THEOREM CaseworkStaysSound == CwSpec => []CaseworkIsSound
<1>1. CwInv => CaseworkIsSound
  <2> SUFFICES ASSUME CwInv PROVE CaseworkIsSound
    OBVIOUS
  <2>1. HoldersExist
    BY DEF CwInv, CwPeopleOK, CwPapersOK, HoldersExist
  <2>2. BulkNeverDoubles
    BY DEF CwInv, CwAloneOK, OneEach, SameGap, BulkNeverDoubles
  <2>3. RemindersAreHonest
    BY DEF CwInv, CwRemindOK, OverAYear, RemindersAreHonest
  <2>4. RemindedOnce
    <3>1. \A s \in Numbers : cwMails[s] \in Nat
      BY DEF CwInv, CwRemindOK
    <3> QED
      BY <3>1, CwAssumption DEF CwInv, CwRemindOK, RemindedOnce
  <2> QED
    BY <2>1, <2>2, <2>3, <2>4 DEF CwInv, CwPeopleOK, CwTextOK, CaseworkIsSound
<1> QED
  BY <1>1, CwInvariant, PTL

\* Who writes an assessment's status or a submission.
LEMMA WhoWrites ==
    ASSUME CwNext
    PROVE  \/ UNCHANGED <<cwCycle, cwFiled>>
           \/ \E q \in CwRequests : CreateAssessment(q)
           \/ \E n \in Numbers : CompleteAssessment(n) \/ ReopenAssessment(n)
           \/ \E c \in Contacts : DeleteContact(c)
           \/ \E q \in CwRequests : RecordSubmission(q) \/ VoidSubmission(q)
<1> DEFINE Stays == UNCHANGED <<cwCycle, cwFiled>>
<1>1. UNCHANGED cwTables => Stays
  BY DEF cwTables, cwPapers
<1>2. UNCHANGED cwPapers => UNCHANGED cwCycle
  BY DEF cwPapers
<1>3. ASSUME NEW q, NEW t, CwBegin(q, t) PROVE Stays
  BY <1>1, <1>3 DEF CwBegin
<1> HIDE DEF Stays
<1>4. ASSUME NEW q \in CwRequests, NEW c \in Contacts, NEW e \in AsTyped,
             \/ CreateContactBegin(q, c, e)
             \/ \E n \in Names : PatchContactBegin(q, c, e, n)
             \/ \E d \in Contacts, n \in Names : ImportLiongardContacts(q, c, e, d, n)
      PROVE  Stays
  BY <1>3, <1>4 DEF CreateContactBegin, PatchContactBegin, ImportLiongardContacts
<1>5. ASSUME \/ \E c \in Contacts : AddRole(c)
             \/ \E r \in cwDocRole : RemoveRole(r)
             \/ \E r \in cwRaci : DeleteRaci(r)
      PROVE  Stays
  BY <1>2, <1>5 DEF AddRole, RemoveRole, DeleteRaci, Stays
<1>6. ASSUME NEW q \in CwRequests, NEW n \in Started, NEW c \in Contacts, NEW l \in Letters,
             \/ BulkAssignRaci(q, n, c, l)
             \/ \E o \in CwObjectives :
                   CreateRaciBegin(q, [cycle |-> n, obj |-> o, contact |-> c, letter |-> l])
      PROVE  Stays
  BY <1>3, <1>6 DEF BulkAssignRaci, CreateRaciBegin
<1>7. ASSUME NEW q \in CwRequests,
             \/ CreateAssessmentBegin(q)
             \/ \E item \in ImplementationStatement : UpsertBegin(q, item)
             \/ \E c \in Contacts, d \in 0..CwLast : CreateSubmissionBegin(q, c, d)
             \/ \E s \in Numbers, reason \in {"typo", "wrong"} : VoidBegin(q, s, reason)
      PROVE  Stays
  BY <1>3, <1>7 DEF CreateAssessmentBegin, UpsertBegin, CreateSubmissionBegin, VoidBegin
<1>8. ASSUME NEW q \in CwRequests,
             \/ ContactsRefused(q) \/ RaciRefused(q) \/ CopyForwardRaci(q)
             \/ UpsertConflict(q) \/ SubmissionRefused(q)
      PROVE  Stays
  BY <1>1, <1>8 DEF ContactsRefused, RaciRefused, CopyForwardRaci, UpsertConflict,
                    SubmissionRefused
<1>9. ASSUME NEW q \in CwRequests, SaveContacts(q) \/ SaveRaci(q) \/ UpsertStatement(q)
      PROVE  Stays
  BY <1>2, <1>9 DEF SaveContacts, SaveRaci, UpsertStatement, Stays
<1>10. ASSUME \/ RemindBegin \/ MarkReminderSent \/ RemindCrash \/ CwTick
              \/ \E to \in Staff, ok \in BOOLEAN : Send(to, ok)
       PROVE  Stays
  BY <1>1, <1>10 DEF RemindBegin, MarkReminderSent, RemindCrash, CwTick, Send
<1>11. Stays => UNCHANGED <<cwCycle, cwFiled>>
  BY DEF Stays
<1> QED
  BY <1>4, <1>5, <1>6, <1>7, <1>8, <1>9, <1>10, <1>11 DEF CwNext

\* A step that starts an assessment carries the rows of the last completed one.
LEMMA CarriesStep ==
    ASSUME CwInv, CwNext, ~ cwOverlap, NEW n \in Numbers \ Started, NEW m \in Latest(Completed),
           cwCycle'[n] # "none"
    PROVE  {r \in cwRaci' : r.cycle = n} = {[r EXCEPT !.cycle = n] : r \in RowsIn(m)}
<1>1. cwCycle[n] = "none" /\ cwCycle' # cwCycle
  BY DEF Started
<1>2. ASSUME NEW k \in Numbers, CompleteAssessment(k) \/ ReopenAssessment(k) PROVE FALSE
  BY <1>1, <1>2 DEF CompleteAssessment, ReopenAssessment, CwInv, CwPapersOK
<1>3. PICK q \in CwRequests : CreateAssessment(q)
  BY <1>1, <1>2, WhoWrites
     DEF DeleteContact, RecordSubmission, VoidSubmission, cwPapers
<1> DEFINE t == cwTxn[q]
<1>4. /\ t.op = "assess" /\ cwCycle' = [cwCycle EXCEPT ![t.cycle] = "in_progress"]
      /\ cwRaci' = cwRaci \cup t.rows
  BY <1>3 DEF CreateAssessment
<1>5. n = t.cycle
  BY <1>1, <1>4 DEF CwInv, CwPapersOK
<1>6. \A r \in t.rows : r.cycle = n
  BY <1>4, <1>5 DEF CwInv, CwReadsOK, CwReadOK
<1>7. t.rows = {[r EXCEPT !.cycle = n] : r \in RowsIn(m)}
  <2>1. CwCurrent(cwTxn[q])
    BY DEF CwInv, CwAloneOK
  <2>2. PICK u : u = cwTxn[q]
    OBVIOUS
  <2>3. u.rows = {[r EXCEPT !.cycle = u.cycle] : r \in RowsIn(m)}
    BY <1>4, <2>1, <2>2 DEF CwCurrent
  <2> QED
    BY <1>5, <2>2, <2>3
<1>8. \A r \in cwRaci : r.cycle # n
  BY DEF CwInv, CwPapersOK
<1> QED
  BY <1>4, <1>6, <1>7, <1>8

\* A step keeps what was filed.
LEMMA FiledStays ==
    ASSUME CwInv, CwNext, NEW s \in Filings
    PROVE  LET old == cwFiled[s]
               new == cwFiled'[s]
           IN /\ new.date = old.date /\ new.who = old.who
              /\ new.link # old.link => new.link = {} /\ old.link \subseteq cwGone'
              /\ ~ cwOverlap /\ old.voided # "no" => new.voided = old.voided
<1>1. s \in Numbers /\ cwFiled[s] \in SprsSubmission /\ OneLink(cwFiled[s])
  BY DEF Filings, CwInv, CwFiledOK
<1>2. CASE cwFiled' = cwFiled
  BY <1>2
<1>3. ASSUME NEW c \in Contacts, DeleteContact(c)
      PROVE  /\ cwFiled'[s].date = cwFiled[s].date /\ cwFiled'[s].who = cwFiled[s].who
             /\ cwFiled'[s].link # cwFiled[s].link =>
                    cwFiled'[s].link = {} /\ cwFiled[s].link \subseteq cwGone'
             /\ cwFiled'[s].voided = cwFiled[s].voided
  <2>1. /\ cwFiled'[s] = [cwFiled[s] EXCEPT !.link = cwFiled[s].link \ {c}]
        /\ cwGone' = cwGone \cup {c}
    BY <1>1, <1>3 DEF DeleteContact
  <2>2. /\ cwFiled'[s].date = cwFiled[s].date /\ cwFiled'[s].who = cwFiled[s].who
        /\ cwFiled'[s].voided = cwFiled[s].voided
        /\ cwFiled'[s].link = cwFiled[s].link \ {c}
    BY <1>1, <2>1 DEF SprsSubmission
  <2> QED
    BY <1>1, <2>1, <2>2 DEF OneLink
<1>4. ASSUME NEW q \in CwRequests, RecordSubmission(q) PROVE cwFiled'[s] = cwFiled[s]
  <2>1. cwFiled' = [cwFiled EXCEPT ![cwTxn[q].number] = cwTxn[q].row] /\ cwTxn[q].number # s
    BY <1>4 DEF RecordSubmission, CwInv, CwReadsOK, CwReadOK
  <2> QED
    BY <1>1, <2>1 DEF CwInv, CwFiledOK
<1>5. ASSUME NEW q \in CwRequests, VoidSubmission(q)
      PROVE  /\ cwFiled'[s].date = cwFiled[s].date /\ cwFiled'[s].who = cwFiled[s].who
             /\ cwFiled'[s].link = cwFiled[s].link
             /\ ~ cwOverlap /\ cwFiled[s].voided # "no" => cwFiled'[s].voided = cwFiled[s].voided
  <2>1. /\ cwTxn[q].op = "void"
        /\ cwFiled' = [cwFiled EXCEPT ![cwTxn[q].number].voided = cwTxn[q].reason]
    BY <1>5 DEF VoidSubmission
  <2>2. CASE cwTxn[q].number = s
    <3>1. cwFiled'[s] = [cwFiled[s] EXCEPT !.voided = cwTxn[q].reason]
      BY <1>1, <2>1, <2>2 DEF CwInv, CwFiledOK
    <3>2. ~ cwOverlap => cwFiled[s].voided = "no"
      BY <2>1, <2>2 DEF CwInv, CwAloneOK, CwCurrent
    <3> QED
      BY <1>1, <3>1, <3>2 DEF SprsSubmission
  <2>3. CASE cwTxn[q].number # s
    BY <1>1, <2>1, <2>3 DEF CwInv, CwFiledOK
  <2> QED
    BY <2>2, <2>3
<1>6. CASE cwFiled' # cwFiled
  <2>1. \/ \E c \in Contacts : DeleteContact(c)
        \/ \E q \in CwRequests : RecordSubmission(q) \/ VoidSubmission(q)
    BY <1>6, WhoWrites DEF CreateAssessment, CompleteAssessment, ReopenAssessment
  <2> QED
    BY <1>3, <1>4, <1>5, <2>1
<1> QED
  BY <1>2, <1>6

\* A new assessment carries the RACI of the last completed one, and what was
\* filed stays as filed.
THEOREM CompletedStands == CwSpec => CompletedWorkStands
<1>1. CwInv /\ [CwNext]_cwVars =>
        [~ cwOverlap => \A n \in Numbers \ Started, m \in Latest(Completed) :
            cwCycle'[n] # "none" =>
               {r \in cwRaci' : r.cycle = n} = {[r EXCEPT !.cycle = n] : r \in RowsIn(m)}]_cwVars
  BY CarriesStep
<1>2. CwInv /\ [CwNext]_cwVars =>
        [\A s \in Filings :
            LET old == cwFiled[s]
                new == cwFiled'[s]
            IN /\ new.date = old.date /\ new.who = old.who
               /\ new.link # old.link => new.link = {} /\ old.link \subseteq cwGone'
               /\ ~ cwOverlap /\ old.voided # "no" => new.voided = old.voided]_cwVars
  BY FiledStays
<1>3. CwSpec => CarriesTheLastCompleted
  BY <1>1, CwInvariant, PTL DEF CwSpec, CarriesTheLastCompleted
<1>4. CwSpec => FiledIsFinal
  BY <1>2, CwInvariant, PTL DEF CwSpec, FiledIsFinal
<1> QED
  BY <1>3, <1>4 DEF CompletedWorkStands

-----------------------------------------------------------------------------
(* Environments.                                                           *)

EvSpec == EvInit /\ [][EvNext]_evVars

\* An environment, or none.
Environment == EnvironmentIds \cup {0}

EvRowsOK ==
    /\ evMap \in OrgLiongardEnvironment
    /\ evResult \in [EvOrgs -> LiongardSyncResult]
    /\ evUnique => \A o, p \in EvOrgs : evMap[o] = evMap[p] => o = p \/ evMap[o] = 0

\* What a request in flight is about.
EvTxnOK(t) ==
    /\ t.op \in {"idle", "set", "sync"}
    /\ t.op = "idle" => t = EvIdle
    /\ t.op # "idle" => t.org \in EvOrgs /\ t.env \in EnvironmentIds
    /\ t.op = "set" => t.read \in Environment

EvTxnsOK ==
    /\ evTxn = [q \in EvRequests |-> evTxn[q]]
    /\ \A q \in EvRequests : EvTxnOK(evTxn[q])

\* The job: its list, and between a pull and its end the organisation it is at.
EvJobOK ==
    /\ evJob.stage \in {"idle", "next", "pulled", "notify"}
    /\ evJob.stage = "idle" => evJob = JobIdle
    /\ evJob.stage = "next" => evJob = [stage |-> "next", todo |-> evJob.todo]
    /\ DOMAIN evJob.todo \subseteq EvOrgs
    /\ evJob.stage \in {"pulled", "notify"} =>
          /\ evJob = [stage |-> evJob.stage, todo |-> evJob.todo, org |-> evJob.org,
                      env |-> evJob.env]
          /\ evJob.org \in EvOrgs /\ evJob.env \in EnvironmentIds

\* Alone, a request has read the mapping that is there.
EvCurrent(t) ==
    /\ t.op = "set" => t.read = evMap[t.org] /\ Holders(t.org, t.env) = {}
    /\ t.op = "sync" => t.env = evMap[t.org]

\* Where nothing overlaps, one request or pull at a time is between its read and
\* its write, and what it read is there still.
EvAloneOK ==
    ~ evOverlap =>
        /\ \A p, q \in EvRequests : evTxn[p] # EvIdle /\ evTxn[q] # EvIdle => p = q
        /\ evJob.stage = "pulled" => \A q \in EvRequests : evTxn[q] = EvIdle
        /\ \A q \in EvRequests : EvCurrent(evTxn[q])
        /\ evJob.stage = "pulled" => evJob.env = evMap[evJob.org]

EvInv == EvRowsOK /\ EvTxnsOK /\ EvJobOK /\ EvAloneOK /\ PendingIsAnnounced

-----------------------------------------------------------------------------
(* The invariant.                                                          *)

\* Initially nothing was pulled.
LEMMA EvInitInv == EvInit => EvInv
<1> SUFFICES ASSUME EvInit PROVE EvInv
  OBVIOUS
<1> USE DEF EvInit
<1>1. EvRowsOK
  BY DEF EvRowsOK, NoResult, LiongardSyncResult
<1>2. EvTxnsOK
  BY DEF EvTxnsOK, EvTxnOK, EvIdle
<1>3. EvJobOK
  BY DEF EvJobOK, JobIdle
<1>4. EvAloneOK
  BY DEF EvAloneOK, EvCurrent, EvIdle, JobIdle
<1>5. PendingIsAnnounced
  BY DEF PendingIsAnnounced, NoResult
<1> QED
  BY <1>1, <1>2, <1>3, <1>4, <1>5 DEF EvInv

\* A request begins with what it read.
LEMMA EvBeginStep ==
    ASSUME EvInv, NEW q \in EvRequests, NEW t, EvBegin(q, t), EvTxnOK(t), EvCurrent(t)
    PROVE  EvInv'
<1>1. /\ evTxn[q] = EvIdle /\ (evOverlap \/ EvQuiet)
      /\ evTxn' = [evTxn EXCEPT ![q] = t]
      /\ UNCHANGED <<evMap, evResult, evJob, evCut, evUnique, evOverlap>>
  BY DEF EvBegin, evRest
<1>2. evTxn'[q] = t /\ \A p \in EvRequests : p # q => evTxn'[p] = evTxn[p]
  BY <1>1 DEF EvInv, EvTxnsOK
<1>3. EvRowsOK' /\ EvJobOK' /\ PendingIsAnnounced'
  BY <1>1 DEF EvInv, EvRowsOK, EvJobOK, PendingIsAnnounced
<1>4. EvTxnsOK'
  <2>1. evTxn' = [p \in EvRequests |-> evTxn'[p]]
    BY <1>1 DEF EvInv, EvTxnsOK
  <2>2. \A p \in EvRequests : EvTxnOK(evTxn'[p])
    BY <1>2 DEF EvInv, EvTxnsOK
  <2> QED
    BY <2>1, <2>2 DEF EvTxnsOK, EvTxnOK, EvIdle
<1>5. EvAloneOK'
  <2> SUFFICES ASSUME ~ evOverlap PROVE EvAloneOK'
    BY <1>1 DEF EvAloneOK
  <2>1. EvQuiet
    BY <1>1
  <2>2. \A p \in EvRequests : p # q => evTxn'[p] = EvIdle
    BY <1>2, <2>1 DEF EvQuiet
  <2>3. EvCurrent(t)' /\ EvCurrent(EvIdle)'
    BY <1>1 DEF EvCurrent, Holders, EvIdle
  <2>4. \A p \in EvRequests : EvCurrent(evTxn[p])'
    BY <1>2, <2>2, <2>3 DEF EvCurrent
  <2> QED
    BY <1>1, <2>1, <2>2, <2>4 DEF EvAloneOK, EvQuiet
<1> QED
  BY <1>3, <1>4, <1>5 DEF EvInv

\* A request ends: what is left of those in flight.
LEMMA EvEndStep ==
    ASSUME EvInv, NEW q \in EvRequests, evTxn[q].op # "idle", EvEnd(q)
    PROVE  /\ EvTxnsOK' /\ EvJobOK'
           /\ UNCHANGED <<evJob, evCut, evUnique, evOverlap>>
           /\ ~ evOverlap => evJob.stage # "pulled" /\ \A p \in EvRequests : evTxn'[p] = EvIdle
<1>1. /\ evTxn' = [evTxn EXCEPT ![q] = EvIdle]
      /\ UNCHANGED <<evJob, evCut, evUnique, evOverlap>>
  BY DEF EvEnd, evRest
<1>2. evTxn'[q] = EvIdle /\ \A p \in EvRequests : p # q => evTxn'[p] = evTxn[p]
  BY <1>1 DEF EvInv, EvTxnsOK
<1>3. EvTxnsOK'
  <2>1. evTxn' = [p \in EvRequests |-> evTxn'[p]]
    BY <1>1 DEF EvInv, EvTxnsOK
  <2>2. EvTxnOK(EvIdle)
    BY DEF EvTxnOK, EvIdle
  <2>3. \A p \in EvRequests : EvTxnOK(evTxn'[p])
    BY <1>2, <2>2 DEF EvInv, EvTxnsOK
  <2> QED
    BY <2>1, <2>3 DEF EvTxnsOK, EvTxnOK, EvIdle
<1>4. EvJobOK'
  BY <1>1 DEF EvInv, EvJobOK
<1>5. ~ evOverlap => evJob.stage # "pulled" /\ \A p \in EvRequests : evTxn'[p] = EvIdle
  <2>1. evTxn[q] # EvIdle
    BY DEF EvIdle
  <2> QED
    BY <1>2, <2>1 DEF EvInv, EvAloneOK
<1> QED
  BY <1>1, <1>3, <1>4, <1>5

\* Nothing in flight is out of date where nothing is in flight.
LEMMA EvNobody ==
    ASSUME ~ evOverlap' => evJob'.stage # "pulled" /\ \A p \in EvRequests : evTxn'[p] = EvIdle
    PROVE  EvAloneOK'
BY DEF EvAloneOK, EvCurrent, EvIdle

\* A mapping is read before Liongard is asked.
LEMMA EvBeginInv ==
    ASSUME EvInv, NEW q \in EvRequests, NEW o \in EvOrgs,
           \/ \E e \in EnvironmentIds : SetMappingBegin(q, o, e)
           \/ SyncNowBegin(q, o)
    PROVE  EvInv'
<1>1. evMap[o] \in Environment
  BY DEF EvInv, EvRowsOK, OrgLiongardEnvironment, Environment
<1>2. ASSUME NEW e \in EnvironmentIds, SetMappingBegin(q, o, e) PROVE EvInv'
  <2> DEFINE t == [op |-> "set", org |-> o, env |-> e, read |-> evMap[o]]
  <2>1. EvBegin(q, t) /\ Holders(o, e) = {}
    BY <1>2 DEF SetMappingBegin
  <2>2. EvTxnOK(t) /\ EvCurrent(t)
    BY <1>1, <2>1 DEF EvTxnOK, EvCurrent
  <2> QED
    BY <2>1, <2>2, EvBeginStep
<1>3. CASE SyncNowBegin(q, o)
  <2> DEFINE t == [op |-> "sync", org |-> o, env |-> evMap[o]]
  <2>1. EvBegin(q, t) /\ evMap[o] # 0
    BY <1>3 DEF SyncNowBegin
  <2>2. EvTxnOK(t) /\ EvCurrent(t)
    BY <1>1, <2>1 DEF EvTxnOK, EvCurrent, Environment
  <2> QED
    BY <2>1, <2>2, EvBeginStep
<1> QED
  BY <1>2, <1>3

\* What a mapping becomes: an environment, and alone or under the constraint
\* one that nobody else has.
LEMMA SetsTheirOwn ==
    ASSUME EvInv, NEW q \in EvRequests, SetMapping(q)
    PROVE  LET t == evTxn[q]
           IN /\ t.org \in EvOrgs
              /\ evMap' = evMap \/ evMap' = [evMap EXCEPT ![t.org] = Mapped(t)]
              /\ Mapped(t) \in Environment
              /\ evMap' # evMap /\ (evUnique \/ ~ evOverlap) =>
                    \A p \in EvOrgs \ {t.org} : evMap[p] # Mapped(t)
<1> DEFINE t == evTxn[q]
<1>1. /\ t.op = "set"
      /\ evMap' = IF MappingFails(t) THEN evMap ELSE [evMap EXCEPT ![t.org] = Mapped(t)]
  BY DEF SetMapping
<1>2. t.org \in EvOrgs /\ t.env \in EnvironmentIds /\ evMap \in [EvOrgs -> Environment]
  BY <1>1 DEF EvInv, EvTxnsOK, EvTxnOK, EvRowsOK, OrgLiongardEnvironment, Environment
<1>3. Mapped(t) \in Environment
  BY <1>2 DEF Mapped, Environment
<1>4. ASSUME evMap' # evMap, evUnique \/ ~ evOverlap
      PROVE  \A p \in EvOrgs \ {t.org} : evMap[p] # Mapped(t)
  <2>1. ~ MappingFails(t) /\ Mapped(t) # evMap[t.org]
    BY <1>1, <1>2, <1>4
  <2>2. CASE evUnique
    BY <2>1, <2>2 DEF MappingFails
  <2>3. CASE ~ evOverlap
    <3>1. Holders(t.org, t.env) = {}
      BY <1>1, <2>3 DEF EvInv, EvAloneOK, EvCurrent
    <3>2. Mapped(t) = t.env
      BY <2>1 DEF Mapped
    <3> QED
      BY <3>1, <3>2 DEF Holders
  <2> QED
    BY <1>4, <2>2, <2>3
<1> QED
  BY <1>1, <1>2, <1>3, <1>4

\* A mapping is set.
LEMMA SetMappingInv ==
    ASSUME EvInv, NEW q \in EvRequests, SetMapping(q)
    PROVE  EvInv'
<1>1. evTxn[q].op # "idle" /\ EvEnd(q) /\ UNCHANGED evResult
  BY DEF SetMapping
<1>2. /\ EvTxnsOK' /\ EvJobOK' /\ EvAloneOK'
      /\ UNCHANGED <<evJob, evCut, evUnique, evOverlap>>
  BY <1>1, EvEndStep, EvNobody
<1>3. PICK o \in EvOrgs, e \in Environment :
         /\ evMap' = evMap \/ evMap' = [evMap EXCEPT ![o] = e]
         /\ evMap' # evMap /\ evUnique => \A p \in EvOrgs \ {o} : evMap[p] # e
  BY SetsTheirOwn
<1>4. EvRowsOK'
  <2>1. evMap \in [EvOrgs -> Environment]
    BY DEF EvInv, EvRowsOK, OrgLiongardEnvironment, Environment
  <2>2. evMap' \in OrgLiongardEnvironment
    BY <1>3, <2>1 DEF OrgLiongardEnvironment, Environment
  <2>3. ASSUME evUnique, NEW a \in EvOrgs, NEW b \in EvOrgs, evMap'[a] = evMap'[b]
        PROVE  a = b \/ evMap'[a] = 0
    BY <1>3, <2>1, <2>3 DEF EvInv, EvRowsOK
  <2> QED
    BY <1>1, <1>2, <2>2, <2>3 DEF EvInv, EvRowsOK
<1>5. PendingIsAnnounced'
  BY <1>1, <1>2 DEF EvInv, PendingIsAnnounced
<1> QED
  BY <1>2, <1>4, <1>5 DEF EvInv

\* A mapping is deleted.
LEMMA DeleteMappingInv ==
    ASSUME EvInv, NEW o \in EvOrgs, DeleteMapping(o)
    PROVE  EvInv'
<1>1. /\ evOverlap \/ EvQuiet
      /\ evMap' = [evMap EXCEPT ![o] = 0]
      /\ UNCHANGED <<evResult, evTxn, evJob, evCut, evUnique, evOverlap>>
  BY DEF DeleteMapping, evRest
<1>2. EvRowsOK'
  BY <1>1 DEF EvInv, EvRowsOK, OrgLiongardEnvironment
<1>3. EvTxnsOK' /\ EvJobOK' /\ PendingIsAnnounced'
  BY <1>1 DEF EvInv, EvTxnsOK, EvTxnOK, EvJobOK, PendingIsAnnounced
<1>4. EvAloneOK'
  BY <1>1, EvNobody DEF EvQuiet
<1> QED
  BY <1>2, <1>3, <1>4 DEF EvInv

\* A result is of what was pulled.
LEMMA StoredIsResult ==
    ASSUME NEW env \in EnvironmentIds, NEW new \in BOOLEAN,
           NEW told \in {"asked for", "not yet", "warned", "notified"}
    PROVE  /\ Stored(env, new, told) \in LiongardSyncResult
           /\ Stored(env, new, told).from = env /\ Stored(env, new, told).told = told
BY DEF Stored, LiongardSyncResult

\* A sync on request ends, or fails.
LEMMA SyncNowInv ==
    ASSUME EvInv, NEW q \in EvRequests,
           SyncNowFails(q) \/ \E new \in BOOLEAN : SyncNow(q, new)
    PROVE  EvInv'
<1>1. evTxn[q].op = "sync" /\ EvEnd(q) /\ UNCHANGED evMap
  BY DEF SyncNow, SyncNowFails
<1>2. /\ EvTxnsOK' /\ EvJobOK' /\ EvAloneOK'
      /\ UNCHANGED <<evJob, evCut, evUnique, evOverlap>>
  BY <1>1, EvEndStep, EvNobody
<1>3. evTxn[q].org \in EvOrgs /\ evTxn[q].env \in EnvironmentIds
  BY <1>1 DEF EvInv, EvTxnsOK, EvTxnOK
<1>4. \/ evResult' = evResult
      \/ \E row \in LiongardSyncResult :
            row.told = "asked for" /\ evResult' = [evResult EXCEPT ![evTxn[q].org] = row]
  <2>1. ASSUME NEW new \in BOOLEAN, SyncNow(q, new)
        PROVE  \E row \in LiongardSyncResult :
                  row.told = "asked for" /\ evResult' = [evResult EXCEPT ![evTxn[q].org] = row]
    <3>1. PICK row : row = Stored(evTxn[q].env, new, "asked for")
      OBVIOUS
    <3>2. row \in LiongardSyncResult /\ row.told = "asked for"
      BY <1>3, <3>1 DEF Stored, LiongardSyncResult
    <3>3. evResult' = [evResult EXCEPT ![evTxn[q].org] = row]
      BY <2>1, <3>1 DEF SyncNow
    <3> QED
      BY <3>2, <3>3
  <2>2. SyncNowFails(q) => evResult' = evResult
    BY DEF SyncNowFails
  <2> QED
    BY <2>1, <2>2
<1>5. EvRowsOK' /\ PendingIsAnnounced'
  BY <1>1, <1>2, <1>3, <1>4 DEF EvInv, EvRowsOK, PendingIsAnnounced
<1> QED
  BY <1>2, <1>5 DEF EvInv

\* The job moves on: the mappings and the requests are as they were.
LEMMA DailyStep ==
    ASSUME EvInv, NEW job, JobGoes(job), EvJobOK',
           evResult' \in [EvOrgs -> LiongardSyncResult], PendingIsAnnounced',
           job.stage = "pulled" /\ ~ evOverlap => EvQuiet /\ job.env = evMap[job.org]
    PROVE  EvInv'
<1>1. evJob' = job /\ UNCHANGED <<evMap, evTxn, evUnique, evOverlap>>
  BY DEF JobGoes, evRest
<1>2. EvRowsOK' /\ EvTxnsOK'
  BY <1>1 DEF EvInv, EvRowsOK, EvTxnsOK, EvTxnOK
<1>3. EvAloneOK'
  <2> SUFFICES ASSUME ~ evOverlap PROVE EvAloneOK'
    BY <1>1 DEF EvAloneOK
  <2>1. \A p, q \in EvRequests : evTxn'[p] # EvIdle /\ evTxn'[q] # EvIdle => p = q
    BY <1>1 DEF EvInv, EvAloneOK
  <2>2. \A q \in EvRequests : EvCurrent(evTxn[q])'
    BY <1>1 DEF EvInv, EvAloneOK, EvCurrent, Holders
  <2>3. evJob'.stage = "pulled" =>
           (\A q \in EvRequests : evTxn'[q] = EvIdle) /\ evJob'.env = evMap'[evJob'.org]
    BY <1>1 DEF EvQuiet
  <2> QED
    BY <2>1, <2>2, <2>3 DEF EvAloneOK, EvIdle
<1> QED
  BY <1>2, <1>3 DEF EvInv

\* The job makes its list, pulls, or passes over an organisation.
LEMMA DailyPullInv ==
    ASSUME EvInv, DailyBegin \/ \E o \in EvOrgs : DailyPull(o) \/ DailyPullFails(o)
    PROVE  EvInv'
<1>1. /\ evResult' = evResult /\ evCut' = evCut
      /\ evJob.stage \in {"idle", "next"}
      /\ evResult \in [EvOrgs -> LiongardSyncResult]
  <2>1. JobIdle.stage = "idle"
    BY DEF JobIdle
  <2> QED
    BY <2>1 DEF DailyBegin, DailyPull, DailyPullFails, EvInv, EvRowsOK
<1>2. PendingIsAnnounced'
  BY <1>1 DEF EvInv, PendingIsAnnounced
<1>3. CASE DailyBegin
  <2> DEFINE todo == [o \in {o \in EvOrgs : evMap[o] # 0} |-> evMap[o]]
             job == [stage |-> "next", todo |-> todo]
  <2>1. JobGoes(job) /\ evJob' = job
    BY <1>3 DEF DailyBegin, JobGoes
  <2>2. /\ job.stage = "next" /\ DOMAIN job.todo \subseteq EvOrgs
        /\ job = [stage |-> "next", todo |-> job.todo]
    OBVIOUS
  <2> HIDE DEF job
  <2>3. EvJobOK'
    BY <2>1, <2>2 DEF EvJobOK
  <2> QED
    BY <1>1, <1>2, <2>1, <2>2, <2>3, DailyStep
<1>4. ASSUME NEW o \in EvOrgs, DailyPull(o) PROVE EvInv'
  <2> DEFINE job == [stage |-> "pulled", todo |-> Without(evJob.todo, o), org |-> o,
                     env |-> evMap[o]]
  <2>1. JobGoes(job) /\ evJob' = job /\ (evOverlap \/ EvQuiet) /\ evMap[o] # 0
    BY <1>4 DEF DailyPull, JobGoes, PulledFrom
  <2>2. DOMAIN Without(evJob.todo, o) \subseteq EvOrgs
    BY DEF Without, EvInv, EvJobOK
  <2>3. evMap[o] \in EnvironmentIds
    BY <2>1 DEF EvInv, EvRowsOK, OrgLiongardEnvironment
  <2>4. /\ job.stage = "pulled" /\ job.todo = Without(evJob.todo, o) /\ job.org = o
        /\ job.env = evMap[o]
        /\ job = [stage |-> job.stage, todo |-> job.todo, org |-> job.org, env |-> job.env]
    OBVIOUS
  <2> HIDE DEF job
  <2>5. EvJobOK'
    BY <2>1, <2>2, <2>3, <2>4 DEF EvJobOK
  <2> QED
    BY <1>1, <1>2, <2>1, <2>4, <2>5, DailyStep
<1>5. ASSUME NEW o \in EvOrgs, DailyPullFails(o) PROVE EvInv'
  <2> DEFINE job == [evJob EXCEPT !.todo = Without(evJob.todo, o)]
  <2>1. JobGoes(job) /\ evJob' = job /\ evJob.stage = "next"
    BY <1>5 DEF DailyPullFails, JobGoes
  <2>2. DOMAIN Without(evJob.todo, o) \subseteq EvOrgs
    BY DEF Without, EvInv, EvJobOK
  <2>3. job = [stage |-> "next", todo |-> Without(evJob.todo, o)]
    BY <2>1 DEF EvInv, EvJobOK
  <2>4. job.stage = "next" /\ job.todo = Without(evJob.todo, o)
    BY <2>3
  <2> HIDE DEF job
  <2>5. EvJobOK'
    BY <2>1, <2>2, <2>3, <2>4 DEF EvJobOK
  <2> QED
    BY <1>1, <1>2, <2>1, <2>4, <2>5, DailyStep
<1> QED
  BY <1>3, <1>4, <1>5

\* A result is stored, then somebody is told of it.
LEMMA DailyPersistInv ==
    ASSUME EvInv, NEW new \in BOOLEAN, DailyPersist(new)
    PROVE  EvInv'
<1> DEFINE o == evJob.org
           told == IF new THEN "not yet" ELSE "asked for"
           job == IF new THEN [evJob EXCEPT !.stage = "notify"]
                         ELSE [stage |-> "next", todo |-> evJob.todo]
<1>1. /\ evJob.stage = "pulled" /\ JobGoes(job) /\ evJob' = job
      /\ evResult' = [evResult EXCEPT ![o] = Stored(evJob.env, new, told)]
      /\ evCut' = evCut \ {o}
  BY DEF DailyPersist, JobGoes
<1>2. /\ o \in EvOrgs /\ evJob.env \in EnvironmentIds /\ DOMAIN evJob.todo \subseteq EvOrgs
      /\ evJob = [stage |-> evJob.stage, todo |-> evJob.todo, org |-> o, env |-> evJob.env]
  BY <1>1 DEF EvInv, EvJobOK
<1>3. /\ Stored(evJob.env, new, told) \in LiongardSyncResult
      /\ Stored(evJob.env, new, told).told = told
  BY <1>2, StoredIsResult
<1>4. /\ evResult' \in [EvOrgs -> LiongardSyncResult]
      /\ evResult'[o].told = told
      /\ \A p \in EvOrgs : p # o => evResult'[p] = evResult[p]
  BY <1>1, <1>2, <1>3 DEF EvInv, EvRowsOK
<1>5. new => evJob' = [stage |-> "notify", todo |-> evJob.todo, org |-> o, env |-> evJob.env]
  BY <1>1, <1>2
<1>6. ~ new => evJob' = [stage |-> "next", todo |-> evJob.todo]
  BY <1>1
<1>7. EvJobOK'
  BY <1>2, <1>5, <1>6 DEF EvJobOK
<1>8. PendingIsAnnounced'
  <2> SUFFICES ASSUME NEW p \in EvOrgs, evResult'[p].told = "not yet"
               PROVE  p \in evCut' \/ (evJob'.stage = "notify" /\ evJob'.org = p)
    BY DEF PendingIsAnnounced
  <2>1. CASE p = o
    <3>1. told = "not yet"
      BY <1>4, <2>1
    <3>2. new
      BY <3>1
    <3>3. evJob' = [stage |-> "notify", todo |-> evJob.todo, org |-> o, env |-> evJob.env]
      BY <1>5, <3>2, Zenon
    <3> QED
      BY <2>1, <3>3
  <2>2. CASE p # o
    BY <1>1, <1>4, <2>2 DEF EvInv, PendingIsAnnounced
  <2> QED
    BY <2>1, <2>2
<1>9. evJob'.stage # "pulled"
  BY <1>5, <1>6
<1> QED
  BY <1>1, <1>4, <1>7, <1>8, <1>9, DailyStep

\* The job tells somebody, or writes that there is nobody.
LEMMA DailyNotifyInv ==
    ASSUME EvInv, DailyNotify
    PROVE  EvInv'
<1> DEFINE o == evJob.org
           job == [stage |-> "next", todo |-> evJob.todo]
<1>1. /\ evJob.stage = "notify" /\ JobGoes(job) /\ evJob' = job /\ evCut' = evCut
      /\ evResult' = IF evResult[o].told = "not yet"
                     THEN [evResult EXCEPT ![o] = Announced(o)] ELSE evResult
  BY DEF DailyNotify, JobGoes
<1>2. o \in EvOrgs /\ DOMAIN evJob.todo \subseteq EvOrgs
  BY <1>1 DEF EvInv, EvJobOK
<1>3. evResult \in [EvOrgs -> LiongardSyncResult] /\ evResult[o] \in LiongardSyncResult
  BY <1>2 DEF EvInv, EvRowsOK
<1>4. Announced(o) \in LiongardSyncResult /\ Announced(o).told # "not yet"
  BY <1>3 DEF Announced, LiongardSyncResult
<1>5. /\ evResult' \in [EvOrgs -> LiongardSyncResult]
      /\ evResult'[o].told # "not yet"
      /\ \A p \in EvOrgs : p # o => evResult'[p] = evResult[p]
  BY <1>1, <1>2, <1>3, <1>4
<1>6. PendingIsAnnounced'
  BY <1>1, <1>5 DEF EvInv, PendingIsAnnounced
<1>7. EvJobOK'
  BY <1>1, <1>2 DEF EvJobOK
<1> QED
  BY <1>1, <1>5, <1>6, <1>7, DailyStep

\* The job ends or dies.
LEMMA DailyEndInv ==
    ASSUME EvInv, DailyEnd
    PROVE  EvInv'
<1>1. /\ evCut' = (IF evJob.stage = "notify" THEN evCut \cup {evJob.org} ELSE evCut)
      /\ JobGoes(JobIdle) /\ evJob' = JobIdle /\ evResult' = evResult
  BY DEF DailyEnd, JobGoes
<1>2. EvJobOK' /\ JobIdle.stage = "idle"
  BY <1>1 DEF EvJobOK, JobIdle
<1>3. PendingIsAnnounced'
  BY <1>1 DEF EvInv, PendingIsAnnounced
<1>4. evResult' \in [EvOrgs -> LiongardSyncResult]
  BY <1>1 DEF EvInv, EvRowsOK
<1> QED
  BY <1>1, <1>2, <1>3, <1>4, DailyStep

\* Every step keeps the invariant.
LEMMA EvNextInv ==
    ASSUME EvInv, [EvNext]_evVars
    PROVE  EvInv'
<1>1. CASE UNCHANGED evVars
  <2>1. UNCHANGED <<evMap, evUnique, evResult, evTxn, evJob, evCut, evOverlap>>
    BY <1>1 DEF evVars
  <2>2. EvRowsOK' /\ EvTxnsOK'
    BY <2>1 DEF EvInv, EvRowsOK, EvTxnsOK, EvTxnOK
  <2>3. EvJobOK' /\ PendingIsAnnounced'
    BY <2>1 DEF EvInv, EvJobOK, PendingIsAnnounced
  <2>4. EvAloneOK'
    BY <2>1 DEF EvInv, EvAloneOK, EvCurrent, Holders
  <2> QED
    BY <2>2, <2>3, <2>4 DEF EvInv
<1>2. CASE EvNext
  BY <1>2, EvBeginInv, SetMappingInv, DeleteMappingInv, SyncNowInv, DailyPullInv,
     DailyPersistInv, DailyNotifyInv, DailyEndInv DEF EvNext
<1> QED
  BY <1>1, <1>2

-----------------------------------------------------------------------------
(* The specification.                                                      *)

\* The inductive invariant holds in every behaviour.
THEOREM EvInvariant == EvSpec => []EvInv
BY EvInitInv, EvNextInv, PTL DEF EvSpec

\* The variables have their types, and where the database has the unique
\* constraint no two organisations share an environment (migration 0050).
THEOREM EvTypeCorrect == EvSpec => []EvTypeOK
<1>1. EvInv => EvTypeOK
  BY DEF EvInv, EvTypeOK, EvRowsOK, EvTxnsOK, EvTxnOK, EvJobOK
<1> QED
  BY <1>1, EvInvariant, PTL

\* What the daily job found and nobody decided was announced, or its lack of
\* recipients recorded, unless the job died over it
\* (sync_liongard_environments).
THEOREM PendingStaysAnnounced == EvSpec => []PendingIsAnnounced
BY EvInvariant, PTL DEF EvInv

\* A step never maps an organisation to another's environment.
LEMMA NothingSharedStep ==
    ASSUME EvInv, EvNext, NEW o \in EvOrgs, evMap'[o] \notin {0, evMap[o]}
    PROVE  \/ evOverlap /\ ~evUnique
           \/ \A p \in EvOrgs \ {o} : evMap'[p] # evMap'[o]
<1>1. evMap \in [EvOrgs -> Environment]
  BY DEF EvInv, EvRowsOK, OrgLiongardEnvironment, Environment
<1>2. ASSUME NEW p \in EvOrgs, DeleteMapping(p) PROVE FALSE
  BY <1>1, <1>2 DEF DeleteMapping
<1>3. evMap' # evMap
  OBVIOUS
<1>4. PICK q \in EvRequests : SetMapping(q)
  BY <1>2, <1>3 DEF EvNext, SetMappingBegin, SyncNowBegin, EvBegin, DailyPull, DailyPullFails,
                    SyncNowFails, SyncNow, DailyBegin, DailyNotify, DailyEnd, DailyPersist, JobGoes
<1>5. PICK a \in EvOrgs, e \in Environment :
         /\ evMap' = [evMap EXCEPT ![a] = e]
         /\ evUnique \/ ~ evOverlap => \A p \in EvOrgs \ {a} : evMap[p] # e
  BY <1>3, <1>4, SetsTheirOwn
<1>6. o = a /\ evMap'[o] = e
  BY <1>1, <1>5
<1> QED
  BY <1>1, <1>5, <1>6

\* A step stores what was pulled from the organisation's own environment.
LEMMA OwnEnvironmentStep ==
    ASSUME EvInv, EvNext, NEW o \in EvOrgs, evResult'[o].from # evResult[o].from
    PROVE  evOverlap \/ evResult'[o].from = evMap[o]
<1> SUFFICES ASSUME ~ evOverlap PROVE evResult'[o].from = evMap[o]
  OBVIOUS
<1>1. evResult' # evResult /\ evResult \in [EvOrgs -> LiongardSyncResult]
  BY DEF EvInv, EvRowsOK
<1>2. ASSUME DailyNotify PROVE FALSE
  <2>1. evJob.org \in EvOrgs
    BY <1>2 DEF DailyNotify, EvInv, EvJobOK
  <2>2. \A p \in EvOrgs : Announced(p).from = evResult[p].from
    BY <1>1 DEF Announced, LiongardSyncResult
  <2> QED
    BY <1>1, <1>2, <2>1, <2>2 DEF DailyNotify
<1>3. ASSUME NEW q \in EvRequests, NEW new \in BOOLEAN, SyncNow(q, new)
      PROVE  evResult'[o].from = evMap[o]
  <2>1. /\ evTxn[q].op = "sync" /\ evTxn[q].org \in EvOrgs /\ evTxn[q].env \in EnvironmentIds
        /\ evTxn[q].env = evMap[evTxn[q].org]
        /\ evResult' = [evResult EXCEPT ![evTxn[q].org] = Stored(evTxn[q].env, new, "asked for")]
    BY <1>3 DEF SyncNow, EvInv, EvTxnsOK, EvTxnOK, EvAloneOK, EvCurrent
  <2>2. o = evTxn[q].org
    BY <1>1, <2>1
  <2>3. Stored(evTxn[q].env, new, "asked for").from = evTxn[q].env
    BY DEF Stored
  <2> QED
    BY <1>1, <2>1, <2>2, <2>3
<1>4. ASSUME NEW new \in BOOLEAN, DailyPersist(new)
      PROVE  evResult'[o].from = evMap[o]
  <2>1. /\ evJob.stage = "pulled" /\ evJob.org \in EvOrgs /\ evJob.env \in EnvironmentIds
        /\ evJob.env = evMap[evJob.org]
        /\ evResult' = [evResult EXCEPT ![evJob.org] =
               Stored(evJob.env, new, IF new THEN "not yet" ELSE "asked for")]
    BY <1>4 DEF DailyPersist, EvInv, EvJobOK, EvAloneOK
  <2>2. o = evJob.org
    BY <1>1, <2>1
  <2>3. \A told : Stored(evJob.env, new, told).from = evJob.env
    BY DEF Stored
  <2> QED
    BY <1>1, <2>1, <2>2, <2>3
<1> QED
  BY <1>1, <1>2, <1>3, <1>4
     DEF EvNext, SetMappingBegin, SyncNowBegin, EvBegin, DeleteMapping, DailyPull, DailyPullFails,
         SetMapping, SyncNowFails, DailyBegin, DailyEnd

\* The assets of an environment reach the organisation it is mapped to and no
\* other (put_liongard_mapping, pull, sync_liongard_environments).
THEOREM EnvironmentsStayTheirs == EvSpec => EnvironmentsStayApart
<1>1. EvInv /\ [EvNext]_evVars =>
        [\A o \in EvOrgs : evMap'[o] \notin {0, evMap[o]} =>
            \/ evOverlap /\ ~evUnique
            \/ \A p \in EvOrgs \ {o} : evMap'[p] # evMap'[o]]_evVars
  BY NothingSharedStep
<1>2. EvInv /\ [EvNext]_evVars =>
        [\A o \in EvOrgs : evResult'[o].from # evResult[o].from =>
            evOverlap \/ evResult'[o].from = evMap[o]]_evVars
  BY OwnEnvironmentStep
<1>3. EvSpec => NothingIsSharedAnew
  BY <1>1, EvInvariant, PTL DEF EvSpec, NothingIsSharedAnew
<1>4. EvSpec => PullsTheOwnEnvironment
  BY <1>2, EvInvariant, PTL DEF EvSpec, PullsTheOwnEnvironment
<1> QED
  BY <1>3, <1>4 DEF EnvironmentsStayApart

-----------------------------------------------------------------------------
(* Library.                                                                *)

LibSpec == LibInit /\ [][LibNext]_libVars

Content == [Controls -> BaselineControl \cup {Absent}]

ImportTxn == [op : {"import", "seed"}, rows : Seq(Row), at : Nat, published : BOOLEAN,
              needs : BOOLEAN]
PublishTxn == [op : {"publish"}, at : Nat, published : BOOLEAN]

\* The versions are numbered 1 to the current one.  VersionsAreSequential and
\* ImportedIsConfirmed hold by it.
VersionsInv ==
    /\ libCurrent \in Nat /\ IsFiniteSet(libVersions)
    /\ VersionsAreSequential
    /\ \A v \in libVersions : v.content \in Content /\ v.via \in {"import", "seed"}
    /\ ImportedIsConfirmed
    /\ libPublished \in BOOLEAN /\ libOverlap \in BOOLEAN

\* What a request has read: a version that was current, and rows that
\* validation has passed if they are to be imported.
TxnInv ==
    /\ libTxn \in [Imports -> {LibIdle} \cup ImportTxn \cup PublishTxn]
    /\ \A i \in Imports :
           /\ libTxn[i].op # "idle" => libTxn[i].at <= libCurrent
           /\ libTxn[i].op = "publish" => libTxn[i].at > 0
           /\ libTxn[i].op = "import" => Valid(libTxn[i].rows)

\* Where requests do not overlap one is in flight, and what it has read stands.
AloneInv ==
    ~ libOverlap =>
        \A i \in Imports : libTxn[i].op # "idle" =>
            /\ libTxn[i].at = libCurrent /\ libTxn[i].published = libPublished
            /\ \A j \in Imports : j # i => libTxn[j].op = "idle"

\* Nothing is published before the first version.
PublishedInv ==
    /\ libPublished => libCurrent > 0
    /\ PublishedIsCleared

\* The preview on the screen is that of its rows and of the version it was
\* made against, however many came after it.
ScreenInv ==
    /\ libScreen.op \in {"none", "draft"}
    /\ libScreen.op = "draft" =>
        /\ libScreen.rows \in Seq(Row) /\ libScreen.at \in Nat /\ libScreen.at <= libCurrent
        /\ libScreen.valid = Valid(libScreen.rows)
        /\ libScreen.at = libCurrent => libScreen.changes = HasChanges(libScreen.rows)
    /\ ResearchNeverOverrides

LibInv == VersionsInv /\ TxnInv /\ AloneInv /\ PublishedInv /\ ScreenInv

-----------------------------------------------------------------------------

\* What the model of a list of rows says, and what validation accepts of it.

\* A row has one of the listed values in every column.
LEMMA RowParts ==
    ASSUME NEW r \in Row
    PROVE  /\ r.control \in Controls /\ r.cls \in Classifications
           /\ r.basis \in Bases \cup {"unset"} /\ r.evidence \in BOOLEAN /\ r.text \in Texts
BY DEF Row

\* A row is stored as an entry, never as none.
LEMMA EntryParts ==
    ASSUME NEW r \in Row
    PROVE  /\ Entry(r) \in BaselineControl /\ Entry(r) # Absent
           /\ Entry(r).cls = r.cls /\ Entry(r).evidence = r.evidence /\ Entry(r).text = r.text
           /\ Entry(r).basis = (IF r.basis = "unset" THEN "customer_system" ELSE r.basis)
           /\ Entry(r).chosen = (r.basis # "unset")
<1>1. Entry(r) \in BaselineControl
  BY RowParts DEF Entry, BaselineControl, Bases
<1>2. Entry(r).cls \in Classifications /\ Absent.cls \notin Classifications
  BY RowParts DEF Entry, Absent, Classifications
<1> QED
  BY <1>1, <1>2 DEF Entry

\* A list has finitely many rows of a control.
LEMMA RowsOfFinite ==
    ASSUME NEW rows \in Seq(Row), NEW c
    PROVE  IsFiniteSet(RowsOf(rows, c)) /\ \A i \in RowsOf(rows, c) : i \in Int
<1>1. RowsOf(rows, c) \subseteq 1..Len(rows) /\ Len(rows) \in Nat
  BY DEF RowsOf
<1>2. IsFiniteSet(1..Len(rows))
  BY <1>1, FS_Interval
<1> QED
  BY <1>1, <1>2, FS_Subset

\* Applying a list stores its last row of each control, and nothing for a
\* control it does not have.
LEMMA IncomingIs ==
    ASSUME NEW rows \in Seq(Row), NEW c \in Controls
    PROVE  \/ RowsOf(rows, c) = {} /\ Incoming(rows)[c] = Absent
           \/ \E i \in RowsOf(rows, c) : /\ Incoming(rows)[c] = Entry(rows[i])
                                         /\ \A j \in RowsOf(rows, c) : j <= i
<1>1. CASE RowsOf(rows, c) = {}
  BY <1>1 DEF Incoming
<1>2. CASE RowsOf(rows, c) # {}
  <2>2. IsFiniteSet(RowsOf(rows, c)) /\ \A i \in RowsOf(rows, c) : i \in Int
    BY RowsOfFinite
  <2>3. PICK x \in RowsOf(rows, c) : \A j \in RowsOf(rows, c) : x >= j
    BY <1>2, <2>2, HighestExists
  <2>4. \A j \in RowsOf(rows, c) : j <= x
    BY <2>2, <2>3
  <2> DEFINE last == CHOOSE i \in RowsOf(rows, c) : \A j \in RowsOf(rows, c) : j <= i
  <2>5. last \in RowsOf(rows, c) /\ \A j \in RowsOf(rows, c) : j <= last
    BY <2>4
  <2>6. Incoming(rows)[c] = Entry(rows[last])
    BY <1>2 DEF Incoming
  <2> QED
    BY <2>5, <2>6
<1> QED
  BY <1>1, <1>2

\* The rows of a control are rows of the list.
LEMMA RowsOfAre ==
    ASSUME NEW rows \in Seq(Row), NEW c \in Controls, NEW i \in RowsOf(rows, c)
    PROVE  i \in DOMAIN rows /\ i \in 1..Len(rows) /\ rows[i] \in Row /\ rows[i].control = c
<1>1. i \in DOMAIN rows /\ rows[i].control = c
  BY DEF RowsOf
<1> QED
  BY <1>1

\* Applying a list gives every control an entry or none.
LEMMA IncomingContent ==
    ASSUME NEW rows \in Seq(Row)
    PROVE  Incoming(rows) \in Content
<1>1. ASSUME NEW c \in Controls PROVE Incoming(rows)[c] \in BaselineControl \cup {Absent}
  BY IncomingIs, RowsOfAre, EntryParts
<1>2. Incoming(rows) = [c \in Controls |-> Incoming(rows)[c]]
  BY DEF Incoming
<1> QED
  BY <1>1, <1>2 DEF Content

\* The entries of a list that passes validation are confirmed.
LEMMA ValidIsConfirmed ==
    ASSUME NEW rows \in Seq(Row), Valid(rows), NEW c \in Controls,
           Incoming(rows)[c] # Absent
    PROVE  /\ Incoming(rows)[c].cls # "customer_owns" => Incoming(rows)[c].chosen
           /\ Incoming(rows)[c].cls = "customer_owns" => ~ Incoming(rows)[c].evidence
<1>1. PICK i \in RowsOf(rows, c) : Incoming(rows)[c] = Entry(rows[i])
  BY IncomingIs
<1>2. i \in DOMAIN rows /\ rows[i] \in Row
  BY RowsOfAre
<1>3. /\ rows[i].cls # "customer_owns" => rows[i].basis # "unset"
      /\ rows[i].cls = "customer_owns" => ~ rows[i].evidence
  BY <1>2 DEF Valid
<1> QED
  BY <1>1, <1>2, <1>3, EntryParts

-----------------------------------------------------------------------------

\* The merge of documents and pages.

\* What the provider's answer becomes is still a list of rows.
LEMMA MinimizedIsARow ==
    ASSUME NEW r \in Row
    PROVE  Minimized(r) \in Row /\ Minimized(r) # Absent
<1>1. Minimized(r) \in Row
  BY DEF Minimized, Row
<1>2. Minimized(r).cls \in Classifications /\ Absent.cls \notin Classifications
  BY <1>1 DEF Row, Absent, Classifications
<1> QED
  BY <1>1, <1>2

\* The rows read from a document are rows.
LEMMA ParsedIsRows ==
    ASSUME NEW answer \in Seq(Row)
    PROVE  ParseControls(answer) \in Seq(Row)
<1>1. DOMAIN answer = 1..Len(answer) /\ Len(answer) \in Nat
  OBVIOUS
<1>2. \A i \in 1..Len(answer) : Minimized(answer[i]) \in Row
  BY MinimizedIsARow
<1> QED
  BY <1>1, <1>2, IsASeq DEF ParseControls

\* Those read from a page are rows or left out.
LEMMA WebIsRows ==
    ASSUME NEW answer \in Seq(Row)
    PROVE  ParseWebControls(answer) \in Seq(Row \cup {Absent})
<1>1. DOMAIN answer = 1..Len(answer) /\ Len(answer) \in Nat
  OBVIOUS
<1> DEFINE parsed(i) == IF answer[i].cls = "customer_owns" THEN Absent ELSE Minimized(answer[i])
<1>2. \A i \in 1..Len(answer) : parsed(i) \in Row \cup {Absent}
  BY MinimizedIsARow
<1>3. [i \in 1..Len(answer) |-> parsed(i)] \in Seq(Row \cup {Absent})
  <2> HIDE DEF parsed
  <2> QED
    BY <1>1, <1>2, IsASeq
<1> QED
  BY <1>1, <1>3 DEF ParseWebControls

\* The merge after n rows of the pages.
Start(primary) == [rows |-> primary, flags |-> {}]

IsMerging(g, primary, web, n) ==
    g = [k \in 0..n |-> IF k = 0 THEN Start(primary) ELSE MergeRow(g[k - 1], web[k])]

\* There is such a merge: the function that Merging chooses, by induction over
\* the pages' rows.
LEMMA MergingExists ==
    ASSUME NEW primary, NEW web, NEW n \in Nat
    PROVE  \E g : IsMerging(g, primary, web, n)
<1> DEFINE T == {k \in 0..n : \E g : IsMerging(g, primary, web, k)}
<1>1. 0 \in T
  <2>1. IsMerging([k \in 0..0 |-> Start(primary)], primary, web, 0)
    BY DEF IsMerging
  <2> QED
    BY <2>1
<1>2. ASSUME NEW m \in 1..n, m - 1 \in T PROVE m \in T
  <2>1. PICK g : IsMerging(g, primary, web, m - 1)
    BY <1>2
  <2> DEFINE h == [k \in 0..m |-> IF k = m THEN MergeRow(g[m - 1], web[m]) ELSE g[k]]
  <2>2. ASSUME NEW k \in 0..m
        PROVE  h[k] = IF k = 0 THEN Start(primary) ELSE MergeRow(h[k - 1], web[k])
    <3>1. CASE k = m
      <4>1. k # 0 /\ k - 1 \in 0..m /\ k - 1 # m
        BY <3>1
      <4> QED
        BY <3>1, <4>1
    <3>2. CASE k # m
      <4>1. h[k] = g[k] /\ k \in 0..(m - 1)
        BY <3>2
      <4>2. g[k] = IF k = 0 THEN Start(primary) ELSE MergeRow(g[k - 1], web[k])
        BY <2>1, <4>1 DEF IsMerging
      <4>3. k # 0 => h[k - 1] = g[k - 1]
        BY <3>2
      <4> QED
        BY <4>1, <4>2, <4>3
    <3> QED
      BY <3>1, <3>2
  <2>3. IsMerging(h, primary, web, m)
    <3>1. h = [k \in 0..m |-> h[k]]
      OBVIOUS
    <3>2. [k \in 0..m |-> h[k]]
          = [k \in 0..m |-> IF k = 0 THEN Start(primary) ELSE MergeRow(h[k - 1], web[k])]
      <4> HIDE DEF h
      <4> QED
        BY <2>2
    <3> HIDE DEF h
    <3> QED
      BY <3>1, <3>2 DEF IsMerging
  <2> QED
    BY <2>3
<1>3. \A k \in 0..n : k \in T
  <2> HIDE DEF T
  <2> QED
    BY <1>1, <1>2, StepByStep
<1> QED
  BY <1>3

\* The loop of merge_research, row by row.
LEMMA MergingIs ==
    ASSUME NEW primary, NEW web \in Seq(Row \cup {Absent})
    PROVE  /\ Merging(primary, web)[0] = Start(primary)
           /\ \A n \in 1..Len(web) :
                  Merging(primary, web)[n] = MergeRow(Merging(primary, web)[n - 1], web[n])
<1>1. Len(web) \in Nat
  OBVIOUS
<1>2. Merging(primary, web) = CHOOSE g : IsMerging(g, primary, web, Len(web))
  BY DEF Merging, IsMerging, Start
<1>3. IsMerging(Merging(primary, web), primary, web, Len(web))
  BY <1>1, <1>2, MergingExists
<1> QED
  BY <1>1, <1>3 DEF IsMerging

\* After any row of the pages, the rows of the documents stand where they stood
\* and no other row is about a control of theirs.
Keeps(primary, acc) ==
    /\ acc.rows \in Seq(Row) /\ Len(primary) <= Len(acc.rows)
    /\ \A i \in 1..Len(primary) : acc.rows[i] = primary[i]
    /\ \A i \in 1..Len(acc.rows) :
           i > Len(primary) => RowsOf(primary, acc.rows[i].control) = {}

\* One row more, whether it is new, agrees, or contradicts, keeps it so.
LEMMA MergeRowKeeps ==
    ASSUME NEW primary \in Seq(Row), NEW acc, Keeps(primary, acc),
           acc = [rows |-> acc.rows, flags |-> acc.flags],
           NEW r \in Row \cup {Absent}
    PROVE  /\ Keeps(primary, MergeRow(acc, r))
           /\ MergeRow(acc, r) = [rows |-> MergeRow(acc, r).rows, flags |-> MergeRow(acc, r).flags]
<1> DEFINE have == RowsOf(acc.rows, r.control)
           first == CHOOSE i \in have : \A j \in have : i <= j
<1>1. CASE MergeRow(acc, r).rows = acc.rows
           /\ MergeRow(acc, r) = [rows |-> MergeRow(acc, r).rows, flags |-> MergeRow(acc, r).flags]
  BY <1>1 DEF Keeps
<1>2. CASE r # Absent /\ have = {}
  <2>1. MergeRow(acc, r) = [acc EXCEPT !.rows = Append(acc.rows, r)]
    BY <1>2 DEF MergeRow
  <2>2. MergeRow(acc, r) = [rows |-> Append(acc.rows, r), flags |-> acc.flags]
    BY <2>1
  <2> DEFINE new == Append(acc.rows, r)
  <2>3. /\ acc.rows \in Seq(Row) /\ r \in Row
        /\ Len(primary) \in Nat /\ Len(acc.rows) \in Nat /\ Len(primary) <= Len(acc.rows)
    BY <1>2 DEF Keeps
  <2>4. /\ new \in Seq(Row) /\ Len(new) = Len(acc.rows) + 1
        /\ \A i \in 1..Len(acc.rows) : new[i] = acc.rows[i]
        /\ new[Len(acc.rows) + 1] = r
    BY <2>3, AppendProperties
  <2>5. RowsOf(primary, r.control) = {}
    <3>1. SUFFICES ASSUME NEW i \in DOMAIN primary, primary[i].control = r.control PROVE FALSE
      BY DEF RowsOf
    <3>2. i \in 1..Len(primary) /\ i \in DOMAIN acc.rows /\ acc.rows[i] = primary[i]
      BY <2>3 DEF Keeps
    <3> QED
      BY <1>2, <3>1, <3>2 DEF RowsOf
  <2>6. \A i \in 1..Len(primary) : new[i] = primary[i]
    BY <2>3, <2>4 DEF Keeps
  <2>7. ASSUME NEW i \in 1..Len(new), i > Len(primary)
        PROVE  RowsOf(primary, new[i].control) = {}
    <3>1. CASE i = Len(acc.rows) + 1
      BY <2>4, <2>5, <3>1
    <3>2. CASE i # Len(acc.rows) + 1
      <4>1. i \in 1..Len(acc.rows)
        BY <2>3, <2>4, <3>2
      <4> QED
        BY <2>4, <2>7, <4>1 DEF Keeps
    <3> QED
      BY <3>1, <3>2
  <2>8. Len(primary) <= Len(new)
    BY <2>3, <2>4
  <2> HIDE DEF new
  <2>9. Keeps(primary, [rows |-> new, flags |-> acc.flags])
    BY <2>4, <2>6, <2>7, <2>8 DEF Keeps
  <2>10. MergeRow(acc, r) = [rows |-> new, flags |-> acc.flags]
    BY <2>2 DEF new
  <2> QED
    BY <2>9, <2>10
<1>3. CASE r = Absent \/ have # {}
  <2>1. \/ MergeRow(acc, r) = acc
        \/ MergeRow(acc, r) = [acc EXCEPT !.flags = acc.flags \cup {first}]
    BY <1>3 DEF MergeRow
  <2>2. /\ MergeRow(acc, r).rows = acc.rows
        /\ MergeRow(acc, r) = [rows |-> MergeRow(acc, r).rows, flags |-> MergeRow(acc, r).flags]
    <3>1. CASE MergeRow(acc, r) = acc
      BY <3>1
    <3>2. CASE MergeRow(acc, r) = [acc EXCEPT !.flags = acc.flags \cup {first}]
      <4> DEFINE f == acc.flags \cup {first}
      <4>1. MergeRow(acc, r) = [acc EXCEPT !.flags = f]
        BY <3>2
      <4> HIDE DEF f
      <4>2. MergeRow(acc, r) = [rows |-> acc.rows, flags |-> f]
        BY <4>1
      <4> QED
        BY <4>2
    <3> QED
      BY <2>1, <3>1, <3>2
  <2> QED
    BY <1>1, <2>2
<1> QED
  BY <1>2, <1>3

\* What the documents say of a control is what the merged list says of it.
LEMMA MergeResearchKeeps ==
    ASSUME NEW primary \in Seq(Row), NEW web \in Seq(Row \cup {Absent})
    PROVE  /\ MergeResearch(primary, web).rows \in Seq(Row)
           /\ \A c \in Controls : Incoming(primary)[c] # Absent =>
                  Incoming(MergeResearch(primary, web).rows)[c] = Incoming(primary)[c]
<1> DEFINE g == Merging(primary, web)
           Kept(acc) == Keeps(primary, acc) /\ acc = [rows |-> acc.rows, flags |-> acc.flags]
           T == {n \in 0..Len(web) : Kept(g[n])}
<1>1. Len(web) \in Nat /\ Len(primary) \in Nat
  OBVIOUS
<1>2. 0 \in T
  <2>1. g[0] = Start(primary)
    BY MergingIs
  <2>2. Kept(Start(primary))
    BY <1>1 DEF Keeps, Start
  <2> QED
    BY <1>1, <2>1, <2>2
<1>3. ASSUME NEW n \in 1..Len(web), n - 1 \in T PROVE n \in T
  <2>1. g[n] = MergeRow(g[n - 1], web[n]) /\ web[n] \in Row \cup {Absent}
    BY MergingIs
  <2>2. Kept(g[n - 1])
    BY <1>3
  <2>3. Kept(MergeRow(g[n - 1], web[n]))
    <3> HIDE DEF g
    <3> QED
      BY <2>1, <2>2, MergeRowKeeps
  <2> QED
    BY <1>1, <2>1, <2>3
<1>4. \A n \in 0..Len(web) : n \in T
  <2> HIDE DEF T
  <2> QED
    BY <1>1, <1>2, <1>3, StepByStep
<1> DEFINE all == MergeResearch(primary, web).rows
<1>8. Len(web) \in T
  <2> HIDE DEF T
  <2> QED
    BY <1>1, <1>4
<1>5. Keeps(primary, MergeResearch(primary, web))
  <2>1. Keeps(primary, g[Len(web)])
    BY <1>8
  <2> QED
    BY <2>1 DEF MergeResearch
<1>6. all \in Seq(Row)
  BY <1>5 DEF Keeps
<1>7. ASSUME NEW c \in Controls, Incoming(primary)[c] # Absent
      PROVE  Incoming(all)[c] = Incoming(primary)[c]
  <2>1. PICK i \in RowsOf(primary, c) :
            Incoming(primary)[c] = Entry(primary[i]) /\ \A j \in RowsOf(primary, c) : j <= i
    BY <1>7, IncomingIs
  <2>2. RowsOf(all, c) = RowsOf(primary, c)
    <3>1. ASSUME NEW j \in RowsOf(all, c) PROVE j \in RowsOf(primary, c)
      <4>1. j \in 1..Len(all) /\ all[j].control = c
        BY <1>6, RowsOfAre
      <4>2. ~ (j > Len(primary))
        BY <1>5, <2>1, <4>1 DEF Keeps
      <4>3. j \in 1..Len(primary) /\ all[j] = primary[j]
        BY <1>1, <1>5, <4>1, <4>2 DEF Keeps
      <4> QED
        BY <4>1, <4>3 DEF RowsOf
    <3>2. ASSUME NEW j \in RowsOf(primary, c) PROVE j \in RowsOf(all, c)
      <4>1. j \in 1..Len(primary) /\ primary[j].control = c
        BY RowsOfAre
      <4>2. all[j] = primary[j] /\ j \in DOMAIN all
        BY <1>1, <1>5, <1>6, <4>1 DEF Keeps
      <4> QED
        BY <4>1, <4>2 DEF RowsOf
    <3> QED
      BY <3>1, <3>2
  <2>3. PICK k \in RowsOf(all, c) :
            Incoming(all)[c] = Entry(all[k]) /\ \A j \in RowsOf(all, c) : j <= k
    BY <1>6, <2>1, <2>2, IncomingIs
  <2>4. k \in 1..Len(primary) /\ i \in 1..Len(primary)
    BY <2>2, RowsOfAre
  <2>5. k = i
    <3>1. k <= i /\ i <= k
      BY <2>1, <2>2, <2>3
    <3> QED
      BY <2>4, <3>1
  <2>6. all[k] = primary[i]
    BY <1>5, <2>4, <2>5 DEF Keeps
  <2> QED
    BY <2>1, <2>3, <2>6
<1> HIDE DEF all
<1> QED
  BY <1>6, <1>7 DEF all

-----------------------------------------------------------------------------

\* The preview.

\* Two rows, as stored, are the same to the comparison exactly if the preview
\* finds no difference, unless a text is empty.
LEMMA DiffersAgrees ==
    ASSUME NEW old \in BaselineControl, NEW r \in Row,
           old.text # "empty", r.text # "empty",
           r.cls # "customer_owns" => r.basis # "unset"
    PROVE  Differs(old, r) <=> Signature(old) # Signature(Entry(r))
<1>1. Entry(r) # Absent /\ old # Absent
  <2>1. old.cls \in Classifications /\ Absent.cls \notin Classifications
    BY DEF BaselineControl, Absent, Classifications
  <2> QED
    BY <2>1, EntryParts
<1>2. Signature(old) = [cls |-> old.cls, basis |-> old.basis, evidence |-> old.evidence,
                        text |-> old.text]
  BY <1>1 DEF Signature
<1>3. Signature(Entry(r)) = [cls |-> r.cls, basis |-> Entry(r).basis, evidence |-> r.evidence,
                             text |-> r.text]
  BY <1>1, EntryParts DEF Signature
<1>4. Entry(r).basis = PreviewBasis(r)
  BY EntryParts DEF PreviewBasis
<1>5. Or(old.text) = old.text /\ Or(r.text) = r.text
  BY DEF Or
<1>6. Signature(old) = Signature(Entry(r)) <=>
          /\ old.cls = r.cls /\ old.basis = PreviewBasis(r)
          /\ old.evidence = r.evidence /\ old.text = r.text
  BY <1>2, <1>3, <1>4
<1> QED
  BY <1>5, <1>6 DEF Differs

\* An entry is never signed as none.
LEMMA SignatureIsSome ==
    ASSUME NEW e \in BaselineControl
    PROVE  Signature(e) # Absent /\ e # Absent
<1>1. e.cls \in Classifications /\ Absent.cls \notin Classifications
  BY DEF BaselineControl, Absent, Classifications
<1>2. e # Absent
  BY <1>1
<1>3. Signature(e).cls = e.cls
  BY <1>2 DEF Signature
<1> QED
  BY <1>1, <1>2, <1>3

\* What is stored in the current version is an entry or none for every control.
LEMMA ExistingContent ==
    ASSUME VersionsInv, libCurrent # 0
    PROVE  \E v \in libVersions : /\ v.number = libCurrent /\ v.content \in Content
                                /\ Existing(libVersions, libCurrent) = v.content
<1>1. libCurrent \in {v.number : v \in libVersions}
  BY DEF VersionsInv, VersionsAreSequential
<1>2. PICK w \in libVersions : w.number = libCurrent
  BY <1>1
<1> DEFINE last == CHOOSE v \in libVersions : v.number = libCurrent
<1>3. last \in libVersions /\ last.number = libCurrent
  BY <1>2
<1>4. Existing(libVersions, libCurrent) = last.content
  BY DEF Existing
<1> QED
  BY <1>3, <1>4 DEF VersionsInv

\* The preview finds a change exactly where applying the rows stores a version.
LEMMA PreviewAgrees ==
    ASSUME VersionsInv, NEW rows \in Seq(Row), Valid(rows),
           \A c \in Controls : Cardinality(RowsOf(rows, c)) <= 1,
           \A i \in DOMAIN rows : rows[i].text # "empty",
           \A v \in libVersions, c \in Controls :
               v.content[c] = Absent \/ v.content[c].text # "empty"
    PROVE  HasChanges(rows) <=> NeedsVersion(rows, libCurrent)
<1>1. CASE libCurrent = 0
  BY <1>1 DEF HasChanges, NeedsVersion
<1>2. CASE libCurrent # 0
  <2> DEFINE old == Existing(libVersions, libCurrent)
             new == Incoming(rows)
             Found(c) == \/ \E i \in RowsOf(rows, c) : old[c] = Absent \/ Differs(old[c], rows[i])
                         \/ old[c] # Absent /\ RowsOf(rows, c) = {}
  <2>1. ASSUME NEW c \in Controls
        PROVE  /\ old[c] \in BaselineControl \cup {Absent}
               /\ old[c] = Absent \/ old[c].text # "empty"
    BY <1>2, ExistingContent DEF Content
  <2>2. ASSUME NEW c \in Controls
        PROVE  Found(c) <=> Signature(old[c]) # Signature(new[c])
    <3>1. CASE RowsOf(rows, c) = {}
      <4>1. new[c] = Absent
        BY <3>1 DEF Incoming
      <4>2. Signature(new[c]) = Absent
        BY <4>1 DEF Signature
      <4>3. Signature(old[c]) = Absent <=> old[c] = Absent
        BY <2>1, SignatureIsSome DEF Signature
      <4> QED
        BY <3>1, <4>2, <4>3
    <3>2. CASE RowsOf(rows, c) # {}
      <4>1. PICK i \in RowsOf(rows, c) : new[c] = Entry(rows[i])
        BY <3>2, IncomingIs
      <4>2. rows[i] \in Row /\ i \in DOMAIN rows
        BY RowsOfAre
      <4>3. \A j \in RowsOf(rows, c) : j = i
        <5>2. IsFiniteSet(RowsOf(rows, c))
          BY RowsOfFinite
        <5>3. Cardinality(RowsOf(rows, c)) <= 1
          OBVIOUS
        <5>4. ASSUME NEW j \in RowsOf(rows, c), j # i PROVE FALSE
          <6>1. IsFiniteSet({i, j}) /\ Cardinality({i, j}) = 2
            <7>1. IsFiniteSet({i}) /\ Cardinality({i}) = 1
              BY FS_Singleton
            <7>2. IsFiniteSet({i} \cup {j}) /\ Cardinality({i} \cup {j}) = Cardinality({i}) + 1
              BY <5>4, <7>1, FS_AddElement
            <7>3. {i} \cup {j} = {i, j}
              OBVIOUS
            <7> QED
              BY <7>1, <7>2, <7>3
          <6>2. {i, j} \subseteq RowsOf(rows, c)
            BY <5>4
          <6>3. Cardinality({i, j}) <= Cardinality(RowsOf(rows, c))
            BY <5>2, <6>2, FS_Subset
          <6>4. Cardinality(RowsOf(rows, c)) \in Nat
            BY <5>2, FS_CardinalityType
          <6> QED
            BY <5>3, <6>1, <6>3, <6>4
        <5> QED
          BY <5>4
      <4>4. Found(c) <=> old[c] = Absent \/ Differs(old[c], rows[i])
        BY <3>2, <4>3
      <4>5. CASE old[c] = Absent
        <5>1. Signature(old[c]) = Absent
          BY <4>5 DEF Signature
        <5>2. Signature(new[c]) # Absent
          BY <4>1, <4>2, EntryParts, SignatureIsSome
        <5> QED
          BY <4>4, <4>5, <5>1, <5>2
      <4>6. CASE old[c] # Absent
        <5>1. rows[i].text # "empty" /\ (rows[i].cls # "customer_owns" => rows[i].basis # "unset")
          BY <4>2 DEF Valid
        <5>2. old[c] \in BaselineControl /\ old[c].text # "empty"
          BY <2>1, <4>6
        <5>3. Differs(old[c], rows[i]) <=> Signature(old[c]) # Signature(Entry(rows[i]))
          BY <4>2, <5>1, <5>2, DiffersAgrees
        <5> QED
          BY <4>1, <4>4, <4>6, <5>3
      <4> QED
        BY <4>5, <4>6
    <3> QED
      BY <3>1, <3>2
  <2>3. HasChanges(rows) <=> \E c \in Controls : Found(c)
    <3>1. ASSUME NEW i \in DOMAIN rows
          PROVE  rows[i].control \in Controls /\ i \in RowsOf(rows, rows[i].control)
      <4>1. rows[i] \in Row
        OBVIOUS
      <4> QED
        BY <4>1, RowParts DEF RowsOf
    <3>2. \A c \in Controls : \A i \in RowsOf(rows, c) : i \in DOMAIN rows /\ rows[i].control = c
      BY DEF RowsOf
    <3>3. HasChanges(rows) <=>
              \/ \E i \in DOMAIN rows : old[rows[i].control] = Absent
                                       \/ Differs(old[rows[i].control], rows[i])
              \/ \E c \in Controls : old[c] # Absent /\ RowsOf(rows, c) = {}
      BY <1>2 DEF HasChanges
    <3> HIDE DEF old
    <3> QED
      BY <3>1, <3>2, <3>3
  <2>4. NeedsVersion(rows, libCurrent) <=> \E c \in Controls : Signature(old[c]) # Signature(new[c])
    BY <1>2 DEF NeedsVersion
  <2> HIDE DEF Found, old, new
  <2> QED
    BY <2>2, <2>3, <2>4
<1> QED
  BY <1>1, <1>2

\* PreviewTells follows from what holds of the screen.
LEMMA PreviewFollows ==
    ASSUME VersionsInv, ScreenInv
    PROVE  PreviewTells
<1>1. SUFFICES ASSUME libScreen.op = "draft", libScreen.at = libCurrent, libScreen.valid,
                      \A c \in Controls : Cardinality(RowsOf(libScreen.rows, c)) <= 1,
                      \A i \in DOMAIN libScreen.rows : libScreen.rows[i].text # "empty",
                      \A v \in libVersions, c \in Controls :
                          v.content[c] = Absent \/ v.content[c].text # "empty"
               PROVE  libScreen.changes = NeedsVersion(libScreen.rows, libCurrent)
  BY DEF PreviewTells
<1>2. libScreen.rows \in Seq(Row) /\ Valid(libScreen.rows)
  BY <1>1 DEF ScreenInv
<1>3. libScreen.changes = HasChanges(libScreen.rows)
  BY <1>1 DEF ScreenInv
<1>4. HasChanges(libScreen.rows) <=> NeedsVersion(libScreen.rows, libCurrent)
  BY <1>1, <1>2, PreviewAgrees
<1>5. HasChanges(libScreen.rows) \in BOOLEAN /\ NeedsVersion(libScreen.rows, libCurrent) \in BOOLEAN
  BY ZenonT(10) DEF HasChanges, NeedsVersion
<1> QED
  BY <1>3, <1>4, <1>5

-----------------------------------------------------------------------------

\* The steps.

\* The library's own state at the start.
LEMMA LibInitInv == LibInit => LibInv
<1> SUFFICES ASSUME LibInit PROVE LibInv
  OBVIOUS
<1>1. IsFiniteSet({}) /\ Cardinality({}) = 0
  BY FS_EmptySet
<1>2. VersionsInv
  <2>1. {v.number : v \in libVersions} = 1..libCurrent
    BY DEF LibInit
  <2>2. libCurrent = Cardinality(libVersions)
    BY <1>1 DEF LibInit
  <2>3. VersionsAreSequential
    BY <2>1, <2>2 DEF VersionsAreSequential
  <2>4. libVersions = {} /\ libCurrent = 0 /\ libPublished = FALSE /\ libOverlap \in BOOLEAN
    BY DEF LibInit
  <2>5. ImportedIsConfirmed
    BY <2>4 DEF ImportedIsConfirmed
  <2> QED
    BY <1>1, <2>3, <2>4, <2>5 DEF VersionsInv
<1>3. TxnInv /\ AloneInv
  BY DEF LibInit, TxnInv, AloneInv, LibIdle
<1>4. PublishedInv
  BY DEF LibInit, PublishedInv, PublishedIsCleared
<1>5. ScreenInv
  BY DEF LibInit, ScreenInv, NoScreen, ResearchNeverOverrides
<1> QED
  BY <1>2, <1>3, <1>4, <1>5 DEF LibInv

libCore == <<libVersions, libCurrent, libPublished, libTxn, libCleared, libOverlap>>

\* What does not touch the versions or the requests changes the screen at most.
LEMMA CoreStands ==
    ASSUME LibInv, UNCHANGED libCore, ScreenInv'
    PROVE  LibInv'
<1>1. VersionsInv'
  BY DEF LibInv, libCore, VersionsInv, VersionsAreSequential, ImportedIsConfirmed
<1>2. TxnInv'
  BY DEF LibInv, libCore, TxnInv
<1>3. AloneInv'
  BY DEF LibInv, libCore, AloneInv
<1>4. PublishedInv'
  BY DEF LibInv, libCore, PublishedInv, PublishedIsCleared
<1> QED
  BY <1>1, <1>2, <1>3, <1>4 DEF LibInv

\* The screen stands as long as the versions do.
LEMMA ScreenStands ==
    ASSUME ScreenInv, UNCHANGED <<libScreen, libVersions, libCurrent>>
    PROVE  ScreenInv'
BY DEF ScreenInv, HasChanges, ResearchNeverOverrides

\* A preview that was just made is that of the current version.
LEMMA ShowPreview ==
    ASSUME LibInv, NEW rows \in Seq(Row), NEW crm, NEW flags,
           \A c \in Controls : crm[c] # Absent => Incoming(rows)[c] = crm[c],
           Show(BuildPreview(rows, crm, flags))
    PROVE  LibInv'
<1>1. /\ libScreen' = BuildPreview(rows, crm, flags)
      /\ UNCHANGED libCore
  BY DEF Show, libCore
<1>2. /\ libScreen'.op = "draft" /\ libScreen'.rows = rows /\ libScreen'.crm = crm
      /\ libScreen'.valid = Valid(rows) /\ libScreen'.changes = HasChanges(rows)
      /\ libScreen'.at = libCurrent
  BY <1>1 DEF BuildPreview
<1>3. libCurrent \in Nat
  BY DEF LibInv, VersionsInv
<1>4. (HasChanges(rows))' = HasChanges(rows)
  BY <1>1 DEF HasChanges, libCore
<1>5. HasChanges(libScreen.rows)' = HasChanges(rows)
  BY <1>1, <1>2 DEF HasChanges, libCore
<1>6. ResearchNeverOverrides'
  BY <1>2 DEF ResearchNeverOverrides
<1>7. ScreenInv'
  BY <1>1, <1>2, <1>3, <1>5, <1>6 DEF ScreenInv, libCore
<1> QED
  BY <1>1, <1>7, CoreStands

\* Every way a draft reaches the screen.
LEMMA PreviewStep ==
    ASSUME LibInv,
           \/ \E rows \in Files : ImportDryRun(rows)
           \/ \E file \in Files, i, k \in 1..2 :
                  k \in DOMAIN file /\ ImportDryRunStructured(i, file[k])
           \/ \E answer \in Answers : ImportFromDocuments(answer)
           \/ \E answer, web \in Answers : ImportWithResearch(answer, web)
    PROVE  LibInv'
<1> DEFINE none == [c \in Controls |-> Absent]
<1>1. CASE \E rows \in Files : ImportDryRun(rows)
  <2>1. PICK rows \in Files : Show(BuildPreview(rows, none, {}))
    BY <1>1 DEF ImportDryRun
  <2>2. rows \in Seq(Row)
    BY RowsAssumption
  <2> QED
    BY <2>1, <2>2, ShowPreview
<1>2. CASE \E file \in Files, i, k \in 1..2 :
               k \in DOMAIN file /\ ImportDryRunStructured(i, file[k])
  <2>1. PICK file \in Files, i \in 1..2, k \in 1..2 :
            k \in DOMAIN file /\ ImportDryRunStructured(i, file[k])
    BY <1>2
  <2> DEFINE new == [libScreen.rows EXCEPT ![i] = file[k]]
  <2>2. file[k] \in Row
    BY <2>1, RowsAssumption
  <2>3. libScreen.rows \in Seq(Row) /\ i \in DOMAIN libScreen.rows
    BY <2>1 DEF ImportDryRunStructured, LibInv, ScreenInv
  <2>4. new \in Seq(Row)
    BY <2>2, <2>3, ExceptSeq
  <2>5. Show(BuildPreview(new, none, {}))
    BY <2>1 DEF ImportDryRunStructured
  <2>6. \A c \in Controls : none[c] = Absent
    OBVIOUS
  <2> HIDE DEF new, none
  <2> QED
    BY <2>4, <2>5, <2>6, ShowPreview
<1>3. CASE \E answer \in Answers : ImportFromDocuments(answer)
  <2>1. PICK answer \in Answers : ImportFromDocuments(answer)
    BY <1>3
  <2> DEFINE rows == ParseControls(answer)
  <2>2. Show(BuildPreview(rows, Incoming(rows), {}))
    BY <2>1 DEF ImportFromDocuments, IngestDocument
  <2>3. rows \in Seq(Row)
    BY RowsAssumption, ParsedIsRows
  <2> HIDE DEF rows
  <2> QED
    BY <2>2, <2>3, ShowPreview
<1>4. CASE \E answer, web \in Answers : ImportWithResearch(answer, web)
  <2>1. PICK answer \in Answers, web \in Answers : ImportWithResearch(answer, web)
    BY <1>4
  <2> DEFINE rows == ParseControls(answer)
             pages == ParseWebControls(web)
             all == MergeResearch(rows, pages)
  <2>2. Show(BuildPreview(all.rows, Incoming(rows), all.flags))
    BY <2>1 DEF ImportWithResearch, IngestDocument
  <2>3. rows \in Seq(Row) /\ pages \in Seq(Row \cup {Absent})
    BY RowsAssumption, ParsedIsRows, WebIsRows
  <2> HIDE DEF rows, pages
  <2>4. /\ all.rows \in Seq(Row)
        /\ \A c \in Controls :
               Incoming(rows)[c] # Absent => Incoming(all.rows)[c] = Incoming(rows)[c]
    BY <2>3, MergeResearchKeeps
  <2> HIDE DEF all
  <2> QED
    BY <2>2, <2>4, ShowPreview
<1> QED
  BY <1>1, <1>2, <1>3, <1>4

\* Pages come and go, and the screen stays.
LEMMA PagesStep ==
    ASSUME LibInv, NEW u \in Urls, FetchResearchUrl(u) \/ DeleteDocument(u)
    PROVE  LibInv'
<1>1. UNCHANGED libCore /\ UNCHANGED libScreen
  BY DEF FetchResearchUrl, DeleteDocument, libCore
<1>2. ScreenInv'
  BY <1>1, ScreenStands DEF LibInv, libCore
<1> QED
  BY <1>1, <1>2, CoreStands

-----------------------------------------------------------------------------

\* A request begins: alone, unless requests overlap.
LEMMA LibBeginStep ==
    ASSUME LibInv, NEW i \in Imports, NEW read \in ImportTxn \cup PublishTxn,
           read.at = libCurrent, read.published = libPublished,
           read.op = "publish" => read.at > 0,
           read.op = "import" => Valid(read.rows),
           LibBegin(i, read)
    PROVE  LibInv'
<1>1. /\ libTxn' = [libTxn EXCEPT ![i] = read]
      /\ libTxn \in [Imports -> {LibIdle} \cup ImportTxn \cup PublishTxn]
      /\ libOverlap \/ \A j \in Imports : libTxn[j] = LibIdle
      /\ UNCHANGED <<libVersions, libCurrent, libPublished, libScreen, libCleared, libOverlap>>
  BY DEF LibBegin, LibInv, TxnInv
<1>2. /\ libTxn'[i] = read
      /\ \A j \in Imports : j # i => libTxn'[j] = libTxn[j]
      /\ libTxn' \in [Imports -> {LibIdle} \cup ImportTxn \cup PublishTxn]
  BY <1>1
<1>3. VersionsInv'
  BY <1>1 DEF LibInv, VersionsInv, VersionsAreSequential, ImportedIsConfirmed
<1>4. TxnInv'
  <2>1. libCurrent \in Nat
    BY DEF LibInv, VersionsInv
  <2>2. ASSUME NEW j \in Imports
        PROVE  /\ libTxn'[j].op # "idle" => libTxn'[j].at <= libCurrent
               /\ libTxn'[j].op = "publish" => libTxn'[j].at > 0
               /\ libTxn'[j].op = "import" => Valid(libTxn'[j].rows)
    <3>1. CASE j = i
      BY <1>2, <2>1, <3>1
    <3>2. CASE j # i
      BY <1>2, <3>2 DEF LibInv, TxnInv
    <3> QED
      BY <3>1, <3>2
  <2> QED
    BY <1>1, <1>2, <2>2 DEF TxnInv
<1>5. AloneInv'
  <2>1. LibIdle.op = "idle"
    BY DEF LibIdle
  <2> QED
    BY <1>1, <1>2, <2>1 DEF AloneInv
<1>6. PublishedInv'
  BY <1>1 DEF LibInv, PublishedInv, PublishedIsCleared
<1>7. ScreenInv'
  BY <1>1, ScreenStands DEF LibInv
<1> QED
  BY <1>3, <1>4, <1>5, <1>6, <1>7 DEF LibInv

\* An import, a seed or a publication begins.
LEMMA LibBeginSteps ==
    ASSUME LibInv, NEW i \in Imports,
           \/ ImportApplyBegin(i)
           \/ PublishBegin(i)
           \/ \E rows \in Files : SeedBaselinesBegin(i, rows)
    PROVE  LibInv'
<1>1. libCurrent \in Nat /\ libPublished \in BOOLEAN
  BY DEF LibInv, VersionsInv
<1>2. ASSUME NEW op \in {"import", "seed"}, NEW rows \in Seq(Row),
             op = "import" => Valid(rows),
             LibBegin(i, [op |-> op, rows |-> rows, at |-> libCurrent,
                          published |-> libPublished, needs |-> NeedsVersion(rows, libCurrent)])
      PROVE  LibInv'
  <2> DEFINE needs == NeedsVersion(rows, libCurrent)
  <2>1. needs \in BOOLEAN
    BY ZenonT(10) DEF NeedsVersion
  <2> HIDE DEF needs
  <2> DEFINE read == [op |-> op, rows |-> rows, at |-> libCurrent,
                      published |-> libPublished, needs |-> needs]
  <2>2. read \in ImportTxn /\ read.op # "publish"
    BY <1>1, <2>1 DEF ImportTxn
  <2>3. read.at = libCurrent /\ read.published = libPublished
        /\ (read.op = "import" => Valid(read.rows))
    BY <1>2
  <2>4. LibBegin(i, read)
    BY <1>2 DEF needs
  <2> HIDE DEF read
  <2> QED
    BY <2>2, <2>3, <2>4, LibBeginStep
<1>3. CASE ImportApplyBegin(i)
  BY <1>2, <1>3 DEF ImportApplyBegin, LibInv, ScreenInv
<1>4. CASE \E rows \in Files : SeedBaselinesBegin(i, rows)
  BY <1>2, <1>4, RowsAssumption DEF SeedBaselinesBegin
<1>5. CASE PublishBegin(i)
  <2> DEFINE read == [op |-> "publish", at |-> libCurrent, published |-> libPublished]
  <2>1. read \in PublishTxn /\ read.op = "publish" /\ read.at = libCurrent
        /\ read.published = libPublished
    BY <1>1 DEF PublishTxn
  <2>2. LibBegin(i, read) /\ libCurrent > 0
    BY <1>5 DEF PublishBegin
  <2> HIDE DEF read
  <2> QED
    BY <2>1, <2>2, LibBeginStep
<1> QED
  BY <1>3, <1>4, <1>5

\* The request that ends is idle, the others are as they were.
Ended(i) ==
    /\ libTxn' \in [Imports -> {LibIdle} \cup ImportTxn \cup PublishTxn]
    /\ libTxn'[i] = LibIdle /\ libTxn'[i].op = "idle"
    /\ \A j \in Imports : j # i => libTxn'[j] = libTxn[j]
    /\ UNCHANGED <<libScreen, libOverlap>>

\* LibEnd ends the request and nothing else.
LEMMA EndTxn ==
    ASSUME TxnInv, NEW i \in Imports, LibEnd(i)
    PROVE  Ended(i)
<1>1. LibIdle.op = "idle"
  BY DEF LibIdle
<1> QED
  BY <1>1 DEF TxnInv, LibEnd, Ended

\* A version that is stored carries the next number.
LEMMA SeedStep ==
    ASSUME LibInv, NEW i \in Imports, SeedProduct(i)
    PROVE  LibInv'
<1> DEFINE t == libTxn[i]
           v == [number |-> t.at + 1, content |-> Incoming(t.rows), via |-> t.op]
<1>1. /\ t.op \in {"import", "seed"} /\ ~ Taken(t) /\ LibEnd(i)
      /\ libVersions' = libVersions \cup {v} /\ libCurrent' = t.at + 1
      /\ libPublished' = (libPublished /\ ~ Withdraws(t))
      /\ libCleared' = libCleared
  BY DEF SeedProduct
<1>2. /\ libCurrent \in Nat /\ IsFiniteSet(libVersions)
      /\ libPublished \in BOOLEAN /\ libOverlap \in BOOLEAN
      /\ libCurrent = Cardinality(libVersions)
      /\ {w.number : w \in libVersions} = 1..libCurrent
  BY DEF LibInv, VersionsInv, VersionsAreSequential
<1>3. /\ t \in ImportTxn /\ t.at \in Nat /\ t.rows \in Seq(Row) /\ t.published \in BOOLEAN
      /\ t.at <= libCurrent /\ t.op # "idle"
  <2>1. t \in {LibIdle} \cup ImportTxn \cup PublishTxn
    BY DEF LibInv, TxnInv
  <2>2. t \in ImportTxn
    BY <1>1, <2>1 DEF LibIdle, PublishTxn
  <2>3. t.op # "idle"
    BY <1>1
  <2> QED
    BY <2>2, <2>3 DEF ImportTxn, LibInv, TxnInv
<1>4. t.at = libCurrent
  <2>1. ASSUME t.at < libCurrent PROVE FALSE
    <3>1. t.at + 1 \in 1..libCurrent
      BY <1>2, <1>3, <2>1
    <3>2. PICK w \in libVersions : w.number = t.at + 1
      BY <1>2, <3>1
    <3> QED
      BY <1>1, <3>2 DEF Taken
  <2> QED
    BY <1>2, <1>3, <2>1
<1>5. /\ libCurrent' = libCurrent + 1 /\ v.number = libCurrent'
      /\ v.content = Incoming(t.rows) /\ v.via = t.op
  BY <1>1, <1>4
<1> HIDE DEF v
<1>6. v \notin libVersions
  BY <1>2, <1>5
<1>7. IsFiniteSet(libVersions') /\ Cardinality(libVersions') = libCurrent'
  BY <1>1, <1>2, <1>5, <1>6, FS_AddElement
<1>8. {w.number : w \in libVersions'} = 1..libCurrent'
  <2>1. {w.number : w \in libVersions'} = {w.number : w \in libVersions} \cup {v.number}
    BY <1>1
  <2>2. \A n \in Nat : (1..n) \cup {n + 1} = 1..(n + 1)
    OBVIOUS
  <2>3. {w.number : w \in libVersions'} = (1..libCurrent) \cup {libCurrent + 1}
    BY <1>2, <1>5, <2>1
  <2> QED
    BY <1>2, <1>5, <2>2, <2>3
<1>9. VersionsInv'
  <2>1. ImportedIsConfirmed'
    <3>1. ASSUME NEW w \in libVersions', NEW c \in Controls, w.via = "import", w.content[c] # Absent
          PROVE  /\ w.content[c].cls # "customer_owns" => w.content[c].chosen
                 /\ w.content[c].cls = "customer_owns" => ~ w.content[c].evidence
      <4>1. CASE w \in libVersions
        BY <3>1, <4>1 DEF LibInv, VersionsInv, ImportedIsConfirmed
      <4>2. CASE w = v
        <5>1. Valid(t.rows)
          BY <1>5, <3>1, <4>2 DEF LibInv, TxnInv
        <5> QED
          BY <1>3, <1>5, <3>1, <4>2, <5>1, ValidIsConfirmed
      <4> QED
        BY <1>1, <4>1, <4>2
    <3> QED
      BY <3>1 DEF ImportedIsConfirmed
  <2>2. \A w \in libVersions' : w.content \in Content /\ w.via \in {"import", "seed"}
    BY <1>1, <1>3, <1>5, IncomingContent DEF LibInv, VersionsInv
  <2>3. VersionsAreSequential'
    BY <1>7, <1>8 DEF VersionsAreSequential
  <2>4. libPublished' \in BOOLEAN
    BY <1>1, <1>2
  <2>5. libOverlap' \in BOOLEAN
    BY <1>1, <1>2 DEF LibEnd
  <2>6. libCurrent' \in Nat
    BY <1>2, <1>5
  <2> QED
    BY <1>7, <2>1, <2>2, <2>3, <2>4, <2>5, <2>6 DEF VersionsInv
<1>10. TxnInv /\ Ended(i)
  BY <1>1, EndTxn DEF LibInv
<1>11. TxnInv'
  <2>1. ASSUME NEW j \in Imports
        PROVE  /\ libTxn'[j].op # "idle" => libTxn'[j].at <= libCurrent'
               /\ libTxn'[j].op = "publish" => libTxn'[j].at > 0
               /\ libTxn'[j].op = "import" => Valid(libTxn'[j].rows)
    <3>1. CASE j = i
      BY <1>10, <3>1 DEF Ended
    <3>2. CASE j # i
      <4>1. libTxn'[j] = libTxn[j]
        BY <1>10, <3>2 DEF Ended
      <4>2. libTxn[j].op # "idle" => libTxn[j].at \in Nat /\ libTxn[j].at <= libCurrent
        BY <1>10 DEF Ended, TxnInv, ImportTxn, PublishTxn, LibIdle
      <4> QED
        BY <1>2, <1>5, <1>10, <4>1, <4>2 DEF TxnInv
    <3> QED
      BY <3>1, <3>2
  <2> QED
    BY <1>10, <2>1 DEF Ended, TxnInv
<1>12. AloneInv'
  BY <1>3, <1>10 DEF Ended, LibInv, AloneInv
<1>13. PublishedInv'
  <2>1. libPublished' => libCurrent' > 0
    BY <1>2, <1>5
  <2>2. ASSUME ~ libOverlap, libPublished', v.via # "seed" PROVE FALSE
    <3>1. t.published = libPublished /\ libPublished
      BY <1>1, <1>3, <2>2 DEF LibInv, AloneInv
    <3>2. libCurrent > 0
      BY <3>1 DEF LibInv, PublishedInv
    <3>3. Withdraws(t)
      BY <1>1, <1>4, <1>5, <2>2, <3>1, <3>2 DEF Withdraws
    <3> QED
      BY <1>1, <2>2, <3>3
  <2>3. v \in libVersions' /\ v.number = libCurrent'
    BY <1>1, <1>5
  <2>4. PublishedIsCleared'
    BY <1>10, <2>2, <2>3 DEF Ended, PublishedIsCleared
  <2> QED
    BY <2>1, <2>4 DEF PublishedInv
<1>14. ScreenInv'
  <2>1. libScreen' = libScreen
    BY <1>10 DEF Ended
  <2>2. libScreen.op = "draft" => libScreen.at # libCurrent' /\ libScreen.at <= libCurrent'
    BY <1>2, <1>5 DEF LibInv, ScreenInv
  <2> QED
    BY <2>1, <2>2 DEF LibInv, ScreenInv, ResearchNeverOverrides
<1> QED
  BY <1>9, <1>11, <1>12, <1>13, <1>14 DEF LibInv

\* What ends without a version, and a publication.
LEMMA LibEndStep ==
    ASSUME LibInv, NEW i \in Imports, SeedProductNothing(i) \/ PublishProduct(i)
    PROVE  LibInv'
<1> DEFINE t == libTxn[i]
<1>1. /\ LibEnd(i) /\ UNCHANGED <<libVersions, libCurrent>>
      /\ t.op # "idle"
  BY DEF SeedProductNothing, PublishProduct
<1>2. TxnInv /\ Ended(i)
  BY <1>1, EndTxn DEF LibInv
<1>3. libCurrent \in Nat /\ libPublished \in BOOLEAN /\ libOverlap \in BOOLEAN
  BY DEF LibInv, VersionsInv
<1>4. /\ t \in ImportTxn \cup PublishTxn
      /\ t.at \in Nat /\ t.published \in BOOLEAN /\ t.at <= libCurrent
  <2>1. t \in ImportTxn \cup PublishTxn
    BY <1>1, <1>2 DEF Ended, TxnInv, LibIdle
  <2> QED
    BY <1>1, <1>2, <2>1 DEF Ended, TxnInv, ImportTxn, PublishTxn
<1>5. libPublished' \in BOOLEAN
  BY <1>3, <1>4 DEF SeedProductNothing, PublishProduct
<1>6. VersionsInv'
  BY <1>1, <1>2, <1>5 DEF Ended, LibInv, VersionsInv, VersionsAreSequential, ImportedIsConfirmed
<1>7. TxnInv'
  BY <1>1, <1>2 DEF Ended, TxnInv
<1>8. AloneInv'
  BY <1>1, <1>2 DEF Ended, LibInv, AloneInv
<1>9. PublishedInv'
  <2>1. CASE SeedProductNothing(i)
    BY <1>1, <1>2, <2>1 DEF Ended, SeedProductNothing, LibInv, PublishedInv, PublishedIsCleared
  <2>2. CASE PublishProduct(i)
    <3>1. t.op = "publish" /\ libCleared' = t.at
      BY <2>2 DEF PublishProduct
    <3>2. libCurrent > 0
      BY <1>2, <1>3, <1>4, <3>1 DEF Ended, TxnInv
    <3>3. ~ libOverlap => t.at = libCurrent
      BY <1>1 DEF LibInv, AloneInv
    <3> QED
      BY <1>1, <1>2, <3>1, <3>2, <3>3 DEF Ended, PublishedInv, PublishedIsCleared
  <2> QED
    BY <2>1, <2>2
<1>10. ScreenInv'
  BY <1>1, <1>2, ScreenStands DEF Ended, LibInv
<1> QED
  BY <1>6, <1>7, <1>8, <1>9, <1>10 DEF Ended, LibInv

\* A product is taken out of publication.
LEMMA UnpublishStep ==
    ASSUME LibInv, UnpublishProduct
    PROVE  LibInv'
<1>1. /\ libPublished' = FALSE
      /\ libOverlap \/ \A j \in Imports : libTxn[j] = LibIdle
      /\ UNCHANGED <<libVersions, libCurrent, libScreen, libTxn, libCleared, libOverlap>>
  BY DEF UnpublishProduct
<1>2. VersionsInv'
  BY <1>1 DEF LibInv, VersionsInv, VersionsAreSequential, ImportedIsConfirmed
<1>3. TxnInv'
  BY <1>1 DEF LibInv, TxnInv
<1>4. AloneInv'
  BY <1>1 DEF LibInv, AloneInv, LibIdle
<1>5. PublishedInv'
  BY <1>1 DEF PublishedInv, PublishedIsCleared
<1>6. ScreenInv'
  BY <1>1, ScreenStands DEF LibInv
<1> QED
  BY <1>2, <1>3, <1>4, <1>5, <1>6 DEF LibInv

\* Every step keeps the invariant.
LEMMA LibStep == LibInv /\ [LibNext]_libVars => LibInv'
<1> SUFFICES ASSUME LibInv, [LibNext]_libVars PROVE LibInv'
  OBVIOUS
<1>1. CASE UNCHANGED libVars
  <2>1. UNCHANGED libCore /\ UNCHANGED libScreen
    BY <1>1 DEF libVars, libCore
  <2>2. ScreenInv'
    BY <2>1, ScreenStands DEF LibInv, libCore
  <2> QED
    BY <2>1, <2>2, CoreStands
<1>2. CASE LibNext
  BY <1>2, PreviewStep, PagesStep, LibBeginSteps, SeedStep, LibEndStep, UnpublishStep DEF LibNext
<1> QED
  BY <1>1, <1>2

\* What the library promises follows from the invariant.
LEMMA LibInvIsSound == LibInv => LibraryIsSound
<1> SUFFICES ASSUME LibInv PROVE LibraryIsSound
  OBVIOUS
<1>1. PreviewTells
  BY PreviewFollows DEF LibInv
<1> QED
  BY <1>1 DEF LibInv, LibraryIsSound, VersionsInv, PublishedInv, ScreenInv

\* Whatever imports, seeds and publications overlap, and however long a draft
\* stays on the screen: versions are numbered without gaps, what the preview
\* announced is what applying does, what was imported was confirmed and, one
\* request at a time, cleared before it shows, and no web page overrides what
\* the vendor's documents say (admin_products.py, merge_research, seed_product).
THEOREM LibrarySound == LibSpec => []LibraryIsSound
<1>1. LibSpec => []LibInv
  BY LibInitInv, LibStep, PTL DEF LibSpec
<1> QED
  BY <1>1, LibInvIsSound, PTL
=============================================================================
