------------------------------ MODULE Accounts ------------------------------
(***************************************************************************)
(* One account from invitation to anonymisation (routers/auth.py, auth.py, *)
(* routers/users.py): password and its history, second factor and backup   *)
(* codes, lockout, sessions.                                               *)
(*                                                                         *)
(* The state cookies of a sign-in outlive the request that set them, so    *)
(* several sign-ins are always under way.  A request of the account's      *)
(* owner reads first and commits later; `overlap' says whether others may  *)
(* commit in between.  A request of an administrator is one step.          *)
(*                                                                         *)
(* An update writes the columns whose value differs from the one read.     *)
(* Passwords, secrets, codes and sessions are numbers, 0 is none; a batch  *)
(* of backup codes stands as one code.                                     *)
(***************************************************************************)
EXTENDS Integers, FiniteSets, FiniteSetsExt, Sequences, SequencesExt

CONSTANTS Browsers,      \* where the account's owner signs in
          Passwords,     \* passwords the policy accepts, numbers from 1
          Generations,   \* password_history_generations
          Cap,           \* max_sessions_per_user, 0 is no cap
          Threshold,     \* _LOCKOUT_THRESHOLD
          ResetCount,    \* _LOCKOUT_RESET_COUNT
          MaxIssued,     \* bound on the secrets and codes issued
          MaxOpened,     \* bound on the sessions opened
          MaxRequests,   \* bound on the administrators' requests
          MaxRaced       \* bound on all requests, where they overlap

ASSUME AccountsAssumption ==
    /\ IsFiniteSet(Browsers) /\ Browsers # {}
    /\ Passwords \subseteq Nat \ {0} /\ 1 \in Passwords
    /\ Generations \in Nat \ {0} /\ Cap \in Nat
    /\ Threshold \in Nat \ {0} /\ ResetCount \in Nat \ {0}
    /\ MaxIssued \in Nat /\ MaxOpened \in Nat /\ MaxRequests \in Nat /\ MaxRaced \in Nat

VARIABLES account,   \* the user row
          history,   \* its password history, oldest first
          sessions,  \* its sessions neither revoked nor expired
          codes,     \* its unused backup codes
          cookie,    \* browser -> the state cookie it holds
          txn,       \* browser -> the request in flight and what it has read
          issued, opened, requests,   \* counters
          enforced,  \* whether the database role is subject to row level security
          overlap    \* whether requests overlap

vars == <<account, history, sessions, codes, cookie, txn, issued, opened,
          requests, enforced, overlap>>

ownedRows == <<history, sessions, codes>>
counters == <<issued, opened, requests>>
mode == <<enforced, overlap>>

Idle == [op |-> "idle"]
Phases == {"none", "enroll", "setup", "verify", "reenroll"}
Operations == {"idle", "wrong", "right", "set", "change", "confirm", "verify", "reenroll"}

User == [kind : {"none", "local", "sso"}, active : BOOLEAN, gone : BOOLEAN,
         linked : BOOLEAN, password : Nat, invite : {"none", "valid", "expired"},
         secret : Nat, enrolled : BOOLEAN, fails : Nat, lockouts : Nat,
         locked : BOOLEAN, needsReset : BOOLEAN]
UserSession == Nat \ {0}
MfaBackupCode == Nat \ {0}
PasswordHistory == Seq(Passwords)

TypeOK ==
    /\ account \in User /\ account.fails < Threshold
    /\ account.password \in Passwords \cup {0}
    /\ history \in PasswordHistory /\ Len(history) <= Generations
    /\ sessions \subseteq UserSession /\ codes \subseteq MfaBackupCode
    /\ cookie \in [Browsers -> Phases]
    /\ \A b \in Browsers : txn[b].op \in Operations
    /\ {issued, opened, requests} \subseteq Nat
    /\ enforced \in BOOLEAN /\ overlap \in BOOLEAN

\* The bound on requests counts the administrators' alone, or all that overlap.
Another ==
    /\ requests < IF overlap THEN MaxRaced ELSE MaxRequests
    /\ requests' = requests + 1

Counted == IF overlap THEN Another ELSE UNCHANGED requests

-----------------------------------------------------------------------------

\* What the helpers of auth.py compute.
FailedLogin(a) ==
    LET locks == a.fails + 1 >= Threshold
    IN [a EXCEPT !.fails      = IF locks THEN 0 ELSE @ + 1,
                 !.lockouts   = IF locks THEN @ + 1 ELSE @,
                 !.locked     = locks,
                 !.needsReset = @ \/ (locks /\ a.lockouts + 1 >= ResetCount)]

ClearedLogin(a) == [a EXCEPT !.fails = 0, !.locked = FALSE]

Reused(read, p) == p \in Range(read)

\* Mutant: the history is never pruned.
Recorded_all(p) == Append(history, p)

Recorded(p) ==
    LET all == Append(history, p)
    IN SubSeq(all, 1 + Max({0, Len(all) - Generations}), Len(all))

\* The sessions a sign-in that read these ones revokes: the oldest.
Oldest(s, n) == {x \in s : Cardinality({y \in s : y < x}) < n}

Excess(read) == IF Cap = 0 THEN {} ELSE Oldest(read, Cardinality(read) + 1 - Cap)

CreateSession(read) ==
    /\ opened < MaxOpened
    /\ opened' = opened + 1
    /\ sessions' = (sessions \ Excess(read)) \cup {opened + 1}

Phase(a) == IF a.enrolled THEN "verify" ELSE "enroll"

\* A request made with a session: it must be live, and the account active.
Resolved == sessions # {} /\ account.active

\* An update writes the columns that differ from what was read.
Write(b, new) ==
    LET read == txn[b].account
    IN account' = [f \in DOMAIN account |->
                     IF new[f] # read[f] THEN new[f] ELSE account[f]]

Ready == overlap \/ \A b \in Browsers : txn[b] = Idle

Begin(b, op, arg) ==
    /\ Ready /\ txn[b] = Idle /\ Counted
    /\ txn' = [txn EXCEPT ![b] = [op |-> op, arg |-> arg, account |-> account,
                                  sessions |-> sessions]]
    /\ UNCHANGED <<account, ownedRows, cookie, issued, opened, mode>>

End(b, op) == txn[b].op = op /\ txn' = [txn EXCEPT ![b] = Idle]

Holds(b, phase) == cookie' = [cookie EXCEPT ![b] = phase]

Invited(kind) ==
    [kind |-> kind, active |-> FALSE, gone |-> FALSE, linked |-> FALSE,
     password |-> 0, invite |-> IF kind = "none" THEN "none" ELSE "valid",
     secret |-> 0, enrolled |-> FALSE, fails |-> 0, lockouts |-> 0,
     locked |-> FALSE, needsReset |-> FALSE]

SignedIn == [Invited("local") EXCEPT !.active = TRUE, !.password = 1,
                                     !.invite = "none", !.secret = 1, !.enrolled = TRUE]

\* One at a time from no account at all; overlapping from an account signed in.
Init ==
    /\ overlap \in BOOLEAN /\ enforced \in (IF overlap THEN {FALSE} ELSE BOOLEAN)
    /\ account = IF overlap THEN SignedIn ELSE Invited("none")
    /\ history = IF overlap THEN <<1>> ELSE <<>>
    /\ issued = (IF overlap THEN 1 ELSE 0) /\ opened = issued
    /\ sessions = 1..opened /\ codes = 1..issued
    /\ cookie = [b \in Browsers |-> "none"]
    /\ txn = [b \in Browsers |-> Idle]
    /\ requests = 0

-----------------------------------------------------------------------------

\* Signing in.  An anonymised account no longer has the address it is looked up by.
LoginBegin(b, op) ==
    /\ account.kind = "local" /\ ~ account.gone
    /\ ~ account.needsReset /\ ~ account.locked
    /\ op = "right" => account.password # 0
    /\ Begin(b, op, 0)

LoginFails(b) ==
    /\ End(b, "wrong")
    /\ Write(b, FailedLogin(txn[b].account))
    /\ UNCHANGED <<ownedRows, cookie, counters, mode>>

LoginPasses(b) ==
    /\ End(b, "right")
    /\ Write(b, ClearedLogin(txn[b].account))
    /\ Holds(b, Phase(txn[b].account))
    /\ UNCHANGED <<ownedRows, counters, mode>>

\* Redeeming an invitation or a reset.  The row is fetched before the request
\* has an organisation, so a role under row level security never finds it.
SetPasswordBegin(b, p) ==
    /\ account.invite = "valid" /\ ~ enforced
    /\ account.password # 0 => ~ Reused(history, p)
    /\ Begin(b, "set", p)

SetPassword(b) ==
    /\ End(b, "set")
    /\ Write(b, [txn[b].account EXCEPT !.password = txn[b].arg, !.invite = "none"])
    /\ history' = Recorded(txn[b].arg)
    /\ Holds(b, Phase(txn[b].account))
    /\ UNCHANGED <<sessions, codes, counters, mode>>

MfaEnroll(b) ==
    /\ Ready /\ txn[b] = Idle
    /\ cookie[b] = "enroll"
    /\ Holds(b, "setup")
    /\ UNCHANGED <<account, ownedRows, txn, counters, mode>>

EnrollConfirmBegin(b) ==
    /\ cookie[b] = "setup"
    /\ Begin(b, "confirm", 0)

\* Mutant: the account is marked enrolled and its secret is not kept.
EnrollConfirm_secret(b) ==
    /\ End(b, "confirm") /\ issued < MaxIssued
    /\ Write(b, [txn[b].account EXCEPT !.enrolled = TRUE, !.active = TRUE])
    /\ codes' = codes \cup {issued + 1}
    /\ issued' = issued + 1
    /\ CreateSession(txn[b].sessions)
    /\ Holds(b, "none")
    /\ UNCHANGED <<history, requests, mode>>

EnrollConfirm(b) ==
    /\ End(b, "confirm") /\ issued < MaxIssued
    /\ Write(b, [txn[b].account EXCEPT !.secret = issued + 1, !.enrolled = TRUE,
                                       !.active = TRUE])
    /\ codes' = codes \cup {issued + 1}
    /\ issued' = issued + 1
    /\ CreateSession(txn[b].sessions)
    /\ Holds(b, "none")
    /\ UNCHANGED <<history, requests, mode>>

\* The second factor: the authenticator (0) or an unused backup code.
VerifyBegin(b, c) ==
    /\ cookie[b] = "verify" /\ account.active
    /\ IF c = 0 THEN account.secret # 0 ELSE c \in codes
    /\ Begin(b, "verify", c)

Verify(b) ==
    /\ End(b, "verify")
    /\ CreateSession(txn[b].sessions)
    /\ codes' = codes \ {txn[b].arg}
    /\ Holds(b, "none")
    /\ UNCHANGED <<account, history, issued, requests, mode>>

\* Single sign-on looks the account up by its Entra id alone, and only this
\* request ever writes that id.
SsoCallback ==
    /\ Ready /\ account.kind = "sso"
    /\ IF account.linked /\ ~ enforced /\ ~ account.needsReset
       THEN /\ account' = [account EXCEPT !.active = TRUE]
            /\ CreateSession(sessions)
            /\ UNCHANGED <<history, codes, cookie, txn, issued, requests, mode>>
       ELSE UNCHANGED vars

-----------------------------------------------------------------------------

\* Self-service of a signed-in local account.
ChangePasswordBegin(b, p) ==
    /\ Resolved /\ account.kind = "local" /\ account.password # 0
    /\ ~ Reused(history, p)
    /\ Begin(b, "change", p)

ChangePassword(b) ==
    /\ End(b, "change")
    /\ Write(b, [txn[b].account EXCEPT !.password = txn[b].arg])
    /\ history' = Recorded(txn[b].arg)
    /\ UNCHANGED <<sessions, codes, cookie, counters, mode>>

StepUp == account.password # 0 \/ account.secret # 0

Reenroll(b) ==
    /\ Ready /\ txn[b] = Idle /\ cookie[b] = "none"
    /\ Resolved /\ account.kind = "local" /\ StepUp
    /\ Holds(b, "reenroll")
    /\ UNCHANGED <<account, ownedRows, txn, counters, mode>>

ReenrollConfirmBegin(b) ==
    /\ cookie[b] = "reenroll" /\ Resolved
    /\ Begin(b, "reenroll", 0)

ReenrollConfirm(b) ==
    /\ End(b, "reenroll") /\ issued < MaxIssued
    /\ Write(b, [txn[b].account EXCEPT !.secret = issued + 1, !.enrolled = TRUE])
    /\ codes' = {issued + 1}
    /\ issued' = issued + 1
    /\ Holds(b, "none")
    /\ UNCHANGED <<history, sessions, opened, requests, mode>>

RegenerateCodes ==
    /\ Ready /\ Resolved /\ account.kind = "local" /\ account.enrolled /\ StepUp
    /\ issued < MaxIssued
    /\ issued' = issued + 1 /\ codes' = {issued + 1}
    /\ UNCHANGED <<account, history, sessions, cookie, txn, opened, requests, mode>>

RevokeAllSessions ==
    /\ Ready /\ Resolved
    /\ sessions' = {}
    /\ UNCHANGED <<account, history, codes, cookie, txn, counters, mode>>

Logout(s) ==
    /\ Ready /\ Resolved
    /\ sessions' = sessions \ {s}
    /\ UNCHANGED <<account, history, codes, cookie, txn, counters, mode>>

-----------------------------------------------------------------------------

\* An administrator's request.
AdminRequest ==
    /\ Ready /\ Another
    /\ UNCHANGED <<cookie, txn, issued, opened, mode>>

InviteUser(kind) ==
    /\ AdminRequest /\ account.kind = "none"
    /\ account' = Invited(kind)
    /\ UNCHANGED ownedRows

PatchUser(active) ==
    /\ AdminRequest /\ account.kind # "none"
    /\ ~ (active /\ account.gone)
    /\ account' = [account EXCEPT !.active = active]
    /\ sessions' = IF account.active /\ ~ active THEN {} ELSE sessions
    /\ UNCHANGED <<history, codes>>

\* Mutant: the backup codes are left.
ResetMfa_codes ==
    /\ AdminRequest /\ account.kind # "none"
    /\ account' = [account EXCEPT !.secret = 0, !.enrolled = FALSE, !.active = FALSE,
                                  !.needsReset = FALSE]
    /\ UNCHANGED ownedRows

ResetMfa ==
    /\ AdminRequest /\ account.kind # "none"
    /\ account' = [account EXCEPT !.secret = 0, !.enrolled = FALSE, !.active = FALSE,
                                  !.needsReset = FALSE]
    /\ codes' = {}
    /\ UNCHANGED <<history, sessions>>

DeactivateUser ==
    /\ AdminRequest /\ account.kind # "none"
    /\ account' = [account EXCEPT !.active = FALSE]
    /\ sessions' = {}
    /\ UNCHANGED <<history, codes>>

AnonymizeUser ==
    /\ AdminRequest /\ account.kind # "none"
    /\ ~ account.gone /\ ~ account.active
    /\ account' = [account EXCEPT !.linked = FALSE, !.secret = 0, !.enrolled = FALSE,
                                  !.password = 0, !.gone = TRUE]
    /\ sessions' = {} /\ codes' = {} /\ history' = <<>>

UnlockUser ==
    /\ AdminRequest /\ account.kind # "none"
    /\ account' = [account EXCEPT !.locked = FALSE, !.fails = 0, !.lockouts = 0,
                                  !.needsReset = FALSE]
    /\ UNCHANGED ownedRows

ResetPassword ==
    /\ AdminRequest /\ account.kind # "none"
    /\ account' = [account EXCEPT !.invite = "valid"]
    /\ sessions' = {}
    /\ UNCHANGED <<history, codes>>

\* Time: an invitation or reset, a lock, a session or a cookie runs out, and the
\* hourly job clears what has.
InviteLapses ==
    /\ Ready /\ account.invite = "valid"
    /\ account' = [account EXCEPT !.invite = "expired"]
    /\ UNCHANGED <<ownedRows, cookie, txn, counters, mode>>

ExpireStaleInvites ==
    /\ Ready /\ account.invite = "expired"
    /\ account' = [account EXCEPT !.invite = "none"]
    /\ UNCHANGED <<ownedRows, cookie, txn, counters, mode>>

LockLapses ==
    /\ Ready /\ account.locked
    /\ account' = [account EXCEPT !.locked = FALSE]
    /\ UNCHANGED <<ownedRows, cookie, txn, counters, mode>>

SessionExpires ==
    /\ Ready /\ sessions # {}
    /\ sessions' = sessions \ {Min(sessions)}
    /\ UNCHANGED <<account, history, codes, cookie, txn, counters, mode>>

CookieLapses(b) ==
    /\ Ready /\ txn[b] = Idle /\ cookie[b] # "none"
    /\ Holds(b, "none")
    /\ UNCHANGED <<account, ownedRows, txn, counters, mode>>

Next ==
    \/ \E b \in Browsers :
          \/ \E op \in {"right", "wrong"} : LoginBegin(b, op)
          \/ LoginFails(b)
          \/ LoginPasses(b)
          \/ \E p \in Passwords : SetPasswordBegin(b, p)
          \/ SetPassword(b)
          \/ MfaEnroll(b)
          \/ EnrollConfirmBegin(b)
          \/ EnrollConfirm(b)
          \/ \E c \in codes \cup {0} : VerifyBegin(b, c)
          \/ Verify(b)
          \/ \E p \in Passwords : ChangePasswordBegin(b, p)
          \/ ChangePassword(b)
          \/ Reenroll(b)
          \/ ReenrollConfirmBegin(b)
          \/ ReenrollConfirm(b)
          \/ CookieLapses(b)
    \/ SsoCallback
    \/ RegenerateCodes
    \/ RevokeAllSessions
    \/ \E s \in sessions : Logout(s)
    \/ \E kind \in {"local", "sso"} : InviteUser(kind)
    \/ \E active \in BOOLEAN : PatchUser(active)
    \/ ResetMfa
    \/ DeactivateUser
    \/ AnonymizeUser
    \/ UnlockUser
    \/ ResetPassword
    \/ InviteLapses
    \/ ExpireStaleInvites
    \/ LockLapses
    \/ SessionExpires

Spec == Init /\ [][Next]_vars

-----------------------------------------------------------------------------

\* However the sign-ins interleave, an account has no more live sessions than
\* the cap (auth.py _enforce_session_cap); sign-ins that commit together each
\* leave room only for themselves, so with n of them at once it has at most n - 1
\* more, and never more than that however long it goes on.
SessionCap ==
    Cap > 0 => Cardinality(sessions)
               <= Cap + (IF overlap THEN Cardinality(Browsers) - 1 ELSE 0)

\* One request at a time, over every mix of invitations, resets and changes, the
\* last Generations passwords differ and the newest is the one in force
\* (check_password_reuse, record_password).
PasswordIsFresh ==
    ~ overlap => /\ IsInjective(history)
                 /\ account.password # 0 => history # <<>> /\ Last(history) = account.password

\* One request at a time, an account is marked enrolled exactly when it has a
\* secret, with enrolments of several browsers, re-enrolments, resets and an
\* anonymisation in any order.
EnrolledMeansSecret == ~ overlap => (account.enrolled <=> account.secret # 0)

\* One request at a time, only an account that was locked out often enough waits
\* for an administrator (apply_failed_login, unlock_user): the flag and the
\* counts it follows from are cleared by different requests.
EscalationIsEarned == ~ overlap /\ account.needsReset => account.lockouts >= ResetCount

\* One request at a time, a deactivated account that keeps its second factor has
\* no session left (deactivate_user, patch_user): a sign-in begun before the
\* deactivation and finished after it opens none.
DeactivationEndsSessions ==
    ~ overlap /\ account.enrolled /\ ~ account.active => sessions = {}

\* One request at a time, a session is opened only for an account that is active
\* and enrolled once it is open, whatever an administrator did between the
\* password and the second factor.
SessionsNeedEnrolment ==
    [][~ overlap /\ opened' > opened => account'.active /\ account'.enrolled]_vars

\* One request at a time, password, history, second factor and lockout agree with
\* each other, over any order of the owner's and the administrators' requests.
CredentialsAgree == PasswordIsFresh /\ EnrolledMeansSecret /\ EscalationIsEarned

\* Sessions are few enough, opened to those who may have one and ended with the
\* account's (create_session, mfa_verify, deactivate_user), however sign-ins
\* begun before are finished after.
SessionsAreDue ==
    /\ [](SessionCap /\ DeactivationEndsSessions)
    /\ SessionsNeedEnrolment

\* users.py tells the administrator that after an anonymisation "the account
\* stays disabled".
AnonymizedStaysDisabled == account.gone => ~ account.active
=============================================================================
