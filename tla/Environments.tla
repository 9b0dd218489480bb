---------------------------- MODULE Environments ----------------------------
(***************************************************************************)
(* Which Liongard environment an organisation is mapped to (routers/       *)
(* scope.py), what is pulled from it, on request or by the daily job       *)
(* (liongard_sync.py, scheduler.py), and who is told of new assets.  What  *)
(* becomes of a pulled asset is the subject of Scope.                      *)
(*                                                                         *)
(* A pull takes a while: the mapping is read before it, the result stored  *)
(* after it.  With `evOverlap' others are served meanwhile.  The daily job *)
(* goes through the organisations of one list, and people are served       *)
(* between two of them in any case.                                        *)
(***************************************************************************)
EXTENDS Integers, FiniteSets

CONSTANTS EvOrgs, EnvironmentIds,   \* organisations, environments of the account
          Responsible,   \* org -> its contacts with a role in NOTIFY_ROLES
          EvRequests,    \* requests in flight at a time
          EvMax          \* bound on the requests served

ASSUME EvAssumption == 0 \notin EnvironmentIds /\ EvMax \in Nat

VARIABLES evMap,      \* org -> environment, or 0
          evUnique,   \* whether the migration added the unique constraint
          evResult,   \* org -> its last sync result
          evTxn,      \* request -> what it has read
          evJob,      \* the daily job
          evCut,      \* history: orgs the job died at after storing a result
          evServed, evOverlap

evVars == <<evMap, evUnique, evResult, evTxn, evJob, evCut, evServed, evOverlap>>
evRest == <<evUnique, evOverlap>>

OrgLiongardEnvironment == [EvOrgs -> EnvironmentIds \cup {0}]

\* `told': whether somebody was notified, or the lack of anybody recorded.  A
\* sync on request tells nobody but its caller.
LiongardSyncResult == [status : {"none", "pending_review", "no_changes"},
                       from : EnvironmentIds \cup {0},
                       told : {"asked for", "not yet", "warned", "notified"}]
NoResult == [status |-> "none", from |-> 0, told |-> "asked for"]

EvIdle == [op |-> "idle"]
JobIdle == [stage |-> "idle", todo |-> [o \in {} |-> 0]]

EvTypeOK ==
    /\ evMap \in OrgLiongardEnvironment
    /\ evResult \in [EvOrgs -> LiongardSyncResult]
    /\ \A q \in EvRequests : evTxn[q].op \in {"idle", "set", "sync"}
    /\ evJob.stage \in {"idle", "next", "pulled", "notify"}
    /\ DOMAIN evJob.todo \subseteq EvOrgs
    /\ evUnique => \A o, p \in EvOrgs : evMap[o] = evMap[p] => o = p \/ evMap[o] = 0

\* Migration 0050 adds the constraint unless two organisations share one then.
EvInit ==
    /\ evMap \in OrgLiongardEnvironment
    /\ evUnique = (\A o, p \in EvOrgs : evMap[o] = evMap[p] => o = p \/ evMap[o] = 0)
    /\ evResult = [o \in EvOrgs |-> NoResult]
    /\ evTxn = [q \in EvRequests |-> EvIdle]
    /\ evJob = JobIdle /\ evCut = {}
    /\ evServed = 0 /\ evOverlap \in BOOLEAN

\* Nothing is between its read and its write.
EvQuiet == evJob.stage # "pulled" /\ \A q \in EvRequests : evTxn[q] = EvIdle

EvBegin(q, read) ==
    /\ evTxn[q] = EvIdle /\ (evOverlap \/ EvQuiet)
    /\ evServed < EvMax /\ evServed' = evServed + 1
    /\ evTxn' = [evTxn EXCEPT ![q] = read]
    /\ UNCHANGED <<evMap, evResult, evJob, evCut, evRest>>

EvEnd(q) ==
    /\ evTxn' = [evTxn EXCEPT ![q] = EvIdle]
    /\ UNCHANGED <<evJob, evCut, evServed, evRest>>

-----------------------------------------------------------------------------

\* _other_org_holding_environment looks past row level security.
Holders(o, e) == {p \in EvOrgs \ {o} : evMap[p] = e}

\* The environment is one that Liongard lists, and no other organisation's.
SetMappingBegin(q, o, e) ==
    /\ Holders(o, e) = {}
    /\ EvBegin(q, [op |-> "set", org |-> o, env |-> e, read |-> evMap[o]])

\* An insert, or an update of what differs from the row that was read.
Mapped(t) == IF t.env = t.read THEN evMap[t.org] ELSE t.env

\* The row is there by now, or gone by now, or the environment is taken.
MappingFails(t) ==
    \/ (t.read = 0) # (evMap[t.org] = 0)
    \/ evUnique /\ \E p \in EvOrgs \ {t.org} : evMap[p] = Mapped(t)

SetMapping(q) ==
    LET t == evTxn[q]
    IN /\ t.op = "set"
       /\ evMap' = IF MappingFails(t) THEN evMap ELSE [evMap EXCEPT ![t.org] = Mapped(t)]
       /\ EvEnd(q)
       /\ UNCHANGED evResult

DeleteMapping(o) ==
    /\ evMap[o] # 0 /\ (evOverlap \/ EvQuiet)
    /\ evServed < EvMax /\ evServed' = evServed + 1
    /\ evMap' = [evMap EXCEPT ![o] = 0]
    /\ UNCHANGED <<evResult, evTxn, evJob, evCut, evRest>>

-----------------------------------------------------------------------------

\* persist_sync_result; the results before it are superseded.
Stored(env, new, told) ==
    [status |-> IF new THEN "pending_review" ELSE "no_changes", from |-> env, told |-> told]

SyncNowBegin(q, o) ==
    /\ evMap[o] # 0
    /\ EvBegin(q, [op |-> "sync", org |-> o, env |-> evMap[o]])

SyncNow(q, new) ==
    LET t == evTxn[q]
    IN /\ t.op = "sync"
       /\ evResult' = [evResult EXCEPT ![t.org] = Stored(t.env, new, "asked for")]
       /\ EvEnd(q)
       /\ UNCHANGED evMap

\* Liongard does not answer: 502.
SyncNowFails(q) ==
    /\ evTxn[q].op = "sync"
    /\ EvEnd(q)
    /\ UNCHANGED <<evMap, evResult>>

JobGoes(job) ==
    /\ evJob' = job
    /\ UNCHANGED <<evMap, evTxn, evServed, evRest>>

Without(todo, o) == [p \in (DOMAIN todo) \ {o} |-> todo[p]]

\* The list of mappings, for the whole run.
DailyBegin ==
    /\ evJob = JobIdle
    /\ JobGoes([stage |-> "next", todo |-> [o \in {o \in EvOrgs : evMap[o] # 0} |-> evMap[o]]])
    /\ UNCHANGED <<evResult, evCut>>

\* Mutant: the environment of the list.
PulledFrom_listed(o) == evJob.todo[o]

\* pull_and_reconcile reads the mapping itself.
PulledFrom(o) == evMap[o]

DailyPull(o) ==
    /\ evJob.stage = "next" /\ o \in DOMAIN evJob.todo
    /\ evOverlap \/ EvQuiet
    /\ PulledFrom(o) # 0
    /\ JobGoes([stage |-> "pulled", todo |-> Without(evJob.todo, o), org |-> o,
                env |-> PulledFrom(o)])
    /\ UNCHANGED <<evResult, evCut>>

\* No mapping any more, or no answer: counted as an error, on to the next.
DailyPullFails(o) ==
    /\ evJob.stage = "next" /\ o \in DOMAIN evJob.todo
    /\ JobGoes([evJob EXCEPT !.todo = Without(evJob.todo, o)])
    /\ UNCHANGED <<evResult, evCut>>

\* The result is committed before anybody is told of it.
DailyPersist(new) ==
    LET o == evJob.org
    IN /\ evJob.stage = "pulled"
       /\ evResult' = [evResult EXCEPT ![o] =
              Stored(evJob.env, new, IF new THEN "not yet" ELSE "asked for")]
       /\ evCut' = evCut \ {o}
       /\ JobGoes(IF new THEN [evJob EXCEPT !.stage = "notify"]
                         ELSE [stage |-> "next", todo |-> evJob.todo])

NotifyCandidates(o) == Responsible[o]

\* Mutant: an organisation with nobody to tell is passed over.
Announced_silent(o) ==
    [evResult[o] EXCEPT !.told = IF NotifyCandidates(o) = {} THEN @ ELSE "notified"]

\* A row for every recipient, sent or not; without any, a warning of the result.
Announced(o) ==
    [evResult[o] EXCEPT !.told = IF NotifyCandidates(o) = {} THEN "warned" ELSE "notified"]

\* What it is about may have been superseded by then.
DailyNotify ==
    LET o == evJob.org
    IN /\ evJob.stage = "notify"
       /\ evResult' = IF evResult[o].told = "not yet"
                      THEN [evResult EXCEPT ![o] = Announced(o)] ELSE evResult
       /\ JobGoes([stage |-> "next", todo |-> evJob.todo])
       /\ UNCHANGED evCut

\* The job ends, or an exception or a crash ends it; what it committed stays.
DailyEnd ==
    /\ evJob # JobIdle
    /\ evCut' = IF evJob.stage = "notify" THEN evCut \cup {evJob.org} ELSE evCut
    /\ JobGoes(JobIdle)
    /\ UNCHANGED evResult

EvNext ==
    \/ \E q \in EvRequests, o \in EvOrgs :
           \/ \E e \in EnvironmentIds : SetMappingBegin(q, o, e)
           \/ SyncNowBegin(q, o)
    \/ \E o \in EvOrgs : DeleteMapping(o) \/ DailyPull(o) \/ DailyPullFails(o)
    \/ \E q \in EvRequests :
           SetMapping(q) \/ SyncNowFails(q) \/ \E new \in BOOLEAN : SyncNow(q, new)
    \/ DailyBegin \/ DailyNotify \/ DailyEnd \/ \E new \in BOOLEAN : DailyPersist(new)

-----------------------------------------------------------------------------

\* No organisation is mapped to an environment that another one has: its assets
\* would be in two boundaries.  Where the constraint could not be added because
\* some shared one already, two requests that overlap can still bring that about.
NothingIsSharedAnew ==
    [][\A o \in EvOrgs : evMap'[o] \notin {0, evMap[o]} =>
          \/ evOverlap /\ ~evUnique
          \/ \A p \in EvOrgs \ {o} : evMap'[p] # evMap'[o]]_evVars

\* What is put into an organisation's queue comes from the environment that is
\* its own, however long ago the daily job made its list.  A pull that overlaps
\* a change of the mapping can break it: the assets of the former environment,
\* by then perhaps another organisation's, are stored for approval.
PullsTheOwnEnvironment ==
    [][\A o \in EvOrgs : evResult'[o].from # evResult[o].from =>
          evOverlap \/ evResult'[o].from = evMap[o]]_evVars

\* New assets that the daily job found wait for a decision in silence only where
\* the job died over them: people are notified, or that there is nobody to
\* notify is on the result.
PendingIsAnnounced ==
    \A o \in EvOrgs : evResult[o].told = "not yet" =>
        o \in evCut \/ (evJob.stage = "notify" /\ evJob.org = o)

\* The assets of an environment reach the organisation it is mapped to and no
\* other, over mappings, pulls on request and the daily job
\* (put_liongard_mapping, pull, sync_liongard_environments).
EnvironmentsStayApart == NothingIsSharedAnew /\ PullsTheOwnEnvironment
=============================================================================
