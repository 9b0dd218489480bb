------------------------------- MODULE Scope -------------------------------
(***************************************************************************)
(* The scope of an organisation (repo.py, reconcile.py, routers/scope.py)  *)
(* and what feeds it: people, workbooks (importers/workbook.py), and the   *)
(* Liongard pull with its approval queue (liongard_sync.py).               *)
(*                                                                         *)
(* `data' stands for the attributes a connector observes, `overlay' for    *)
(* the attributes only people know; 0 is blank, and one JSONB column holds *)
(* both.  scope_category, a column of its own, is left out.  A natural key *)
(* is a number, Fold maps the spellings of one entity to the same number:  *)
(* reconcile folds case, repo.upsert does not.                             *)
(*                                                                         *)
(* A sync, a decision and an import read first and commit later; an edit   *)
(* and a delete are one step.  `scOverlap' says whether requests, and the  *)
(* pages people act on, overlap in this behaviour.                         *)
(***************************************************************************)
EXTENDS Integers, FiniteSets, FiniteSetsExt, Sequences

CONSTANTS Keys,         \* natural keys, numbers
          Fold,         \* key -> the entity it spells
          Inventories,  \* what Liongard may return: sequences of records
          Sheets,       \* what a workbook may hold: sequences of records
          Edits,        \* what a person may enter
          ScRequests,   \* requests that may be in flight together
          MaxResults,   \* bound on the sync results kept
          MaxEdits,     \* bound on the direct edits
          MaxRaced      \* either bound where requests overlap

ASSUME ScopeAssumption ==
    /\ Keys \subseteq Nat \ {0} /\ Fold \in [Keys -> Keys]
    /\ MaxResults \in Nat /\ MaxEdits \in Nat /\ MaxRaced \in 0..MaxEdits

VARIABLES scope,      \* key -> its row, as a set of at most one
          results,    \* the sync results, oldest first
          approvals,  \* the asset approvals
          scTxn,      \* request -> what it has read, or its dry run shows
          edits,      \* direct edits so far
          scOverlap   \* whether requests overlap

scVars == <<scope, results, approvals, scTxn, edits, scOverlap>>

ScIdle == [op |-> "idle"]
NoId == {0, -1}        \* a blank and a manufacturer's placeholder, as ids
Statuses == {"active", "decommissioned", "pending_approval"}
Sources == {"manual", "workbook", "liongard"}
Resolutions == {"pending", "approved", "rejected"}

ScopeRow == [status : Statuses, bound : BOOLEAN, source : Sources,
             data : Nat, overlay : Nat]
SyncChange == [data : Nat, resolution : Resolutions]
ResultStatus == {"pending_review", "reviewed", "superseded", "no_changes"}
Approval == [key : Keys, res : 1..MaxResults, verdict : {"approved", "rejected"}]

\* What the feeds hold and people enter; POST and PATCH set the source.
ASSUME FeedAssumption ==
    /\ Inventories \subseteq Seq([ids : Seq(Keys \cup NoId), data : Nat])
    /\ Sheets \subseteq Seq([ids : Seq(Keys \cup NoId), data : Nat, overlay : Nat,
                             status : Statuses])
    /\ \A e \in Edits : e \in ScopeRow /\ e.source = "manual"

ScTypeOK ==
    /\ \A k \in Keys : scope[k] \subseteq ScopeRow /\ Cardinality(scope[k]) <= 1
    /\ Len(results) <= MaxResults
    /\ \A i \in DOMAIN results :
          /\ results[i].status \in ResultStatus
          /\ DOMAIN results[i].news \subseteq Keys
          /\ \A k \in DOMAIN results[i].news : results[i].news[k] \in SyncChange
    /\ approvals \subseteq Approval
    /\ \A r \in ScRequests : scTxn[r].op \in {"idle", "screen", "import", "sync", "decide", "counted"}
    /\ edits \in 0..MaxEdits
    /\ scOverlap \in BOOLEAN

-----------------------------------------------------------------------------

\* Reading a feed.  A record's ids are tried in order; a blank or a placeholder
\* identifies nothing, and a record with neither is skipped.
NaturalKeys(rec) == {i \in DOMAIN rec.ids : rec.ids[i] \notin NoId}
NaturalKey(rec) == rec.ids[Min(NaturalKeys(rec))]

Usable(feed) == {i \in DOMAIN feed : NaturalKeys(feed[i]) # {}}

DeviceOrPerson(rec) ==
    [key |-> NaturalKey(rec), data |-> rec.data, overlay |-> 0,
     status |-> "active", bound |-> TRUE, source |-> "liongard"]

WorkbookRow(rec) ==
    [key |-> NaturalKey(rec), data |-> rec.data, overlay |-> rec.overlay,
     status |-> rec.status, bound |-> TRUE, source |-> "workbook"]

\* The entities read, one for each identity: the last record of several.
Incoming(entities) ==
    LET Spells(f) == {i \in DOMAIN entities : Fold[entities[i].key] = f}
    IN {entities[Max(Spells(f))] : f \in {x \in Range(Fold) : Spells(x) # {}}}

\* reconcile: the row an incoming entity is compared with, and the verdict.
Current(inc) == {k \in Keys : scope[k] # {} /\ Fold[k] = Fold[inc.key]}
Row(k) == CHOOSE row \in scope[k] : TRUE

IsNew(inc) == Current(inc) = {}

FieldDiffs(inc) ==
    LET cur == Row(Max(Current(inc)))
    IN \/ cur.data # inc.data
       \/ inc.overlay # 0 /\ cur.overlay # inc.overlay
       \/ inc.status = "decommissioned" /\ cur.status # "decommissioned"

IsChanged(inc) == ~ IsNew(inc) /\ FieldDiffs(inc)

\* repo.upsert: what it refuses and what it stores over the row it found.
Refused(read, e) == e.status = "pending_approval"
                    \/ \E row \in read : row.status = "pending_approval"

Stored(e) == [status |-> e.status, bound |-> e.bound, source |-> e.source,
              data |-> e.data, overlay |-> e.overlay]

\* Mutant: the workbook's value replaces what a connector supplied.
Merged_precedence(row, e) ==
    [status  |-> IF e.source = "liongard" \/ row.status = "decommissioned"
                 THEN row.status ELSE e.status,
     bound   |-> row.bound, source |-> e.source, data |-> e.data,
     overlay |-> IF e.source = "liongard" \/ e.overlay = 0
                 THEN row.overlay ELSE e.overlay]

Merged(row, e) ==
    LET sync == e.source = "liongard"
        keepsSource == row.source = "liongard" /\ ~ sync
    IN [status  |-> IF sync \/ row.status = "decommissioned" THEN row.status ELSE e.status,
        bound   |-> row.bound,
        source  |-> IF keepsSource THEN row.source ELSE e.source,
        data    |-> IF (keepsSource /\ row.data # 0) \/ (row.source # e.source /\ e.data = 0)
                    THEN row.data ELSE e.data,
        overlay |-> IF sync \/ e.overlay = 0 THEN row.overlay ELSE e.overlay]

Upsert(read, e) == IF read = {} THEN {Stored(e)} ELSE {Merged(row, e) : row \in read}

\* An update writes the columns that differ from what was read, whole.
Attributes == {"data", "overlay"}
Column(f) == IF f \in Attributes THEN Attributes ELSE {f}

Written(read, new, cur) ==
    {[f \in DOMAIN c |-> IF \E g \in Column(f) : n[g] # o[g] THEN n[f] ELSE c[f]] :
        o \in read, n \in new, c \in cur}

\* What a commit leaves of a row: inserted, or updated over what others wrote.
Saved(read, new, cur) == IF read = {} THEN new ELSE Written(read, new, cur)

\* The rows of a list view: what is inside the boundary.
Listed == {k \in Keys : \E row \in scope[k] : row.bound}

PendingIn(i) == {k \in DOMAIN results[i].news : results[i].news[k].resolution = "pending"}
PendingResults == {i \in DOMAIN results : results[i].status = "pending_review"}

\* One at a time, nobody acts while a dry run is on a person's screen.
Ready == scOverlap \/ \A r \in ScRequests : scTxn[r] = ScIdle
Shown(r) == IF scTxn[r].op = "screen" THEN scTxn[r].changes ELSE {}
Start(r, t) == scTxn[r] = ScIdle /\ Ready /\ scTxn' = [scTxn EXCEPT ![r] = t]
Done(r) == scTxn' = [scTxn EXCEPT ![r] = ScIdle]

-----------------------------------------------------------------------------

ScInit ==
    /\ scope = [k \in Keys |-> {}]
    /\ results = <<>>
    /\ approvals = {}
    /\ scTxn = [r \in ScRequests |-> ScIdle]
    /\ edits = 0
    /\ scOverlap \in BOOLEAN

Edited(k, rows) ==
    /\ Ready /\ edits < IF scOverlap THEN MaxRaced ELSE MaxEdits
    /\ scope' = [scope EXCEPT ![k] = rows]
    /\ edits' = edits + 1
    /\ UNCHANGED <<results, approvals, scTxn, scOverlap>>

\* POST stores what it is sent, over an existing row too.
CreateScopeEntity(k, e) ==
    /\ ~ Refused(scope[k], e)
    /\ Edited(k, {Stored(e)})

\* PATCH keeps the source, and the attributes it is not sent.
PatchScopeEntity(k, e) ==
    /\ scope[k] # {} /\ ~ Refused(scope[k], e)
    /\ LET row == Row(k)
       IN Edited(k, {[Stored(e) EXCEPT !.source = row.source,
                         !.data = IF e.data = 0 THEN row.data ELSE e.data,
                         !.overlay = IF e.overlay = 0 THEN row.overlay ELSE e.overlay]})

\* The approvals' foreign key restricts.
DeleteScopeEntity(k) ==
    /\ scope[k] # {}
    /\ \A a \in approvals : a.key # k
    /\ Edited(k, {})

Screen(changes) == IF changes = {} THEN ScIdle ELSE [op |-> "screen", changes |-> changes]

\* The workbook's dry run: nothing is written, the differences are shown.
ImportDryRun(r, sheet) ==
    /\ LET incoming == Incoming([i \in Usable(sheet) |-> WorkbookRow(sheet[i])])
       IN Start(r, Screen({e \in incoming : IsNew(e) \/ IsChanged(e)}))
    /\ UNCHANGED <<scope, results, approvals, edits, scOverlap>>

\* What a person confirmed of the changes shown is written in one transaction;
\* nothing of it is compared with the scope again.
ImportBegin(r, batch) ==
    /\ scTxn[r].op = "screen"
    /\ scTxn' = [scTxn EXCEPT ![r] =
          IF batch = {} THEN ScIdle
          ELSE [op |-> "import", batch |-> batch, left |-> batch,
                read |-> [k \in Keys |-> {}]]]
    /\ UNCHANGED <<scope, results, approvals, edits, scOverlap>>

\* One turn of import_apply's loop: upsert reads the row, or refuses.
Unread(r) == IF scTxn[r].op = "import" THEN scTxn[r].left ELSE {}

ImportRow(r, e) ==
    LET t == scTxn[r]
    IN /\ ~ Refused(scope[e.key], e)
       /\ scTxn' = [scTxn EXCEPT ![r] =
             [op |-> "import", batch |-> t.batch, left |-> t.left \ {e},
              read |-> [t.read EXCEPT ![e.key] = scope[e.key]]]]
       /\ UNCHANGED <<scope, results, approvals, edits, scOverlap>>

ImportCommit(r) ==
    LET t == scTxn[r]
        For(k) == CHOOSE e \in t.batch : e.key = k
    IN /\ t.op = "import" /\ t.left = {}
       /\ \A e \in t.batch : (t.read[e.key] = {}) = (scope[e.key] = {})
       /\ scope' = [k \in Keys |->
                       IF \E e \in t.batch : e.key = k
                       THEN Saved(t.read[k], Upsert(t.read[k], For(k)), scope[k])
                       ELSE scope[k]]
       /\ Done(r)
       /\ UNCHANGED <<results, approvals, edits, scOverlap>>

\* pull_and_reconcile, and persist_sync_result's look at what is still pending.
\* A new entity is pending, whatever the pull said of its status.
SyncBegin(r, how, inv) ==
    /\ Len(results) < IF scOverlap THEN MaxRaced ELSE MaxResults
    /\ LET incoming == Incoming([i \in Usable(inv) |-> DeviceOrPerson(inv[i])])
       IN Start(r, [op |-> "sync", how |-> how, prior |-> PendingResults,
                    new |-> {[e EXCEPT !.status = "pending_approval"] :
                                e \in {x \in incoming : IsNew(x)}},
                    changed |-> {e \in incoming : IsChanged(e)}])
    /\ UNCHANGED <<scope, results, approvals, edits, scOverlap>>

Superseded(prior) ==
    [i \in DOMAIN results |->
        IF i \in prior THEN [results[i] EXCEPT !.status = "superseded"] ELSE results[i]]

ResultOf(t) ==
    [status |-> IF t.new # {} THEN "pending_review" ELSE "no_changes",
     news |-> [k \in {e.key : e \in t.new} |->
                 [data |-> (CHOOSE e \in t.new : e.key = k).data, resolution |-> "pending"]]]

\* The scheduled and the immediate sync keep every result, the dry run those
\* with something new; it shows its person every change.
SyncCommit(r) ==
    LET t == scTxn[r]
    IN /\ t.op = "sync"
       /\ IF t.how = "dry_run" /\ t.new = {}
          THEN UNCHANGED results
          ELSE /\ Len(results) < MaxResults
               /\ results' = Append(Superseded(t.prior), ResultOf(t))
       /\ scTxn' = [scTxn EXCEPT ![r] = IF t.how = "dry_run"
                                    THEN Screen(t.new \cup t.changed) ELSE ScIdle]
       /\ UNCHANGED <<scope, approvals, edits, scOverlap>>

\* Mutant: a change is decided a second time.
DecideBegin_again(r, i, k, verdict) ==
    /\ i \in DOMAIN results /\ k \in DOMAIN results[i].news
    /\ Start(r, [op |-> "decide", res |-> i, key |-> k, verdict |-> verdict,
                 read |-> scope[k]])
    /\ UNCHANGED <<scope, results, approvals, edits, scOverlap>>

\* approve_change and reject_change read the change and the row of its key.
DecideBegin(r, i, k, verdict) ==
    /\ i \in DOMAIN results /\ k \in PendingIn(i)
    /\ Start(r, [op |-> "decide", res |-> i, key |-> k, verdict |-> verdict,
                 read |-> scope[k]])
    /\ UNCHANGED <<scope, results, approvals, edits, scOverlap>>

Decided(t) ==
    [key |-> t.key, data |-> results[t.res].news[t.key].data, overlay |-> 0,
     status |-> "active", bound |-> t.verdict = "approved", source |-> "liongard"]

\* _maybe_mark_reviewed, after the change k is resolved.
Reviewed(i, k) == results[i].status = "pending_review" /\ PendingIn(i) \subseteq {k}

\* The changes left are counted some time before the decision is committed, or
\* at once.
DecideCount(r) ==
    LET t == scTxn[r]
    IN /\ t.op = "decide"
       /\ scTxn' = [scTxn EXCEPT ![r] = [op |-> "counted", res |-> t.res, key |-> t.key,
              verdict |-> t.verdict, read |-> t.read, last |-> Reviewed(t.res, t.key)]]
       /\ UNCHANGED <<scope, results, approvals, edits, scOverlap>>

DecideCommit(r) ==
    LET t == scTxn[r]
        new == Upsert(t.read, Decided(t))
        last == IF t.op = "counted" THEN t.last ELSE Reviewed(t.res, t.key)
    IN /\ t.op \in {"decide", "counted"}
       /\ (t.read = {}) = (scope[t.key] = {})
       /\ scope' = [scope EXCEPT ![t.key] = Saved(t.read, new, @)]
       /\ approvals' = approvals \cup {[key |-> t.key, res |-> t.res, verdict |-> t.verdict]}
       /\ results' = [results EXCEPT
                        ![t.res].news[t.key].resolution = t.verdict,
                        ![t.res].status = IF last THEN "reviewed" ELSE @]
       /\ Done(r)
       /\ UNCHANGED <<edits, scOverlap>>

\* An entity is refused, the row came or went meanwhile (the unique key or the
\* row count), or the database fails: nothing is kept.
RollBack(r) ==
    /\ scTxn[r].op \in {"import", "decide", "counted"}
    /\ Done(r)
    /\ UNCHANGED <<scope, results, approvals, edits, scOverlap>>

ScNext ==
    \/ \E k \in Keys : DeleteScopeEntity(k) \/ \E e \in Edits :
                          CreateScopeEntity(k, e) \/ PatchScopeEntity(k, e)
    \/ \E r \in ScRequests :
          \/ \E sheet \in Sheets : ImportDryRun(r, sheet)
          \/ \E batch \in SUBSET Shown(r) : ImportBegin(r, batch)
          \/ \E e \in Unread(r) : ImportRow(r, e)
          \/ ImportCommit(r)
          \/ \E inv \in Inventories, how \in {"dry_run", "sync"} : SyncBegin(r, how, inv)
          \/ SyncCommit(r)
          \/ \E i \in 1..MaxResults, k \in Keys, v \in {"approved", "rejected"} :
                DecideBegin(r, i, k, v)
          \/ DecideCount(r) \/ DecideCommit(r) \/ RollBack(r)

-----------------------------------------------------------------------------

\* A row of the scope is never pending: a pending entity waits in the queue of
\* a sync result, where it can be decided, and no writer of repo.upsert lets
\* one through (PendingApprovalWriteError).
NothingIsStranded == \A k \in Keys : \A row \in scope[k] : row.status # "pending_approval"

\* Every approval and every rejection keeps the row it is about, in any order
\* of decisions and deletes (asset_approval's foreign key).
DecisionsKeepTheirRow == \A a \in approvals : scope[a.key] # {}

\* A sync result that says reviewed has no entity left to decide, and while
\* requests run one at a time one that says pending_review has.
ReviewedMeansDecided ==
    \A i \in DOMAIN results :
        /\ results[i].status = "reviewed" => PendingIn(i) = {}
        /\ ~scOverlap /\ results[i].status = "pending_review" => PendingIn(i) # {}

\* One request at a time, only the newest pull waits for review, and a change
\* is decided one way.
OneQueueOneDecision ==
    ~scOverlap =>
        /\ Cardinality(PendingResults) <= 1
        /\ \A a, b \in approvals : a.key = b.key /\ a.res = b.res => a = b

FeedStep == edits' = edits

\* No import, no sync and no decision on a sync moves an existing row across
\* the boundary or brings it back into service, whatever was committed since it
\* read the row; one request at a time it erases nothing a person knew.
FeedsKeepHumanFacts ==
    [][FeedStep => \A k \in Keys : \A row \in scope[k], new \in scope'[k] :
          /\ new.bound = row.bound
          /\ row.status = "decommissioned" => new.status = "decommissioned"
          /\ ~scOverlap /\ row.overlay # 0 => new.overlay # 0]_scVars

\* One request at a time, what Liongard supplied stands against a workbook: an
\* import leaves the row's value and its source.
ConnectorValueStands ==
    [][~scOverlap => \A r \in ScRequests :
          ImportCommit(r) /\ (\A e \in scTxn[r].batch : e.source = "workbook") =>
             \A k \in Keys : \A row \in scope[k], new \in scope'[k] :
                row.source = "liongard" /\ row.data # 0
                   => new.data = row.data /\ new.source = "liongard"]_scVars

\* One request at a time, an entity that only Liongard has reported, under any
\* spelling, enters the scope by a person's decision.
NothingEntersUndecided ==
    [][~scOverlap => \A k \in Keys : \A new \in scope'[k] :
          new.source = "liongard" /\ (\A j \in Keys : Fold[j] = Fold[k] => scope[j] = {})
             => \E a \in approvals' \ approvals : a.key = k]_scVars

\* What reject_change says of itself: the entity is remembered outside the
\* boundary.
RejectedIsOut ==
    [][\A a \in approvals' \ approvals : a.verdict = "rejected" => a.key \notin Listed']_scVars

\* The queue of each sync result and the approvals agree with each other and with
\* the scope, over pulls that supersede pulls and decisions on either
\* (approve_change, reject_change, persist_sync_result).
DecisionsAreSound ==
    /\ NothingIsStranded /\ DecisionsKeepTheirRow
    /\ ReviewedMeansDecided /\ OneQueueOneDecision

\* People outrank Liongard and Liongard outranks a workbook, over any order of
\* imports, pulls, edits and decisions (repo.upsert's precedence).
SourcesKeepTheirRank ==
    FeedsKeepHumanFacts /\ ConnectorValueStands /\ NothingEntersUndecided

\* What domain.py says of the overlay attributes: carried forward across any
\* import or sync that does not supply them.  Refuted: upsert carries forward
\* the overlay it read, in the column it writes whole.
OverlayStands ==
    [][FeedStep => \A k \in Keys : \A row \in scope[k], new \in scope'[k] :
          row.overlay # 0 => new.overlay # 0]_scVars
=============================================================================
