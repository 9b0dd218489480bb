--------------------------- MODULE AssessmentTxn ---------------------------
(***************************************************************************)
(* The transactions of the assessment engine's requests, interleaved on    *)
(* one assessment at READ COMMITTED: what a request reads, when its        *)
(* session flushes, which row locks the flush takes and holds to the end,  *)
(* the SELECT ... FOR UPDATE of recompute_sprs and the commit.             *)
(*                                                                         *)
(* A statement sees the committed rows and the request's own flushed       *)
(* writes.  A flush updates only the columns the request changed from what *)
(* it had loaded, waits for the rows another request has updated, and then *)
(* writes what it computed from its earlier read.  Nothing is visible to   *)
(* others before the commit.  The assessment itself is loaded when the     *)
(* request arrives and the lock does not refresh it: a computed score that *)
(* equals the loaded one is not written over what others committed since,  *)
(* but always starts a new row of the score's series.                      *)
(***************************************************************************)
EXTENDS Assessment, Sequences

CONSTANTS
    Requests,        \* requests that may be in flight together
    Products,
    Versions,        \* baseline versions, numbered from 1
    Claim,           \* what a version claims of an objective, or "none"
    Current,         \* each product's current version
    Operations,      \* the operations a run interleaves
    PatchStatuses    \* statuses a person sets by hand

ASSUME ClaimAssumption ==
    /\ Versions \subseteq Nat \ {0}
    /\ Claim \in [Products -> [Versions ->
                    [Objectives -> {"none", "provider_satisfies", "shared"}]]]
    /\ Current \in [Products -> Versions]
    /\ PatchStatuses \subseteq Status
    /\ Operations \subseteq {"patch", "activate", "deactivate", "move", "snapshot", "detach"}

VARIABLES
    orgProduct,      \* committed org_product rows: status, pinned version
    state,           \* committed control_state rows
    contributor,     \* committed control_state_contributor rows: version, or 0
    link,            \* committed evidence_state_link rows: one upload per objective
    score,           \* committed assessment.sprs_score
    series,          \* score of the newest committed sprs_snapshot row
    txn,             \* the requests' transactions
    held,            \* rows each transaction has updated or locked
    share            \* transactions holding FOR KEY SHARE on the assessment

db   == <<orgProduct, state, contributor, link, score, series>>
vars == <<orgProduct, state, contributor, link, score, series, txn, held, share>>

NoProduct == "no product"
Keep == "keep"       \* a column a flush does not write
KeepRow == -1        \* likewise, for a version

OrgRow(p)  == <<"org_product", p>>
StateRow(o) == <<"control_state", o>>
ContributorRow(o, p) == <<"control_state_contributor", o, p>>
LinkRow(o) == <<"evidence_state_link", o>>
AssessmentRow == <<"assessment">>

\* The statements of each request, in order.
Program ==
    [patch      |-> <<"read_states", "write_states", "lock", "score", "commit">>,
     activate   |-> <<"read_op", "write_op", "read_links", "write_links", "read_states",
                      "write_states", "fanout", "review", "lock", "score", "commit">>,
     deactivate |-> <<"read_op", "write_op", "read_states", "remaining", "write_states",
                      "read_links", "write_links", "lock", "score", "commit">>,
     move       |-> <<"read_op", "read_states", "write_states", "write_op", "fanout",
                      "lock", "score", "commit">>,
     snapshot   |-> <<"lock", "score", "commit">>,
     detach     |-> <<"read_links", "write_links", "commit">>]

-----------------------------------------------------------------------------
(* A transaction: its arguments, what it loaded and what it writes.        *)

NoWrite == [status |-> Keep, responsibility |-> Keep]
NoLinkWrite == [cause |-> Keep, by |-> Keep]

Idle ==
    [op |-> "none", step |-> 0,
     product |-> NoProduct, version |-> 0,        \* the product, the version it claims from
     objectives |-> {},                           \* patched, detached or left objectives
     status |-> Keep,                             \* the patch's
     asked |-> FALSE, shown |-> {}, keep |-> {},  \* the person's decisions at activation
     org |-> [status |-> "absent", pin |-> 0],    \* the org_product row as loaded
     had |-> {},                                  \* objectives it contributed to, as loaded
     loaded |-> [o \in Objectives |-> "customer_owns"],  \* responsibilities, as loaded
     state |-> [o \in Objectives |-> NoWrite],
     contributor |-> [o \in Objectives |-> KeepRow],
     link |-> [o \in Objectives |-> NoLinkWrite],
     was |-> 0,                                   \* sprs_score, as loaded
     score |-> 0]

At(r, step) == txn[r].op # "none" /\ Program[txn[r].op][txn[r].step] = step

\* A column after a write of it, and the write of a column: an attribute that
\* keeps its loaded value is not in the UPDATE.
Put(old, new) == IF new = Keep THEN old ELSE new
Changed(loaded, new) == IF new = loaded THEN Keep ELSE new

PutState(o, w) == [status |-> Put(state[o].status, w.status),
                   responsibility |-> Put(state[o].responsibility, w.responsibility)]
PutLink(o, w) == [cause |-> Put(link[o].cause, w.cause), by |-> Put(link[o].by, w.by)]

\* The control states a statement of r sees: the committed ones under its own
\* flushed writes.
View(r) ==
    [o \in Objectives |->
        IF StateRow(o) \in held[r] THEN PutState(o, txn[r].state[o]) ELSE state[o]]

Covers(p, v) == {o \in Objectives : Claim[p][v][o] # "none"}
Contributors(o) == {p \in Products : contributor[o][p] # 0}
Classifications(o, among) ==
    {Claim[p][contributor[o][p]][o] : p \in Contributors(o) \cap among}

Init ==
    /\ orgProduct = [p \in Products |-> [status |-> "absent", pin |-> 0]]
    /\ state = [o \in Objectives |-> [status |-> "not_met", responsibility |-> "customer_owns"]]
    /\ contributor = [o \in Objectives |-> [p \in Products |-> 0]]
    /\ link = [o \in Objectives |-> [cause |-> "live", by |-> NoProduct]]
    /\ score = compute_sprs([o \in Objectives |-> "not_met"])
    /\ series = score
    /\ txn = [r \in Requests |-> Idle]
    /\ held = [r \in Requests |-> {}]
    /\ share = {}

-----------------------------------------------------------------------------
(* Transactions end by commit or by rollback; either releases the locks.   *)

Release(r) ==
    /\ txn' = [txn EXCEPT ![r] = Idle]
    /\ held' = [held EXCEPT ![r] = {}]
    /\ share' = share \ {r}

Rollback(r) == Release(r) /\ UNCHANGED db

Continue(r, t) == txn' = [txn EXCEPT ![r] = [t EXCEPT !.step = @ + 1]]

\* r may take the rows: nobody else has updated or locked them.
Free(r, rows) == \A q \in Requests \ {r} : held[q] \cap rows = {}
Take(r, rows) == held' = [held EXCEPT ![r] = @ \cup rows]

-----------------------------------------------------------------------------
(* The requests.                                                           *)

Judged(p, v) ==
    {o \in Covers(p, v) :
        /\ contributor[o][p] = 0
        /\ is_judgement_in_question(state[o].status, Contributors(o) = {})}

Request(r, op, t) ==
    /\ op \in Operations
    /\ txn[r].op = "none"
    /\ txn' = [txn EXCEPT ![r] = [t EXCEPT !.op = op, !.step = 1, !.was = score]]
    /\ UNCHANGED <<db, held, share>>

PatchRequest(r) ==
    \E o \in Objectives, s \in PatchStatuses :
        Request(r, "patch", [Idle EXCEPT !.objectives = {o}, !.status = s])

\* The person confirms what an earlier preview showed them: the judged
\* objectives, each at the status it had.  An API call asks nobody.
ActivateRequest(r) ==
    \E p \in Products :
        LET v == IF orgProduct[p].pin = 0 THEN Current[p] ELSE orgProduct[p].pin
        IN  \/ Request(r, "activate", [Idle EXCEPT !.product = p])
            \/ \E keep \in SUBSET Judged(p, v) :
                  Request(r, "activate",
                      [Idle EXCEPT !.product = p, !.asked = TRUE, !.keep = keep,
                           !.shown = {<<o, state[o].status>> : o \in Judged(p, v)}])

DeactivateRequest(r) ==
    \E p \in Products : Request(r, "deactivate", [Idle EXCEPT !.product = p])

MoveRequest(r) ==
    \E p \in Products, v \in Versions :
        Request(r, "move", [Idle EXCEPT !.product = p, !.version = v])

SnapshotRequest(r) == Request(r, "snapshot", Idle)

DetachRequest(r) ==
    \E o \in Objectives : Request(r, "detach", [Idle EXCEPT !.objectives = {o}])

-----------------------------------------------------------------------------
(* org_product.                                                            *)

\* Loads the row; a deactivation or a move of what is not active, and a move
\* to the version it is on, is refused.
ReadOrgProduct(r) ==
    LET t == txn[r]
        row == orgProduct[t.product]
        v == CASE t.op = "move" -> t.version
               [] row.pin = 0   -> Current[t.product]
               [] OTHER         -> row.pin
        refused == \/ t.op # "activate" /\ row.status # "active"
                   \/ t.op = "move" /\ row.pin = t.version
    IN  /\ At(r, "read_op")
        /\ IF refused THEN Rollback(r)
           ELSE /\ Continue(r, [t EXCEPT !.org = row, !.version = v])
                /\ UNCHANGED <<db, held, share>>

\* The flush that activates, decommissions or repins the row.  A second first
\* activation of the product hits the row's unique constraint.
WriteOrgProduct(r) ==
    LET t == txn[r]
        rows == {OrgRow(t.product)}
        duplicate == /\ t.op = "activate"
                     /\ t.org.status = "absent"
                     /\ orgProduct[t.product].status # "absent"
    IN  /\ At(r, "write_op")
        /\ Free(r, rows)
        /\ IF duplicate THEN Rollback(r)
           ELSE /\ Take(r, rows)
                /\ Continue(r, t)
                /\ UNCHANGED <<db, share>>

\* MUTANT: a deactivation drops the row, as if the product had never been there.
OrgProductAfter_unpinned(t) ==
    LET row == orgProduct[t.product]
    IN  CASE t.op = "activate" -> [status |-> "active", pin |-> t.version]
          [] t.op = "deactivate" -> [status |-> "inactive", pin |-> 0]
          [] t.op = "move" -> [row EXCEPT !.pin = t.version]

\* The row as the commit leaves it: the columns the request changed.
OrgProductAfter(t) ==
    LET row == orgProduct[t.product]
    IN  CASE t.op = "activate" ->
                [status |-> IF t.org.status = "active" THEN row.status ELSE "active",
                 pin |-> IF t.org.pin = t.version THEN row.pin ELSE t.version]
          [] t.op = "deactivate" -> [row EXCEPT !.status = "decommissioned"]
          [] t.op = "move" -> [row EXCEPT !.pin = t.version]

-----------------------------------------------------------------------------
(* Evidence links: activation restores what the product's deactivation     *)
(* archived, deactivation archives the live ones of the objectives it      *)
(* leaves, a person detaches one.                                          *)

LinkWrite(t, o) ==
    LET after == CASE t.op = "activate"   -> [cause |-> "live", by |-> NoProduct]
                   [] t.op = "deactivate" -> [cause |-> "deactivation", by |-> t.product]
                   [] t.op = "detach"     -> [cause |-> "detached", by |-> NoProduct]
    IN  [cause |-> Changed(link[o].cause, after.cause), by |-> Changed(link[o].by, after.by)]

ReadLinks(r) ==
    LET t == txn[r]
        found == CASE t.op = "activate" -> {o \in Objectives : link[o].by = t.product}
                   [] t.op = "deactivate" -> {o \in t.objectives : link[o].cause = "live"}
                   [] t.op = "detach" ->
                        {o \in t.objectives :
                            link[o].cause = "live" \/ link[o].by # NoProduct}
    IN  /\ At(r, "read_links")
        /\ IF t.op = "detach" /\ found = {} THEN Rollback(r)
           ELSE /\ Continue(r, [t EXCEPT !.link =
                      [o \in Objectives |-> IF o \in found THEN LinkWrite(t, o)
                                            ELSE NoLinkWrite]])
                /\ UNCHANGED <<db, held, share>>

LinkWrites(t) == {o \in Objectives : t.link[o] # NoLinkWrite}

\* ck_evidence_state_link_product_is_deactivation refuses a link that names a
\* product for any other cause.
WriteLinks(r) ==
    LET t == txn[r]
        rows == {LinkRow(o) : o \in LinkWrites(t)}
        violates == \E o \in LinkWrites(t) :
                       LET l == PutLink(o, t.link[o])
                       IN  l.by # NoProduct /\ l.cause # "deactivation"
    IN  /\ At(r, "write_links")
        /\ Free(r, rows)
        /\ IF violates THEN Rollback(r)
           ELSE /\ Take(r, rows)
                /\ Continue(r, t)
                /\ UNCHANGED <<db, share>>

-----------------------------------------------------------------------------
(* Control states and contributor rows.                                    *)

\* The write of a state from the committed one: the changed columns.
StateWrite(o, status, responsibility) ==
    [status |-> Changed(state[o].status, status),
     responsibility |-> Changed(state[o].responsibility, responsibility)]

PatchRead(r) ==
    LET t == txn[r]
    IN  /\ At(r, "read_states") /\ t.op = "patch"
        /\ Continue(r, [t EXCEPT !.state = [o \in Objectives |->
              IF o \in t.objectives
              THEN StateWrite(o, t.status, state[o].responsibility) ELSE NoWrite]])
        /\ UNCHANGED <<db, held, share>>

\* The product joins o on top of the contributors just read.
JoinWrite(o, p, v, keep) ==
    StateWrite(o,
        contributor_added_status(state[o].status, Contributors(o) = {}, o \in keep),
        resolve_contributor_responsibility(
            Classifications(o, Products) \cup {Claim[p][v][o]}))

\* _run_loop's reads: refused when the judged objectives are not the ones the
\* person was shown, each still at the status shown.
ActivateRead(r) ==
    LET t == txn[r]
        joined == {o \in Covers(t.product, t.version) : contributor[o][t.product] = 0}
        judged == {<<o, state[o].status>> : o \in Judged(t.product, t.version)}
    IN  /\ At(r, "read_states") /\ t.op = "activate"
        /\ IF t.asked /\ judged # t.shown THEN Rollback(r)
           ELSE /\ Continue(r, [t EXCEPT
                      !.state = [o \in Objectives |->
                          IF o \in joined THEN JoinWrite(o, t.product, t.version, t.keep)
                          ELSE NoWrite],
                      !.contributor = [o \in Objectives |->
                          IF o \in joined THEN t.version ELSE KeepRow]])
                /\ UNCHANGED <<db, held, share>>

\* The objectives the product contributes to, and their states.
DeactivateRead(r) ==
    LET t == txn[r]
        left == {o \in Objectives : contributor[o][t.product] # 0}
    IN  /\ At(r, "read_states") /\ t.op = "deactivate"
        /\ Continue(r, [t EXCEPT
              !.objectives = left, !.had = left,
              !.loaded = [o \in Objectives |-> state[o].responsibility],
              !.state = [o \in Objectives |->
                  IF o \in left
                  THEN StateWrite(o, "needs_review", state[o].responsibility) ELSE NoWrite],
              !.contributor = [o \in Objectives |-> IF o \in left THEN 0 ELSE KeepRow]])
        /\ UNCHANGED <<db, held, share>>

\* Its rows are deleted, and the survivors read.
Remaining(r) ==
    LET t == txn[r]
        rows == {ContributorRow(o, t.product) : o \in t.objectives}
        others(o) == Classifications(o, Products \ {t.product})
    IN  /\ At(r, "remaining")
        /\ Free(r, rows)
        /\ Take(r, rows)
        /\ Continue(r, [t EXCEPT !.state = [o \in Objectives |->
              IF o \in t.objectives /\ others(o) # {}
              THEN [t.state[o] EXCEPT !.responsibility =
                       Changed(t.loaded[o], resolve_contributor_responsibility(others(o)))]
              ELSE t.state[o]]])
        /\ UNCHANGED <<db, share>>

\* The old and the new version's claims against the rows just read.
MoveRead(r) ==
    LET t == txn[r]
        p == t.product
        v == t.version
        had == {o \in Objectives : contributor[o][p] # 0}
        dropped == (Covers(p, t.org.pin) \ Covers(p, v)) \cap had
        gained == (Covers(p, v) \ Covers(p, t.org.pin)) \ had
        reclassified == {o \in Covers(p, v) \cap Covers(p, t.org.pin) \cap had :
                            Claim[p][v][o] # Claim[p][t.org.pin][o]}
        others(o) == Classifications(o, Products \ {p})
        Write(o) ==
            CASE o \in dropped -> StateWrite(o, "needs_review",
                     IF others(o) = {} THEN state[o].responsibility
                     ELSE resolve_contributor_responsibility(others(o)))
              [] o \in gained -> JoinWrite(o, p, v, {})
              [] o \in reclassified -> StateWrite(o, "needs_review",
                     resolve_contributor_responsibility(others(o) \cup {Claim[p][v][o]}))
              [] OTHER -> NoWrite
    IN  /\ At(r, "read_states") /\ t.op = "move"
        /\ Continue(r, [t EXCEPT
              !.had = had,
              !.state = [o \in Objectives |-> Write(o)],
              !.contributor = [o \in Objectives |->
                  CASE o \in dropped -> 0
                    [] o \in gained \cup reclassified -> v
                    [] OTHER -> KeepRow]])
        /\ UNCHANGED <<db, held, share>>

\* The flush of both.  A row inserted meanwhile breaks the insert's unique
\* constraint; one deleted meanwhile fails the update of it.
WriteStates(r) ==
    LET t == txn[r]
        changed == {o \in Objectives : t.contributor[o] # KeepRow}
        rows == {StateRow(o) : o \in {x \in Objectives : t.state[x] # NoWrite}}
                  \cup {ContributorRow(o, t.product) : o \in changed}
        conflict == \E o \in changed : /\ t.contributor[o] # 0
                                       /\ (contributor[o][t.product] # 0) # (o \in t.had)
    IN  /\ At(r, "write_states")
        /\ Free(r, rows)
        /\ IF conflict THEN Rollback(r)
           ELSE /\ Take(r, rows)
                /\ Continue(r, t)
                /\ UNCHANGED <<db, share>>

\* New evidence tasks reference the assessment: their insert takes FOR KEY
\* SHARE on its row.  There may be none to create.
Fanout(r) ==
    /\ At(r, "fanout")
    /\ \/ /\ Free(r, {AssessmentRow})
          /\ share' = share \cup {r}
       \/ UNCHANGED share
    /\ Continue(r, txn[r])
    /\ UNCHANGED <<db, held>>

\* An objective that regained evidence and is pending goes to needs_review.
Review(r) ==
    LET t == txn[r]
        regained == {o \in LinkWrites(t) : View(r)[o].status = "pending_evidence"}
        rows == {StateRow(o) : o \in regained}
    IN  /\ At(r, "review")
        /\ Free(r, rows)
        /\ Take(r, rows)
        /\ Continue(r, [t EXCEPT !.state = [o \in Objectives |->
              IF o \in regained THEN [t.state[o] EXCEPT !.status = "needs_review"]
              ELSE t.state[o]]])
        /\ UNCHANGED <<db, share>>

-----------------------------------------------------------------------------
(* recompute_sprs, and the commit.                                         *)

\* MUTANT: no lock on the assessment before the score is computed.
Lock_none(r) ==
    /\ At(r, "lock")
    /\ Continue(r, txn[r])
    /\ UNCHANGED <<db, held, share>>

\* SELECT ... FOR UPDATE: waits for every other lock on the assessment.
Lock(r) ==
    /\ At(r, "lock")
    /\ Free(r, {AssessmentRow})
    /\ share \subseteq {r}
    /\ Take(r, {AssessmentRow})
    /\ Continue(r, txn[r])
    /\ UNCHANGED <<db, share>>

Score(r) ==
    /\ At(r, "score")
    /\ Continue(r, [txn[r] EXCEPT !.score =
          compute_sprs([o \in Objectives |-> View(r)[o].status])])
    /\ UNCHANGED <<db, held, share>>

\* The assessment's score after t's commit: assigned to the assessment that was
\* loaded before the lock, a score equal to the loaded one is not in the UPDATE.
ScoreAfter(t) == IF t.score = t.was THEN score ELSE t.score

Commit(r) ==
    LET t == txn[r]
    IN  /\ At(r, "commit")
        /\ state' = View(r)
        /\ contributor' = [o \in Objectives |-> [p \in Products |->
              IF p = t.product /\ t.contributor[o] # KeepRow THEN t.contributor[o]
              ELSE contributor[o][p]]]
        /\ link' = [o \in Objectives |-> PutLink(o, t.link[o])]
        /\ orgProduct' = [p \in Products |->
              IF OrgRow(p) \in held[r] THEN OrgProductAfter(t) ELSE orgProduct[p]]
        /\ score' = IF t.op = "detach" THEN score ELSE ScoreAfter(t)
        /\ series' = IF t.op = "detach" THEN series ELSE t.score
        /\ Release(r)

-----------------------------------------------------------------------------
(* The database aborts a transaction of a cycle of waits; any request may  *)
(* fail, and then rolls back.                                              *)

\* The rows the next statement of r has to take.
Wanted(r) ==
    LET t == txn[r]
    IN  CASE At(r, "write_op") -> {OrgRow(t.product)}
          [] At(r, "write_links") -> {LinkRow(o) : o \in LinkWrites(t)}
          [] At(r, "remaining") -> {ContributorRow(o, t.product) : o \in t.objectives}
          [] At(r, "write_states") ->
                {StateRow(o) : o \in {x \in Objectives : t.state[x] # NoWrite}}
                  \cup {ContributorRow(o, t.product) :
                           o \in {x \in Objectives : t.contributor[x] # KeepRow}}
          [] At(r, "review") ->
                {StateRow(o) : o \in {x \in LinkWrites(t) :
                                         View(r)[x].status = "pending_evidence"}}
          [] At(r, "lock") -> {AssessmentRow}
          [] OTHER -> {}

WaitsFor(r) ==
    {q \in Requests \ {r} : \/ held[q] \cap Wanted(r) # {}
                            \/ At(r, "lock") /\ q \in share}

Deadlocked == {r \in Requests :
                  \E s \in SUBSET Requests :
                      r \in s /\ \A q \in s : WaitsFor(q) \cap s # {}}

AbortVictim(r) == r \in Deadlocked /\ Rollback(r)

Fail(r) == txn[r].op # "none" /\ Rollback(r)

Statement(r) ==
    \/ ReadOrgProduct(r) \/ WriteOrgProduct(r)
    \/ ReadLinks(r) \/ WriteLinks(r)
    \/ PatchRead(r) \/ ActivateRead(r) \/ DeactivateRead(r) \/ Remaining(r) \/ MoveRead(r)
    \/ WriteStates(r) \/ Fanout(r) \/ Review(r)
    \/ Lock(r) \/ Score(r) \/ Commit(r)

Arrive(r) ==
    \/ PatchRequest(r) \/ ActivateRequest(r) \/ DeactivateRequest(r)
    \/ MoveRequest(r) \/ SnapshotRequest(r) \/ DetachRequest(r)

Next == \E r \in Requests : Arrive(r) \/ Statement(r) \/ AbortVictim(r) \/ Fail(r)

Spec == Init /\ [][Next]_vars

-----------------------------------------------------------------------------
(* Properties.                                                             *)

Column(S) == S \cup {Keep}

Txn ==
    [op : {"none"} \cup DOMAIN Program, step : 0..11,
     product : Products \cup {NoProduct}, version : Versions \cup {0},
     objectives : SUBSET Objectives, status : Column(Status),
     asked : BOOLEAN, shown : SUBSET (Objectives \X Status), keep : SUBSET Objectives,
     org : [status : {"absent", "active", "decommissioned"}, pin : Versions \cup {0}],
     had : SUBSET Objectives, loaded : [Objectives -> Responsibility],
     state : [Objectives -> [status : Column(Status),
                             responsibility : Column(Responsibility)]],
     contributor : [Objectives -> Versions \cup {0, KeepRow}],
     link : [Objectives -> [cause : Column({"live", "deactivation", "detached"}),
                            by : Column(Products \cup {NoProduct})]],
     was : Int, score : Int]

TypeOK ==
    /\ orgProduct \in [Products -> [status : {"absent", "active", "decommissioned"},
                                    pin : Versions \cup {0}]]
    /\ state \in [Objectives -> [status : Status, responsibility : Responsibility]]
    /\ contributor \in [Objectives -> [Products -> Versions \cup {0}]]
    /\ link \in [Objectives -> [cause : {"live", "deactivation", "detached"},
                                by : Products \cup {NoProduct}]]
    /\ score \in Int
    /\ series \in Int
    /\ txn \in [Requests -> Txn]
    /\ share \subseteq Requests

\* However the requests interleave, fail or wait, the newest row of the score's
\* series has the score the committed control states give (recompute_sprs).
SeriesIsCurrent == series = compute_sprs([o \in Objectives |-> state[o].status])

\* Only a person's edit adds a row with a higher score, whatever a product's
\* request computed from what it read earlier.
OnlyPeopleRaiseTheSeries ==
    [][series' > series =>
          \E r \in Requests : txn[r].op = "patch" /\ Commit(r)]_vars

\* A write of sprs_score is of what the control states committed with it score.
WrittenScoreIsCurrent ==
    [][score' # score =>
          score' = compute_sprs([o \in Objectives |-> state'[o].status])]_vars

\* What recompute_sprs's lock does ensure of the scores that are written.
ScoreWritesAreRight == OnlyPeopleRaiseTheSeries /\ WrittenScoreIsCurrent

-----------------------------------------------------------------------------
(* What the comments say and the interleavings refute: each of these fails *)
(* on a small instance (README, "Departures").                             *)

\* "A transaction that waits here is guaranteed to see everything the first
\* transaction changed": the committed sprs_score is the one of the states.
ScoreIsCurrent == score = compute_sprs([o \in Objectives |-> state[o].status])

\* "A person approves the change they saw, not a later one": an activation
\* that asked changes a judged status only if it was shown at that status.
ApprovedChangesWereShown ==
    [][\A r \in Requests :
          (Commit(r) /\ txn[r].op = "activate" /\ txn[r].asked) =>
              \A o \in Objectives :
                  (/\ state[o].status \in JUDGED_STATUSES
                   /\ state'[o].status # state[o].status) =>
                      <<o, state[o].status>> \in txn[r].shown]_vars

\* A new contributor's responsibility is "resolved against the full set".
ResponsibilityIsResolved ==
    \A o \in Objectives :
        Contributors(o) # {} =>
            (state[o].responsibility = "shared" <=> "shared" \in Classifications(o, Products))

\* The contributor table names the current, live set of contributors.
ContributorsAreCurrent ==
    \A o \in Objectives, p \in Products :
        contributor[o][p] # 0 <=>
            /\ orgProduct[p].status = "active"
            /\ o \in Covers(p, orgProduct[p].pin)

\* What a person detached, nothing restores.
DetachedStaysDetached ==
    [][\A o \in Objectives : link[o].cause = "detached" => link'[o].cause = "detached"]_vars

\* The requests' locks are ordered so that none wait on each other in a circle.
NoLockCycle == Deadlocked = {}
=============================================================================
