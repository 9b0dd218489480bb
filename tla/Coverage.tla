------------------------------ MODULE Coverage ------------------------------
(***************************************************************************)
(* The assessment engine (backend/app/engine.py) one request at a time:    *)
(* which products cover which objectives, what a product's activation,     *)
(* deactivation and version move do to the objectives' states, to the      *)
(* evidence linked to them and to the tasks that collect it, and what a    *)
(* person does in between.  Every action is a whole request, committed     *)
(* once; AssessmentTxn interleaves the requests' transactions.             *)
(*                                                                         *)
(* One organisation.  A product's baseline versions are immutable, so they *)
(* are constants, and an import only makes the next one current.           *)
(***************************************************************************)
EXTENDS Assessment

CONSTANTS
    Assessments,     \* the organisation's assessments on one framework
    Products,        \* products of the baseline library
    MaxVersion,      \* bound: baseline versions a product ever gets
    Baseline,        \* the baseline_control rows of each product's versions
    Artifacts,       \* evidence task identities: (title, artifact type)
    Uploads,         \* evidence that is a file or a reference
    Records,         \* evidence that is a list or a document version
    PatchStatuses    \* statuses a person sets by hand in a run

Versions == 1..MaxVersion
NoProduct == "no product"

\* A baseline_control row: its claim, and the artifacts its evidence specs name.
BaselineRow ==
    [classification : {"provider_satisfies", "shared", "customer_owns"},
     coverage_basis : {"customer_system", "platform_only"},
     objectives     : SUBSET Objectives,
     artifacts      : SUBSET Artifacts]

ASSUME BaselineAssumption ==
    /\ MaxVersion \in Nat
    /\ NoProduct \notin Products
    /\ Uploads \cap Records = {}
    /\ PatchStatuses \subseteq Status
    /\ \A p \in Products : \A v \in Versions :
          /\ DOMAIN Baseline[p][v] \subseteq Controls
          /\ \A c \in DOMAIN Baseline[p][v] :
                /\ Baseline[p][v][c] \in BaselineRow
                /\ \A o \in Baseline[p][v][c].objectives : ControlOf[o] = c

VARIABLES
    product,         \* the library's rows: published, current version
    orgProduct,      \* the organisation's rows: status and pinned version
    assessment,      \* exists, sprs_score
    state,           \* control_state: status and responsibility
    contributor,     \* control_state_contributor: the version its baseline_control belongs to, 0 if no row
    link,            \* evidence_state_link
    task             \* evidence_task and its objectives

vars == <<product, orgProduct, assessment, state, contributor, link, task>>

Evidence == Uploads \cup Records

NoLink    == [cause |-> "unlinked", by |-> NoProduct]
LiveLink  == [cause |-> "live", by |-> NoProduct]
NoTask    == [status |-> "none", archived |-> FALSE, spec |-> <<NoProduct, 0>>, objectives |-> {}]

Link == [cause : {"unlinked", "live", "deactivation", "detached"},
         by : Products \cup {NoProduct}]
Task == [status : {"none", "open", "collected", "na"}, archived : BOOLEAN,
         spec : (Products \cup {NoProduct}) \X (0..MaxVersion),
         objectives : SUBSET Objectives]

TypeOK ==
    /\ product \in [Products -> [published : BOOLEAN, current : 0..MaxVersion]]
    /\ orgProduct \in [Products -> [status : {"absent", "active", "decommissioned"},
                                    pin : 0..MaxVersion]]
    /\ assessment \in [Assessments -> [started : BOOLEAN, score : Int]]
    /\ state \in [Assessments -> [Objectives -> [status : Status,
                                                 responsibility : Responsibility]]]
    /\ contributor \in [Assessments -> [Objectives -> [Products -> 0..MaxVersion]]]
    /\ link \in [Assessments -> [Objectives -> [Evidence -> Link]]]
    /\ task \in [Assessments -> [Artifacts -> Task]]

Seed == [status |-> "not_met", responsibility |-> "customer_owns"]

Init ==
    /\ product = [p \in Products |-> [published |-> FALSE, current |-> 0]]
    /\ orgProduct = [p \in Products |-> [status |-> "absent", pin |-> 0]]
    /\ assessment = [a \in Assessments |-> [started |-> FALSE, score |-> SPRS_MAX]]
    /\ state = [a \in Assessments |-> [o \in Objectives |-> Seed]]
    /\ contributor = [a \in Assessments |-> [o \in Objectives |-> [p \in Products |-> 0]]]
    /\ link = [a \in Assessments |-> [o \in Objectives |-> [e \in Evidence |-> NoLink]]]
    /\ task = [a \in Assessments |-> [k \in Artifacts |-> NoTask]]

-----------------------------------------------------------------------------
(* What a baseline version claims.                                         *)

\* The rows that claim coverage: not customer_owns, not platform_only.
Claimed(p, v) ==
    IF v = 0 THEN {}
    ELSE {c \in DOMAIN Baseline[p][v] :
             /\ Baseline[p][v][c].classification # "customer_owns"
             /\ Baseline[p][v][c].coverage_basis # "platform_only"}

\* magic_loop_updates: the objectives those rows cover.
Covers(p, v) == UNION {Baseline[p][v][c].objectives : c \in Claimed(p, v)}

Classification(p, v, o) == Baseline[p][v][ControlOf[o]].classification

Contributors(a, o) == {p \in Products : contributor[a][o][p] # 0}

\* The classifications of an objective's current contributors, each read
\* through the baseline_control row its contributor row points at.
Classifications(a, o, among) ==
    {Classification(p, contributor[a][o][p], o) : p \in Contributors(a, o) \cap among}

-----------------------------------------------------------------------------
(* recompute_sprs, which closes every handler that touches a state.        *)

recompute_sprs(a, states) ==
    assessment' = [assessment EXCEPT ![a].score =
                      compute_sprs([o \in Objectives |-> states[o].status])]

-----------------------------------------------------------------------------
(* The evidence tasks of the given baseline rows: one task per artifact    *)
(* and assessment.  An artifact that already has a task reuses it as it    *)
(* is, gaining the row's objectives.                                       *)

fanout_evidence_tasks(tasks, p, v, controls) ==
    LET For(k) == {c \in controls : k \in Baseline[p][v][c].artifacts}
        New(k) == UNION {Baseline[p][v][c].objectives : c \in For(k)}
    IN  [k \in Artifacts |->
            IF For(k) = {} THEN tasks[k]
            ELSE IF tasks[k].status = "none"
                 THEN [status |-> "open", archived |-> FALSE,
                       spec |-> <<p, v>>, objectives |-> New(k)]
                 ELSE [tasks[k] EXCEPT !.objectives = @ \cup New(k)]]

-----------------------------------------------------------------------------
(* The library: seeds/baselines.py and the publish endpoints.              *)

\* An import whose mapping differs makes the next version current.  The admin
\* screen's import (reset) also unpublishes a product that had a version; the
\* command line's seeding does not.
ImportBaseline(p, reset) ==
    /\ product[p].current < MaxVersion
    /\ product' = [product EXCEPT ![p] =
          [current   |-> product[p].current + 1,
           published |-> product[p].published /\ ~(reset /\ product[p].current # 0)]]
    /\ UNCHANGED <<orgProduct, assessment, state, contributor, link, task>>

publish_product(p) ==
    /\ product[p].current # 0
    /\ product' = [product EXCEPT ![p].published = TRUE]
    /\ UNCHANGED <<orgProduct, assessment, state, contributor, link, task>>

unpublish_product(p) ==
    /\ product[p].current # 0
    /\ product' = [product EXCEPT ![p].published = FALSE]
    /\ UNCHANGED <<orgProduct, assessment, state, contributor, link, task>>

-----------------------------------------------------------------------------
(* Starting an assessment: every objective is seeded, then every product   *)
(* already active joins the objectives its pinned version covers.  The     *)
(* products come in no particular order, so an artifact several of them    *)
(* name may be seeded by any of them.                                      *)

Pin(p) == orgProduct[p].pin
Active == {p \in Products : orgProduct[p].status = "active" /\ Covers(p, Pin(p)) # {}}
Covering(o) == {p \in Active : o \in Covers(p, Pin(p))}

StartState ==
    [o \in Objectives |->
        IF Covering(o) = {} THEN Seed
        ELSE [status |-> "pending_evidence",
              responsibility |-> resolve_contributor_responsibility(
                  {Classification(p, Pin(p), o) : p \in Covering(o)})]]

StartContributor ==
    [o \in Objectives |-> [p \in Products |-> IF p \in Covering(o) THEN Pin(p) ELSE 0]]

\* The products' rows that name the artifact.
Naming(k) == {r \in Active \X Controls :
                 /\ r[2] \in Claimed(r[1], Pin(r[1]))
                 /\ k \in Baseline[r[1]][Pin(r[1])][r[2]].artifacts}

Seeded(k, p) ==
    [status |-> "open", archived |-> FALSE, spec |-> <<p, Pin(p)>>,
     objectives |-> UNION {Baseline[r[1]][Pin(r[1])][r[2]].objectives : r \in Naming(k)}]

SeededTasks ==
    {tasks \in [Artifacts -> {NoTask} \cup {Seeded(k, p) : k \in Artifacts, p \in Active}] :
        \A k \in Artifacts :
            IF Naming(k) = {} THEN tasks[k] = NoTask
            ELSE \E r \in Naming(k) : tasks[k] = Seeded(k, r[1])}

start_assessment(a) ==
    /\ ~assessment[a].started
    /\ state' = [state EXCEPT ![a] = StartState]
    /\ contributor' = [contributor EXCEPT ![a] = StartContributor]
    /\ \E tasks \in SeededTasks : task' = [task EXCEPT ![a] = tasks]
    /\ assessment' = [assessment EXCEPT ![a] =
          [started |-> TRUE,
           score |-> compute_sprs([o \in Objectives |-> StartState[o].status])]]
    /\ UNCHANGED <<product, orgProduct, link>>

-----------------------------------------------------------------------------
(* Activation.  The first one pins the product's current version and needs *)
(* the product published; a later one reuses the pin.                      *)

\* The objectives the product would join, and those among them a person
\* judged and no product covers yet: the ones activation asks about.
Joins(a, p, v) == {o \in Covers(p, v) : contributor[a][o][p] = 0}
Judged(a, p, v) ==
    {o \in Joins(a, p, v) :
        is_judgement_in_question(state[a][o].status, Contributors(a, o) = {})}

\* _run_loop: the product becomes a contributor of what it joins.
LoopState(a, p, v, keep) ==
    [o \in Objectives |->
        IF o \notin Joins(a, p, v) THEN state[a][o]
        ELSE [status |-> contributor_added_status(
                  state[a][o].status, Contributors(a, o) = {}, o \in keep),
              responsibility |-> resolve_contributor_responsibility(
                  Classifications(a, o, Products) \cup {Classification(p, v, o)})]]

LoopContributor(a, p, v) ==
    [o \in Objectives |->
        IF o \in Joins(a, p, v) THEN [contributor[a][o] EXCEPT ![p] = v]
        ELSE contributor[a][o]]

LoopTask(tasks, p, v) ==
    IF Covers(p, v) = {} THEN tasks
    ELSE fanout_evidence_tasks(tasks, p, v, Claimed(p, v))

\* The archived tasks the pinned version's specs seeded come back; na reopens.
RestoredTasks(a, p, v) ==
    [k \in Artifacts |->
        IF task[a][k].archived /\ task[a][k].spec = <<p, v>>
        THEN [task[a][k] EXCEPT !.archived = FALSE,
                                !.status = IF @ = "na" THEN "open" ELSE @]
        ELSE task[a][k]]

\* MUTANT: the links are found through the contributor rows, which come later.
RestorableLinks_contributed(a, p) ==
    {x \in Objectives \X Evidence :
        link[a][x[1]][x[2]].by = p /\ contributor[a][x[1]][p] # 0}

\* The links this product's deactivation archived.
RestorableLinks(a, p) ==
    {x \in Objectives \X Evidence :
        link[a][x[1]][x[2]].cause # "live" /\ link[a][x[1]][x[2]].by = p}

activate_org_product(a, p, keep) ==
    LET first == orgProduct[p].pin = 0
        v == IF first THEN product[p].current ELSE orgProduct[p].pin
        restored == RestorableLinks(a, p)
        looped == LoopState(a, p, v, keep)
        \* An objective that regained evidence needs a person, not a queue.
        states == [o \in Objectives |->
                      IF /\ looped[o].status = "pending_evidence"
                         /\ \E e \in Evidence : <<o, e>> \in restored
                      THEN [looped[o] EXCEPT !.status = "needs_review"]
                      ELSE looped[o]]
    IN  /\ assessment[a].started
        /\ first => product[p].published /\ product[p].current # 0
        /\ keep \subseteq Judged(a, p, v)
        /\ orgProduct' = [orgProduct EXCEPT ![p] = [status |-> "active", pin |-> v]]
        /\ link' = [link EXCEPT ![a] =
              [o \in Objectives |-> [e \in Evidence |->
                  IF <<o, e>> \in restored THEN LiveLink ELSE link[a][o][e]]]]
        /\ contributor' = [contributor EXCEPT ![a] = LoopContributor(a, p, v)]
        /\ task' = [task EXCEPT ![a] = LoopTask(RestoredTasks(a, p, v), p, v)]
        /\ state' = [state EXCEPT ![a] = states]
        /\ recompute_sprs(a, states)
        /\ UNCHANGED product

-----------------------------------------------------------------------------
(* Deactivation, through one assessment.                                   *)

Sourced(a, p) == {o \in Objectives : contributor[a][o][p] # 0}

\* MUTANT: responsibility still counts the departing product's claim.
LostState_stale(a, o, p) ==
    [status |-> "needs_review", responsibility |-> state[a][o].responsibility]

\* MUTANT: the objective's responsibility is cleared with its last product.
LostState_cleared(a, o, p) == [status |-> "needs_review", responsibility |-> "none"]

\* An objective the product leaves, by deactivation or by a version move: its
\* responsibility comes from the survivors, and stays as it is without any.
LostState(a, o, p) ==
    [status |-> "needs_review",
     responsibility |->
        IF Contributors(a, o) = {p} THEN state[a][o].responsibility
        ELSE resolve_contributor_responsibility(Classifications(a, o, Products \ {p}))]

\* The live links of the objectives it leaves, but for the list and document
\* versions a person linked.
ArchivedLinks(a, p) ==
    [o \in Objectives |-> [e \in Evidence |->
        IF o \in Sourced(a, p) /\ e \in Uploads /\ link[a][o][e].cause = "live"
        THEN [cause |-> "deactivation", by |-> p]
        ELSE link[a][o][e]]]

\* Every live task seeded from any version of the product's baseline.
ArchivedTasks(a, p) ==
    [k \in Artifacts |->
        IF ~task[a][k].archived /\ task[a][k].spec[1] = p
        THEN [task[a][k] EXCEPT !.archived = TRUE,
                                !.status = IF @ = "open" THEN "na" ELSE @]
        ELSE task[a][k]]

deactivate_org_product(a, p) ==
    LET states == [o \in Objectives |->
                      IF o \in Sourced(a, p) THEN LostState(a, o, p) ELSE state[a][o]]
    IN  /\ assessment[a].started
        /\ orgProduct[p].status = "active"
        /\ orgProduct' = [orgProduct EXCEPT ![p].status = "decommissioned"]
        /\ contributor' = [contributor EXCEPT ![a] =
              [o \in Objectives |-> [contributor[a][o] EXCEPT ![p] = 0]]]
        /\ state' = [state EXCEPT ![a] = states]
        /\ link' = [link EXCEPT ![a] = ArchivedLinks(a, p)]
        /\ task' = [task EXCEPT ![a] = ArchivedTasks(a, p)]
        /\ recompute_sprs(a, states)
        /\ UNCHANGED product

-----------------------------------------------------------------------------
(* Moving an active product to another of its versions, through one        *)
(* assessment.  A claim both versions make alike is left alone, and its    *)
(* contributor row keeps naming the old version.                           *)

Dropped(a, p, v) ==
    {o \in Covers(p, orgProduct[p].pin) \ Covers(p, v) : contributor[a][o][p] # 0}
Gained(a, p, v) ==
    {o \in Covers(p, v) \ Covers(p, orgProduct[p].pin) : contributor[a][o][p] = 0}

Reclassified(a, p, v) ==
    {o \in Covers(p, v) \cap Covers(p, orgProduct[p].pin) :
        /\ contributor[a][o][p] # 0
        /\ Classification(p, orgProduct[p].pin, o) # Classification(p, v, o)}

MovedState(a, o, p, v) ==
    CASE o \in Dropped(a, p, v) -> LostState(a, o, p)
      [] o \in Gained(a, p, v) -> LoopState(a, p, v, {})[o]
      [] o \in Reclassified(a, p, v) ->
            [status |-> "needs_review",
             responsibility |-> resolve_contributor_responsibility(
                 Classifications(a, o, Products \ {p}) \cup {Classification(p, v, o)})]
      [] OTHER -> state[a][o]

move_org_product_version(a, p, v) ==
    LET states == [o \in Objectives |-> MovedState(a, o, p, v)]
        touched == Gained(a, p, v) \cup Reclassified(a, p, v)
    IN  /\ assessment[a].started
        /\ orgProduct[p].status = "active"
        /\ v \in 1..product[p].current \ {orgProduct[p].pin}
        /\ state' = [state EXCEPT ![a] = states]
        /\ contributor' = [contributor EXCEPT ![a] =
              [o \in Objectives |-> [contributor[a][o] EXCEPT ![p] =
                  IF o \in Dropped(a, p, v) THEN 0
                  ELSE IF o \in touched THEN v ELSE @]]]
        /\ orgProduct' = [orgProduct EXCEPT ![p].pin = v]
        /\ task' = [task EXCEPT ![a] = fanout_evidence_tasks(
                        task[a], p, v, {ControlOf[o] : o \in touched})]
        /\ recompute_sprs(a, states)
        /\ UNCHANGED <<product, link>>

-----------------------------------------------------------------------------
(* What people do to an objective and its evidence.                        *)

patch_control_state(a, o, s) ==
    LET states == [state[a] EXCEPT ![o].status = s]
    IN  /\ assessment[a].started
        /\ state' = [state EXCEPT ![a] = states]
        /\ recompute_sprs(a, states)
        /\ UNCHANGED <<product, orgProduct, contributor, link, task>>

patch_evidence_task(a, k, s) ==
    /\ task[a][k].status # "none"
    /\ ~task[a][k].archived
    /\ task' = [task EXCEPT ![a][k].status = s]
    /\ UNCHANGED <<product, orgProduct, assessment, state, contributor, link>>

\* An upload is always a new artifact: it has no link anywhere yet.
Fresh(e) == \A a \in Assessments, o \in Objectives : link[a][o][e] = NoLink

upload_evidence(a, o, e) ==
    /\ assessment[a].started
    /\ Fresh(e)
    /\ link' = [link EXCEPT ![a][o][e] = LiveLink]
    /\ UNCHANGED <<product, orgProduct, assessment, state, contributor, task>>

\* Collecting a task links one new artifact to every objective of the task.
collect_task_evidence(a, k, e) ==
    /\ task[a][k].status # "none"
    /\ ~task[a][k].archived
    /\ Fresh(e)
    /\ link' = [link EXCEPT ![a] =
          [o \in Objectives |-> [link[a][o] EXCEPT ![e] =
              IF o \in task[a][k].objectives THEN LiveLink ELSE @]]]
    /\ task' = [task EXCEPT ![a][k].status = "collected"]
    /\ UNCHANGED <<product, orgProduct, assessment, state, contributor>>

\* Linking a list or document version: a link that was archived is the row
\* that comes back (live_link_row).
link_record(a, o, e) ==
    /\ assessment[a].started
    /\ link[a][o][e].cause # "live"
    /\ link' = [link EXCEPT ![a][o][e] = LiveLink]
    /\ UNCHANGED <<product, orgProduct, assessment, state, contributor, task>>

\* MUTANT: detaching a link a deactivation archived leaves it the product's.
detach_evidence_keeps_product(a, o, e) ==
    /\ link[a][o][e].cause = "live" \/ link[a][o][e].by # NoProduct
    /\ link' = [link EXCEPT ![a][o][e].cause = "detached"]
    /\ UNCHANGED <<product, orgProduct, assessment, state, contributor, task>>

\* A person detaches a live link, or one a deactivation archived, which then
\* no longer names the product.
detach_evidence(a, o, e) ==
    /\ link[a][o][e].cause = "live" \/ link[a][o][e].by # NoProduct
    /\ link' = [link EXCEPT ![a][o][e] = [cause |-> "detached", by |-> NoProduct]]
    /\ UNCHANGED <<product, orgProduct, assessment, state, contributor, task>>

-----------------------------------------------------------------------------

LibraryStep ==
    \E p \in Products :
        \/ \E reset \in BOOLEAN : ImportBaseline(p, reset)
        \/ publish_product(p)
        \/ unpublish_product(p)

EngineStep ==
    \E a \in Assessments :
        \/ start_assessment(a)
        \/ \E p \in Products :
              \/ \E keep \in SUBSET Objectives : activate_org_product(a, p, keep)
              \/ deactivate_org_product(a, p)
              \/ \E v \in Versions : move_org_product_version(a, p, v)

PersonStep ==
    \E a \in Assessments :
        \/ \E o \in Objectives :
              \/ \E s \in PatchStatuses : patch_control_state(a, o, s)
              \/ \E e \in Uploads : upload_evidence(a, o, e)
              \/ \E e \in Records : link_record(a, o, e)
              \/ \E e \in Evidence : detach_evidence(a, o, e)
        \/ \E k \in Artifacts :
              \/ \E s \in {"open", "collected", "na"} : patch_evidence_task(a, k, s)
              \/ \E e \in Uploads : collect_task_evidence(a, k, e)

Next == LibraryStep \/ EngineStep \/ PersonStep

Spec == Init /\ [][Next]_vars

-----------------------------------------------------------------------------
(* Properties.                                                             *)

\* "This table names the CURRENT, live set of contributors": in every started
\* assessment a product contributes to an objective exactly when it is active
\* and its pinned version covers the objective, and the row's classification
\* is the pinned version's (an unchanged claim may keep naming an older row).
ContributorsAreCurrent ==
    \A a \in Assessments : assessment[a].started =>
        \A o \in Objectives, p \in Products :
            /\ (contributor[a][o][p] # 0) <=>
                  /\ orgProduct[p].status = "active"
                  /\ o \in Covers(p, orgProduct[p].pin)
            /\ (contributor[a][o][p] # 0) =>
                  Classification(p, contributor[a][o][p], o)
                      = Classification(p, orgProduct[p].pin, o)

\* An objective some product covers is shared as soon as one contributor's own
\* mapping leaves the customer something to do, whatever joined or left since.
ResponsibilityIsResolved ==
    \A a \in Assessments, o \in Objectives :
        Contributors(a, o) # {} =>
            (state[a][o].responsibility = "shared"
                <=> "shared" \in Classifications(a, o, Products))

\* The cached SPRS score is the one the control states give.
ScoreIsCurrent ==
    \A a \in Assessments : assessment[a].started =>
        assessment[a].score = compute_sprs([o \in Objectives |-> state[a][o].status])

\* A link names a product only while that product is off: its reactivation
\* brings back every link its deactivation archived.
ArchivedLinksWaitForTheirProduct ==
    \A a \in Assessments, o \in Objectives, e \in Evidence :
        link[a][o][e].by # NoProduct =>
            orgProduct[link[a][o][e].by].status = "decommissioned"

\* A task that can be worked on was asked for by a product that is active: a
\* deactivation archives the tasks of every version its product was at, and no
\* later activation of another product brings them back.
LiveTasksServeActiveProducts ==
    \A a \in Assessments, k \in Artifacts :
        (task[a][k].status # "none" /\ ~task[a][k].archived) =>
            orgProduct[task[a][k].spec[1]].status = "active"

\* A judged status is replaced only by a person's own edit or by needs_review:
\* no product arriving, leaving or moving turns it into anything else, and a
\* product joining an objective that already has one leaves it alone.
JudgementsAreKept ==
    [][\A a \in Assessments, o \in Objectives :
          (/\ state[a][o].status \in JUDGED_STATUSES
           /\ state'[a][o].status # state[a][o].status) =>
             \/ \E s \in PatchStatuses : patch_control_state(a, o, s)
             \/ /\ state'[a][o].status = "needs_review"
                /\ \/ Contributors(a, o) = {}
                   \/ \E p \in Contributors(a, o) :
                         \/ contributor'[a][o][p] = 0
                         \/ contributor'[a][o][p] # contributor[a][o][p]]_vars

\* Only a person raises a score: whatever products do, it stays or drops.
OnlyPeopleRaiseTheScore ==
    [][\A a \in Assessments :
          (assessment[a].started /\ assessment'[a].score > assessment[a].score) =>
             \E o \in Objectives, s \in PatchStatuses : patch_control_state(a, o, s)]_vars

\* What a person took off an objective comes back only when a person links the
\* same record there again, however often the product comes and goes.
DetachedStaysDetached ==
    [][\A a \in Assessments, o \in Objectives, e \in Evidence :
          (link[a][o][e].cause = "detached" /\ link'[a][o][e].cause = "live") =>
             e \in Records /\ link_record(a, o, e)]_vars

\* What the engine derives follows from what it is derived from, after any
\* sequence of requests: contributors from active products, responsibilities
\* from contributors, the score from the states.
DerivedRowsFollow ==
    ContributorsAreCurrent /\ ResponsibilityIsResolved /\ ScoreIsCurrent

\* Evidence and tasks come and go with their products: an archived link waits for
\* a product that is off, a task that can be worked on serves one that is on
\* (activate_org_product, deactivate_org_product, move_org_product_version).
WorkFollowsProducts == ArchivedLinksWaitForTheirProduct /\ LiveTasksServeActiveProducts

\* What a person decided stands until a person decides otherwise or is asked to
\* look again: judgements, the credit in the score, detached evidence.
PeoplesWorkStands == JudgementsAreKept /\ OnlyPeopleRaiseTheScore /\ DetachedStaysDetached

-----------------------------------------------------------------------------
(* What a docstring says and a sequence of requests refutes (README,       *)
(* "Departures").                                                          *)

\* "Archived evidence tasks are restored": every artifact an active product's
\* pinned version asks for has a task that can be worked on.
RequiredTasksAreLive ==
    \A a \in Assessments, p \in Products :
        (assessment[a].started /\ orgProduct[p].status = "active") =>
            \A c \in Claimed(p, orgProduct[p].pin) :
                \A k \in Baseline[p][orgProduct[p].pin][c].artifacts :
                    task[a][k].status # "none" /\ ~task[a][k].archived
=============================================================================
