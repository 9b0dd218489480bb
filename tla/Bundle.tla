------------------------------- MODULE Bundle -------------------------------
(***************************************************************************)
(* The assessor bundle: bundle_service.py reads one assessment and what    *)
(* belongs to its organization in a dozen statements of one READ COMMITTED *)
(* transaction, which holds the assessment's row from the first of them to *)
(* the commit, and renders pages and a ZIP from what it read.              *)
(*                                                                         *)
(* Each statement is an action.  With `bdOverlap', what other requests     *)
(* commit falls between two of them, except what needs that row: every     *)
(* writer of a control state ends in recompute_sprs.  Without, only before *)
(* the first of them.                                                      *)
(***************************************************************************)
EXTENDS Integers, Sequences, FiniteSets, FiniteSetsExt

CONSTANTS
    BdControls, BdObjectives, BdControlOf, BdWeight,   \* the catalog
    BdStatuses,      \* the statuses that are set
    Artifacts,       \* Evidence rows, numbered in the order they were collected
    ArtifactRow,     \* what they are; see EvidenceRow
    BdLists,         \* the organization's lists
    Chosen,          \* what an operator may choose for a bundle: sets of lists
    People,          \* who may be a contact of the organization
    Assets, BdFold,  \* spellings of natural keys in their order; lower-cased
    BdMax, BdRaced   \* bounds on the commits of others, without and with overlap

Engine == INSTANCE Assessment WITH
    Controls <- BdControls, Objectives <- BdObjectives,
    ControlOf <- BdControlOf, Weight <- BdWeight

\* A stored file, one whose object cannot be read, a reference, a version of
\* the document or of a list.  Titles with the same slug differ in the ZIP.
EvidenceRow == [kind : {"file", "lost", "reference", "document", "list"},
                slug : STRING, version : Nat, list : STRING]

ASSUME BundleAssumption ==
    /\ Artifacts \subseteq Nat /\ Assets \subseteq Nat
    /\ ArtifactRow \in [Artifacts -> EvidenceRow]
    /\ BdControlOf \in [BdObjectives -> BdControls] /\ BdStatuses \subseteq Engine!Status
    /\ BdMax \in Nat /\ BdRaced \in Nat

VARIABLES bdStatus,    \* objective -> ControlState.status
          bdLink,      \* artifact, objective -> "none", "live" or "archived"
          bdDoc,       \* the statuses of the document's versions, oldest first
          bdCurrent,   \* list -> the number of its current version
          bdPerson,    \* the contacts: person -> whether with a documentation role
          bdHolds,     \* RACI rows: person, objective
          bdEntity,    \* assets with a ScopeEntity
          bdPending,   \* assets with a change to approve
          bdFilings,   \* SPRS submissions, the latest first: whether voided
          bdAt, bdChosen, bdSnap,    \* the export: next statement, choice, reads
          bdServed, bdOverlap

bdPeople == <<bdPerson, bdHolds>>
bdThings == <<bdLink, bdDoc, bdCurrent, bdEntity, bdPending, bdFilings>>
bdOrg == <<bdStatus, bdPeople, bdThings>>
bdVars == <<bdOrg, bdAt, bdChosen, bdSnap, bdServed, bdOverlap>>

Statements == {"contacts", "roles", "entities", "pending", "controls", "links",
               "versions", "unlinked", "archived", "raci", "filings", "documents",
               "listLinks", "lists"}
NamedVersion == [number : Nat, superseded : BOOLEAN, approved : Nat]

\* BundleSnapshot: what the statements returned.  `versions' is what the pages
\* say beside the evidence that names a document, `documents' the entries.
EmptySnapshot ==
    [score |-> 0, contacts |-> {}, roles |-> {}, raci |-> {}, entities |-> {}, pending |-> {},
     statuses |-> <<>>, links |-> {}, versions |-> {}, unlinked |-> {}, archived |-> {},
     filings |-> <<>>, documents |-> {}, listLinks |-> {}, lists |-> {}]

BdTypeOK ==
    /\ bdStatus \in [BdObjectives -> Engine!Status]
    /\ bdLink \in [Artifacts -> [BdObjectives -> {"none", "live", "archived"}]]
    /\ DOMAIN bdPerson \subseteq People /\ bdHolds \subseteq (DOMAIN bdPerson) \X BdObjectives
    /\ \A i \in DOMAIN bdDoc : bdDoc[i] = "approved" <=> i = Len(bdDoc)
    /\ bdEntity \cap bdPending = {} /\ bdEntity \cup bdPending \subseteq Assets
    /\ bdAt \in Statements \cup {"idle", "done", "refused"}
    /\ bdSnap.versions \cup bdSnap.documents \subseteq NamedVersion
    /\ bdSnap.links \cup bdSnap.archived \subseteq Artifacts \X BdObjectives
    /\ bdAt = "refused" => bdSnap = EmptySnapshot

BdInit ==
    /\ bdStatus = [o \in BdObjectives |-> "not_met"]
    /\ bdLink = [e \in Artifacts |-> [o \in BdObjectives |-> "none"]]
    /\ bdPerson = [p \in {} |-> FALSE] /\ bdHolds = {}
    /\ bdDoc = <<"approved">> /\ bdCurrent = [l \in BdLists |-> 1]
    /\ bdEntity = {} /\ bdPending = {} /\ bdFilings = <<FALSE>>
    /\ bdAt = "idle" /\ bdChosen = {} /\ bdSnap = EmptySnapshot
    /\ bdServed = 0 /\ bdOverlap \in BOOLEAN

-----------------------------------------------------------------------------
(* What other requests commit.                                             *)

Exporting == bdAt \in Statements

\* Mutant: the export's own recompute does not keep the assessment's row.
Locked_never == FALSE

\* The export holds the assessment's row FOR UPDATE.
Locked == Exporting

Commits ==
    /\ bdAt = "idle" \/ (bdOverlap /\ Exporting)
    /\ bdServed < IF bdOverlap THEN BdRaced ELSE BdMax
    /\ bdServed' = bdServed + 1
    /\ UNCHANGED <<bdAt, bdChosen, bdSnap, bdOverlap>>

SetStatus(o, status) ==
    /\ Commits /\ ~Locked
    /\ bdStatus' = [bdStatus EXCEPT ![o] = status]
    /\ UNCHANGED <<bdPeople, bdThings>>

AddContact(p) ==
    /\ Commits
    /\ p \notin DOMAIN bdPerson
    /\ bdPerson' = [c \in DOMAIN bdPerson \cup {p} |-> IF c = p THEN FALSE ELSE bdPerson[c]]
    /\ UNCHANGED <<bdStatus, bdHolds, bdThings>>

GiveRole(p) ==
    /\ Commits
    /\ p \in DOMAIN bdPerson
    /\ bdPerson' = [bdPerson EXCEPT ![p] = TRUE]
    /\ UNCHANGED <<bdStatus, bdHolds, bdThings>>

AssignRaci(p, o) ==
    /\ Commits
    /\ p \in DOMAIN bdPerson
    /\ bdHolds' = bdHolds \cup {<<p, o>>}
    /\ UNCHANGED <<bdStatus, bdPerson, bdThings>>

\* A contact takes its roles and its assignments with it.
RemoveContact(p) ==
    /\ Commits
    /\ p \in DOMAIN bdPerson
    /\ bdPerson' = [c \in DOMAIN bdPerson \ {p} |-> bdPerson[c]]
    /\ bdHolds' = {h \in bdHolds : h[1] # p}
    /\ UNCHANGED <<bdStatus, bdThings>>

\* A new link, or one that a product's return restores.  A document or a list
\* is offered as the version that is approved or current.
AttachArtifact(e, o) ==
    /\ Commits
    /\ bdLink[e][o] # "live"
    /\ ArtifactRow[e].kind = "document" => ArtifactRow[e].version = Len(bdDoc)
    /\ ArtifactRow[e].kind = "list" =>
           ArtifactRow[e].version = bdCurrent[ArtifactRow[e].list]
    /\ bdLink' = [bdLink EXCEPT ![e][o] = "live"]
    /\ UNCHANGED <<bdStatus, bdPeople, bdDoc, bdCurrent, bdEntity, bdPending, bdFilings>>

DetachArtifact(e, o) ==
    /\ Commits
    /\ bdLink[e][o] = "live"
    /\ bdLink' = [bdLink EXCEPT ![e][o] = "archived"]
    /\ UNCHANGED <<bdStatus, bdPeople, bdDoc, bdCurrent, bdEntity, bdPending, bdFilings>>

Published == Append([i \in DOMAIN bdDoc |-> "superseded"], "approved")

PublishVersion ==
    /\ Commits
    /\ bdDoc' = Published
    /\ UNCHANGED <<bdStatus, bdPeople, bdLink, bdCurrent, bdEntity, bdPending, bdFilings>>

SaveListVersion(l) ==
    /\ Commits
    /\ bdCurrent' = [bdCurrent EXCEPT ![l] = @ + 1]
    /\ UNCHANGED <<bdStatus, bdPeople, bdLink, bdDoc, bdEntity, bdPending, bdFilings>>

ObserveAsset(a) ==
    /\ Commits
    /\ a \notin bdEntity \cup bdPending
    /\ bdPending' = bdPending \cup {a}
    /\ UNCHANGED <<bdStatus, bdPeople, bdLink, bdDoc, bdCurrent, bdEntity, bdFilings>>

DecideAsset(a, verdict) ==
    /\ Commits
    /\ a \in bdPending
    /\ bdPending' = bdPending \ {a}
    /\ bdEntity' = IF verdict = "approved" THEN bdEntity \cup {a} ELSE bdEntity
    /\ UNCHANGED <<bdStatus, bdPeople, bdLink, bdDoc, bdCurrent, bdFilings>>

\* A filing is placed by the date it was made, which a person enters.
FileSubmission(i) ==
    /\ Commits
    /\ bdFilings' = SubSeq(bdFilings, 1, i - 1) \o <<FALSE>> \o SubSeq(bdFilings, i, Len(bdFilings))
    /\ UNCHANGED <<bdStatus, bdPeople, bdLink, bdDoc, bdCurrent, bdEntity, bdPending>>

VoidFiling(i) ==
    /\ Commits
    /\ ~bdFilings[i]
    /\ bdFilings' = [bdFilings EXCEPT ![i] = TRUE]
    /\ UNCHANGED <<bdStatus, bdPeople, bdLink, bdDoc, bdCurrent, bdEntity, bdPending>>

OthersCommit ==
    \/ \E o \in BdObjectives, s \in BdStatuses : SetStatus(o, s)
    \/ \E e \in Artifacts, o \in BdObjectives : AttachArtifact(e, o) \/ DetachArtifact(e, o)
    \/ \E p \in People : AddContact(p) \/ GiveRole(p) \/ RemoveContact(p)
    \/ \E p \in People, o \in BdObjectives : AssignRaci(p, o)
    \/ PublishVersion
    \/ \E l \in BdLists : SaveListVersion(l)
    \/ \E a \in Assets : ObserveAsset(a)
    \/ \E a \in Assets, v \in {"approved", "rejected"} : DecideAsset(a, v)
    \/ \E i \in 1..Len(bdFilings) + 1 : FileSubmission(i)
    \/ \E i \in DOMAIN bdFilings : VoidFiling(i)

-----------------------------------------------------------------------------
(* The export's statements, in their order.                                *)

Reads(statement, next, field, rows) ==
    /\ bdAt = statement /\ bdAt' = next
    /\ bdSnap' = [bdSnap EXCEPT ![field] = rows]
    /\ UNCHANGED <<bdOrg, bdChosen, bdServed, bdOverlap>>

\* Lists are included as the operator names them; the score is recomputed.
SnapshotBundle(chosen) ==
    /\ bdAt = "idle" /\ bdAt' = "contacts"
    /\ bdChosen' = chosen
    /\ bdSnap' = [EmptySnapshot EXCEPT !.score = Engine!compute_sprs(bdStatus)]
    /\ UNCHANGED <<bdOrg, bdServed, bdOverlap>>

ContactRows == DOMAIN bdPerson

ReadContacts == Reads("contacts", "roles", "contacts", ContactRows)

\* The roles of the contacts that were found.
ReadRoles ==
    Reads("roles", "entities", "roles",
          {p \in bdSnap.contacts : p \in DOMAIN bdPerson /\ bdPerson[p]})

ReadEntities == Reads("entities", "pending", "entities", bdEntity)

\* One row for a key however it is spelled: the first spelling stands for it.
PendingRows(pending) ==
    {a \in pending : \A b \in pending : BdFold[b] = BdFold[a] => a <= b}

ReadPending == Reads("pending", "controls", "pending", PendingRows(bdPending))
ReadControls == Reads("controls", "links", "statuses", bdStatus)

LiveLinks == {x \in Artifacts \X BdObjectives : bdLink[x[1]][x[2]] = "live"}

ReadEvidence == Reads("links", "versions", "links", LiveLinks)

\* The version, whether another one replaced it, and which one is approved.
VersionNow(n) ==
    [number |-> n, superseded |-> bdDoc[n] = "superseded", approved |-> Len(bdDoc)]

ReadNamedVersions ==
    Reads("versions", "unlinked", "versions",
          {VersionNow(ArtifactRow[x[1]].version) :
              x \in {y \in bdSnap.links : ArtifactRow[y[1]].kind = "document"}})

\* Versions of documents and lists that no objective rests on are not listed.
UnlinkedEvidence ==
    {e \in Artifacts : /\ ArtifactRow[e].kind \notin {"document", "list"}
                       /\ \A o \in BdObjectives : bdLink[e][o] # "live"}

ReadUnlinked == Reads("unlinked", "archived", "unlinked", UnlinkedEvidence)

ReadArchived ==
    Reads("archived", "raci", "archived",
          {x \in bdSnap.unlinked \X BdObjectives : bdLink[x[1]][x[2]] = "archived"})

ReadRaci == Reads("raci", "filings", "raci", bdHolds)
ReadFilings == Reads("filings", "documents", "filings", bdFilings)

AttachedHere == {ArtifactRow[x[1]].version :
                    x \in {y \in LiveLinks : ArtifactRow[y[1]].kind = "document"}}

\* Mutant: only what is approved is printed.
DocumentRows_approved == {n \in DOMAIN bdDoc : bdDoc[n] = "approved"}

\* The approved version, and a superseded one that evidence here names.
DocumentRows ==
    {n \in DOMAIN bdDoc : bdDoc[n] = "approved" \/ (bdDoc[n] = "superseded" /\ n \in AttachedHere)}

ReadDocuments ==
    Reads("documents", "listLinks", "documents", {VersionNow(n) : n \in DocumentRows})

ReadListLinks ==
    Reads("listLinks", "lists", "listLinks",
          {<<ArtifactRow[x[1]].list, ArtifactRow[x[1]].version, x[2]>> :
              x \in {y \in LiveLinks : ArtifactRow[y[1]].kind = "list"}})

\* A chosen list's current version and those that evidence links name.
ListVersions(chosen) ==
    {<<l, bdCurrent[l]>> : l \in chosen}
        \cup {<<k[1], k[2]>> : k \in {k \in bdSnap.listLinks : k[1] \in chosen}}

ReadLists ==
    /\ bdChosen \subseteq BdLists
    /\ Reads("lists", "done", "lists", ListVersions(bdChosen))

\* A list the organization does not have: 404, and the transaction is undone.
ExportRefused ==
    /\ bdAt = "lists" /\ ~(bdChosen \subseteq BdLists)
    /\ bdAt' = "refused" /\ bdSnap' = EmptySnapshot
    /\ UNCHANGED <<bdOrg, bdChosen, bdServed, bdOverlap>>

\* The pages are rendered from the reads, the transaction commits.
ExportAnswered ==
    /\ bdAt \in {"done", "refused"}
    /\ bdAt' = "idle" /\ bdSnap' = EmptySnapshot
    /\ UNCHANGED <<bdOrg, bdChosen, bdServed, bdOverlap>>

BdNext ==
    \/ OthersCommit
    \/ \E chosen \in Chosen : SnapshotBundle(chosen)
    \/ ReadContacts \/ ReadRoles \/ ReadEntities \/ ReadPending \/ ReadControls
    \/ ReadEvidence \/ ReadNamedVersions \/ ReadUnlinked \/ ReadArchived \/ ReadRaci
    \/ ReadFilings \/ ReadDocuments \/ ReadListLinks \/ ReadLists \/ ExportRefused \/ ExportAnswered

BdSpec == BdInit /\ [][BdNext]_bdVars

-----------------------------------------------------------------------------
(* What the pages print of it.                                             *)

STATUS_PRIORITY ==
    [not_met |-> 0, needs_review |-> 1, pending_evidence |-> 2, partial |-> 3,
     inherited |-> 4, not_applicable |-> 5, met |-> 6]

NON_PASSING == {"not_met", "needs_review", "pending_evidence", "partial"}

\* The worst of its objectives decides.
Rollup(c) ==
    LET statuses == {bdSnap.statuses[o] : o \in {o \in BdObjectives : BdControlOf[o] = c}}
    IN  CHOOSE s \in statuses : \A t \in statuses : STATUS_PRIORITY[s] <= STATUS_PRIORITY[t]

\* The deduction table of summary/scoring.html, the gaps of outstanding.html: of
\* the controls that the objectives name.
DeductedControls == {c \in {BdControlOf[o] : o \in BdObjectives} : Rollup(c) \in NON_PASSING}

\* Files have bytes in the ZIP under each objective they are evidence for, or
\* in one folder of unlinked evidence (objective 0).
Listings == bdSnap.links \cup {<<e, 0>> : e \in bdSnap.unlinked}
Embedded == {x \in Listings : ArtifactRow[x[1]].kind = "file"}

\* A second file of the same name in a folder is numbered.
EvidencePath(x) ==
    [folder |-> x[2], slug |-> ArtifactRow[x[1]].slug,
     n |-> Cardinality({y \in Embedded : /\ y[2] = x[2] /\ y[1] < x[1]
                                         /\ ArtifactRow[y[1]].slug = ArtifactRow[x[1]].slug})]

\* 03_personnel.html: every contact, with the roles it has.
PersonnelPage == [p \in bdSnap.contacts |-> p \in bdSnap.roles]

\* Who holds a letter for the objective, in 05_customer_responsibility_matrix.html.
MatrixCell(o) == {h[1] : h \in {h \in bdSnap.raci : h[2] = o}}

\* A list that is evidence shows its workbook, or that it was not chosen.
ShownAsNotChosen(e) == <<ArtifactRow[e].list, ArtifactRow[e].version>> \notin bdSnap.lists

\* The filing history's "Current".
MarkedCurrent(i) == i = 1 /\ ~bdSnap.filings[i]

-----------------------------------------------------------------------------
(* Properties.                                                             *)

Done == bdAt = "done"

\* The score on the first page is the score of the statuses printed behind it,
\* whatever else was served in between: snapshot_bundle recomputes it first and
\* keeps the assessment's row until it commits.
ScoreIsOfItsStatuses == Done => bdSnap.score = Engine!compute_sprs(bdSnap.statuses)

\* The score page and the page of gaps list the controls that cost points, but
\* for those that fall short only in what does not apply: _rollup_status and
\* _NON_PASSING are a second scoring rule, beside the one of compute_sprs.
DeductedRowsAreDue ==
    Done => DeductedControls =
        {c \in Engine!deducting_controls(bdSnap.statuses) :
            \E o \in BdObjectives :
                /\ BdControlOf[o] = c
                /\ bdSnap.statuses[o] \notin {"met", "inherited", "not_applicable"}}

\* The deduction table adds up to the total deduction printed above it.  It does
\* not: compute_sprs deducts a control with an objective that does not apply,
\* and _NON_PASSING counts it among the passing ones.
DeductionsAddUp ==
    Done => MapThenSumSet(LAMBDA c : BdWeight[c], DeductedControls) = 110 - bdSnap.score

\* Every file and reference of the organization is in the manifest: under each
\* objective that rests on it or, when none does, under "Unlinked Evidence",
\* with every objective that once did.
EvidenceIsAccountedFor ==
    Done /\ ~bdOverlap =>
        \A e \in {e \in Artifacts : ArtifactRow[e].kind \notin {"document", "list"}} :
            LET at(l) == {o \in BdObjectives : bdLink[e][o] = l}
            IN  IF at("live") # {}
                THEN {o : o \in {x[2] : x \in {y \in Listings : y[1] = e}}} = at("live")
                ELSE /\ e \in bdSnap.unlinked
                     /\ {x[2] : x \in {y \in bdSnap.archived : y[1] = e}} = at("archived")

\* No embedded file takes the path of another, although a link that was archived
\* between the two reads of the links has its file listed twice.
FilesKeepTheirPath ==
    Done => \A x, y \in Embedded : x # y => EvidencePath(x) # EvidencePath(y)

\* The page of documents has the entry that a note beside the evidence points to,
\* and both say the same of it: superseded or not, and by which version.
NotesHaveTheirEntry == Done /\ ~bdOverlap => bdSnap.versions \subseteq bdSnap.documents

\* Evidence that is a version of a list is in the bundle, that version and no
\* other, unless the operator left the list out, as the page then says.
LeftOutOnlyByChoice ==
    Done /\ ~bdOverlap =>
        \A x \in bdSnap.links :
            ArtifactRow[x[1]].kind = "list" =>
                (ShownAsNotChosen(x[1]) <=> ArtifactRow[x[1]].list \notin bdChosen)

\* The inventory omits no asset that is known, accepted or not, and lists what
\* waits for a decision once however often and in whatever case it was seen.
InventoryIsComplete ==
    Done /\ ~bdOverlap =>
        /\ \A a \in bdEntity \cup bdPending :
              \E b \in bdSnap.entities \cup bdSnap.pending : BdFold[b] = BdFold[a]
        /\ \A a, b \in bdSnap.pending : BdFold[a] = BdFold[b] => a = b

\* Whoever the responsibility matrix names is on the personnel page, and that
\* page gives the documentation roles the person has: an assessor follows a
\* letter of the matrix to a person.
HoldersArePersonnel ==
    Done /\ ~bdOverlap =>
        /\ \A o \in BdObjectives : MatrixCell(o) \subseteq DOMAIN PersonnelPage
        /\ \A p \in DOMAIN PersonnelPage : p \in DOMAIN bdPerson /\ PersonnelPage[p] = bdPerson[p]

\* What the history calls current is what get_current_submission answers: the
\* latest submission that is not voided.
CurrentIsTheLatest ==
    Done => \A i \in DOMAIN bdSnap.filings :
        MarkedCurrent(i) => /\ ~bdSnap.filings[i]
                            /\ \A j \in 1..i - 1 : bdSnap.filings[j]

\* Whatever others commit between its fourteen statements, a bundle does not
\* contradict itself on the score, the paths of its files and the submission
\* that counts (snapshot_bundle, build_zip).
BundleIsConsistent ==
    /\ ScoreIsOfItsStatuses /\ DeductedRowsAreDue
    /\ FilesKeepTheirPath /\ CurrentIsTheLatest

\* With nothing committed between them, the bundle's lists, read by different
\* statements and filtered by different conditions, omit nothing and refer to
\* entries that are there (the "Complete listing" of build_zip's pages).
BundleIsComplete ==
    /\ EvidenceIsAccountedFor /\ InventoryIsComplete /\ HoldersArePersonnel
    /\ NotesHaveTheirEntry /\ LeftOutOnlyByChoice
=============================================================================
