----------------------------- MODULE Documents -----------------------------
(***************************************************************************)
(* One document of an organisation: its versions, its objective tags, its  *)
(* approvals, and the evidence links that rest on its versions             *)
(* (routers/documents.py, document_reviews.py, document_evidence.py), with *)
(* the weekly review digest (scheduler.py).                                *)
(*                                                                         *)
(* Every request is a READ COMMITTED transaction.  A request that decides  *)
(* on rows it reads first and writes later is two steps, or three where a  *)
(* row stays locked between a flush and the commit; the database keeps its *)
(* unique indexes and foreign keys.  `docOverlap' says whether the         *)
(* requests of this behaviour overlap; without it each one runs to its end *)
(* alone.                                                                  *)
(***************************************************************************)
EXTENDS Integers, FiniteSets, FiniteSetsExt

CONSTANTS Objectives,     \* objectives, each with one control state here
          Contacts,       \* the organisation's contacts
          RoleHolders,    \* contacts with the role security_officer or it_admin
          DocRequests,    \* requests that may be in flight together
          Cadences,       \* values of cadence_months, in units of the clock
          DueSoon,        \* the due_soon window, in units of the clock
          MaxVersions,    \* bound on the versions saved
          DocMaxRaced,    \* the same where requests overlap
          MaxTime         \* bound on the clock

ASSUME DocumentsAssumption ==
    /\ RoleHolders \subseteq Contacts
    /\ Cadences \subseteq Nat \ {0}
    /\ DueSoon \in Nat /\ MaxVersions \in Nat /\ DocMaxRaced \in 1..MaxVersions /\ MaxTime \in Nat

VARIABLES current,    \* the document's current version, 0 without a document
          cadence,    \* its cadence_months
          versions,   \* version number -> the version's row
          tags,       \* objectives the document is tagged with
          initial,    \* versions that have their initial approval
          latest,     \* the document's newest approval row, if any
          evidence,   \* version number -> evidence rows that carry it
          docLinks,   \* version number, objective -> the link row's state
          digest,     \* contact -> the outcome of the last digest's notification
          docTxn,     \* request -> what it has read or flushed
          now,        \* the clock
          docOverlap  \* whether requests overlap

docRows == <<current, cadence, versions, tags, initial, latest, evidence, docLinks>>
docVars == <<docRows, digest, docTxn, now, docOverlap>>

DocNone == "none"
DocIdle == [op |-> "idle"]
DocNumbers == 1..MaxVersions
Statuses == {"draft", "under_review", "approved", "superseded"}
Manual == {"draft", "under_review"}

VersionRow == [status : Statuses, base : 0..MaxVersions,
               published : SUBSET Objectives]
ApprovalRow == [at : 0..MaxTime, by : Contacts]
DigestOutcome == {DocNone, "sent", "error"}
LinkState == {DocNone, "live", "moved_forward", "detached"}

DocTypeOK ==
    /\ current \in 0..MaxVersions
    /\ IF current = 0 THEN cadence = 0 ELSE cadence \in Cadences
    /\ \E n \in 0..MaxVersions : versions \in [1..n -> VersionRow]
    /\ tags \subseteq Objectives
    /\ initial \subseteq DocNumbers
    /\ latest \in {{}} \cup {{a} : a \in ApprovalRow}
    /\ evidence \in [DocNumbers -> 0..2]
    /\ docLinks \in [DocNumbers \X Objectives -> LinkState]
    /\ digest \in [Contacts -> DigestOutcome]
    /\ \A r \in DocRequests : docTxn[r].op \in {"idle", "save", "numbered", "status",
                                    "publish", "flushed", "delete", "untag", "link"}
    /\ now \in 0..MaxTime
    /\ docOverlap \in BOOLEAN

-----------------------------------------------------------------------------

Exists == current # 0
Saved == DOMAIN versions
Top == Cardinality(Saved)
Status(v) == versions[v].status

\* The version a link or a reaffirmation takes: the highest approved one.
Approved == {v \in Saved : Status(v) = "approved"}

DocLiveAt(o) == {v \in Saved : docLinks[<<v, o>>] = "live"}

\* latest_approval after a row is added: the newest by time; two of the same
\* time are told apart by their random ids, so either may be it.
LatestAfter(c) ==
    LET a == [at |-> now, by |-> c]
    IN {{a}} \cup {{b} : b \in {x \in latest : x.at = now}}

\* Where the document stands against its cadence.
review_state ==
    IF latest = {} THEN "never_approved"
    ELSE LET next == Max({a.at : a \in latest}) + cadence
         IN IF now >= next THEN "overdue"
            ELSE IF next - now <= DueSoon THEN "due_soon" ELSE "current"

NeedsAttention == Exists /\ review_state \in {"never_approved", "due_soon", "overdue"}

\* Everyone the digest writes to.
Candidates == {a.by : a \in latest} \cup RoleHolders

\* The objectives the version's page shows.
ObjectivesShown(v) ==
    IF Status(v) \in {"approved", "superseded"} THEN versions[v].published ELSE tags

\* Whether a version's row is locked by a publication that has flushed it.
Locked(v) == \E r \in DocRequests : docTxn[r].op = "flushed" /\ docTxn[r].version = v

\* The clock, the digest and a change of cadence have no part in the races.
DocQuiet == ~ docOverlap /\ \A r \in DocRequests : docTxn[r] = DocIdle

DocReady == docOverlap \/ \A r \in DocRequests : docTxn[r] = DocIdle

DocStart(r, t) == docTxn[r] = DocIdle /\ DocReady /\ docTxn' = [docTxn EXCEPT ![r] = t]
DocDone(r) == docTxn' = [docTxn EXCEPT ![r] = DocIdle]

-----------------------------------------------------------------------------

DocInit ==
    /\ current = 0 /\ cadence = 0
    /\ versions = <<>>
    /\ tags = {}
    /\ initial = {} /\ latest = {}
    /\ evidence = [v \in DocNumbers |-> 0]
    /\ docLinks = [x \in DocNumbers \X Objectives |-> DocNone]
    /\ digest = [c \in Contacts |-> DocNone]
    /\ docTxn = [r \in DocRequests |-> DocIdle]
    /\ now = 0
    /\ docOverlap \in BOOLEAN

CreateDocument(n) ==
    /\ ~ Exists /\ DocReady
    /\ current' = 1 /\ cadence' = n
    /\ versions' = <<[status |-> "draft", base |-> 0, published |-> {}]>>
    /\ UNCHANGED <<tags, initial, latest, evidence, docLinks, digest, docTxn, now, docOverlap>>

PatchDocument(n) ==
    /\ Exists /\ DocQuiet
    /\ cadence' = n
    /\ UNCHANGED <<current, versions, tags, initial, latest, evidence, docLinks, digest, docTxn, now, docOverlap>>

DeleteBegin(r) ==
    /\ Exists
    /\ \A v \in Saved : evidence[v] = 0
    /\ DocStart(r, [op |-> "delete"])
    /\ UNCHANGED <<docRows, digest, now, docOverlap>>

\* The rows below the document go with it unless evidence refers to one; what
\* other requests were about to write has lost its document, and they fail.
DeleteCommit(r) ==
    /\ docTxn[r].op = "delete" /\ ~ \E v \in Saved : Locked(v)
    /\ IF \E v \in Saved : evidence[v] > 0
       THEN DocDone(r) /\ UNCHANGED docRows
       ELSE /\ current' = 0 /\ cadence' = 0 /\ versions' = <<>> /\ tags' = {} /\ initial' = {} /\ latest' = {}
            /\ docTxn' = [q \in DocRequests |-> DocIdle]
            /\ UNCHANGED <<evidence, docLinks>>
    /\ UNCHANGED <<digest, now, docOverlap>>

DocRoom == Top < IF docOverlap THEN DocMaxRaced ELSE MaxVersions

\* The document is read, and with it the current version the edit must have
\* started from.
SaveBegin(r, base) ==
    /\ Exists /\ DocRoom
    /\ base = current
    /\ DocStart(r, [op |-> "save", base |-> base])
    /\ UNCHANGED <<docRows, digest, now, docOverlap>>

\* The highest number is read in a statement of its own.
SaveNumber(r) ==
    /\ docTxn[r].op = "save" /\ DocRoom
    /\ docTxn' = [docTxn EXCEPT ![r] =
                    [op |-> "numbered", base |-> docTxn[r].base, top |-> Top]]
    /\ UNCHANGED <<docRows, digest, now, docOverlap>>

SaveCommit(r) ==
    /\ docTxn[r].op = "numbered"
    /\ DocDone(r)
    /\ LET n == docTxn[r].top + 1
       IN IF n \in Saved THEN UNCHANGED <<current, versions>>
          ELSE /\ versions' = [v \in 1..n |->
                      IF v = n THEN [status |-> "draft", base |-> docTxn[r].base,
                                     published |-> {}]
                      ELSE versions[v]]
               /\ current' = n
    /\ UNCHANGED <<cadence, tags, initial, latest, evidence, docLinks, digest, now, docOverlap>>

\* Mutant: any version's status may be set.
StatusBegin_any(r, s) ==
    /\ Exists
    /\ DocStart(r, [op |-> "status", version |-> current, to |-> s])
    /\ UNCHANGED <<docRows, digest, now, docOverlap>>

StatusBegin(r, s) ==
    /\ Exists /\ Status(current) \in Manual
    /\ DocStart(r, [op |-> "status", version |-> current, to |-> s])
    /\ UNCHANGED <<docRows, digest, now, docOverlap>>

\* The status is written whatever it has become since it was read.
StatusCommit(r) ==
    /\ docTxn[r].op = "status" /\ ~ Locked(docTxn[r].version)
    /\ versions' = [versions EXCEPT ![docTxn[r].version].status = docTxn[r].to]
    /\ DocDone(r)
    /\ UNCHANGED <<current, cadence, tags, initial, latest, evidence, docLinks, digest, now, docOverlap>>

\* What a tag request may name: an objective, or a practice, for all of its own.
TagKeys == {{o} : o \in Objectives} \cup {Objectives}

AddObjectiveTag(wanted) ==
    /\ Exists /\ DocReady
    /\ tags' = tags \cup wanted
    /\ UNCHANGED <<current, cadence, versions, initial, latest, evidence, docLinks, digest, docTxn, now, docOverlap>>

\* The live links that keep the objective's tag.
RestingLinks(o) == DocLiveAt(o)

\* Mutant: resting links do not hold the tag.
DocRemoveTagBegin_unchecked(r, o) ==
    /\ Exists /\ o \in tags
    /\ DocStart(r, [op |-> "untag", objective |-> o])
    /\ UNCHANGED <<docRows, digest, now, docOverlap>>

DocRemoveTagBegin(r, o) ==
    /\ Exists /\ o \in tags
    /\ RestingLinks(o) = {}
    /\ DocStart(r, [op |-> "untag", objective |-> o])
    /\ UNCHANGED <<docRows, digest, now, docOverlap>>

DocRemoveTagCommit(r) ==
    /\ docTxn[r].op = "untag"
    /\ tags' = tags \ {docTxn[r].objective}
    /\ DocDone(r)
    /\ UNCHANGED <<current, cadence, versions, initial, latest, evidence, docLinks, digest, now, docOverlap>>

PublishBegin(r, c) ==
    /\ Exists /\ Status(current) \in Manual
    /\ DocStart(r, [op |-> "publish", version |-> current, by |-> c])
    /\ UNCHANGED <<docRows, digest, now, docOverlap>>

\* The version is written approved and its row stays locked; its initial
\* approval is inserted, which the unique index refuses for a version that has
\* one; then the other approved versions and the tags are read.
PublishFlush(r) ==
    /\ docTxn[r].op = "publish" /\ ~ Locked(docTxn[r].version)
    /\ IF docTxn[r].version \in initial
       THEN DocDone(r)
       ELSE docTxn' = [docTxn EXCEPT ![r] = [op |-> "flushed", version |-> docTxn[r].version,
                                       by |-> docTxn[r].by, tags |-> tags,
                                       others |-> Approved \ {docTxn[r].version}]]
    /\ UNCHANGED <<docRows, digest, now, docOverlap>>

\* The publication commits: the version is approved with the tags of the
\* moment, the versions read as approved are superseded, and an evidence row
\* carries the version.
PublishCommit(r) ==
    /\ docTxn[r].op = "flushed"
    /\ LET t == docTxn[r]
       IN /\ versions' = [v \in Saved |->
                 IF v = t.version THEN [versions[v] EXCEPT !.status = "approved",
                                                          !.published = t.tags]
                 ELSE IF v \in t.others THEN [versions[v] EXCEPT !.status = "superseded"]
                 ELSE versions[v]]
          /\ initial' = initial \cup {t.version}
          /\ latest' \in LatestAfter(t.by)
          /\ evidence' = [evidence EXCEPT ![t.version] = @ + 1]
    /\ DocDone(r)
    /\ UNCHANGED <<current, cadence, tags, docLinks, digest, now, docOverlap>>

Reaffirm(c) ==
    /\ Exists /\ Approved # {} /\ DocReady
    /\ latest' \in LatestAfter(c)
    /\ UNCHANGED <<current, cadence, versions, tags, initial, evidence, docLinks, digest, docTxn, now, docOverlap>>

\* Whether the document is offered for the objective, and the version that is.
DocOffered(o) == Exists /\ o \in tags /\ Approved # {}
OfferedVersion == Max(Approved)

DocLinkBegin(r, o) ==
    /\ DocOffered(o)
    /\ DocLiveAt(o) = {}
    /\ DocStart(r, [op |-> "link", objective |-> o, version |-> OfferedVersion, old |-> {}])
    /\ UNCHANGED <<docRows, digest, now, docOverlap>>

DocMoveForwardBegin(r, o) ==
    /\ DocOffered(o)
    /\ DocLiveAt(o) # {} /\ OfferedVersion \notin DocLiveAt(o)
    /\ DocStart(r, [op |-> "link", objective |-> o, version |-> OfferedVersion,
                 old |-> DocLiveAt(o)])
    /\ UNCHANGED <<docRows, digest, now, docOverlap>>

\* The links read are archived as moved forward, and the version's own row is
\* made or restored; its evidence row is made if it has none.
DocLinkCommit(r) ==
    /\ docTxn[r].op = "link"
    /\ LET t == docTxn[r]
       IN /\ docLinks' = [x \in DOMAIN docLinks |->
                 IF x = <<t.version, t.objective>> THEN "live"
                 ELSE IF x[2] = t.objective /\ x[1] \in t.old THEN "moved_forward"
                 ELSE docLinks[x]]
          /\ evidence' = [evidence EXCEPT ![t.version] = IF @ = 0 THEN 1 ELSE @]
    /\ DocDone(r)
    /\ UNCHANGED <<current, cadence, versions, tags, initial, latest, digest, now, docOverlap>>

DocUnlink(o) ==
    /\ Exists /\ DocLiveAt(o) # {} /\ DocReady
    /\ docLinks' = [x \in DOMAIN docLinks |->
                    IF x[2] = o /\ x[1] \in DocLiveAt(o) THEN "detached" ELSE docLinks[x]]
    /\ UNCHANGED <<current, cadence, versions, tags, initial, latest, evidence, digest, docTxn, now, docOverlap>>

\* The weekly digest: a notification row per candidate, sent or with its error.
Digest(sent) ==
    /\ NeedsAttention /\ DocQuiet
    /\ Candidates # {}
    /\ digest' = [c \in Contacts |->
           IF c \notin Candidates THEN DocNone
           ELSE IF c \in sent THEN "sent" ELSE "error"]
    /\ UNCHANGED <<docRows, docTxn, now, docOverlap>>

Tick ==
    /\ now < MaxTime /\ DocQuiet
    /\ now' = now + 1
    /\ UNCHANGED <<docRows, digest, docTxn, docOverlap>>

DocNext ==
    \/ \E n \in Cadences : CreateDocument(n) \/ PatchDocument(n)
    \/ \E w \in TagKeys : AddObjectiveTag(w)
    \/ \E c \in Contacts : Reaffirm(c)
    \/ \E o \in Objectives : DocUnlink(o)
    \/ \E sent \in SUBSET Contacts : Digest(sent)
    \/ Tick
    \/ \E r \in DocRequests :
        \/ DeleteBegin(r) \/ DeleteCommit(r)
        \/ \E base \in DocNumbers : SaveBegin(r, base)
        \/ SaveNumber(r) \/ SaveCommit(r)
        \/ \E s \in Manual : StatusBegin(r, s)
        \/ StatusCommit(r)
        \/ \E o \in Objectives : DocRemoveTagBegin(r, o)
        \/ DocRemoveTagCommit(r)
        \/ \E c \in Contacts : PublishBegin(r, c)
        \/ PublishFlush(r) \/ PublishCommit(r)
        \/ \E o \in Objectives : DocLinkBegin(r, o) \/ DocMoveForwardBegin(r, o)
        \/ DocLinkCommit(r)

DocSpec == DocInit /\ [][DocNext]_docVars

-----------------------------------------------------------------------------
(***************************************************************************)
(* With requests overlapping.                                              *)
(***************************************************************************)

\* The document always shows the version saved last, and no save starts from a
\* version later than itself, for every pair of saves in flight
\* (create_document_version's number and the unique index on it).
NewestIsCurrent == current = Top /\ \A v \in Saved : versions[v].base < v

\* A version is published once: two publications of it cannot both leave an
\* evidence row (publish_document and the index on the initial approval).
PublishedOnce == \A v \in DocNumbers : evidence[v] <= 1

\* Evidence keeps the version it carries: no delete in flight with a publication
\* takes it away (delete_document and the evidence's foreign key).
EvidenceKeepsItsVersion == \A v \in DocNumbers : evidence[v] > 0 => v \in Saved

(***************************************************************************)
(* With one request at a time.  What create_document_version says of two   *)
(* saves in flight, that the later one is refused, is SavesAreSequential;  *)
(* it is refuted there, for a save may be committed between its two reads. *)
(***************************************************************************)

\* No save is lost: every version starts from the one before it
\* (create_document_version's base_version_id).
SavesAreSequential == \A v \in Saved : versions[v].base = v - 1
SavesFollow == ~ docOverlap => SavesAreSequential

\* At most one version is approved, whatever the order of saves, status
\* changes, publications and reaffirmations (publish_document's supersede loop).
AtMostOneApproved == ~ docOverlap => Cardinality(Approved) <= 1

\* A live link rests on an objective the document is tagged with, on a version
\* that is approved or superseded, and is the document's only one there
\* (document_evidence's link, move_forward and the refused tag removal).
LiveLinksAreSound ==
    ~ docOverlap => \A o \in Objectives :
        /\ DocLiveAt(o) # {} => o \in tags
        /\ \A v \in DocLiveAt(o) : Status(v) \in {"approved", "superseded"}
        /\ Cardinality(DocLiveAt(o)) <= 1

\* An approved version is only ever superseded, and the objectives its page
\* shows stay the ones it was published with (patch_document_version_status,
\* publish_document and _version_detail_out).
PublishedIsFinal ==
    [][~ docOverlap => \A v \in Saved :
         Status(v) \in {"approved", "superseded"} =>
             /\ Status(v)' \in {Status(v), "superseded"}
             /\ ObjectivesShown(v)' = ObjectivesShown(v)]_docVars

\* A document's versions, evidence and links hang together: no save, publication
\* or removal undoes what another relied on (create_document_version,
\* publish_document, delete_document, remove_objective_tag).
DocumentsAreSound ==
    /\ NewestIsCurrent /\ PublishedOnce /\ EvidenceKeepsItsVersion
    /\ SavesFollow /\ AtMostOneApproved /\ LiveLinksAreSound
=============================================================================
