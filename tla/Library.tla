------------------------------ MODULE Library -------------------------------
(***************************************************************************)
(* One product of the library and the ways its baseline changes: files     *)
(* uploaded, drafts an AI provider reads out of vendor documents and web   *)
(* pages, the seed of the repository's own files, publication              *)
(* (routers/admin_products.py, baseline_import.py, seeds/baselines.py,     *)
(* baseline.py, importers, web_fetch.py).                                  *)
(*                                                                         *)
(* A draft is a list of rows, a later row of a control replaces an earlier *)
(* one when it is applied.  It stays on the reviewer's screen with its     *)
(* preview until it is applied, however long that takes.                   *)
(*                                                                         *)
(* With `libOverlap' others may commit while an import or a publication is *)
(* being served.  Names carry the prefix lib so that a model can extend    *)
(* this module beside others.                                              *)
(***************************************************************************)
EXTENDS Integers, FiniteSets, Sequences

CONSTANTS Controls,        \* controls of the framework
          Files,           \* baselines people write: lists of rows
          Answers,         \* lists of rows the AI provider may answer
          Urls, Web,       \* pages: whether fetching is allowed, where it redirects
                           \* (to itself if not), whether its text can be used
          MaxRedirects,    \* _MAX_REDIRECTS
          Imports,         \* imports and publications in flight at a time
          MaxVersions,     \* bound on the versions
          LibMax           \* bound on the requests served

ASSUME LibAssumption ==
    /\ MaxRedirects \in Nat /\ MaxVersions \in Nat /\ LibMax \in Nat
    /\ Web \in [Urls -> [allowed : BOOLEAN, to : Urls, usable : BOOLEAN]]

VARIABLES libVersions,    \* the versions: number, content, and how it came about
          libCurrent,     \* number of the current version, 0 before the first
          libPublished,   \* is_published
          libPages,       \* web pages stored as research documents
          libScreen,      \* the draft under review and its preview
          libTxn,         \* what a request in flight has read
          libCleared,     \* history: the version current when publication was last asked
          libServed, libOverlap

libVars == <<libVersions, libCurrent, libPublished, libPages, libScreen, libTxn,
             libCleared, libServed, libOverlap>>

\* The two classifications that credit the vendor stand as one.  A row need not
\* be sound: that is for validation to find.
Classifications == {"customer_owns", "shared"}
Bases == {"customer_system", "vendor"}
Texts == {"none", "empty", "covers", "disclaims"}
Row == [control : Controls, cls : Classifications, basis : Bases \cup {"unset"},
        evidence : BOOLEAN, text : Texts]
ASSUME RowsAssumption == \A rows \in Files \cup Answers : rows \in Seq(Row)

BaselineControl == [cls : Classifications, basis : Bases, evidence : BOOLEAN,
                    text : Texts, chosen : BOOLEAN]
Absent == [cls |-> "absent"]

NoScreen == [op |-> "none"]
LibIdle == [op |-> "idle"]

ProductBaselineVersion ==
    {v \in libVersions : v.number \in Nat /\ v.via \in {"import", "seed"}}

LibTypeOK ==
    /\ libVersions = ProductBaselineVersion
    /\ \A v \in libVersions, c \in Controls : v.content[c] \in BaselineControl \cup {Absent}
    /\ libPublished \in BOOLEAN /\ libPages \subseteq Urls
    /\ libScreen.op \in {"none", "draft"}
    /\ \A i \in Imports : libTxn[i].op \in {"idle", "import", "seed", "publish"}
    /\ libServed \in Nat /\ libOverlap \in BOOLEAN

-----------------------------------------------------------------------------

\* A row as it is stored: a basis left out is customer_system.  `chosen' is
\* history, the file names the basis itself.
Entry(r) == [cls |-> r.cls, evidence |-> r.evidence, text |-> r.text,
             basis  |-> IF r.basis = "unset" THEN "customer_system" ELSE r.basis,
             chosen |-> r.basis # "unset"]

\* What a list of rows says of each control when it is applied: the last counts.
RowsOf(rows, c) == {i \in DOMAIN rows : rows[i].control = c}

Incoming(rows) ==
    [c \in Controls |->
        IF RowsOf(rows, c) = {} THEN Absent
        ELSE Entry(rows[CHOOSE i \in RowsOf(rows, c) : \A j \in RowsOf(rows, c) : j <= i])]

Existing(versions, n) ==
    IF n = 0 THEN [c \in Controls |-> Absent]
    ELSE (CHOOSE v \in versions : v.number = n).content

Signature(e) == IF e = Absent THEN Absent
                ELSE [cls |-> e.cls, basis |-> e.basis, evidence |-> e.evidence, text |-> e.text]

NeedsVersion(rows, n) ==
    \/ n = 0
    \/ \E c \in Controls :
           Signature(Existing(libVersions, n)[c]) # Signature(Incoming(rows)[c])

\* validate_structured: who credits the vendor says on which basis, and what
\* the customer owns asks for no evidence.
Valid(rows) ==
    \A i \in DOMAIN rows :
        /\ rows[i].cls # "customer_owns" => rows[i].basis # "unset"
        /\ rows[i].cls = "customer_owns" => ~ rows[i].evidence

Disclaims(r) == r.text = "disclaims"

\* build_preview compares row by row, in its own way.
Or(t) == IF t = "empty" THEN "none" ELSE t

PreviewBasis(r) == IF r.basis = "unset" /\ r.cls = "customer_owns" THEN "customer_system"
                   ELSE r.basis

Differs(old, r) ==
    \/ old.cls # r.cls \/ old.basis # PreviewBasis(r)
    \/ Or(old.text) # Or(r.text) \/ old.evidence # r.evidence

HasChanges(rows) ==
    LET old == Existing(libVersions, libCurrent)
    IN \/ libCurrent = 0
       \/ \E i \in DOMAIN rows : old[rows[i].control] = Absent \/ Differs(old[rows[i].control], rows[i])
       \/ \E c \in Controls : old[c] # Absent /\ RowsOf(rows, c) = {}

Flagged(rows) == {i \in DOMAIN rows : rows[i].cls = "shared" /\ Disclaims(rows[i])}

\* The draft on the screen: its preview, and, as history, what the documents
\* alone said of each control.
BuildPreview(rows, crm, flags) ==
    [op |-> "draft", rows |-> rows, crm |-> crm, flags |-> flags \cup Flagged(rows),
     valid |-> Valid(rows), changes |-> HasChanges(rows), at |-> libCurrent]

-----------------------------------------------------------------------------

\* What the provider's answer becomes.  Nothing it says of the basis is kept.
Minimized(r) == [r EXCEPT !.basis = "unset", !.evidence = @ /\ r.cls # "customer_owns"]

ParseControls(answer) == [i \in DOMAIN answer |-> Minimized(answer[i])]

\* A web page can only speak for coverage, the rest of its answer is dropped.
ParseWebControls(answer) ==
    [i \in DOMAIN answer |-> IF answer[i].cls = "customer_owns" THEN Absent
                             ELSE Minimized(answer[i])]

IngestDocument(answer) == ParseControls(answer)

\* A page adds a control the rows so far do not have; where the first of them
\* disclaims it, the row is flagged instead.
MergeRow(acc, r) ==
    LET have == RowsOf(acc.rows, r.control)
        first == CHOOSE i \in have : \A j \in have : i <= j
    IN IF r = Absent THEN acc
       ELSE IF have = {} THEN [acc EXCEPT !.rows = Append(@, r)]
       ELSE IF acc.rows[first].cls = "customer_owns" \/ Disclaims(acc.rows[first])
            THEN [acc EXCEPT !.flags = @ \cup {first}]
            ELSE acc

Merging(primary, web) ==
    LET acc[n \in 0..Len(web)] == IF n = 0 THEN [rows |-> primary, flags |-> {}]
                                  ELSE MergeRow(acc[n - 1], web[n])
    IN acc

MergeResearch(primary, web) == Merging(primary, web)[Len(web)]

\* fetch_url_safely: follow the redirects, every hop must be allowed, and the
\* text of the page is neither too short nor too long.
FetchUrlSafely(u) ==
    LET chain[n \in 0..MaxRedirects] == IF n = 0 THEN u ELSE Web[chain[n - 1]].to
    IN \E n \in 0..MaxRedirects :
           /\ Web[chain[n]].to = chain[n] /\ Web[chain[n]].usable
           /\ \A k \in 0..n : Web[chain[k]].allowed

-----------------------------------------------------------------------------

LibInit ==
    /\ libVersions = {} /\ libCurrent = 0 /\ libPublished = FALSE
    /\ libPages = {} /\ libScreen = NoScreen
    /\ libTxn = [i \in Imports |-> LibIdle]
    /\ libCleared = 0 /\ libServed = 0
    /\ libOverlap \in BOOLEAN

LibServe == libServed < LibMax /\ libServed' = libServed + 1

LibBegin(i, read) ==
    /\ libTxn[i] = LibIdle
    /\ libOverlap \/ \A j \in Imports : libTxn[j] = LibIdle
    /\ libTxn' = [libTxn EXCEPT ![i] = read]
    /\ LibServe
    /\ UNCHANGED <<libVersions, libCurrent, libPublished, libPages, libScreen,
                   libCleared, libOverlap>>

LibEnd(i) ==
    /\ libTxn' = [libTxn EXCEPT ![i] = LibIdle]
    /\ UNCHANGED <<libPages, libScreen, libServed, libOverlap>>

Show(screen) ==
    /\ libScreen' = screen
    /\ LibServe
    /\ UNCHANGED <<libVersions, libCurrent, libPublished, libPages, libTxn,
                   libCleared, libOverlap>>

\* A file with these rows is previewed.
ImportDryRun(rows) == Show(BuildPreview(rows, [c \in Controls |-> Absent], {}))

\* The reviewer changes a row on the screen and the draft is previewed again.
ImportDryRunStructured(i, r) ==
    /\ libScreen.op = "draft" /\ i \in DOMAIN libScreen.rows
    /\ r.control = libScreen.rows[i].control
    /\ Show(BuildPreview([libScreen.rows EXCEPT ![i] = r], [c \in Controls |-> Absent], {}))

\* Vendor documents are read by the provider; its answer may be any rows.
ImportFromDocuments(answer) ==
    LET rows == IngestDocument(answer)
    IN Show(BuildPreview(rows, Incoming(rows), {}))

\* The same with the stored pages of a product that exists.
ImportWithResearch(answer, web) ==
    LET rows == IngestDocument(answer)
        all == MergeResearch(rows, ParseWebControls(web))
    IN /\ libCurrent > 0 /\ libPages # {}
       /\ Show(BuildPreview(all.rows, Incoming(rows), all.flags))

FetchResearchUrl(u) ==
    /\ libCurrent > 0 /\ u \notin libPages /\ FetchUrlSafely(u)
    /\ libPages' = libPages \cup {u}
    /\ LibServe
    /\ UNCHANGED <<libVersions, libCurrent, libPublished, libScreen, libTxn,
                   libCleared, libOverlap>>

DeleteDocument(u) ==
    /\ u \in libPages
    /\ libPages' = libPages \ {u}
    /\ LibServe
    /\ UNCHANGED <<libVersions, libCurrent, libPublished, libScreen, libTxn,
                   libCleared, libOverlap>>

\* import/apply of the draft on the screen.
ImportApplyBegin(i) ==
    /\ libScreen.op = "draft" /\ Valid(libScreen.rows)
    /\ LibBegin(i, [op |-> "import", rows |-> libScreen.rows, at |-> libCurrent,
                    published |-> libPublished,
                    needs |-> NeedsVersion(libScreen.rows, libCurrent)])

\* seed-baselines on the repository's own file: not validated, not withdrawn.
SeedBaselinesBegin(i, rows) ==
    LibBegin(i, [op |-> "seed", rows |-> rows, at |-> libCurrent,
                 published |-> libPublished, needs |-> NeedsVersion(rows, libCurrent)])

Taken(t) == \E v \in libVersions : v.number = t.at + 1

\* Mutant: the product stays published.
Withdraws_never(t) == FALSE

\* A new version of an imported product is withdrawn from publication.
Withdraws(t) == t.op = "import" /\ t.at > 0 /\ t.published

\* _seed_product commits a version.  is_published is written when it was read
\* as true.
SeedProduct(i) ==
    LET t == libTxn[i]
    IN /\ t.op \in {"import", "seed"} /\ t.needs /\ ~ Taken(t)
       /\ t.at < MaxVersions
       /\ libVersions' = libVersions \cup
              {[number |-> t.at + 1, content |-> Incoming(t.rows), via |-> t.op]}
       /\ libCurrent' = t.at + 1
       /\ libPublished' = (libPublished /\ ~ Withdraws(t))
       /\ LibEnd(i)
       /\ UNCHANGED libCleared

\* Nothing differs from the version read, or its successor has been stored
\* meanwhile and the unique number refuses this one.
SeedProductNothing(i) ==
    LET t == libTxn[i]
    IN /\ t.op \in {"import", "seed"} /\ (t.needs => Taken(t) \/ t.at >= MaxVersions)
       /\ LibEnd(i)
       /\ UNCHANGED <<libVersions, libCurrent, libPublished, libCleared>>

PublishBegin(i) ==
    /\ libCurrent > 0
    /\ LibBegin(i, [op |-> "publish", at |-> libCurrent, published |-> libPublished])

PublishProduct(i) ==
    LET t == libTxn[i]
    IN /\ t.op = "publish"
       /\ libPublished' = (libPublished \/ ~ t.published)
       /\ libCleared' = t.at
       /\ LibEnd(i)
       /\ UNCHANGED <<libVersions, libCurrent>>

UnpublishProduct ==
    /\ libPublished
    /\ libOverlap \/ \A j \in Imports : libTxn[j] = LibIdle
    /\ libPublished' = FALSE
    /\ LibServe
    /\ UNCHANGED <<libVersions, libCurrent, libPages, libScreen, libTxn, libCleared, libOverlap>>

LibNext ==
    \/ \E rows \in Files : ImportDryRun(rows)
    \/ \E file \in Files, i, k \in 1..2 :
           k \in DOMAIN file /\ ImportDryRunStructured(i, file[k])
    \/ \E answer \in Answers : ImportFromDocuments(answer)
    \/ \E answer, web \in Answers : ImportWithResearch(answer, web)
    \/ \E u \in Urls : FetchResearchUrl(u) \/ DeleteDocument(u)
    \/ \E i \in Imports :
           \/ ImportApplyBegin(i) \/ PublishBegin(i)
           \/ SeedProduct(i) \/ SeedProductNothing(i) \/ PublishProduct(i)
    \/ \E i \in Imports, rows \in Files : SeedBaselinesBegin(i, rows)
    \/ UnpublishProduct

-----------------------------------------------------------------------------

\* Versions are numbered without gaps and the product points to the last one,
\* whatever imports and seeds overlap: the unique number makes one of two that
\* read the same version fail.
VersionsAreSequential ==
    /\ libCurrent = Cardinality(libVersions)
    /\ {v.number : v \in libVersions} = 1..libCurrent

\* What the preview announces is what applying the draft does, as long as the
\* library has not moved on: a new version or none.  The two compare in their
\* own ways, so a control listed twice and an empty text are left aside.
PreviewTells ==
    /\ libScreen.op = "draft" /\ libScreen.at = libCurrent /\ libScreen.valid
    /\ \A c \in Controls : Cardinality(RowsOf(libScreen.rows, c)) <= 1
    /\ \A i \in DOMAIN libScreen.rows : libScreen.rows[i].text # "empty"
    /\ \A v \in libVersions, c \in Controls : v.content[c] = Absent \/ v.content[c].text # "empty"
    => libScreen.changes = NeedsVersion(libScreen.rows, libCurrent)

\* A version that was imported shows to customers only after somebody asked for
\* its publication: an import over a published version withdraws it.  Overlap
\* can break it: a publication that commits between what an import reads and
\* writes clears a version nobody has seen.
PublishedIsCleared ==
    ~ libOverlap /\ libPublished =>
        \/ libCleared = libCurrent
        \/ \E v \in libVersions : v.number = libCurrent /\ v.via = "seed"

\* Whatever a web page proposes, the controls the vendor's documents speak of
\* keep what those say when the draft is applied.  Pages that disagree among
\* themselves do not matter either: the last row of a control is what counts
\* then, and the merge must not add a second.
ResearchNeverOverrides ==
    libScreen.op = "draft" =>
        \A c \in Controls : libScreen.crm[c] # Absent =>
            Incoming(libScreen.rows)[c] = libScreen.crm[c]

\* No imported version credits a vendor on a basis nobody named, or asks for
\* evidence of what the customer owns, however the draft came about: the AI
\* provider's word on either is dropped and a reviewer has to supply it.
ImportedIsConfirmed ==
    \A v \in libVersions, c \in Controls :
        v.via = "import" /\ v.content[c] # Absent =>
            /\ v.content[c].cls # "customer_owns" => v.content[c].chosen
            /\ v.content[c].cls = "customer_owns" => ~ v.content[c].evidence

\* What customers are shown was previewed, confirmed and cleared by a person, and
\* rests on documents before web pages (dry_run_import, apply_import,
\* merge_research, seed_product, publish_product).
LibraryIsSound ==
    /\ VersionsAreSequential /\ PublishedIsCleared
    /\ PreviewTells /\ ResearchNeverOverrides /\ ImportedIsConfirmed
=============================================================================
