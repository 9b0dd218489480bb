------------------------------- MODULE Lists -------------------------------
(***************************************************************************)
(* A list template kept by the provider and imported from a workbook, and  *)
(* one list of an organisation, built by hand or adopted from the template *)
(* (list_library.py, list_adoption.py, list_evidence.py and their routes). *)
(*                                                                         *)
(* A version's content is abstracted to what the rules compare: its        *)
(* columns, the columns a person has filled in some row, and whether the   *)
(* template's example rows are still there.  Requests on the list are      *)
(* split where they read first and write later; `overlap' says whether     *)
(* they overlap in this behaviour.                                         *)
(***************************************************************************)
EXTENDS Integers, Sequences, FiniteSets, SequencesExt, FiniteSetsExt

CONSTANTS Columns,      \* column names
          Practices,    \* practices a list can be tagged with, one state each
          Sheets,       \* the successive contents of the workbook's sheet
          Entries,      \* contents a person may save on the list
          Rewrites,     \* contents a person may save on the template
          Requests,     \* requests that may be in flight together
          MaxTemplate,  \* bound on the template's versions
          MaxOwn,       \* bound on the list's versions
          MaxRaced      \* the same where requests overlap

Content == {c \in [columns : (SUBSET Columns) \ {{}}, filled : SUBSET Columns,
                   examples : BOOLEAN] : c.filled \subseteq c.columns}

ASSUME ListsAssumption ==
    /\ Sheets \in Seq([columns : (SUBSET Columns) \ {{}}, keys : (SUBSET Practices) \ {{}}])
    /\ Sheets # <<>> /\ IsFiniteSet(Practices)
    /\ Entries \subseteq Content /\ Rewrites \subseteq Content
    /\ MaxTemplate \in Nat /\ MaxOwn \in Nat \ {0}
    /\ MaxRaced \in 0..MaxOwn /\ MaxRaced <= MaxTemplate

VARIABLES sheet,        \* which content the workbook has now
          template,     \* the template's versions
          templateTags, \* practice -> how its tag on the template came
          own,          \* the list's versions
          ownTags,      \* practice -> how its tag on the list came
          basedOn,      \* the template version the list took last, 0 for none
          links,        \* version, practice -> the link row's state
          txn,          \* request -> what it has read
          overlap       \* whether requests overlap

templateRows == <<sheet, template, templateTags>>
ownRows == <<own, ownTags, basedOn, links>>
vars == <<templateRows, ownRows, txn, overlap>>

None == "none"
Idle == [op |-> "idle"]
Numbers == 1..MaxOwn

TagVia == {None, "template_import", "api", "template_adoption"}
TemplateVersion == [content : Content, via : {"template_import", "api"}, named : 0..MaxTemplate]
OwnVersion == [content : Content, base : 0..MaxOwn, named : 0..MaxOwn,
               cause : {"edit", "created_by_hand", "adopted_from_template"}]

TypeOK ==
    /\ sheet \in DOMAIN Sheets
    /\ template \in Seq(TemplateVersion) /\ Len(template) <= MaxTemplate
    /\ templateTags \in [Practices -> TagVia] /\ ownTags \in [Practices -> TagVia]
    /\ own \in Seq(OwnVersion) /\ Len(own) <= MaxOwn
    /\ basedOn \in 0..Len(template)
    /\ links \in [Numbers \X Practices -> {None, "live", "archived"}]
    /\ \A r \in Requests : txn[r].op \in {"idle", "edit", "take", "untag", "link",
                                           "import", "rewrite", "template_untag"}
    /\ overlap \in BOOLEAN

-----------------------------------------------------------------------------

Tagged(tags) == {k \in Practices : tags[k] # None}

\* What the importer reads off the sheet: its columns and its example rows.
PlannedContent == [columns |-> Sheets[sheet].columns, filled |-> {}, examples |-> TRUE]
PlannedKeys == Sheets[sheet].keys

\* The tags an import or an update adds and removes: it manages its own only.
TagChanges(tags, keys, via) ==
    [add |-> keys \ Tagged(tags),
     remove |-> {k \in Practices \ keys : tags[k] = via}]

Retag(tags, changes, via) ==
    [k \in Practices |-> IF k \in changes.add THEN via
                         ELSE IF k \in changes.remove THEN None ELSE tags[k]]

\* Rows are real when none is an example and something is entered.
IsPopulated(c) == ~ c.examples /\ c.filled # {}

LiveAt(k) == {v \in DOMAIN own : links[<<v, k>>] = "live"}

Adoptions == {v \in DOMAIN own : own[v].cause = "adopted_from_template"}

\* What taking the template's current version would make of the list.
UpdatePlan ==
    LET mine == Last(own).content
        base == own[Max(Adoptions)].content
        theirs == Last(template).content
        same == mine.filled = base.filled /\ mine.examples = base.examples
    IN [content |-> IF same THEN theirs
                    ELSE [columns |-> theirs.columns, examples |-> mine.examples,
                          filled |-> mine.filled \cap theirs.columns],
        edited |-> mine.columns # base.columns
                     \/ (~ same /\ ~ mine.filled \subseteq theirs.columns),
        tags |-> TagChanges(ownTags, Tagged(templateTags), "template_adoption")]

Quiet == \A r \in Requests : txn[r] = Idle
Ready == overlap \/ Quiet
Start(r, t) == txn[r] = Idle /\ Ready /\ txn' = [txn EXCEPT ![r] = t]
Done(r) == txn' = [txn EXCEPT ![r] = Idle]

Room == Len(own) < IF overlap THEN MaxRaced ELSE MaxOwn
TemplateRoom == Len(template) < IF overlap THEN MaxRaced ELSE MaxTemplate

-----------------------------------------------------------------------------

Init ==
    /\ sheet = 1
    /\ template = <<>> /\ templateTags = [k \in Practices |-> None]
    /\ own = <<>> /\ ownTags = [k \in Practices |-> None]
    /\ basedOn = 0
    /\ links = [x \in Numbers \X Practices |-> None]
    /\ txn = [r \in Requests |-> Idle]
    /\ overlap \in BOOLEAN

\* Someone edits the workbook.
SheetChanges ==
    /\ sheet < Len(Sheets) /\ Quiet
    /\ sheet' = sheet + 1
    /\ UNCHANGED <<template, templateTags, ownRows, txn, overlap>>

TagsDiffer == LET c == TagChanges(templateTags, PlannedKeys, "template_import")
              IN c.add # {} \/ c.remove # {}

\* What the import would do with the sheet.
ImportAction ==
    IF template = <<>> THEN "create"
    ELSE IF Last(template).content # PlannedContent
         THEN IF Last(template).via = "api" THEN "conflict" ELSE "new_version"
    ELSE IF TagsDiffer THEN "tags" ELSE "unchanged"

\* The edit the import overwrites, which the command must name: 0 for none.
Overwritten == IF ImportAction = "conflict" THEN Len(template) ELSE 0

\* lists-import --apply, with the edit it may overwrite named, or none: a list
\* a person edited is left alone, tags included, unless exactly that edit is
\* named.  All that is decided here, by the diff; nothing of it is asked again.
ImportBegin(r, named) ==
    /\ TemplateRoom /\ ImportAction # "unchanged" /\ named = Overwritten
    /\ Start(r, [op |-> "import", what |-> ImportAction, named |-> named,
                 number |-> 0, retag |-> {}])
    /\ UNCHANGED <<templateRows, ownRows, overlap>>

\* A person saves a version of the template over the one that is current; only
\* its columns and examples vary.
RewriteBegin(r, c) ==
    /\ template # <<>> /\ TemplateRoom
    /\ c # Last(template).content
    /\ Start(r, [op |-> "rewrite", number |-> 0, content |-> c])
    /\ UNCHANGED <<templateRows, ownRows, overlap>>

Creates(t) == t.op = "import" /\ t.what = "create"

\* create_version, of either, asks for the highest number; a list the import
\* creates has none yet, and if another has created it the unique key refuses.
TemplateNumber(r) ==
    /\ \/ txn[r].op = "rewrite"
       \/ txn[r].op = "import" /\ txn[r].what # "tags"
    /\ txn[r].number = 0 /\ Len(template) < MaxTemplate
    /\ txn' = [txn EXCEPT ![r].number =
                 IF Creates(txn[r]) THEN 1 ELSE Len(template) + 1]
    /\ UNCHANGED <<templateRows, ownRows, overlap>>

RewriteCommit(r) ==
    /\ txn[r].op = "rewrite" /\ txn[r].number # 0
    /\ template' = IF txn[r].number \in DOMAIN template THEN template
                   ELSE Append(template, [content |-> txn[r].content, via |-> "api", named |-> 0])
    /\ Done(r)
    /\ UNCHANGED <<sheet, templateTags, ownRows, overlap>>

\* Mutant: the import's tags only accumulate.
ImportedTags_kept ==
    [add |-> PlannedKeys \ Tagged(templateTags), remove |-> {}]

\* The tags to change are read after the version is written.
ImportedTags == TagChanges(templateTags, PlannedKeys, "template_import")

ImportTags(r) ==
    /\ txn[r].op = "import" /\ txn[r].retag = {}
    /\ txn[r].what # "tags" => txn[r].number # 0
    /\ txn' = [txn EXCEPT ![r].retag = {ImportedTags}]
    /\ UNCHANGED <<templateRows, ownRows, overlap>>

\* A number or a tag that is taken by now refuses the whole import.
ImportCommit(r) ==
    /\ txn[r].op = "import" /\ txn[r].retag # {}
    /\ LET t == txn[r]
           changes == CHOOSE c \in t.retag : TRUE
           refused == t.number \in DOMAIN template \/ changes.add \cap Tagged(templateTags) # {}
       IN IF refused THEN UNCHANGED <<template, templateTags>>
          ELSE /\ template' = IF t.what = "tags" THEN template
                              ELSE Append(template, [content |-> PlannedContent,
                                     via |-> "template_import", named |-> t.named])
               /\ templateTags' = Retag(templateTags, changes, "template_import")
    /\ Done(r)
    /\ UNCHANGED <<sheet, ownRows, overlap>>

\* Why a tag cannot be removed, if it cannot: it is not there, it is the last
\* one, or evidence rests on it.
RemovalRefused(tags, k, resting) ==
    CASE tags[k] = None -> "not_found"
      [] tags[k] # None /\ Cardinality(Tagged(tags)) = 1 -> "last_tag"
      [] tags[k] # None /\ Cardinality(Tagged(tags)) > 1 /\ resting # {} -> "evidence"
      [] OTHER -> None

\* A template is never evidence, so no link holds its tags; the last one stays.
UntagTemplateBegin(r, k) ==
    /\ RemovalRefused(templateTags, k, {}) = None
    /\ Start(r, [op |-> "template_untag", key |-> k])
    /\ UNCHANGED <<templateRows, ownRows, overlap>>

UntagTemplateCommit(r) ==
    /\ txn[r].op = "template_untag"
    /\ templateTags' = [templateTags EXCEPT ![txn[r].key] = None]
    /\ Done(r)
    /\ UNCHANGED <<sheet, template, ownRows, overlap>>

HandVersion(c) == [content |-> c, base |-> 0, named |-> 0, cause |-> "created_by_hand"]

CreateByHand(c, keys) ==
    /\ own = <<>> /\ Ready
    /\ own' = <<HandVersion(c)>>
    /\ ownTags' = [k \in Practices |-> IF k \in keys THEN "api" ELSE None]
    /\ UNCHANGED <<templateRows, basedOn, links, txn, overlap>>

\* What an adoption reads of the template.
TemplateSnap == [content |-> Last(template).content, version |-> Len(template),
                 keys |-> Tagged(templateTags)]

\* The copy's first version.
AdoptedVersion == [content |-> TemplateSnap.content, base |-> 0, named |-> 0,
                   cause |-> "adopted_from_template"]

Adopt ==
    /\ own = <<>> /\ template # <<>> /\ Ready
    /\ own' = <<AdoptedVersion>>
    /\ ownTags' = [k \in Practices |->
                      IF k \in TemplateSnap.keys THEN "template_adoption" ELSE None]
    /\ basedOn' = TemplateSnap.version
    /\ UNCHANGED <<templateRows, links, txn, overlap>>

\* A person saves the list: the version the edit started from must be current.
EditBegin(r, c) ==
    /\ own # <<>> /\ Room
    /\ Start(r, [op |-> "edit", base |-> Len(own), number |-> 0, content |-> c])
    /\ UNCHANGED <<templateRows, ownRows, overlap>>

\* An edit the update would replace must be named, and nothing else, and a tag
\* it would remove must not be rested on.
UpdateAllowed(plan, named) ==
    /\ named = IF plan.edited THEN Len(own) ELSE 0
    /\ \A k \in plan.tags.remove : LiveAt(k) = {}

\* The plan is made from the version that is current now.
TakeBegin(r, named) ==
    /\ basedOn # 0 /\ basedOn # Len(template) /\ Room
    /\ UpdateAllowed(UpdatePlan, named)
    /\ Start(r, [op |-> "take", base |-> Len(own), number |-> 0, named |-> named,
                 to |-> Len(template), plan |-> UpdatePlan])
    /\ UNCHANGED <<templateRows, ownRows, overlap>>

\* create_version asks for the highest number after the checks are made.
Number(r) ==
    /\ txn[r].op \in {"edit", "take"} /\ txn[r].number = 0 /\ Len(own) < MaxOwn
    /\ txn' = [txn EXCEPT ![r].number = Len(own) + 1]
    /\ UNCHANGED <<templateRows, ownRows, overlap>>

\* The unique index refuses a number that is taken by now.
EditCommit(r) ==
    /\ txn[r].op = "edit" /\ txn[r].number # 0
    /\ own' = IF txn[r].number \in DOMAIN own THEN own
              ELSE Append(own, [content |-> txn[r].content, base |-> txn[r].base,
                                named |-> 0, cause |-> "edit"])
    /\ Done(r)
    /\ UNCHANGED <<templateRows, ownTags, basedOn, links, overlap>>

\* Mutant: the template version is recorded one too high.
TakeCommit_offByOne(r) ==
    /\ txn[r].op = "take" /\ txn[r].number # 0
    /\ own' = Append(own, [content |-> txn[r].plan.content, base |-> txn[r].base,
                           named |-> txn[r].named, cause |-> "adopted_from_template"])
    /\ ownTags' = Retag(ownTags, txn[r].plan.tags, "template_adoption")
    /\ basedOn' = txn[r].to + 1
    /\ Done(r)
    /\ UNCHANGED <<templateRows, links, overlap>>

\* The update's version, its base and its tags; a link made meanwhile on a tag
\* it would remove refuses the whole request.
TakeCommit(r) ==
    /\ txn[r].op = "take" /\ txn[r].number # 0
    /\ LET t == txn[r]
           refused == t.number \in DOMAIN own
                        \/ \E k \in t.plan.tags.remove : LiveAt(k) # {}
       IN IF refused THEN UNCHANGED ownRows
          ELSE /\ own' = Append(own, [content |-> t.plan.content, base |-> t.base,
                                      named |-> t.named, cause |-> "adopted_from_template"])
               /\ ownTags' = Retag(ownTags, t.plan.tags, "template_adoption")
               /\ basedOn' = t.to
               /\ UNCHANGED links
    /\ Done(r)
    /\ UNCHANGED <<templateRows, overlap>>

AddTag(k) ==
    /\ own # <<>> /\ ownTags[k] = None /\ Ready
    /\ ownTags' = [ownTags EXCEPT ![k] = "api"]
    /\ UNCHANGED <<templateRows, own, basedOn, links, txn, overlap>>

RemoveTagBegin(r, k) ==
    /\ RemovalRefused(ownTags, k, LiveAt(k)) = None
    /\ Start(r, [op |-> "untag", key |-> k])
    /\ UNCHANGED <<templateRows, ownRows, overlap>>

RemoveTagCommit(r) ==
    /\ txn[r].op = "untag"
    /\ ownTags' = [ownTags EXCEPT ![txn[r].key] = None]
    /\ Done(r)
    /\ UNCHANGED <<templateRows, own, basedOn, links, overlap>>

\* Why the list is not offered, if it is not.
NotOfferedReason ==
    IF IsPopulated(Last(own).content) THEN None
    ELSE IF Last(own).content.examples THEN "examples" ELSE "nothing entered"

\* The list is offered for a practice it is tagged with, once its rows are real.
Offered(k) == own # <<>> /\ ownTags[k] # None /\ NotOfferedReason = None

LinkBegin(r, k) ==
    /\ Offered(k)
    /\ LiveAt(k) = {}
    /\ Start(r, [op |-> "link", key |-> k, version |-> Len(own), old |-> {}])
    /\ UNCHANGED <<templateRows, ownRows, overlap>>

MoveForwardBegin(r, k) ==
    /\ Offered(k)
    /\ LiveAt(k) # {} /\ Len(own) \notin LiveAt(k)
    /\ Start(r, [op |-> "link", key |-> k, version |-> Len(own), old |-> LiveAt(k)])
    /\ UNCHANGED <<templateRows, ownRows, overlap>>

\* The version's link row, made or restored, with the links read archived.
LiveLinkRow(v, k, old) ==
    [x \in DOMAIN links |->
        IF x = <<v, k>> THEN "live"
        ELSE IF x[2] = k /\ x[1] \in old THEN "archived" ELSE links[x]]

LinkCommit(r) ==
    /\ txn[r].op = "link"
    /\ links' = LiveLinkRow(txn[r].version, txn[r].key, txn[r].old)
    /\ Done(r)
    /\ UNCHANGED <<templateRows, own, ownTags, basedOn, overlap>>

Unlink(k) ==
    /\ LiveAt(k) # {} /\ Ready
    /\ links' = [x \in DOMAIN links |->
                    IF x[2] = k /\ x[1] \in LiveAt(k) THEN "archived" ELSE links[x]]
    /\ UNCHANGED <<templateRows, own, ownTags, basedOn, txn, overlap>>

Next ==
    \/ SheetChanges
    \/ \E k \in Practices : AddTag(k) \/ Unlink(k)
    \/ \E c \in Entries, k \in Practices : CreateByHand(c, {k})
    \/ Adopt
    \/ \E r \in Requests :
        \/ \E c \in Entries : EditBegin(r, c)
        \/ \E named \in 0..MaxOwn : TakeBegin(r, named)
        \/ Number(r) \/ EditCommit(r) \/ TakeCommit(r)
        \/ \E k \in Practices :
               RemoveTagBegin(r, k) \/ LinkBegin(r, k) \/ MoveForwardBegin(r, k)
        \/ RemoveTagCommit(r) \/ LinkCommit(r)
        \/ \E named \in 0..MaxTemplate : ImportBegin(r, named)
        \/ \E c \in Rewrites : RewriteBegin(r, c)
        \/ TemplateNumber(r) \/ RewriteCommit(r) \/ ImportTags(r) \/ ImportCommit(r)
        \/ \E k \in Practices : UntagTemplateBegin(r, k)
        \/ UntagTemplateCommit(r)

Spec == Init /\ [][Next]_vars

-----------------------------------------------------------------------------

\* Evidence is never a list of examples: a live link, and one archived since,
\* is on a version whose rows were entered, with requests overlapping
\* too (list_evidence's not_offered_reason, and versions that never change).
LinkedRowsAreReal ==
    \A v \in DOMAIN own, k \in Practices : links[<<v, k>>] # None => IsPopulated(own[v].content)

\* One request at a time: a live link keeps its practice's tag, through tag
\* removals, template updates and moves, and is the list's only one there
\* (remove_tag, take_update, link and move_forward).
LinksKeepTheirTag ==
    ~ overlap => \A k \in Practices :
        /\ LiveAt(k) # {} => ownTags[k] # None
        /\ Cardinality(LiveAt(k)) <= 1

\* One request at a time: a list, once it exists, serves a practice, whatever
\* tags people, imports and updates add and remove (remove_list_tag's LAST_TAG).
ServesAPractice ==
    ~ overlap => /\ own # <<>> => Tagged(ownTags) # {}
                 /\ template # <<>> => Tagged(templateTags) # {}

\* What a person entered or changed in v - 1 that version v no longer has.
Replaced(v) ==
    LET mine == own[v - 1].content
        base == own[Max({a \in Adoptions : a < v})].content
    IN \/ mine.columns # base.columns /\ mine.columns # own[v].content.columns
       \/ ~ mine.filled \subseteq own[v].content.filled /\ mine.filled # base.filled

\* One request at a time: taking a newer template version never replaces a
\* person's columns or filled cells unless that edit was named (take_update).
UpdatesKeepWork ==
    ~ overlap => \A v \in Adoptions \ {1} : Replaced(v) => own[v].named = v - 1

\* An import replaces a version a person saved on the template only when that
\* version was named, however many edits and imports came before (apply_import).
ImportsKeepEdits ==
    \A v \in DOMAIN template \ {1} :
        template[v].via = "template_import" /\ template[v - 1].via = "api" =>
            template[v].named = v - 1

\* That is apply_import's promise for any import; refuted where an edit is
\* committed between the diff and the new number, it holds one request at a time.
ImportsNameEdits == ~ overlap => ImportsKeepEdits

\* One request at a time an import settles: whatever it did, importing the same
\* workbook again proposes nothing (diff_import's promise to be idempotent).
ImportSettles ==
    [][\A r \in Requests : ~ overlap /\ ImportCommit(r) => ImportAction' = "unchanged"]_vars

\* Nobody's entries are lost to an import or an update, evidence rests on entered
\* rows and on a tag, and importing again changes nothing (apply_import,
\* take_update, remove_tag, link).
ListsKeepWork ==
    /\ [](LinkedRowsAreReal /\ LinksKeepTheirTag /\ ServesAPractice)
    /\ [](UpdatesKeepWork /\ ImportsNameEdits)
    /\ ImportSettles
=============================================================================
