------------------------------ MODULE Casework ------------------------------
(***************************************************************************)
(* The working papers of one organisation: contacts and their Liongard     *)
(* import (routers/contacts.py), RACI (routers/raci.py), assessment cycles *)
(* and what a new one takes over (routers/assessments.py, engine.py), one  *)
(* implementation statement, the SPRS submissions (sprs_submissions.py)    *)
(* and the job that reminds of them after a year (scheduler.py).           *)
(*                                                                         *)
(* A request that reads before it writes is two steps; with `cwOverlap'    *)
(* others may commit in between.  The job is a process of its own and      *)
(* always runs beside the requests; Scheduler shows that it runs once at a *)
(* time.  now() is the time a transaction began, so assessments and        *)
(* submissions are numbered in the order of their requests.                *)
(***************************************************************************)
EXTENDS Integers, FiniteSets

CONSTANTS Contacts,          \* contact rows that may come to exist
          Client,            \* the contact that is there from the start
          CwObjectives,      \* the objectives of one control family
          Opening,           \* the objective assigned first
          Staff,             \* auth.msp_staff_emails
          Year, CwLast,      \* the twelve months, and the last day
          CwRequests,        \* requests in flight at a time
          CwMax, CwRaced,    \* bounds on the requests served, alone and overlapping
          CwCrashMax         \* bound on crashes of the job

ASSUME CwAssumption ==
    /\ Client \in Contacts /\ Opening \in CwObjectives /\ Year \in Nat \ {0} /\ CwLast \in Nat
    /\ CwMax \in Nat /\ CwRaced \in 0..CwMax /\ CwCrashMax \in Nat

VARIABLES cwContact,    \* contact -> row, or NoContact
          cwGone,       \* contacts deleted
          cwDocRole,    \* contact documentation roles
          cwRaci,       \* RACI rows
          cwHand,       \* history: the ones assigned one by one, or carried from those
          cwCycle,      \* assessment number -> status, or "none"
          cwStatement,  \* the statement of one objective
          cwApproved,   \* history: bodies that a request approved
          cwFiled,      \* submission number -> row, or NoFiling
          cwLog,        \* sprs_reminder_log
          cwJob,        \* the reminder job's run
          cwMails,      \* history: submission -> runs that mailed about it
          cwCrashes, cwNow, cwTxn, cwServed, cwOverlap

cwPeople == <<cwContact, cwGone, cwDocRole>>
cwPapers == <<cwRaci, cwHand, cwCycle>>
cwText   == <<cwStatement, cwApproved>>
cwRemind == <<cwLog, cwJob, cwMails, cwCrashes>>
cwTables == <<cwPeople, cwPapers, cwText, cwFiled>>
cwVars == <<cwTables, cwRemind, cwNow, cwTxn, cwServed, cwOverlap>>

Numbers == 0..CwMax
Letters == {"R", "A"}
Names == {"old", "new"}
Bodies == {"x", "y"}
_normalize_email == [Ann |-> "ann", ann |-> "ann", bob |-> "bob"]
AsTyped == DOMAIN _normalize_email

Contact == [email : AsTyped, name : Names]
NoContact == [email |-> "", name |-> ""]
ContactDocumentationRole == [contact : Contacts, role : {"it_admin"}]
RaciAssignment == [cycle : Numbers, obj : CwObjectives, contact : Contacts, letter : Letters]
ImplementationStatement == [body : Bodies, status : {"draft", "approved"}]
NoStatement == [body |-> "", status |-> "none"]
SprsSubmission == [date : 0..CwLast, link : SUBSET Contacts, who : Names,
                   voided : {"no", "typo", "wrong"}]
NoFiling == [date |-> -1, link |-> {}, who |-> "", voided |-> "no"]
NoRun == [due |-> {}, left |-> {}, sent |-> FALSE]
CwIdle == [op |-> "idle"]

Live == {c \in Contacts : cwContact[c] # NoContact}

CwTypeOK ==
    /\ \A c \in Contacts : cwContact[c] \in Contact \/ cwContact[c] = NoContact
    /\ cwGone \subseteq Contacts /\ cwGone \cap Live = {}
    /\ cwDocRole \subseteq ContactDocumentationRole
    /\ cwRaci \subseteq RaciAssignment /\ cwHand \subseteq RaciAssignment
    /\ cwCycle \in [Numbers -> {"none", "in_progress", "submitted"}]
    /\ \A r \in cwRaci : cwCycle[r.cycle] # "none"
    /\ cwStatement \in ImplementationStatement \cup {NoStatement}
    /\ cwApproved \subseteq Bodies
    /\ \A s \in Numbers : cwFiled[s] \in SprsSubmission \/ cwFiled[s] = NoFiling
    /\ cwLog \subseteq Numbers
    /\ cwJob \in [due : SUBSET Numbers, left : SUBSET Staff, sent : BOOLEAN]
    /\ cwMails \in [Numbers -> Nat]
    /\ cwCrashes \in 0..CwCrashMax /\ cwNow \in 0..CwLast
    /\ cwServed \in Nat /\ cwOverlap \in BOOLEAN

-----------------------------------------------------------------------------

\* What the requests and the job read.

ByEmail(e) == {c \in Live : cwContact[c].email = e}
RowsIn(n) == {r \in cwRaci : r.cycle = n}
Started == {n \in Numbers : cwCycle[n] # "none"}
Completed == {n \in Numbers : cwCycle[n] = "submitted"}
Latest(S) == {n \in S : \A m \in S : m <= n}

\* Mutant: the most recent assessment, completed or not.
CopySource_latest == Latest(Started)

\* copy_forward_raci: the most recent completed one, else the most recent.
CopySource == IF Completed # {} THEN Latest(Completed) ELSE Latest(Started)

AlreadyCovered(n, c, l) == {r.obj : r \in {x \in RowsIn(n) : x.letter = l}}

Filings == {s \in Numbers : cwFiled[s] # NoFiling}

\* The last by date, then by the time it was recorded.
GetCurrentSubmission ==
    LET standing == {s \in Filings : cwFiled[s].voided = "no"}
    IN {s \in standing : \A t \in standing :
            \/ cwFiled[t].date < cwFiled[s].date
            \/ cwFiled[t].date = cwFiled[s].date /\ t <= s}

DueForReminder == {s \in GetCurrentSubmission : cwFiled[s].date + Year <= cwNow} \ cwLog

-----------------------------------------------------------------------------

\* An organisation at work: a contact, an assessment and its first RACI row.
CwInit ==
    /\ cwContact = [c \in Contacts |-> IF c = Client THEN [email |-> "ann", name |-> "old"]
                                       ELSE NoContact]
    /\ cwGone = {} /\ cwDocRole = {}
    /\ cwRaci = {[cycle |-> 0, obj |-> Opening, contact |-> Client, letter |-> "R"]}
    /\ cwHand = cwRaci
    /\ \E s \in {"in_progress", "submitted"} :
           cwCycle = [n \in Numbers |-> IF n = 0 THEN s ELSE "none"]
    /\ cwStatement = NoStatement /\ cwApproved = {}
    /\ cwFiled = [s \in Numbers |-> NoFiling]
    /\ cwLog = {} /\ cwJob = NoRun /\ cwMails = [s \in Numbers |-> 0]
    /\ cwCrashes = 0 /\ cwNow = 0
    /\ cwTxn = [q \in CwRequests |-> CwIdle]
    /\ cwServed = 0 /\ cwOverlap \in BOOLEAN

CwServe ==
    /\ cwOverlap \/ \A q \in CwRequests : cwTxn[q] = CwIdle
    /\ cwServed < IF cwOverlap THEN CwRaced ELSE CwMax
    /\ cwServed' = cwServed + 1
    /\ UNCHANGED <<cwRemind, cwNow, cwOverlap>>

CwBegin(q, read) ==
    /\ cwTxn[q] = CwIdle
    /\ cwTxn' = [cwTxn EXCEPT ![q] = read]
    /\ CwServe
    /\ UNCHANGED cwTables

CwEnd(q) ==
    /\ cwTxn' = [cwTxn EXCEPT ![q] = CwIdle]
    /\ UNCHANGED <<cwRemind, cwNow, cwServed, cwOverlap>>

CwAtOnce == CwServe /\ UNCHANGED cwTxn

Unborn(c) ==
    /\ c \notin Live \cup cwGone
    /\ \A q \in CwRequests : cwTxn[q].op = "contact" => c \notin DOMAIN cwTxn[q].create

-----------------------------------------------------------------------------

\* Contacts.  A request writes the rows it creates and the columns it changes
\* in one transaction.

NoRows == [c \in {} |-> NoContact]

CreateContactBegin(q, c, e) ==
    /\ Unborn(c) /\ ByEmail(_normalize_email[e]) = {}
    /\ CwBegin(q, [op |-> "contact", change |-> NoRows,
                   create |-> [d \in {c} |-> [email |-> _normalize_email[e], name |-> "old"]]])

PatchContactBegin(q, c, e, n) ==
    /\ c \in Live /\ ByEmail(_normalize_email[e]) \subseteq {c}
    /\ CwBegin(q, [op |-> "contact", create |-> NoRows,
                   change |-> [d \in {c} |-> [email |-> _normalize_email[e], name |-> n]]])

\* One selection that creates, one that refreshes the name.  A created address
\* that exists is skipped, and so is a contact that does not.
ImportLiongardContacts(q, c, e, d, n) ==
    LET mail == _normalize_email[e]
        new  == IF ByEmail(mail) = {} THEN {c} ELSE {}
        old  == {d} \cap Live
    IN /\ Unborn(c)
       /\ CwBegin(q, [op |-> "contact",
                      create |-> [x \in new |-> [email |-> mail, name |-> "new"]],
                      change |-> [x \in old |-> [cwContact[x] EXCEPT !.name = n]]])

ContactsAfter(t) ==
    [c \in Contacts |-> IF c \in DOMAIN t.create THEN t.create[c]
                        ELSE IF c \in DOMAIN t.change THEN t.change[c] ELSE cwContact[c]]

\* Mutant: an update of a deleted contact brings it back.
ContactsFit_gone(t) ==
    \A c, d \in Live \cup DOMAIN t.create :
        c # d => ContactsAfter(t)[c].email # ContactsAfter(t)[d].email

\* The rows an UPDATE must find, and the unique constraint on the address.
ContactsFit(t) ==
    /\ DOMAIN t.change \subseteq Live
    /\ \A c, d \in Live \cup DOMAIN t.create :
           c # d => ContactsAfter(t)[c].email # ContactsAfter(t)[d].email

SaveContacts(q) ==
    LET t == cwTxn[q]
    IN /\ t.op = "contact" /\ ContactsFit(t)
       /\ cwContact' = ContactsAfter(t)
       /\ CwEnd(q)
       /\ UNCHANGED <<cwGone, cwDocRole, cwPapers, cwText, cwFiled>>

ContactsRefused(q) ==
    /\ cwTxn[q].op = "contact" /\ ~ ContactsFit(cwTxn[q])
    /\ CwEnd(q)
    /\ UNCHANGED cwTables

\* The foreign keys: roles and RACI rows go, a submission loses its link only.
DeleteContact(c) ==
    /\ c \in Live
    /\ cwContact' = [cwContact EXCEPT ![c] = NoContact]
    /\ cwGone' = cwGone \cup {c}
    /\ cwDocRole' = {r \in cwDocRole : r.contact # c}
    /\ cwRaci' = {r \in cwRaci : r.contact # c}
    /\ cwHand' = {r \in cwHand : r.contact # c}
    /\ cwFiled' = [s \in Numbers |-> [cwFiled[s] EXCEPT !.link = @ \ {c}]]
    /\ CwAtOnce
    /\ UNCHANGED <<cwCycle, cwText>>

AddRole(c) ==
    LET row == [contact |-> c, role |-> "it_admin"]
    IN /\ c \in Live /\ row \notin cwDocRole
       /\ cwDocRole' = cwDocRole \cup {row}
       /\ CwAtOnce
       /\ UNCHANGED <<cwContact, cwGone, cwPapers, cwText, cwFiled>>

RemoveRole(r) ==
    /\ r \in cwDocRole
    /\ cwDocRole' = cwDocRole \ {r}
    /\ CwAtOnce
    /\ UNCHANGED <<cwContact, cwGone, cwPapers, cwText, cwFiled>>

-----------------------------------------------------------------------------

\* RACI, and the assessments it belongs to.

CreateRaciBegin(q, r) ==
    /\ r.cycle \in Started /\ r.contact \in Live /\ r \notin cwRaci
    /\ CwBegin(q, [op |-> "raci", rows |-> {r}, hand |-> {r}])

BulkAssignRaci(q, n, c, l) ==
    /\ n \in Started /\ c \in Live
    /\ CwBegin(q, [op |-> "raci", hand |-> {},
                   rows |-> {[cycle |-> n, obj |-> o, contact |-> c, letter |-> l] :
                             o \in CwObjectives \ AlreadyCovered(n, c, l)}])

\* The foreign key to the contact and the unique constraint decide.
RaciFits(t) == t.rows \cap cwRaci = {} /\ \A r \in t.rows : r.contact \in Live

SaveRaci(q) ==
    LET t == cwTxn[q]
    IN /\ t.op = "raci" /\ RaciFits(t)
       /\ cwRaci' = cwRaci \cup t.rows
       /\ cwHand' = cwHand \cup t.hand
       /\ CwEnd(q)
       /\ UNCHANGED <<cwPeople, cwCycle, cwText, cwFiled>>

DeleteRaci(r) ==
    /\ r \in cwRaci
    /\ cwRaci' = cwRaci \ {r} /\ cwHand' = cwHand \ {r}
    /\ CwAtOnce
    /\ UNCHANGED <<cwPeople, cwCycle, cwText, cwFiled>>

CreateAssessmentBegin(q) ==
    LET rows == UNION {RowsIn(n) : n \in CopySource}
        Moved(S) == {[r EXCEPT !.cycle = cwServed + 1] : r \in S}
    IN CwBegin(q, [op |-> "read", cycle |-> cwServed + 1, rows |-> Moved(rows),
                   hand |-> Moved(rows \cap cwHand)])

\* existing_contact_ids is asked for after the rows.
CopyForwardRaci(q) ==
    /\ cwTxn[q].op = "read"
    /\ cwTxn' = [cwTxn EXCEPT ![q].op = "assess",
                              ![q].rows = {r \in @ : r.contact \in Live},
                              ![q].hand = {r \in @ : r.contact \in Live}]
    /\ UNCHANGED <<cwTables, cwRemind, cwNow, cwServed, cwOverlap>>

CreateAssessment(q) ==
    LET t == cwTxn[q]
    IN /\ t.op = "assess" /\ RaciFits(t)
       /\ cwCycle' = [cwCycle EXCEPT ![t.cycle] = "in_progress"]
       /\ cwRaci' = cwRaci \cup t.rows
       /\ cwHand' = cwHand \cup t.hand
       /\ CwEnd(q)
       /\ UNCHANGED <<cwPeople, cwText, cwFiled>>

RaciRefused(q) ==
    /\ cwTxn[q].op \in {"raci", "assess"} /\ ~ RaciFits(cwTxn[q])
    /\ CwEnd(q)
    /\ UNCHANGED cwTables

CompleteAssessment(n) ==
    /\ cwCycle[n] = "in_progress"
    /\ cwCycle' = [cwCycle EXCEPT ![n] = "submitted"]
    /\ CwAtOnce
    /\ UNCHANGED <<cwPeople, cwRaci, cwHand, cwText, cwFiled>>

ReopenAssessment(n) ==
    /\ cwCycle[n] = "submitted"
    /\ cwCycle' = [cwCycle EXCEPT ![n] = "in_progress"]
    /\ CwAtOnce
    /\ UNCHANGED <<cwPeople, cwRaci, cwHand, cwText, cwFiled>>

-----------------------------------------------------------------------------

\* The statement.

UpsertBegin(q, item) == CwBegin(q, [op |-> "statement", read |-> cwStatement, item |-> item])

\* A new row, or the columns whose value differs from the one read.
UpsertStatement(q) ==
    LET t == cwTxn[q]
        Col(f) == IF t.item[f] = t.read[f] THEN cwStatement[f] ELSE t.item[f]
    IN /\ t.op = "statement" /\ (t.read = NoStatement => cwStatement = NoStatement)
       /\ cwStatement' = [body |-> Col("body"), status |-> Col("status")]
       /\ cwApproved' = cwApproved \cup
              (IF t.item.status = "approved" THEN {t.item.body} ELSE {})
       /\ CwEnd(q)
       /\ UNCHANGED <<cwPeople, cwPapers, cwFiled>>

\* Another request inserted the row: the unique constraint refuses this one.
UpsertConflict(q) ==
    /\ cwTxn[q].op = "statement"
    /\ cwTxn[q].read = NoStatement /\ cwStatement # NoStatement
    /\ CwEnd(q)
    /\ UNCHANGED cwTables

-----------------------------------------------------------------------------

\* SPRS submissions.

\* resolve_submitter reads the name that the row will keep.
CreateSubmissionBegin(q, c, d) ==
    /\ c \in Live
    /\ CwBegin(q, [op |-> "file", number |-> cwServed + 1,
                   row |-> [date |-> d, link |-> {c}, who |-> cwContact[c].name,
                            voided |-> "no"]])

RecordSubmission(q) ==
    LET t == cwTxn[q]
    IN /\ t.op = "file" /\ t.row.link \subseteq Live
       /\ cwFiled' = [cwFiled EXCEPT ![t.number] = t.row]
       /\ CwEnd(q)
       /\ UNCHANGED <<cwPeople, cwPapers, cwText>>

\* The contact was deleted meanwhile: the foreign key refuses the row.
SubmissionRefused(q) ==
    /\ cwTxn[q].op = "file" /\ ~ cwTxn[q].row.link \subseteq Live
    /\ CwEnd(q)
    /\ UNCHANGED cwTables

VoidBegin(q, s, reason) ==
    /\ s \in Filings /\ cwFiled[s].voided = "no"
    /\ CwBegin(q, [op |-> "void", number |-> s, reason |-> reason])

VoidSubmission(q) ==
    LET t == cwTxn[q]
    IN /\ t.op = "void"
       /\ cwFiled' = [cwFiled EXCEPT ![t.number].voided = t.reason]
       /\ CwEnd(q)
       /\ UNCHANGED <<cwPeople, cwPapers, cwText>>

-----------------------------------------------------------------------------

\* The reminder job.

RemindBegin ==
    /\ cwJob = NoRun /\ Staff # {} /\ DueForReminder # {}
    /\ cwJob' = [due |-> DueForReminder, left |-> Staff, sent |-> FALSE]
    /\ UNCHANGED <<cwTables, cwLog, cwMails, cwCrashes, cwNow, cwTxn, cwServed, cwOverlap>>

\* email_service.send never raises: unreadable credentials, bad settings, no
\* connection and a refusal all end as `not sent'.
Send(to, ok) ==
    /\ to \in cwJob.left
    /\ cwJob' = [cwJob EXCEPT !.left = @ \ {to}, !.sent = @ \/ ok]
    /\ cwMails' = [s \in Numbers |-> cwMails[s] +
                      IF ok /\ ~ cwJob.sent /\ s \in cwJob.due THEN 1 ELSE 0]
    /\ UNCHANGED <<cwTables, cwLog, cwCrashes, cwNow, cwTxn, cwServed, cwOverlap>>

\* Mutant: nothing is marked.
MarkReminderSent_never ==
    /\ cwJob # NoRun /\ cwJob.left = {}
    /\ cwMails[CHOOSE s \in cwJob.due : TRUE] < 3
    /\ cwJob' = NoRun
    /\ UNCHANGED <<cwTables, cwLog, cwMails, cwCrashes, cwNow, cwTxn, cwServed, cwOverlap>>

MarkReminderSent ==
    /\ cwJob # NoRun /\ cwJob.left = {}
    /\ cwLog' = cwLog \cup IF cwJob.sent THEN cwJob.due ELSE {}
    /\ cwJob' = NoRun
    /\ UNCHANGED <<cwTables, cwMails, cwCrashes, cwNow, cwTxn, cwServed, cwOverlap>>

\* The process dies before the commit; the mails that went out did.
RemindCrash ==
    /\ cwJob # NoRun /\ cwCrashes < CwCrashMax
    /\ cwJob' = NoRun /\ cwCrashes' = cwCrashes + 1
    /\ UNCHANGED <<cwTables, cwLog, cwMails, cwNow, cwTxn, cwServed, cwOverlap>>

CwTick ==
    /\ cwNow < CwLast
    /\ cwNow' = cwNow + 1
    /\ UNCHANGED <<cwTables, cwRemind, cwTxn, cwServed, cwOverlap>>

CwNext ==
    \/ \E q \in CwRequests, c \in Contacts, e \in AsTyped :
           \/ CreateContactBegin(q, c, e)
           \/ \E n \in Names : PatchContactBegin(q, c, e, n)
           \/ \E d \in Contacts, n \in Names : ImportLiongardContacts(q, c, e, d, n)
    \/ \E c \in Contacts : DeleteContact(c) \/ AddRole(c)
    \/ \E r \in cwDocRole : RemoveRole(r)
    \/ \E q \in CwRequests, n \in Started, c \in Contacts, l \in Letters :
           \/ BulkAssignRaci(q, n, c, l)
           \/ \E o \in CwObjectives :
                  CreateRaciBegin(q, [cycle |-> n, obj |-> o, contact |-> c, letter |-> l])
    \/ \E r \in cwRaci : DeleteRaci(r)
    \/ \E n \in Numbers : CompleteAssessment(n) \/ ReopenAssessment(n)
    \/ \E q \in CwRequests :
           \/ SaveContacts(q) \/ ContactsRefused(q)
           \/ SaveRaci(q) \/ RaciRefused(q)
           \/ CreateAssessmentBegin(q) \/ CopyForwardRaci(q) \/ CreateAssessment(q)
           \/ \E item \in ImplementationStatement : UpsertBegin(q, item)
           \/ UpsertStatement(q) \/ UpsertConflict(q)
           \/ \E c \in Contacts, d \in 0..CwLast : CreateSubmissionBegin(q, c, d)
           \/ RecordSubmission(q) \/ SubmissionRefused(q)
           \/ \E s \in Numbers, reason \in {"typo", "wrong"} : VoidBegin(q, s, reason)
           \/ VoidSubmission(q)
    \/ RemindBegin \/ MarkReminderSent \/ RemindCrash
    \/ \E to \in Staff, ok \in BOOLEAN : Send(to, ok)
    \/ CwTick

-----------------------------------------------------------------------------

\* Whoever holds a documentation role or a RACI letter is a contact, whether
\* the row was assigned, bulk-assigned or carried into a new assessment while
\* the contact was being deleted.
HoldersExist ==
    /\ \A r \in cwRaci : r.contact \in Live
    /\ \A r \in cwDocRole : r.contact \in Live

\* One person is one contact: no two share an address however it is written,
\* across creation, edits and the Liongard import (the comment at
\* _normalize_email names the bug this closed).
OneContactPerAddress ==
    \A c, d \in Live : c # d =>
        _normalize_email[cwContact[c].email] # _normalize_email[cwContact[d].email]

\* Bulk assignment only fills gaps: a letter on an objective has at most one
\* holder that was not assigned there by hand.  Two bulk requests that overlap
\* can break it: each finds the objective uncovered.
BulkNeverDoubles ==
    ~ cwOverlap => \A r, s \in cwRaci \ cwHand :
        r.cycle = s.cycle /\ r.obj = s.obj /\ r.letter = s.letter => r = s

\* A new assessment starts with exactly the RACI rows of the last completed
\* one, if any was ever completed and not reopened, even when later ones are
\* under way.
CarriesTheLastCompleted ==
    [][~ cwOverlap => \A n \in Numbers \ Started, m \in Latest(Completed) :
          cwCycle'[n] # "none" =>
              {r \in cwRaci' : r.cycle = n} = {[r EXCEPT !.cycle = n] : r \in RowsIn(m)}]_cwVars

\* What was filed stays as filed: no request changes a submission's date or
\* submitter, a deleted contact takes only the link, and, one request at a
\* time, a void and its reason are written once.
FiledIsFinal ==
    [][\A s \in Filings :
          LET old == cwFiled[s]
              new == cwFiled'[s]
          IN /\ new.date = old.date /\ new.who = old.who
             /\ new.link # old.link => new.link = {} /\ old.link \subseteq cwGone'
             /\ ~ cwOverlap /\ old.voided # "no" => new.voided = old.voided]_cwVars

\* The reminder log says that a mail about that submission went out, to
\* somebody, after its year was over.
RemindersAreHonest ==
    \A s \in cwLog : cwMails[s] >= 1 /\ cwFiled[s].date + Year <= cwNow

\* A submission is mailed about once, and once more only for every crash of
\* the job between the mails and the commit that marks them.
RemindedOnce == \A s \in Numbers : cwMails[s] <= 1 + cwCrashes

\* An approved statement is a text that somebody approved.  Requests that
\* overlap can break it: one writes only the status and the other only the
\* body.
ApprovedTextWasApproved ==
    ~ cwOverlap /\ cwStatement.status = "approved" => cwStatement.body \in cwApproved

\* Who is responsible exists, once, and what was approved or sent was: contacts,
\* responsibilities, statements and reminders through edits, deletes, bulk
\* assignment and a job that dies after its mails.
CaseworkIsSound ==
    /\ HoldersExist /\ OneContactPerAddress /\ BulkNeverDoubles
    /\ ApprovedTextWasApproved /\ RemindersAreHonest /\ RemindedOnce

\* What was completed or filed is what later work starts from and never changes
\* (copy_forward_raci, record_submission, void_submission).
CompletedWorkStands == CarriesTheLastCompleted /\ FiledIsFinal
=============================================================================
