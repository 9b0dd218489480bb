---------------------------- MODULE ReviewCycles ----------------------------
(***************************************************************************)
(* Periodic review and attestation (backend/app/review_cycles.py), for one *)
(* organization: the two scheduled jobs (scheduler.py), the HTTP handlers  *)
(* that open, view and attest (routers/review_cycles.py), and the detach   *)
(* of records that do not attest (cli.py).                                 *)
(*                                                                         *)
(* Every operation is a READ COMMITTED transaction of a session that does  *)
(* not lock what it reads: it reads and decides, flushes its writes (which *)
(* takes the row locks), and commits.  Each is a step here, so that other  *)
(* transactions run in between.  A flush writes the columns that the       *)
(* session changed from what it had read, whatever the row says by now.    *)
(* The two jobs each run one at a time (Scheduler).  The transaction's     *)
(* rows are locked together, and a transaction may be rolled back at any   *)
(* step: that also stands for the victim Postgres picks when the cycle and *)
(* reviewer rows are locked in opposite orders.                            *)
(*                                                                         *)
(* Time is counted in days.  The items under review, comments and flags    *)
(* are not modelled.  An assessment is in progress throughout, so that the *)
(* record of a completed cycle has objectives to be attached to.           *)
(***************************************************************************)
EXTENDS Integers, Sequences

CONSTANTS
    Cycles,      \* review_cycle ids, in the order they are allocated
    Users,       \* users that may be reviewers
    Requests,    \* concurrent HTTP requests
    Opener,      \* the review_cycle_open job
    Window,      \* RESPONSE_WINDOW_DAYS
    Reminders,   \* REMINDER_DAYS
    Cadence,     \* the organization's review cadence
    MaxDay,      \* bound on the calendar
    MaxAborts    \* bound on transactions rolled back

ASSUME ReviewAssumption ==
    /\ Cycles \subseteq Nat
    /\ Opener \notin Requests
    /\ Window \in Nat \ {0}
    /\ Reminders \in Seq(Nat)
    /\ \A k \in 1..(Len(Reminders) - 1) : Reminders[k] <= Reminders[k + 1]
    /\ Cadence \in Nat \ {0}
    /\ MaxDay \in Nat
    /\ MaxAborts \in Nat

VARIABLES
    day,        \* the calendar
    cycle,      \* review_cycle
    reviewer,   \* review_cycle_reviewer, with its reminder log
    records,    \* evidence with source_review_cycle_id, oldest first
    mails,      \* messages accepted by the mail provider
    txn,        \* the transaction of each request and of the opening job
    sweep,      \* the review_cycle_sweep job
    aborts,     \* transactions rolled back so far
    overlap     \* FALSE: a transaction starts only when none is under way

dbVars == <<cycle, reviewer, records>>
vars == <<day, dbVars, mails, txn, sweep, aborts, overlap>>

Null == -1
NoCycle == 0

ATTESTS == "completed"
ClosedStatuses == {"completed", "closed_unattested", "closed_undeliverable"}
Pending == {"requested", "viewed"}
ReviewerStatuses == Pending \cup {"absent", "attested", "no_response", "not_notified"}
Numbers == 1..Len(Reminders)

CycleRows == [status : {"none", "open"} \cup ClosedStatuses, opened : Nat]

ReviewerRows ==
    [status : ReviewerStatuses, notified : Nat \cup {Null}, reminded : SUBSET Numbers]

\* An evidence row as close_cycle writes it.
Records == [outcome : ClosedStatuses, attached : BOOLEAN]

Absent == [status |-> "absent", notified |-> Null, reminded |-> {}]
Requested == [Absent EXCEPT !.status = "requested"]

Procs == Requests \cup {Opener}

\* A session's transaction: where it is, and what it has read or flushed.
Idle == [op |-> "idle", step |-> "none", c |-> NoCycle, u |-> {}, stamp |-> 0,
         closes |-> FALSE, told |-> {}]

Resting == [step |-> "rest", list |-> {}, day |-> 0, c |-> NoCycle,
            view |-> [u \in Users |-> Absent], stamp |-> 0, told |-> {},
            reminded |-> [u \in Users |-> {}]]

TypeOK ==
    /\ day \in Nat
    /\ cycle \in [Cycles -> CycleRows]
    /\ reviewer \in [Cycles -> [Users -> ReviewerRows]]
    /\ records \in [Cycles -> Seq(Records)]
    /\ mails \in [Cycles -> [Users -> [0..Len(Reminders) -> Nat]]]
    /\ txn \in [Procs -> [op : {"idle", "open", "view", "attest"},
                          step : {"none", "checked", "flushed"},
                          c : Cycles \cup {NoCycle}, u : SUBSET Users,
                          stamp : Nat, closes : BOOLEAN, told : SUBSET Users]]
    /\ sweep \in [step : {"rest", "loop", "read", "close", "notify"},
                  list : SUBSET Cycles, day : Nat, c : Cycles \cup {NoCycle},
                  view : [Users -> ReviewerRows], stamp : Nat,
                  told : SUBSET Users, reminded : [Users -> SUBSET Numbers]]
    /\ aborts \in Nat
    /\ overlap \in BOOLEAN

Init ==
    /\ day = 0
    /\ cycle = [c \in Cycles |-> [status |-> "none", opened |-> 0]]
    /\ reviewer = [c \in Cycles |-> [u \in Users |-> Absent]]
    /\ records = [c \in Cycles |-> <<>>]
    /\ mails = [c \in Cycles |-> [u \in Users |-> [k \in 0..Len(Reminders) |-> 0]]]
    /\ txn = [p \in Procs |-> Idle]
    /\ sweep = Resting
    /\ aborts = 0
    /\ overlap \in BOOLEAN

(***************************************************************************)
(* Transactions                                                            *)
(***************************************************************************)

Quiet == (\A p \in Procs : txn[p] = Idle) /\ sweep = Resting

MayStart == overlap \/ Quiet

\* A row is named by its cycle and, for a reviewer's, its user.
CycleRow(c) == <<c>>
ReviewerRow(c, u) == <<c, u>>

\* The rows each transaction has flushed and holds locked.
LockedBy(p) ==
    IF txn[p].step # "flushed" \/ txn[p].op = "open" THEN {}
    ELSE {ReviewerRow(txn[p].c, u) : u \in txn[p].u}
           \cup (IF txn[p].closes THEN {CycleRow(txn[p].c)} ELSE {})

\* The reviewers a deadline close stamps, as the session read them.
Unanswered(view) == {u \in Users : view[u].status \in Pending}

\* The reviewers to whom the initial notification is (re)tried.
Untold(view) == {u \in Users : view[u].status # "absent" /\ view[u].notified = Null}

LockedBySweep ==
    CASE sweep.step = "close" ->
           {CycleRow(sweep.c)} \cup {ReviewerRow(sweep.c, u) : u \in Unanswered(sweep.view)}
      [] sweep.step = "notify" -> {ReviewerRow(sweep.c, u) : u \in Untold(sweep.view)}
      [] OTHER -> {}

Unlocked(rows, p) == \A q \in Procs \ {p} : rows \cap LockedBy(q) = {}
UnlockedBySweep(rows) == rows \cap LockedBySweep = {}

Reviewers(c) == {u \in Users : reviewer[c][u].status # "absent"}

\* A message of kind k (0: the request) goes out to each of us.
Mailed(c, k, us) ==
    [mails EXCEPT ![c] = [u \in Users |->
        IF u \in us THEN [mails[c][u] EXCEPT ![k] = @ + 1] ELSE mails[c][u]]]

(***************************************************************************)
(* open_cycle                                                              *)
(***************************************************************************)

\* open_cycle refuses while a cycle is open, and so does the job's discovery.
NoOpenCycle == \A c \in Cycles : cycle[c].status # "open"

\* orgs_due_for_review_cycle_open: the newest cycle is a cadence old.
CadenceElapsed ==
    \A c \in Cycles : cycle[c].status # "none" => cycle[c].opened <= day - Cadence

OpenCheck(p) ==
    /\ txn[p] = Idle
    /\ MayStart
    /\ NoOpenCycle
    /\ p = Opener => CadenceElapsed
    /\ txn' = [txn EXCEPT ![p] = [Idle EXCEPT !.op = "open", !.step = "checked"]]
    /\ UNCHANGED <<overlap, day, dbVars, mails, sweep, aborts>>

\* The cycle and its reviewers are inserted; the job, and not the handler,
\* then sends each reviewer the request, which may fail for any of them.
OpenFlush(p) ==
    /\ txn[p].op = "open"
    /\ txn[p].step = "checked"
    /\ \E c \in Cycles, us \in SUBSET Users, told \in SUBSET Users :
          /\ cycle[c].status = "none"
          /\ \A q \in Procs : txn[q].c # c
          /\ \A b \in Cycles : b < c =>
                cycle[b].status # "none" \/ \E q \in Procs : txn[q].c = b
          /\ told \subseteq us
          /\ p # Opener => told = {}
          /\ txn' = [txn EXCEPT ![p] = [@ EXCEPT !.step = "flushed", !.c = c, !.u = us,
                                                 !.stamp = day, !.told = told]]
          /\ mails' = Mailed(c, 0, told)
    /\ UNCHANGED <<overlap, day, dbVars, sweep, aborts>>

OpenCommit(p) ==
    /\ txn[p].op = "open"
    /\ txn[p].step = "flushed"
    /\ LET t == txn[p] IN
          /\ cycle' = [cycle EXCEPT ![t.c] = [status |-> "open", opened |-> t.stamp]]
          /\ reviewer' = [reviewer EXCEPT ![t.c] = [u \in Users |->
                CASE u \in t.told -> [Requested EXCEPT !.notified = t.stamp]
                  [] u \in t.u \ t.told -> Requested
                  [] OTHER -> Absent]]
    /\ txn' = [txn EXCEPT ![p] = Idle]
    /\ UNCHANGED <<overlap, day, records, mails, sweep, aborts>>

(***************************************************************************)
(* record_view and attest                                                  *)
(***************************************************************************)

ViewCheck(p, c, u) ==
    /\ txn[p] = Idle
    /\ MayStart
    /\ reviewer[c][u].status = "requested"
    /\ txn' = [txn EXCEPT ![p] = [Idle EXCEPT !.op = "view", !.step = "checked",
                                              !.c = c, !.u = {u}]]
    /\ UNCHANGED <<overlap, day, dbVars, mails, sweep, aborts>>

\* The flush and the commit that ends the request.
ViewCommit(p) ==
    /\ txn[p].op = "view"
    /\ \E u \in txn[p].u :
          /\ Unlocked({ReviewerRow(txn[p].c, u)}, p)
          /\ UnlockedBySweep({ReviewerRow(txn[p].c, u)})
          /\ reviewer' = [reviewer EXCEPT ![txn[p].c][u].status = "viewed"]
    /\ txn' = [txn EXCEPT ![p] = Idle]
    /\ UNCHANGED <<overlap, day, cycle, records, mails, sweep, aborts>>

AttestCheck(p, c, u) ==
    /\ txn[p] = Idle
    /\ MayStart
    /\ cycle[c].status = "open"
    /\ reviewer[c][u].status \notin {"absent", "attested"}
    /\ txn' = [txn EXCEPT ![p] = [Idle EXCEPT !.op = "attest", !.step = "checked",
                                              !.c = c, !.u = {u}]]
    /\ UNCHANGED <<overlap, day, dbVars, mails, sweep, aborts>>

\* Mutant: the reviewers are read before the reviewer's own row is flushed.
AllAttestedBefore(c, u) == \A v \in Reviewers(c) : reviewer[c][v].status = "attested"

\* What attest reads after its own flush: the others as committed.
AllAttested(c, u) == \A v \in Reviewers(c) \ {u} : reviewer[c][v].status = "attested"

\* The reviewer's own row is flushed; when every reviewer has attested, the
\* cycle's row is too (close_cycle, which stamps nobody in this case).
AttestFlush(p) ==
    /\ txn[p].op = "attest"
    /\ txn[p].step = "checked"
    /\ \E u \in txn[p].u :
          LET c == txn[p].c
              closes == AllAttested(c, u)
              rows == {ReviewerRow(c, u)} \cup (IF closes THEN {CycleRow(c)} ELSE {})
          IN /\ Unlocked(rows, p)
             /\ UnlockedBySweep(rows)
             /\ txn' = [txn EXCEPT ![p] = [@ EXCEPT !.step = "flushed", !.closes = closes]]
    /\ UNCHANGED <<overlap, day, dbVars, mails, sweep, aborts>>

\* close_cycle's record; only one that attests is attached as evidence.
Record(status) == [outcome |-> status, attached |-> status = ATTESTS]

AttestCommit(p) ==
    /\ txn[p].op = "attest"
    /\ txn[p].step = "flushed"
    /\ LET t == txn[p] IN
          /\ reviewer' = [reviewer EXCEPT ![t.c] = [u \in Users |->
                IF u \in t.u THEN [@[u] EXCEPT !.status = "attested"] ELSE @[u]]]
          /\ IF t.closes
             THEN /\ cycle' = [cycle EXCEPT ![t.c].status = ATTESTS]
                  /\ records' = [records EXCEPT ![t.c] = Append(@, Record(ATTESTS))]
             ELSE UNCHANGED <<cycle, records>>
    /\ txn' = [txn EXCEPT ![p] = Idle]
    /\ UNCHANGED <<overlap, day, mails, sweep, aborts>>

(***************************************************************************)
(* The review_cycle_sweep job                                              *)
(***************************************************************************)

\* Mutant: the discovery query forgets the cycle's status.
SweepStartAll ==
    /\ sweep.step = "rest"
    /\ MayStart
    /\ \E c \in Cycles : cycle[c].status # "none"
    /\ sweep' = [Resting EXCEPT !.step = "loop", !.day = day,
                                !.list = {c \in Cycles : cycle[c].status # "none"}]
    /\ UNCHANGED <<overlap, day, dbVars, mails, txn, aborts>>

\* The open cycles are listed, and the time taken, once for the whole sweep.
SweepStart ==
    /\ sweep.step = "rest"
    /\ MayStart
    /\ \E c \in Cycles : cycle[c].status = "open"
    /\ sweep' = [Resting EXCEPT !.step = "loop", !.day = day,
                                !.list = {c \in Cycles : cycle[c].status = "open"}]
    /\ UNCHANGED <<overlap, day, dbVars, mails, txn, aborts>>

SweepRead(c) ==
    /\ sweep.step = "loop"
    /\ c \in sweep.list
    /\ sweep' = [sweep EXCEPT !.step = "read", !.c = c, !.list = @ \ {c},
                              !.view = reviewer[c]]
    /\ UNCHANGED <<overlap, day, dbVars, mails, txn, aborts>>

\* What close_cycle makes of a reviewer who did not attest.
Stamped(r) ==
    CASE r.status \notin Pending -> r.status
      [] r.notified # Null -> "no_response"
      [] OTHER -> "not_notified"

\* Mutant: a cycle nobody was told of is closed as if it had been reviewed.
DeadlineStatusUnattested(view) == "closed_unattested"

\* Mutant: the cycle is recorded before its status is set.
DeadlineStatusOpen(view) == "open"

\* A deadline close that reached nobody was not a review.
DeadlineStatus(view) ==
    IF \A u \in Users : view[u].notified = Null
    THEN "closed_undeliverable" ELSE "closed_unattested"

\* Mutant: a cycle that reached nobody is kept open until someone is told.
SweepCloseReached ==
    /\ sweep.step = "read"
    /\ sweep.day >= cycle[sweep.c].opened + Window
    /\ \E u \in Users : sweep.view[u].notified # Null
    /\ sweep' = [sweep EXCEPT !.step = "close"]
    /\ UNCHANGED <<overlap, day, dbVars, mails, txn, aborts>>

\* The deadline has passed: close_cycle, whatever the cycle's status is.
SweepClose ==
    /\ sweep.step = "read"
    /\ sweep.day >= cycle[sweep.c].opened + Window
    /\ LET rows == {CycleRow(sweep.c)}
                     \cup {ReviewerRow(sweep.c, u) : u \in Unanswered(sweep.view)}
       IN \A p \in Procs : rows \cap LockedBy(p) = {}
    /\ sweep' = [sweep EXCEPT !.step = "close"]
    /\ UNCHANGED <<overlap, day, dbVars, mails, txn, aborts>>

\* due_reminder_number, for every reminder due by now.
Due(r, t) ==
    IF r.status \in {"absent", "attested"} \/ r.notified = Null THEN {}
    ELSE {k \in Numbers : t - r.notified >= Reminders[k] /\ k \notin r.reminded}

\* The reminders that go out before the first that fails.
Prefixes(due) == {S \in SUBSET due : \A a \in S, b \in due : b < a => b \in S}

\* Before the deadline: the request is retried for every reviewer never yet
\* reached, and the others are sent what is due.
SweepNotify ==
    /\ sweep.step = "read"
    /\ sweep.day < cycle[sweep.c].opened + Window
    /\ LET rows == {ReviewerRow(sweep.c, u) : u \in Untold(sweep.view)}
       IN \A p \in Procs : rows \cap LockedBy(p) = {}
    /\ \E told \in SUBSET Untold(sweep.view) :
       \E sent \in [Users -> SUBSET Numbers] :
          /\ \A u \in Users :
                sent[u] \in Prefixes(IF u \in Untold(sweep.view) THEN {}
                                     ELSE Due(sweep.view[u], sweep.day))
          /\ sweep' = [sweep EXCEPT !.step = "notify", !.stamp = day, !.told = told,
                                    !.reminded = sent]
          /\ mails' = [mails EXCEPT ![sweep.c] = [u \in Users |->
                [k \in 0..Len(Reminders) |->
                    @[u][k] + (IF (k = 0 /\ u \in told) \/ k \in sent[u]
                               THEN 1 ELSE 0)]]]
    /\ UNCHANGED <<overlap, day, dbVars, txn, aborts>>

\* Mutant: a reminder that goes out moves the notification forward.
NotifiedLatest(r, stamp, told, sent) ==
    [r EXCEPT !.notified = IF told \/ sent # {} THEN stamp ELSE @,
              !.reminded = @ \cup sent]

\* record_notification_result and record_reminder_sent.
Notified(r, stamp, told, sent) ==
    [r EXCEPT !.notified = IF told THEN stamp ELSE @, !.reminded = @ \cup sent]

NextCycle == [Resting EXCEPT !.step = "loop", !.day = sweep.day, !.list = sweep.list]

\* The commit of one cycle's turn: the columns the session changed.
SweepCommit ==
    \/ /\ sweep.step = "close"
       /\ LET status == DeadlineStatus(sweep.view) IN
             /\ cycle' = [cycle EXCEPT ![sweep.c].status = status]
             /\ reviewer' = [reviewer EXCEPT ![sweep.c] = [u \in Users |->
                   IF u \in Unanswered(sweep.view)
                   THEN [@[u] EXCEPT !.status = Stamped(sweep.view[u])] ELSE @[u]]]
             /\ records' = [records EXCEPT ![sweep.c] = Append(@, Record(status))]
       /\ sweep' = NextCycle
       /\ UNCHANGED <<overlap, day, mails, txn, aborts>>
    \/ /\ sweep.step = "notify"
       /\ reviewer' = [reviewer EXCEPT ![sweep.c] = [u \in Users |->
             Notified(@[u], sweep.stamp, u \in sweep.told, sweep.reminded[u])]]
       /\ sweep' = NextCycle
       /\ UNCHANGED <<overlap, day, cycle, records, mails, txn, aborts>>

SweepEnd ==
    /\ sweep.step = "loop"
    /\ sweep.list = {}
    /\ sweep' = Resting
    /\ UNCHANGED <<overlap, day, dbVars, mails, txn, aborts>>

(***************************************************************************)
(* detach_unattested                                                       *)
(***************************************************************************)

\* The one-off command that detaches records of cycles that did not complete.
DetachUnattested ==
    /\ MayStart
    /\ \E c \in Cycles : cycle[c].status # ATTESTS /\
          \E k \in 1..Len(records[c]) : records[c][k].attached
    /\ records' = [c \in Cycles |->
          IF cycle[c].status = ATTESTS THEN records[c]
          ELSE [k \in 1..Len(records[c]) |-> [records[c][k] EXCEPT !.attached = FALSE]]]
    /\ UNCHANGED <<overlap, day, cycle, reviewer, mails, txn, sweep, aborts>>

(***************************************************************************)
(* Faults and time                                                         *)
(***************************************************************************)

\* A request or the opening job fails, or its process dies.
AbortTxn(p) ==
    /\ aborts < MaxAborts
    /\ txn[p] # Idle
    /\ aborts' = aborts + 1
    /\ txn' = [txn EXCEPT ![p] = Idle]
    /\ UNCHANGED <<overlap, day, dbVars, mails, sweep>>

\* The sweep fails part way (the storage upload of a close, a database
\* error, the process): the turn is rolled back and the cycles left wait for
\* the next sweep.  Messages already accepted have gone out.
AbortSweep ==
    /\ aborts < MaxAborts
    /\ sweep # Resting
    /\ aborts' = aborts + 1
    /\ sweep' = Resting
    /\ UNCHANGED <<overlap, day, dbVars, mails, txn>>

Tick ==
    /\ day < MaxDay
    /\ day' = day + 1
    /\ UNCHANGED <<overlap, dbVars, mails, txn, sweep, aborts>>

Sweep == SweepStart \/ (\E c \in Cycles : SweepRead(c)) \/ SweepClose \/ SweepNotify
            \/ SweepCommit \/ SweepEnd

Finish(p) == OpenFlush(p) \/ OpenCommit(p) \/ ViewCommit(p) \/ AttestFlush(p)
                \/ AttestCommit(p)

Request(p) == \E c \in Cycles, u \in Users : ViewCheck(p, c, u) \/ AttestCheck(p, c, u)

Next ==
    \/ Tick
    \/ Sweep
    \/ AbortSweep
    \/ DetachUnattested
    \/ \E p \in Procs : OpenCheck(p) \/ Finish(p) \/ AbortTxn(p)
    \/ \E p \in Requests : Request(p)

Spec == Init /\ [][Next]_vars

\* The scheduler keeps running the sweep (Scheduler's own fairness), started
\* transactions end, and days pass.  Nobody has to answer.
Fairness ==
    /\ WF_vars(Tick)
    /\ WF_vars(Sweep)
    /\ \A p \in Procs : WF_vars(Finish(p))

FairSpec == Spec /\ Fairness

(***************************************************************************)
(* Properties                                                              *)
(***************************************************************************)

\* A reviewer is said not to have responded only if a request reached them,
\* and not to have been notified only if none did: the record a deadline
\* close leaves (close_cycle) is never a false claim about a person, however
\* the retries, the deadline and lost transactions interleave.
NonResponseIsHonest ==
    \A c \in Cycles, u \in Users :
        LET r == reviewer[c][u] IN
        /\ r.status = "no_response" => r.notified # Null /\ mails[c][u][0] > 0
        /\ r.status = "not_notified" => r.notified = Null

\* A cycle is closed as undeliverable exactly when the deadline passed with
\* nobody reached (close_cycle's upgrade of closed_unattested).
UndeliverableIsHonest ==
    \A c \in Cycles :
        /\ cycle[c].status = "closed_undeliverable" =>
              \A u \in Users : reviewer[c][u].notified = Null
        /\ cycle[c].status = "closed_unattested" =>
              \E u \in Users : reviewer[c][u].notified # Null

\* Every closed cycle has its record, and the newest record says what the
\* cycle says; an open cycle has none (close_cycle writes both or neither).
RecordMatchesCycle ==
    \A c \in Cycles :
        IF cycle[c].status \in ClosedStatuses
        THEN /\ records[c] # <<>>
             /\ records[c][Len(records[c])].outcome = cycle[c].status
        ELSE records[c] = <<>>

\* Reminders are logged in order, each its number of days after the
\* notification that reached the reviewer, and never without one
\* (due_reminder_number; notified_at is set once, the first time).
RemindersAreTimely ==
    \A c \in Cycles, u \in Users :
        LET r == reviewer[c][u] IN
        \A k \in r.reminded :
            /\ r.notified # Null
            /\ day - r.notified >= Reminders[k]
            /\ \A l \in 1..k : l \in r.reminded /\ mails[c][u][l] > 0

\* A cycle does not stay open: the deadline closes it, whoever answers and
\* whichever sweep fails (_review_cycle_sweep).
EveryCycleCloses ==
    \A c \in Cycles : (cycle[c].status = "open" /\ cycle[c].opened + Window <= MaxDay)
                         ~> (cycle[c].status \in ClosedStatuses)

\* An organization has one open cycle at a time, whoever opens it.
OneOpenCycle ==
    ~overlap =>
        \A b, c \in Cycles : cycle[b].status = "open" /\ cycle[c].status = "open" => b = c

\* A cycle all of whose reviewers attested is completed, and only such a
\* cycle is: attest closes it at once, so the deadline never finds it open.
FullAttestationCompletes ==
    ~overlap => \A c \in Cycles :
        cycle[c].status \in ClosedStatuses /\ Reviewers(c) # {} =>
           (cycle[c].status = ATTESTS <=>
               \A u \in Reviewers(c) : reviewer[c][u].status = "attested")

\* The sweep "only ever sees cycles still open because at least one reviewer
\* hasn't responded yet": the last attestation closes the cycle (attest).
OpenMeansUnanswered ==
    ~overlap => \A c \in Cycles : cycle[c].status = "open" /\ Reviewers(c) # {} =>
        \E u \in Reviewers(c) : reviewer[c][u].status # "attested"

\* What is attached as evidence of the objectives is the record of a cycle
\* that completed, and each cycle is closed, and recorded, once.
AttachedRecordAttests ==
    ~overlap => \A c \in Cycles :
        /\ Len(records[c]) <= 1
        /\ \A k \in 1..Len(records[c]) : records[c][k].attached => cycle[c].status = ATTESTS

\* "status='completed' (full attestation) is never touched": a completed
\* cycle stays completed.
CompletedIsFinal ==
    [][~overlap => \A c \in Cycles : cycle[c].status = ATTESTS => cycle'[c].status = ATTESTS]_vars

\* An attestation, once recorded, is not undone by a view or a deadline.
AttestationIsFinal ==
    [][~overlap => \A c \in Cycles, u \in Users :
          reviewer[c][u].status = "attested" => reviewer'[c][u].status = "attested"]_vars

\* What a close says of the people asked, of the cycle and in its record is
\* true, in any interleaving (close_cycle).
ClosingIsHonest == NonResponseIsHonest /\ UndeliverableIsHonest /\ RecordMatchesCycle

\* One request at a time, the status of a cycle is what its reviewers' answers
\* make it, there is one cycle to answer, and one record of it is evidence
\* (open_cycle, attest, close_cycle).
CyclesFollowAnswers ==
    /\ OneOpenCycle /\ OpenMeansUnanswered
    /\ FullAttestationCompletes /\ AttachedRecordAttests

\* An attestation, and the completion it brought about, are never taken back,
\* whatever views, sweeps and retries come later (view_cycle, _review_cycle_sweep).
AnswersAreFinal == CompletedIsFinal /\ AttestationIsFinal

-----------------------------------------------------------------------------
(* What the comments say and the model refutes (README, "Departures").     *)

\* A reviewer gets each reminder at most once.
RemindersSentOnce ==
    \A c \in Cycles, u \in Users, k \in Numbers : mails[c][u][k] <= 1

\* "No reviewer could be notified ..., so no review was actually attempted":
\* a cycle closed as undeliverable was attested by nobody.
UndeliverableMeansNoReview ==
    \A c \in Cycles : cycle[c].status = "closed_undeliverable" =>
        \A u \in Users : reviewer[c][u].status # "attested"
=============================================================================
