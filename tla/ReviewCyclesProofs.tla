------------------------- MODULE ReviewCyclesProofs -------------------------
(***************************************************************************)
(* For any number of cycles, reviewers, requests, days and rollbacks: what *)
(* a close says of people is true and reminders are timely however the     *)
(* jobs and the requests interleave; one request after the other, a cycle  *)
(* follows its reviewers' answers and no answer is taken back.             *)
(*                                                                         *)
(* None of these is inductive.  A sweep decides on what it read of a cycle *)
(* and writes it later, so they need what is still true of that when it is *)
(* written: when and whether a reviewer was notified, which only the sweep *)
(* itself changes once the cycle exists; and, where nothing overlaps, all  *)
(* of it.  RvInv says so.                                                  *)
(***************************************************************************)
EXTENDS ReviewCycles, SetLemmas, SequenceTheorems

\* What a transaction and the sweep hold (TypeOK).
Sessions ==
    [op : {"idle", "open", "view", "attest"}, step : {"none", "checked", "flushed"},
     c : Cycles \cup {NoCycle}, u : SUBSET Users,
     stamp : Nat, closes : BOOLEAN, told : SUBSET Users]

Sweeps ==
    [step : {"rest", "loop", "read", "close", "notify"},
     list : SUBSET Cycles, day : Nat, c : Cycles \cup {NoCycle},
     view : [Users -> ReviewerRows], stamp : Nat,
     told : SUBSET Users, reminded : [Users -> SUBSET Numbers]]

\* The sweep has read the cycle and not yet committed its turn.
InReview(c) == sweep.step \in {"read", "close", "notify"} /\ sweep.c = c

\* A cycle the sweep is done with: it lists open cycles only.
Settled(c) == cycle[c].status \in ClosedStatuses /\ c \notin sweep.list /\ ~ InReview(c)

\* What a transaction may rely on whatever the others did: the cycle it is
\* about to insert is nobody else's, and the reviewer it answers for exists.
TxnOK(p) ==
    LET t == txn[p] IN
    /\ t.op = "idle" => t = Idle
    /\ t.op # "idle" => t.step # "none"
    /\ t.op = "open" /\ t.step = "flushed" =>
          /\ t.c \in Cycles /\ cycle[t.c].status = "none"
          /\ \A u \in t.told : mails[t.c][u][0] > 0
          /\ \A q \in Procs : txn[q].op = "open" /\ txn[q].step = "flushed" /\ txn[q].c = t.c
                                 => q = p
    /\ t.op \in {"view", "attest"} =>
          /\ t.c \in Cycles /\ cycle[t.c].status # "none"
          /\ \E u \in Users : t.u = {u} /\ reviewer[t.c][u].status # "absent"

TxnInv == \A p \in Procs : TxnOK(p)

\* A cycle that does not exist has no rows.
BlankInv ==
    \A c \in Cycles : cycle[c].status = "none" =>
        records[c] = <<>> /\ \A u \in Users : reviewer[c][u] = Absent

\* Reminders are logged in order, each its number of days after the
\* notification, and each was sent.
TimelyRow(c, u) ==
    \A k \in reviewer[c][u].reminded :
        /\ reviewer[c][u].notified # Null
        /\ day - reviewer[c][u].notified >= Reminders[k]
        /\ mails[c][u][k] > 0
        /\ \A l \in 1..k : l \in reviewer[c][u].reminded

RowOK(c, u) ==
    LET r == reviewer[c][u] IN
    /\ r.status = "absent" => r = Absent
    /\ r.notified # Null => mails[c][u][0] > 0
    /\ r.status = "no_response" => r.notified # Null
    /\ r.status = "not_notified" => r.notified = Null /\ Settled(c)
    /\ TimelyRow(c, u)

RowsInv == \A c \in Cycles, u \in Users : RowOK(c, u)

\* What a close says of the cycle, and that the sweep is done with one that
\* it closed.
ClosedInv ==
    /\ UndeliverableIsHonest /\ RecordMatchesCycle
    /\ \A c \in Cycles :
          cycle[c].status \in {"closed_unattested", "closed_undeliverable"} => Settled(c)

\* What the sweep read is still true of who was notified and reminded, and
\* what it has sent is what was due.
ReminderOK(u, k) ==
    /\ sweep.view[u].status # "absent" /\ sweep.view[u].notified # Null
    /\ day - sweep.view[u].notified >= Reminders[k]
    /\ mails[sweep.c][u][k] > 0
    /\ \A l \in 1..k : l \in sweep.view[u].reminded \cup sweep.reminded[u]

SweepInv ==
    /\ sweep.step = "rest" => sweep = Resting
    /\ sweep.day <= day
    /\ \A c \in sweep.list : cycle[c].status # "none"
    /\ \A c \in Cycles : InReview(c) =>
          /\ cycle[c].status # "none" /\ c \notin sweep.list
          /\ \A u \in Users :
                /\ sweep.view[u].notified = reviewer[c][u].notified
                /\ sweep.view[u].reminded = reviewer[c][u].reminded
                /\ sweep.view[u].status = "absent" <=> reviewer[c][u].status = "absent"
    /\ sweep.step \in {"read", "close", "notify"} => sweep.c \in Cycles
    /\ sweep.step = "notify" =>
          /\ sweep.told \subseteq Untold(sweep.view)
          /\ \A u \in sweep.told : mails[sweep.c][u][0] > 0
          /\ \A u \in Users : \A k \in sweep.reminded[u] : ReminderOK(u, k)

\* What a request alone may rely on: all of what it read.
FreshTxn(p) ==
    LET t == txn[p] IN
    /\ t.op = "open" => NoOpenCycle
    /\ t.op = "view" => \A u \in t.u : reviewer[t.c][u].status = "requested"
    /\ t.op = "attest" =>
          /\ cycle[t.c].status = "open"
          /\ \A u \in t.u : reviewer[t.c][u].status # "attested"
          /\ t.step = "flushed" => \A u \in t.u : t.closes <=> AllAttested(t.c, u)

AloneInv ==
    ~ overlap =>
        /\ \A p, q \in Procs : txn[p] # Idle /\ txn[q] # Idle => p = q
        /\ sweep # Resting => \A p \in Procs : txn[p] = Idle
        /\ \A p \in Procs : FreshTxn(p)
        /\ \A c \in Cycles : c \in sweep.list \/ InReview(c) => cycle[c].status = "open"
        /\ \A c \in Cycles : InReview(c) => sweep.view = reviewer[c]

RvInv == TypeOK /\ TxnInv /\ BlankInv /\ RowsInv /\ ClosedInv /\ SweepInv /\ AloneInv
            /\ CyclesFollowAnswers

-----------------------------------------------------------------------------
(* Rows, reminders and steps that write none.                              *)

\* The days of the reminders rise.
LEMMA RemindersRise ==
    ASSUME NEW k \in Numbers, NEW l \in 1..k
    PROVE  Reminders[l] <= Reminders[k]
<1> DEFINE S == {i \in 1..k : ~ Reminders[i] <= Reminders[k]}
<1>1. SUFFICES ASSUME S # {} PROVE FALSE
  OBVIOUS
<1>2. Len(Reminders) \in Nat /\ \A i \in Numbers : Reminders[i] \in Nat
  BY ReviewAssumption DEF Numbers
<1>3. k \in Nat /\ 1..k \subseteq Numbers
  BY <1>2 DEF Numbers
<1>4. IsFiniteSet(S)
  BY <1>3, FS_Interval, FS_Subset
<1>5. PICK i \in S : \A j \in S : i >= j
  <2>1. \A x \in S : x \in Int
    OBVIOUS
  <2> HIDE DEF S
  <2> QED
    BY <1>1, <1>4, <2>1, HighestExists
<1>6. i \in 1..k /\ i # k /\ ~ Reminders[i] <= Reminders[k]
  BY <1>2
<1>7. i + 1 \in 1..k /\ i + 1 \notin S
  BY <1>3, <1>5, <1>6
<1>8. Reminders[i] <= Reminders[i + 1]
  BY <1>2, <1>3, <1>6, ReviewAssumption DEF Numbers
<1>9. Reminders[i + 1] <= Reminders[k]
  BY <1>7
<1> QED
  BY <1>2, <1>3, <1>6, <1>7, <1>8, <1>9

\* A transaction that reads or flushes, or is rolled back: the others rely on
\* what they did.
LEMMA TxnStep ==
    ASSUME RvInv, NEW p \in Procs, NEW t, txn' = [txn EXCEPT ![p] = t],
           UNCHANGED <<overlap, day, dbVars, mails, sweep>>, aborts' \in Nat,
           t \in Sessions, TxnOK(p)', t.op = "open" => t.step # "flushed",
           ~ overlap => FreshTxn(p)',
           ~ overlap => \A q \in Procs : q # p => txn[q] = Idle,
           ~ overlap /\ t # Idle => sweep = Resting
    PROVE  RvInv'
<1> USE DEF RvInv, dbVars
<1>1. /\ txn'[p] = t /\ \A q \in Procs : q # p => txn'[q] = txn[q]
  BY DEF TypeOK
<1>5. TypeOK'
  BY DEF TypeOK, Sessions
<1>2. TxnInv'
  <2>1. ASSUME NEW q \in Procs, q # p PROVE TxnOK(q)'
    BY <1>1, <2>1 DEF TxnInv, TxnOK
  <2> QED
    BY <2>1 DEF TxnInv
<1>3. BlankInv' /\ RowsInv' /\ ClosedInv' /\ SweepInv' /\ CyclesFollowAnswers'
  <2>1. BlankInv' /\ RowsInv'
    BY DEF BlankInv, RowsInv, RowOK, TimelyRow, Settled, InReview
  <2>2. ClosedInv'
    BY DEF ClosedInv, UndeliverableIsHonest, RecordMatchesCycle, Settled, InReview
  <2>3. SweepInv'
    BY DEF SweepInv, ReminderOK, InReview
  <2>4. CyclesFollowAnswers'
    BY DEF CyclesFollowAnswers, OneOpenCycle, OpenMeansUnanswered, Reviewers,
           FullAttestationCompletes, AttachedRecordAttests
  <2> QED
    BY <2>1, <2>2, <2>3, <2>4
<1>4. AloneInv'
  <2> SUFFICES ASSUME ~ overlap PROVE AloneInv'
    BY DEF AloneInv
  <2>1. ASSUME NEW q \in Procs, q # p PROVE FreshTxn(q)' /\ txn'[q] = Idle
    <3>1. txn'[q] = Idle
      BY <1>1, <2>1
    <3>2. txn'[q].op = "idle"
      BY <3>1 DEF Idle
    <3> QED
      BY <3>1, <3>2 DEF FreshTxn
  <2>2. \A q \in Procs : FreshTxn(q)'
    BY <2>1
  <2>3. sweep # Resting => t = Idle
    OBVIOUS
  <2> QED
    BY <1>1, <2>1, <2>2, <2>3 DEF AloneInv, InReview
<1> QED
  BY <1>2, <1>3, <1>4, <1>5

\* A sweep that starts, reads, flushes a close, ends or is rolled back: it takes
\* up no cycle that is not open.
LEMMA SweepStep ==
    ASSUME RvInv, UNCHANGED <<overlap, day, dbVars, mails, txn>>, aborts' \in Nat,
           sweep' \in Sweeps, SweepInv',
           \A c \in Cycles : c \in sweep'.list \/ InReview(c)' =>
               c \in sweep.list \/ InReview(c) \/ cycle[c].status = "open",
           ~ overlap /\ sweep' # Resting => \A q \in Procs : txn[q] = Idle,
           ~ overlap => \A c \in Cycles : InReview(c)' => sweep'.view = reviewer[c]
    PROVE  RvInv'
<1> USE DEF RvInv, dbVars
<1>1. ASSUME NEW c \in Cycles, Settled(c) PROVE Settled(c)'
  BY <1>1 DEF Settled, ClosedStatuses
<1>4. TypeOK'
  BY DEF TypeOK, Sweeps
<1>2. TxnInv' /\ BlankInv' /\ RowsInv' /\ ClosedInv' /\ CyclesFollowAnswers'
  <2>1. TxnInv' /\ BlankInv'
    BY DEF TxnInv, TxnOK, BlankInv
  <2>2. RowsInv'
    BY <1>1 DEF RowsInv, RowOK, TimelyRow
  <2>3. ClosedInv'
    BY <1>1 DEF ClosedInv, UndeliverableIsHonest, RecordMatchesCycle
  <2>4. CyclesFollowAnswers'
    BY DEF CyclesFollowAnswers, OneOpenCycle, OpenMeansUnanswered, Reviewers,
           FullAttestationCompletes, AttachedRecordAttests
  <2> QED
    BY <2>1, <2>2, <2>3, <2>4
<1>3. AloneInv'
  <2> SUFFICES ASSUME ~ overlap PROVE AloneInv'
    BY DEF AloneInv
  <2>1. /\ \A c \in Cycles, u \in Users : AllAttested(c, u)' <=> AllAttested(c, u)
        /\ NoOpenCycle' <=> NoOpenCycle
    BY DEF AllAttested, Reviewers, NoOpenCycle
  <2>2. ASSUME NEW p \in Procs PROVE FreshTxn(p)'
    <3>1. FreshTxn(p) /\ txn'[p] = txn[p]
      BY DEF AloneInv
    <3>2. txn[p].op = "attest" => txn[p].c \in Cycles /\ txn[p].u \subseteq Users
      BY DEF TxnInv, TxnOK, TypeOK
    <3>3. txn[p].op = "open" => NoOpenCycle'
      BY <2>1, <3>1 DEF FreshTxn
    <3>4. txn[p].op = "view" =>
            \A u \in txn[p].u : reviewer'[txn[p].c][u].status = "requested"
      BY <3>1 DEF FreshTxn
    <3>5. ASSUME txn[p].op = "attest" PROVE
            /\ cycle'[txn[p].c].status = "open"
            /\ \A u \in txn[p].u : reviewer'[txn[p].c][u].status # "attested"
      BY <3>1, <3>5 DEF FreshTxn
    <3>6. ASSUME txn[p].op = "attest", txn[p].step = "flushed", NEW u \in txn[p].u
          PROVE  txn[p].closes <=> AllAttested(txn[p].c, u)
      BY <3>1, <3>6 DEF FreshTxn
    <3>7. ASSUME NEW c, c = txn[p].c, NEW u PROVE AllAttested(txn[p].c, u)' <=> AllAttested(c, u)
      BY <3>1, <3>7 DEF AllAttested, Reviewers
    <3> QED
      BY <3>1, <3>3, <3>4, <3>5, <3>6, <3>7 DEF FreshTxn
  <2> QED
    BY <2>2 DEF AloneInv
<1> QED
  BY <1>2, <1>3, <1>4

-----------------------------------------------------------------------------
(* Initial states, and each step.                                          *)

\* Before the first cycle.
LEMMA InitInv == Init => RvInv
<1> SUFFICES ASSUME Init PROVE RvInv
  OBVIOUS
<1>1. TypeOK
  <2>1. Len(Reminders) \in Nat
    BY ReviewAssumption
  <2>2. Resting \in Sweeps
    BY DEF Resting, Absent, ReviewerRows, ReviewerStatuses, Sweeps
  <2>3. Absent \in ReviewerRows
    BY DEF Absent, ReviewerRows, ReviewerStatuses
  <2>4. [status |-> "none", opened |-> 0] \in CycleRows
    BY DEF CycleRows
  <2>5. Idle \in Sessions
    BY DEF Idle, Sessions
  <2>6. mails \in [Cycles -> [Users -> [0..Len(Reminders) -> Nat]]]
    BY <2>1 DEF Init
  <2>7. records \in [Cycles -> Seq(Records)]
    BY DEF Init
  <2> QED
    BY <2>2, <2>3, <2>4, <2>5, <2>6, <2>7 DEF Init, TypeOK, Sessions, Sweeps
<1>2. TxnInv
  BY DEF Init, TxnInv, TxnOK, Idle
<1>3. BlankInv
  BY DEF Init, BlankInv
<1>4. RowsInv
  BY DEF Init, RowsInv, RowOK, TimelyRow, Absent
<1>5. ClosedInv
  BY DEF Init, ClosedInv, UndeliverableIsHonest, RecordMatchesCycle, ClosedStatuses
<1>6. SweepInv
  BY DEF Init, SweepInv, InReview, Resting
<1>7. AloneInv
  BY DEF Init, AloneInv, FreshTxn, InReview, Resting, Idle
<1>8. CyclesFollowAnswers
  BY DEF Init, CyclesFollowAnswers, OneOpenCycle, OpenMeansUnanswered, Reviewers,
         FullAttestationCompletes, AttachedRecordAttests, ClosedStatuses, Absent
<1> QED
  BY <1>1, <1>2, <1>3, <1>4, <1>5, <1>6, <1>7, <1>8 DEF RvInv

\* A step of one transaction that writes no row, the sweep aside: requests that
\* read first, the flush of an attestation, a rollback.
LEMMA RequestsInvStep ==
    ASSUME RvInv, NEW p \in Procs,
           \/ OpenCheck(p) \/ AttestFlush(p) \/ AbortTxn(p)
           \/ \E c \in Cycles, u \in Users : ViewCheck(p, c, u) \/ AttestCheck(p, c, u)
    PROVE  RvInv'
<1> USE DEF RvInv
<1>0. txn[p] \in Sessions /\ Idle \in Sessions /\ aborts \in Nat
  BY DEF TypeOK, Sessions, Idle
<1>a. /\ Idle.op = "idle" /\ Idle.step = "none"
  BY DEF Idle
<1>b. \A t : txn' = [txn EXCEPT ![p] = t] => txn'[p] = t
  BY DEF TypeOK
<1>1. CASE OpenCheck(p)
  <2> DEFINE t == [Idle EXCEPT !.op = "open", !.step = "checked"]
  <2>1. t \in Sessions /\ t.op = "open" /\ t.step = "checked"
    BY DEF Idle, Sessions
  <2> HIDE DEF t
  <2>2. /\ txn' = [txn EXCEPT ![p] = t] /\ txn[p] = Idle /\ MayStart /\ NoOpenCycle
        /\ UNCHANGED <<overlap, day, dbVars, mails, sweep, aborts>>
    BY <1>1 DEF OpenCheck, t
  <2>3. txn'[p] = t
    BY <1>b, <2>2
  <2>4. TxnOK(p)' /\ FreshTxn(p)'
    BY <2>1, <2>2, <2>3 DEF TxnOK, FreshTxn, NoOpenCycle, dbVars
  <2> QED
    BY <1>0, <2>1, <2>2, <2>4, TxnStep DEF MayStart, Quiet
<1>2. ASSUME NEW c \in Cycles, NEW u \in Users, ViewCheck(p, c, u) PROVE RvInv'
  <2> DEFINE t == [Idle EXCEPT !.op = "view", !.step = "checked", !.c = c, !.u = {u}]
  <2>1. /\ t \in Sessions /\ t.op = "view" /\ t.step = "checked" /\ t.c = c /\ t.u = {u}
    BY DEF Idle, Sessions
  <2> HIDE DEF t
  <2>2. /\ txn' = [txn EXCEPT ![p] = t] /\ txn[p] = Idle /\ MayStart
        /\ reviewer[c][u].status = "requested"
        /\ UNCHANGED <<overlap, day, dbVars, mails, sweep, aborts>>
    BY <1>2 DEF ViewCheck, t
  <2>3. txn'[p] = t
    BY <1>b, <2>2
  <2>4. cycle[c].status # "none"
    BY <2>2 DEF BlankInv, Absent
  <2>5. TxnOK(p)' /\ FreshTxn(p)'
    BY <2>1, <2>2, <2>3, <2>4 DEF TxnOK, FreshTxn, dbVars
  <2> QED
    BY <1>0, <2>1, <2>2, <2>5, TxnStep DEF MayStart, Quiet
<1>3. ASSUME NEW c \in Cycles, NEW u \in Users, AttestCheck(p, c, u) PROVE RvInv'
  <2> DEFINE t == [Idle EXCEPT !.op = "attest", !.step = "checked", !.c = c, !.u = {u}]
  <2>1. /\ t \in Sessions /\ t.op = "attest" /\ t.step = "checked" /\ t.c = c /\ t.u = {u}
    BY DEF Idle, Sessions
  <2> HIDE DEF t
  <2>2. /\ txn' = [txn EXCEPT ![p] = t] /\ txn[p] = Idle /\ MayStart
        /\ cycle[c].status = "open"
        /\ reviewer[c][u].status \notin {"absent", "attested"}
        /\ UNCHANGED <<overlap, day, dbVars, mails, sweep, aborts>>
    BY <1>3 DEF AttestCheck, t
  <2>3. txn'[p] = t
    BY <1>b, <2>2
  <2>5. TxnOK(p)' /\ FreshTxn(p)'
    BY <2>1, <2>2, <2>3 DEF TxnOK, FreshTxn, dbVars
  <2> QED
    BY <1>0, <2>1, <2>2, <2>5, TxnStep DEF MayStart, Quiet
<1>4. CASE AttestFlush(p)
  <2>1. PICK u \in txn[p].u : txn' = [txn EXCEPT ![p] = [@ EXCEPT !.step = "flushed",
                                       !.closes = AllAttested(txn[p].c, u)]]
    BY <1>4 DEF AttestFlush
  <2>2. txn[p].op = "attest" /\ UNCHANGED <<overlap, day, dbVars, mails, sweep, aborts>>
    BY <1>4 DEF AttestFlush
  <2> DEFINE t == [txn[p] EXCEPT !.step = "flushed", !.closes = AllAttested(txn[p].c, u)]
  <2>3. AllAttested(txn[p].c, u) \in BOOLEAN
    BY DEF AllAttested
  <2>4. /\ t.step = "flushed" /\ t.op = "attest" /\ t.c = txn[p].c /\ t.u = txn[p].u
        /\ t.closes = AllAttested(txn[p].c, u) /\ t \in Sessions
    BY <1>0, <2>2, <2>3 DEF Sessions
  <2>5. txn' = [txn EXCEPT ![p] = t]
    BY <2>1
  <2> HIDE DEF t
  <2>6. txn'[p] = t
    BY <1>b, <2>5
  <2>7. TxnOK(p)
    BY DEF TxnInv
  <2>8. TxnOK(p)'
    BY <2>2, <2>4, <2>6, <2>7 DEF TxnOK, dbVars
  <2>9. ~ overlap => FreshTxn(p)'
    <3> SUFFICES ASSUME ~ overlap PROVE FreshTxn(p)'
      OBVIOUS
    <3>1. FreshTxn(p)
      BY DEF AloneInv
    <3>2. txn[p].u = {u}
      BY <2>1, <2>2, <2>7 DEF TxnOK
    <3>3. t.closes <=> AllAttested(t.c, u)
      BY <2>4
    <3>4. ASSUME NEW c, c = txn'[p].c PROVE AllAttested(c, u)' <=> AllAttested(t.c, u)
      BY <2>2, <2>6, <3>4 DEF AllAttested, Reviewers, dbVars
    <3>5. /\ cycle[t.c].status = "open" /\ reviewer[t.c][u].status # "attested" /\ t.u = {u}
      BY <2>2, <2>4, <3>1, <3>2 DEF FreshTxn
    <3>6. /\ cycle' = cycle /\ reviewer' = reviewer
      BY <2>2 DEF dbVars
    <3> QED
      BY <2>4, <2>6, <3>3, <3>4, <3>5, <3>6 DEF FreshTxn
  <2>10. txn[p] # Idle
    BY <1>a, <2>2
  <2>11. ~ overlap => \A q \in Procs : q # p => txn[q] = Idle
    BY <2>10 DEF AloneInv
  <2>12. ~ overlap => sweep = Resting
    BY <2>10 DEF AloneInv
  <2> QED
    BY <1>0, <2>2, <2>4, <2>5, <2>8, <2>9, <2>11, <2>12, TxnStep
<1>5. CASE AbortTxn(p)
  <2>1. /\ txn' = [txn EXCEPT ![p] = Idle] /\ txn[p] # Idle /\ aborts' = aborts + 1
        /\ UNCHANGED <<overlap, day, dbVars, mails, sweep>>
    BY <1>5 DEF AbortTxn
  <2>2. txn'[p] = Idle
    BY <1>b, <2>1
  <2>3. TxnOK(p)' /\ FreshTxn(p)'
    BY <1>a, <2>2 DEF TxnOK, FreshTxn
  <2>4. ~ overlap => \A q \in Procs : q # p => txn[q] = Idle
    BY <2>1 DEF AloneInv
  <2>5. aborts' \in Nat
    BY <1>0, <2>1
  <2> QED
    BY <1>0, <1>a, <2>1, <2>3, <2>4, <2>5, TxnStep
<1> QED
  BY <1>1, <1>2, <1>3, <1>4, <1>5

\* The sweep where it writes nothing: it lists, reads, flushes a close, ends or
\* is rolled back.
LEMMA SweepInvStep ==
    ASSUME RvInv,
           SweepStart \/ SweepClose \/ SweepEnd \/ AbortSweep \/ \E c \in Cycles : SweepRead(c)
    PROVE  RvInv'
<1> USE DEF RvInv
<1>0. sweep \in Sweeps /\ Resting \in Sweeps /\ aborts \in Nat /\ day \in Nat
  BY DEF TypeOK, Sweeps, Resting, Absent, ReviewerRows, ReviewerStatuses
<1>a. /\ Resting.step = "rest" /\ Resting.list = {} /\ Resting.day = 0
  BY DEF Resting
<1>1. CASE SweepStart
  <2> DEFINE open == {c \in Cycles : cycle[c].status = "open"}
             s == [Resting EXCEPT !.step = "loop", !.day = day, !.list = open]
  <2>1. s \in Sweeps /\ s.step = "loop" /\ s.day = day /\ s.list = open
    BY <1>0 DEF Sweeps, Resting
  <2>2. /\ sweep' = s /\ MayStart
        /\ UNCHANGED <<overlap, day, dbVars, mails, txn, aborts>>
    BY <1>1 DEF SweepStart
  <2> HIDE DEF s
  <2>3. SweepInv'
    BY <1>0, <2>1, <2>2 DEF SweepInv, InReview, dbVars
  <2>4. \A c \in Cycles : ~ InReview(c)'
    BY <2>1, <2>2 DEF InReview
  <2>5. ~ overlap => \A q \in Procs : txn[q] = Idle
    BY <2>2 DEF MayStart, Quiet
  <2> QED
    BY <1>0, <2>1, <2>2, <2>3, <2>4, <2>5, SweepStep
<1>2. CASE SweepClose
  <2> DEFINE s == [sweep EXCEPT !.step = "close"]
  <2>1. /\ s \in Sweeps /\ s.step = "close" /\ s.list = sweep.list /\ s.day = sweep.day
        /\ s.c = sweep.c /\ s.view = sweep.view
    BY <1>0 DEF Sweeps
  <2>2. /\ sweep' = s /\ sweep.step = "read"
        /\ UNCHANGED <<overlap, day, dbVars, mails, txn, aborts>>
    BY <1>2 DEF SweepClose
  <2> HIDE DEF s
  <2>3. \A c : InReview(c)' <=> InReview(c)
    BY <2>1, <2>2 DEF InReview
  <2>4. SweepInv'
    BY <2>1, <2>2, <2>3 DEF SweepInv, dbVars
  <2>5. sweep # Resting
    BY <1>a, <2>2
  <2> QED
    BY <1>0, <2>1, <2>2, <2>3, <2>4, <2>5, SweepStep DEF AloneInv
<1>3. CASE SweepEnd \/ AbortSweep
  <2>1. /\ sweep' = Resting /\ aborts' \in Nat
        /\ UNCHANGED <<overlap, day, dbVars, mails, txn>>
    BY <1>0, <1>3 DEF SweepEnd, AbortSweep
  <2>2. \A c \in Cycles : ~ InReview(c)'
    BY <1>a, <2>1 DEF InReview
  <2>3. SweepInv'
    BY <1>0, <1>a, <2>1, <2>2 DEF SweepInv
  <2> QED
    BY <1>0, <1>a, <2>1, <2>2, <2>3, SweepStep
<1>4. ASSUME NEW c \in Cycles, SweepRead(c) PROVE RvInv'
  <2> DEFINE s == [sweep EXCEPT !.step = "read", !.c = c, !.list = @ \ {c},
                                !.view = reviewer[c]]
  <2>0. reviewer[c] \in [Users -> ReviewerRows]
    BY DEF TypeOK
  <2>1. /\ s \in Sweeps /\ s.step = "read" /\ s.list = sweep.list \ {c} /\ s.day = sweep.day
        /\ s.c = c /\ s.view = reviewer[c]
    BY <1>0, <2>0 DEF Sweeps
  <2>2. /\ sweep' = s /\ sweep.step = "loop" /\ c \in sweep.list
        /\ UNCHANGED <<overlap, day, dbVars, mails, txn, aborts>>
    BY <1>4 DEF SweepRead
  <2> HIDE DEF s
  <2>3. \A b : InReview(b)' <=> b = c
    BY <2>1, <2>2 DEF InReview
  <2>4. SweepInv'
    BY <2>1, <2>2, <2>3 DEF SweepInv, dbVars
  <2>5. sweep # Resting
    BY <1>a, <2>2
  <2> QED
    BY <1>0, <2>1, <2>2, <2>3, <2>4, <2>5, SweepStep DEF AloneInv
<1> QED
  BY <1>1, <1>2, <1>3, <1>4

\* Days pass, which only brings reminders due.
LEMMA TickStep == ASSUME RvInv, Tick PROVE RvInv'
<1> USE DEF RvInv
<1>1. /\ day \in Nat /\ day' = day + 1
      /\ UNCHANGED <<overlap, cycle, reviewer, records, mails, txn, sweep, aborts>>
  BY DEF Tick, TypeOK, dbVars
<1>2. TypeOK'
  BY <1>1 DEF TypeOK
<1>3. TxnInv' /\ BlankInv'
  BY <1>1 DEF TxnInv, TxnOK, BlankInv
<1>4. RowsInv'
  <2>1. ASSUME NEW c \in Cycles, NEW u \in Users PROVE RowOK(c, u)'
    <3>1. RowOK(c, u) /\ (Settled(c)' <=> Settled(c))
      BY <1>1 DEF RowsInv, Settled, InReview
    <3>2. reviewer[c][u] \in ReviewerRows
      BY DEF TypeOK
    <3>3. ASSUME NEW k \in reviewer[c][u].reminded PROVE day' - reviewer[c][u].notified >= Reminders[k]
      <4>1. reviewer[c][u].notified \in Int /\ Reminders[k] \in Nat
        BY <3>2, <3>3, ReviewAssumption DEF ReviewerRows, Null, Numbers
      <4>2. day - reviewer[c][u].notified >= Reminders[k]
        BY <3>1, <3>3 DEF RowOK, TimelyRow
      <4> QED
        BY <1>1, <4>1, <4>2
    <3> QED
      BY <1>1, <3>1, <3>3 DEF RowOK, TimelyRow
  <2> QED
    BY <2>1 DEF RowsInv
<1>5. ClosedInv'
  BY <1>1 DEF ClosedInv, UndeliverableIsHonest, RecordMatchesCycle, Settled, InReview
<1>6. SweepInv'
  <2>1. ASSUME NEW u \in Users, NEW k \in sweep.reminded[u], sweep.step = "notify"
        PROVE  ReminderOK(u, k)'
    <3>1. ReminderOK(u, k)
      BY <2>1 DEF SweepInv
    <3>2. sweep.view[u].notified \in Int /\ Reminders[k] \in Nat
      BY ReviewAssumption DEF TypeOK, ReviewerRows, Null, Numbers
    <3> QED
      BY <1>1, <3>1, <3>2 DEF ReminderOK
  <2>2. sweep'.day <= day'
    BY <1>1 DEF SweepInv, TypeOK
  <2> QED
    BY <1>1, <2>1, <2>2 DEF SweepInv, InReview, Untold
<1>7. CyclesFollowAnswers'
  BY <1>1 DEF CyclesFollowAnswers, OneOpenCycle, OpenMeansUnanswered, Reviewers,
         FullAttestationCompletes, AttachedRecordAttests
<1>8. AloneInv'
  <2>1. \A p \in Procs : FreshTxn(p)' <=> FreshTxn(p)
    BY <1>1 DEF FreshTxn, NoOpenCycle, AllAttested, Reviewers
  <2> QED
    BY <1>1, <2>1 DEF AloneInv, InReview
<1> QED
  BY <1>2, <1>3, <1>4, <1>5, <1>6, <1>7, <1>8

\* The command that detaches records rewrites no outcome.
LEMMA DetachStep == ASSUME RvInv, DetachUnattested PROVE RvInv'
<1> USE DEF RvInv
<1>1. UNCHANGED <<overlap, day, cycle, reviewer, mails, txn, sweep, aborts>>
  BY DEF DetachUnattested
<1>2. ASSUME NEW c \in Cycles PROVE
         /\ records'[c] \in Seq(Records) /\ Len(records'[c]) = Len(records[c])
         /\ \A k \in 1..Len(records[c]) :
               /\ records'[c][k].outcome = records[c][k].outcome
               /\ records'[c][k].attached => records[c][k].attached
  <2>1. records[c] \in Seq(Records)
    BY DEF TypeOK
  <2>2. CASE cycle[c].status = ATTESTS
    BY <2>1, <2>2 DEF DetachUnattested
  <2>3. CASE cycle[c].status # ATTESTS
    <3> DEFINE rest == [k \in 1..Len(records[c]) |-> [records[c][k] EXCEPT !.attached = FALSE]]
    <3>1. records'[c] = rest
      BY <2>3 DEF DetachUnattested
    <3>2. ASSUME NEW k \in 1..Len(records[c]) PROVE rest[k] \in Records
      <4>1. records[c][k] \in Records
        BY <2>1
      <4> QED
        BY <4>1 DEF Records
    <3>3. rest \in Seq(Records) /\ Len(rest) = Len(records[c])
      <4>1. Len(records[c]) \in Nat
        BY <2>1
      <4>2. rest \in [1..Len(records[c]) -> Records]
        BY <3>2
      <4>3. DOMAIN rest = 1..Len(records[c])
        OBVIOUS
      <4> HIDE DEF rest
      <4>4. rest \in Seq(Records)
        BY <4>1, <4>2, SeqDef
      <4> QED
        BY <4>1, <4>3, <4>4, LenProperties
    <3>4. \A k \in 1..Len(records[c]) :
             rest[k].outcome = records[c][k].outcome /\ rest[k].attached = FALSE
      BY <2>1 DEF Records
    <3> QED
      BY <3>1, <3>3, <3>4
  <2> QED
    BY <2>2, <2>3
<1>3. DOMAIN records' = Cycles /\ records' = [c \in Cycles |-> records'[c]]
  BY DEF DetachUnattested
<1>4. TypeOK'
  <2>1. records' \in [Cycles -> Seq(Records)]
    BY <1>2, <1>3
  <2> QED
    BY <1>1, <2>1 DEF TypeOK
<1>5. \A c \in Cycles : records[c] \in Seq(Records)
  BY DEF TypeOK
<1>6. TxnInv' /\ RowsInv' /\ SweepInv'
  <2>1. TxnInv'
    BY <1>1 DEF TxnInv, TxnOK
  <2>2. RowsInv'
    BY <1>1 DEF RowsInv, RowOK, TimelyRow, Settled, InReview
  <2>3. SweepInv'
    BY <1>1 DEF SweepInv, ReminderOK, InReview, Untold
  <2> QED
    BY <2>1, <2>2, <2>3
<1>7. \A c \in Cycles : records[c] = <<>> <=> records'[c] = <<>>
  BY <1>2, <1>5
<1>8. BlankInv'
  BY <1>1, <1>7 DEF BlankInv
<1>9. ClosedInv'
  <2>1. RecordMatchesCycle'
    <3>1. ASSUME NEW c \in Cycles, records[c] # <<>>
          PROVE  records'[c][Len(records'[c])].outcome = records[c][Len(records[c])].outcome
      <4>1. Len(records[c]) \in 1..Len(records[c])
        BY <1>5, <3>1
      <4> QED
        BY <1>2, <4>1
    <3> QED
      BY <1>1, <1>7, <3>1 DEF ClosedInv, RecordMatchesCycle
  <2> QED
    BY <1>1, <2>1 DEF ClosedInv, UndeliverableIsHonest, Settled, InReview
<1>10. CyclesFollowAnswers'
  <2>1. AttachedRecordAttests'
    BY <1>1, <1>2 DEF CyclesFollowAnswers, AttachedRecordAttests
  <2> QED
    BY <1>1, <2>1 DEF CyclesFollowAnswers, OneOpenCycle, OpenMeansUnanswered, Reviewers,
           FullAttestationCompletes
<1>11. AloneInv'
  <2>1. \A p \in Procs : FreshTxn(p)' <=> FreshTxn(p)
    BY <1>1 DEF FreshTxn, NoOpenCycle, AllAttested, Reviewers
  <2> QED
    BY <1>1, <2>1 DEF AloneInv, InReview
<1> QED
  BY <1>4, <1>6, <1>8, <1>9, <1>10, <1>11

\* Where only messages go out, rows say of them what they said.
LEMMA RowsKept ==
    ASSUME RowsInv, UNCHANGED <<day, cycle, reviewer>>,
           \A c \in Cycles, u \in Users, k \in 0..Len(Reminders) :
               mails[c][u][k] > 0 => mails'[c][u][k] > 0,
           \A c \in Cycles : Settled(c) => Settled(c)', TypeOK
    PROVE  RowsInv'
<1>1. ASSUME NEW c \in Cycles, NEW u \in Users PROVE RowOK(c, u)'
  <2>1. RowOK(c, u)
    BY DEF RowsInv
  <2>2. reviewer[c][u].reminded \subseteq 0..Len(Reminders) /\ 0 \in 0..Len(Reminders)
    BY ReviewAssumption DEF TypeOK, ReviewerRows, Numbers
  <2>3. TimelyRow(c, u)'
    BY <2>1, <2>2 DEF RowOK, TimelyRow
  <2> QED
    BY <2>1, <2>2, <2>3 DEF RowOK
<1> QED
  BY <1>1 DEF RowsInv

\* A cycle and its reviewers are flushed: a cycle nobody else is inserting.
LEMMA OpenFlushStep == ASSUME RvInv, NEW p \in Procs, OpenFlush(p) PROVE RvInv'
<1> USE DEF RvInv
<1>1. PICK c \in Cycles, us \in SUBSET Users, told \in SUBSET Users :
         /\ cycle[c].status = "none" /\ \A q \in Procs : txn[q].c # c
         /\ txn' = [txn EXCEPT ![p] = [@ EXCEPT !.step = "flushed", !.c = c, !.u = us,
                                                 !.stamp = day, !.told = told]]
         /\ mails' = Mailed(c, 0, told)
  BY Zenon DEF OpenFlush
<1>2. /\ txn[p].op = "open" /\ UNCHANGED <<overlap, day, cycle, reviewer, records, sweep, aborts>>
  BY DEF OpenFlush, dbVars
<1> DEFINE t == [txn[p] EXCEPT !.step = "flushed", !.c = c, !.u = us,
                               !.stamp = day, !.told = told]
<1>3. t \in Sessions /\ t.op = "open" /\ t.step = "flushed" /\ t.c = c /\ t.told = told
  <2>1. txn[p] \in Sessions /\ day \in Nat
    BY DEF TypeOK, Sessions
  <2> QED
    BY <1>2, <2>1 DEF Sessions
<1>4. txn' = [txn EXCEPT ![p] = t]
  BY <1>1
<1> HIDE DEF t
<1>5. txn'[p] = t /\ \A q \in Procs : q # p => txn'[q] = txn[q]
  BY <1>4 DEF TypeOK
<1>6. 0 \in 0..Len(Reminders)
  BY ReviewAssumption
<1>7. /\ mails' \in [Cycles -> [Users -> [0..Len(Reminders) -> Nat]]]
      /\ \A b \in Cycles, u \in Users, k \in 0..Len(Reminders) :
            mails[b][u][k] > 0 => mails'[b][u][k] > 0
      /\ \A u \in told : mails'[c][u][0] > 0
  <2> DEFINE m == [u \in Users |-> IF u \in told THEN [mails[c][u] EXCEPT ![0] = mails[c][u][0] + 1]
                                                 ELSE mails[c][u]]
  <2>1. mails' = [mails EXCEPT ![c] = m]
    BY <1>1 DEF Mailed
  <2>2. mails[c] \in [Users -> [0..Len(Reminders) -> Nat]]
    BY DEF TypeOK
  <2>3. ASSUME NEW u \in Users
        PROVE  /\ m[u] \in [0..Len(Reminders) -> Nat]
               /\ \A k \in 0..Len(Reminders) : mails[c][u][k] > 0 => m[u][k] > 0
               /\ u \in told => m[u][0] > 0
    <3>1. mails[c][u] \in [0..Len(Reminders) -> Nat]
      BY <2>2
    <3>2. CASE u \in told
      <4>1. m[u] = [mails[c][u] EXCEPT ![0] = mails[c][u][0] + 1]
        BY <3>2
      <4> HIDE DEF m
      <4> QED
        BY <1>6, <3>1, <4>1
    <3>3. CASE u \notin told
      BY <3>1, <3>3
    <3> QED
      BY <3>2, <3>3
  <2>4. m \in [Users -> [0..Len(Reminders) -> Nat]]
    BY <2>3
  <2> HIDE DEF m
  <2>5. mails'[c] = m /\ \A b \in Cycles : b # c => mails'[b] = mails[b]
    BY <2>1 DEF TypeOK
  <2>6. mails' \in [Cycles -> [Users -> [0..Len(Reminders) -> Nat]]]
    BY <2>1, <2>4 DEF TypeOK
  <2> QED
    BY <2>3, <2>5, <2>6
<1>8. TypeOK'
  BY <1>2, <1>3, <1>4, <1>7 DEF TypeOK, Sessions
<1>9. TxnInv'
  <2>1. TxnOK(p)'
    BY <1>1, <1>2, <1>3, <1>5, <1>7 DEF TxnOK
  <2>2. ASSUME NEW q \in Procs, q # p PROVE TxnOK(q)'
    <3>1. TxnOK(q)
      BY DEF TxnInv
    <3>2. txn[q].told \subseteq Users
      BY DEF TypeOK
    <3>3. ASSUME txn[q].op = "open", txn[q].step = "flushed"
          PROVE  /\ \A u \in txn[q].told : mails'[txn[q].c][u][0] > 0
                 /\ \A r \in Procs : txn'[r].op = "open" /\ txn'[r].step = "flushed"
                                        /\ txn'[r].c = txn[q].c => r = q
      <4>1. txn[q].c \in Cycles /\ txn[q].c # c
        BY <1>1, <3>1, <3>3 DEF TxnOK
      <4> QED
        BY <1>3, <1>5, <1>6, <1>7, <3>1, <3>2, <3>3, <4>1 DEF TxnOK
    <3> QED
      BY <1>2, <1>5, <2>2, <3>1, <3>3 DEF TxnOK
  <2> QED
    BY <2>1, <2>2 DEF TxnInv
<1>10. RowsInv'
  <2>1. \A b \in Cycles : Settled(b) => Settled(b)'
    BY <1>2 DEF Settled, InReview
  <2> QED
    BY <1>2, <1>7, <2>1, RowsKept
<1>11. BlankInv' /\ ClosedInv' /\ CyclesFollowAnswers'
  <2>1. BlankInv'
    BY <1>2 DEF BlankInv
  <2>2. ClosedInv'
    BY <1>2 DEF ClosedInv, UndeliverableIsHonest, RecordMatchesCycle, Settled, InReview
  <2>3. CyclesFollowAnswers'
    BY <1>2 DEF CyclesFollowAnswers, OneOpenCycle, OpenMeansUnanswered, Reviewers,
           FullAttestationCompletes, AttachedRecordAttests
  <2> QED
    BY <2>1, <2>2, <2>3
<1>12. SweepInv'
  <2>1. ASSUME NEW u \in Users, NEW k \in sweep.reminded[u], sweep.step = "notify"
        PROVE  ReminderOK(u, k)'
    <3>1. ReminderOK(u, k) /\ sweep.c \in Cycles
      BY <2>1 DEF SweepInv
    <3>2. k \in 0..Len(Reminders)
      BY ReviewAssumption DEF TypeOK, Numbers
    <3> QED
      BY <1>2, <1>7, <3>1, <3>2 DEF ReminderOK
  <2>2. sweep.step = "notify" => \A u \in sweep.told : mails'[sweep.c][u][0] > 0
    BY <1>6, <1>7 DEF SweepInv, TypeOK
  <2> QED
    BY <1>2, <2>1, <2>2 DEF SweepInv, InReview, Untold
<1>13. AloneInv'
  <2> SUFFICES ASSUME ~ overlap PROVE AloneInv'
    BY <1>2 DEF AloneInv
  <2>0. Idle.op = "idle"
    BY DEF Idle
  <2>1. \A q \in Procs : q # p => txn'[q] = Idle
    BY <1>2, <1>5, <2>0 DEF AloneInv
  <2>2. NoOpenCycle' /\ sweep = Resting
    BY <1>2, <2>0 DEF AloneInv, FreshTxn, NoOpenCycle
  <2>3. \A q \in Procs : FreshTxn(q)'
    <3>1. FreshTxn(p)'
      BY <1>3, <1>5, <2>2 DEF FreshTxn
    <3>2. \A q \in Procs : q # p => txn'[q].op = "idle"
      BY <2>0, <2>1
    <3> QED
      BY <3>1, <3>2 DEF FreshTxn
  <2> QED
    BY <1>2, <2>1, <2>2, <2>3 DEF AloneInv, InReview
<1> QED
  BY <1>8, <1>9, <1>10, <1>11, <1>12, <1>13

\* What is sent before the first failure is due, and whatever was due before it
\* is sent or was.
LEMMA SentInOrder ==
    ASSUME TypeOK, NEW r \in ReviewerRows, NEW S \in Prefixes(Due(r, sweep.day)),
           NEW k \in S, sweep.day <= day
    PROVE  /\ k \in Numbers /\ r.status # "absent" /\ r.notified # Null
           /\ day - r.notified >= Reminders[k]
           /\ \A l \in 1..k : l \in r.reminded \cup S
<1>1. k \in Due(r, sweep.day) /\ S \subseteq Due(r, sweep.day)
  BY DEF Prefixes
<1>2. /\ r.status # "absent" /\ r.notified # Null /\ k \in Numbers
      /\ sweep.day - r.notified >= Reminders[k]
  BY <1>1 DEF Due
<1>3. r.notified \in Int /\ sweep.day \in Nat /\ day \in Nat /\ Len(Reminders) \in Nat
  BY ReviewAssumption DEF ReviewerRows, Null, TypeOK
<1>4. \A i \in Numbers : Reminders[i] \in Nat
  BY ReviewAssumption DEF Numbers
<1>5. ASSUME NEW l \in 1..k PROVE l \in r.reminded \cup S
  <2>1. Reminders[l] <= Reminders[k] /\ l \in Numbers
    BY <1>2, <1>3, RemindersRise DEF Numbers
  <2>2. l \in r.reminded \/ l \in Due(r, sweep.day)
    <3>1. sweep.day - r.notified >= Reminders[l]
      BY <1>2, <1>3, <1>4, <2>1
    <3>2. r.status \notin {"absent", "attested"}
      BY <1>1 DEF Due
    <3> QED
      BY <1>2, <2>1, <3>1, <3>2 DEF Due
  <2>3. l < k \/ l = k
    BY <1>2, <1>3 DEF Numbers
  <2> QED
    BY <1>1, <2>2, <2>3 DEF Prefixes
<1> QED
  BY <1>2, <1>3, <1>4, <1>5

\* The sweep sends requests and reminders and flushes that it did.
LEMMA SweepNotifyStep == ASSUME RvInv, SweepNotify PROVE RvInv'
<1> USE DEF RvInv
<1>0. sweep \in Sweeps /\ day \in Nat /\ sweep.step = "read"
  BY DEF TypeOK, Sweeps, SweepNotify
<1>1. PICK told \in SUBSET Untold(sweep.view), sent \in [Users -> SUBSET Numbers] :
         /\ \A u \in Users :
               sent[u] \in Prefixes(IF u \in Untold(sweep.view) THEN {}
                                    ELSE Due(sweep.view[u], sweep.day))
         /\ sweep' = [sweep EXCEPT !.step = "notify", !.stamp = day, !.told = told,
                                   !.reminded = sent]
         /\ mails' = [mails EXCEPT ![sweep.c] = [u \in Users |->
               [k \in 0..Len(Reminders) |->
                   mails[sweep.c][u][k] + (IF (k = 0 /\ u \in told) \/ k \in sent[u]
                                           THEN 1 ELSE 0)]]]
  BY Zenon DEF SweepNotify
<1>2. UNCHANGED <<overlap, day, cycle, reviewer, records, txn, aborts>>
  BY DEF SweepNotify, dbVars
<1>3. /\ sweep'.step = "notify" /\ sweep'.told = told /\ sweep'.reminded = sent
      /\ sweep'.list = sweep.list /\ sweep'.day = sweep.day /\ sweep'.c = sweep.c
      /\ sweep'.view = sweep.view /\ sweep' \in Sweeps
  <2>1. told \in SUBSET Users
    BY DEF Untold
  <2> QED
    BY <1>0, <1>1, <2>1 DEF Sweeps
<1>4. sweep.c \in Cycles /\ InReview(sweep.c)
  BY <1>0 DEF SweepInv, InReview
<1>5. \A c : InReview(c)' <=> InReview(c)
  BY <1>0, <1>3 DEF InReview
<1>6. /\ mails' \in [Cycles -> [Users -> [0..Len(Reminders) -> Nat]]]
      /\ \A b \in Cycles, u \in Users, k \in 0..Len(Reminders) :
            mails[b][u][k] > 0 => mails'[b][u][k] > 0
      /\ \A u \in told : mails'[sweep.c][u][0] > 0
      /\ \A u \in Users, k \in 0..Len(Reminders) : k \in sent[u] => mails'[sweep.c][u][k] > 0
  <2> DEFINE m == [u \in Users |-> [k \in 0..Len(Reminders) |->
                     mails[sweep.c][u][k] + (IF (k = 0 /\ u \in told) \/ k \in sent[u]
                                             THEN 1 ELSE 0)]]
  <2>1. mails' = [mails EXCEPT ![sweep.c] = m]
    BY <1>1
  <2>2. \A b \in Cycles, u \in Users, k \in 0..Len(Reminders) : mails[b][u][k] \in Nat
    BY DEF TypeOK
  <2>3. m \in [Users -> [0..Len(Reminders) -> Nat]]
    BY <1>4, <2>2
  <2>4. \A u \in Users, k \in 0..Len(Reminders) :
           /\ mails[sweep.c][u][k] > 0 => m[u][k] > 0
           /\ (k = 0 /\ u \in told) \/ k \in sent[u] => m[u][k] > 0
    BY <1>4, <2>2
  <2>5. told \subseteq Users /\ 0 \in 0..Len(Reminders)
    BY ReviewAssumption DEF Untold
  <2> HIDE DEF m
  <2>6. mails'[sweep.c] = m /\ \A b \in Cycles : b # sweep.c => mails'[b] = mails[b]
    BY <1>4, <2>1 DEF TypeOK
  <2>7. mails' \in [Cycles -> [Users -> [0..Len(Reminders) -> Nat]]]
    BY <2>1, <2>3 DEF TypeOK
  <2> QED
    BY <2>4, <2>5, <2>6, <2>7
<1>7. TypeOK'
  BY <1>2, <1>3, <1>6 DEF TypeOK, Sweeps
<1>8. 0 \in 0..Len(Reminders)
  BY ReviewAssumption
<1>9. TxnInv'
  <2>1. ASSUME NEW q \in Procs PROVE TxnOK(q)'
    <3>1. TxnOK(q)
      BY DEF TxnInv
    <3>2. txn[q].told \subseteq Users
      BY DEF TypeOK
    <3>3. txn[q].op = "open" /\ txn[q].step = "flushed" =>
             \A u \in txn[q].told : mails'[txn[q].c][u][0] > 0
      BY <1>6, <1>8, <3>1, <3>2 DEF TxnOK
    <3> QED
      BY <1>2, <3>1, <3>3 DEF TxnOK
  <2> QED
    BY <2>1 DEF TxnInv
<1>10. RowsInv'
  <2>1. \A b \in Cycles : Settled(b) => Settled(b)'
    BY <1>2, <1>3, <1>5 DEF Settled
  <2> QED
    BY <1>2, <1>6, <2>1, RowsKept
<1>11. BlankInv' /\ ClosedInv' /\ CyclesFollowAnswers'
  <2>1. BlankInv'
    BY <1>2 DEF BlankInv
  <2>2. ClosedInv'
    BY <1>2, <1>3, <1>5 DEF ClosedInv, UndeliverableIsHonest, RecordMatchesCycle, Settled
  <2>3. CyclesFollowAnswers'
    BY <1>2 DEF CyclesFollowAnswers, OneOpenCycle, OpenMeansUnanswered, Reviewers,
           FullAttestationCompletes, AttachedRecordAttests
  <2> QED
    BY <2>1, <2>2, <2>3
<1>12. SweepInv'
  <2>1. ASSUME NEW u \in Users, NEW k \in sent[u]
        PROVE  ReminderOK(u, k)'
    <3>1. sweep.view[u] \in ReviewerRows
      BY DEF TypeOK
    <3>2. u \notin Untold(sweep.view)
      BY <1>1 DEF Prefixes
    <3>3. sent[u] \in Prefixes(Due(sweep.view[u], sweep.day))
      BY <1>1, <3>2
    <3>4. sweep.day <= day
      BY DEF SweepInv
    <3>5. /\ k \in Numbers /\ sweep.view[u].status # "absent" /\ sweep.view[u].notified # Null
          /\ day - sweep.view[u].notified >= Reminders[k]
          /\ \A l \in 1..k : l \in sweep.view[u].reminded \cup sent[u]
      BY <3>1, <3>3, <3>4, SentInOrder
    <3>6. mails'[sweep.c][u][k] > 0
      BY <1>6, <3>5, ReviewAssumption DEF Numbers
    <3> QED
      BY <1>2, <1>3, <3>5, <3>6 DEF ReminderOK
  <2>2. sweep'.told \subseteq Untold(sweep.view)'
    BY <1>3 DEF Untold
  <2>3. \A c \in Cycles : InReview(c)' =>
          /\ cycle'[c].status # "none" /\ c \notin sweep'.list
          /\ \A u \in Users :
                /\ sweep'.view[u].notified = reviewer'[c][u].notified
                /\ sweep'.view[u].reminded = reviewer'[c][u].reminded
                /\ sweep'.view[u].status = "absent" <=> reviewer'[c][u].status = "absent"
    BY <1>2, <1>3, <1>5 DEF SweepInv
  <2>4. /\ sweep'.day <= day' /\ \A c \in sweep'.list : cycle'[c].status # "none"
    BY <1>2, <1>3 DEF SweepInv
  <2>5. \A u \in sweep'.told : mails'[sweep'.c][u][0] > 0
    BY <1>3, <1>6
  <2>6. \A u \in Users : \A k \in sweep'.reminded[u] : ReminderOK(u, k)'
    BY <1>3, <2>1
  <2> QED
    BY <1>3, <1>4, <2>2, <2>3, <2>4, <2>5, <2>6 DEF SweepInv
<1>13. AloneInv'
  <2>1. sweep # Resting
    BY <1>0 DEF Resting
  <2>2. \A p \in Procs : FreshTxn(p)' <=> FreshTxn(p)
    BY <1>2 DEF FreshTxn, NoOpenCycle, AllAttested, Reviewers
  <2> QED
    BY <1>2, <1>3, <1>5, <2>1, <2>2 DEF AloneInv
<1> QED
  BY <1>7, <1>9, <1>10, <1>11, <1>12, <1>13

\* Without overlap a request that ends leaves nothing in flight.
LEMMA AloneDone ==
    ASSUME RvInv, NEW p \in Procs, txn[p] # Idle, txn' = [txn EXCEPT ![p] = Idle],
           UNCHANGED <<overlap, sweep>>
    PROVE  AloneInv'
<1> SUFFICES ASSUME ~ overlap PROVE AloneInv'
  BY DEF AloneInv
<1>1. sweep' = Resting /\ \A q \in Procs : txn'[q] = Idle
  BY DEF RvInv, AloneInv, TypeOK
<1>2. sweep'.list = {} /\ sweep'.step = "rest" /\ Idle.op = "idle"
  BY <1>1 DEF Resting, Idle
<1> QED
  BY <1>1, <1>2 DEF AloneInv, FreshTxn, InReview

\* The cycle that was flushed, and its reviewers, are there for all to see.
LEMMA OpenCommitStep == ASSUME RvInv, NEW p \in Procs, OpenCommit(p) PROVE RvInv'
<1> USE DEF RvInv
<1>a. PICK t : t = txn[p]
  OBVIOUS
<1>b. PICK c : c = t.c
  OBVIOUS
<1> DEFINE rows == [u \in Users |-> CASE u \in t.told -> [Requested EXCEPT !.notified = t.stamp]
                                      [] u \in t.u \ t.told -> Requested
                                      [] OTHER -> Absent]
           row == [status |-> "open", opened |-> t.stamp]
<1>1. /\ t.op = "open" /\ t.step = "flushed"
      /\ cycle' = [cycle EXCEPT ![c] = row] /\ reviewer' = [reviewer EXCEPT ![c] = rows]
      /\ txn' = [txn EXCEPT ![p] = Idle]
      /\ UNCHANGED <<overlap, day, records, mails, sweep, aborts>>
  BY <1>a, <1>b DEF OpenCommit
<1>2. /\ t \in Sessions /\ Idle \in Sessions
  BY <1>a DEF TypeOK, Sessions, Idle
<1>3. /\ c \in Cycles /\ cycle[c].status = "none" /\ \A u \in t.told : mails[c][u][0] > 0
      /\ \A q \in Procs : txn[q].op = "open" /\ txn[q].step = "flushed" /\ txn[q].c = c
                              => q = p
  BY <1>a, <1>b, <1>1 DEF TxnInv, TxnOK
<1>4. /\ \A u \in Users :
            /\ rows[u] \in ReviewerRows /\ rows[u].reminded = {}
            /\ rows[u].status \in {"absent", "requested"}
            /\ rows[u].status = "absent" => rows[u] = Absent
            /\ rows[u].notified # Null => u \in t.told
      /\ rows \in [Users -> ReviewerRows]
      /\ row \in CycleRows /\ row.status = "open"
  <2>1. ASSUME NEW u \in Users
        PROVE  /\ rows[u] \in ReviewerRows /\ rows[u].reminded = {}
               /\ rows[u].status \in {"absent", "requested"}
               /\ rows[u].status = "absent" => rows[u] = Absent
               /\ rows[u].notified # Null => u \in t.told
    <3>1. t.stamp \in Nat
      BY <1>2 DEF Sessions
    <3>2. CASE u \in t.told
      <4>1. rows[u] = [Requested EXCEPT !.notified = t.stamp]
        BY <3>2
      <4> HIDE DEF rows
      <4> QED
        BY <3>1, <3>2, <4>1 DEF Requested, Absent, ReviewerRows, ReviewerStatuses, Pending
    <3>3. CASE u \notin t.told
      <4>1. rows[u] = Requested \/ rows[u] = Absent
        BY <3>3
      <4> HIDE DEF rows
      <4> QED
        BY <4>1 DEF Requested, Absent, ReviewerRows, ReviewerStatuses, Pending
    <3> QED
      BY <3>2, <3>3
  <2>2. t.stamp \in Nat
    BY <1>2 DEF Sessions
  <2> QED
    BY <2>1, <2>2 DEF CycleRows
<1> HIDE DEF rows, row
<1>5. /\ cycle'[c] = row /\ reviewer'[c] = rows
      /\ \A b \in Cycles : b # c => cycle'[b] = cycle[b] /\ reviewer'[b] = reviewer[b]
      /\ \A q \in Procs : q # p => txn'[q] = txn[q]
      /\ txn'[p] = Idle
  BY <1>1, <1>3 DEF TypeOK
<1>6. TypeOK'
  BY <1>1, <1>2, <1>4 DEF TypeOK, Sessions
<1>7. \A b : InReview(b)' <=> InReview(b)
  BY <1>1 DEF InReview
<1>8. TxnInv'
  <2>1. ASSUME NEW q \in Procs, q # p PROVE TxnOK(q)'
    <3>1. TxnOK(q)
      BY DEF TxnInv
    <3>2. txn[q].op \in {"view", "attest"} \/ (txn[q].op = "open" /\ txn[q].step = "flushed")
             => txn[q].c \in Cycles /\ txn[q].c # c
      BY <1>3, <2>1, <3>1 DEF TxnOK
    <3>3. Idle.op = "idle"
      BY DEF Idle
    <3> QED
      BY <1>1, <1>5, <2>1, <3>1, <3>2, <3>3 DEF TxnOK
  <2>2. TxnOK(p)'
    BY <1>5 DEF TxnOK, Idle
  <2> QED
    BY <2>1, <2>2 DEF TxnInv
<1>9. BlankInv'
  BY <1>1, <1>4, <1>5 DEF BlankInv
<1>10. RowsInv'
  <2>1. ASSUME NEW b \in Cycles, NEW u \in Users, b # c PROVE RowOK(b, u)'
    <3>1. Settled(b)' <=> Settled(b)
      BY <1>1, <1>5, <1>7, <2>1 DEF Settled
    <3>2. RowOK(b, u)
      BY DEF RowsInv
    <3> QED
      BY <1>1, <1>5, <2>1, <3>1, <3>2 DEF RowOK, TimelyRow
  <2>2. ASSUME NEW u \in Users PROVE RowOK(c, u)'
    <3>1. reviewer'[c][u] = rows[u] /\ mails' = mails
      BY <1>1, <1>5
    <3> QED
      BY <1>3, <1>4, <3>1 DEF RowOK, TimelyRow
  <2> QED
    BY <2>1, <2>2 DEF RowsInv
<1>11. ClosedInv'
  <2>1. records[c] = <<>>
    BY <1>3 DEF BlankInv
  <2>2. "open" \notin ClosedStatuses
    BY DEF ClosedStatuses
  <2> QED
    BY <1>1, <1>3, <1>4, <1>5, <1>7, <2>1, <2>2
    DEF ClosedInv, UndeliverableIsHonest, RecordMatchesCycle, Settled
<1>12. SweepInv'
  <2>1. c \notin sweep.list /\ ~ InReview(c)
    BY <1>3 DEF SweepInv
  <2>2. \A b \in Cycles : InReview(b)' => reviewer'[b] = reviewer[b] /\ cycle'[b] = cycle[b]
    BY <1>5, <1>7, <2>1
  <2>3. \A u \in Users : \A k : ReminderOK(u, k)' <=> ReminderOK(u, k)
    BY <1>1 DEF ReminderOK
  <2>4. sweep.list \subseteq Cycles
    BY DEF TypeOK
  <2> QED
    BY <1>1, <1>5, <1>7, <2>1, <2>2, <2>3, <2>4 DEF SweepInv, Untold
<1>13. AloneInv'
  <2>1. txn[p] # Idle
    BY <1>a, <1>1 DEF Idle
  <2> QED
    BY <1>1, <2>1, AloneDone
<1>14. CyclesFollowAnswers'
  <2> SUFFICES ASSUME ~ overlap PROVE CyclesFollowAnswers'
    BY <1>1 DEF CyclesFollowAnswers, OneOpenCycle, OpenMeansUnanswered,
                FullAttestationCompletes, AttachedRecordAttests
  <2>1. \A b \in Cycles : cycle[b].status # "open"
    BY <1>a, <1>1 DEF AloneInv, FreshTxn, NoOpenCycle
  <2>2. OneOpenCycle'
    BY <1>5, <2>1 DEF OneOpenCycle
  <2>3. OpenMeansUnanswered'
    <3>1. ASSUME NEW b \in Cycles, cycle'[b].status = "open" PROVE b = c
      BY <1>5, <2>1, <3>1
    <3>2. \A u \in Users : reviewer'[c][u].status # "attested"
      BY <1>4, <1>5
    <3> QED
      BY <3>1, <3>2 DEF OpenMeansUnanswered, Reviewers
  <2>4. FullAttestationCompletes'
    <3>1. \A b \in Cycles : b # c => Reviewers(b)' = Reviewers(b)
      BY <1>5 DEF Reviewers
    <3>2. cycle'[c].status \notin ClosedStatuses
      BY <1>4, <1>5 DEF ClosedStatuses
    <3> QED
      BY <1>1, <1>5, <3>1, <3>2 DEF CyclesFollowAnswers, FullAttestationCompletes
  <2>5. AttachedRecordAttests'
    <3>1. records[c] = <<>>
      BY <1>3 DEF BlankInv
    <3> QED
      BY <1>1, <1>5, <3>1 DEF CyclesFollowAnswers, AttachedRecordAttests
  <2> QED
    BY <2>2, <2>3, <2>4, <2>5 DEF CyclesFollowAnswers
<1> QED
  BY <1>6, <1>8, <1>9, <1>10, <1>11, <1>12, <1>13, <1>14

\* A reviewer has viewed.
LEMMA ViewCommitStep == ASSUME RvInv, NEW p \in Procs, ViewCommit(p) PROVE RvInv'
<1> USE DEF RvInv
<1>a. PICK c : c = txn[p].c
  OBVIOUS
<1>b. PICK u \in txn[p].u : reviewer' = [reviewer EXCEPT ![c][u].status = "viewed"]
  BY <1>a DEF ViewCommit
<1>1. /\ txn[p].op = "view" /\ txn' = [txn EXCEPT ![p] = Idle]
      /\ UNCHANGED <<overlap, day, cycle, records, mails, sweep, aborts>>
  BY DEF ViewCommit
<1>2. /\ c \in Cycles /\ u \in Users /\ cycle[c].status # "none" /\ txn[p].u = {u}
      /\ reviewer[c][u].status # "absent"
  BY <1>a, <1>b, <1>1 DEF TxnInv, TxnOK
<1>3. reviewer' = [reviewer EXCEPT ![c] = [reviewer[c] EXCEPT ![u] =
                        [reviewer[c][u] EXCEPT !.status = "viewed"]]]
  BY <1>b
<1>4. reviewer[c] \in [Users -> ReviewerRows] /\ reviewer[c][u] \in ReviewerRows
  BY <1>2 DEF TypeOK
<1> DEFINE row == [reviewer[c][u] EXCEPT !.status = "viewed"]
<1>5. /\ row.status = "viewed" /\ row.notified = reviewer[c][u].notified
      /\ row.reminded = reviewer[c][u].reminded /\ row \in ReviewerRows
  BY <1>4 DEF ReviewerRows, ReviewerStatuses, Pending
<1>6. /\ reviewer' \in [Cycles -> [Users -> ReviewerRows]] /\ reviewer'[c][u] = row
      /\ \A b \in Cycles, v \in Users : b # c \/ v # u => reviewer'[b][v] = reviewer[b][v]
      /\ \A b \in Cycles : b # c => reviewer'[b] = reviewer[b]
  <2> HIDE DEF row
  <2>1. reviewer'[c] = [reviewer[c] EXCEPT ![u] = row]
    BY <1>2, <1>3 DEF TypeOK, row
  <2>2. reviewer'[c][u] = row /\ \A v \in Users : v # u => reviewer'[c][v] = reviewer[c][v]
    BY <1>2, <1>4, <2>1
  <2>3. \A b \in Cycles : b # c => reviewer'[b] = reviewer[b]
    BY <1>2, <1>3 DEF TypeOK
  <2>4. reviewer'[c] \in [Users -> ReviewerRows]
    BY <1>2, <1>4, <1>5, <2>1
  <2>5. reviewer' \in [Cycles -> [Users -> ReviewerRows]]
    BY <1>2, <1>3, <2>1, <2>4 DEF TypeOK
  <2> QED
    BY <2>2, <2>3, <2>5
<1> HIDE DEF row
<1>7. /\ txn'[p] = Idle /\ \A q \in Procs : q # p => txn'[q] = txn[q]
      /\ Idle \in Sessions /\ Idle.op = "idle"
  BY <1>1 DEF TypeOK, Idle, Sessions
<1>8. /\ \A b \in Cycles, v \in Users :
            /\ reviewer'[b][v].status = "absent" <=> reviewer[b][v].status = "absent"
            /\ reviewer'[b][v].notified = reviewer[b][v].notified
            /\ reviewer'[b][v].reminded = reviewer[b][v].reminded
            /\ reviewer'[b][v] = reviewer[b][v] \/ reviewer'[b][v].status = "viewed"
      /\ \A b : (InReview(b)' <=> InReview(b)) /\ (Settled(b)' <=> Settled(b))
  BY <1>1, <1>2, <1>5, <1>6 DEF InReview, Settled
<1>9. TypeOK'
  BY <1>1, <1>6, <1>7 DEF TypeOK, Sessions
<1>10. TxnInv'
  <2>1. ASSUME NEW q \in Procs, q # p PROVE TxnOK(q)'
    <3>1. TxnOK(q)
      BY DEF TxnInv
    <3> QED
      BY <1>1, <1>7, <1>8, <2>1, <3>1 DEF TxnOK
  <2>2. TxnOK(p)'
    BY <1>7 DEF TxnOK
  <2> QED
    BY <2>1, <2>2 DEF TxnInv
<1>11. BlankInv'
  BY <1>1, <1>2, <1>6 DEF BlankInv
<1>12. RowsInv'
  <2>1. ASSUME NEW b \in Cycles, NEW v \in Users PROVE RowOK(b, v)'
    <3>1. RowOK(b, v)
      BY DEF RowsInv
    <3> QED
      BY <1>1, <1>8, <3>1 DEF RowOK, TimelyRow
  <2> QED
    BY <2>1 DEF RowsInv
<1>13. ClosedInv'
  BY <1>1, <1>8 DEF ClosedInv, UndeliverableIsHonest, RecordMatchesCycle
<1>14. SweepInv'
  <2>1. \A v \in Users : \A k : ReminderOK(v, k)' <=> ReminderOK(v, k)
    BY <1>1 DEF ReminderOK
  <2> QED
    BY <1>1, <1>8, <2>1 DEF SweepInv, Untold
<1>15. AloneInv'
  <2>1. txn[p] # Idle
    BY <1>1, <1>7
  <2> QED
    BY <1>1, <2>1, AloneDone
<1>16. CyclesFollowAnswers'
  <2> SUFFICES ASSUME ~ overlap PROVE CyclesFollowAnswers'
    BY <1>1 DEF CyclesFollowAnswers, OneOpenCycle, OpenMeansUnanswered,
                FullAttestationCompletes, AttachedRecordAttests
  <2>1. reviewer[c][u].status = "requested"
    BY <1>a, <1>1 DEF AloneInv, FreshTxn
  <2>2. \A b \in Cycles, v \in Users :
           reviewer'[b][v].status = "attested" <=> reviewer[b][v].status = "attested"
    BY <1>5, <1>6, <2>1
  <2>3. \A b \in Cycles : Reviewers(b)' = Reviewers(b) /\ Reviewers(b) \subseteq Users
    BY <1>8 DEF Reviewers
  <2> QED
    BY <1>1, <2>2, <2>3 DEF CyclesFollowAnswers, OneOpenCycle, OpenMeansUnanswered,
                FullAttestationCompletes, AttachedRecordAttests
<1> QED
  BY <1>9, <1>10, <1>11, <1>12, <1>13, <1>14, <1>15, <1>16

\* A cycle's record: the newest says what it was closed as.
LEMMA RecordAppended ==
    ASSUME TypeOK, NEW c \in Cycles, NEW status \in ClosedStatuses,
           records' = [records EXCEPT ![c] = Append(@, Record(status))]
    PROVE  /\ records' \in [Cycles -> Seq(Records)]
           /\ \A b \in Cycles : b # c => records'[b] = records[b]
           /\ records'[c] # <<>> /\ records'[c][Len(records'[c])].outcome = status
           /\ records[c] = <<>> => /\ Len(records'[c]) = 1
                                   /\ records'[c][1].attached => status = ATTESTS
<1> DEFINE r == Record(status)
<1>1. /\ r \in Records /\ r.outcome = status
      /\ r.attached => status = ATTESTS
  BY DEF Record, Records
<1>0. records' = [records EXCEPT ![c] = Append(records[c], r)]
  OBVIOUS
<1> HIDE DEF r
<1>2. records[c] \in Seq(Records)
  BY DEF TypeOK
<1>3. records'[c] = Append(records[c], r) /\ \A b \in Cycles : b # c => records'[b] = records[b]
  BY <1>0 DEF TypeOK
<1>4. /\ Append(records[c], r) \in Seq(Records) /\ Append(records[c], r) # <<>>
      /\ Len(Append(records[c], r)) = Len(records[c]) + 1
      /\ Append(records[c], r)[Len(records[c]) + 1] = r
  BY <1>1, <1>2, AppendProperties
<1>5. records' \in [Cycles -> Seq(Records)]
  BY <1>0, <1>4 DEF TypeOK
<1>6. records[c] = <<>> => Len(records[c]) = 0
  OBVIOUS
<1> QED
  BY <1>1, <1>2, <1>3, <1>4, <1>5, <1>6

\* A reviewer has attested, and if every other has the cycle is completed.
LEMMA AttestCommitStep == ASSUME RvInv, NEW p \in Procs, AttestCommit(p) PROVE RvInv'
<1> USE DEF RvInv
<1>a. PICK t : t = txn[p]
  OBVIOUS
<1>b. PICK c : c = t.c
  OBVIOUS
<1>1. /\ t.op = "attest" /\ t.step = "flushed" /\ txn' = [txn EXCEPT ![p] = Idle]
      /\ UNCHANGED <<overlap, day, mails, sweep, aborts>>
      /\ reviewer' = [reviewer EXCEPT ![c] = [v \in Users |->
                IF v \in t.u THEN [reviewer[c][v] EXCEPT !.status = "attested"]
                             ELSE reviewer[c][v]]]
      /\ IF t.closes
         THEN /\ cycle' = [cycle EXCEPT ![c].status = ATTESTS]
              /\ records' = [records EXCEPT ![c] = Append(@, Record(ATTESTS))]
         ELSE UNCHANGED <<cycle, records>>
  BY <1>a, <1>b DEF AttestCommit
<1>2. PICK u \in Users : t.u = {u} /\ reviewer[c][u].status # "absent"
  BY <1>a, <1>b, <1>1 DEF TxnInv, TxnOK
<1>3. c \in Cycles /\ cycle[c].status # "none"
  BY <1>a, <1>b, <1>1 DEF TxnInv, TxnOK
<1>4. reviewer[c] \in [Users -> ReviewerRows] /\ reviewer[c][u] \in ReviewerRows
  BY <1>3 DEF TypeOK
<1> DEFINE row == [reviewer[c][u] EXCEPT !.status = "attested"]
<1>5. /\ row.status = "attested" /\ row.notified = reviewer[c][u].notified
      /\ row.reminded = reviewer[c][u].reminded /\ row \in ReviewerRows
  BY <1>4 DEF ReviewerRows, ReviewerStatuses, Pending
<1>6. /\ reviewer' \in [Cycles -> [Users -> ReviewerRows]] /\ reviewer'[c][u] = row
      /\ \A b \in Cycles, v \in Users : b # c \/ v # u => reviewer'[b][v] = reviewer[b][v]
      /\ \A b \in Cycles : b # c => reviewer'[b] = reviewer[b]
  <2> DEFINE rows == [v \in Users |-> IF v \in t.u
                                      THEN [reviewer[c][v] EXCEPT !.status = "attested"]
                                      ELSE reviewer[c][v]]
  <2>1. rows[u] = row /\ \A v \in Users : v # u => rows[v] = reviewer[c][v]
    BY <1>2
  <2>2. rows \in [Users -> ReviewerRows]
    <3>1. \A v \in Users : rows[v] \in ReviewerRows
      <4> HIDE DEF rows, row
      <4> QED
        BY <1>4, <1>5, <2>1
    <3> QED
      BY <3>1
  <2>3. reviewer' = [reviewer EXCEPT ![c] = rows]
    BY <1>1
  <2> HIDE DEF rows, row
  <2>4. reviewer'[c] = rows /\ \A b \in Cycles : b # c => reviewer'[b] = reviewer[b]
    BY <1>3, <2>3 DEF TypeOK
  <2>5. reviewer' \in [Cycles -> [Users -> ReviewerRows]]
    BY <2>2, <2>3 DEF TypeOK
  <2> QED
    BY <2>1, <2>4, <2>5
<1> HIDE DEF row
<1>7. /\ txn'[p] = Idle /\ \A q \in Procs : q # p => txn'[q] = txn[q]
      /\ Idle \in Sessions /\ Idle.op = "idle"
  BY <1>1 DEF TypeOK, Idle, Sessions
<1>8. /\ cycle' \in [Cycles -> CycleRows] /\ records' \in [Cycles -> Seq(Records)]
      /\ \A b \in Cycles : b # c => cycle'[b] = cycle[b] /\ records'[b] = records[b]
      /\ ~ t.closes => cycle' = cycle /\ records' = records
      /\ t.closes => /\ cycle'[c].status = ATTESTS
                     /\ records'[c] # <<>> /\ records'[c][Len(records'[c])].outcome = ATTESTS
                     /\ records[c] = <<>> => Len(records'[c]) = 1
  <2>1. CASE ~ t.closes
    BY <1>1, <2>1 DEF TypeOK
  <2>2. CASE t.closes
    <3>1. /\ cycle' = [cycle EXCEPT ![c].status = ATTESTS]
          /\ records' = [records EXCEPT ![c] = Append(@, Record(ATTESTS))]
      BY <1>1, <2>2
    <3>2. ATTESTS \in ClosedStatuses
      BY DEF ATTESTS, ClosedStatuses
    <3>3. /\ records' \in [Cycles -> Seq(Records)]
          /\ \A b \in Cycles : b # c => records'[b] = records[b]
          /\ records'[c] # <<>> /\ records'[c][Len(records'[c])].outcome = ATTESTS
          /\ records[c] = <<>> => Len(records'[c]) = 1
      BY <1>3, <3>1, <3>2, RecordAppended
    <3>4. cycle[c] \in CycleRows
      BY <1>3 DEF TypeOK
    <3>5. [cycle[c] EXCEPT !.status = ATTESTS] \in CycleRows
      BY <3>2, <3>4 DEF CycleRows
    <3>6. cycle' = [cycle EXCEPT ![c] = [cycle[c] EXCEPT !.status = ATTESTS]]
      BY <3>1
    <3>7. cycle' \in [Cycles -> CycleRows] /\ cycle'[c] = [cycle[c] EXCEPT !.status = ATTESTS]
          /\ \A b \in Cycles : b # c => cycle'[b] = cycle[b]
      BY <1>3, <3>5, <3>6 DEF TypeOK
    <3>8. cycle'[c].status = ATTESTS
      BY <3>4, <3>7 DEF CycleRows
    <3> QED
      BY <2>2, <3>3, <3>7, <3>8
  <2> QED
    BY <2>1, <2>2
<1>9. /\ \A b \in Cycles, v \in Users :
            /\ reviewer'[b][v].status = "absent" <=> reviewer[b][v].status = "absent"
            /\ reviewer'[b][v].notified = reviewer[b][v].notified
            /\ reviewer'[b][v].reminded = reviewer[b][v].reminded
            /\ reviewer'[b][v] = reviewer[b][v] \/ reviewer'[b][v].status = "attested"
      /\ \A b : InReview(b)' <=> InReview(b)
  BY <1>1, <1>2, <1>5, <1>6 DEF InReview
<1>10. /\ \A b \in Cycles : cycle'[b].status = cycle[b].status \/ cycle'[b].status = ATTESTS
       /\ ATTESTS \in ClosedStatuses /\ ATTESTS # "open" /\ ATTESTS # "none"
       /\ ATTESTS \notin {"closed_unattested", "closed_undeliverable"}
       /\ \A b \in Cycles : cycle'[b].status = "none" <=> cycle[b].status = "none"
  BY <1>3, <1>8 DEF ATTESTS, ClosedStatuses
<1>11. \A b \in Cycles : Settled(b) => Settled(b)'
  BY <1>1, <1>9, <1>10 DEF Settled
<1>12. TypeOK'
  BY <1>1, <1>6, <1>7, <1>8 DEF TypeOK, Sessions
<1>13. TxnInv'
  <2>1. ASSUME NEW q \in Procs, q # p PROVE TxnOK(q)'
    <3>1. TxnOK(q)
      BY DEF TxnInv
    <3> QED
      BY <1>1, <1>7, <1>9, <1>10, <2>1, <3>1 DEF TxnOK
  <2>2. TxnOK(p)'
    BY <1>7 DEF TxnOK
  <2> QED
    BY <2>1, <2>2 DEF TxnInv
<1>14. BlankInv'
  BY <1>3, <1>6, <1>8, <1>10 DEF BlankInv
<1>15. RowsInv'
  <2>1. ASSUME NEW b \in Cycles, NEW v \in Users PROVE RowOK(b, v)'
    <3>1. RowOK(b, v)
      BY DEF RowsInv
    <3> QED
      BY <1>1, <1>9, <1>11, <3>1 DEF RowOK, TimelyRow
  <2> QED
    BY <2>1 DEF RowsInv
<1>16. ClosedInv'
  <2>1. UndeliverableIsHonest'
    BY <1>9, <1>10 DEF ClosedInv, UndeliverableIsHonest
  <2>2. RecordMatchesCycle'
    BY <1>3, <1>8, <1>10 DEF ClosedInv, RecordMatchesCycle
  <2> QED
    BY <1>10, <1>11, <2>1, <2>2 DEF ClosedInv
<1>17. SweepInv'
  <2>1. \A v \in Users : \A k : ReminderOK(v, k)' <=> ReminderOK(v, k)
    BY <1>1 DEF ReminderOK
  <2>2. sweep.list \subseteq Cycles
    BY DEF TypeOK
  <2> QED
    BY <1>1, <1>9, <1>10, <2>1, <2>2 DEF SweepInv, Untold
<1>18. AloneInv'
  <2>1. txn[p] # Idle
    BY <1>a, <1>1, <1>7
  <2> QED
    BY <1>1, <2>1, AloneDone
<1>19. CyclesFollowAnswers'
  <2> SUFFICES ASSUME ~ overlap PROVE CyclesFollowAnswers'
    BY <1>1 DEF CyclesFollowAnswers, OneOpenCycle, OpenMeansUnanswered,
                FullAttestationCompletes, AttachedRecordAttests
  <2>1. cycle[c].status = "open" /\ (t.closes <=> AllAttested(c, u))
    BY <1>a, <1>b, <1>1, <1>2 DEF AloneInv, FreshTxn
  <2>2. records[c] = <<>>
    BY <1>3, <2>1 DEF ClosedInv, RecordMatchesCycle, ClosedStatuses
  <2>3. \A b \in Cycles : Reviewers(b)' = Reviewers(b) /\ Reviewers(b) \subseteq Users
    BY <1>9 DEF Reviewers
  <2>4. u \in Reviewers(c)
    BY <1>2 DEF Reviewers
  <2>5. OneOpenCycle'
    BY <1>10 DEF CyclesFollowAnswers, OneOpenCycle
  <2>6. (\A v \in Reviewers(c) : reviewer'[c][v].status = "attested") <=> t.closes
    BY <1>3, <1>5, <1>6, <2>1, <2>3 DEF AllAttested
  <2>7. ASSUME NEW b \in Cycles
        PROVE  /\ cycle'[b].status = "open" /\ Reviewers(b) # {} =>
                     \E v \in Reviewers(b) : reviewer'[b][v].status # "attested"
               /\ cycle'[b].status \in ClosedStatuses /\ Reviewers(b) # {} =>
                     (cycle'[b].status = ATTESTS <=>
                        \A v \in Reviewers(b) : reviewer'[b][v].status = "attested")
    <3>1. CASE b # c
      <4>1. cycle'[b] = cycle[b] /\ reviewer'[b] = reviewer[b]
        BY <1>6, <1>8, <3>1
      <4> QED
        BY <4>1 DEF CyclesFollowAnswers, OpenMeansUnanswered, FullAttestationCompletes
    <3>2. CASE b = c
      <4>1. CASE t.closes
        <5>1. cycle'[c].status = ATTESTS
          BY <1>8, <4>1
        <5> QED
          BY <1>10, <2>6, <3>2, <4>1, <5>1
      <4>2. CASE ~ t.closes
        <5>1. cycle'[c].status = "open"
          BY <1>8, <2>1, <4>2
        <5> QED
          BY <2>6, <3>2, <4>2, <5>1 DEF ClosedStatuses
      <4> QED
        BY <4>1, <4>2
    <3> QED
      BY <3>1, <3>2
  <2>8. OpenMeansUnanswered' /\ FullAttestationCompletes'
    BY <2>3, <2>7 DEF OpenMeansUnanswered, FullAttestationCompletes
  <2>9. AttachedRecordAttests'
    <3>1. CASE t.closes
      BY <1>8, <2>2, <3>1 DEF CyclesFollowAnswers, AttachedRecordAttests
    <3>2. CASE ~ t.closes
      BY <1>8, <3>2 DEF CyclesFollowAnswers, AttachedRecordAttests
    <3> QED
      BY <3>1, <3>2
  <2> QED
    BY <2>5, <2>8, <2>9 DEF CyclesFollowAnswers
<1> QED
  BY <1>12, <1>13, <1>14, <1>15, <1>16, <1>17, <1>18, <1>19

\* The sweep commits a close: who had not answered is stamped with what was
\* done to reach them.
LEMMA CloseCommitStep == ASSUME RvInv, SweepCommit, sweep.step = "close" PROVE RvInv'
<1> USE DEF RvInv
<1>a. PICK c : c = sweep.c
  OBVIOUS
<1>b. PICK view : view = sweep.view
  OBVIOUS
<1>c. PICK status : status = DeadlineStatus(view)
  OBVIOUS
<1> DEFINE rows == [u \in Users |-> IF u \in Unanswered(view)
                                    THEN [reviewer[c][u] EXCEPT !.status = Stamped(view[u])]
                                    ELSE reviewer[c][u]]
<1>1. /\ cycle' = [cycle EXCEPT ![c].status = status]
      /\ reviewer' = [reviewer EXCEPT ![c] = rows]
      /\ records' = [records EXCEPT ![c] = Append(@, Record(status))]
      /\ sweep' = NextCycle
      /\ UNCHANGED <<overlap, day, mails, txn, aborts>>
  BY <1>a, <1>b, <1>c DEF SweepCommit
<1>2. /\ c \in Cycles /\ InReview(c) /\ cycle[c].status # "none" /\ c \notin sweep.list
      /\ \A u \in Users :
            /\ view[u].notified = reviewer[c][u].notified
            /\ view[u].status = "absent" <=> reviewer[c][u].status = "absent"
  BY <1>a, <1>b DEF SweepInv, InReview
<1>3. /\ sweep' \in Sweeps /\ sweep'.step = "loop" /\ sweep'.list = sweep.list
      /\ sweep'.day = sweep.day
  <2>1. sweep \in Sweeps
    BY DEF TypeOK, Sweeps
  <2> QED
    BY <1>1, <2>1 DEF NextCycle, Resting, Sweeps, Absent, ReviewerRows, ReviewerStatuses
<1>4. /\ \A b : ~ InReview(b)'
      /\ sweep # Resting /\ sweep' # Resting
  BY <1>3 DEF InReview, Resting
<1>5. ASSUME NEW u \in Users
      PROVE  /\ rows[u] \in ReviewerRows
             /\ rows[u].notified = reviewer[c][u].notified
             /\ rows[u].reminded = reviewer[c][u].reminded
             /\ rows[u].status = "absent" <=> reviewer[c][u].status = "absent"
             /\ rows[u] # reviewer[c][u] =>
                   rows[u].status = IF reviewer[c][u].notified # Null
                                    THEN "no_response" ELSE "not_notified"
             /\ u \in Unanswered(view) => rows[u].status # "attested"
             /\ u \notin Unanswered(view) => rows[u] = reviewer[c][u]
  <2>1. reviewer[c][u] \in ReviewerRows
    BY <1>2 DEF TypeOK
  <2>2. CASE u \in Unanswered(view)
    <3>1. Stamped(view[u]) = IF reviewer[c][u].notified # Null
                             THEN "no_response" ELSE "not_notified"
      BY <1>2, <2>2 DEF Stamped, Unanswered
    <3>2. rows[u] = [reviewer[c][u] EXCEPT !.status = Stamped(view[u])]
      BY <2>2
    <3>3. view[u].status # "absent"
      BY <2>2 DEF Unanswered, Pending
    <3> HIDE DEF rows
    <3> QED
      BY <1>2, <2>1, <2>2, <3>1, <3>2, <3>3 DEF ReviewerRows, ReviewerStatuses
  <2>3. CASE u \notin Unanswered(view)
    BY <2>1, <2>3
  <2> QED
    BY <2>2, <2>3
<1>6. rows \in [Users -> ReviewerRows]
  BY <1>5
<1> HIDE DEF rows
<1>7. /\ status \in ClosedStatuses \ {ATTESTS} /\ status # "none" /\ status # "open"
      /\ status = "closed_undeliverable" => \A u \in Users : reviewer[c][u].notified = Null
      /\ status = "closed_unattested" => \E u \in Users : reviewer[c][u].notified # Null
  BY <1>2, <1>c DEF DeadlineStatus, ClosedStatuses, ATTESTS
<1>8. /\ cycle' \in [Cycles -> CycleRows] /\ cycle'[c].status = status
      /\ \A b \in Cycles : b # c => cycle'[b] = cycle[b]
  <2>1. cycle' = [cycle EXCEPT ![c] = [cycle[c] EXCEPT !.status = status]]
    BY <1>1
  <2>2. cycle[c] \in CycleRows
    BY <1>2 DEF TypeOK
  <2>3. [cycle[c] EXCEPT !.status = status] \in CycleRows
    BY <1>7, <2>2 DEF CycleRows
  <2>4. cycle'[c] = [cycle[c] EXCEPT !.status = status]
    BY <1>2, <2>1 DEF TypeOK
  <2>5. cycle'[c].status = status
    BY <2>2, <2>4 DEF CycleRows
  <2>6. cycle' \in [Cycles -> CycleRows] /\ \A b \in Cycles : b # c => cycle'[b] = cycle[b]
    BY <2>1, <2>3 DEF TypeOK
  <2> QED
    BY <2>5, <2>6
<1>9. /\ reviewer' \in [Cycles -> [Users -> ReviewerRows]] /\ reviewer'[c] = rows
      /\ \A b \in Cycles : b # c => reviewer'[b] = reviewer[b]
  BY <1>1, <1>2, <1>6 DEF TypeOK
<1>10. /\ records' \in [Cycles -> Seq(Records)]
       /\ \A b \in Cycles : b # c => records'[b] = records[b]
       /\ records'[c] # <<>> /\ records'[c][Len(records'[c])].outcome = status
       /\ records[c] = <<>> => /\ Len(records'[c]) = 1
                               /\ ~ records'[c][1].attached
  BY <1>1, <1>2, <1>7, RecordAppended
<1>11. \A b \in Cycles, u \in Users :
          /\ reviewer'[b][u].notified = reviewer[b][u].notified
          /\ reviewer'[b][u].reminded = reviewer[b][u].reminded
          /\ reviewer'[b][u].status = "absent" <=> reviewer[b][u].status = "absent"
  BY <1>5, <1>9
<1>12. \A b \in Cycles : Settled(b) \/ b = c => Settled(b)'
  BY <1>2, <1>3, <1>4, <1>7, <1>8 DEF Settled
<1>13. TypeOK'
  BY <1>1, <1>3, <1>8, <1>9, <1>10 DEF TypeOK, Sweeps
<1>14. \A b \in Cycles : cycle'[b].status = "none" <=> cycle[b].status = "none"
  BY <1>2, <1>7, <1>8
<1>15. TxnInv'
  <2>1. ASSUME NEW q \in Procs PROVE TxnOK(q)'
    <3>1. TxnOK(q)
      BY DEF TxnInv
    <3> QED
      BY <1>1, <1>11, <1>14, <3>1 DEF TxnOK
  <2> QED
    BY <2>1 DEF TxnInv
<1>16. BlankInv'
  <2>1. ASSUME NEW b \in Cycles, cycle'[b].status = "none"
        PROVE  cycle[b].status = "none" /\ reviewer'[b] = reviewer[b] /\ records'[b] = records[b]
    BY <1>2, <1>9, <1>10, <1>14, <2>1
  <2> QED
    BY <2>1 DEF BlankInv
<1>17. RowsInv'
  <2>1. ASSUME NEW b \in Cycles, NEW u \in Users PROVE RowOK(b, u)'
    <3>1. RowOK(b, u)
      BY DEF RowsInv
    <3>2. TimelyRow(b, u)'
      BY <1>1, <1>11, <3>1 DEF RowOK, TimelyRow
    <3>3. CASE reviewer'[b][u] = reviewer[b][u]
      BY <1>1, <1>12, <3>1, <3>2, <3>3 DEF RowOK
    <3>4. CASE reviewer'[b][u] # reviewer[b][u]
      <4>1. b = c
        BY <1>9, <3>4
      <4>2. reviewer'[b][u].status = IF reviewer[b][u].notified # Null
                                     THEN "no_response" ELSE "not_notified"
        BY <1>5, <1>9, <3>4, <4>1
      <4> QED
        BY <1>1, <1>11, <1>12, <3>1, <3>2, <4>1, <4>2 DEF RowOK
    <3> QED
      BY <3>3, <3>4
  <2> QED
    BY <2>1 DEF RowsInv
<1>18. ClosedInv'
  <2>1. UndeliverableIsHonest'
    BY <1>7, <1>8, <1>11 DEF ClosedInv, UndeliverableIsHonest
  <2>2. RecordMatchesCycle'
    BY <1>7, <1>8, <1>10 DEF ClosedInv, RecordMatchesCycle
  <2>3. \A b \in Cycles :
          cycle'[b].status \in {"closed_unattested", "closed_undeliverable"} => Settled(b)'
    BY <1>8, <1>12 DEF ClosedInv
  <2> QED
    BY <2>1, <2>2, <2>3 DEF ClosedInv
<1>19. SweepInv'
  <2>1. sweep.list \subseteq Cycles
    BY DEF TypeOK
  <2> QED
    BY <1>1, <1>3, <1>4, <1>14, <2>1 DEF SweepInv
<1>20. ASSUME ~ overlap
       PROVE  /\ cycle[c].status = "open" /\ view = reviewer[c]
              /\ \A p \in Procs : txn[p] = Idle
              /\ \A b \in Cycles : b \in sweep.list => cycle[b].status = "open"
  BY <1>2, <1>4, <1>b, <1>20 DEF AloneInv
<1>21. AloneInv'
  <2> SUFFICES ASSUME ~ overlap PROVE AloneInv'
    BY <1>1 DEF AloneInv
  <2>1. \A p \in Procs : txn'[p] = Idle /\ Idle.op = "idle"
    BY <1>1, <1>20 DEF Idle
  <2>2. \A p \in Procs : FreshTxn(p)'
    BY <2>1 DEF FreshTxn
  <2>3. \A b \in Cycles : b \in sweep'.list => cycle'[b].status = "open"
    BY <1>2, <1>3, <1>8, <1>20
  <2> QED
    BY <1>4, <2>1, <2>2, <2>3 DEF AloneInv
<1>22. CyclesFollowAnswers'
  <2> SUFFICES ASSUME ~ overlap PROVE CyclesFollowAnswers'
    BY <1>1 DEF CyclesFollowAnswers, OneOpenCycle, OpenMeansUnanswered,
                FullAttestationCompletes, AttachedRecordAttests
  <2>1. \A b \in Cycles : Reviewers(b)' = Reviewers(b) /\ Reviewers(b) \subseteq Users
    BY <1>11 DEF Reviewers
  <2>2. records[c] = <<>>
    BY <1>2, <1>20 DEF ClosedInv, RecordMatchesCycle, ClosedStatuses
  <2>3. \A u \in Users : reviewer[c][u].status # "attested" => rows[u].status # "attested"
    BY <1>5
  <2>4. ASSUME NEW b \in Cycles
        PROVE  /\ cycle'[b].status = "open" /\ Reviewers(b) # {} =>
                     \E v \in Reviewers(b) : reviewer'[b][v].status # "attested"
               /\ cycle'[b].status \in ClosedStatuses /\ Reviewers(b) # {} =>
                     (cycle'[b].status = ATTESTS <=>
                        \A v \in Reviewers(b) : reviewer'[b][v].status = "attested")
    <3>1. CASE b # c
      <4>1. cycle'[b] = cycle[b] /\ reviewer'[b] = reviewer[b]
        BY <1>8, <1>9, <3>1
      <4> QED
        BY <4>1 DEF CyclesFollowAnswers, OpenMeansUnanswered, FullAttestationCompletes
    <3>2. CASE b = c
      <4>1. Reviewers(c) # {} => \E v \in Reviewers(c) : reviewer[c][v].status # "attested"
        BY <1>2, <1>20 DEF CyclesFollowAnswers, OpenMeansUnanswered
      <4>2. Reviewers(c) # {} => \E v \in Reviewers(c) : reviewer'[c][v].status # "attested"
        BY <1>2, <1>9, <2>1, <2>3, <4>1
      <4> QED
        BY <1>7, <1>8, <3>2, <4>2
    <3> QED
      BY <3>1, <3>2
  <2>5. OpenMeansUnanswered' /\ FullAttestationCompletes'
    BY <2>1, <2>4 DEF OpenMeansUnanswered, FullAttestationCompletes
  <2>6. OneOpenCycle'
    BY <1>7, <1>8 DEF CyclesFollowAnswers, OneOpenCycle
  <2>7. AttachedRecordAttests'
    BY <1>8, <1>10, <2>2 DEF CyclesFollowAnswers, AttachedRecordAttests
  <2> QED
    BY <2>5, <2>6, <2>7 DEF CyclesFollowAnswers
<1> QED
  BY <1>13, <1>15, <1>16, <1>17, <1>18, <1>19, <1>21, <1>22

\* The sweep commits what it has sent.
LEMMA NotifyCommitStep == ASSUME RvInv, SweepCommit, sweep.step = "notify" PROVE RvInv'
<1> USE DEF RvInv
<1>a. PICK c : c = sweep.c
  OBVIOUS
<1>b. PICK told, sent, stamp : told = sweep.told /\ sent = sweep.reminded /\ stamp = sweep.stamp
  OBVIOUS
<1> DEFINE rows == [u \in Users |-> Notified(reviewer[c][u], stamp, u \in told, sent[u])]
<1>1. /\ reviewer' = [reviewer EXCEPT ![c] = rows]
      /\ sweep' = NextCycle
      /\ UNCHANGED <<overlap, day, cycle, records, mails, txn, aborts>>
  BY <1>a, <1>b DEF SweepCommit
<1>2. /\ c \in Cycles /\ InReview(c) /\ cycle[c].status # "none" /\ c \notin sweep.list
      /\ ~ Settled(c) /\ stamp \in Nat
      /\ told \in SUBSET Users /\ sent \in [Users -> SUBSET Numbers]
  BY <1>a, <1>b DEF SweepInv, InReview, Settled, TypeOK
<1>3. /\ sweep' \in Sweeps /\ sweep'.step = "loop" /\ sweep'.list = sweep.list
      /\ sweep'.day = sweep.day
  <2>1. sweep \in Sweeps
    BY DEF TypeOK, Sweeps
  <2> QED
    BY <1>1, <2>1 DEF NextCycle, Resting, Sweeps, Absent, ReviewerRows, ReviewerStatuses
<1>4. /\ \A b : ~ InReview(b)'
      /\ sweep # Resting /\ sweep' # Resting
  BY <1>3 DEF InReview, Resting
<1>5. ASSUME NEW u \in Users
      PROVE  /\ u \in told => /\ reviewer[c][u].notified = Null
                              /\ reviewer[c][u].status # "absent"
                              /\ mails[c][u][0] > 0 /\ sent[u] = {}
             /\ \A k \in sent[u] :
                   /\ reviewer[c][u].status # "absent" /\ reviewer[c][u].notified # Null
                   /\ day - reviewer[c][u].notified >= Reminders[k]
                   /\ mails[c][u][k] > 0
                   /\ \A l \in 1..k : l \in reviewer[c][u].reminded \cup sent[u]
  <2>1. /\ sweep.view[u].notified = reviewer[c][u].notified
        /\ sweep.view[u].reminded = reviewer[c][u].reminded
        /\ sweep.view[u].status = "absent" <=> reviewer[c][u].status = "absent"
    BY <1>2 DEF SweepInv
  <2>2. \A k \in sent[u] : ReminderOK(u, k)
    BY <1>b DEF SweepInv
  <2>3. u \in told => u \in Untold(sweep.view) /\ mails[c][u][0] > 0
    BY <1>a, <1>b DEF SweepInv
  <2>4. ASSUME NEW k \in sent[u]
        PROVE  /\ reviewer[c][u].status # "absent" /\ reviewer[c][u].notified # Null
               /\ day - reviewer[c][u].notified >= Reminders[k]
               /\ mails[c][u][k] > 0
               /\ \A l \in 1..k : l \in reviewer[c][u].reminded \cup sent[u]
    BY <1>a, <1>b, <2>1, <2>2, <2>4 DEF ReminderOK
  <2>5. u \in told => /\ reviewer[c][u].notified = Null /\ reviewer[c][u].status # "absent"
    BY <2>1, <2>3 DEF Untold
  <2>6. u \in told => sent[u] = {}
    BY <2>4, <2>5
  <2> QED
    BY <2>3, <2>4, <2>5, <2>6
<1>6. ASSUME NEW u \in Users
      PROVE  /\ rows[u] \in ReviewerRows /\ rows[u].status = reviewer[c][u].status
             /\ rows[u].reminded = reviewer[c][u].reminded \cup sent[u]
             /\ u \in told => rows[u].notified = stamp /\ rows[u].notified # Null
             /\ u \notin told => rows[u].notified = reviewer[c][u].notified
             /\ u \notin told /\ sent[u] = {} => rows[u] = reviewer[c][u]
  <2>1. reviewer[c][u] \in ReviewerRows
    BY <1>2 DEF TypeOK
  <2>2. rows[u] = Notified(reviewer[c][u], stamp, u \in told, sent[u])
    OBVIOUS
  <2> DEFINE n == IF u \in told THEN stamp ELSE reviewer[c][u].notified
             m == reviewer[c][u].reminded \cup sent[u]
  <2>3. rows[u] = [reviewer[c][u] EXCEPT !.notified = n, !.reminded = m]
    BY <2>2 DEF Notified
  <2>4. n \in Nat \cup {Null} /\ m \in SUBSET Numbers /\ stamp # Null
    BY <1>2, <2>1 DEF ReviewerRows, Null
  <2>5. (u \in told => n = stamp) /\ (u \notin told => n = reviewer[c][u].notified)
        /\ (sent[u] = {} => m = reviewer[c][u].reminded)
    OBVIOUS
  <2>6. m = reviewer[c][u].reminded \cup sent[u]
    OBVIOUS
  <2> HIDE DEF rows, n, m
  <2>7. /\ rows[u] \in ReviewerRows /\ rows[u].status = reviewer[c][u].status
        /\ rows[u].notified = n /\ rows[u].reminded = m
    BY <2>1, <2>3, <2>4 DEF ReviewerRows
  <2>8. n = reviewer[c][u].notified /\ m = reviewer[c][u].reminded => rows[u] = reviewer[c][u]
    BY <2>1, <2>3 DEF ReviewerRows
  <2> QED
    BY <2>4, <2>5, <2>6, <2>7, <2>8
<1>7. rows \in [Users -> ReviewerRows]
  BY <1>6
<1> HIDE DEF rows
<1>8. /\ reviewer' \in [Cycles -> [Users -> ReviewerRows]] /\ reviewer'[c] = rows
      /\ \A b \in Cycles : b # c => reviewer'[b] = reviewer[b]
  BY <1>1, <1>2, <1>7 DEF TypeOK
<1>9. \A b \in Cycles, u \in Users : reviewer'[b][u].status = reviewer[b][u].status
  BY <1>6, <1>8
<1>10. \A b \in Cycles : Settled(b) => Settled(b)' /\ b # c
  BY <1>1, <1>2, <1>3, <1>4 DEF Settled
<1>11. TypeOK'
  BY <1>1, <1>3, <1>8 DEF TypeOK, Sweeps
<1>12. TxnInv'
  <2>1. ASSUME NEW q \in Procs PROVE TxnOK(q)'
    <3>1. TxnOK(q)
      BY DEF TxnInv
    <3> QED
      BY <1>1, <1>9, <3>1 DEF TxnOK
  <2> QED
    BY <2>1 DEF TxnInv
<1>13. BlankInv'
  BY <1>1, <1>2, <1>8 DEF BlankInv
<1>14. RowsInv'
  <2>1. ASSUME NEW b \in Cycles, NEW u \in Users, b # c PROVE RowOK(b, u)'
    <3>1. RowOK(b, u) /\ reviewer'[b][u] = reviewer[b][u]
      BY <1>8, <2>1 DEF RowsInv
    <3> QED
      BY <1>1, <1>10, <3>1 DEF RowOK, TimelyRow
  <2>2. ASSUME NEW u \in Users PROVE RowOK(c, u)'
    <3>1. RowOK(c, u)
      BY <1>2 DEF RowsInv
    <3>2. reviewer'[c][u] = rows[u]
      BY <1>8
    <3>3. reviewer[c][u].status # "not_notified"
      BY <1>2, <3>1 DEF RowOK
    <3>4. reviewer[c][u].status = "absent" => rows[u] = Absent
      BY <1>5, <1>6, <3>1 DEF RowOK
    <3>5. rows[u].notified # Null => mails[c][u][0] > 0
      BY <1>5, <1>6, <3>1 DEF RowOK
    <3>6. rows[u].status = "no_response" => rows[u].notified # Null
      BY <1>6, <3>1 DEF RowOK
    <3>7. ASSUME NEW k \in rows[u].reminded
          PROVE  /\ rows[u].notified # Null /\ day - rows[u].notified >= Reminders[k]
                 /\ mails[c][u][k] > 0 /\ \A l \in 1..k : l \in rows[u].reminded
      <4>1. u \notin told
        BY <1>5, <1>6, <3>1, <3>7 DEF RowOK, TimelyRow
      <4>2. CASE k \in sent[u]
        BY <1>5, <1>6, <4>1, <4>2
      <4>3. CASE k \in reviewer[c][u].reminded
        BY <1>6, <3>1, <4>1, <4>3 DEF RowOK, TimelyRow
      <4> QED
        BY <1>6, <3>7, <4>2, <4>3
    <3> QED
      BY <1>1, <1>6, <3>2, <3>3, <3>4, <3>5, <3>6, <3>7 DEF RowOK, TimelyRow
  <2> QED
    BY <2>1, <2>2 DEF RowsInv
<1>15. ClosedInv'
  <2>1. \A b \in Cycles :
           cycle[b].status \in {"closed_unattested", "closed_undeliverable"} => b # c /\ Settled(b)'
    BY <1>10 DEF ClosedInv
  <2>2. UndeliverableIsHonest'
    BY <1>1, <1>8, <2>1 DEF ClosedInv, UndeliverableIsHonest
  <2> QED
    BY <1>1, <2>1, <2>2 DEF ClosedInv, RecordMatchesCycle
<1>16. SweepInv'
  BY <1>1, <1>3, <1>4 DEF SweepInv
<1>17. AloneInv'
  <2> SUFFICES ASSUME ~ overlap PROVE AloneInv'
    BY <1>1 DEF AloneInv
  <2>1. \A p \in Procs : txn'[p] = Idle /\ Idle.op = "idle"
    BY <1>1, <1>4 DEF AloneInv, Idle
  <2>2. \A p \in Procs : FreshTxn(p)'
    BY <2>1 DEF FreshTxn
  <2>3. \A b \in Cycles : b \in sweep'.list => cycle'[b].status = "open"
    BY <1>1, <1>3 DEF AloneInv
  <2> QED
    BY <1>4, <2>1, <2>2, <2>3 DEF AloneInv
<1>18. CyclesFollowAnswers'
  <2>1. \A b \in Cycles : Reviewers(b)' = Reviewers(b) /\ Reviewers(b) \subseteq Users
    BY <1>9 DEF Reviewers
  <2> QED
    BY <1>1, <1>9, <2>1 DEF CyclesFollowAnswers, OneOpenCycle, OpenMeansUnanswered,
                FullAttestationCompletes, AttachedRecordAttests
<1> QED
  BY <1>11, <1>12, <1>13, <1>14, <1>15, <1>16, <1>17, <1>18

-----------------------------------------------------------------------------
(* The theorems.                                                           *)

\* Every step preserves the invariant.
LEMMA NextInv == RvInv /\ [Next]_vars => RvInv'
<1> SUFFICES ASSUME RvInv, [Next]_vars PROVE RvInv'
  OBVIOUS
<1>1. CASE UNCHANGED vars
  <2>1. UNCHANGED <<overlap, day, cycle, reviewer, records, mails, txn, sweep, aborts>>
    BY <1>1 DEF vars, dbVars
  <2>2. /\ sweep' \in Sweeps /\ aborts' \in Nat
        /\ \A c : InReview(c)' <=> InReview(c)
    BY <2>1 DEF RvInv, TypeOK, Sweeps, InReview
  <2>3. SweepInv'
    BY <2>1, <2>2 DEF RvInv, SweepInv, ReminderOK, Untold
  <2>4. UNCHANGED <<overlap, day, dbVars, mails, txn>>
    BY <2>1 DEF dbVars
  <2>5. /\ \A c \in Cycles : c \in sweep'.list \/ InReview(c)' => c \in sweep.list \/ InReview(c)
        /\ ~ overlap /\ sweep' # Resting => \A q \in Procs : txn[q] = Idle
        /\ ~ overlap => \A c \in Cycles : InReview(c)' => sweep'.view = reviewer[c]
    BY <2>1, <2>2 DEF RvInv, AloneInv
  <2> QED
    BY <2>2, <2>3, <2>4, <2>5, SweepStep
<1>2. CASE Tick
  BY <1>2, TickStep
<1>3. CASE Sweep
  <2>1. SweepCommit => sweep.step \in {"close", "notify"}
    BY DEF SweepCommit
  <2> QED
    BY <1>3, <2>1, SweepInvStep, SweepNotifyStep, CloseCommitStep, NotifyCommitStep DEF Sweep
<1>4. CASE AbortSweep
  BY <1>4, SweepInvStep
<1>5. CASE DetachUnattested
  BY <1>5, DetachStep
<1>6. ASSUME NEW p \in Procs, OpenCheck(p) \/ Finish(p) \/ AbortTxn(p) PROVE RvInv'
  BY <1>6, RequestsInvStep, OpenFlushStep, OpenCommitStep, ViewCommitStep, AttestCommitStep
  DEF Finish
<1>7. ASSUME NEW p \in Requests, Request(p) PROVE RvInv'
  BY <1>7, RequestsInvStep DEF Request, Procs
<1> QED
  BY <1>1, <1>2, <1>3, <1>4, <1>5, <1>6, <1>7 DEF Next

\* RvInv holds in every behaviour of the review cycles, for any number of
\* cycles, users, requests, days and rollbacks.
THEOREM RvInvariant == Spec => []RvInv
BY InitInv, NextInv, PTL DEF Spec

\* The rows have their types (models.py).
THEOREM RvTypeCorrect == Spec => []TypeOK
<1>1. RvInv => TypeOK
  BY DEF RvInv
<1> QED
  BY <1>1, RvInvariant, PTL

\* What a close says of the people asked, of the cycle and in its record is
\* true, in any interleaving of requests, sweeps and rollbacks (close_cycle).
THEOREM ClosesAreHonest == Spec => []ClosingIsHonest
<1>1. RvInv => ClosingIsHonest
  BY DEF RvInv, ClosedInv, RowsInv, RowOK, ClosingIsHonest, NonResponseIsHonest
<1> QED
  BY <1>1, RvInvariant, PTL

\* A reminder was sent in order, its number of days after the notification that
\* reached the reviewer, in any interleaving (due_reminder_number).
THEOREM RemindersKeepTime == Spec => []RemindersAreTimely
<1>1. RvInv => RemindersAreTimely
  <2> SUFFICES ASSUME RvInv, NEW c \in Cycles, NEW u \in Users, NEW k \in reviewer[c][u].reminded
               PROVE  /\ reviewer[c][u].notified # Null
                      /\ day - reviewer[c][u].notified >= Reminders[k]
                      /\ \A l \in 1..k : l \in reviewer[c][u].reminded /\ mails[c][u][l] > 0
    BY DEF RemindersAreTimely
  <2> QED
    BY DEF RvInv, RowsInv, RowOK, TimelyRow
<1> QED
  BY <1>1, RvInvariant, PTL

\* One request at a time, a cycle's status is what its reviewers' answers make
\* it, and there is one to answer (open_cycle, attest, close_cycle).
THEOREM StatusFollowsAnswers == Spec => []CyclesFollowAnswers
<1>1. RvInv => CyclesFollowAnswers
  BY DEF RvInv
<1> QED
  BY <1>1, RvInvariant, PTL

\* Only three steps write a cycle, and without overlap none writes one that is
\* completed.
LEMMA CompletionStep ==
    ASSUME RvInv, Next, ~ overlap, NEW c \in Cycles, cycle[c].status = ATTESTS
    PROVE  cycle'[c].status = ATTESTS
<1> USE DEF RvInv
<1>1. cycle[c] \in CycleRows
  BY DEF TypeOK
<1>2. CASE UNCHANGED cycle
  BY <1>2
<1>3. ASSUME NEW p \in Procs, OpenCommit(p) PROVE cycle'[c].status = ATTESTS
  <2>1. cycle[txn[p].c].status = "none"
    BY <1>3 DEF OpenCommit, TxnInv, TxnOK
  <2>2. txn[p].c # c
    BY <2>1 DEF ATTESTS
  <2> QED
    BY <1>3, <2>2 DEF OpenCommit, TypeOK
<1>4. ASSUME NEW p \in Procs, AttestCommit(p) PROVE cycle'[c].status = ATTESTS
  <2>1. PICK b : b = txn[p].c
    OBVIOUS
  <2>2. cycle' = cycle \/ cycle' = [cycle EXCEPT ![b] = [cycle[b] EXCEPT !.status = ATTESTS]]
    BY <1>4, <2>1 DEF AttestCommit
  <2> DEFINE row == [cycle[b] EXCEPT !.status = ATTESTS]
  <2>3. c = b => row.status = ATTESTS
    BY <1>1 DEF CycleRows
  <2> HIDE DEF row
  <2>4. cycle'[c] = cycle[c] \/ (c = b /\ cycle'[c] = row)
    BY <2>2 DEF TypeOK, row
  <2> QED
    BY <2>3, <2>4
<1>5. CASE SweepCommit
  <2>1. InReview(sweep.c) /\ sweep.c \in Cycles
    BY <1>5 DEF SweepCommit, InReview, SweepInv
  <2>2. cycle[sweep.c].status = "open"
    BY <2>1 DEF AloneInv
  <2>3. sweep.c # c
    BY <2>2 DEF ATTESTS
  <2> QED
    BY <1>5, <2>3 DEF SweepCommit, TypeOK
<1>6. CASE Tick \/ AbortSweep \/ DetachUnattested
  BY <1>2, <1>6 DEF Tick, AbortSweep, DetachUnattested, dbVars
<1>7. CASE Sweep
  <2>1. CASE SweepStart \/ SweepClose \/ SweepNotify \/ SweepEnd \/ \E b \in Cycles : SweepRead(b)
    BY <1>2, <2>1 DEF SweepStart, SweepClose, SweepNotify, SweepEnd, SweepRead, dbVars
  <2> QED
    BY <1>5, <1>7, <2>1 DEF Sweep
<1>8. ASSUME NEW p \in Procs,
             OpenCheck(p) \/ AbortTxn(p) \/ OpenFlush(p) \/ AttestFlush(p) \/ ViewCommit(p)
      PROVE  UNCHANGED cycle
  BY <1>8 DEF OpenCheck, AbortTxn, OpenFlush, AttestFlush, ViewCommit, dbVars
<1>9. ASSUME NEW p \in Requests, Request(p) PROVE UNCHANGED cycle
  BY <1>9 DEF Request, ViewCheck, AttestCheck, dbVars
<1> QED
  BY <1>2, <1>3, <1>4, <1>6, <1>7, <1>8, <1>9 DEF Next, Finish

\* Only five steps write a reviewer, and without overlap none takes back an
\* answer.
LEMMA AttestationStep ==
    ASSUME RvInv, Next, ~ overlap, NEW c \in Cycles, NEW u \in Users
    PROVE  reviewer[c][u].status = "attested" => reviewer'[c][u].status = "attested"
<1> USE DEF RvInv
<1>1. reviewer[c][u] \in ReviewerRows
  BY DEF TypeOK
<1>2. CASE UNCHANGED reviewer
  BY <1>2
<1>3. ASSUME NEW p \in Procs, OpenCommit(p)
      PROVE  reviewer[c][u].status = "attested" => reviewer'[c][u].status = "attested"
  <2>1. PICK b : b = txn[p].c
    OBVIOUS
  <2>2. /\ b \in Cycles /\ cycle[b].status = "none"
    BY <1>3, <2>1 DEF OpenCommit, TxnInv, TxnOK
  <2>3. reviewer[b][u].status = "absent"
    BY <2>2 DEF BlankInv, Absent
  <2>4. c # b => reviewer'[c] = reviewer[c]
    BY <1>3, <2>1, <2>2 DEF OpenCommit, TypeOK
  <2> QED
    BY <2>2, <2>3, <2>4
<1>4. ASSUME NEW p \in Procs, ViewCommit(p)
      PROVE  reviewer[c][u].status = "attested" => reviewer'[c][u].status = "attested"
  <2>1. PICK b : b = txn[p].c
    OBVIOUS
  <2>2. PICK v \in txn[p].u : reviewer' = [reviewer EXCEPT ![b][v].status = "viewed"]
    BY <1>4, <2>1 DEF ViewCommit
  <2>3. reviewer[b][v].status = "requested"
    BY <1>4, <2>1, <2>2 DEF ViewCommit, AloneInv, FreshTxn
  <2>4. c # b \/ u # v => reviewer'[c][u] = reviewer[c][u]
    BY <2>2 DEF TypeOK
  <2> QED
    BY <1>4, <2>3, <2>4 DEF ViewCommit
<1>5. ASSUME NEW p \in Procs, AttestCommit(p)
      PROVE  reviewer[c][u].status = "attested" => reviewer'[c][u].status = "attested"
  <2>1. PICK b : b = txn[p].c
    OBVIOUS
  <2>2. PICK us : us = txn[p].u
    OBVIOUS
  <2>3. reviewer' = [reviewer EXCEPT ![b] = [v \in Users |->
                IF v \in us THEN [reviewer[b][v] EXCEPT !.status = "attested"]
                            ELSE reviewer[b][v]]]
    BY <1>5, <2>1, <2>2 DEF AttestCommit
  <2>6. \/ reviewer'[c][u] = reviewer[c][u]
        \/ reviewer'[c][u] = [reviewer[c][u] EXCEPT !.status = "attested"]
    BY <2>3 DEF TypeOK
  <2>7. [reviewer[c][u] EXCEPT !.status = "attested"].status = "attested"
    BY <1>1 DEF ReviewerRows
  <2> QED
    BY <2>6, <2>7
<1>6. CASE SweepCommit
  <2>1. PICK b : b = sweep.c
    OBVIOUS
  <2>2. InReview(b) /\ b \in Cycles
    BY <1>6, <2>1 DEF SweepCommit, InReview, SweepInv
  <2>3. sweep.view = reviewer[b]
    BY <2>2 DEF AloneInv
  <2>4. CASE sweep.step = "close"
    <3>1. /\ reviewer' = [reviewer EXCEPT ![b] = [v \in Users |->
                   IF v \in Unanswered(sweep.view)
                   THEN [reviewer[b][v] EXCEPT !.status = Stamped(sweep.view[v])]
                   ELSE reviewer[b][v]]]
      BY <1>6, <2>1, <2>4 DEF SweepCommit, TypeOK
    <3>2. c # b => reviewer'[c] = reviewer[c]
      BY <3>1 DEF TypeOK
    <3>3. reviewer[b][u].status = "attested" => u \notin Unanswered(sweep.view)
      BY <2>3 DEF Unanswered, Pending
    <3>4. reviewer[b][u].status = "attested" => reviewer'[b][u] = reviewer[b][u]
      BY <2>2, <3>1, <3>3 DEF TypeOK
    <3> QED
      BY <3>2, <3>4
  <2>5. CASE sweep.step = "notify"
    <3>1. /\ reviewer' = [reviewer EXCEPT ![b] = [v \in Users |->
                Notified(reviewer[b][v], sweep.stamp, v \in sweep.told, sweep.reminded[v])]]
      BY <1>6, <2>1, <2>5 DEF SweepCommit
    <3>2. c # b => reviewer'[c] = reviewer[c]
      BY <3>1 DEF TypeOK
    <3>3. c = b => reviewer'[c][u] =
             Notified(reviewer[c][u], sweep.stamp, u \in sweep.told, sweep.reminded[u])
      BY <3>1 DEF TypeOK
    <3>4. \A s, told, sent : Notified(reviewer[c][u], s, told, sent).status = reviewer[c][u].status
      BY <1>1 DEF Notified, ReviewerRows
    <3> QED
      BY <3>2, <3>3, <3>4
  <2> QED
    BY <1>6, <2>4, <2>5 DEF SweepCommit
<1>7. CASE Tick \/ AbortSweep \/ DetachUnattested
  BY <1>2, <1>7 DEF Tick, AbortSweep, DetachUnattested, dbVars
<1>8. CASE Sweep
  <2>1. CASE SweepStart \/ SweepClose \/ SweepNotify \/ SweepEnd \/ \E b \in Cycles : SweepRead(b)
    BY <1>2, <2>1 DEF SweepStart, SweepClose, SweepNotify, SweepEnd, SweepRead, dbVars
  <2> QED
    BY <1>6, <1>8, <2>1 DEF Sweep
<1>9. ASSUME NEW p \in Procs, OpenCheck(p) \/ AbortTxn(p) \/ OpenFlush(p) \/ AttestFlush(p)
      PROVE  UNCHANGED reviewer
  BY <1>9 DEF OpenCheck, AbortTxn, OpenFlush, AttestFlush, dbVars
<1>10. ASSUME NEW p \in Requests, Request(p) PROVE UNCHANGED reviewer
  BY <1>10 DEF Request, ViewCheck, AttestCheck, dbVars
<1> QED
  BY <1>2, <1>3, <1>4, <1>5, <1>7, <1>8, <1>9, <1>10 DEF Next, Finish

\* One request at a time, an attestation and the completion it brought about
\* are never taken back (view_cycle, _review_cycle_sweep).
THEOREM AnswersStay == Spec => AnswersAreFinal
<1>1. RvInv /\ [Next]_vars =>
         [~ overlap => \A c \in Cycles :
              cycle[c].status = ATTESTS => cycle'[c].status = ATTESTS]_vars
  BY CompletionStep
<1>2. RvInv /\ [Next]_vars =>
         [~ overlap => \A c \in Cycles, u \in Users :
              reviewer[c][u].status = "attested" => reviewer'[c][u].status = "attested"]_vars
  BY AttestationStep
<1> QED
  BY <1>1, <1>2, RvInvariant, PTL DEF Spec, AnswersAreFinal, CompletedIsFinal, AttestationIsFinal
=============================================================================
