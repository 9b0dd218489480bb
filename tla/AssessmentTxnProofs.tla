------------------------- MODULE AssessmentTxnProofs -------------------------
(***************************************************************************)
(* For any number of concurrent requests, objectives, products and         *)
(* versions, whatever fails or is aborted: the newest score of the series  *)
(* is the one the committed control states give, no two transactions have  *)
(* updated the same row, only a person's edit adds a higher score, and     *)
(* what is written to sprs_score is of the states committed with it.       *)
(*                                                                         *)
(* SeriesIsCurrent is not inductive.  It needs that a transaction that has *)
(* computed a score still holds the assessment's row, that no other one    *)
(* then commits control states, and that what it computed is what its own  *)
(* commit leaves; TxnInv says so.                                          *)
(*                                                                         *)
(* The export of a bundle holds the same row while it reads: whatever is   *)
(* committed in between, the score it prints is the one of the statuses    *)
(* behind it, and with nothing committed in between its lists omit nothing *)
(* and refer to entries that are there (BundleInv).                        *)
(***************************************************************************)
EXTENDS AssessmentTxn, Bundle, SetLemmas

Rows ==
    {OrgRow(p) : p \in Products} \cup {OrgRow(NoProduct)}
      \cup {StateRow(o) : o \in Objectives}
      \cup {ContributorRow(o, p) : o \in Objectives, p \in Products \cup {NoProduct}}
      \cup {LinkRow(o) : o \in Objectives}
      \cup {AssessmentRow}

\* What the control states a transaction sees score.
ViewScore(r) == compute_sprs([o \in Objectives |-> View(r)[o].status])

ProductOps == {"activate", "deactivate", "move"}

\* A request in flight is at a statement of its program, and one that is not
\* holds nothing; a request on a product names one.
ProgramInv ==
    \A r \in Requests :
        /\ IF txn[r].op = "none" THEN held[r] = {}
           ELSE txn[r].step \in 1..Len(Program[txn[r].op])
        /\ txn[r].op \in ProductOps => txn[r].product \in Products

\* What each kind of request may have updated or locked.
HeldInv ==
    /\ held \in [Requests -> SUBSET Rows]
    /\ \A r \in Requests :
          /\ (\E p \in Products : OrgRow(p) \in held[r]) => txn[r].op \in ProductOps
          /\ txn[r].op = "detach" => \A o \in Objectives : StateRow(o) \notin held[r]

\* No two transactions have updated or locked the same row.
RowsHaveOneWriter ==
    \A q, r \in Requests : q # r => held[q] \cap held[r] = {}

\* From the lock of recompute_sprs to the commit the assessment's row is held,
\* and at the commit the score is the one of the states it leaves.
ScoreInv ==
    \A r \in Requests :
        txn[r].op # "detach" =>
            /\ At(r, "score") \/ At(r, "commit") => AssessmentRow \in held[r]
            /\ At(r, "commit") => txn[r].score = ViewScore(r)

\* Only a person's edit writes a status that passes.
WriteInv ==
    \A r \in Requests :
        txn[r].op # "patch" =>
            \A o \in Objectives : txn[r].state[o].status \notin {"met", "inherited"}

TxnInv ==
    /\ TypeOK
    /\ ProgramInv
    /\ HeldInv
    /\ RowsHaveOneWriter
    /\ ScoreInv
    /\ WriteInv
    /\ SeriesIsCurrent

-----------------------------------------------------------------------------
(* The rows, the statements and the score.                                 *)

\* Rows of different tables are different rows.
LEMMA RowsDiffer ==
    /\ \A p : OrgRow(p) # AssessmentRow
    /\ \A o : StateRow(o) # AssessmentRow /\ LinkRow(o) # AssessmentRow
    /\ \A o, p : ContributorRow(o, p) # AssessmentRow
    /\ \A o, p : OrgRow(p) # StateRow(o) /\ OrgRow(p) # LinkRow(o)
    /\ \A o, p, q : OrgRow(p) # ContributorRow(o, q)
    /\ \A o, p, q : StateRow(o) # ContributorRow(q, p) /\ StateRow(o) # LinkRow(q)
<1> USE DEF OrgRow, StateRow, ContributorRow, LinkRow, AssessmentRow
<1>1. /\ \A p : OrgRow(p)[1] = "org_product"
      /\ \A o : StateRow(o)[1] = "control_state"
      /\ \A o, p : ContributorRow(o, p)[1] = "control_state_contributor"
      /\ \A o : LinkRow(o)[1] = "evidence_state_link"
      /\ AssessmentRow[1] = "assessment"
  OBVIOUS
<1> QED
  BY <1>1

\* The statement after another: the score is computed after the lock, and
\* what is committed, except by a detachment, is committed after the score.
LEMMA NextStatement ==
    ASSUME NEW op \in DOMAIN Program, NEW i \in 1..Len(Program[op]),
           Program[op][i] # "commit"
    PROVE  /\ i + 1 \in 1..Len(Program[op])
           /\ i + 1 \in 0..11
           /\ Program[op][i + 1] = "score" => Program[op][i] = "lock"
           /\ Program[op][i + 1] = "commit" /\ op # "detach" => Program[op][i] = "score"
<1>1. CASE op = "patch"
  BY <1>1 DEF Program
<1>2. CASE op = "activate"
  BY <1>2 DEF Program
<1>3. CASE op = "deactivate"
  BY <1>3 DEF Program
<1>4. CASE op = "move"
  BY <1>4 DEF Program
<1>5. CASE op = "snapshot"
  BY <1>5 DEF Program
<1>6. CASE op = "detach"
  BY <1>6 DEF Program
<1> QED
  BY <1>1, <1>2, <1>3, <1>4, <1>5, <1>6 DEF Program

\* Which requests reach a statement.
LEMMA StatementOf ==
    ASSUME NEW op \in DOMAIN Program, NEW i \in 1..Len(Program[op])
    PROVE  /\ Program[op][i] \in {"read_op", "write_op"} => op \in ProductOps
           /\ Program[op][i] \in {"read_links", "write_links"}
                => op \in {"activate", "deactivate", "detach"}
           /\ Program[op][i] \in {"read_states", "write_states", "remaining", "review",
                                  "fanout", "lock", "score"} => op # "detach"
           /\ Program[op][i] = "remaining" => op = "deactivate"
           /\ Program[op][i] = "review" => op = "activate"
<1>1. CASE op = "patch"
  BY <1>1 DEF Program
<1>2. CASE op = "activate"
  BY <1>2 DEF Program, ProductOps
<1>3. CASE op = "deactivate"
  BY <1>3 DEF Program, ProductOps
<1>4. CASE op = "move"
  BY <1>4 DEF Program, ProductOps
<1>5. CASE op = "snapshot"
  BY <1>5 DEF Program
<1>6. CASE op = "detach"
  BY <1>6 DEF Program
<1> QED
  BY <1>1, <1>2, <1>3, <1>4, <1>5, <1>6 DEF Program

\* compute_sprs is the maximum less the weights of the deducting controls.
LEMMA ScoreIsASum ==
    ASSUME NEW status
    PROVE  compute_sprs(status) = SPRS_MAX - Sum(Weight, deducting_controls(status))
BY FoldIsSum DEF compute_sprs

\* The score is a number.
LEMMA ScoreIsInt ==
    ASSUME NEW status
    PROVE  compute_sprs(status) \in Int
<1>1. /\ deducting_controls(status) \in SUBSET Controls
      /\ IsFiniteSet(deducting_controls(status))
  BY CatalogAssumption, FS_Subset DEF deducting_controls
<1>2. Sum(Weight, deducting_controls(status)) \in Nat
  BY <1>1, CatalogAssumption, SumIsNat
<1> QED
  BY <1>2, ScoreIsASum DEF SPRS_MAX

\* An objective that fails costs its control: where no failing objective
\* comes to pass, no points are gained.
LEMMA ScoreFalls ==
    ASSUME NEW old, NEW new,
           \A o \in Objectives : old[o] \notin {"met", "inherited"}
                                   => new[o] \notin {"met", "inherited"}
    PROVE  compute_sprs(new) <= compute_sprs(old)
<1> DEFINE S == deducting_controls(new)
           T == deducting_controls(old)
<1>1. S \in SUBSET Controls /\ IsFiniteSet(S) /\ T \in SUBSET S
  BY CatalogAssumption, FS_Subset DEF deducting_controls
<1>2. T \in SUBSET Controls /\ IsFiniteSet(T)
  BY <1>1, FS_Subset
<1>3. Sum(Weight, S) \in Nat /\ Sum(Weight, T) \in Nat
  BY <1>1, <1>2, CatalogAssumption, SumIsNat
<1>4. Sum(Weight, T) <= Sum(Weight, S)
  BY <1>1, CatalogAssumption, SumGrows
<1> QED
  BY <1>3, <1>4, ScoreIsASum DEF SPRS_MAX

-----------------------------------------------------------------------------
(* Initial states, and the two ways a step ends: the transaction goes on   *)
(* with nothing visible to others, or it is gone.                          *)

\* A request that is not in flight has the type of a transaction.
LEMMA IdleIsATxn == Idle \in Txn /\ Idle.op = "none"
BY DEF Idle, Txn, Column, NoWrite, NoLinkWrite, Responsibility

\* The invariant holds before the first request.
LEMMA InitInv == Init => TxnInv
<1> SUFFICES ASSUME Init PROVE TxnInv
  OBVIOUS
<1>1. TypeOK
  BY IdleIsATxn, ScoreIsInt DEF Init, TypeOK, Status, Responsibility
<1>2. ProgramInv
  BY IdleIsATxn DEF Init, ProgramInv, ProductOps
<1>3. HeldInv
  BY IdleIsATxn DEF Init, HeldInv
<1>4. RowsHaveOneWriter
  BY DEF Init, RowsHaveOneWriter
<1>5. ScoreInv
  BY IdleIsATxn DEF Init, ScoreInv, At
<1>6. WriteInv
  BY DEF Init, WriteInv, Idle, NoWrite, Keep
<1>7. SeriesIsCurrent
  <2>1. [o \in Objectives |-> state[o].status] = [o \in Objectives |-> "not_met"]
    BY DEF Init
  <2> QED
    BY <2>1 DEF Init, SeriesIsCurrent
<1> QED
  BY <1>1, <1>2, <1>3, <1>4, <1>5, <1>6, <1>7 DEF TxnInv

\* A transaction's view is its own: another's statement does not change it.
LEMMA ViewIsPrivate ==
    ASSUME NEW q \in Requests, txn'[q] = txn[q], held'[q] = held[q], state' = state
    PROVE  View(q)' = View(q) /\ ViewScore(q)' = ViewScore(q)
<1>1. View(q)' = View(q)
  BY DEF View, PutState
<1> QED
  BY <1>1 DEF ViewScore

\* A transaction that ends without a commit.
LEMMA RollbackStep ==
    ASSUME TxnInv, NEW r \in Requests, Rollback(r)
    PROVE  TxnInv'
<1> USE DEF TxnInv
<1>1. /\ txn' = [txn EXCEPT ![r] = Idle] /\ held' = [held EXCEPT ![r] = {}]
      /\ share' = share \ {r}
      /\ UNCHANGED <<orgProduct, state, contributor, link, score, series>>
  BY DEF Rollback, Release, db
<1>2. txn'[r] = Idle /\ held'[r] = {}
  BY <1>1 DEF TypeOK, HeldInv
<1>3. \A q \in Requests : q # r => txn'[q] = txn[q] /\ held'[q] = held[q]
  BY <1>1 DEF TypeOK, HeldInv
<1>4. TypeOK'
  BY <1>1, IdleIsATxn DEF TypeOK
<1>5. ProgramInv'
  BY <1>2, <1>3, IdleIsATxn DEF ProgramInv, ProductOps
<1>6. HeldInv'
  <2>1. held' \in [Requests -> SUBSET Rows]
    BY <1>1 DEF HeldInv
  <2> QED
    BY <2>1, <1>2, <1>3, IdleIsATxn DEF HeldInv
<1>7. RowsHaveOneWriter'
  BY <1>2, <1>3 DEF RowsHaveOneWriter
<1>8. ScoreInv'
  <2> SUFFICES ASSUME NEW q \in Requests, txn'[q].op # "detach"
               PROVE  /\ At(q, "score")' \/ At(q, "commit")' => AssessmentRow \in held'[q]
                      /\ At(q, "commit")' => txn'[q].score = ViewScore(q)'
    BY DEF ScoreInv
  <2>1. CASE q = r
    BY <2>1, <1>2, IdleIsATxn DEF At
  <2>2. CASE q # r
    BY <2>2, <1>1, <1>3, ViewIsPrivate DEF ScoreInv, At
  <2> QED
    BY <2>1, <2>2
<1>9. WriteInv'
  BY <1>2, <1>3 DEF WriteInv, Idle, NoWrite, Keep
<1>10. SeriesIsCurrent'
  BY <1>1 DEF SeriesIsCurrent
<1> QED
  BY <1>4, <1>5, <1>6, <1>7, <1>8, <1>9, <1>10

\* A statement before the commit, which may take rows that are free: t is the
\* transaction with what the statement read or computed.
LEMMA StatementStep ==
    ASSUME TxnInv, NEW r \in Requests, NEW s, At(r, s), s # "commit",
           NEW t \in Txn, t.op = txn[r].op, t.step = txn[r].step,
           t.product = txn[r].product,
           t.op # "patch" =>
               \A o \in Objectives : t.state[o].status \notin {"met", "inherited"},
           NEW rows \in SUBSET Rows, Free(r, rows),
           (\E p \in Products : OrgRow(p) \in rows) => t.op \in ProductOps,
           t.op = "detach" => \A o \in Objectives : StateRow(o) \notin rows,
           s = "lock" => AssessmentRow \in rows,
           s = "score" => t.score = ViewScore(r) /\ t.state = txn[r].state /\ rows = {},
           Continue(r, t), Take(r, rows), UNCHANGED db, share' \in SUBSET Requests
    PROVE  TxnInv'
<1> USE DEF TxnInv
<1> DEFINE u == [t EXCEPT !.step = @ + 1]
<1>1. /\ txn' = [txn EXCEPT ![r] = u]
      /\ held' = [held EXCEPT ![r] = @ \cup rows]
      /\ UNCHANGED <<orgProduct, state, contributor, link, score, series>>
  BY DEF Continue, Take, db
<1>2. txn'[r] = u /\ held'[r] = held[r] \cup rows
  BY <1>1 DEF TypeOK, HeldInv
<1>3. \A q \in Requests : q # r => txn'[q] = txn[q] /\ held'[q] = held[q]
  BY <1>1 DEF TypeOK, HeldInv
<1>4. /\ t.op \in DOMAIN Program /\ t.op # "none"
      /\ t.step \in 1..Len(Program[t.op]) /\ Program[t.op][t.step] = s
  BY DEF At, ProgramInv, Txn
<1>5. /\ t.step + 1 \in 1..Len(Program[t.op])
      /\ t.step + 1 \in 0..11
      /\ Program[t.op][t.step + 1] = "score" => s = "lock"
      /\ Program[t.op][t.step + 1] = "commit" /\ t.op # "detach" => s = "score"
  BY <1>4, NextStatement
<1>6. /\ u.op = t.op /\ u.step = t.step + 1 /\ u.product = t.product
      /\ u.state = t.state /\ u.score = t.score
  BY DEF Txn
<1>7. u \in Txn
  BY <1>5 DEF Txn
<1>8. TypeOK'
  <2>1. txn' \in [Requests -> Txn]
    BY <1>1, <1>7 DEF TypeOK
  <2> QED
    BY <1>1, <2>1 DEF TypeOK
<1>9. ProgramInv'
  <2> SUFFICES ASSUME NEW q \in Requests
               PROVE  /\ IF txn'[q].op = "none" THEN held'[q] = {}
                         ELSE txn'[q].step \in 1..Len(Program[txn'[q].op])
                      /\ txn'[q].op \in ProductOps => txn'[q].product \in Products
    BY DEF ProgramInv
  <2>1. CASE q = r
    BY <2>1, <1>2, <1>4, <1>5, <1>6 DEF ProgramInv
  <2>2. CASE q # r
    BY <2>2, <1>3 DEF ProgramInv
  <2> QED
    BY <2>1, <2>2
<1>10. HeldInv'
  <2>1. held' \in [Requests -> SUBSET Rows]
    BY <1>1 DEF HeldInv
  <2> SUFFICES ASSUME NEW q \in Requests
               PROVE  /\ (\E p \in Products : OrgRow(p) \in held'[q])
                           => txn'[q].op \in ProductOps
                      /\ txn'[q].op = "detach" =>
                           \A o \in Objectives : StateRow(o) \notin held'[q]
    BY <2>1 DEF HeldInv
  <2>2. CASE q = r
    BY <2>2, <1>2, <1>6 DEF HeldInv
  <2>3. CASE q # r
    BY <2>3, <1>3 DEF HeldInv
  <2> QED
    BY <2>2, <2>3
<1>11. RowsHaveOneWriter'
  <2> SUFFICES ASSUME NEW p \in Requests, NEW q \in Requests, p # q
               PROVE  held'[p] \cap held'[q] = {}
    BY DEF RowsHaveOneWriter
  <2>1. \A x \in Requests : x # r => held[x] \cap rows = {}
    BY DEF Free
  <2> QED
    BY <2>1, <1>2, <1>3 DEF RowsHaveOneWriter
<1>12. ScoreInv'
  <2> SUFFICES ASSUME NEW q \in Requests, txn'[q].op # "detach"
               PROVE  /\ At(q, "score")' \/ At(q, "commit")' => AssessmentRow \in held'[q]
                      /\ At(q, "commit")' => txn'[q].score = ViewScore(q)'
    BY DEF ScoreInv
  <2>1. CASE q # r
    BY <2>1, <1>1, <1>3, ViewIsPrivate DEF ScoreInv, At
  <2>2. CASE q = r
    <3>1. At(r, "score")' => s = "lock"
      BY <1>2, <1>4, <1>5, <1>6 DEF At
    <3>2. At(r, "commit")' => s = "score"
      BY <1>2, <1>4, <1>5, <1>6, <2>2 DEF At
    <3>3. s = "score" => AssessmentRow \in held[r]
      BY <1>2, <1>6, <2>2 DEF ScoreInv
    <3>4. s = "score" => ViewScore(r)' = ViewScore(r)
      <4> SUFFICES ASSUME s = "score" PROVE ViewScore(r)' = ViewScore(r)
        OBVIOUS
      <4>1. held'[r] = held[r] /\ txn'[r].state = txn[r].state
        BY <1>2, <1>6
      <4>2. View(r)' = View(r)
        BY <4>1, <1>1 DEF View, PutState
      <4> QED
        BY <4>2 DEF ViewScore
    <3> QED
      BY <2>2, <3>1, <3>2, <3>3, <3>4, <1>2, <1>6
  <2> QED
    BY <2>1, <2>2
<1>13. WriteInv'
  <2> SUFFICES ASSUME NEW q \in Requests, txn'[q].op # "patch", NEW o \in Objectives
               PROVE  txn'[q].state[o].status \notin {"met", "inherited"}
    BY DEF WriteInv
  <2>1. CASE q = r
    BY <2>1, <1>2, <1>6
  <2>2. CASE q # r
    BY <2>2, <1>3 DEF WriteInv
  <2> QED
    BY <2>1, <2>2
<1>14. SeriesIsCurrent'
  BY <1>1 DEF SeriesIsCurrent
<1> QED
  BY <1>8, <1>9, <1>10, <1>11, <1>12, <1>13, <1>14

\* A request that arrives: t names its arguments.
LEMMA RequestStep ==
    ASSUME TxnInv, NEW r \in Requests, NEW op, NEW t \in Txn, Request(r, op, t),
           op \in ProductOps => t.product \in Products,
           \A o \in Objectives : t.state[o].status \notin {"met", "inherited"}
    PROVE  TxnInv'
<1> USE DEF TxnInv
<1> DEFINE u == [t EXCEPT !.op = op, !.step = 1, !.was = score]
<1>1. /\ txn' = [txn EXCEPT ![r] = u]
      /\ UNCHANGED <<orgProduct, state, contributor, link, score, series, held, share>>
      /\ held[r] = {}
  BY DEF Request, db, ProgramInv
<1>2. txn'[r] = u /\ \A q \in Requests : q # r => txn'[q] = txn[q]
  BY <1>1 DEF TypeOK
<1>3. op \in DOMAIN Program /\ op # "none"
  BY ClaimAssumption DEF Request, Program
<1>4. 1 \in 1..Len(Program[op]) /\ Program[op][1] \notin {"score", "commit"}
  BY <1>3 DEF Program
<1>5. u.op = op /\ u.step = 1 /\ u.product = t.product /\ u.state = t.state
  BY DEF Txn
<1>6. u \in Txn
  <2>1. 1 \in 0..11 /\ score \in Int
    BY DEF TypeOK
  <2> QED
    BY <1>3, <2>1 DEF Txn
<1>7. TypeOK'
  BY <1>1, <1>6 DEF TypeOK
<1>8. ProgramInv'
  <2> SUFFICES ASSUME NEW q \in Requests
               PROVE  /\ IF txn'[q].op = "none" THEN held'[q] = {}
                         ELSE txn'[q].step \in 1..Len(Program[txn'[q].op])
                      /\ txn'[q].op \in ProductOps => txn'[q].product \in Products
    BY DEF ProgramInv
  <2>1. CASE q = r
    BY <2>1, <1>2, <1>3, <1>4, <1>5
  <2>2. CASE q # r
    BY <2>2, <1>1, <1>2 DEF ProgramInv
  <2> QED
    BY <2>1, <2>2
<1>9. HeldInv'
  <2> SUFFICES ASSUME NEW q \in Requests
               PROVE  /\ (\E p \in Products : OrgRow(p) \in held'[q])
                           => txn'[q].op \in ProductOps
                      /\ txn'[q].op = "detach" =>
                           \A o \in Objectives : StateRow(o) \notin held'[q]
    BY <1>1 DEF HeldInv
  <2>1. CASE q = r
    BY <2>1, <1>1
  <2>2. CASE q # r
    BY <2>2, <1>1, <1>2 DEF HeldInv
  <2> QED
    BY <2>1, <2>2
<1>10. RowsHaveOneWriter'
  BY <1>1 DEF RowsHaveOneWriter
<1>11. ScoreInv'
  <2> SUFFICES ASSUME NEW q \in Requests, txn'[q].op # "detach"
               PROVE  /\ At(q, "score")' \/ At(q, "commit")' => AssessmentRow \in held'[q]
                      /\ At(q, "commit")' => txn'[q].score = ViewScore(q)'
    BY DEF ScoreInv
  <2>1. CASE q = r
    BY <2>1, <1>2, <1>4, <1>5 DEF At
  <2>2. CASE q # r
    BY <2>2, <1>1, <1>2, ViewIsPrivate DEF ScoreInv, At
  <2> QED
    BY <2>1, <2>2
<1>12. WriteInv'
  <2> SUFFICES ASSUME NEW q \in Requests, txn'[q].op # "patch", NEW o \in Objectives
               PROVE  txn'[q].state[o].status \notin {"met", "inherited"}
    BY DEF WriteInv
  <2>1. CASE q = r
    BY <2>1, <1>2, <1>5
  <2>2. CASE q # r
    BY <2>2, <1>2 DEF WriteInv
  <2> QED
    BY <2>1, <2>2
<1>13. SeriesIsCurrent'
  BY <1>1 DEF SeriesIsCurrent
<1> QED
  BY <1>7, <1>8, <1>9, <1>10, <1>11, <1>12, <1>13

\* A statement that takes no row is one that takes the empty set of rows.
LEMMA TakeNothing ==
    ASSUME HeldInv, NEW r \in Requests, UNCHANGED held
    PROVE  Take(r, {}) /\ Free(r, {})
BY DEF HeldInv, Take, Free

\* What a read of the committed rows may write back.
LEMMA ReadWrites ==
    ASSUME TypeOK, NEW o \in Objectives, NEW s \in Status, NEW b \in Responsibility
    PROVE  /\ StateWrite(o, s, b) \in [status : Column(Status),
                                       responsibility : Column(Responsibility)]
           /\ s \notin {"met", "inherited"} \/ s = state[o].status
                => StateWrite(o, s, b).status \notin {"met", "inherited"}
BY DEF StateWrite, Changed, Column, Keep

\* A product that joins an objective never makes it pass.
LEMMA JoinWrites ==
    ASSUME TypeOK, NEW o \in Objectives, NEW p, NEW v, NEW kept
    PROVE  /\ JoinWrite(o, p, v, kept) \in [status : Column(Status),
                                            responsibility : Column(Responsibility)]
           /\ JoinWrite(o, p, v, kept).status \notin {"met", "inherited"}
<1> DEFINE s == contributor_added_status(state[o].status, Contributors(o) = {}, o \in kept)
           b == resolve_contributor_responsibility(
                    Classifications(o, Products) \cup {Claim[p][v][o]})
<1>1. state[o].status \in Status
  BY DEF TypeOK
<1>2. s \in Status /\ (s \notin {"met", "inherited"} \/ s = state[o].status)
  BY <1>1 DEF contributor_added_status, is_judgement_in_question, Status
<1>3. b \in Responsibility
  BY DEF resolve_contributor_responsibility, Responsibility
<1> HIDE DEF s, b
<1>4. /\ StateWrite(o, s, b) \in [status : Column(Status),
                                  responsibility : Column(Responsibility)]
      /\ StateWrite(o, s, b).status \notin {"met", "inherited"}
  BY <1>2, <1>3, ReadWrites
<1> QED
  BY <1>4 DEF JoinWrite, s, b

\* A flush that leaves a row alone writes no status.
LEMMA NoWriteWrites ==
    /\ NoWrite \in [status : Column(Status), responsibility : Column(Responsibility)]
    /\ NoWrite.status \notin {"met", "inherited"}
BY DEF NoWrite, Column, Keep

-----------------------------------------------------------------------------
(* Requests, one at a time.                                                *)

\* A request arrives.
LEMMA ArriveInv ==
    ASSUME TxnInv, NEW r \in Requests, Arrive(r)
    PROVE  TxnInv'
<1>0. \A o \in Objectives : Idle.state[o].status \notin {"met", "inherited"}
  BY DEF Idle, NoWrite, Keep
<1>1. CASE PatchRequest(r)
  <2>1. PICK o \in Objectives, s \in PatchStatuses :
           Request(r, "patch", [Idle EXCEPT !.objectives = {o}, !.status = s])
    BY <1>1 DEF PatchRequest
  <2> DEFINE t == [Idle EXCEPT !.objectives = {o}, !.status = s]
  <2>2. t \in Txn /\ t.state = Idle.state
    BY IdleIsATxn, ClaimAssumption DEF Txn, Column
  <2> QED
    BY <1>0, <2>1, <2>2, RequestStep DEF ProductOps
<1>2. CASE ActivateRequest(r)
  <2>1. PICK p \in Products :
          LET v == IF orgProduct[p].pin = 0 THEN Current[p] ELSE orgProduct[p].pin
          IN  \/ Request(r, "activate", [Idle EXCEPT !.product = p])
              \/ \E keep \in SUBSET Judged(p, v) :
                    Request(r, "activate",
                        [Idle EXCEPT !.product = p, !.asked = TRUE, !.keep = keep,
                             !.shown = {<<o, state[o].status>> : o \in Judged(p, v)}])
    BY <1>2 DEF ActivateRequest
  <2> DEFINE v == IF orgProduct[p].pin = 0 THEN Current[p] ELSE orgProduct[p].pin
  <2>2. CASE Request(r, "activate", [Idle EXCEPT !.product = p])
    <3>1. [Idle EXCEPT !.product = p] \in Txn
      BY IdleIsATxn DEF Txn
    <3>2. [Idle EXCEPT !.product = p].product = p
          /\ [Idle EXCEPT !.product = p].state = Idle.state
      BY IdleIsATxn DEF Txn
    <3> QED
      BY <1>0, <2>2, <3>1, <3>2, RequestStep
  <2>3. CASE \E keep \in SUBSET Judged(p, v) :
                Request(r, "activate",
                    [Idle EXCEPT !.product = p, !.asked = TRUE, !.keep = keep,
                         !.shown = {<<o, state[o].status>> : o \in Judged(p, v)}])
    <3>1. PICK keep \in SUBSET Judged(p, v) :
                Request(r, "activate",
                    [Idle EXCEPT !.product = p, !.asked = TRUE, !.keep = keep,
                         !.shown = {<<o, state[o].status>> : o \in Judged(p, v)}])
      BY <2>3
    <3> DEFINE seen == {<<o, state[o].status>> : o \in Judged(p, v)}
               t == [Idle EXCEPT !.product = p, !.asked = TRUE, !.keep = keep,
                                 !.shown = seen]
    <3>2. Judged(p, v) \in SUBSET Objectives
      BY DEF Judged, Covers
    <3>3. seen \in SUBSET (Objectives \X Status)
      BY <3>2 DEF TxnInv, TypeOK
    <3> HIDE DEF seen
    <3>4. t \in Txn /\ t.product = p /\ t.state = Idle.state
      BY <3>2, <3>3, IdleIsATxn DEF Txn
    <3>5. Request(r, "activate", t)
      BY <3>1 DEF seen
    <3> HIDE DEF t
    <3> QED
      BY <1>0, <3>4, <3>5, RequestStep
  <2> QED
    BY <2>1, <2>2, <2>3
<1>3. CASE DeactivateRequest(r)
  <2>1. PICK p \in Products : Request(r, "deactivate", [Idle EXCEPT !.product = p])
    BY <1>3 DEF DeactivateRequest
  <2> DEFINE t == [Idle EXCEPT !.product = p]
  <2>2. t \in Txn /\ t.product = p /\ t.state = Idle.state
    BY IdleIsATxn DEF Txn
  <2> QED
    BY <1>0, <2>1, <2>2, RequestStep
<1>4. CASE MoveRequest(r)
  <2>1. PICK p \in Products, v \in Versions :
           Request(r, "move", [Idle EXCEPT !.product = p, !.version = v])
    BY <1>4 DEF MoveRequest
  <2> DEFINE t == [Idle EXCEPT !.product = p, !.version = v]
  <2>2. t \in Txn /\ t.product = p /\ t.state = Idle.state
    BY IdleIsATxn DEF Txn
  <2> QED
    BY <1>0, <2>1, <2>2, RequestStep
<1>5. CASE SnapshotRequest(r)
  BY <1>0, <1>5, IdleIsATxn, RequestStep DEF SnapshotRequest, ProductOps
<1>6. CASE DetachRequest(r)
  <2>1. PICK o \in Objectives : Request(r, "detach", [Idle EXCEPT !.objectives = {o}])
    BY <1>6 DEF DetachRequest
  <2> DEFINE t == [Idle EXCEPT !.objectives = {o}]
  <2>2. t \in Txn /\ t.state = Idle.state
    BY IdleIsATxn DEF Txn
  <2> QED
    BY <1>0, <2>1, <2>2, RequestStep DEF ProductOps
<1> QED
  BY <1>1, <1>2, <1>3, <1>4, <1>5, <1>6 DEF Arrive

\* The transaction of a request in flight, and which requests reach where it is.
LEMMA InFlight ==
    ASSUME TxnInv, NEW r \in Requests, NEW s, At(r, s)
    PROVE  /\ txn[r] \in Txn
           /\ txn[r].op \in DOMAIN Program /\ txn[r].op # "none"
           /\ s \in {"read_op", "write_op"} => txn[r].op \in ProductOps
           /\ s \in {"read_links", "write_links"}
                => txn[r].op \in {"activate", "deactivate", "detach"}
           /\ s \in {"read_states", "write_states", "remaining", "review",
                     "fanout", "lock", "score"} => txn[r].op # "detach"
           /\ s = "remaining" => txn[r].op = "deactivate"
           /\ s = "review" => txn[r].op = "activate"
           /\ txn[r].op # "patch" => \A o \in Objectives :
                 txn[r].state[o].status \notin {"met", "inherited"}
           /\ txn[r].op \in ProductOps => txn[r].product \in Products
<1>1. txn[r] \in Txn
  BY DEF TxnInv, TypeOK
<1>2. /\ txn[r].op \in DOMAIN Program /\ txn[r].op # "none"
      /\ txn[r].step \in 1..Len(Program[txn[r].op])
      /\ Program[txn[r].op][txn[r].step] = s
  BY <1>1 DEF TxnInv, ProgramInv, At, Txn
<1>3. /\ txn[r].op # "patch" => \A o \in Objectives :
            txn[r].state[o].status \notin {"met", "inherited"}
      /\ txn[r].op \in ProductOps => txn[r].product \in Products
  BY DEF TxnInv, WriteInv, ProgramInv
<1> QED
  BY <1>1, <1>2, <1>3, StatementOf

\* The product's row is loaded.
LEMMA ReadOrgProductInv ==
    ASSUME TxnInv, NEW r \in Requests, ReadOrgProduct(r)
    PROVE  TxnInv'
<1> DEFINE t == txn[r]
           row == orgProduct[t.product]
           v == CASE t.op = "move" -> t.version
                  [] row.pin = 0   -> Current[t.product]
                  [] OTHER         -> row.pin
           new == [t EXCEPT !.org = row, !.version = v]
<1>1. At(r, "read_op")
  BY DEF ReadOrgProduct
<1>2. CASE Rollback(r)
  BY <1>2, RollbackStep
<1>3. CASE Continue(r, new) /\ UNCHANGED <<db, held, share>>
  <2>1. t \in Txn /\ t.product \in Products
    BY <1>1, InFlight
  <2>2. /\ row \in [status : {"absent", "active", "decommissioned"},
                    pin : Versions \cup {0}]
        /\ v \in Versions \cup {0}
    BY <2>1, ClaimAssumption DEF TxnInv, TypeOK, Txn
  <2> HIDE DEF row, v
  <2>3. new \in Txn
    BY <2>1, <2>2 DEF Txn
  <2>4. new.op = t.op /\ new.step = t.step /\ new.product = t.product
        /\ new.state = t.state
    BY <2>1 DEF Txn
  <2>5. Take(r, {}) /\ Free(r, {})
    BY <1>3, TakeNothing DEF TxnInv
  <2>6. share' \in SUBSET Requests
    BY <1>3 DEF TxnInv, TypeOK
  <2> HIDE DEF new
  <2> QED
    BY <1>1, <1>3, <2>3, <2>4, <2>5, <2>6, InFlight, StatementStep
<1> QED
  BY <1>2, <1>3 DEF ReadOrgProduct

\* The product's row is flushed.
LEMMA WriteOrgProductInv ==
    ASSUME TxnInv, NEW r \in Requests, WriteOrgProduct(r)
    PROVE  TxnInv'
<1> DEFINE t == txn[r]
           rows == {OrgRow(t.product)}
<1>1. At(r, "write_op") /\ Free(r, rows)
  BY DEF WriteOrgProduct
<1>2. CASE Rollback(r)
  BY <1>2, RollbackStep
<1>3. CASE Take(r, rows) /\ Continue(r, t) /\ UNCHANGED <<db, share>>
  <2>1. t \in Txn /\ t.op \in ProductOps /\ t.product \in Products
    BY <1>1, InFlight
  <2>2. rows \in SUBSET Rows
    BY <2>1 DEF Rows
  <2>3. \A o \in Objectives : StateRow(o) \notin rows
    BY RowsDiffer
  <2>4. share' \in SUBSET Requests
    BY <1>3 DEF TxnInv, TypeOK
  <2> HIDE DEF rows
  <2> QED
    BY <1>1, <1>3, <2>1, <2>2, <2>3, <2>4, InFlight, StatementStep
<1> QED
  BY <1>2, <1>3 DEF WriteOrgProduct

\* The evidence links are read.
LEMMA ReadLinksInv ==
    ASSUME TxnInv, NEW r \in Requests, ReadLinks(r)
    PROVE  TxnInv'
<1> DEFINE t == txn[r]
           found == CASE t.op = "activate" -> {o \in Objectives : link[o].by = t.product}
                      [] t.op = "deactivate" -> {o \in t.objectives : link[o].cause = "live"}
                      [] t.op = "detach" ->
                           {o \in t.objectives :
                               link[o].cause = "live" \/ link[o].by # NoProduct}
           writes == [o \in Objectives |-> IF o \in found THEN LinkWrite(t, o)
                                           ELSE NoLinkWrite]
           new == [t EXCEPT !.link = writes]
<1>1. At(r, "read_links")
  BY DEF ReadLinks
<1>2. CASE Rollback(r)
  BY <1>2, RollbackStep
<1>3. CASE Continue(r, new) /\ UNCHANGED <<db, held, share>>
  <2>1. t \in Txn /\ t.op \in {"activate", "deactivate", "detach"}
    BY <1>1, InFlight
  <2>2. t.product \in Products \cup {NoProduct}
    BY <2>1 DEF Txn
  <2>3. \A o \in Objectives :
           LinkWrite(t, o) \in [cause : Column({"live", "deactivation", "detached"}),
                                by : Column(Products \cup {NoProduct})]
    BY <2>1, <2>2 DEF LinkWrite, Changed, Column
  <2>4. NoLinkWrite \in [cause : Column({"live", "deactivation", "detached"}),
                         by : Column(Products \cup {NoProduct})]
    BY DEF NoLinkWrite, Column
  <2> HIDE DEF found
  <2>5. writes \in [Objectives -> [cause : Column({"live", "deactivation", "detached"}),
                                   by : Column(Products \cup {NoProduct})]]
    BY <2>3, <2>4
  <2> HIDE DEF writes
  <2>6. new \in Txn /\ new.op = t.op /\ new.step = t.step /\ new.product = t.product
        /\ new.state = t.state
    BY <2>1, <2>5 DEF Txn
  <2>7. Take(r, {}) /\ Free(r, {})
    BY <1>3, TakeNothing DEF TxnInv
  <2>8. share' \in SUBSET Requests
    BY <1>3 DEF TxnInv, TypeOK
  <2> HIDE DEF new
  <2> QED
    BY <1>1, <1>3, <2>6, <2>7, <2>8, InFlight, StatementStep
<1> QED
  BY <1>2, <1>3 DEF ReadLinks

\* The evidence links are flushed.
LEMMA WriteLinksInv ==
    ASSUME TxnInv, NEW r \in Requests, WriteLinks(r)
    PROVE  TxnInv'
<1> DEFINE t == txn[r]
           rows == {LinkRow(o) : o \in LinkWrites(t)}
<1>1. At(r, "write_links") /\ Free(r, rows)
  BY DEF WriteLinks
<1>2. CASE Rollback(r)
  BY <1>2, RollbackStep
<1>3. CASE Take(r, rows) /\ Continue(r, t) /\ UNCHANGED <<db, share>>
  <2>1. rows \in SUBSET Rows
    BY DEF Rows, LinkWrites
  <2>2. /\ \A p : OrgRow(p) \notin rows
        /\ \A o : StateRow(o) \notin rows
    BY RowsDiffer
  <2>3. share' \in SUBSET Requests
    BY <1>3 DEF TxnInv, TypeOK
  <2> HIDE DEF rows
  <2> QED
    BY <1>1, <1>3, <2>1, <2>2, <2>3, InFlight, StatementStep
<1> QED
  BY <1>2, <1>3 DEF WriteLinks

\* A read of the control states that decides what to write to them and to the
\* contributor rows.
LEMMA StatesReadStep ==
    ASSUME TxnInv, NEW r \in Requests, At(r, "read_states"),
           NEW new \in Txn, new.op = txn[r].op, new.step = txn[r].step,
           new.product = txn[r].product,
           new.op # "patch" =>
               \A o \in Objectives : new.state[o].status \notin {"met", "inherited"},
           Continue(r, new), UNCHANGED <<db, held, share>>
    PROVE  TxnInv'
<1>1. Take(r, {}) /\ Free(r, {})
  BY TakeNothing DEF TxnInv
<1>2. share' \in SUBSET Requests
  BY DEF TxnInv, TypeOK
<1> QED
  BY <1>1, <1>2, StatementStep

\* A person's edit reads the states it changes.
LEMMA PatchReadInv ==
    ASSUME TxnInv, NEW r \in Requests, PatchRead(r)
    PROVE  TxnInv'
<1> DEFINE t == txn[r]
           writes == [o \in Objectives |->
                        IF o \in t.objectives
                        THEN StateWrite(o, t.status, state[o].responsibility)
                        ELSE NoWrite]
           new == [t EXCEPT !.state = writes]
<1>1. At(r, "read_states") /\ t.op = "patch" /\ Continue(r, new)
      /\ UNCHANGED <<db, held, share>>
  BY DEF PatchRead
<1>2. t \in Txn
  BY <1>1, InFlight
<1>3. writes \in [Objectives -> [status : Column(Status),
                                 responsibility : Column(Responsibility)]]
  <2>1. \A o \in Objectives :
           StateWrite(o, t.status, state[o].responsibility)
             \in [status : Column(Status), responsibility : Column(Responsibility)]
    BY <1>2 DEF StateWrite, Changed, Column, Txn, TxnInv, TypeOK
  <2> QED
    BY <2>1, NoWriteWrites
<1> HIDE DEF writes
<1>4. new \in Txn /\ new.op = t.op /\ new.step = t.step /\ new.product = t.product
  BY <1>2, <1>3 DEF Txn
<1> HIDE DEF new
<1> QED
  BY <1>1, <1>4, StatesReadStep

\* An activation reads what it joins.
LEMMA ActivateReadInv ==
    ASSUME TxnInv, NEW r \in Requests, ActivateRead(r)
    PROVE  TxnInv'
<1> DEFINE t == txn[r]
           joined == {o \in Covers(t.product, t.version) : contributor[o][t.product] = 0}
           writes == [o \in Objectives |->
                        IF o \in joined THEN JoinWrite(o, t.product, t.version, t.keep)
                        ELSE NoWrite]
           rows == [o \in Objectives |-> IF o \in joined THEN t.version ELSE KeepRow]
           new == [t EXCEPT !.state = writes, !.contributor = rows]
<1>1. At(r, "read_states")
  BY DEF ActivateRead
<1>2. CASE Rollback(r)
  BY <1>2, RollbackStep
<1>3. CASE Continue(r, new) /\ UNCHANGED <<db, held, share>>
  <2>1. t \in Txn /\ t.version \in Versions \cup {0}
    BY <1>1, InFlight DEF Txn
  <2> HIDE DEF joined
  <2>2. /\ writes \in [Objectives -> [status : Column(Status),
                                      responsibility : Column(Responsibility)]]
        /\ \A o \in Objectives : writes[o].status \notin {"met", "inherited"}
    <3> SUFFICES ASSUME NEW o \in Objectives
                 PROVE  /\ writes[o] \in [status : Column(Status),
                                          responsibility : Column(Responsibility)]
                        /\ writes[o].status \notin {"met", "inherited"}
      OBVIOUS
    <3> QED
      BY JoinWrites, NoWriteWrites DEF TxnInv
  <2>3. rows \in [Objectives -> Versions \cup {0, KeepRow}]
    BY <2>1
  <2> HIDE DEF writes, rows
  <2>4. new \in Txn /\ new.op = t.op /\ new.step = t.step /\ new.product = t.product
        /\ new.state = writes
    BY <2>1, <2>2, <2>3 DEF Txn
  <2> HIDE DEF new
  <2> QED
    BY <1>1, <1>3, <2>2, <2>4, StatesReadStep
<1> QED
  BY <1>2, <1>3 DEF ActivateRead

\* A deactivation reads what it leaves.
LEMMA DeactivateReadInv ==
    ASSUME TxnInv, NEW r \in Requests, DeactivateRead(r)
    PROVE  TxnInv'
<1> DEFINE t == txn[r]
           left == {o \in Objectives : contributor[o][t.product] # 0}
           loaded == [o \in Objectives |-> state[o].responsibility]
           writes == [o \in Objectives |->
                        IF o \in left
                        THEN StateWrite(o, "needs_review", state[o].responsibility)
                        ELSE NoWrite]
           rows == [o \in Objectives |-> IF o \in left THEN 0 ELSE KeepRow]
           new == [t EXCEPT !.objectives = left, !.had = left, !.loaded = loaded,
                            !.state = writes, !.contributor = rows]
<1>1. At(r, "read_states") /\ Continue(r, new) /\ UNCHANGED <<db, held, share>>
  BY DEF DeactivateRead
<1>2. t \in Txn
  BY <1>1, InFlight
<1>3. left \in SUBSET Objectives
  OBVIOUS
<1>4. loaded \in [Objectives -> Responsibility]
  BY DEF TxnInv, TypeOK
<1> HIDE DEF left
<1>5. /\ writes \in [Objectives -> [status : Column(Status),
                                    responsibility : Column(Responsibility)]]
      /\ \A o \in Objectives : writes[o].status \notin {"met", "inherited"}
  <2>1. \A o \in Objectives : state[o].responsibility \in Responsibility
    BY DEF TxnInv, TypeOK
  <2>2. "needs_review" \in Status
    BY DEF Status
  <2> SUFFICES ASSUME NEW o \in Objectives
               PROVE  /\ writes[o] \in [status : Column(Status),
                                        responsibility : Column(Responsibility)]
                      /\ writes[o].status \notin {"met", "inherited"}
    OBVIOUS
  <2> QED
    BY <2>1, <2>2, ReadWrites, NoWriteWrites DEF TxnInv
<1>6. rows \in [Objectives -> Versions \cup {0, KeepRow}]
  OBVIOUS
<1> HIDE DEF loaded, writes, rows
<1>7. new \in Txn /\ new.op = t.op /\ new.step = t.step /\ new.product = t.product
      /\ new.state = writes
  BY <1>2, <1>3, <1>4, <1>5, <1>6 DEF Txn
<1> HIDE DEF new
<1> QED
  BY <1>1, <1>5, <1>7, StatesReadStep

\* A move compares the two versions' claims with the rows it reads.
LEMMA MoveReadInv ==
    ASSUME TxnInv, NEW r \in Requests, MoveRead(r)
    PROVE  TxnInv'
<1> DEFINE t == txn[r]
           p == t.product
           v == t.version
           had == {o \in Objectives : contributor[o][p] # 0}
           dropped == (Covers(p, t.org.pin) \ Covers(p, v)) \cap had
           gained == (Covers(p, v) \ Covers(p, t.org.pin)) \ had
           reclassified == {o \in Covers(p, v) \cap Covers(p, t.org.pin) \cap had :
                               Claim[p][v][o] # Claim[p][t.org.pin][o]}
           others(o) == Classifications(o, Products \ {p})
           Write(o) ==
              CASE o \in dropped -> StateWrite(o, "needs_review",
                       IF others(o) = {} THEN state[o].responsibility
                       ELSE resolve_contributor_responsibility(others(o)))
                [] o \in gained -> JoinWrite(o, p, v, {})
                [] o \in reclassified -> StateWrite(o, "needs_review",
                       resolve_contributor_responsibility(others(o) \cup {Claim[p][v][o]}))
                [] OTHER -> NoWrite
           writes == [o \in Objectives |-> Write(o)]
           rows == [o \in Objectives |->
                      CASE o \in dropped -> 0
                        [] o \in gained \cup reclassified -> v
                        [] OTHER -> KeepRow]
           new == [t EXCEPT !.had = had, !.state = writes, !.contributor = rows]
<1>1. At(r, "read_states") /\ Continue(r, new) /\ UNCHANGED <<db, held, share>>
  BY DEF MoveRead
<1>2. t \in Txn /\ v \in Versions \cup {0}
  BY <1>1, InFlight DEF Txn
<1>3. had \in SUBSET Objectives
  OBVIOUS
<1>4. /\ dropped \cap gained = {} /\ dropped \cap reclassified = {}
      /\ gained \cap reclassified = {}
  OBVIOUS
<1> HIDE DEF had, dropped, gained, reclassified
<1>5. /\ writes \in [Objectives -> [status : Column(Status),
                                    responsibility : Column(Responsibility)]]
      /\ \A o \in Objectives : writes[o].status \notin {"met", "inherited"}
  <2> SUFFICES ASSUME NEW o \in Objectives
               PROVE  /\ Write(o) \in [status : Column(Status),
                                       responsibility : Column(Responsibility)]
                      /\ Write(o).status \notin {"met", "inherited"}
    OBVIOUS
  <2>1. state[o].responsibility \in Responsibility
    BY DEF TxnInv, TypeOK
  <2>2. \A c : resolve_contributor_responsibility(c) \in Responsibility
    BY DEF resolve_contributor_responsibility, Responsibility
  <2>3. \A b \in Responsibility :
           /\ StateWrite(o, "needs_review", b)
                \in [status : Column(Status), responsibility : Column(Responsibility)]
           /\ StateWrite(o, "needs_review", b).status \notin {"met", "inherited"}
    BY ReadWrites DEF TxnInv, Status
  <2>4. /\ JoinWrite(o, p, v, {}) \in [status : Column(Status),
                                       responsibility : Column(Responsibility)]
        /\ JoinWrite(o, p, v, {}).status \notin {"met", "inherited"}
    BY JoinWrites DEF TxnInv
  <2> HIDE DEF p, v
  <2>5. CASE o \in dropped
    <3> DEFINE b == IF others(o) = {} THEN state[o].responsibility
                    ELSE resolve_contributor_responsibility(others(o))
    <3>1. b \in Responsibility
      BY <2>1, <2>2
    <3>2. Write(o) = StateWrite(o, "needs_review", b)
      BY <2>5, <1>4
    <3> HIDE DEF b
    <3> QED
      BY <2>3, <3>1, <3>2
  <2>6. CASE o \notin dropped /\ o \in gained
    <3>1. Write(o) = JoinWrite(o, p, v, {})
      BY <2>6, <1>4
    <3> QED
      BY <2>4, <3>1
  <2>7. CASE o \notin dropped /\ o \notin gained /\ o \in reclassified
    <3>1. Write(o) = StateWrite(o, "needs_review",
                       resolve_contributor_responsibility(others(o) \cup {Claim[p][v][o]}))
      BY <2>7
    <3> QED
      BY <2>2, <2>3, <3>1
  <2>8. CASE o \notin dropped /\ o \notin gained /\ o \notin reclassified
    <3>1. Write(o) = NoWrite
      BY <2>8
    <3> QED
      BY <3>1, NoWriteWrites
  <2> QED
    BY <2>5, <2>6, <2>7, <2>8
<1>6. rows \in [Objectives -> Versions \cup {0, KeepRow}]
  BY <1>2
<1> HIDE DEF writes, rows
<1>7. new \in Txn /\ new.op = t.op /\ new.step = t.step /\ new.product = t.product
      /\ new.state = writes
  BY <1>2, <1>3, <1>5, <1>6 DEF Txn
<1> HIDE DEF new
<1> QED
  BY <1>1, <1>5, <1>7, StatesReadStep

\* The survivors' responsibilities are resolved.
LEMMA RemainingInv ==
    ASSUME TxnInv, NEW r \in Requests, Remaining(r)
    PROVE  TxnInv'
<1> DEFINE t == txn[r]
           rows == {ContributorRow(o, t.product) : o \in t.objectives}
           others(o) == Classifications(o, Products \ {t.product})
           writes == [o \in Objectives |->
              IF o \in t.objectives /\ others(o) # {}
              THEN [t.state[o] EXCEPT !.responsibility =
                       Changed(t.loaded[o], resolve_contributor_responsibility(others(o)))]
              ELSE t.state[o]]
           new == [t EXCEPT !.state = writes]
<1>1. At(r, "remaining") /\ Free(r, rows) /\ Take(r, rows) /\ Continue(r, new)
      /\ UNCHANGED <<db, share>>
  BY DEF Remaining
<1>2. /\ t \in Txn /\ t.op = "deactivate"
      /\ \A o \in Objectives : t.state[o].status \notin {"met", "inherited"}
  BY <1>1, InFlight
<1>3. /\ writes \in [Objectives -> [status : Column(Status),
                                    responsibility : Column(Responsibility)]]
      /\ \A o \in Objectives : writes[o].status \notin {"met", "inherited"}
  <2> SUFFICES ASSUME NEW o \in Objectives
               PROVE  /\ writes[o] \in [status : Column(Status),
                                        responsibility : Column(Responsibility)]
                      /\ writes[o].status \notin {"met", "inherited"}
    OBVIOUS
  <2>1. t.state[o] \in [status : Column(Status), responsibility : Column(Responsibility)]
    BY <1>2 DEF Txn
  <2>2. \A c : Changed(t.loaded[o], resolve_contributor_responsibility(c))
                 \in Column(Responsibility)
    BY DEF resolve_contributor_responsibility, Responsibility, Changed, Column
  <2> QED
    BY <1>2, <2>1, <2>2
<1>4. rows \in SUBSET Rows
  BY <1>2 DEF Rows, Txn
<1>5. /\ \A p : OrgRow(p) \notin rows
      /\ \A o : StateRow(o) \notin rows
  BY RowsDiffer
<1>6. share' \in SUBSET Requests
  BY <1>1 DEF TxnInv, TypeOK
<1> HIDE DEF rows, writes
<1>7. new \in Txn /\ new.op = t.op /\ new.step = t.step /\ new.product = t.product
      /\ new.state = writes
  BY <1>2, <1>3 DEF Txn
<1> HIDE DEF new
<1> QED
  BY <1>1, <1>3, <1>4, <1>5, <1>6, <1>7, StatementStep

\* The states and contributor rows are flushed.
LEMMA WriteStatesInv ==
    ASSUME TxnInv, NEW r \in Requests, WriteStates(r)
    PROVE  TxnInv'
<1> DEFINE t == txn[r]
           changed == {o \in Objectives : t.contributor[o] # KeepRow}
           rows == {StateRow(o) : o \in {x \in Objectives : t.state[x] # NoWrite}}
                     \cup {ContributorRow(o, t.product) : o \in changed}
<1>1. At(r, "write_states") /\ Free(r, rows)
  BY DEF WriteStates
<1>2. CASE Rollback(r)
  BY <1>2, RollbackStep
<1>3. CASE Take(r, rows) /\ Continue(r, t) /\ UNCHANGED <<db, share>>
  <2>1. t \in Txn /\ t.op # "detach"
    BY <1>1, InFlight
  <2>2. rows \in SUBSET Rows
    BY <2>1 DEF Rows, Txn
  <2>3. \A p : OrgRow(p) \notin rows
    BY RowsDiffer
  <2>4. share' \in SUBSET Requests
    BY <1>3 DEF TxnInv, TypeOK
  <2> HIDE DEF rows
  <2> QED
    BY <1>1, <1>3, <2>1, <2>2, <2>3, <2>4, InFlight, StatementStep
<1> QED
  BY <1>2, <1>3 DEF WriteStates

\* Evidence tasks are created.
LEMMA FanoutInv ==
    ASSUME TxnInv, NEW r \in Requests, Fanout(r)
    PROVE  TxnInv'
<1>1. At(r, "fanout") /\ Continue(r, txn[r]) /\ UNCHANGED <<db, held>>
  BY DEF Fanout
<1>2. Take(r, {}) /\ Free(r, {})
  BY <1>1, TakeNothing DEF TxnInv
<1>3. share' \in SUBSET Requests
  BY DEF Fanout, TxnInv, TypeOK
<1> QED
  BY <1>1, <1>2, <1>3, InFlight, StatementStep

\* What regained evidence goes to review.
LEMMA ReviewInv ==
    ASSUME TxnInv, NEW r \in Requests, Review(r)
    PROVE  TxnInv'
<1> DEFINE t == txn[r]
           regained == {o \in LinkWrites(t) : View(r)[o].status = "pending_evidence"}
           rows == {StateRow(o) : o \in regained}
           writes == [o \in Objectives |->
                        IF o \in regained THEN [t.state[o] EXCEPT !.status = "needs_review"]
                        ELSE t.state[o]]
           new == [t EXCEPT !.state = writes]
<1>1. At(r, "review") /\ Free(r, rows) /\ Take(r, rows) /\ Continue(r, new)
      /\ UNCHANGED <<db, share>>
  BY DEF Review
<1>2. /\ t \in Txn /\ t.op = "activate"
      /\ \A o \in Objectives : t.state[o].status \notin {"met", "inherited"}
  BY <1>1, InFlight
<1>3. rows \in SUBSET Rows /\ \A p : OrgRow(p) \notin rows
  BY RowsDiffer DEF Rows, LinkWrites
<1> HIDE DEF regained
<1>4. /\ writes \in [Objectives -> [status : Column(Status),
                                    responsibility : Column(Responsibility)]]
      /\ \A o \in Objectives : writes[o].status \notin {"met", "inherited"}
  <2> SUFFICES ASSUME NEW o \in Objectives
               PROVE  /\ writes[o] \in [status : Column(Status),
                                        responsibility : Column(Responsibility)]
                      /\ writes[o].status \notin {"met", "inherited"}
    OBVIOUS
  <2>1. t.state[o] \in [status : Column(Status), responsibility : Column(Responsibility)]
    BY <1>2 DEF Txn
  <2>2. "needs_review" \in Column(Status)
    BY DEF Column, Status
  <2> QED
    BY <1>2, <2>1, <2>2
<1>5. share' \in SUBSET Requests
  BY <1>1 DEF TxnInv, TypeOK
<1> HIDE DEF rows, writes
<1>6. new \in Txn /\ new.op = t.op /\ new.step = t.step /\ new.product = t.product
      /\ new.state = writes
  BY <1>2, <1>4 DEF Txn
<1> HIDE DEF new
<1> QED
  BY <1>1, <1>2, <1>3, <1>4, <1>5, <1>6, StatementStep

\* recompute_sprs locks the assessment.
LEMMA LockInv ==
    ASSUME TxnInv, NEW r \in Requests, Lock(r)
    PROVE  TxnInv'
<1> DEFINE rows == {AssessmentRow}
<1>1. At(r, "lock") /\ Free(r, rows) /\ Take(r, rows) /\ Continue(r, txn[r])
      /\ UNCHANGED <<db, share>>
  BY DEF Lock
<1>2. /\ rows \in SUBSET Rows
      /\ \A p : OrgRow(p) \notin rows
      /\ \A o : StateRow(o) \notin rows
  BY RowsDiffer DEF Rows
<1>3. share' \in SUBSET Requests
  BY <1>1 DEF TxnInv, TypeOK
<1> QED
  BY <1>1, <1>2, <1>3, InFlight, StatementStep

\* recompute_sprs computes the score from what it sees.
LEMMA ScoreStatementInv ==
    ASSUME TxnInv, NEW r \in Requests, Score(r)
    PROVE  TxnInv'
<1> DEFINE t == txn[r]
           new == [t EXCEPT !.score = ViewScore(r)]
<1>1. At(r, "score") /\ Continue(r, new) /\ UNCHANGED <<db, held, share>>
  BY DEF Score, ViewScore
<1>2. t \in Txn
  BY <1>1, InFlight
<1>3. ViewScore(r) \in Int
  BY ScoreIsInt DEF ViewScore
<1>4. new \in Txn /\ new.op = t.op /\ new.step = t.step /\ new.product = t.product
      /\ new.state = t.state /\ new.score = ViewScore(r)
  BY <1>2, <1>3 DEF Txn
<1>5. Take(r, {}) /\ Free(r, {})
  BY <1>1, TakeNothing DEF TxnInv
<1>6. share' \in SUBSET Requests
  BY <1>1 DEF TxnInv, TypeOK
<1> HIDE DEF new
<1> QED
  BY <1>1, <1>4, <1>5, <1>6, InFlight, StatementStep

-----------------------------------------------------------------------------
(* The commit.                                                             *)

\* What a commit does to the states: nothing if it detaches, and otherwise
\* what the transaction saw when it computed the score.
LEMMA CommittedStates ==
    ASSUME TxnInv, NEW r \in Requests, Commit(r)
    PROVE  /\ state' \in [Objectives -> [status : Status, responsibility : Responsibility]]
           /\ series' = compute_sprs([o \in Objectives |-> state'[o].status])
           /\ score' \in {score, series'}
           /\ score' \in Int /\ series' \in Int
           /\ txn[r].op = "detach" => state' = state
           /\ \A q \in Requests : q # r /\ txn[q].op # "detach" /\ At(q, "commit")
                => state' = state
<1> USE DEF TxnInv
<1>1. /\ At(r, "commit") /\ state' = View(r)
      /\ txn[r].op = "detach" => score' = score /\ series' = series
      /\ txn[r].op # "detach" => /\ score' \in {score, txn[r].score}
                                 /\ series' = txn[r].score
  BY DEF Commit, ScoreAfter
<1>2. state' \in [Objectives -> [status : Status, responsibility : Responsibility]]
  <2> SUFFICES ASSUME NEW o \in Objectives
               PROVE  View(r)[o] \in [status : Status, responsibility : Responsibility]
    BY <1>1 DEF View
  <2>1. txn[r].state[o] \in [status : Column(Status), responsibility : Column(Responsibility)]
    BY DEF TypeOK, Txn
  <2>2. state[o] \in [status : Status, responsibility : Responsibility]
    BY DEF TypeOK
  <2> QED
    BY <2>1, <2>2 DEF View, PutState, Put, Column
<1>3. txn[r].op = "detach" => state' = state
  <2> SUFFICES ASSUME txn[r].op = "detach" PROVE state' = state
    OBVIOUS
  <2>1. \A o \in Objectives : View(r)[o] = state[o]
    BY DEF View, HeldInv
  <2> QED
    BY <1>1, <1>2, <2>1 DEF TypeOK
<1>4. series' = compute_sprs([o \in Objectives |-> state'[o].status])
  <2>1. CASE txn[r].op = "detach"
    BY <1>1, <1>3, <2>1 DEF SeriesIsCurrent
  <2>2. CASE txn[r].op # "detach"
    BY <1>1, <2>2 DEF ScoreInv, ViewScore
  <2> QED
    BY <2>1, <2>2
<1>5. ASSUME NEW q \in Requests, q # r, txn[q].op # "detach", At(q, "commit")
      PROVE  state' = state
  <2>1. AssessmentRow \in held[q]
    BY <1>5 DEF ScoreInv
  <2>2. AssessmentRow \notin held[r]
    BY <1>5, <2>1 DEF RowsHaveOneWriter
  <2>3. txn[r].op = "detach"
    BY <1>1, <2>2 DEF ScoreInv
  <2> QED
    BY <1>3, <2>3
<1>6. score' \in {score, series'}
  BY <1>1
<1>7. score' \in Int /\ series' \in Int
  BY <1>4, <1>6, ScoreIsInt DEF TypeOK
<1> QED
  BY <1>2, <1>3, <1>4, <1>5, <1>6, <1>7

\* A request commits.
LEMMA CommitInv ==
    ASSUME TxnInv, NEW r \in Requests, Commit(r)
    PROVE  TxnInv'
<1> USE DEF TxnInv
<1> DEFINE t == txn[r]
<1>1. /\ At(r, "commit")
      /\ txn' = [txn EXCEPT ![r] = Idle] /\ held' = [held EXCEPT ![r] = {}]
      /\ share' = share \ {r}
  BY DEF Commit, Release
<1>2. txn'[r] = Idle /\ held'[r] = {}
  BY <1>1 DEF TypeOK, HeldInv
<1>3. \A q \in Requests : q # r => txn'[q] = txn[q] /\ held'[q] = held[q]
  BY <1>1 DEF TypeOK, HeldInv
<1>4. t \in Txn
  BY DEF TypeOK
<1>5. contributor' \in [Objectives -> [Products -> Versions \cup {0}]]
  <2> DEFINE new == [o \in Objectives |-> [p \in Products |->
                       IF p = t.product /\ t.contributor[o] # KeepRow THEN t.contributor[o]
                       ELSE contributor[o][p]]]
  <2>1. \A o \in Objectives, p \in Products :
           (IF p = t.product /\ t.contributor[o] # KeepRow THEN t.contributor[o]
            ELSE contributor[o][p]) \in Versions \cup {0}
    <3> SUFFICES ASSUME NEW o \in Objectives, NEW p \in Products
                 PROVE  (IF p = t.product /\ t.contributor[o] # KeepRow THEN t.contributor[o]
                         ELSE contributor[o][p]) \in Versions \cup {0}
      OBVIOUS
    <3>1. t.contributor[o] \in Versions \cup {0, KeepRow}
      BY <1>4 DEF Txn
    <3>2. contributor[o][p] \in Versions \cup {0}
      BY DEF TypeOK
    <3> QED
      BY <3>1, <3>2
  <2>2. contributor' = new
    BY DEF Commit
  <2> QED
    BY <2>1, <2>2
<1>6. link' \in [Objectives -> [cause : {"live", "deactivation", "detached"},
                                by : Products \cup {NoProduct}]]
  <2> SUFFICES ASSUME NEW o \in Objectives
               PROVE  PutLink(o, t.link[o]) \in [cause : {"live", "deactivation", "detached"},
                                                 by : Products \cup {NoProduct}]
    BY DEF Commit
  <2>1. t.link[o] \in [cause : Column({"live", "deactivation", "detached"}),
                       by : Column(Products \cup {NoProduct})]
    BY <1>4 DEF Txn
  <2>2. link[o] \in [cause : {"live", "deactivation", "detached"},
                     by : Products \cup {NoProduct}]
    BY DEF TypeOK
  <2> QED
    BY <2>1, <2>2 DEF PutLink, Put, Column
<1>7. orgProduct' \in [Products -> [status : {"absent", "active", "decommissioned"},
                                    pin : Versions \cup {0}]]
  <2> SUFFICES ASSUME NEW p \in Products, OrgRow(p) \in held[r]
               PROVE  OrgProductAfter(t) \in [status : {"absent", "active", "decommissioned"},
                                              pin : Versions \cup {0}]
    BY DEF Commit, TypeOK
  <2>1. t.op \in ProductOps /\ t.product \in Products
    BY DEF HeldInv, ProgramInv
  <2>2. orgProduct[t.product] \in [status : {"absent", "active", "decommissioned"},
                                   pin : Versions \cup {0}]
    BY <2>1 DEF TypeOK
  <2>3. t.version \in Versions \cup {0}
    BY <1>4 DEF Txn
  <2> QED
    BY <2>1, <2>2, <2>3 DEF OrgProductAfter, ProductOps
<1>8. TypeOK'
  BY <1>1, <1>5, <1>6, <1>7, CommittedStates, IdleIsATxn DEF TypeOK
<1>9. ProgramInv'
  BY <1>2, <1>3, IdleIsATxn DEF ProgramInv, ProductOps
<1>10. HeldInv'
  <2>1. held' \in [Requests -> SUBSET Rows]
    BY <1>1 DEF HeldInv
  <2> QED
    BY <2>1, <1>2, <1>3, IdleIsATxn DEF HeldInv
<1>11. RowsHaveOneWriter'
  BY <1>2, <1>3 DEF RowsHaveOneWriter
<1>12. ScoreInv'
  <2> SUFFICES ASSUME NEW q \in Requests, txn'[q].op # "detach"
               PROVE  /\ At(q, "score")' \/ At(q, "commit")' => AssessmentRow \in held'[q]
                      /\ At(q, "commit")' => txn'[q].score = ViewScore(q)'
    BY DEF ScoreInv
  <2>1. CASE q = r
    BY <2>1, <1>2, IdleIsATxn DEF At
  <2>2. CASE q # r
    <3>1. At(q, "commit") => state' = state
      BY <2>2, <1>3, CommittedStates
    <3> QED
      BY <2>2, <3>1, <1>3, ViewIsPrivate DEF ScoreInv, At
  <2> QED
    BY <2>1, <2>2
<1>13. WriteInv'
  BY <1>2, <1>3 DEF WriteInv, Idle, NoWrite, Keep
<1>14. SeriesIsCurrent'
  BY CommittedStates DEF SeriesIsCurrent
<1> QED
  BY <1>8, <1>9, <1>10, <1>11, <1>12, <1>13, <1>14

-----------------------------------------------------------------------------
(* The invariant, and the theorems.                                        *)

\* Every step keeps the invariant.
LEMMA NextInv == TxnInv /\ [Next]_vars => TxnInv'
<1> SUFFICES ASSUME TxnInv, [Next]_vars PROVE TxnInv'
  OBVIOUS
<1>1. CASE UNCHANGED vars
  BY <1>1 DEF vars, TxnInv, TypeOK, ProgramInv, HeldInv, RowsHaveOneWriter, ScoreInv,
              WriteInv, SeriesIsCurrent, At, ViewScore, View, PutState
<1>2. ASSUME NEW r \in Requests, Arrive(r) PROVE TxnInv'
  BY <1>2, ArriveInv
<1>3. ASSUME NEW r \in Requests, Statement(r) PROVE TxnInv'
  BY <1>3, ReadOrgProductInv, WriteOrgProductInv, ReadLinksInv, WriteLinksInv,
     PatchReadInv, ActivateReadInv, DeactivateReadInv, RemainingInv, MoveReadInv,
     WriteStatesInv, FanoutInv, ReviewInv, LockInv, ScoreStatementInv, CommitInv
  DEF Statement
<1>4. ASSUME NEW r \in Requests, AbortVictim(r) \/ Fail(r) PROVE TxnInv'
  BY <1>4, RollbackStep DEF AbortVictim, Fail
<1> QED
  BY <1>1, <1>2, <1>3, <1>4 DEF Next

\* Every state is reached with the invariant.
THEOREM TxnInvariant == Spec => []TxnInv
<1>1. Init => TxnInv
  BY InitInv
<1>2. TxnInv /\ [Next]_vars => TxnInv'
  BY NextInv
<1> QED
  BY <1>1, <1>2, PTL DEF Spec

\* Committed rows and transactions keep their types (models.py).
THEOREM TypeCorrect == Spec => []TypeOK
<1>1. TxnInv => TypeOK
  BY DEF TxnInv
<1> QED
  BY <1>1, TxnInvariant, PTL

\* However requests interleave, wait for each other's rows, fail or are
\* aborted, the newest score of the series is what the committed control states
\* score (recompute_sprs inserts it under its lock).
THEOREM SeriesFollowsStates == Spec => []SeriesIsCurrent
<1>1. TxnInv => SeriesIsCurrent
  BY DEF TxnInv
<1> QED
  BY <1>1, TxnInvariant, PTL

\* No two requests in flight have both updated or locked a row: what a flush
\* wrote, no other flush overwrites before the commit.
THEOREM OneWriterPerRow == Spec => []RowsHaveOneWriter
<1>1. TxnInv => RowsHaveOneWriter
  BY DEF TxnInv
<1> QED
  BY <1>1, TxnInvariant, PTL

\* Nothing but a commit changes a committed row.
LEMMA OnlyCommitsWrite ==
    ASSUME [Next]_vars, ~ UNCHANGED db
    PROVE  \E r \in Requests : Commit(r)
<1>1. ASSUME UNCHANGED vars PROVE UNCHANGED db
  BY <1>1 DEF vars, db
<1>2. ASSUME NEW r \in Requests, Arrive(r) PROVE UNCHANGED db
  BY <1>2 DEF Arrive, PatchRequest, ActivateRequest, DeactivateRequest, MoveRequest,
              SnapshotRequest, DetachRequest, Request
<1>3. ASSUME NEW r \in Requests, AbortVictim(r) \/ Fail(r) PROVE UNCHANGED db
  BY <1>3 DEF AbortVictim, Fail, Rollback
<1>4. ASSUME NEW r \in Requests, Statement(r), ~ Commit(r) PROVE UNCHANGED db
  <2>1. CASE ReadOrgProduct(r) \/ WriteOrgProduct(r)
    BY <2>1 DEF ReadOrgProduct, WriteOrgProduct, Rollback
  <2>2. CASE ReadLinks(r) \/ WriteLinks(r)
    BY <2>2 DEF ReadLinks, WriteLinks, Rollback
  <2>3. CASE PatchRead(r) \/ ActivateRead(r) \/ DeactivateRead(r)
    BY <2>3 DEF PatchRead, ActivateRead, DeactivateRead, Rollback
  <2>4. CASE Remaining(r) \/ MoveRead(r) \/ WriteStates(r)
    BY <2>4 DEF Remaining, MoveRead, WriteStates, Rollback
  <2>5. CASE Fanout(r) \/ Review(r) \/ Lock(r) \/ Score(r)
    BY <2>5 DEF Fanout, Review, Lock, Score
  <2> QED
    BY <1>4, <2>1, <2>2, <2>3, <2>4, <2>5 DEF Statement
<1> QED
  BY <1>1, <1>2, <1>3, <1>4 DEF Next

\* A product's request, whatever it computed from what it read earlier, never
\* adds a higher score to the series; only the commit of a person's edit does.
LEMMA SeriesRisesByPatch ==
    ASSUME TxnInv, NEW r \in Requests, Commit(r), series' > series
    PROVE  txn[r].op = "patch"
<1> SUFFICES ASSUME txn[r].op # "patch" PROVE FALSE
  OBVIOUS
<1> DEFINE old == [o \in Objectives |-> state[o].status]
           new == [o \in Objectives |-> state'[o].status]
<1>1. \A o \in Objectives : old[o] \notin {"met", "inherited"}
                              => new[o] \notin {"met", "inherited"}
  <2> SUFFICES ASSUME NEW o \in Objectives, state[o].status \notin {"met", "inherited"}
               PROVE  state'[o].status \notin {"met", "inherited"}
    OBVIOUS
  <2>1. txn[r].state[o].status \notin {"met", "inherited"}
    BY DEF TxnInv, WriteInv
  <2>2. state'[o] = View(r)[o]
    BY DEF Commit
  <2> QED
    BY <2>1, <2>2 DEF View, PutState, Put
<1>2. series = compute_sprs(old)
  BY DEF TxnInv, SeriesIsCurrent
<1>3. series' = compute_sprs(new) /\ series' \in Int
  BY CommittedStates
<1>4. series \in Int
  BY DEF TxnInv, TypeOK
<1> HIDE DEF old, new
<1>5. series' <= series
  BY <1>1, <1>2, <1>3, ScoreFalls
<1> QED
  BY <1>3, <1>4, <1>5

\* The scores recompute_sprs writes, however requests interleave, fail or wait:
\* only a person's edit adds a higher one to the series, and what is written to
\* sprs_score is what the states committed with it score.
THEOREM ScoreWritesAlwaysRight == Spec => ScoreWritesAreRight
<1>1. TxnInv /\ [Next]_vars =>
         [series' > series => \E r \in Requests : txn[r].op = "patch" /\ Commit(r)]_vars
  <2> SUFFICES ASSUME TxnInv, [Next]_vars, series' > series
               PROVE  \E r \in Requests : txn[r].op = "patch" /\ Commit(r)
    OBVIOUS
  <2>1. ~ UNCHANGED db
    BY DEF db, TxnInv, TypeOK
  <2>2. PICK r \in Requests : Commit(r)
    BY <2>1, OnlyCommitsWrite
  <2> QED
    BY <2>2, SeriesRisesByPatch
<1>2. TxnInv /\ [Next]_vars =>
         [score' # score =>
             score' = compute_sprs([o \in Objectives |-> state'[o].status])]_vars
  <2> SUFFICES ASSUME TxnInv, [Next]_vars, score' # score
               PROVE  score' = compute_sprs([o \in Objectives |-> state'[o].status])
    OBVIOUS
  <2>1. ~ UNCHANGED db
    BY DEF db
  <2>2. PICK r \in Requests : Commit(r)
    BY <2>1, OnlyCommitsWrite
  <2> QED
    BY <2>2, CommittedStates
<1> QED
  BY <1>1, <1>2, TxnInvariant, PTL
  DEF Spec, ScoreWritesAreRight, OnlyPeopleRaiseTheSeries, WrittenScoreIsCurrent

-----------------------------------------------------------------------------
(* The bundle: what an export has read by each of its statements, and what *)
(* is current of that.                                                     *)

\* What the statements that precede one have read.
ReadBefore ==
    [contacts  |-> {},
     roles     |-> {"contacts"},
     entities  |-> {"contacts", "roles"},
     pending   |-> {"contacts", "roles", "entities"},
     controls  |-> {"contacts", "roles", "entities", "pending"},
     links     |-> {"contacts", "roles", "entities", "pending", "statuses"},
     versions  |-> {"contacts", "roles", "entities", "pending", "statuses", "links"},
     unlinked  |-> {"contacts", "roles", "entities", "pending", "statuses", "links",
                    "versions"},
     archived  |-> {"contacts", "roles", "entities", "pending", "statuses", "links",
                    "versions", "unlinked"},
     raci      |-> {"contacts", "roles", "entities", "pending", "statuses", "links",
                    "versions", "unlinked", "archived"},
     filings   |-> {"contacts", "roles", "entities", "pending", "statuses", "links",
                    "versions", "unlinked", "archived", "raci"},
     documents |-> {"contacts", "roles", "entities", "pending", "statuses", "links",
                    "versions", "unlinked", "archived", "raci", "filings"},
     listLinks |-> {"contacts", "roles", "entities", "pending", "statuses", "links",
                    "versions", "unlinked", "archived", "raci", "filings", "documents"},
     lists     |-> {"contacts", "roles", "entities", "pending", "statuses", "links",
                    "versions", "unlinked", "archived", "raci", "filings", "documents",
                    "listLinks"},
     done      |-> {"contacts", "roles", "entities", "pending", "statuses", "links",
                    "versions", "unlinked", "archived", "raci", "filings", "documents",
                    "listLinks", "lists"},
     idle      |-> {},
     refused   |-> {}]

\* What each of them would read now.
NotedLinks == {x \in LiveLinks : ArtifactRow[x[1]].kind = "document"}
ListLinksNow ==
    {<<ArtifactRow[x[1]].list, ArtifactRow[x[1]].version, x[2]>> :
        x \in {y \in LiveLinks : ArtifactRow[y[1]].kind = "list"}}

Truth ==
    [contacts  |-> DOMAIN bdPerson,
     roles     |-> {p \in DOMAIN bdPerson : bdPerson[p]},
     entities  |-> bdEntity,
     pending   |-> PendingRows(bdPending),
     statuses  |-> bdStatus,
     links     |-> LiveLinks,
     versions  |-> {VersionNow(ArtifactRow[x[1]].version) : x \in NotedLinks},
     unlinked  |-> UnlinkedEvidence,
     archived  |-> {x \in UnlinkedEvidence \X BdObjectives : bdLink[x[1]][x[2]] = "archived"},
     raci      |-> bdHolds,
     filings   |-> bdFilings,
     documents |-> {VersionNow(n) : n \in DocumentRows},
     listLinks |-> ListLinksNow,
     lists     |-> {<<l, bdCurrent[l]>> : l \in bdChosen \cap BdLists}
                       \cup {<<k[1], k[2]>> : k \in {k \in ListLinksNow : k[1] \in bdChosen}}]

Fields == {"score", "contacts", "roles", "raci", "entities", "pending", "statuses", "links",
           "versions", "unlinked", "archived", "filings", "documents", "listLinks", "lists"}

\* The organization's rows.
BdRowsInv ==
    /\ bdStatus \in [BdObjectives -> Engine!Status]
    /\ bdLink \in [Artifacts -> [BdObjectives -> {"none", "live", "archived"}]]
    /\ DOMAIN bdPerson \subseteq People
    /\ bdPerson \in [DOMAIN bdPerson -> BOOLEAN]
    /\ bdHolds \subseteq (DOMAIN bdPerson) \X BdObjectives
    /\ bdDoc \in Seq({"approved", "superseded"}) /\ Len(bdDoc) >= 1
    /\ \A i \in DOMAIN bdDoc : bdDoc[i] = "approved" <=> i = Len(bdDoc)
    /\ bdEntity \cap bdPending = {} /\ bdEntity \cup bdPending \subseteq Assets

\* Evidence that is a version of the document names one that there is.
BdNamedInv ==
    \A e \in Artifacts, o \in BdObjectives :
        bdLink[e][o] = "live" /\ ArtifactRow[e].kind = "document"
            => ArtifactRow[e].version \in DOMAIN bdDoc

\* What an export has read, typed.
BdSnapInv ==
    /\ bdAt \in Statements \cup {"idle", "done", "refused"}
    /\ bdOverlap \in BOOLEAN
    /\ DOMAIN bdSnap = Fields
    /\ bdSnap.versions \cup bdSnap.documents \subseteq NamedVersion
    /\ bdSnap.links \cup bdSnap.archived \subseteq Artifacts \X BdObjectives
    /\ bdSnap.unlinked \subseteq Artifacts
    /\ bdAt = "refused" => bdSnap = EmptySnapshot

\* The assessment's row is held: the score and the statuses stay current.
BdHeldInv ==
    /\ Exporting \/ Done => bdSnap.score = Engine!compute_sprs(bdStatus)
    /\ "statuses" \in ReadBefore[bdAt] => bdSnap.statuses = bdStatus

\* Without overlap, so does everything else.
BdReadInv == ~bdOverlap => \A f \in ReadBefore[bdAt] : bdSnap[f] = Truth[f]

BundleInv == BdRowsInv /\ BdNamedInv /\ BdSnapInv /\ BdHeldInv /\ BdReadInv

-----------------------------------------------------------------------------

\* The snapshot, field by field, after a statement.
LEMMA FieldRead ==
    ASSUME BdSnapInv, NEW s, NEW n, NEW field \in Fields, NEW rows, Reads(s, n, field, rows)
    PROVE  /\ DOMAIN bdSnap' = Fields
           /\ bdSnap'[field] = rows
           /\ \A f \in Fields : f # field => bdSnap'[f] = bdSnap[f]
BY DEF BdSnapInv, Reads

\* The organization without rows, and no export.
LEMMA BdInitInv == BdInit => BundleInv
<1> SUFFICES ASSUME BdInit PROVE BundleInv
  OBVIOUS
<1>1. BdRowsInv
  BY DEF BdInit, BdRowsInv, Engine!Status
<1>2. BdNamedInv
  BY DEF BdInit, BdNamedInv
<1>3. BdSnapInv
  BY DEF BdInit, BdSnapInv, EmptySnapshot, Fields
<1>4. BdHeldInv
  BY DEF BdInit, BdHeldInv, Exporting, Done, Statements, ReadBefore
<1>5. BdReadInv
  BY DEF BdInit, BdReadInv, ReadBefore
<1> QED
  BY <1>1, <1>2, <1>3, <1>4, <1>5 DEF BundleInv

\* What others commit while no export runs, or between the statements of one
\* that they may overlap, leaves what was read as current as before.
LEMMA CommitKeeps ==
    ASSUME BundleInv, Commits, bdStatus' = bdStatus \/ ~Locked
    PROVE  BdSnapInv' /\ BdHeldInv' /\ BdReadInv'
<1>1. /\ bdAt' = bdAt /\ bdSnap' = bdSnap /\ bdOverlap' = bdOverlap /\ bdChosen' = bdChosen
      /\ bdAt = "idle" \/ (bdOverlap /\ Exporting)
  BY DEF Commits
<1>2. BdSnapInv'
  BY <1>1 DEF BundleInv, BdSnapInv
<1>3. CASE bdAt = "idle"
  <2>1. BdHeldInv'
    BY <1>1, <1>3 DEF BdHeldInv, Exporting, Done, Statements, ReadBefore
  <2>2. BdReadInv'
    BY <1>1, <1>3 DEF BdReadInv, ReadBefore
  <2> QED
    BY <1>2, <2>1, <2>2
<1>4. CASE bdOverlap /\ Exporting
  <2>1. bdStatus' = bdStatus
    BY <1>4 DEF Locked
  <2>2. BdHeldInv'
    BY <1>1, <2>1 DEF BundleInv, BdHeldInv, Exporting, Done
  <2>3. BdReadInv'
    BY <1>1, <1>4 DEF BdReadInv
  <2> QED
    BY <1>2, <2>2, <2>3
<1> QED
  BY <1>1, <1>3, <1>4

\* Every commit of another request leaves rows that go together.
LEMMA CommitRows ==
    ASSUME BundleInv, BundleAssumption, OthersCommit
    PROVE  BdRowsInv' /\ BdNamedInv'
<1> USE DEF BundleInv
<1>1. ASSUME NEW o \in BdObjectives, NEW s \in BdStatuses, SetStatus(o, s)
      PROVE  BdRowsInv' /\ BdNamedInv'
  <2>1. /\ bdStatus' = [bdStatus EXCEPT ![o] = s] /\ s \in Engine!Status
        /\ UNCHANGED <<bdPerson, bdHolds, bdLink, bdDoc, bdCurrent, bdEntity, bdPending>>
    BY <1>1 DEF SetStatus, bdPeople, bdThings, BundleAssumption
  <2> QED
    BY <2>1 DEF BdRowsInv, BdNamedInv
<1>2. ASSUME NEW e \in Artifacts, NEW o \in BdObjectives, AttachArtifact(e, o)
      PROVE  BdRowsInv' /\ BdNamedInv'
  <2>1. /\ bdLink' = [bdLink EXCEPT ![e][o] = "live"]
        /\ ArtifactRow[e].kind = "document" => ArtifactRow[e].version = Len(bdDoc)
        /\ UNCHANGED <<bdStatus, bdPerson, bdHolds, bdDoc, bdCurrent, bdEntity, bdPending>>
    BY <1>2 DEF AttachArtifact, bdPeople
  <2>2. BdRowsInv'
    BY <2>1 DEF BdRowsInv
  <2>3. Len(bdDoc) \in DOMAIN bdDoc
    BY DEF BdRowsInv
  <2>4. \A d \in Artifacts, t \in BdObjectives :
           bdLink'[d][t] = IF d = e /\ t = o THEN "live" ELSE bdLink[d][t]
    BY <2>1 DEF BdRowsInv
  <2> QED
    BY <2>1, <2>2, <2>3, <2>4 DEF BdNamedInv
<1>3. ASSUME NEW e \in Artifacts, NEW o \in BdObjectives, DetachArtifact(e, o)
      PROVE  BdRowsInv' /\ BdNamedInv'
  <2>1. /\ bdLink' = [bdLink EXCEPT ![e][o] = "archived"]
        /\ UNCHANGED <<bdStatus, bdPerson, bdHolds, bdDoc, bdCurrent, bdEntity, bdPending>>
    BY <1>3 DEF DetachArtifact, bdPeople
  <2>2. BdRowsInv'
    BY <2>1 DEF BdRowsInv
  <2>3. \A d \in Artifacts, t \in BdObjectives :
           bdLink'[d][t] = IF d = e /\ t = o THEN "archived" ELSE bdLink[d][t]
    BY <2>1 DEF BdRowsInv
  <2> QED
    BY <2>1, <2>2, <2>3 DEF BdNamedInv
<1>4. ASSUME NEW p \in People, AddContact(p) \/ GiveRole(p) \/ RemoveContact(p)
      PROVE  BdRowsInv' /\ BdNamedInv'
  <2>1. UNCHANGED <<bdStatus, bdLink, bdDoc, bdCurrent, bdEntity, bdPending>>
    BY <1>4 DEF AddContact, GiveRole, RemoveContact, bdThings
  <2>2. /\ DOMAIN bdPerson' \subseteq People
        /\ bdPerson' \in [DOMAIN bdPerson' -> BOOLEAN]
        /\ bdHolds' \subseteq (DOMAIN bdPerson') \X BdObjectives
    <3>1. CASE AddContact(p)
      BY <3>1 DEF AddContact, BdRowsInv
    <3>2. CASE GiveRole(p)
      BY <3>2 DEF GiveRole, BdRowsInv
    <3>3. CASE RemoveContact(p)
      BY <3>3 DEF RemoveContact, BdRowsInv
    <3> QED
      BY <1>4, <3>1, <3>2, <3>3
  <2> QED
    BY <2>1, <2>2 DEF BdRowsInv, BdNamedInv
<1>5. ASSUME NEW p \in People, NEW o \in BdObjectives, AssignRaci(p, o)
      PROVE  BdRowsInv' /\ BdNamedInv'
  <2>1. /\ bdHolds' = bdHolds \cup {<<p, o>>} /\ p \in DOMAIN bdPerson
        /\ UNCHANGED <<bdStatus, bdPerson, bdLink, bdDoc, bdCurrent, bdEntity, bdPending>>
    BY <1>5 DEF AssignRaci, bdThings
  <2> QED
    BY <2>1 DEF BdRowsInv, BdNamedInv
<1>6. ASSUME PublishVersion PROVE BdRowsInv' /\ BdNamedInv'
  <2>1. /\ bdDoc' = Published
        /\ UNCHANGED <<bdStatus, bdPerson, bdHolds, bdLink, bdCurrent, bdEntity, bdPending>>
    BY <1>6 DEF PublishVersion, bdPeople
  <2> DEFINE old == [i \in DOMAIN bdDoc |-> "superseded"]
  <2>2. old \in Seq({"approved", "superseded"}) /\ Len(old) = Len(bdDoc)
    <3>1. old \in [1..Len(bdDoc) -> {"approved", "superseded"}] /\ Len(bdDoc) \in Nat
      BY DEF BdRowsInv
    <3> QED
      BY <3>1
  <2>3. \A i \in 1..Len(old) : old[i] = "superseded"
    BY <2>2 DEF BdRowsInv
  <2>4. bdDoc' = Append(old, "approved")
    BY <2>1 DEF Published
  <2> HIDE DEF old
  <2>5. /\ bdDoc' \in Seq({"approved", "superseded"}) /\ Len(bdDoc') = Len(bdDoc) + 1
        /\ Len(bdDoc) \in Nat
        /\ \A i \in DOMAIN bdDoc' : bdDoc'[i] = "approved" <=> i = Len(bdDoc')
    BY <2>2, <2>3, <2>4 DEF BdRowsInv
  <2>6. BdRowsInv'
    BY <2>1, <2>5 DEF BdRowsInv
  <2>7. DOMAIN bdDoc \subseteq DOMAIN bdDoc'
    BY <2>5 DEF BdRowsInv
  <2> QED
    BY <2>1, <2>6, <2>7 DEF BdNamedInv
<1>7. ASSUME NEW l \in BdLists, SaveListVersion(l) PROVE BdRowsInv' /\ BdNamedInv'
  BY <1>7 DEF SaveListVersion, bdPeople, BdRowsInv, BdNamedInv
<1>8. ASSUME NEW a \in Assets, ObserveAsset(a) PROVE BdRowsInv' /\ BdNamedInv'
  BY <1>8 DEF ObserveAsset, bdPeople, BdRowsInv, BdNamedInv
<1>9. ASSUME NEW a \in Assets, NEW v \in {"approved", "rejected"}, DecideAsset(a, v)
      PROVE  BdRowsInv' /\ BdNamedInv'
  BY <1>9 DEF DecideAsset, bdPeople, BdRowsInv, BdNamedInv
<1>10. ASSUME NEW i, FileSubmission(i) \/ VoidFiling(i) PROVE BdRowsInv' /\ BdNamedInv'
  BY <1>10 DEF FileSubmission, VoidFiling, bdPeople, BdRowsInv, BdNamedInv
<1> QED
  BY <1>1, <1>2, <1>3, <1>4, <1>5, <1>6, <1>7, <1>8, <1>9, <1>10 DEF OthersCommit

\* A change of status needs the assessment's row; nothing else writes one.
LEMMA CommitSteps ==
    ASSUME OthersCommit
    PROVE  Commits /\ (bdStatus' = bdStatus \/ ~Locked)
BY DEF OthersCommit, SetStatus, AttachArtifact, DetachArtifact, AddContact, GiveRole,
       RemoveContact, AssignRaci, PublishVersion, SaveListVersion, ObserveAsset, DecideAsset,
       FileSubmission, VoidFiling

\* A statement's rows are what they are now, if the reads it rests on are.
LEMMA ReadsNow ==
    ASSUME BundleInv, BundleAssumption, NEW s, NEW n, NEW field \in Fields \ {"score"}, NEW rows,
           Reads(s, n, field, rows),
           s \in Statements, n \in Statements \cup {"done"},
           ReadBefore[n] = ReadBefore[s] \cup {field}, field \notin ReadBefore[s],
           ReadBefore[s] \subseteq Fields,
           ~bdOverlap => rows = Truth[field],
           field = "statuses" => rows = bdStatus
    PROVE  BdHeldInv' /\ BdReadInv'
<1>1. /\ bdAt = s /\ bdAt' = n
      /\ bdStatus' = bdStatus /\ bdOverlap' = bdOverlap
      /\ UNCHANGED <<bdLink, bdDoc, bdCurrent, bdPerson, bdHolds, bdEntity, bdPending, bdFilings>>
      /\ bdChosen' = bdChosen
  BY DEF Reads, bdOrg, bdPeople, bdThings
<1>2. /\ bdSnap'[field] = rows
      /\ \A f \in Fields : f # field => bdSnap'[f] = bdSnap[f]
  BY FieldRead DEF BundleInv
<1>3. bdSnap'.score = bdSnap.score
  BY <1>2 DEF Fields
<1>4. BdHeldInv'
  <2>1. bdSnap'.score = Engine!compute_sprs(bdStatus')
    BY <1>1, <1>3 DEF BundleInv, BdHeldInv, Exporting
  <2>2. ASSUME "statuses" \in ReadBefore[n] PROVE bdSnap'.statuses = bdStatus'
    <3>1. CASE field = "statuses"
      BY <3>1, <1>1, <1>2
    <3>2. CASE field # "statuses"
      BY <3>2, <2>2, <1>1, <1>2 DEF BundleInv, BdHeldInv, Fields
    <3> QED
      BY <3>1, <3>2
  <2> QED
    BY <1>1, <2>1, <2>2 DEF BdHeldInv
<1>5. Truth' = Truth
  BY <1>1 DEF Truth, LiveLinks, NotedLinks, ListLinksNow, UnlinkedEvidence, VersionNow,
              DocumentRows, AttachedHere, PendingRows
<1>6. BdReadInv'
  BY <1>1, <1>2, <1>5 DEF BundleInv, BdReadInv
<1> QED
  BY <1>4, <1>6

\* The types of what was read stay, if those of what is read now are right.
LEMMA ReadsTyped ==
    ASSUME BundleInv, NEW s, NEW n, NEW field \in Fields, NEW rows, Reads(s, n, field, rows),
           n \in Statements \cup {"done"},
           field \in {"versions", "documents"} => rows \subseteq NamedVersion,
           field \in {"links", "archived"} => rows \subseteq Artifacts \X BdObjectives,
           field = "unlinked" => rows \subseteq Artifacts
    PROVE  BdSnapInv'
<1>1. /\ DOMAIN bdSnap' = Fields
      /\ bdSnap'[field] = rows
      /\ \A f \in Fields : f # field => bdSnap'[f] = bdSnap[f]
  BY FieldRead DEF BundleInv
<1>2. bdAt' = n /\ bdOverlap' = bdOverlap /\ n # "refused"
  BY DEF Reads, Statements
<1>3. bdSnap'.versions \subseteq NamedVersion /\ bdSnap'.documents \subseteq NamedVersion
  BY <1>1 DEF BundleInv, BdSnapInv, Fields
<1>4. /\ bdSnap'.links \subseteq Artifacts \X BdObjectives
      /\ bdSnap'.archived \subseteq Artifacts \X BdObjectives
  BY <1>1 DEF BundleInv, BdSnapInv, Fields
<1>5. bdSnap'.unlinked \subseteq Artifacts
  BY <1>1 DEF BundleInv, BdSnapInv, Fields
<1> QED
  BY <1>1, <1>2, <1>3, <1>4, <1>5 DEF BundleInv, BdSnapInv

\* What a note or an entry says of a version.
LEMMA VersionTyped ==
    ASSUME BdRowsInv, NEW n \in Nat
    PROVE  VersionNow(n) \in NamedVersion
BY DEF BdRowsInv, VersionNow, NamedVersion

\* An artifact's version.
LEMMA RowTyped ==
    ASSUME BundleAssumption, NEW e \in Artifacts
    PROVE  ArtifactRow[e].version \in Nat
BY DEF BundleAssumption, EvidenceRow

\* Each statement of an export, whatever it read before it.
LEMMA ReadSteps ==
    ASSUME BundleInv, BundleAssumption,
           \/ ReadContacts \/ ReadRoles \/ ReadEntities \/ ReadPending \/ ReadControls
           \/ ReadEvidence \/ ReadNamedVersions \/ ReadUnlinked \/ ReadArchived \/ ReadRaci
           \/ ReadFilings \/ ReadDocuments \/ ReadListLinks \/ ReadLists
    PROVE  BdSnapInv' /\ BdHeldInv' /\ BdReadInv'
<1> DEFINE Goal == BdSnapInv' /\ BdHeldInv' /\ BdReadInv'
<1> SUFFICES Goal
  OBVIOUS
<1>1. CASE ReadContacts
  <2> DEFINE rows == ContactRows
  <2>1. Reads("contacts", "roles", "contacts", rows)
    BY <1>1 DEF ReadContacts
  <2>2. rows = Truth["contacts"]
    BY DEF Truth, ContactRows
  <2> HIDE DEF rows
  <2>4. BdSnapInv'
    BY <2>1, ReadsTyped DEF Statements, Fields
  <2>5. /\ ReadBefore["roles"] = ReadBefore["contacts"] \cup {"contacts"}
        /\ "contacts" \notin ReadBefore["contacts"] /\ ReadBefore["contacts"] \subseteq Fields
    BY DEF ReadBefore, Fields
  <2>6. /\ "contacts" \in Fields \ {"score"} /\ "contacts" \in Statements
        /\ "roles" \in Statements \cup {"done"}
    BY DEF Fields, Statements
  <2> QED
    BY <2>1, <2>2, <2>4, <2>5, <2>6, ReadsNow
<1>2. CASE ReadRoles
  <2> DEFINE rows == {p \in bdSnap.contacts : p \in DOMAIN bdPerson /\ bdPerson[p]}
  <2>1. Reads("roles", "entities", "roles", rows)
    BY <1>2 DEF ReadRoles
  <2>2. ~bdOverlap => rows = Truth["roles"]
    <3>1. ~bdOverlap => bdSnap.contacts = Truth["contacts"]
      BY <2>1 DEF BundleInv, BdReadInv, ReadBefore, Reads
    <3> QED
      BY <3>1 DEF Truth
  <2> HIDE DEF rows
  <2>4. BdSnapInv'
    BY <2>1, ReadsTyped DEF Statements, Fields
  <2>5. /\ ReadBefore["entities"] = ReadBefore["roles"] \cup {"roles"}
        /\ "roles" \notin ReadBefore["roles"] /\ ReadBefore["roles"] \subseteq Fields
    BY DEF ReadBefore, Fields
  <2>6. /\ "roles" \in Fields \ {"score"} /\ "roles" \in Statements
        /\ "entities" \in Statements \cup {"done"}
    BY DEF Fields, Statements
  <2> QED
    BY <2>1, <2>2, <2>4, <2>5, <2>6, ReadsNow
<1>3. CASE ReadEntities
  <2> DEFINE rows == bdEntity
  <2>1. Reads("entities", "pending", "entities", rows)
    BY <1>3 DEF ReadEntities
  <2>2. rows = Truth["entities"]
    BY DEF Truth
  <2> HIDE DEF rows
  <2>4. BdSnapInv'
    BY <2>1, ReadsTyped DEF Statements, Fields
  <2>5. /\ ReadBefore["pending"] = ReadBefore["entities"] \cup {"entities"}
        /\ "entities" \notin ReadBefore["entities"] /\ ReadBefore["entities"] \subseteq Fields
    BY DEF ReadBefore, Fields
  <2>6. /\ "entities" \in Fields \ {"score"} /\ "entities" \in Statements
        /\ "pending" \in Statements \cup {"done"}
    BY DEF Fields, Statements
  <2> QED
    BY <2>1, <2>2, <2>4, <2>5, <2>6, ReadsNow
<1>4. CASE ReadPending
  <2> DEFINE rows == PendingRows(bdPending)
  <2>1. Reads("pending", "controls", "pending", rows)
    BY <1>4 DEF ReadPending
  <2>2. rows = Truth["pending"]
    BY DEF Truth
  <2> HIDE DEF rows
  <2>4. BdSnapInv'
    BY <2>1, ReadsTyped DEF Statements, Fields
  <2>5. /\ ReadBefore["controls"] = ReadBefore["pending"] \cup {"pending"}
        /\ "pending" \notin ReadBefore["pending"] /\ ReadBefore["pending"] \subseteq Fields
    BY DEF ReadBefore, Fields
  <2>6. /\ "pending" \in Fields \ {"score"} /\ "pending" \in Statements
        /\ "controls" \in Statements \cup {"done"}
    BY DEF Fields, Statements
  <2> QED
    BY <2>1, <2>2, <2>4, <2>5, <2>6, ReadsNow
<1>5. CASE ReadControls
  <2> DEFINE rows == bdStatus
  <2>1. Reads("controls", "links", "statuses", rows)
    BY <1>5 DEF ReadControls
  <2>2. rows = Truth["statuses"]
    BY DEF Truth
  <2> HIDE DEF rows
  <2>4. BdSnapInv'
    BY <2>1, ReadsTyped DEF Statements, Fields
  <2>5. /\ ReadBefore["links"] = ReadBefore["controls"] \cup {"statuses"}
        /\ "statuses" \notin ReadBefore["controls"] /\ ReadBefore["controls"] \subseteq Fields
    BY DEF ReadBefore, Fields
  <2>6. /\ "statuses" \in Fields \ {"score"} /\ "controls" \in Statements
        /\ "links" \in Statements \cup {"done"}
    BY DEF Fields, Statements
  <2>7. rows = bdStatus
    BY DEF rows
  <2> QED
    BY <2>1, <2>2, <2>4, <2>5, <2>6, <2>7, ReadsNow
<1>6. CASE ReadEvidence
  <2> DEFINE rows == LiveLinks
  <2>1. Reads("links", "versions", "links", rows)
    BY <1>6 DEF ReadEvidence
  <2>2. rows = Truth["links"]
    BY DEF Truth
  <2>3. rows \subseteq Artifacts \X BdObjectives
    BY DEF LiveLinks
  <2> HIDE DEF rows
  <2>4. BdSnapInv'
    BY <2>1, <2>3, ReadsTyped DEF Statements, Fields
  <2>5. /\ ReadBefore["versions"] = ReadBefore["links"] \cup {"links"}
        /\ "links" \notin ReadBefore["links"] /\ ReadBefore["links"] \subseteq Fields
    BY DEF ReadBefore, Fields
  <2>6. /\ "links" \in Fields \ {"score"} /\ "links" \in Statements
        /\ "versions" \in Statements \cup {"done"}
    BY DEF Fields, Statements
  <2> QED
    BY <2>1, <2>2, <2>4, <2>5, <2>6, ReadsNow
<1>7. CASE ReadNamedVersions
  <2> DEFINE rows == {VersionNow(ArtifactRow[x[1]].version) :
                       x \in {y \in bdSnap.links : ArtifactRow[y[1]].kind = "document"}}
  <2>1. Reads("versions", "unlinked", "versions", rows)
    BY <1>7 DEF ReadNamedVersions
  <2>2. ~bdOverlap => rows = Truth["versions"]
    <3>1. ~bdOverlap => bdSnap.links = Truth["links"]
      BY <2>1 DEF BundleInv, BdReadInv, ReadBefore, Reads
    <3> QED
      BY <3>1 DEF Truth, NotedLinks
  <2>3. rows \subseteq NamedVersion
    <3>1. ASSUME NEW y \in bdSnap.links PROVE ArtifactRow[y[1]].version \in Nat
      BY RowTyped DEF BundleInv, BdSnapInv
    <3> QED
      BY <3>1, VersionTyped DEF BundleInv
  <2> HIDE DEF rows
  <2>4. BdSnapInv'
    BY <2>1, <2>3, ReadsTyped DEF Statements, Fields
  <2>5. /\ ReadBefore["unlinked"] = ReadBefore["versions"] \cup {"versions"}
        /\ "versions" \notin ReadBefore["versions"] /\ ReadBefore["versions"] \subseteq Fields
    BY DEF ReadBefore, Fields
  <2>6. /\ "versions" \in Fields \ {"score"} /\ "versions" \in Statements
        /\ "unlinked" \in Statements \cup {"done"}
    BY DEF Fields, Statements
  <2> QED
    BY <2>1, <2>2, <2>4, <2>5, <2>6, ReadsNow
<1>8. CASE ReadUnlinked
  <2> DEFINE rows == UnlinkedEvidence
  <2>1. Reads("unlinked", "archived", "unlinked", rows)
    BY <1>8 DEF ReadUnlinked
  <2>2. rows = Truth["unlinked"]
    BY DEF Truth
  <2>3. rows \subseteq Artifacts
    BY DEF UnlinkedEvidence
  <2> HIDE DEF rows
  <2>4. BdSnapInv'
    BY <2>1, <2>3, ReadsTyped DEF Statements, Fields
  <2>5. /\ ReadBefore["archived"] = ReadBefore["unlinked"] \cup {"unlinked"}
        /\ "unlinked" \notin ReadBefore["unlinked"] /\ ReadBefore["unlinked"] \subseteq Fields
    BY DEF ReadBefore, Fields
  <2>6. /\ "unlinked" \in Fields \ {"score"} /\ "unlinked" \in Statements
        /\ "archived" \in Statements \cup {"done"}
    BY DEF Fields, Statements
  <2> QED
    BY <2>1, <2>2, <2>4, <2>5, <2>6, ReadsNow
<1>9. CASE ReadArchived
  <2> DEFINE rows == {x \in bdSnap.unlinked \X BdObjectives : bdLink[x[1]][x[2]] = "archived"}
  <2>1. Reads("archived", "raci", "archived", rows)
    BY <1>9 DEF ReadArchived
  <2>2. ~bdOverlap => rows = Truth["archived"]
    <3>1. ~bdOverlap => bdSnap.unlinked = Truth["unlinked"]
      BY <2>1 DEF BundleInv, BdReadInv, ReadBefore, Reads
    <3> QED
      BY <3>1 DEF Truth
  <2>3. rows \subseteq Artifacts \X BdObjectives
    BY DEF BundleInv, BdSnapInv
  <2> HIDE DEF rows
  <2>4. BdSnapInv'
    BY <2>1, <2>3, ReadsTyped DEF Statements, Fields
  <2>5. /\ ReadBefore["raci"] = ReadBefore["archived"] \cup {"archived"}
        /\ "archived" \notin ReadBefore["archived"] /\ ReadBefore["archived"] \subseteq Fields
    BY DEF ReadBefore, Fields
  <2>6. /\ "archived" \in Fields \ {"score"} /\ "archived" \in Statements
        /\ "raci" \in Statements \cup {"done"}
    BY DEF Fields, Statements
  <2> QED
    BY <2>1, <2>2, <2>4, <2>5, <2>6, ReadsNow
<1>10. CASE ReadRaci
  <2> DEFINE rows == bdHolds
  <2>1. Reads("raci", "filings", "raci", rows)
    BY <1>10 DEF ReadRaci
  <2>2. rows = Truth["raci"]
    BY DEF Truth
  <2> HIDE DEF rows
  <2>4. BdSnapInv'
    BY <2>1, ReadsTyped DEF Statements, Fields
  <2>5. /\ ReadBefore["filings"] = ReadBefore["raci"] \cup {"raci"}
        /\ "raci" \notin ReadBefore["raci"] /\ ReadBefore["raci"] \subseteq Fields
    BY DEF ReadBefore, Fields
  <2>6. /\ "raci" \in Fields \ {"score"} /\ "raci" \in Statements
        /\ "filings" \in Statements \cup {"done"}
    BY DEF Fields, Statements
  <2> QED
    BY <2>1, <2>2, <2>4, <2>5, <2>6, ReadsNow
<1>11. CASE ReadFilings
  <2> DEFINE rows == bdFilings
  <2>1. Reads("filings", "documents", "filings", rows)
    BY <1>11 DEF ReadFilings
  <2>2. rows = Truth["filings"]
    BY DEF Truth
  <2> HIDE DEF rows
  <2>4. BdSnapInv'
    BY <2>1, ReadsTyped DEF Statements, Fields
  <2>5. /\ ReadBefore["documents"] = ReadBefore["filings"] \cup {"filings"}
        /\ "filings" \notin ReadBefore["filings"] /\ ReadBefore["filings"] \subseteq Fields
    BY DEF ReadBefore, Fields
  <2>6. /\ "filings" \in Fields \ {"score"} /\ "filings" \in Statements
        /\ "documents" \in Statements \cup {"done"}
    BY DEF Fields, Statements
  <2> QED
    BY <2>1, <2>2, <2>4, <2>5, <2>6, ReadsNow
<1>12. CASE ReadDocuments
  <2> DEFINE rows == {VersionNow(n) : n \in DocumentRows}
  <2>1. Reads("documents", "listLinks", "documents", rows)
    BY <1>12 DEF ReadDocuments
  <2>2. rows = Truth["documents"]
    BY DEF Truth
  <2>3. rows \subseteq NamedVersion
    <3>1. DocumentRows \subseteq Nat
      BY DEF DocumentRows, BundleInv, BdRowsInv
    <3> QED
      BY <3>1, VersionTyped DEF BundleInv
  <2> HIDE DEF rows
  <2>4. BdSnapInv'
    BY <2>1, <2>3, ReadsTyped DEF Statements, Fields
  <2>5. /\ ReadBefore["listLinks"] = ReadBefore["documents"] \cup {"documents"}
        /\ "documents" \notin ReadBefore["documents"] /\ ReadBefore["documents"] \subseteq Fields
    BY DEF ReadBefore, Fields
  <2>6. /\ "documents" \in Fields \ {"score"} /\ "documents" \in Statements
        /\ "listLinks" \in Statements \cup {"done"}
    BY DEF Fields, Statements
  <2> QED
    BY <2>1, <2>2, <2>4, <2>5, <2>6, ReadsNow
<1>13. CASE ReadListLinks
  <2> DEFINE rows == ListLinksNow
  <2>1. Reads("listLinks", "lists", "listLinks", rows)
    BY <1>13 DEF ReadListLinks, ListLinksNow
  <2>2. rows = Truth["listLinks"]
    BY DEF Truth
  <2> HIDE DEF rows
  <2>4. BdSnapInv'
    BY <2>1, ReadsTyped DEF Statements, Fields
  <2>5. /\ ReadBefore["lists"] = ReadBefore["listLinks"] \cup {"listLinks"}
        /\ "listLinks" \notin ReadBefore["listLinks"] /\ ReadBefore["listLinks"] \subseteq Fields
    BY DEF ReadBefore, Fields
  <2>6. /\ "listLinks" \in Fields \ {"score"} /\ "listLinks" \in Statements
        /\ "lists" \in Statements \cup {"done"}
    BY DEF Fields, Statements
  <2> QED
    BY <2>1, <2>2, <2>4, <2>5, <2>6, ReadsNow
<1>14. CASE ReadLists
  <2> DEFINE rows == ListVersions(bdChosen)
  <2>1. Reads("lists", "done", "lists", rows)
    BY <1>14 DEF ReadLists
  <2>2. ~bdOverlap => rows = Truth["lists"]
    <3>1. ~bdOverlap => bdSnap.listLinks = Truth["listLinks"]
      BY <2>1 DEF BundleInv, BdReadInv, ReadBefore, Reads
    <3>2. bdChosen \cap BdLists = bdChosen
      BY <1>14 DEF ReadLists
    <3> QED
      BY <3>1, <3>2 DEF Truth, ListVersions
  <2> HIDE DEF rows
  <2>4. BdSnapInv'
    BY <2>1, ReadsTyped DEF Statements, Fields
  <2>5. /\ ReadBefore["done"] = ReadBefore["lists"] \cup {"lists"}
        /\ "lists" \notin ReadBefore["lists"] /\ ReadBefore["lists"] \subseteq Fields
    BY DEF ReadBefore, Fields
  <2>6. /\ "lists" \in Fields \ {"score"} /\ "lists" \in Statements
        /\ "done" \in Statements \cup {"done"}
    BY DEF Fields, Statements
  <2> QED
    BY <2>1, <2>2, <2>4, <2>5, <2>6, ReadsNow
<1> QED
  BY <1>1, <1>2, <1>3, <1>4, <1>5, <1>6, <1>7, <1>8,
     <1>9, <1>10, <1>11, <1>12, <1>13, <1>14

\* An export begins with the score of the statuses it finds, and holds the row.
LEMMA ExportBegins ==
    ASSUME BundleInv, NEW chosen, SnapshotBundle(chosen)
    PROVE  BdSnapInv' /\ BdHeldInv' /\ BdReadInv'
<1>1. /\ bdAt' = "contacts" /\ bdStatus' = bdStatus /\ bdOverlap' = bdOverlap
      /\ bdSnap' = [EmptySnapshot EXCEPT !.score = Engine!compute_sprs(bdStatus)]
  BY DEF SnapshotBundle, bdOrg
<1>2. DOMAIN EmptySnapshot = Fields
  BY DEF EmptySnapshot, Fields
<1>3. /\ DOMAIN bdSnap' = Fields
      /\ bdSnap'.score = Engine!compute_sprs(bdStatus)
      /\ \A f \in Fields : f # "score" => bdSnap'[f] = EmptySnapshot[f]
  BY <1>1, <1>2 DEF Fields
<1>4. /\ bdSnap'.versions = {} /\ bdSnap'.documents = {} /\ bdSnap'.links = {}
      /\ bdSnap'.archived = {} /\ bdSnap'.unlinked = {}
  BY <1>3 DEF Fields, EmptySnapshot
<1>5. BdSnapInv'
  BY <1>1, <1>3, <1>4 DEF BundleInv, BdSnapInv, Statements
<1>6. BdHeldInv'
  BY <1>1, <1>3 DEF BdHeldInv, ReadBefore
<1>7. BdReadInv'
  BY <1>1 DEF BdReadInv, ReadBefore
<1> QED
  BY <1>5, <1>6, <1>7

\* It ends with nothing read, answered or refused.
LEMMA ExportEnds ==
    ASSUME BundleInv, ExportRefused \/ ExportAnswered
    PROVE  BdSnapInv' /\ BdHeldInv' /\ BdReadInv'
<1>1. bdAt' \in {"idle", "refused"} /\ bdSnap' = EmptySnapshot /\ bdOverlap' = bdOverlap
  BY DEF ExportRefused, ExportAnswered
<1>2. BdSnapInv'
  BY <1>1 DEF BundleInv, BdSnapInv, EmptySnapshot, Fields
<1>3. BdHeldInv'
  BY <1>1 DEF BdHeldInv, Exporting, Done, Statements, ReadBefore
<1>4. BdReadInv'
  BY <1>1 DEF BdReadInv, ReadBefore
<1> QED
  BY <1>2, <1>3, <1>4

\* An export changes nothing it reads.
LEMMA ExportReadsOnly ==
    ASSUME BdNext, ~OthersCommit
    PROVE  UNCHANGED bdOrg
BY DEF BdNext, SnapshotBundle, ReadContacts, ReadRoles, ReadEntities, ReadPending, ReadControls,
       ReadEvidence, ReadNamedVersions, ReadUnlinked, ReadArchived, ReadRaci, ReadFilings,
       ReadDocuments, ReadListLinks, ReadLists, ExportRefused, ExportAnswered, Reads

\* The invariant is inductive.
LEMMA BundleStep ==
    ASSUME BundleInv, BundleAssumption, [BdNext]_bdVars
    PROVE  BundleInv'
<1>1. CASE OthersCommit
  BY <1>1, CommitSteps, CommitRows, CommitKeeps DEF BundleInv
<1>2. ASSUME UNCHANGED bdOrg PROVE BdRowsInv' /\ BdNamedInv'
  BY <1>2 DEF BundleInv, BdRowsInv, BdNamedInv, bdOrg, bdPeople, bdThings
<1>3. CASE BdNext /\ ~OthersCommit
  <2>1. BdRowsInv' /\ BdNamedInv'
    BY <1>2, <1>3, ExportReadsOnly
  <2>2. BdSnapInv' /\ BdHeldInv' /\ BdReadInv'
    <3>1. CASE \E chosen \in Chosen : SnapshotBundle(chosen)
      BY <3>1, ExportBegins
    <3>2. CASE ExportRefused \/ ExportAnswered
      BY <3>2, ExportEnds
    <3>3. CASE \/ ReadContacts \/ ReadRoles \/ ReadEntities \/ ReadPending \/ ReadControls
               \/ ReadEvidence \/ ReadNamedVersions \/ ReadUnlinked \/ ReadArchived \/ ReadRaci
               \/ ReadFilings \/ ReadDocuments \/ ReadListLinks \/ ReadLists
      BY <3>3, ReadSteps
    <3> QED
      BY <1>3, <3>1, <3>2, <3>3 DEF BdNext
  <2> QED
    BY <2>1, <2>2 DEF BundleInv
<1>4. CASE UNCHANGED bdVars
  <2>1. /\ UNCHANGED bdOrg /\ bdAt' = bdAt /\ bdSnap' = bdSnap /\ bdOverlap' = bdOverlap
        /\ bdChosen' = bdChosen
    BY <1>4 DEF bdVars
  <2>2. Truth' = Truth /\ bdStatus' = bdStatus
    BY <2>1 DEF Truth, LiveLinks, NotedLinks, ListLinksNow, UnlinkedEvidence, VersionNow,
                DocumentRows, AttachedHere, PendingRows, bdOrg, bdPeople, bdThings
  <2>3. BdSnapInv' /\ BdHeldInv' /\ BdReadInv'
    BY <2>1, <2>2 DEF BundleInv, BdSnapInv, BdHeldInv, BdReadInv, Exporting, Done
  <2> QED
    BY <1>2, <2>1, <2>3 DEF BundleInv
<1> QED
  BY <1>1, <1>3, <1>4

\* Whatever is committed between the statements: the rows go together, the row
\* the export holds keeps score and statuses current and, without overlap,
\* everything read is what is there.
THEOREM BundleInvariant == BdSpec => []BundleInv
<1>1. BdInit => BundleInv
  BY BdInitInv
<1>2. BundleInv /\ [BdNext]_bdVars => BundleInv'
  BY BundleStep, BundleAssumption
<1> QED
  BY <1>1, <1>2, PTL DEF BdSpec

\* The organization's rows and the reads of an export have their types.
THEOREM BundleTypes == BdSpec => []BdTypeOK
<1>1. BundleInv => BdTypeOK
  BY DEF BundleInv, BdRowsInv, BdSnapInv, BdTypeOK
<1> QED
  BY <1>1, BundleInvariant, PTL

-----------------------------------------------------------------------------
(* What a finished bundle says.                                            *)

\* The worst status of a control that has an objective is one of them.
LEMMA RollupIsWorst ==
    ASSUME BundleInv, bdSnap.statuses = bdStatus,
           NEW c, NEW p \in BdObjectives, BdControlOf[p] = c
    PROVE  /\ \E o \in BdObjectives : BdControlOf[o] = c /\ Rollup(c) = bdSnap.statuses[o]
           /\ \A o \in BdObjectives : BdControlOf[o] = c =>
                 STATUS_PRIORITY[Rollup(c)] <= STATUS_PRIORITY[bdSnap.statuses[o]]
<1> DEFINE statuses == {bdSnap.statuses[o] : o \in {o \in BdObjectives : BdControlOf[o] = c}}
           ranks == {STATUS_PRIORITY[s] : s \in statuses}
<1>1. statuses \subseteq Engine!Status /\ statuses # {}
  BY DEF BundleInv, BdRowsInv
<1>2. \A s \in Engine!Status : STATUS_PRIORITY[s] \in 0..6
  BY DEF Engine!Status, STATUS_PRIORITY
<1>3. ranks \subseteq 0..6 /\ ranks # {}
  BY <1>1, <1>2
<1>4. IsFiniteSet(ranks) /\ ranks \in SUBSET Int
  <2> HIDE DEF ranks
  <2>1. ranks \in SUBSET Nat /\ (\A y \in ranks : y <= 6) /\ 6 \in Nat
    BY <1>3
  <2>2. IsFiniteSet(ranks)
    BY <2>1, FS_BoundedSetOfNaturals
  <2> QED
    BY <2>1, <2>2
<1>5. PICK x \in ranks : \A y \in ranks : x =< y
  <2> HIDE DEF ranks
  <2> QED
    BY <1>3, <1>4, LeastExists
<1>6. \E s \in statuses : \A t \in statuses : STATUS_PRIORITY[s] <= STATUS_PRIORITY[t]
  BY <1>5
<1>7. Rollup(c) = CHOOSE s \in statuses : \A t \in statuses :
                      STATUS_PRIORITY[s] <= STATUS_PRIORITY[t]
  BY DEF Rollup
<1>8. /\ Rollup(c) \in statuses
      /\ \A t \in statuses : STATUS_PRIORITY[Rollup(c)] <= STATUS_PRIORITY[t]
  <2> HIDE DEF statuses
  <2> QED
    BY <1>6, <1>7
<1> QED
  BY <1>8

\* The two scoring rules: a status is among the gaps when it is worse than
\* the three that are not.
LEMMA GapsAreWorse ==
    ASSUME NEW s \in Engine!Status, NEW t \in Engine!Status
    PROVE  /\ s \in NON_PASSING <=> s \notin {"met", "inherited", "not_applicable"}
           /\ s \in NON_PASSING <=> STATUS_PRIORITY[s] <= 3
           /\ STATUS_PRIORITY[s] \in Int /\ STATUS_PRIORITY[t] \in Int
BY DEF Engine!Status, NON_PASSING, STATUS_PRIORITY

\* The page of deductions lists the controls with an objective in the gaps.
LEMMA DeductionsDue ==
    ASSUME BundleInv, BundleAssumption
    PROVE  DeductedRowsAreDue
<1> SUFFICES ASSUME Done
    PROVE  DeductedControls =
        {c \in Engine!deducting_controls(bdSnap.statuses) :
            \E o \in BdObjectives :
                /\ BdControlOf[o] = c
                /\ bdSnap.statuses[o] \notin {"met", "inherited", "not_applicable"}}
  BY DEF DeductedRowsAreDue
<1>1. bdSnap.statuses = bdStatus
  BY DEF BundleInv, BdHeldInv, Done, ReadBefore
<1>2. \A o \in BdObjectives : bdSnap.statuses[o] \in Engine!Status
  BY <1>1 DEF BundleInv, BdRowsInv
<1> DEFINE Gap(c) ==
              \E o \in BdObjectives :
                  /\ BdControlOf[o] = c
                  /\ bdSnap.statuses[o] \notin {"met", "inherited", "not_applicable"}
<1>3. ASSUME NEW p \in BdObjectives
      PROVE  Rollup(BdControlOf[p]) \in NON_PASSING <=> Gap(BdControlOf[p])
  <2> DEFINE c == BdControlOf[p]
  <2>1. PICK o \in BdObjectives : BdControlOf[o] = c /\ Rollup(c) = bdSnap.statuses[o]
    BY <1>1, RollupIsWorst
  <2>2. \A q \in BdObjectives : BdControlOf[q] = c =>
            STATUS_PRIORITY[Rollup(c)] <= STATUS_PRIORITY[bdSnap.statuses[q]]
    BY <1>1, RollupIsWorst
  <2>3. Rollup(c) \in Engine!Status
    BY <2>1, <1>2
  <2>4. Rollup(c) \in NON_PASSING => Gap(c)
    BY <2>1, <2>3, GapsAreWorse
  <2>5. ASSUME NEW q \in BdObjectives, BdControlOf[q] = c,
               bdSnap.statuses[q] \notin {"met", "inherited", "not_applicable"}
        PROVE  Rollup(c) \in NON_PASSING
    <3>1. STATUS_PRIORITY[bdSnap.statuses[q]] <= 3
      BY <2>5, <1>2, GapsAreWorse
    <3>2. STATUS_PRIORITY[Rollup(c)] <= STATUS_PRIORITY[bdSnap.statuses[q]]
      BY <2>2, <2>5
    <3>3. /\ STATUS_PRIORITY[bdSnap.statuses[q]] \in Int
          /\ STATUS_PRIORITY[Rollup(c)] \in Int
      BY <1>2, <2>3, GapsAreWorse
    <3>4. STATUS_PRIORITY[Rollup(c)] <= 3
      BY <3>1, <3>2, <3>3
    <3> QED
      BY <2>3, <3>4, GapsAreWorse
  <2> QED
    BY <2>4, <2>5
<1>4. \A c : Gap(c) => c \in Engine!deducting_controls(bdSnap.statuses)
  BY DEF Engine!deducting_controls, BundleAssumption
<1>5. \A c : Gap(c) => \E p \in BdObjectives : c = BdControlOf[p]
  OBVIOUS
<1>6. \A c : c \in DeductedControls <=> Gap(c)
  <2> HIDE DEF Gap
  <2>1. \A c : c \in DeductedControls <=>
                   /\ \E p \in BdObjectives : c = BdControlOf[p]
                   /\ Rollup(c) \in NON_PASSING
    BY DEF DeductedControls
  <2> QED
    BY <2>1, <1>3, <1>5
<1> QED
  BY <1>4, <1>6

\* Files of one name in one folder are numbered by the files before them: of
\* two, the later has more.
LEMMA PathsDiffer ==
    ASSUME BundleInv, BundleAssumption
    PROVE  FilesKeepTheirPath
<1> SUFFICES ASSUME NEW x \in Embedded, NEW y \in Embedded, x # y
             PROVE  EvidencePath(x) # EvidencePath(y)
  BY DEF FilesKeepTheirPath
<1>1. \A z \in Embedded : z = <<z[1], z[2]>> /\ z[1] \in Nat
  BY DEF Embedded, Listings, BundleInv, BdSnapInv, BundleAssumption
<1> DEFINE Before(v) == {z \in Embedded : /\ z[2] = v[2] /\ z[1] < v[1]
                                          /\ ArtifactRow[z[1]].slug = ArtifactRow[v[1]].slug}
<1>2. \A v \in Embedded : IsFiniteSet(Before(v))
  <2> SUFFICES ASSUME NEW v \in Embedded PROVE IsFiniteSet(Before(v))
    OBVIOUS
  <2>1. IsFiniteSet(0..v[1])
    BY <1>1, 0 \in Int, v[1] \in Int, FS_Interval
  <2>2. IsFiniteSet({v[2]})
    BY FS_Singleton
  <2>3. IsFiniteSet((0..v[1]) \X {v[2]})
    BY <2>1, <2>2, FS_Product
  <2>4. Before(v) \subseteq (0..v[1]) \X {v[2]}
    <3> SUFFICES ASSUME NEW z \in Before(v) PROVE z \in (0..v[1]) \X {v[2]}
      OBVIOUS
    <3>1. z = <<z[1], z[2]>> /\ z[1] \in Nat /\ v[1] \in Nat /\ z[1] < v[1] /\ z[2] = v[2]
      BY <1>1
    <3>2. z[1] \in 0..v[1]
      BY <3>1
    <3> QED
      BY <3>1, <3>2
  <2> QED
    BY <2>3, <2>4, FS_Subset
<1>3. ASSUME NEW v \in Embedded, NEW w \in Embedded, v[1] < w[1], v[2] = w[2],
             ArtifactRow[v[1]].slug = ArtifactRow[w[1]].slug
      PROVE  Cardinality(Before(v)) # Cardinality(Before(w))
  <2>1. Before(v) \subseteq Before(w)
    BY <1>1, <1>3
  <2>2. v \in Before(w) /\ v \notin Before(v)
    BY <1>1, <1>3
  <2>3. Before(v) # Before(w)
    BY <2>2
  <2>4. IsFiniteSet(Before(w)) /\ IsFiniteSet(Before(v))
    BY <1>2
  <2> HIDE DEF Before
  <2>5. Before(v) \in SUBSET Before(w)
    BY <2>1
  <2> QED
    BY <2>3, <2>4, <2>5, FS_Subset
<1>4. \A v \in Embedded : EvidencePath(v) =
          [folder |-> v[2], slug |-> ArtifactRow[v[1]].slug, n |-> Cardinality(Before(v))]
  BY DEF EvidencePath
<1> HIDE DEF Before
<1>5. ASSUME EvidencePath(x) = EvidencePath(y) PROVE FALSE
  <2>1. EvidencePath(x) =
          [folder |-> x[2], slug |-> ArtifactRow[x[1]].slug, n |-> Cardinality(Before(x))]
    BY <1>4
  <2>2. EvidencePath(y) =
          [folder |-> y[2], slug |-> ArtifactRow[y[1]].slug, n |-> Cardinality(Before(y))]
    BY <1>4
  <2>3. /\ x[2] = y[2] /\ ArtifactRow[x[1]].slug = ArtifactRow[y[1]].slug
        /\ Cardinality(Before(x)) = Cardinality(Before(y))
    <3>1. /\ EvidencePath(x).folder = EvidencePath(y).folder
          /\ EvidencePath(x).slug = EvidencePath(y).slug
          /\ EvidencePath(x).n = EvidencePath(y).n
      BY <1>5
    <3> QED
      BY <3>1, <2>1, <2>2
  <2>4. x[1] # y[1]
    BY <1>1, <2>3
  <2>5. x[1] < y[1] \/ y[1] < x[1]
    BY <1>1, <2>4
  <2> QED
    BY <1>3, <2>3, <2>5
<1> QED
  BY <1>5

\* However requests overlap with the export, the bundle does not contradict
\* itself on the score, the deductions, the files' paths or the submission.
THEOREM BundleAlwaysConsistent == BdSpec => []BundleIsConsistent
<1>1. BundleInv => ScoreIsOfItsStatuses
  BY DEF BundleInv, BdHeldInv, ScoreIsOfItsStatuses, Done, ReadBefore
<1>2. BundleInv => DeductedRowsAreDue /\ FilesKeepTheirPath
  BY BundleAssumption, DeductionsDue, PathsDiffer
<1>3. CurrentIsTheLatest
  BY DEF CurrentIsTheLatest, MarkedCurrent
<1>4. BundleInv => BundleIsConsistent
  BY <1>1, <1>2, <1>3 DEF BundleIsConsistent
<1> QED
  BY <1>4, BundleInvariant, PTL

-----------------------------------------------------------------------------
(* With nothing committed in between, the lists of a bundle are complete.  *)

\* Everything that was read is what is there.
LEMMA AllRead ==
    ASSUME BundleInv, Done, ~bdOverlap
    PROVE  \A f \in Fields \ {"score"} : bdSnap[f] = Truth[f]
BY DEF BundleInv, BdReadInv, Done, ReadBefore, Fields

\* The evidence.
LEMMA EvidenceListed ==
    ASSUME BundleInv
    PROVE  EvidenceIsAccountedFor
<1> SUFFICES ASSUME Done, ~bdOverlap, NEW e \in Artifacts,
                    ArtifactRow[e].kind \notin {"document", "list"}
    PROVE  LET at(l) == {o \in BdObjectives : bdLink[e][o] = l}
           IN  IF at("live") # {}
               THEN {o : o \in {x[2] : x \in {y \in Listings : y[1] = e}}} = at("live")
               ELSE /\ e \in bdSnap.unlinked
                    /\ {x[2] : x \in {y \in bdSnap.archived : y[1] = e}} = at("archived")
  BY DEF EvidenceIsAccountedFor
<1> DEFINE at(l) == {o \in BdObjectives : bdLink[e][o] = l}
<1>1. /\ bdSnap.links = LiveLinks /\ bdSnap.unlinked = UnlinkedEvidence
      /\ bdSnap.archived = {x \in UnlinkedEvidence \X BdObjectives :
                                bdLink[x[1]][x[2]] = "archived"}
  BY AllRead DEF Fields, Truth
<1>2. CASE at("live") # {}
  <2>1. e \notin bdSnap.unlinked
    BY <1>1, <1>2 DEF UnlinkedEvidence
  <2>2. \A y : y \in Listings /\ y[1] = e <=> \E o \in at("live") : y = <<e, o>>
    BY <1>1, <2>1 DEF Listings, LiveLinks
  <2>3. {x[2] : x \in {y \in Listings : y[1] = e}} = at("live")
    <3>1. ASSUME NEW o \in at("live") PROVE o \in {x[2] : x \in {y \in Listings : y[1] = e}}
      <4>1. <<e, o>> \in Listings /\ <<e, o>>[1] = e /\ <<e, o>>[2] = o
        BY <2>2
      <4> QED
        BY <4>1
    <3>2. ASSUME NEW x \in {y \in Listings : y[1] = e} PROVE x[2] \in at("live")
      BY <3>2, <2>2
    <3> QED
      BY <3>1, <3>2
  <2> QED
    BY <1>2, <2>3
<1>3. CASE at("live") = {}
  <2>1. e \in bdSnap.unlinked
    BY <1>1, <1>3 DEF UnlinkedEvidence
  <2>2. \A y : y \in bdSnap.archived /\ y[1] = e <=> \E o \in at("archived") : y = <<e, o>>
    BY <1>1, <2>1
  <2>3. {x[2] : x \in {y \in bdSnap.archived : y[1] = e}} = at("archived")
    <3>1. ASSUME NEW o \in at("archived")
          PROVE  o \in {x[2] : x \in {y \in bdSnap.archived : y[1] = e}}
      <4>1. <<e, o>> \in bdSnap.archived /\ <<e, o>>[1] = e /\ <<e, o>>[2] = o
        BY <2>2
      <4> QED
        BY <4>1
    <3>2. ASSUME NEW x \in {y \in bdSnap.archived : y[1] = e} PROVE x[2] \in at("archived")
      BY <3>2, <2>2
    <3> QED
      BY <3>1, <3>2
  <2> QED
    BY <1>3, <2>1, <2>3
<1> QED
  BY <1>2, <1>3

\* The inventory: among the spellings of a key, the first stands for it.
LEMMA InventoryListed ==
    ASSUME BundleInv, BundleAssumption
    PROVE  InventoryIsComplete
<1> SUFFICES ASSUME Done, ~bdOverlap
    PROVE  /\ \A a \in bdEntity \cup bdPending :
                  \E b \in bdSnap.entities \cup bdSnap.pending : BdFold[b] = BdFold[a]
           /\ \A a, b \in bdSnap.pending : BdFold[a] = BdFold[b] => a = b
  BY DEF InventoryIsComplete
<1>1. bdSnap.entities = bdEntity /\ bdSnap.pending = PendingRows(bdPending)
  BY AllRead DEF Fields, Truth
<1>2. \A a \in bdEntity \cup bdPending : a \in Nat
  BY DEF BundleInv, BdRowsInv, BundleAssumption
<1>3. ASSUME NEW a \in bdPending PROVE \E b \in PendingRows(bdPending) : BdFold[b] = BdFold[a]
  <2> DEFINE same == {b \in bdPending : BdFold[b] = BdFold[a] /\ b <= a}
  <2>1. same \in SUBSET Nat /\ (\A b \in same : b <= a) /\ a \in Nat /\ a \in same
    BY <1>2
  <2>2. IsFiniteSet(same)
    <3> HIDE DEF same
    <3> QED
      BY <2>1, FS_BoundedSetOfNaturals
  <2>3. PICK b \in same : \A d \in same : b =< d
    <3> HIDE DEF same
    <3>1. same \in SUBSET Int /\ same # {}
      BY <2>1
    <3> QED
      BY <2>2, <3>1, LeastExists
  <2>4. ASSUME NEW d \in bdPending, BdFold[d] = BdFold[b] PROVE b <= d
    <3>1. CASE d <= a
      BY <2>3, <2>4, <3>1
    <3>2. CASE a < d
      BY <1>2, <2>3, <3>2
    <3> QED
      BY <1>2, <3>1, <3>2
  <2>5. b \in PendingRows(bdPending) /\ BdFold[b] = BdFold[a]
    BY <2>3, <2>4 DEF PendingRows
  <2> QED
    BY <2>5
<1>4. ASSUME NEW a \in PendingRows(bdPending), NEW b \in PendingRows(bdPending),
             BdFold[a] = BdFold[b]
      PROVE  a = b
  <2>1. a \in bdPending /\ b \in bdPending /\ a <= b /\ b <= a
    BY <1>4 DEF PendingRows
  <2> QED
    BY <2>1, <1>2
<1> QED
  BY <1>1, <1>3, <1>4

\* Who is responsible.
LEMMA HoldersListed ==
    ASSUME BundleInv
    PROVE  HoldersArePersonnel
<1> SUFFICES ASSUME Done, ~bdOverlap
    PROVE  /\ \A o \in BdObjectives : MatrixCell(o) \subseteq DOMAIN PersonnelPage
           /\ \A p \in DOMAIN PersonnelPage : p \in DOMAIN bdPerson
                                              /\ PersonnelPage[p] = bdPerson[p]
  BY DEF HoldersArePersonnel
<1>1. /\ bdSnap.contacts = DOMAIN bdPerson
      /\ bdSnap.roles = {p \in DOMAIN bdPerson : bdPerson[p]}
      /\ bdSnap.raci = bdHolds
  BY AllRead DEF Fields, Truth
<1>2. /\ DOMAIN PersonnelPage = DOMAIN bdPerson
      /\ \A p \in DOMAIN bdPerson : PersonnelPage[p] = (p \in bdSnap.roles)
  BY <1>1 DEF PersonnelPage
<1>3. ASSUME NEW p \in DOMAIN bdPerson PROVE PersonnelPage[p] = bdPerson[p]
  <2>1. bdPerson[p] \in BOOLEAN
    BY DEF BundleInv, BdRowsInv
  <2>2. (p \in bdSnap.roles) <=> bdPerson[p]
    BY <1>1
  <2> QED
    BY <1>2, <2>1, <2>2
<1>4. \A o \in BdObjectives : MatrixCell(o) \subseteq DOMAIN bdPerson
  BY <1>1 DEF MatrixCell, BundleInv, BdRowsInv
<1> QED
  BY <1>2, <1>3, <1>4

\* A note beside the evidence points to an entry.
LEMMA NotesListed ==
    ASSUME BundleInv
    PROVE  NotesHaveTheirEntry
<1> SUFFICES ASSUME Done, ~bdOverlap PROVE bdSnap.versions \subseteq bdSnap.documents
  BY DEF NotesHaveTheirEntry
<1>1. /\ bdSnap.versions = {VersionNow(ArtifactRow[x[1]].version) : x \in NotedLinks}
      /\ bdSnap.documents = {VersionNow(n) : n \in DocumentRows}
  BY AllRead DEF Fields, Truth
<1>2. ASSUME NEW x \in NotedLinks PROVE ArtifactRow[x[1]].version \in DocumentRows
  <2> DEFINE n == ArtifactRow[x[1]].version
  <2>1. /\ x[1] \in Artifacts /\ x[2] \in BdObjectives /\ bdLink[x[1]][x[2]] = "live"
        /\ ArtifactRow[x[1]].kind = "document" /\ x \in LiveLinks
    BY DEF NotedLinks, LiveLinks
  <2>2. n \in DOMAIN bdDoc
    BY <2>1 DEF BundleInv, BdNamedInv
  <2>3. bdDoc[n] \in {"approved", "superseded"}
    BY <2>2 DEF BundleInv, BdRowsInv
  <2>4. n \in AttachedHere
    BY <2>1 DEF AttachedHere
  <2> QED
    BY <2>2, <2>3, <2>4 DEF DocumentRows
<1> QED
  BY <1>1, <1>2

\* A list that is evidence is printed in that version, or was left out.
LEMMA ListsListed ==
    ASSUME BundleInv
    PROVE  LeftOutOnlyByChoice
<1> SUFFICES ASSUME Done, ~bdOverlap, NEW x \in bdSnap.links, ArtifactRow[x[1]].kind = "list"
    PROVE  ShownAsNotChosen(x[1]) <=> ArtifactRow[x[1]].list \notin bdChosen
  BY DEF LeftOutOnlyByChoice
<1> DEFINE l == ArtifactRow[x[1]].list
           v == ArtifactRow[x[1]].version
<1>1. /\ bdSnap.links = LiveLinks
      /\ bdSnap.lists = {<<m, bdCurrent[m]>> : m \in bdChosen \cap BdLists}
             \cup {<<k[1], k[2]>> : k \in {k \in ListLinksNow : k[1] \in bdChosen}}
  BY AllRead DEF Fields, Truth
<1>2. <<l, v, x[2]>> \in ListLinksNow
  BY <1>1 DEF ListLinksNow
<1>3. ASSUME l \in bdChosen PROVE <<l, v>> \in bdSnap.lists
  <2>1. /\ <<l, v, x[2]>> \in {k \in ListLinksNow : k[1] \in bdChosen}
        /\ <<l, v, x[2]>>[1] = l /\ <<l, v, x[2]>>[2] = v
    BY <1>2, <1>3
  <2> QED
    BY <1>1, <2>1
<1>4. ASSUME <<l, v>> \in bdSnap.lists PROVE l \in bdChosen
  <2>1. CASE <<l, v>> \in {<<m, bdCurrent[m]>> : m \in bdChosen \cap BdLists}
    BY <2>1
  <2>2. CASE <<l, v>> \in {<<k[1], k[2]>> : k \in {k \in ListLinksNow : k[1] \in bdChosen}}
    BY <2>2
  <2> QED
    BY <1>1, <1>4, <2>1, <2>2
<1> QED
  BY <1>3, <1>4 DEF ShownAsNotChosen

\* With nothing committed while it is read, a bundle omits nothing and each of
\* its references leads to an entry.
THEOREM BundleAlwaysComplete == BdSpec => []BundleIsComplete
<1>1. BundleInv => BundleIsComplete
  BY BundleAssumption, EvidenceListed, InventoryListed, HoldersListed, NotesListed, ListsListed
     DEF BundleIsComplete
<1> QED
  BY <1>1, BundleInvariant, PTL
=============================================================================
