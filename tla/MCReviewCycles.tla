--------------------------- MODULE MCReviewCycles ---------------------------
EXTENDS ReviewCycles, TLC

CONSTANTS u1, u2, q1, q2

OneUser == {u1}
TwoUsers == {u1, u2}

OneRequest == {q1}

OneCycle == {1}
TwoCycles == {1, 2}

\* Two reminders within the window, or one.
TwoReminders == <<1, 2>>
OneReminder == <<1>>

\* With overlapping transactions, one cycle; without, two and no rollback.
Slice ==
    IF overlap THEN cycle[2].status = "none" /\ \A p \in Procs : txn[p].c # 2
               ELSE aborts = 0

UserSymmetry == Permutations(TwoUsers)
=============================================================================
