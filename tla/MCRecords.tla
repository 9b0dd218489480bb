----------------------------- MODULE MCRecords -----------------------------
(***************************************************************************)
(* Instances of Documents and Lists, which share no rows in what is        *)
(* modelled of them: in every behaviour one of them, `focus', runs and the *)
(* other rests, so that the instances add up instead of multiplying.       *)
(***************************************************************************)
EXTENDS Documents, Lists, TLC

CONSTANTS c1, c2, r1, r2

VARIABLE focus

OneObjective == {"o1"}
TwoContacts == {c1, c2}
TheOfficer == {c2}
TwoRequests == {r1, r2}
TwoCadences == {1, 2}

TwoColumns == {"c1", "c2"}
TwoPractices == {"k1", "k2"}

\* The second sheet drops a column and a practice and gains one.
TwoSheets == <<[columns |-> {"c1", "c2"}, keys |-> {"k1"}],
               [columns |-> {"c1"}, keys |-> {"k2"}]>>

\* Rows emptied, rows entered in the second column, and a column dropped.
SomeEntries == {[columns |-> {"c1", "c2"}, filled |-> {}, examples |-> FALSE],
                [columns |-> {"c1", "c2"}, filled |-> {"c2"}, examples |-> FALSE],
                [columns |-> {"c2"}, filled |-> {"c2"}, examples |-> FALSE]}
OneRewrite == {[columns |-> {"c2"}, filled |-> {}, examples |-> TRUE]}

RecordsVars == <<docVars, vars, focus>>

\* What rests starts in one state only.
RecordsInit ==
    /\ focus \in {"documents", "lists"}
    /\ DocInit /\ Init
    /\ docOverlap => focus = "documents"
    /\ overlap => focus = "lists"

RecordsNext ==
    /\ UNCHANGED focus
    /\ \/ focus = "documents" /\ DocNext /\ UNCHANGED vars
       \/ focus = "lists" /\ Next /\ UNCHANGED docVars

RecordsSpec == RecordsInit /\ [][RecordsNext]_RecordsVars

\* Where requests overlap, the list is one adopted from the template, and a
\* request on the one is not in flight with a request on the other: those on the
\* list read the template in one step, so that order makes no difference.
InFlight(ops) == \E r \in Requests : txn[r].op \in ops
ListSlice ==
    overlap => /\ own # <<>> => basedOn # 0
               /\ ~ /\ InFlight({"import", "rewrite", "template_untag"})
                    /\ InFlight({"edit", "take", "untag", "link"})

RequestSymmetry == Permutations(TwoRequests)

\* The types of the rows of documents and of lists (models.py).
RecordsTypeOK == DocTypeOK /\ TypeOK
=============================================================================
