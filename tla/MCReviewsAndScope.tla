------------------------- MODULE MCReviewsAndScope --------------------------
(***************************************************************************)
(* Instances of ReviewCycles, as MCReviewCycles has it, and of Scope, with *)
(* two spellings of one entity, a second entity and two requests.  They    *)
(* share no rows: in every behaviour one of them, `focus', runs and the    *)
(* other rests, so that the instances add up instead of multiplying.  The  *)
(* requests of the one have the names of the users of the other, so that   *)
(* one exchange of names does for both.                                    *)
(***************************************************************************)
EXTENDS MCReviewCycles, Scope

VARIABLE focus

InState(op) == {r \in ScRequests : scTxn[r].op = op}

KeysDef == {1, 2, 3}
FoldDef == <<1, 1, 3>>

InventoriesDef ==
    {<<[ids |-> <<1, 0>>, data |-> 1], [ids |-> <<-1, 3>>, data |-> 1]>>,
     <<[ids |-> <<1, 0>>, data |-> 2], [ids |-> <<0, -1>>, data |-> 1]>>}

SheetsDef ==
    {<<[ids |-> <<0, 2>>, data |-> 2, overlay |-> 1, status |-> "active"],
       [ids |-> <<1, 0>>, data |-> 3, overlay |-> 0, status |-> "decommissioned"]>>}

EditsDef ==
    {[status |-> s, bound |-> s # "active", source |-> "manual", data |-> 0, overlay |-> 1] :
        s \in {"active", "pending_approval"}}

\* A row a person enters before and after it says where the thing is.
OverlayEdits ==
    {[status |-> "active", bound |-> TRUE, source |-> "manual", data |-> 1, overlay |-> n] :
        n \in {0, 1}}

\* Where requests overlap, a second result to decide comes neither with a row
\* edited directly nor with a dry run on the screen, and no change is counted
\* before it is committed once a row was edited.
BothSlice ==
    /\ Slice
    /\ scOverlap =>
          /\ edits > 0 => Len(results) <= 1 /\ InState("counted") = {}
          /\ InState("screen") # {} => Len(results) <= 1

BothVars == <<vars, scVars, focus>>

\* What rests starts in one state only.
BothInit ==
    /\ focus \in {"review", "scope"}
    /\ Init /\ ScInit
    /\ overlap => focus = "review"
    /\ scOverlap => focus = "scope"

BothNext ==
    /\ UNCHANGED focus
    /\ \/ focus = "review" /\ Next /\ UNCHANGED scVars
       \/ focus = "scope" /\ ScNext /\ UNCHANGED vars

BothSpec == BothInit /\ [][BothNext]_BothVars

\* The types of both components' rows (models.py).
BothTypeOK == TypeOK /\ ScTypeOK
=============================================================================
