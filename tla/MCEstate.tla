------------------------------ MODULE MCEstate ------------------------------
(***************************************************************************)
(* One instance for five components that share no tables in what is        *)
(* modelled of them: in every behaviour one of them, `focus', runs and the *)
(* others rest, so that the instances add up instead of multiplying.       *)
(***************************************************************************)
EXTENDS MCScheduler, Memberships, Library, Casework, Credentials

CONSTANTS c1, c2

VARIABLE focus

RowOf(c, k, b, e, t) == [control |-> c, cls |-> k, basis |-> b, evidence |-> e, text |-> t]

\* Baseline files as uploaded: a sound one, one without a basis, one that
\* names a control twice.
SomeFiles ==
    {<<RowOf(c1, "shared", "vendor", TRUE, "covers"),
       RowOf(c2, "customer_owns", "unset", FALSE, "none")>>,
     <<RowOf(c1, "shared", "unset", TRUE, "covers")>>,
     <<RowOf(c1, "customer_owns", "customer_system", FALSE, "empty"),
       RowOf(c1, "shared", "vendor", TRUE, "covers")>>}

\* What the model answers about a document or a page.
SomeAnswers ==
    {<<RowOf(c1, "customer_owns", "vendor", TRUE, "none")>>,
     <<RowOf(c1, "shared", "vendor", TRUE, "disclaims"),
       RowOf(c2, "shared", "vendor", FALSE, "covers")>>,
     <<RowOf(c1, "shared", "vendor", FALSE, "covers")>>}

\* A page, a redirect to it, a redirect to that one, and a refused address.
SomeUrls == 1..4
SomeWeb ==
    <<[allowed |-> TRUE, to |-> 1, usable |-> TRUE],
      [allowed |-> TRUE, to |-> 1, usable |-> FALSE],
      [allowed |-> TRUE, to |-> 2, usable |-> FALSE],
      [allowed |-> FALSE, to |-> 1, usable |-> TRUE]>>

OtherVars == <<memVars, libVars, cwVars, crVars>>
EstateVars == <<vars, OtherVars, focus>>

\* A component that rests starts in one state only.
EstateInit ==
    /\ focus \in {"scheduler", "memberships", "library", "casework", "credentials"}
    /\ Init /\ MemInit /\ LibInit /\ CwInit /\ CrInit
    /\ memOverlap => focus = "memberships"
    /\ libOverlap => focus = "library"
    /\ cwOverlap \/ cwCycle[0] = "submitted" => focus = "casework"
    /\ crOverlap => focus = "credentials"

\* Only the scheduler may never stop: requests are counted, and their end is a
\* step that changes nothing.
EstateNext ==
    /\ UNCHANGED focus
    /\ \/ focus = "scheduler" /\ Next /\ UNCHANGED OtherVars
       \/ focus = "memberships" /\ MemNext /\ UNCHANGED <<vars, libVars, cwVars, crVars>>
       \/ focus = "library" /\ LibNext /\ UNCHANGED <<vars, memVars, cwVars, crVars>>
       \/ focus = "casework" /\ CwNext /\ UNCHANGED <<vars, memVars, libVars, crVars>>
       \/ focus = "credentials" /\ CrNext /\ UNCHANGED <<vars, memVars, libVars, cwVars>>
       \/ focus # "scheduler" /\ UNCHANGED <<vars, OtherVars>>

EstateSpec == EstateInit /\ [][EstateNext]_EstateVars

\* The components use the same model values, so that two exchanges of names do
\* for all of them.
EstateSymmetry == Permutations(CrRequests) \cup Permutations(Connectors)

\* The types of all five components' rows (models.py) and keys.
EstateTypeOK == TypeOK /\ MemTypeOK /\ LibTypeOK /\ CwTypeOK /\ CrTypeOK
=============================================================================
