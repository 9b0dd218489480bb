-------------------------- MODULE MCAssessmentTxn --------------------------
(***************************************************************************)
(* Instances of AssessmentTxn, Bundle and Environments: in every behaviour *)
(* one of them, `focus', runs and the others rest.                         *)
(*                                                                         *)
(* The requests on an assessment have one objective per practice; the      *)
(* products overlap on o1, where their claims differ.                      *)
(***************************************************************************)
EXTENDS AssessmentTxn, Bundle, Environments, TLC

CONSTANTS p1, p2, r1, r2

VARIABLE focus

\* Requests differ in nothing but their name.
RequestSymmetry == Permutations({r1, r2})

MCControlOf == [o \in Objectives |-> IF o = "o1" THEN "c1" ELSE "c2"]
MCWeight == "c1" :> 5 @@ "c2" :> 3

MCClaim ==
    [p \in Products |-> [v \in Versions |-> [o \in Objectives |->
        CASE o # "o1"        -> "none"
          [] p = p1 /\ v = 1 -> "shared"
          [] OTHER           -> "provider_satisfies"]]]

\* Either one practice is left alone, or nothing moves to version 2 and no
\* upload is detached.
Slice ==
    \/ /\ state["o2"].status = "not_met" /\ link["o2"].cause = "live"
       /\ \A r \in Requests : "o2" \notin txn[r].objectives
    \/ /\ link["o1"].cause # "detached" /\ link["o2"].cause = "live"
       /\ \A p \in Products : orgProduct[p].pin # 2
       /\ \A r \in Requests : txn[r].op \notin {"move", "detach"}

\* The first activation pins version 1; a move goes to version 2.
MCCurrent == [p \in Products |-> 1]

\* The bundle of an organization with a practice of two objectives and one of
\* one, two files of the same title, one whose object is lost, a version of the
\* document and a version of its only list.
MCBdControlOf == <<"c1", "c1", "c2">>
Artifact(kind, slug, version, list) ==
    [kind |-> kind, slug |-> slug, version |-> version, list |-> list]
MCArtifactRow ==
    <<Artifact("file", "scan", 0, ""), Artifact("lost", "scan", 0, ""),
      Artifact("file", "scan", 0, ""), Artifact("document", "", 1, ""),
      Artifact("list", "", 1, "l1")>>
MCChosen == {{}, {"l1"}, {"l1", "not ours"}}
MCBdFold == <<1, 1, 3>>

\* The contacts of one organisation hold no role that is notified.
MCResponsible == "a" :> {} @@ "b" :> {"ann"}

TxnVars == <<vars, bdVars, evVars, focus>>

\* What rests starts in one state only.
TxnInit ==
    /\ focus \in {"txn", "bundle", "environments"}
    /\ Init /\ BdInit /\ EvInit
    /\ bdOverlap => focus = "bundle"
    /\ evOverlap \/ (\E o \in EvOrgs : evMap[o] # 0) => focus = "environments"

TxnNext ==
    /\ UNCHANGED focus
    /\ \/ focus = "txn" /\ Next /\ UNCHANGED <<bdVars, evVars>>
       \/ focus = "bundle" /\ BdNext /\ UNCHANGED <<vars, evVars>>
       \/ focus = "environments" /\ EvNext /\ UNCHANGED <<vars, bdVars>>

TxnSpec == TxnInit /\ [][TxnNext]_TxnVars

\* The types of all three components' rows (models.py) and of what was read of them.
TxnTypeOK == TypeOK /\ BdTypeOK /\ EvTypeOK
=============================================================================
