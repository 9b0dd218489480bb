------------------------- MODULE MCCoverageAndFiles -------------------------
(***************************************************************************)
(* Instances of Coverage, as MCCoverage has it, and of Custody, where the  *)
(* files of its evidence are.  They share no rows in what is modelled of   *)
(* them: in every behaviour one of them, `focus', runs and the other       *)
(* rests, so that the instances add up instead of multiplying.             *)
(***************************************************************************)
EXTENDS MCCoverage, Custody

VARIABLE focus

FilesVars == <<vars, cuVars, focus>>

FilesInit == focus \in {"coverage", "custody"} /\ Init /\ CuInit

\* Only the engine may never stop: requests on files are counted, and their end
\* is a step that changes nothing.
FilesNext ==
    /\ UNCHANGED focus
    /\ \/ focus = "coverage" /\ Next /\ UNCHANGED cuVars
       \/ focus = "custody" /\ CuNext /\ UNCHANGED vars
       \/ focus = "custody" /\ UNCHANGED <<vars, cuVars>>

FilesSpec == FilesInit /\ [][FilesNext]_FilesVars

FilesSymmetry == Permutations(CuRequests) \cup Permutations(Keys)

\* The types of both components' rows (models.py), keys and files.
FilesTypeOK == TypeOK /\ CuTypeOK
=============================================================================
