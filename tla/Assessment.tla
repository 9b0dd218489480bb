----------------------------- MODULE Assessment -----------------------------
(***************************************************************************)
(* The pure functions of backend/app/assessment.py, over the catalog: the  *)
(* objectives of a framework, the control (practice) each one belongs to   *)
(* and the SPRS weight of each control.                                    *)
(***************************************************************************)
EXTENDS Integers, FiniteSetsExt

CONSTANTS
    Controls,        \* the framework's practices
    Objectives,      \* their assessment objectives
    ControlOf,       \* the practice an objective belongs to
    Weight           \* a practice's sprs_weight

ASSUME CatalogAssumption ==
    /\ IsFiniteSet(Controls)
    /\ ControlOf \in [Objectives -> Controls]
    /\ Weight \in [Controls -> Nat]

\* ControlStatus.
Status == {"not_met", "pending_evidence", "partial", "met", "not_applicable",
           "inherited", "needs_review"}

\* Responsibility, without external_system, which no code path sets.
Responsibility == {"provider_satisfies", "shared", "customer_owns"}

JUDGED_STATUSES == {"met", "partial", "not_applicable", "inherited"}

SPRS_MAX == 110

-----------------------------------------------------------------------------
(* Scoring.  A control deducts its whole weight unless every one of its    *)
(* objectives is met or inherited.                                         *)

deducting_controls(status) ==
    {c \in Controls :
        \E o \in Objectives :
            ControlOf[o] = c /\ status[o] \notin {"met", "inherited"}}

compute_sprs(status) ==
    SPRS_MAX - MapThenSumSet(LAMBDA c : Weight[c], deducting_controls(status))

-----------------------------------------------------------------------------
(* What a product joining an objective does to its state.                  *)

is_judgement_in_question(current, first) ==
    first /\ current \in JUDGED_STATUSES

\* MUTANT: an objective a product covers counts as inherited.
contributor_added_status_inherits(current, first, keep) ==
    IF first /\ current \notin JUDGED_STATUSES THEN "inherited" ELSE current

\* keep: the person asked at activation chose to keep the judged status.
contributor_added_status(current, first, keep) ==
    CASE ~first                      -> current
      [] first /\ current = "needs_review" -> current
      [] is_judgement_in_question(current, first) ->
             IF keep THEN current ELSE "needs_review"
      [] OTHER                       -> "pending_evidence"

\* The weakest claim governs: shared wins over provider_satisfies.
resolve_contributor_responsibility(classifications) ==
    IF "shared" \in classifications THEN "shared" ELSE "provider_satisfies"
=============================================================================
