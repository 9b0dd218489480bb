---------------------------- MODULE MCCoverage ----------------------------
(***************************************************************************)
(* Instances of Coverage: two practices of one objective each, and two     *)
(* products that overlap on the first.  Their second versions drop, gain   *)
(* and reclassify claims, and one row of each excluded kind is there.      *)
(***************************************************************************)
EXTENDS Coverage, TLC

CONSTANTS p1, p2, k1, k2

MCControlOf == "o1" :> "c1" @@ "o2" :> "c2"
MCWeight == "c1" :> 5 @@ "c2" :> 3

Row(class, basis, objectives, artifacts) ==
    [classification |-> class, coverage_basis |-> basis,
     objectives |-> objectives, artifacts |-> artifacts \cap Artifacts]

\* Each product names an artifact of its own.
MCBaseline ==
    p1 :> << "c1" :> Row("provider_satisfies", "customer_system", {"o1"}, {k1})
               @@ "c2" :> Row("provider_satisfies", "platform_only", {"o2"}, {}),
             "c1" :> Row("shared", "customer_system", {"o1"}, {k1})
               @@ "c2" :> Row("provider_satisfies", "customer_system", {"o2"}, {k1}) >>
 @@ p2 :> << "c1" :> Row("shared", "customer_system", {"o1"}, {k2}),
             "c1" :> Row("customer_owns", "customer_system", {"o1"}, {})
               @@ "c2" :> Row("shared", "customer_system", {"o2"}, {k2}) >>

\* Publication decides the first activation only: nothing reads it of a product
\* that is pinned.
PinnedStaysPublished == \A p \in Products : orgProduct[p].pin # 0 => product[p].published

\* Either there is no upload and no task is collected, or there is one version
\* of each product and nothing is put out of scope.
Slice ==
    /\ PinnedStaysPublished
    /\ \/ \A a \in Assessments :
             /\ \A o \in Objectives, e \in Evidence : link[a][o][e] = NoLink
             /\ \A k \in Artifacts : task[a][k].status # "collected"
       \/ /\ \A p \in Products : product[p].current <= 1
          /\ \A a \in Assessments, o \in Objectives : state[a][o].status # "not_applicable"

\* Both products name the same artifact.
MCSharedArtifact ==
    p1 :> << "c1" :> Row("provider_satisfies", "customer_system", {"o1"}, {k1}) >>
 @@ p2 :> << "c1" :> Row("shared", "customer_system", {"o1"}, {k1}) >>

\* A second version that keeps its artifact and only covers more.
MCKeptArtifact ==
    p1 :> << "c1" :> Row("provider_satisfies", "customer_system", {"o1"}, {k1}),
             "c1" :> Row("provider_satisfies", "customer_system", {"o1"}, {k1})
               @@ "c2" :> Row("shared", "customer_system", {"o2"}, {}) >>

\* A second version that makes the same claim and asks for another artifact.
MCNewArtifact ==
    p1 :> << "c1" :> Row("provider_satisfies", "customer_system", {"o1"}, {k1}),
             "c1" :> Row("provider_satisfies", "customer_system", {"o1"}, {k2}) >>
=============================================================================
