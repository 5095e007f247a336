---------------------------- MODULE MCPlanBatch ----------------------------
(***************************************************************************)
(* Small instances of PlanBatch for TLC.  A third part, `aging`, is        *)
(* PlanApply with a longer clock and a Home Assistant that stays as it is: *)
(* there plans and claims outlive PlanTTL, so pruning takes them by age.   *)
(***************************************************************************)
EXTENDS PlanBatch, TLC

CONSTANTS p1, p2, p3, q1, q2

ThreePlans == {p1, p2, p3}
TwoProcs == {q1, q2}

Symmetry == Permutations(ThreePlans) \cup Permutations(TwoProcs)

\* The third member uses what the first one changes, the last what the third does.
Uses == 1 :> {1} @@ 2 :> {2} @@ 3 :> {1, 3} @@ 4 :> {3, 4}

Aging == INSTANCE PlanApply WITH MaxNow <- PlanTTL + 1, MaxHouse <- 0

AgingInit == part = "aging" /\ Init /\ Steps!Init /\ Steps!Theirs = {}

AgingNext == part = "aging" /\ Aging!Next /\ UNCHANGED <<part, steps>>

MCSpec == (PartsInit \/ AgingInit) /\ [][PartsNext \/ AgingNext]_<<part, vars, steps>>
=============================================================================
