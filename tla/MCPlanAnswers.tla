--------------------------- MODULE MCPlanAnswers ---------------------------
(***************************************************************************)
(* Two small instances of PlanApply for TLC, side by side, that differ in  *)
(* their constants: `part` says which of them moves.  The first guesses    *)
(* the codes of chat plans, the second has the other ways to answer while  *)
(* Home Assistant changes.                                                 *)
(***************************************************************************)
EXTENDS PlanApply, TLC

CONSTANTS p1, p2, q1, q2

TwoPlans == {p1, p2}
TwoProcs == {q1, q2}

Symmetry == Permutations(TwoPlans) \cup Permutations(TwoProcs)

Humans == INSTANCE PlanApply
            WITH Asks <- {"form", "window", "phone"}, MaxMismatches <- 1,
                 MaxNow <- 1, MaxHouse <- 1

VARIABLE part

PartsInit == part \in {"guesses", "humans"} /\ Init

PartsNext ==
  \/ part = "guesses" /\ Next /\ UNCHANGED part
  \/ part = "humans" /\ Humans!Next /\ UNCHANGED part

PartsSpec == PartsInit /\ [][PartsNext]_<<part, vars>>
=============================================================================
