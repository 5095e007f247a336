----------------------------- MODULE PlanBatch -----------------------------
(***************************************************************************)
(* PlanApply, where plans become a batch, and BatchApply (Steps), where    *)
(* one is carried out member by member, side by side: a behaviour moves    *)
(* one of them only (`part`).                                              *)
(***************************************************************************)
EXTENDS PlanApply

CONSTANTS Size, Deletes, Reads

VARIABLES part,
          config, memo, at, member, copies, written, status, plan, taken, edited

steps == <<config, memo, at, member, copies, written, status, plan, taken, edited>>

Steps == INSTANCE BatchApply WITH house <- config, m <- member, sent <- taken

ASSUME StepsAssumption == Steps!BatchAssumption

PartsInit ==
  /\ part \in {"batch", "steps"} /\ Init /\ Steps!Init
  /\ part # "steps" => Steps!Theirs = {}

PartsNext ==
  \/ part = "batch" /\ Next /\ UNCHANGED <<part, steps>>
  \/ part = "steps" /\ Steps!Next /\ UNCHANGED <<part, vars>>

PartsSpec == PartsInit /\ [][PartsNext]_<<part, vars, steps>>

LedgerIsTrue == Steps!LedgerIsTrue
EditsAreSeen == Steps!EditsAreSeen
=============================================================================
