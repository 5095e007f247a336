---------------------------- MODULE OneShotPlan ----------------------------
(***************************************************************************)
(* What `ha-nova apply` promises about a plan: it is offered once, at any  *)
(* time at most one apply holds it, a held plan is carried out at most     *)
(* once, and it can be offered again only while it has not been carried    *)
(* out ("Executes a stored plan once", verb_apply.go).  PlanApply is shown *)
(* to implement this with plan files that several processes rename.        *)
(***************************************************************************)
EXTENDS Naturals

CONSTANT Plans

VARIABLES status,  \* where each plan is in its life
          done     \* the plans whose change was sent to Home Assistant

vars == <<status, done>>

Statuses == {"none", "offered", "taken", "spent"}

OneShotTypeOK == status \in [Plans -> Statuses] /\ done \in SUBSET Plans

Init == status = [p \in Plans |-> "none"] /\ done = {}

Put(S, s) == status' = [p \in Plans |-> IF p \in S THEN s ELSE status[p]]

Offer(p) == status[p] = "none" /\ Put({p}, "offered") /\ UNCHANGED done

Take(p) == status[p] = "offered" /\ Put({p}, "taken") /\ UNCHANGED done

HandBack(p) == status[p] = "taken" /\ p \notin done /\ Put({p}, "offered") /\ UNCHANGED done

Carry(p) == status[p] = "taken" /\ p \notin done /\ done' = done \cup {p} /\ UNCHANGED status

\* Used up, refused, crashed, never stored, or, several at once, cleared away.
Drop(S) == Put(S, "spent") /\ UNCHANGED done

Next == \/ \E S \in SUBSET Plans : Drop(S)
        \/ \E p \in Plans : Offer(p) \/ Take(p) \/ HandBack(p) \/ Carry(p)

Spec == Init /\ [][Next]_vars

-----------------------------------------------------------------------------

\* A plan that was carried out can be taken by nobody, and a plan that was never
\* offered was not carried out.
CarriedIsNotOffered == \A p \in done : status[p] \in {"taken", "spent"}
=============================================================================
