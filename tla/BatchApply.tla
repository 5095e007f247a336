----------------------------- MODULE BatchApply -----------------------------
(***************************************************************************)
(* Applying a batch plan (cli/verb_apply_batch.go): the step SendIt of     *)
(* module PlanApply in detail, where the plan stands for several changes   *)
(* of automations and scripts.  Every member is planned again before       *)
(* anything is sent, every delete's copy is saved, then one member after   *)
(* another is checked again and written; the first that is not verified    *)
(* stops the batch, and the ledger says what became of each.  Nothing is   *)
(* rolled back.                                                            *)
(*                                                                         *)
(* A member writes one config and reads some (its own and those that use   *)
(* the same entities).  A config is as previewed, as the batch wrote it,   *)
(* or as somebody else did meanwhile.                                      *)
(***************************************************************************)
EXTENDS Naturals, FiniteSets

CONSTANTS Size,     \* how many members
          Deletes,  \* the members that delete their config
          Reads     \* the configs each member's plan rests on

Members == 1..Size

BatchAssumption ==
  /\ Size \in Nat \ {0} /\ Deletes \subseteq Members
  /\ Reads \in [Members -> SUBSET Members] /\ \A m \in Members : m \in Reads[m]

VARIABLES house,   \* Home Assistant: each member's config
          memo,    \* the session's remembered reads
          at, m,   \* what the apply does, and for which member
          copies,  \* the deletes a copy was saved for
          written, \* the configs this apply wrote and verified
          status,  \* the ledger
          plan,    \* the claimed plan: held, handed back or used up
          sent,    \* history: the members Home Assistant took
          edited   \* history: the configs somebody else had changed as the check began

vars == <<house, memo, at, m, copies, written, status, plan, sent, edited>>

Content == {"previewed", "ours", "theirs"}
Fates   == {"verified", "not_sent", "drift", "failed", "unverified", "unknown"}

BatchTypeOK ==
  /\ house \in [Members -> Content]
  /\ DOMAIN memo \subseteq Members /\ memo \in [DOMAIN memo -> Content]
  /\ at \in {"planning", "copying", "checking", "sending", "verifying", "over"}
  /\ m \in Members
  /\ copies \subseteq Deletes /\ written \subseteq Members \ Deletes
  /\ status \in [Members -> Fates \cup {"not_attempted"}]
  /\ plan \in {"held", "back", "used"}
  /\ sent \cup edited \subseteq Members

Init ==
  /\ house \in [Members -> {"previewed", "theirs"}]
  /\ memo = [k \in {} |-> "previewed"]
  /\ at = "planning" /\ m = 1 /\ copies = {} /\ written = {}
  /\ status = [k \in Members |-> "not_attempted"] /\ plan = "held"
  /\ sent = {} /\ edited = {}

Theirs == {k \in Members : house[k] = "theirs"}

\* The first read of a config is remembered.
Read(k) ==
  /\ k \notin DOMAIN memo
  /\ memo' = [x \in DOMAIN memo \cup {k} |-> IF x = k THEN house[k] ELSE memo[x]]
  /\ UNCHANGED <<house, at, m, copies, written, status, plan, sent, edited>>

Over(end) == at' = "over" /\ plan' = end

\* computeBatchPlan.  One member changed: the batch is used up, nothing is sent.
Replan ==
  /\ at = "planning" /\ DOMAIN memo = UNION {Reads[k] : k \in Members}
  /\ IF \A k \in DOMAIN memo : memo[k] = "previewed"
     THEN at' = "copying" /\ UNCHANGED plan
     ELSE Over("used")
  /\ UNCHANGED <<house, memo, m, copies, written, status, sent, edited>>

\* The Relay is gone before the first send.
ReplanFails ==
  /\ at = "planning"
  /\ Over("back")
  /\ UNCHANGED <<house, memo, m, copies, written, status, sent, edited>>

SaveCopy(k) ==
  /\ at = "copying" /\ k \in Deletes \ copies
  /\ \/ copies' = copies \cup {k} /\ UNCHANGED <<at, plan>>
     \/ Over("back") /\ UNCHANGED copies
  /\ UNCHANGED <<house, memo, m, written, status, sent, edited>>

\* With all the copies, or after one failed once and the user chose to go on
\* without any.
Copied ==
  /\ at = "copying" /\ copies \in {{}, Deletes}
  /\ at' = "sending"
  /\ UNCHANGED <<house, memo, m, copies, written, status, plan, sent, edited>>

-----------------------------------------------------------------------------
(* One member after another *)

\* batchStopped: the members after this one were not attempted.
Stop(fate) ==
  /\ status' = [status EXCEPT ![m] = fate]
  /\ Over("used")

\* excusedByBatch: a config an earlier member wrote may be as it wrote it; one
\* it deleted is no longer as previewed.
Excused(k) == memo[k] = IF k \in written THEN "ours" ELSE "previewed"

\* The member planned again, from reads of its own.
Recheck ==
  /\ at = "checking" /\ Reads[m] \subseteq DOMAIN memo
  /\ IF \A k \in Reads[m] : Excused(k)
     THEN at' = "sending" /\ UNCHANGED <<status, plan>>
     ELSE Stop("drift")
  /\ UNCHANGED <<house, memo, m, copies, written, sent, edited>>

RecheckFails ==
  /\ at = "checking"
  /\ Stop("not_sent")
  /\ UNCHANGED <<house, memo, m, copies, written, sent, edited>>

Write == house' = [house EXCEPT ![m] = "ours"] /\ sent' = sent \cup {m}

Always == TRUE

NothingSentYet == m = 1

\* The request never reached Home Assistant: before the first send the batch is
\* handed back.
NothingSent ==
  /\ at = "sending"
  /\ IF NothingSentYet THEN Over("back") /\ UNCHANGED status ELSE Stop("not_sent")
  /\ UNCHANGED <<house, memo, m, copies, written, sent, edited>>

\* Home Assistant refuses the config.
Rejected ==
  /\ at = "sending"
  /\ Stop("failed")
  /\ UNCHANGED <<house, memo, m, copies, written, sent, edited>>

\* A server error or no answer: it may have taken it.
Unclear ==
  /\ at = "sending"
  /\ \E fate \in {"unverified", "unknown"} : Stop(fate)
  /\ Write \/ UNCHANGED <<house, sent>>
  /\ UNCHANGED <<memo, m, copies, written, edited>>

Send ==
  /\ at = "sending"
  /\ Write
  /\ at' = "verifying"
  /\ UNCHANGED <<memo, m, copies, written, status, plan, edited>>

KeepReads == UNCHANGED memo

\* forgetReads: the next member sees Home Assistant as it is now.
Forget == memo' = [k \in {} |-> "previewed"]

\* The read-back is what was written, or the batch stops.
Verify ==
  /\ at = "verifying"
  /\ \/ /\ house[m] = "ours"
        /\ status' = [status EXCEPT ![m] = "verified"]
        /\ written' = IF m \in Deletes THEN written ELSE written \cup {m}
        /\ IF m = Size
           THEN Over("used") /\ UNCHANGED <<memo, m, edited>>
           ELSE /\ at' = "checking" /\ m' = m + 1 /\ Forget
                /\ edited' = Theirs /\ UNCHANGED plan
     \/ Stop("unverified") /\ UNCHANGED <<memo, m, written, edited>>
  /\ UNCHANGED <<house, copies, sent>>

-----------------------------------------------------------------------------

\* Somebody else changes a config, before, between or after the writes.
Edit(k) ==
  /\ at # "over" /\ house[k] # "theirs"
  /\ house' = [house EXCEPT ![k] = "theirs"]
  /\ UNCHANGED <<memo, at, m, copies, written, status, plan, sent, edited>>

Next ==
  \/ \E k \in Members : Read(k) /\ (at = "planning" \/ (at = "checking" /\ k \in Reads[m]))
  \/ \E k \in Members : SaveCopy(k) \/ Edit(k)
  \/ Replan \/ ReplanFails \/ Copied \/ Recheck \/ RecheckFails
  \/ NothingSent \/ Rejected \/ Unclear \/ Send \/ Verify

Spec == Init /\ [][Next]_vars

-----------------------------------------------------------------------------
(* What makes it correct *)

\* The ledger and the plan say what happened: a member said to be verified was
\* written, one said not to be sent, refused or not attempted was not, and the
\* batch can be applied again only if no member was.
LedgerIsTrue ==
  at = "over" =>
    /\ \A k \in Members :
         /\ status[k] = "verified" => k \in sent
         /\ status[k] \in {"not_attempted", "not_sent", "drift", "failed"} => k \notin sent
    /\ plan = "back" => sent = {}

\* A member is sent only while what its preview rested on is as the user saw it,
\* but for the batch's own verified writes: whoever changed one of those configs
\* before the member's check began stops the batch.
EditsAreSeen == [][\A k \in sent' \ sent : Reads[k] \cap edited = {}]_vars
=============================================================================
