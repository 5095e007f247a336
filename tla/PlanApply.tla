----------------------------- MODULE PlanApply -----------------------------
(***************************************************************************)
(* Stored plans and `ha-nova apply` (plan_store.go, verb_apply.go).  A     *)
(* plan is a file of one directory that any number of processes share:     *)
(* CLI runs and MCP servers.  A process claims a plan by renaming its      *)
(* file, checks it, plans it again from its stored request, compares the   *)
(* code, sends the change once, and removes the file; or it renames the    *)
(* file back when nothing was sent and the user may try again.             *)
(*                                                                         *)
(* One step is one file operation with the decisions up to the next one.   *)
(* The drift hash is the version of Home Assistant the plan was made       *)
(* against, and a code is the plan it was derived for.  Edited plan files  *)
(* are left out.                                                           *)
(***************************************************************************)
EXTENDS Naturals, FiniteSets, Sequences

CONSTANTS Plans,      \* plan ids: never drawn twice (planIdentity)
          Procs, Nobody,
          NoPlan, NoCode,
          Asks,       \* how plans are confirmed, a subset of AllAsks
          PlanTTL, MaxFiles, MaxMismatches,
          MaxNow, MaxHouse

AllAsks == {"preview", "chat", "form", "window", "phone"}

Plan == [ask : Asks, expires : Nat, basis : Nat, from : SUBSET Plans]

ASSUME PlanAssumption ==
  /\ NoPlan \notin Plan /\ NoPlan \notin Plans /\ NoCode \notin Plans /\ Nobody \notin Procs
  /\ Asks \subseteq AllAsks
  /\ PlanTTL \in Nat \ {0} /\ MaxFiles \in Nat \ {0}
  /\ MaxMismatches \in Nat \ {0}
  /\ MaxNow \in Nat /\ MaxHouse \in Nat

VARIABLES now, house,
          made,     \* the fixed fields of each plan ever made, or NoPlan
          open,     \* <id>.json: its counter, flag and modification time
          claims,   \* <id>.claimed-<pid>: the same, and whose
          proc,     \* each process: where it is, and with what
          sent,     \* history: how often each plan was sent
          guesses,  \* history: the wrong codes each plan was tried with
          unsaved   \* history: the plans whose snapshot once failed

filesVars == <<made, open, claims>>
history   == <<sent, guesses, unsaved>>
vars      == <<now, house, filesVars, proc, history>>

File == [mismatches : Nat, snapshotFailed : BOOLEAN, mtime : Nat]

NewFile == [mismatches |-> 0, snapshotFailed |-> FALSE, mtime |-> 0]

Stage == {"idle", "asking", "answered", "replacing", "gathering",
          "claimed", "checked", "drifted", "confirmed", "approved",
          "saving", "finishing", "returning"}

\* What a process knows: the plan it asks about or applies and that file as it
\* last read it, the plans it holds, the answer, and the plan it is making.
Process == [at : Stage, plan : Plans \cup {NoPlan}, file : File, held : SUBSET Plans,
            code : Plans \cup {NoCode}, human : BOOLEAN, without : BOOLEAN,
            saw : Nat, fresh : Plans \cup {NoPlan}]

Idle == [at |-> "idle", plan |-> NoPlan, file |-> NewFile, held |-> {},
         code |-> NoCode, human |-> FALSE, without |-> FALSE, saw |-> 0, fresh |-> NoPlan]

PlanTypeOK ==
  /\ now \in Nat /\ house \in Nat
  /\ made \in [Plans -> Plan \cup {NoPlan}]
  /\ DOMAIN open \subseteq Plans /\ open \in [DOMAIN open -> File]
  /\ DOMAIN claims \subseteq Plans
  /\ claims \in [DOMAIN claims -> [file : File, by : Procs \cup {Nobody}]]
  /\ proc \in [Procs -> Process]
  /\ \A q, r \in Procs : q # r => proc[q].held \cap proc[r].held = {}
  /\ sent \in [Plans -> Nat]
  /\ guesses \in [Plans -> Nat] /\ unsaved \in SUBSET Plans

Init ==
  /\ now = 0 /\ house = 0
  /\ made = [p \in Plans |-> NoPlan]
  /\ open = [p \in {} |-> NoPlan] /\ claims = [p \in {} |-> NoPlan]
  /\ proc = [q \in Procs |-> Idle]
  /\ sent = [p \in Plans |-> 0]
  /\ guesses = [p \in Plans |-> 0] /\ unsaved = {}

Goto(q, stage) == proc' = [proc EXCEPT ![q].at = stage]

With(f, p, v) == [x \in DOMAIN f \cup {p} |-> IF x = p THEN v ELSE f[x]]

Less(f, S) == [x \in DOMAIN f \ S |-> f[x]]

-----------------------------------------------------------------------------
(* savePlan: prune the directory, then write the new plan's file *)

UndatedStale(file) == now - NewFile.mtime > PlanTTL

Stale(file) == now - file.mtime > PlanTTL

Young == {p \in DOMAIN open : ~Stale(open[p])}

\* prunePlans over the limit: the oldest go until there is room for one more.
Survivors ==
  {K \in SUBSET Young :
     /\ Cardinality(K) < MaxFiles
     /\ K # Young => Cardinality(K) = MaxFiles - 1
     /\ \A p \in K, x \in Young \ K : open[x].mtime <= open[p].mtime}

\* Abandoned claims go by their age only.
StaleClaims == {p \in DOMAIN claims : Stale(claims[p].file)}

PruneClaims == claims' = Less(claims, StaleClaims)

Prune == (\E K \in Survivors : open' = [p \in K |-> open[p]]) /\ PruneClaims

\* sealPlan and the pruning: p is a plan now, and saved next.
Draft(q, p, ask, basis, from, file) ==
  /\ made[p] = NoPlan
  /\ made' = [made EXCEPT ![p] = [ask |-> ask, expires |-> now + PlanTTL, basis |-> basis,
                                  from |-> from]]
  /\ Prune
  /\ proc' = [proc EXCEPT ![q].at = "saving", ![q].fresh = p, ![q].file = file]

\* `ha-nova plan ...`
MakePlan(q, p, ask) ==
  /\ proc[q].at = "idle"
  /\ Draft(q, p, ask, house, {}, NewFile)
  /\ UNCHANGED <<now, house, history>>

Settle(q, stage) ==
  proc' = [proc EXCEPT ![q] = IF proc[q].held = {} THEN Idle ELSE [proc[q] EXCEPT !.at = stage]]

\* The write may fail.  Then a drifted plan is used up all the same; a window
\* plan that could not become another one, and a batch's members, are handed back.
Drifted(q) == proc[q].plan # NoPlan /\ proc[q].saw # made[proc[q].plan].basis

Save(q) ==
  /\ proc[q].at = "saving"
  /\ \/ /\ open' = With(open, proc[q].fresh, [proc[q].file EXCEPT !.mtime = now])
        /\ Settle(q, "finishing")
     \/ /\ UNCHANGED open
        /\ Settle(q, IF Drifted(q) THEN "finishing" ELSE "returning")
  /\ UNCHANGED <<now, house, made, claims, history>>

-----------------------------------------------------------------------------
(* Claiming a plan: one atomic rename, back or removed at the end *)

Take(q, p) ==
  /\ p \in DOMAIN open
  /\ open' = Less(open, {p})
  /\ claims' = With(claims, p, [file |-> open[p], by |-> q])

\* The claim as it is now; a slow process may find it pruned.
Held(p) == p \in DOMAIN claims

Drop(q, p) ==
  proc' = [proc EXCEPT ![q] = IF proc[q].held = {p} THEN Idle
                              ELSE [proc[q] EXCEPT !.held = @ \ {p}]]

Remove(q, p) ==
  /\ proc[q].at = "finishing" /\ p \in proc[q].held
  /\ claims' = Less(claims, {p})
  /\ Drop(q, p)
  /\ UNCHANGED <<now, house, made, open, history>>

HandBack(q, p) ==
  /\ proc[q].at = "returning" /\ p \in proc[q].held
  /\ IF Held(p) THEN open' = With(open, p, claims[p].file) ELSE UNCHANGED open
  /\ claims' = Less(claims, {p})
  /\ Drop(q, p)
  /\ UNCHANGED <<now, house, made, history>>

Consume(q) == Goto(q, "finishing") /\ UNCHANGED filesVars

Return(q) == Goto(q, "returning") /\ UNCHANGED filesVars

\* writePlanFile on the claim, before it goes back.
Rewrite(q, file) ==
  /\ claims' = With(claims, proc[q].plan, [file |-> [file EXCEPT !.mtime = now], by |-> q])
  /\ Goto(q, "returning")
  /\ UNCHANGED <<made, open>>

-----------------------------------------------------------------------------
(* The human's answer, before the claim (confirmByForm, confirmByWindow) *)

Unexpired(p) == now < made[p].expires

SameHouse(p) == made[p].basis = house

\* A window or the linked phone asks; the code never leaves the process.
HumanChannel(p) == made[p].ask \in {"window", "phone"}

\* A form may be shown for a chat plan, too; a window or the phone asks only while
\* Home Assistant is what the plan was made against.
Ask(q, p, without) ==
  /\ proc[q].at = "idle" /\ p \in DOMAIN open
  /\ Unexpired(p)
  /\ made[p].ask # "preview"
  /\ HumanChannel(p) => SameHouse(p)
  /\ without => open[p].snapshotFailed
  /\ proc' = [proc EXCEPT ![q] = [Idle EXCEPT !.at = "asking", !.plan = p, !.file = open[p],
                                              !.without = without]]
  /\ UNCHANGED <<now, house, filesVars, history>>

\* In a form the human types a code; in the window or on the phone they confirm
\* and the process derives it.
Answer(q, code) ==
  /\ proc[q].at = "asking"
  /\ HumanChannel(proc[q].plan) => code = proc[q].plan
  /\ proc' = [proc EXCEPT ![q].at = "answered", ![q].code = code, ![q].human = TRUE]
  /\ UNCHANGED <<now, house, filesVars, history>>

\* Declined, closed, too late, or nobody to ask.
Unanswered(q) ==
  /\ proc[q].at = "asking"
  /\ proc' = [proc EXCEPT ![q] = Idle]
  /\ UNCHANGED <<now, house, filesVars, history>>

\* windowFallback: no window can open, so the plan is claimed and planned again
\* for another channel: the phone, a form or the chat.  Somebody else may have
\* claimed it.
FallbackUnclaimed(q, p) ==
  /\ p \in DOMAIN open /\ UNCHANGED <<open, claims>>
  /\ proc' = [proc EXCEPT ![q].at = "replacing", ![q].held = {p}, ![q].saw = house]

FallbackClaim(q, p) ==
  /\ Take(q, p)
  /\ proc' = [proc EXCEPT ![q].at = "replacing", ![q].held = {p}, ![q].saw = house]

Fallback(q) ==
  /\ proc[q].at = "asking" /\ made[proc[q].plan].ask = "window"
  /\ SameHouse(proc[q].plan)
  /\ FallbackClaim(q, proc[q].plan)
  /\ UNCHANGED <<now, house, made, history>>

\* detectAfterWindow.  What is known of the old plan's snapshot stays known.
Replace(q, p, ask) ==
  /\ proc[q].at = "replacing" /\ ask \notin {"preview", "window"}
  /\ Draft(q, p, ask, proc[q].saw, proc[q].held,
           [NewFile EXCEPT !.snapshotFailed = proc[q].file.snapshotFailed])
  /\ UNCHANGED <<now, house, history>>

-----------------------------------------------------------------------------
(* planBatch: claim every member, then store the one plan they become *)

Gather(q, p) ==
  /\ \/ proc[q].at = "idle"
     \/ proc[q].at = "gathering" /\ Cardinality(proc[q].held) < 2
  /\ Take(q, p)
  /\ proc' = [proc EXCEPT ![q].at = "gathering", ![q].held = @ \cup {p}]
  /\ UNCHANGED <<now, house, made, history>>

\* A member that is missing, expired, drifted or of a kind no batch takes.
GatherRefused(q) ==
  /\ proc[q].at = "gathering"
  /\ Return(q)
  /\ UNCHANGED <<now, house, history>>

Batch(q, p, ask) ==
  /\ proc[q].at = "gathering" /\ Cardinality(proc[q].held) = 2
  /\ \A m \in proc[q].held : Unexpired(m) /\ SameHouse(m)
  /\ Draft(q, p, ask, house, proc[q].held, NewFile)
  /\ UNCHANGED <<now, house, history>>

-----------------------------------------------------------------------------
(* applyPlan *)

Claimed(q, p) == [proc[q] EXCEPT !.at = "claimed", !.plan = p, !.held = {p}]

\* A preview plan ignores a code.
Claim(q, p, code, without) ==
  /\ proc[q].at = "idle"
  /\ Take(q, p)
  /\ made[p].ask = "preview" => code = NoCode
  /\ proc' = [proc EXCEPT ![q] = [Claimed(q, p) EXCEPT !.code = code, !.without = without]]
  /\ UNCHANGED <<now, house, made, history>>

\* With the human's answer.  Whoever finds no file sends nothing.
ClaimAnswered(q) ==
  /\ proc[q].at = "answered"
  /\ \/ Take(q, proc[q].plan) /\ proc' = [proc EXCEPT ![q] = Claimed(q, proc[q].plan)]
     \/ /\ proc[q].plan \notin DOMAIN open
        /\ proc' = [proc EXCEPT ![q] = Idle]
        /\ UNCHANGED <<open, claims>>
  /\ UNCHANGED <<now, house, made, history>>

SnapshotRefused(q) == proc[q].without /\ ~claims[proc[q].plan].file.snapshotFailed

FormAnyCode(q) == FALSE

FormWithoutHuman(q) == made[proc[q].plan].ask = "form" /\ ~proc[q].human

\* The validity switch.  Handed back: a chat user whose level is too low, no
\* snapshot before one failed, a form plan without its form.  Used up: a file
\* that cannot be read, an expired plan.
Check(q) ==
  LET p == proc[q].plan IN
  /\ proc[q].at = "claimed"
  /\ \/ Held(p) /\ Return(q)
     \/ ~(Held(p) /\ Unexpired(p)) /\ Consume(q)
     \/ /\ Held(p) /\ Unexpired(p)
        /\ ~SnapshotRefused(q) /\ ~FormWithoutHuman(q)
        /\ proc' = [proc EXCEPT ![q].at = "checked", ![q].file = claims[p].file]
        /\ UNCHANGED filesVars
  /\ UNCHANGED <<now, house, history>>

\* A typed plan keeps its channel.
FreshAsks(p) == IF made[p].ask = "preview" THEN Asks ELSE {made[p].ask, "preview"} \cap Asks

\* The plan computed anew from its request.  Handed back: the Relay cannot be
\* reached.  Used up: the target is gone, the call already done, a batch drifted.
Recompute(q) ==
  /\ proc[q].at = "checked"
  /\ \/ Return(q) \/ Consume(q)
     \/ /\ SameHouse(proc[q].plan)
        /\ proc' = [proc EXCEPT ![q].at = "confirmed", ![q].saw = house]
        /\ UNCHANGED filesVars
     \/ /\ ~SameHouse(proc[q].plan)
        /\ proc' = [proc EXCEPT ![q].at = "drifted", ![q].saw = house]
        /\ UNCHANGED filesVars
  /\ UNCHANGED <<now, house, history>>

\* Drift: a new plan, with a code of its own, and the old one is used up.
Redraft(q, p, ask) ==
  /\ proc[q].at = "drifted" /\ ask \in FreshAsks(proc[q].plan)
  /\ Draft(q, p, ask, proc[q].saw, proc[q].held, NewFile)
  /\ UNCHANGED <<now, house, history>>

-----------------------------------------------------------------------------
(* The code, and the one execution *)

Typed(q) == made[proc[q].plan].ask # "preview"

\* Nothing that could be the code: no attempt is used.
NoAnswer(q) == \/ proc[q].code = NoCode
               \/ HumanChannel(proc[q].plan) /\ ~proc[q].human

RightCode(q) == proc[q].code = proc[q].plan

Uncounted(q) == proc[q].file

Counted(q) == [proc[q].file EXCEPT !.mismatches = @ + 1]

\* The counter is written before the plan goes back; the last guess uses it up,
\* as does a file that cannot be written.
Mismatch(q) ==
  /\ guesses' = [guesses EXCEPT ![proc[q].plan] = @ + 1]
  /\ \/ proc[q].file.mismatches + 1 < MaxMismatches /\ Rewrite(q, Counted(q))
     \/ Consume(q)

Judge(q) ==
  /\ proc[q].at = "confirmed"
  /\ IF Typed(q) /\ NoAnswer(q) THEN Return(q) /\ UNCHANGED guesses
     ELSE IF Typed(q) /\ ~RightCode(q) THEN Mismatch(q)
     ELSE Goto(q, "approved") /\ UNCHANGED <<filesVars, guesses>>
  /\ UNCHANGED <<now, house, sent, unsaved>>

\* errSnapshotFailed: nothing was deleted or saved.
SnapshotFails(q) ==
  /\ proc[q].at = "approved" /\ ~proc[q].without
  /\ unsaved' = unsaved \cup {proc[q].plan}
  /\ Rewrite(q, [proc[q].file EXCEPT !.snapshotFailed = TRUE]) \/ Consume(q)
  /\ UNCHANGED <<now, house, sent, guesses>>

\* release: the request never reached Home Assistant.
NotSent(q) ==
  /\ proc[q].at = "approved"
  /\ Return(q)
  /\ UNCHANGED <<now, house, history>>

AfterSendReturned(q) == Return(q) \/ Consume(q)

\* Once sent, also with an unknown outcome, the plan is used up.
AfterSend(q) == Consume(q)

SendIt(q) ==
  /\ proc[q].at = "approved"
  /\ sent' = [sent EXCEPT ![proc[q].plan] = @ + 1]
  /\ AfterSend(q)
  /\ UNCHANGED <<now, house, guesses, unsaved>>

-----------------------------------------------------------------------------

\* The process is killed: its claims stay behind, and no later process has its pid.
Crash(q) ==
  /\ proc[q].at # "idle"
  /\ proc' = [proc EXCEPT ![q] = Idle]
  /\ claims' = [p \in DOMAIN claims |-> IF claims[p].by = q THEN [claims[p] EXCEPT !.by = Nobody]
                                        ELSE claims[p]]
  /\ UNCHANGED <<now, house, made, open, history>>

Tick == now < MaxNow /\ now' = now + 1 /\ UNCHANGED <<house, filesVars, proc, history>>

HouseChanges == house < MaxHouse /\ house' = house + 1 /\ UNCHANGED <<now, filesVars, proc, history>>

Next ==
  \/ \E q \in Procs :
       \/ \E p \in Plans, ask \in Asks :
            \/ MakePlan(q, p, ask) \/ Replace(q, p, ask) \/ Batch(q, p, ask) \/ Redraft(q, p, ask)
       \/ Save(q)
       \/ \E p \in Plans :
            \/ Gather(q, p) \/ Remove(q, p) \/ HandBack(q, p)
            \/ Answer(q, p)
            \/ proc[q].at = "idle" /\ \E without \in BOOLEAN :  \* either starts there
                 \/ Ask(q, p, without)
                 \/ \E code \in Plans \cup {NoCode} : Claim(q, p, code, without)
       \/ Unanswered(q) \/ Fallback(q) \/ GatherRefused(q) \/ ClaimAnswered(q)
       \/ Check(q) \/ Recompute(q) \/ Judge(q)
       \/ SnapshotFails(q) \/ NotSent(q) \/ SendIt(q)
       \/ Crash(q)
  \/ Tick \/ HouseChanges

Spec == Init /\ [][Next]_vars

-----------------------------------------------------------------------------
(* Properties *)

\* Only what the human confirmed is sent: a typed plan with its own code, never
\* that of the plan it replaced, from the form, window or phone where that is
\* its channel; for Home Assistant as it was when the plan was made; and without
\* a snapshot only after this change's snapshot failed (applyPlan).
SentAsConfirmed ==
  [][\A p \in Plans : sent'[p] > sent[p] =>
       \E q \in Procs :
         /\ proc[q].plan = p /\ proc[q].saw = made[p].basis
         /\ made[p].ask # "preview" => proc[q].code = p
         /\ made[p].ask = "form" \/ HumanChannel(p) => proc[q].human
         /\ proc[q].without => ({p} \cup made[p].from) \cap unsaved # {}]_vars

\* Three wrong codes are all a plan is ever tried with, over concurrent applies,
\* crashes between the comparison and the write, and failed writes.
ThreeGuesses ==
  \A p \in Plans :
    /\ guesses[p] <= MaxMismatches
    /\ guesses[p] = MaxMismatches => p \notin DOMAIN open

\* A change is sent once, whichever of the plans that stand for it is used: the
\* plan, its replacement after drift or a missing window, or the batch it joined.
\* What was replaced is never offered again.
OneSendPerChange ==
  \A p \in Plans :
    /\ sent[p] <= 1
    /\ made[p] # NoPlan /\ (p \in DOMAIN open \/ sent[p] > 0) =>
         \A m \in made[p].from : m \notin DOMAIN open /\ sent[m] = 0

\* Pruning takes a plan, or the claim under a running apply, only after it
\* expired or to make room for another plan.
NothingUsableIsPruned ==
  [][\A p \in Plans :
       /\ (p \in DOMAIN open /\ p \notin DOMAIN open' \cup DOMAIN claims' /\ Unexpired(p))
            => Cardinality(DOMAIN open) >= MaxFiles
       /\ (p \in DOMAIN claims /\ p \notin DOMAIN open' \cup DOMAIN claims' /\ Unexpired(p))
            => \E q \in Procs : p \in proc[q].held /\ proc[q].at = "finishing"]_vars

\* The plan files implement a one-shot plan.
Status ==
  [p \in Plans |->
     IF p \in DOMAIN open THEN "offered"
     ELSE IF \E q \in Procs : p \in proc[q].held THEN "taken"
     ELSE IF made[p] = NoPlan \/ \E q \in Procs : proc[q].at = "saving" /\ proc[q].fresh = p
          THEN "none"
     ELSE "spent"]

OneShot == INSTANCE OneShotPlan
             WITH status <- Status, done <- {p \in Plans : sent[p] > 0}

ImplementsOneShotPlan == OneShot!Spec
=============================================================================
