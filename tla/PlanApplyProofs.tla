--------------------------- MODULE PlanApplyProofs ---------------------------
(***************************************************************************)
(* Proofs about stored plans for every number of plans and processes, and  *)
(* every limit: one send per change, three guesses per plan, nothing sent  *)
(* that was not confirmed, nothing usable pruned.  Then what OneShotPlan   *)
(* promises (Promise), and what sending a batch does in detail (Steps).    *)
(*                                                                         *)
(* A plan is in one place: open, held by one process, or being made.  What *)
(* left all three is over and stays over.  Of a plan and the plans it      *)
(* replaced or batched, those it came from are over before it is open      *)
(* (Lineage); so whichever is sent, it is the only one.                    *)
(*                                                                         *)
(* Processes act on what they read earlier.  FilesFit says what a file     *)
(* knows of its plan, Stands what a process may rely on at each stage; the *)
(* claim keeps it true, for only its owner may open the plan again.        *)
(***************************************************************************)
EXTENDS PlanBatch, FiniteSetTheorems, TLAPS

VARIABLES stored, carried

Promise == INSTANCE OneShotPlan WITH status <- stored, done <- carried

-----------------------------------------------------------------------------
(* The inductive invariant *)

Born == {p \in Plans : made[p] # NoPlan}

Making(p) == \E q \in Procs : proc[q].at = "saving" /\ proc[q].fresh = p

\* Somebody can still apply it: it is open, or its holder may hand it back.
Usable(p) ==
  p \in DOMAIN open \/ \E q \in Procs : p \in proc[q].held /\ proc[q].at # "finishing"

Over(p) == ~Usable(p) /\ ~Making(p)

\* Files, holds and histories are of plans that were made.
OnlyBorn ==
  /\ DOMAIN open \subseteq Born /\ DOMAIN claims \subseteq Born
  /\ \A q \in Procs : proc[q].held \subseteq Born
  /\ \A p \in Born : made[p].from \subseteq Born /\ made[p].expires <= now + PlanTTL
  /\ \A p \in Plans \ Born : sent[p] = 0 /\ guesses[p] = 0

\* No plan is open and held, and a claim names who holds the plan.
OnePlace ==
  /\ DOMAIN open \cap DOMAIN claims = {}
  /\ \A q \in Procs : \A p \in proc[q].held :
       p \notin DOMAIN open /\ (p \in DOMAIN claims => claims[p].by = q)

WasUnsaved(p) == p \in unsaved \/ made[p].from \cap unsaved # {}

\* A window plan is never a replacement, so its own snapshot failed.
Justified(file, p) ==
  file.snapshotFailed => WasUnsaved(p) /\ (made[p].ask = "window" => p \in unsaved)

\* No guess is missing in the file, and the last one is never in it.
Fits(file, p) == guesses[p] <= file.mismatches /\ file.mismatches < MaxMismatches

\* The claims of a process that is finishing need not fit: they are removed.
FilesFit ==
  /\ \A p \in DOMAIN open :
       Fits(open[p], p) /\ Justified(open[p], p) /\ made[p].expires <= open[p].mtime + PlanTTL
  /\ \A p \in DOMAIN claims : made[p].expires <= claims[p].file.mtime + PlanTTL
  /\ \A q \in Procs : \A p \in proc[q].held \cap DOMAIN claims :
       proc[q].at # "finishing" => Fits(claims[p].file, p) /\ Justified(claims[p].file, p)

\* The plan q is about to save is nobody else's, and untouched.
Maker(q) ==
  LET p == proc[q].fresh IN
  proc[q].at = "saving" =>
    /\ p \in Born /\ p \notin DOMAIN open /\ p \notin DOMAIN claims
    /\ sent[p] = 0 /\ guesses[p] = 0
    /\ \A r \in Procs : p \notin proc[r].held /\ (proc[r].at = "saving" /\ proc[r].fresh = p => r = q)
    /\ made[p].from = proc[q].held
    /\ proc[q].file.mismatches = 0 /\ Justified(proc[q].file, p)

\* What q holds and knows at each stage.
Stands(q) ==
  LET stage == proc[q].at  p == proc[q].plan  file == proc[q].file IN
  /\ stage \in {"idle", "asking", "answered"} => proc[q].held = {}
  /\ stage \in {"asking", "replacing"} => Justified(file, p)
  /\ stage \in {"asking", "answered", "replacing", "claimed", "checked", "drifted", "confirmed", "approved"}
       => p \in Born
  /\ stage \in {"replacing", "claimed", "checked", "drifted", "confirmed", "approved"} => proc[q].held = {p}
  /\ stage = "replacing" => made[p].ask = "window"
  /\ stage \in {"checked", "confirmed", "approved"} =>
       /\ Fits(file, p) /\ Justified(file, p)
       /\ made[p].ask = "form" => proc[q].human
       /\ proc[q].without => WasUnsaved(p)
  /\ stage \in {"confirmed", "approved"} => proc[q].saw = made[p].basis
  /\ stage = "approved" /\ made[p].ask # "preview" =>
       proc[q].code = p /\ (HumanChannel(p) => proc[q].human)

\* What was sent is over.
SentOnce == \A p \in Plans : sent[p] \in {0, 1} /\ (sent[p] = 1 => Over(p))

Unsent(p) == Over(p) /\ sent[p] = 0

\* Either the plan itself was never sent and never will be, or those it came from.
Lineage == \A p \in Born : Unsent(p) \/ Making(p) \/ \A m \in made[p].from : Unsent(m)

PlanInv ==
  /\ PlanTypeOK /\ IsFiniteSet(DOMAIN open)
  /\ OnlyBorn /\ OnePlace /\ FilesFit
  /\ \A q \in Procs : Maker(q) /\ Stands(q)
  /\ SentOnce /\ Lineage
  /\ \A p \in Plans : guesses[p] <= MaxMismatches

-----------------------------------------------------------------------------
(* What every step has to keep *)

\* What was used up stays so.
NoReturn == \A p \in Born : Over(p) => Over(p)'

MadeStay == \A p \in Born : made'[p] = made[p]

\* A step that sends nothing: it is enough to look at the plans being made.
LEMMA LineageKept ==
  ASSUME PlanTypeOK, SentOnce, Lineage, NoReturn, MadeStay, sent' = sent,
         OnlyBorn,
         \A p \in Born' \ Born : Making(p)',
         \A p \in Born : Making(p) => \/ Making(p)'
                                      \/ Over(p)' /\ sent[p] = 0
                                      \/ \A m \in made[p].from : Unsent(m)'
  PROVE  SentOnce' /\ Lineage'
<1>1. SentOnce'
  <2> SUFFICES ASSUME NEW p \in Plans
               PROVE  sent[p] \in {0, 1} /\ (sent[p] = 1 => Over(p)')
    BY DEF SentOnce
  <2>1. CASE sent[p] = 1
    BY <2>1 DEF SentOnce, OnlyBorn, NoReturn
  <2> QED
    BY <2>1 DEF SentOnce
<1>2. \A p \in Born : Unsent(p) => Unsent(p)'
  BY DEF NoReturn, Unsent
<1>3. Lineage'
  <2> SUFFICES ASSUME NEW p \in Born'
               PROVE  Unsent(p)' \/ Making(p)' \/ \A m \in made'[p].from : Unsent(m)'
    BY DEF Lineage
  <2>1. CASE p \notin Born
    BY <2>1
  <2>2. CASE p \in Born
    <3>1. made'[p] = made[p] /\ made[p].from \subseteq Born
      BY <2>2 DEF MadeStay, OnlyBorn
    <3>2. CASE Making(p)
      BY <2>2, <3>1, <3>2 DEF Unsent
    <3> QED
      BY <1>2, <2>2, <3>1, <3>2 DEF Lineage
  <2> QED
    BY <2>1, <2>2
<1> QED
  BY <1>1, <1>3

\* What fits a plan still fits it while nobody guesses.
LEMMA FitsStay ==
  ASSUME MadeStay, unsaved \subseteq unsaved', NEW p \in Born, NEW f
  PROVE  /\ WasUnsaved(p) => WasUnsaved(p)'
         /\ Justified(f, p) => Justified(f, p)'
         /\ guesses'[p] = guesses[p] /\ Fits(f, p) => Fits(f, p)'
<1>1. WasUnsaved(p) => WasUnsaved(p)'
  BY DEF WasUnsaved, MadeStay
<1>2. Justified(f, p) => Justified(f, p)'
  BY <1>1 DEF Justified, MadeStay
<1>3. guesses'[p] = guesses[p] /\ Fits(f, p) => Fits(f, p)'
  BY DEF Fits
<1> QED
  BY <1>1, <1>2, <1>3

\* What another process relies on is not changed under it.
LEMMA OthersStand ==
  ASSUME PlanInv, MadeStay, unsaved \subseteq unsaved',
         NEW r \in Procs, proc'[r] = proc[r],
         \A p \in proc[r].held : guesses'[p] = guesses[p]
  PROVE  Stands(r)'
<1>1. \A p \in Born : p \in Born' /\ (HumanChannel(p) <=> HumanChannel(p)')
  BY DEF MadeStay, Born, HumanChannel
<1>2. Stands(r) /\ proc[r] \in Process
  BY DEF PlanInv, PlanTypeOK
<1> QED
  BY <1>1, <1>2, FitsStay DEF Stands, Process, MadeStay

\* Who makes a plan goes on with it while nothing is done to the plan.
LEMMA OthersMake ==
  ASSUME PlanInv, MadeStay, unsaved \subseteq unsaved',
         NEW r \in Procs, proc'[r] = proc[r],
         \A p \in Born : Making(p) =>
           /\ p \notin DOMAIN open' /\ p \notin DOMAIN claims'
           /\ \A x \in Procs : p \notin proc'[x].held
           /\ guesses'[p] = guesses[p] /\ sent'[p] = sent[p],
         \A p \in Born, x \in Procs :
           Making(p) /\ proc'[x].at = "saving" /\ proc'[x].fresh = p
             => proc[x].at = "saving" /\ proc[x].fresh = p
  PROVE  Maker(r)'
<1> SUFFICES ASSUME proc[r].at = "saving" PROVE Maker(r)'
  BY DEF Maker
<1> DEFINE p == proc[r].fresh
<1>1. Maker(r) /\ p \in Born /\ Making(p)
  BY DEF PlanInv, Maker, Making
<1>2. p \in Born' /\ made'[p] = made[p]
  BY <1>1 DEF MadeStay, Born
<1>3. Justified(proc[r].file, p) => Justified(proc[r].file, p)'
  BY <1>1, FitsStay
<1> QED
  BY <1>1, <1>2, <1>3 DEF Maker, Justified, WasUnsaved

-----------------------------------------------------------------------------
(* The kinds of steps *)

\* q goes on, with what it holds.
GoesOn(q) ==
  /\ proc'[q] \in Process /\ proc' = [proc EXCEPT ![q] = proc'[q]]
  /\ proc'[q].held = proc[q].held
  /\ proc'[q].at # "saving" /\ proc[q].at # "finishing"
  /\ UNCHANGED <<now, house, made, open, claims, sent, guesses>>
  /\ unsaved \subseteq unsaved' /\ unsaved' \subseteq Plans

LEMMA GoesOnKeeps ==
  ASSUME PlanInv, NEW q \in Procs, GoesOn(q), Stands(q)'
  PROVE  PlanInv'
<1> USE DEF GoesOn
<1>1. PlanTypeOK'
  BY DEF PlanInv, PlanTypeOK
<1>2. \A r \in Procs : r # q => proc'[r] = proc[r]
  BY DEF PlanInv, PlanTypeOK
<1>3. \A r \in Procs : proc'[r].held = proc[r].held
  BY <1>2
<1>4. Born' = Born
  BY DEF Born
<1>5. OnlyBorn' /\ OnePlace'
  BY <1>3, <1>4 DEF PlanInv, OnlyBorn, OnePlace
<1>6. \A p \in Born : WasUnsaved(p) => WasUnsaved(p)'
  BY DEF WasUnsaved
<1>7. \A p \in Born, f \in File : Justified(f, p) => Justified(f, p)'
  BY <1>6 DEF Justified
<1>8. FilesFit'
  BY <1>2, <1>3, <1>7 DEF PlanInv, PlanTypeOK, OnlyBorn, FilesFit, Fits
<1>9. ASSUME NEW r \in Procs PROVE Maker(r)' /\ Stands(r)'
  BY <1>2, <1>3, <1>4, <1>6, <1>7, <1>9 DEF PlanInv, PlanTypeOK, Process, Maker, Stands, Fits, HumanChannel
<1>10. NoReturn
  BY <1>2, <1>3 DEF NoReturn, Over, Usable, Making
<1>11. SentOnce' /\ Lineage'
  <2>1. ASSUME NEW p \in Born, Making(p) PROVE Making(p)' \/ (Over(p)' /\ sent[p] = 0)
    BY <1>2, <1>3, <2>1 DEF Making, PlanInv, Maker, Over, Usable
  <2> QED
    BY <1>4, <1>10, <2>1, LineageKept DEF PlanInv, MadeStay
<1> QED
  BY <1>1, <1>5, <1>8, <1>9, <1>11 DEF PlanInv

\* q takes an offered plan.
Takes(q, p) ==
  /\ Take(q, p)
  /\ proc'[q] \in Process /\ proc' = [proc EXCEPT ![q] = proc'[q]]
  /\ proc'[q].held = proc[q].held \cup {p}
  /\ proc[q].at \notin {"saving", "finishing"} /\ proc'[q].at \notin {"saving", "finishing"}
  /\ UNCHANGED <<now, house, made, history>>

LEMMA TakesKeeps ==
  ASSUME PlanInv, NEW q \in Procs, NEW p \in Plans, Takes(q, p), Stands(q)'
  PROVE  PlanInv'
<1>1. /\ p \in DOMAIN open /\ DOMAIN open' = DOMAIN open \ {p}
      /\ \A x \in DOMAIN open' : open'[x] = open[x]
      /\ open' \in [DOMAIN open' -> File]
  BY DEF PlanInv, PlanTypeOK, Less, Takes, Take
<1>2. /\ DOMAIN claims' = DOMAIN claims \cup {p} /\ p \notin DOMAIN claims
      /\ claims'[p] = [file |-> open[p], by |-> q]
      /\ \A x \in DOMAIN claims : claims'[x] = claims[x]
      /\ claims' \in [DOMAIN claims' -> [file : File, by : Procs \cup {Nobody}]]
  <2>1. p \notin DOMAIN claims /\ open[p] \in File
    BY <1>1 DEF PlanInv, PlanTypeOK, OnePlace
  <2> QED
    BY <2>1 DEF PlanInv, PlanTypeOK, With, Takes, Take
<1>3. /\ proc'[q].held = proc[q].held \cup {p} /\ proc' \in [Procs -> Process]
      /\ proc[q].at \notin {"saving", "finishing"} /\ proc'[q].at \notin {"saving", "finishing"}
      /\ \A r \in Procs : r # q => proc'[r] = proc[r]
  BY DEF PlanInv, PlanTypeOK, Takes
<1>4. UNCHANGED <<now, house, made, sent, guesses, unsaved>>
  BY DEF Takes, history
<1>5. \A r \in Procs : p \notin proc[r].held
  BY <1>1 DEF PlanInv, OnePlace
<1>6. PlanTypeOK'
  <2>1. \A x, y \in Procs : x # y => proc'[x].held \cap proc'[y].held = {}
    BY <1>3, <1>5 DEF PlanInv, PlanTypeOK
  <2> QED
    BY <1>1, <1>2, <1>3, <1>4, <2>1 DEF PlanInv, PlanTypeOK
<1>7. IsFiniteSet(DOMAIN open')
  BY <1>1, FS_Subset DEF PlanInv
<1>8. Born' = Born /\ p \in Born /\ MadeStay
  BY <1>1, <1>4 DEF Born, PlanInv, OnlyBorn, MadeStay
<1>9. OnlyBorn'
  BY <1>1, <1>2, <1>3, <1>4, <1>8 DEF PlanInv, OnlyBorn
<1>10. OnePlace'
  <2>1. DOMAIN open' \cap DOMAIN claims' = {}
    BY <1>1, <1>2 DEF PlanInv, OnePlace
  <2>2. ASSUME NEW r \in Procs, NEW x \in proc'[r].held
        PROVE  x \notin DOMAIN open' /\ (x \in DOMAIN claims' => claims'[x].by = r)
    BY <1>1, <1>2, <1>3, <1>5, <2>2 DEF PlanInv, OnePlace
  <2> QED
    BY <2>1, <2>2 DEF OnePlace
<1>11. FilesFit'
  <2>1. \A f : \A x \in Born : (Fits(f, x) => Fits(f, x)') /\ (Justified(f, x) => Justified(f, x)')
    BY <1>4, <1>8, FitsStay
  <2>2. DOMAIN open \subseteq Born /\ \A r \in Procs : proc[r].held \subseteq Born
    BY DEF PlanInv, OnlyBorn
  <2>3. \A x \in DOMAIN open' :
          (Fits(open[x], x) /\ Justified(open[x], x) /\ made[x].expires <= open[x].mtime + PlanTTL)'
    BY <1>1, <1>4, <2>1, <2>2 DEF PlanInv, FilesFit
  <2>4. \A x \in DOMAIN claims' : made'[x].expires <= claims'[x].file.mtime + PlanTTL
    BY <1>1, <1>2, <1>4 DEF PlanInv, FilesFit
  <2>5. ASSUME NEW r \in Procs, NEW x \in proc'[r].held \cap DOMAIN claims', proc'[r].at # "finishing"
        PROVE  (Fits(claims[x].file, x) /\ Justified(claims[x].file, x))'
    <3>1. CASE x = p
      BY <1>1, <1>2, <2>1, <2>2, <3>1 DEF PlanInv, FilesFit
    <3>2. CASE x # p
      <4>1. x \in proc[r].held /\ x \in DOMAIN claims /\ proc[r].at # "finishing" /\ x \in Born
        BY <1>2, <1>3, <2>2, <2>5, <3>2
      <4> QED
        BY <1>2, <2>1, <4>1 DEF PlanInv, FilesFit
    <3> QED
      BY <3>1, <3>2
  <2> QED
    BY <2>3, <2>4, <2>5 DEF FilesFit
<1>12. ASSUME NEW r \in Procs PROVE Maker(r)' /\ Stands(r)'
  <2>1. CASE r = q
    BY <1>3, <2>1 DEF Maker
  <2>2. CASE r # q
    <3>1. Maker(r)'
      BY <1>1, <1>2, <1>3, <1>4, <1>8, <2>2, OthersMake DEF PlanInv, Maker, Making
    <3>2. Stands(r)'
      BY <1>3, <1>4, <1>8, <2>2, OthersStand
    <3> QED
      BY <3>1, <3>2
  <2> QED
    BY <2>1, <2>2
<1>13. NoReturn /\ \A x \in Born : Making(x) => Making(x)'
  BY <1>1, <1>3 DEF NoReturn, Over, Usable, Making
<1>14. SentOnce' /\ Lineage'
  <2>1. \A x \in Born' \ Born : Making(x)'
    BY <1>8
  <2> QED
    BY <1>4, <1>8, <1>13, <2>1, LineageKept DEF PlanInv
<1> QED
  BY <1>4, <1>6, <1>7, <1>9, <1>10, <1>11, <1>12, <1>14 DEF PlanInv

\* q makes the plan p of what it holds, and will save it.
Drafts(q, p, ask, basis, file) ==
  /\ Draft(q, p, ask, basis, proc[q].held, file)
  /\ ask \in Asks /\ basis \in Nat /\ file \in File /\ file.mismatches = 0
  /\ file.snapshotFailed => ask # "window" /\ proc[q].held \cap unsaved # {}
  /\ proc[q].at \notin {"saving", "finishing"}
  /\ UNCHANGED <<now, house, history>>

LEMMA DraftsKeeps ==
  ASSUME PlanInv, NEW q \in Procs, NEW p \in Plans, NEW ask, NEW basis, NEW file,
         Drafts(q, p, ask, basis, file)
  PROVE  PlanInv'
<1>1. /\ DOMAIN open' \subseteq DOMAIN open
      /\ \A x \in DOMAIN open' : open'[x] = open[x]
      /\ open' \in [DOMAIN open' -> File]
  <2>1. PICK K \in Survivors : open' = [x \in K |-> open[x]]
    BY DEF Drafts, Draft, Prune
  <2>2. K \subseteq DOMAIN open
    BY DEF Survivors, Young
  <2> QED
    BY <2>1, <2>2 DEF PlanInv, PlanTypeOK
<1>2. /\ DOMAIN claims' \subseteq DOMAIN claims
      /\ \A x \in DOMAIN claims' : claims'[x] = claims[x]
      /\ claims' \in [DOMAIN claims' -> [file : File, by : Procs \cup {Nobody}]]
  BY DEF PlanInv, PlanTypeOK, Drafts, Draft, Prune, PruneClaims, Less
<1>3. /\ proc' \in [Procs -> Process]
      /\ proc'[q] = [proc[q] EXCEPT !.at = "saving", !.fresh = p, !.file = file]
      /\ \A r \in Procs : r # q => proc'[r] = proc[r]
  <2>1. proc \in [Procs -> Process] /\ proc[q] \in Process
    BY DEF PlanInv, PlanTypeOK
  <2>2. [proc[q] EXCEPT !.at = "saving", !.fresh = p, !.file = file] \in Process
    BY <2>1 DEF Process, Stage, Drafts
  <2>3. proc' = [proc EXCEPT ![q] = [proc[q] EXCEPT !.at = "saving", !.fresh = p, !.file = file]]
    BY <2>1 DEF Drafts, Draft, Process
  <2> QED
    BY <2>1, <2>2, <2>3
<1>4. /\ proc'[q].at = "saving" /\ proc'[q].fresh = p /\ proc'[q].file = file
      /\ \A r \in Procs : proc'[r].held = proc[r].held
  <2>1. proc[q] \in Process
    BY DEF PlanInv, PlanTypeOK
  <2> QED
    BY <1>3, <2>1 DEF Process
<1>5. UNCHANGED <<now, house, sent, guesses, unsaved>>
  BY DEF Drafts, history
<1>6. /\ made[p] = NoPlan
      /\ made' = [made EXCEPT ![p] = [ask |-> ask, expires |-> now + PlanTTL, basis |-> basis,
                                      from |-> proc[q].held]]
  BY DEF Drafts, Draft
<1>7. proc[q].held \subseteq Plans /\ now \in Nat /\ PlanTTL \in Nat
  BY PlanAssumption DEF PlanInv, PlanTypeOK, Process
<1>8. made \in [Plans -> Plan \cup {NoPlan}] /\ made' \in [Plans -> Plan \cup {NoPlan}]
  BY <1>6, <1>7 DEF PlanInv, PlanTypeOK, Plan, Drafts
<1>9. /\ MadeStay /\ p \notin Born /\ Born' = Born \cup {p} /\ made'[p] # NoPlan
      /\ made'[p].from = proc[q].held /\ made'[p].ask = ask /\ made'[p].expires = now + PlanTTL
  <2>1. [ask |-> ask, expires |-> now + PlanTTL, basis |-> basis, from |-> proc[q].held] \in Plan
    BY <1>7 DEF Plan, Drafts
  <2>2. made'[p] # NoPlan
    BY <1>6, <1>8, <2>1, PlanAssumption
  <2>3. made'[p].from = proc[q].held /\ made'[p].ask = ask /\ made'[p].expires = now + PlanTTL
    BY <1>6, <1>8
  <2>4. \A x \in Plans : x # p => made'[x] = made[x]
    BY <1>6, <1>8
  <2> QED
    BY <1>6, <2>2, <2>3, <2>4 DEF MadeStay, Born
<1>10. PlanTypeOK'
  BY <1>1, <1>2, <1>3, <1>4, <1>5, <1>8 DEF PlanInv, PlanTypeOK
<1>11. IsFiniteSet(DOMAIN open')
  BY <1>1, FS_Subset DEF PlanInv
<1>12. OnlyBorn'
  BY <1>1, <1>2, <1>4, <1>5, <1>7, <1>9 DEF PlanInv, OnlyBorn, MadeStay
<1>13. OnePlace'
  BY <1>1, <1>2, <1>4 DEF PlanInv, OnePlace
<1>14. FilesFit'
  <2>1. \A f : \A x \in Born : (Fits(f, x) => Fits(f, x)') /\ (Justified(f, x) => Justified(f, x)')
    BY <1>5, <1>9, FitsStay
  <2>2. /\ DOMAIN open \subseteq Born /\ DOMAIN claims \subseteq Born
        /\ \A r \in Procs : proc[r].held \subseteq Born
    BY DEF PlanInv, OnlyBorn
  <2>3. \A x \in DOMAIN open' :
          (Fits(open[x], x) /\ Justified(open[x], x) /\ made[x].expires <= open[x].mtime + PlanTTL)'
    BY <1>1, <1>9, <2>1, <2>2 DEF PlanInv, FilesFit, MadeStay
  <2>4. \A x \in DOMAIN claims' : made'[x].expires <= claims'[x].file.mtime + PlanTTL
    BY <1>2, <1>9, <2>2 DEF PlanInv, FilesFit, MadeStay
  <2>5. ASSUME NEW r \in Procs, NEW x \in proc'[r].held \cap DOMAIN claims', proc'[r].at # "finishing"
        PROVE  (Fits(claims[x].file, x) /\ Justified(claims[x].file, x))'
    <3>1. x \in proc[r].held /\ x \in DOMAIN claims /\ proc[r].at # "finishing" /\ x \in Born
      BY <1>2, <1>3, <1>4, <2>2, <2>5 DEF Drafts
    <3> QED
      BY <1>2, <2>1, <2>5, <3>1 DEF PlanInv, FilesFit
  <2> QED
    BY <2>3, <2>4, <2>5 DEF FilesFit
<1>15. ASSUME NEW r \in Procs PROVE Maker(r)' /\ Stands(r)'
  <2>1. CASE r = q
    <3>1. /\ p \in Born' /\ p \notin DOMAIN open' /\ p \notin DOMAIN claims'
          /\ sent'[p] = 0 /\ guesses'[p] = 0
      BY <1>1, <1>2, <1>5, <1>9 DEF PlanInv, OnlyBorn
    <3>2. ASSUME NEW x \in Procs
          PROVE  p \notin proc'[x].held /\ (proc'[x].at = "saving" /\ proc'[x].fresh = p => x = q)
      BY <1>3, <1>4, <1>9, <3>2 DEF PlanInv, OnlyBorn, Maker
    <3>3. Justified(file, p)'
      BY <1>5, <1>9 DEF Justified, WasUnsaved, Drafts
    <3> QED
      BY <1>4, <1>9, <2>1, <3>1, <3>2, <3>3 DEF Maker, Stands, Drafts, Justified, WasUnsaved
  <2>2. CASE r # q
    <3>1. Maker(r)'
      <4>1. ASSUME NEW x \in Born, Making(x)
            PROVE  /\ x \notin DOMAIN open' /\ x \notin DOMAIN claims'
                   /\ \A y \in Procs : x \notin proc'[y].held
        BY <1>1, <1>2, <1>4, <4>1 DEF PlanInv, Maker, Making
      <4>2. ASSUME NEW x \in Born, NEW y \in Procs, proc'[y].at = "saving" /\ proc'[y].fresh = x
            PROVE  proc[y].at = "saving" /\ proc[y].fresh = x
        <5>1. y # q
          BY <1>4, <1>9, <4>2
        <5> QED
          BY <1>3, <4>2, <5>1
      <4>3. proc'[r] = proc[r]
        BY <1>3, <2>2
      <4> QED
        BY <1>5, <1>9, <4>1, <4>2, <4>3, OthersMake
    <3>2. Stands(r)'
      BY <1>3, <1>5, <1>9, <2>2, OthersStand
    <3> QED
      BY <3>1, <3>2
  <2> QED
    BY <2>1, <2>2
<1>16. NoReturn /\ (\A x \in Born : Making(x) => Making(x)') /\ Making(p)'
  <2>1. proc[q].at # "saving" /\ proc[q].at # "finishing"
    BY DEF Drafts
  <2>2. ASSUME NEW x \in Born, Over(x) PROVE Over(x)'
    <3>1. ~Usable(x)'
      BY <1>1, <1>3, <1>4, <2>1, <2>2 DEF Over, Usable
    <3>2. ASSUME NEW r \in Procs PROVE ~(proc'[r].at = "saving" /\ proc'[r].fresh = x)
      BY <1>3, <1>4, <1>9, <2>2 DEF Over, Making
    <3> QED
      BY <3>1, <3>2 DEF Over, Making
  <2>3. ASSUME NEW x \in Born, Making(x) PROVE Making(x)'
    BY <1>3, <2>1, <2>3 DEF Making
  <2> QED
    BY <1>4, <2>2, <2>3 DEF NoReturn, Making
<1>17. SentOnce' /\ Lineage'
  <2>1. \A x \in Born' \ Born : Making(x)'
    BY <1>9, <1>16
  <2> QED
    BY <1>5, <1>9, <1>16, <2>1, LineageKept DEF PlanInv
<1> QED
  BY <1>5, <1>10, <1>11, <1>12, <1>13, <1>14, <1>15, <1>17 DEF PlanInv

\* q saves the plan it made; what it holds is used up.
Saves(q, p) ==
  /\ proc[q].at = "saving" /\ proc[q].fresh = p
  /\ open' = With(open, p, [proc[q].file EXCEPT !.mtime = now])
  /\ Settle(q, "finishing")
  /\ UNCHANGED <<now, house, made, claims, history>>

LEMMA IdleTyped == Idle \in Process /\ Idle.held = {} /\ Idle.at = "idle"
  BY DEF Idle, Process, Stage, NewFile, File

LEMMA SavesKeeps ==
  ASSUME PlanInv, NEW q \in Procs, NEW p \in Plans, Saves(q, p)
  PROVE  PlanInv'
<1>1. /\ p \in Born /\ p \notin DOMAIN open /\ p \notin DOMAIN claims
      /\ sent[p] = 0 /\ guesses[p] = 0 /\ proc[q].at = "saving" /\ proc[q].fresh = p
      /\ \A r \in Procs : p \notin proc[r].held /\ (proc[r].at = "saving" /\ proc[r].fresh = p => r = q)
      /\ made[p].from = proc[q].held
      /\ proc[q].file.mismatches = 0 /\ Justified(proc[q].file, p)
  BY DEF PlanInv, Maker, Saves, Born
<1>2. /\ now \in Nat /\ PlanTTL \in Nat /\ MaxMismatches \in Nat \ {0} /\ proc[q] \in Process
  BY PlanAssumption DEF PlanInv, PlanTypeOK
<1>3. /\ DOMAIN open' = DOMAIN open \cup {p}
      /\ open'[p] = [proc[q].file EXCEPT !.mtime = now]
      /\ \A x \in DOMAIN open : open'[x] = open[x]
      /\ open' \in [DOMAIN open' -> File]
  BY <1>1, <1>2 DEF PlanInv, PlanTypeOK, With, Saves, Process, File
<1>4. /\ open'[p].mismatches = 0 /\ open'[p].mtime = now
      /\ open'[p].snapshotFailed = proc[q].file.snapshotFailed
  <2>1. proc[q].file \in File
    BY <1>2 DEF Process
  <2> QED
    BY <1>1, <1>3, <2>1 DEF File
<1>5. /\ proc' \in [Procs -> Process] /\ proc'[q].held = proc[q].held
      /\ proc'[q].at \in {"idle", "finishing"}
      /\ proc'[q].at = "idle" => proc[q].held = {}
      /\ \A r \in Procs : r # q => proc'[r] = proc[r]
  BY <1>2, IdleTyped DEF PlanInv, PlanTypeOK, Saves, Settle, Process, Stage
<1>6. UNCHANGED <<now, house, made, claims, sent, guesses, unsaved>>
  BY DEF Saves, history
<1>7. Born' = Born /\ MadeStay
  BY <1>6 DEF Born, MadeStay
<1>8. PlanTypeOK'
  <2>1. \A x, y \in Procs : x # y => proc'[x].held \cap proc'[y].held = {}
    BY <1>5 DEF PlanInv, PlanTypeOK
  <2> QED
    BY <1>1, <1>3, <1>5, <1>6, <2>1 DEF PlanInv, PlanTypeOK
<1>9. IsFiniteSet(DOMAIN open')
  BY <1>3, FS_AddElement DEF PlanInv
<1>10. OnlyBorn'
  BY <1>1, <1>3, <1>5, <1>6, <1>7 DEF PlanInv, OnlyBorn
<1>11. OnePlace'
  BY <1>1, <1>3, <1>5, <1>6 DEF PlanInv, OnePlace
<1>12. FilesFit'
  <2>1. \A f : \A x \in Born : (Fits(f, x) => Fits(f, x)') /\ (Justified(f, x) => Justified(f, x)')
    BY <1>6, <1>7, FitsStay
  <2>2. DOMAIN open \subseteq Born /\ \A r \in Procs : proc[r].held \subseteq Born
    BY DEF PlanInv, OnlyBorn
  <2>3. ASSUME NEW x \in DOMAIN open'
        PROVE  (Fits(open[x], x) /\ Justified(open[x], x) /\ made[x].expires <= open[x].mtime + PlanTTL)'
    <3>1. CASE x = p
      <4>1. Fits(open[p], p)'
        BY <1>1, <1>2, <1>4, <1>6 DEF Fits
      <4>2. Justified(open[p], p)'
        BY <1>1, <1>4, <1>6 DEF Justified, WasUnsaved
      <4>3. made'[p].expires <= open'[p].mtime + PlanTTL
        BY <1>1, <1>4, <1>6 DEF PlanInv, OnlyBorn
      <4> QED
        BY <3>1, <4>1, <4>2, <4>3
    <3>2. CASE x # p
      BY <1>3, <1>6, <2>1, <2>2, <3>2 DEF PlanInv, FilesFit
    <3> QED
      BY <3>1, <3>2
  <2>4. \A x \in DOMAIN claims' : made'[x].expires <= claims'[x].file.mtime + PlanTTL
    BY <1>6 DEF PlanInv, FilesFit
  <2>5. ASSUME NEW r \in Procs, NEW x \in proc'[r].held \cap DOMAIN claims', proc'[r].at # "finishing"
        PROVE  (Fits(claims[x].file, x) /\ Justified(claims[x].file, x))'
    <3>1. x \in proc[r].held /\ x \in DOMAIN claims /\ proc[r].at # "finishing" /\ x \in Born
      BY <1>1, <1>5, <1>6, <2>2, <2>5
    <3> QED
      BY <1>6, <2>1, <3>1 DEF PlanInv, FilesFit
  <2> QED
    BY <2>3, <2>4, <2>5 DEF FilesFit
<1>13. ASSUME NEW r \in Procs PROVE Maker(r)' /\ Stands(r)'
  <2>1. CASE r = q
    BY <1>5, <2>1 DEF Maker, Stands
  <2>2. CASE r # q
    <3>1. Maker(r)'
      BY <1>1, <1>3, <1>5, <1>6, <1>7, <2>2 DEF PlanInv, Maker, Justified, WasUnsaved
    <3>2. Stands(r)'
      BY <1>5, <1>6, <1>7, <2>2, OthersStand
    <3> QED
      BY <3>1, <3>2
  <2> QED
    BY <2>1, <2>2
<1>14. \A x \in Born : x # p /\ Making(x) => Making(x)'
  BY <1>1, <1>5 DEF Making
<1>15. NoReturn
  <2> SUFFICES ASSUME NEW x \in Born, Over(x) PROVE Over(x)'
    BY DEF NoReturn
  <2>1. x # p
    BY <1>1 DEF Over, Making
  <2> QED
    BY <1>3, <1>5, <2>1 DEF Over, Usable, Making
<1>16. \A m \in made[p].from : Unsent(m)'
  <2> SUFFICES ASSUME NEW m \in proc[q].held PROVE Unsent(m)'
    BY <1>1
  <2>1. m \in Plans /\ m \notin DOMAIN open /\ m # p
    BY <1>1 DEF PlanInv, OnlyBorn, Born, OnePlace
  <2>2. sent[m] = 0
    BY <1>1, <2>1 DEF PlanInv, SentOnce, Over, Usable
  <2>3. \A r \in Procs : r # q => m \notin proc[r].held
    BY DEF PlanInv, PlanTypeOK
  <2>4. \A r \in Procs : proc[r].at = "saving" => proc[r].fresh # m
    BY DEF PlanInv, Maker
  <2> QED
    BY <1>3, <1>5, <1>6, <2>1, <2>2, <2>3, <2>4 DEF Unsent, Over, Usable, Making
<1>17. SentOnce' /\ Lineage'
  <2>1. \A x \in Born' \ Born : Making(x)'
    BY <1>7
  <2> QED
    BY <1>6, <1>7, <1>14, <1>15, <1>16, <2>1, LineageKept DEF PlanInv
<1> QED
  BY <1>6, <1>8, <1>9, <1>10, <1>11, <1>12, <1>13, <1>17 DEF PlanInv

\* q hands back the plan p, or is done with it.
LetsGo(q, p) ==
  /\ p \in proc[q].held /\ proc[q].at \in {"returning", "finishing"}
  /\ \/ UNCHANGED open
     \/ /\ proc[q].at = "returning" /\ p \in DOMAIN claims
        /\ open' = With(open, p, claims[p].file)
  /\ claims' = Less(claims, {p})
  /\ Drop(q, p)
  /\ UNCHANGED <<now, house, made, history>>

LEMMA LetsGoKeeps ==
  ASSUME PlanInv, NEW q \in Procs, NEW p \in Plans, LetsGo(q, p)
  PROVE  PlanInv'
<1>1. /\ p \in proc[q].held /\ p \notin DOMAIN open /\ p \in Born
      /\ proc[q].at \in {"returning", "finishing"}
      /\ \A r \in Procs : r # q => p \notin proc[r].held
      /\ \A r \in Procs : proc[r].at = "saving" => proc[r].fresh # p
  BY DEF PlanInv, PlanTypeOK, OnePlace, OnlyBorn, Maker, LetsGo
<1>2. /\ DOMAIN claims' = DOMAIN claims \ {p}
      /\ \A x \in DOMAIN claims' : claims'[x] = claims[x]
      /\ claims' \in [DOMAIN claims' -> [file : File, by : Procs \cup {Nobody}]]
  BY DEF PlanInv, PlanTypeOK, LetsGo, Less
<1>3. \/ open' = open
      \/ /\ proc[q].at = "returning" /\ p \in DOMAIN claims
         /\ DOMAIN open' = DOMAIN open \cup {p}
         /\ open'[p] = claims[p].file
         /\ \A x \in DOMAIN open : open'[x] = open[x]
         /\ open' \in [DOMAIN open' -> File]
  BY <1>1 DEF PlanInv, PlanTypeOK, LetsGo, With
<1>4. /\ proc' \in [Procs -> Process] /\ proc'[q].held = proc[q].held \ {p}
      /\ proc'[q].at \in {proc[q].at, "idle"} /\ (proc'[q].at = "idle" => proc'[q].held = {})
      /\ \A r \in Procs : r # q => proc'[r] = proc[r]
  <2>1. proc \in [Procs -> Process] /\ proc[q] \in Process
    BY DEF PlanInv, PlanTypeOK
  <2>2. CASE proc[q].held = {p}
    BY <2>1, <2>2, IdleTyped DEF LetsGo, Drop
  <2>3. CASE proc[q].held # {p}
    <3>1. proc' = [proc EXCEPT ![q] = [proc[q] EXCEPT !.held = proc[q].held \ {p}]]
      BY <2>3 DEF LetsGo, Drop
    <3>2. [proc[q] EXCEPT !.held = proc[q].held \ {p}] \in Process
      BY <2>1 DEF Process
    <3> QED
      BY <1>1, <2>1, <3>1, <3>2 DEF Process
  <2> QED
    BY <2>2, <2>3
<1>5. UNCHANGED <<now, house, made, sent, guesses, unsaved>>
  BY DEF LetsGo, history
<1>6. Born' = Born /\ MadeStay
  BY <1>5 DEF Born, MadeStay
<1>7. \A r \in Procs : proc'[r].held \subseteq proc[r].held
  BY <1>4
<1>8. PlanTypeOK'
  <2>1. \A x, y \in Procs : x # y => proc'[x].held \cap proc'[y].held = {}
    BY <1>7 DEF PlanInv, PlanTypeOK
  <2>2. DOMAIN open' \subseteq Plans /\ open' \in [DOMAIN open' -> File]
    BY <1>3 DEF PlanInv, PlanTypeOK
  <2> QED
    BY <1>2, <1>4, <1>5, <2>1, <2>2 DEF PlanInv, PlanTypeOK
<1>9. IsFiniteSet(DOMAIN open')
  BY <1>3, FS_AddElement DEF PlanInv
<1>10. OnlyBorn'
  BY <1>1, <1>2, <1>3, <1>5, <1>6, <1>7 DEF PlanInv, OnlyBorn
<1>11. OnePlace'
  <2>1. DOMAIN open' \cap DOMAIN claims' = {}
    BY <1>2, <1>3 DEF PlanInv, OnePlace
  <2>2. ASSUME NEW r \in Procs, NEW x \in proc'[r].held
        PROVE  x \notin DOMAIN open' /\ (x \in DOMAIN claims' => claims'[x].by = r)
    BY <1>1, <1>2, <1>3, <1>4, <1>7, <2>2 DEF PlanInv, OnePlace
  <2> QED
    BY <2>1, <2>2 DEF OnePlace
<1>12. FilesFit'
  <2>1. \A f : \A x \in Born : (Fits(f, x) => Fits(f, x)') /\ (Justified(f, x) => Justified(f, x)')
    BY <1>5, <1>6, FitsStay
  <2>2. DOMAIN open \subseteq Born /\ \A r \in Procs : proc[r].held \subseteq Born
    BY DEF PlanInv, OnlyBorn
  <2>3. ASSUME NEW x \in DOMAIN open'
        PROVE  (Fits(open[x], x) /\ Justified(open[x], x) /\ made[x].expires <= open[x].mtime + PlanTTL)'
    <3>1. CASE x \in DOMAIN open
      BY <1>3, <1>5, <2>1, <2>2, <3>1 DEF PlanInv, FilesFit
    <3>2. CASE x \notin DOMAIN open
      <4>1. x = p /\ proc[q].at = "returning" /\ p \in DOMAIN claims /\ open'[p] = claims[p].file
        BY <1>3, <2>3, <3>2
      <4>2. /\ Fits(claims[p].file, p) /\ Justified(claims[p].file, p)
            /\ made[p].expires <= claims[p].file.mtime + PlanTTL
        BY <1>1, <4>1 DEF PlanInv, FilesFit
      <4> QED
        BY <1>1, <1>5, <2>1, <4>1, <4>2
    <3> QED
      BY <3>1, <3>2
  <2>4. \A x \in DOMAIN claims' : made'[x].expires <= claims'[x].file.mtime + PlanTTL
    BY <1>2, <1>5 DEF PlanInv, FilesFit
  <2>5. ASSUME NEW r \in Procs, NEW x \in proc'[r].held \cap DOMAIN claims', proc'[r].at # "finishing"
        PROVE  (Fits(claims[x].file, x) /\ Justified(claims[x].file, x))'
    <3>1. x \in proc[r].held /\ x \in DOMAIN claims /\ proc[r].at # "finishing" /\ x \in Born
      BY <1>2, <1>4, <1>7, <2>2, <2>5
    <3> QED
      BY <1>2, <2>1, <2>5, <3>1 DEF PlanInv, FilesFit
  <2> QED
    BY <2>3, <2>4, <2>5 DEF FilesFit
<1>13. ASSUME NEW r \in Procs PROVE Maker(r)' /\ Stands(r)'
  <2>1. CASE r = q
    BY <1>1, <1>4, <2>1 DEF Maker, Stands
  <2>2. CASE r # q
    <3>1. ASSUME NEW x \in Born, Making(x)
          PROVE  /\ x \notin DOMAIN open' /\ x \notin DOMAIN claims'
                 /\ \A y \in Procs : x \notin proc'[y].held
      BY <1>1, <1>2, <1>3, <1>7, <3>1 DEF PlanInv, Maker, Making
    <3>2. \A y \in Procs : proc'[y].at = "saving" => proc[y] = proc'[y]
      BY <1>1, <1>4
    <3>3. Maker(r)'
      BY <1>4, <1>5, <1>6, <2>2, <3>1, <3>2, OthersMake
    <3>4. Stands(r)'
      BY <1>4, <1>5, <1>6, <2>2, OthersStand
    <3> QED
      BY <3>3, <3>4
  <2> QED
    BY <2>1, <2>2
<1>14. \A x \in Born : Making(x) <=> Making(x)'
  BY <1>1, <1>4 DEF Making
<1>15. NoReturn
  <2> SUFFICES ASSUME NEW x \in Born, Over(x) PROVE ~Usable(x)'
    BY <1>14 DEF NoReturn, Over
  <2>1. x \notin DOMAIN open'
    BY <1>1, <1>3 DEF Over, Usable
  <2>2. ASSUME NEW r \in Procs, x \in proc'[r].held PROVE proc'[r].at = "finishing"
    BY <1>4, <1>7, <2>2 DEF Over, Usable
  <2> QED
    BY <2>1, <2>2 DEF Usable
<1>16. SentOnce' /\ Lineage'
  <2>1. \A x \in Born' \ Born : Making(x)'
    BY <1>6
  <2> QED
    BY <1>5, <1>6, <1>14, <1>15, <2>1, LineageKept DEF PlanInv
<1> QED
  BY <1>5, <1>8, <1>9, <1>10, <1>11, <1>12, <1>13, <1>16 DEF PlanInv

\* q carries out the plan p.
Sends(q, p) ==
  /\ proc[q].at = "approved" /\ proc[q].plan = p
  /\ proc' = [proc EXCEPT ![q].at = "finishing"]
  /\ sent' = [sent EXCEPT ![p] = @ + 1]
  /\ UNCHANGED <<now, house, filesVars, guesses, unsaved>>

LEMMA SendsKeeps ==
  ASSUME PlanInv, NEW q \in Procs, NEW p \in Plans, Sends(q, p)
  PROVE  PlanInv'
<1>1. /\ p \in Born /\ proc[q].held = {p} /\ proc[q].at = "approved" /\ p \notin DOMAIN open
      /\ \A r \in Procs : r # q => p \notin proc[r].held
      /\ \A r \in Procs : proc[r].at = "saving" => proc[r].fresh # p
  BY DEF PlanInv, PlanTypeOK, OnePlace, Stands, Maker, Sends
<1>2. sent[p] = 0
  BY <1>1 DEF PlanInv, SentOnce, Over, Usable
<1>3. /\ sent' \in [Plans -> Nat] /\ sent'[p] = 1
      /\ \A x \in Plans : x # p => sent'[x] = sent[x]
  BY <1>2 DEF PlanInv, PlanTypeOK, Sends
<1>4. /\ proc' \in [Procs -> Process] /\ proc'[q].at = "finishing"
      /\ \A r \in Procs : proc'[r].held = proc[r].held
      /\ \A r \in Procs : r # q => proc'[r] = proc[r]
  <2>1. proc \in [Procs -> Process] /\ proc[q] \in Process
    BY DEF PlanInv, PlanTypeOK
  <2>2. [proc[q] EXCEPT !.at = "finishing"] \in Process
    BY <2>1 DEF Process, Stage
  <2> QED
    BY <2>1, <2>2 DEF Sends, Process
<1>5. UNCHANGED <<now, house, made, open, claims, guesses, unsaved>>
  BY DEF Sends, filesVars
<1>6. Born' = Born /\ MadeStay
  BY <1>5 DEF Born, MadeStay
<1>7. PlanTypeOK'
  BY <1>3, <1>4, <1>5 DEF PlanInv, PlanTypeOK
<1>8. OnlyBorn'
  BY <1>1, <1>3, <1>4, <1>5, <1>6 DEF PlanInv, OnlyBorn, Born
<1>9. OnePlace'
  BY <1>4, <1>5 DEF PlanInv, OnePlace
<1>10. FilesFit'
  <2>1. \A r \in Procs : proc'[r].at # "finishing" => proc[r].at # "finishing"
    BY <1>1, <1>4
  <2> QED
    BY <1>4, <1>5, <2>1 DEF PlanInv, FilesFit, Fits, Justified, WasUnsaved
<1>11. ASSUME NEW r \in Procs PROVE Maker(r)' /\ Stands(r)'
  <2>1. CASE r = q
    BY <1>4, <2>1 DEF Maker, Stands
  <2>2. CASE r # q
    <3>1. \A x \in Born : Making(x) => x # p
      BY <1>1 DEF Making
    <3>2. Born \subseteq Plans
      BY DEF Born
    <3>3. Maker(r)'
      BY <1>1, <1>3, <1>4, <1>5, <1>6, <2>2 DEF PlanInv, Maker, Justified, WasUnsaved, Born
    <3>4. Stands(r)'
      BY <1>4, <1>5, <1>6, <2>2, OthersStand
    <3> QED
      BY <3>3, <3>4
  <2> QED
    BY <2>1, <2>2
<1>12. NoReturn /\ \A x \in Born : Making(x) => Making(x)'
  BY <1>1, <1>4, <1>5 DEF NoReturn, Over, Usable, Making
<1>13. Over(p)'
  BY <1>1, <1>4, <1>5 DEF Over, Usable, Making
<1>14. SentOnce'
  <2> SUFFICES ASSUME NEW x \in Plans
               PROVE  sent'[x] \in {0, 1} /\ (sent'[x] = 1 => Over(x)')
    BY DEF SentOnce
  <2>1. CASE x = p
    BY <1>3, <1>13, <2>1
  <2>2. CASE x # p
    BY <1>3, <1>12, <2>2 DEF PlanInv, SentOnce, OnlyBorn, NoReturn
  <2> QED
    BY <2>1, <2>2
<1>15. \A x \in Born : Unsent(x) => Unsent(x)'
  <2> SUFFICES ASSUME NEW x \in Born, Unsent(x) PROVE Unsent(x)'
    OBVIOUS
  <2>1. x # p /\ x \in Plans
    BY <1>1 DEF Unsent, Over, Usable, Born
  <2> QED
    BY <1>3, <1>12, <2>1 DEF Unsent, NoReturn
<1>16. Lineage'
  <2> SUFFICES ASSUME NEW x \in Born
               PROVE  Unsent(x)' \/ Making(x)' \/ \A m \in made[x].from : Unsent(m)'
    BY <1>5, <1>6 DEF Lineage
  <2>1. made[x].from \subseteq Born
    BY DEF PlanInv, OnlyBorn
  <2> QED
    BY <1>12, <1>15, <2>1 DEF PlanInv, Lineage
<1> QED
  BY <1>5, <1>7, <1>8, <1>9, <1>10, <1>11, <1>14, <1>16 DEF PlanInv

\* q judges the code or tries the change: the plan p goes back with a new file, or
\* is used up.
Judges(q, p, file) ==
  /\ proc[q].at \in {"confirmed", "approved"} /\ proc[q].plan = p
  /\ \/ /\ proc' = [proc EXCEPT ![q].at = "finishing"]
        /\ UNCHANGED claims
     \/ /\ proc' = [proc EXCEPT ![q].at = "returning"]
        /\ claims' = With(claims, p, [file |-> file, by |-> q])
        /\ file \in File /\ file.mtime = now /\ Fits(file, p)' /\ Justified(file, p)'
  /\ guesses' \in [Plans -> Nat] /\ guesses'[p] <= MaxMismatches
  /\ \A x \in Plans : x # p => guesses'[x] = guesses[x]
  /\ unsaved \subseteq unsaved' /\ unsaved' \subseteq Plans
  /\ UNCHANGED <<now, house, made, open, sent>>

LEMMA JudgesKeeps ==
  ASSUME PlanInv, NEW q \in Procs, NEW p \in Plans, NEW file, Judges(q, p, file)
  PROVE  PlanInv'
<1>1. /\ p \in Born /\ proc[q].held = {p} /\ p \notin DOMAIN open
      /\ proc[q].at \in {"confirmed", "approved"}
      /\ \A r \in Procs : r # q => p \notin proc[r].held
      /\ \A r \in Procs : proc[r].at = "saving" => proc[r].fresh # p
  BY DEF PlanInv, PlanTypeOK, OnePlace, Stands, Maker, Judges
<1>2. /\ proc' \in [Procs -> Process] /\ proc'[q].at \in {"finishing", "returning"}
      /\ proc'[q].at = "finishing" => claims' = claims
      /\ \A r \in Procs : proc'[r].held = proc[r].held
      /\ \A r \in Procs : r # q => proc'[r] = proc[r]
  <2>1. proc \in [Procs -> Process] /\ proc[q] \in Process
    BY DEF PlanInv, PlanTypeOK
  <2>2. /\ [proc[q] EXCEPT !.at = "finishing"] \in Process
        /\ [proc[q] EXCEPT !.at = "returning"] \in Process
    BY <2>1 DEF Process, Stage
  <2> QED
    BY <2>1, <2>2 DEF Judges, Process
<1>3. \/ claims' = claims
      \/ /\ DOMAIN claims' = DOMAIN claims \cup {p}
         /\ claims'[p] = [file |-> file, by |-> q]
         /\ \A x \in DOMAIN claims : x # p => claims'[x] = claims[x]
         /\ claims' \in [DOMAIN claims' -> [file : File, by : Procs \cup {Nobody}]]
         /\ file.mtime = now /\ Fits(file, p)' /\ Justified(file, p)'
  BY DEF PlanInv, PlanTypeOK, Judges, With
<1>4. /\ UNCHANGED <<now, house, made, open, sent>>
      /\ unsaved \subseteq unsaved' /\ unsaved' \subseteq Plans
      /\ \A x \in Plans : x # p => guesses'[x] = guesses[x]
      /\ guesses' \in [Plans -> Nat] /\ guesses'[p] <= MaxMismatches
  BY DEF Judges
<1>5. Born' = Born /\ MadeStay
  BY <1>4 DEF Born, MadeStay
<1>6. PlanTypeOK'
  <2>1. DOMAIN claims' \subseteq Plans /\ claims' \in [DOMAIN claims' -> [file : File, by : Procs \cup {Nobody}]]
    BY <1>3 DEF PlanInv, PlanTypeOK
  <2> QED
    BY <1>2, <1>4, <2>1 DEF PlanInv, PlanTypeOK
<1>7. OnlyBorn'
  BY <1>1, <1>2, <1>3, <1>4, <1>5 DEF PlanInv, OnlyBorn, Born
<1>8. OnePlace'
  BY <1>1, <1>2, <1>3, <1>4 DEF PlanInv, OnePlace
<1>9. FilesFit'
  <2>1. \A f : \A x \in Born :
          (x # p => (Fits(f, x) => Fits(f, x)')) /\ (Justified(f, x) => Justified(f, x)')
    BY <1>4, <1>5, FitsStay DEF Born
  <2>2. DOMAIN open \subseteq Born /\ \A r \in Procs : proc[r].held \subseteq Born
    BY DEF PlanInv, OnlyBorn
  <2>3. \A x \in DOMAIN open' :
          (Fits(open[x], x) /\ Justified(open[x], x) /\ made[x].expires <= open[x].mtime + PlanTTL)'
    BY <1>1, <1>4, <2>1, <2>2 DEF PlanInv, FilesFit
  <2>4. \A x \in DOMAIN claims' : made'[x].expires <= claims'[x].file.mtime + PlanTTL
    BY <1>1, <1>3, <1>4 DEF PlanInv, FilesFit, OnlyBorn
  <2>5. ASSUME NEW r \in Procs, NEW x \in proc'[r].held \cap DOMAIN claims', proc'[r].at # "finishing"
        PROVE  (Fits(claims[x].file, x) /\ Justified(claims[x].file, x))'
    <3>1. CASE r = q
      <4>1. x = p /\ proc' = [proc EXCEPT ![q].at = "returning"]
        BY <1>1, <1>2, <2>5, <3>1 DEF Judges, PlanInv, PlanTypeOK
      <4>2. claims' = With(claims, p, [file |-> file, by |-> q]) /\ Fits(file, p)' /\ Justified(file, p)'
        <5>1. proc'[q].at # "finishing"
          BY <2>5, <3>1
        <5>2. proc' # [proc EXCEPT ![q].at = "finishing"]
          BY <5>1 DEF PlanInv, PlanTypeOK, Process
        <5> QED
          BY <5>2 DEF Judges
      <4>3. claims'[p].file = file
        BY <4>2 DEF With
      <4> QED
        BY <4>1, <4>2, <4>3
    <3>2. CASE r # q
      <4>1. x \in proc[r].held /\ x \in DOMAIN claims /\ proc[r].at # "finishing" /\ x \in Born /\ x # p
        BY <1>1, <1>2, <1>3, <2>2, <2>5, <3>2
      <4>2. claims'[x] = claims[x]
        BY <1>3, <4>1
      <4> QED
        BY <2>1, <4>1, <4>2 DEF PlanInv, FilesFit
    <3> QED
      BY <3>1, <3>2
  <2> QED
    BY <2>3, <2>4, <2>5 DEF FilesFit
<1>10. ASSUME NEW r \in Procs PROVE Maker(r)' /\ Stands(r)'
  <2>1. CASE r = q
    BY <1>2, <2>1 DEF Maker, Stands
  <2>2. CASE r # q
    <3>1. ASSUME NEW x \in Born, Making(x)
          PROVE  /\ x \notin DOMAIN open' /\ x \notin DOMAIN claims'
                 /\ \A y \in Procs : x \notin proc'[y].held
                 /\ guesses'[x] = guesses[x]
      BY <1>1, <1>2, <1>3, <1>4, <3>1 DEF PlanInv, Maker, Making, Born
    <3>2. \A y \in Procs : proc'[y].at = "saving" => proc[y] = proc'[y]
      BY <1>1, <1>2
    <3>3. Maker(r)'
      BY <1>2, <1>4, <1>5, <2>2, <3>1, <3>2, OthersMake
    <3>4. \A x \in proc[r].held : guesses'[x] = guesses[x]
      BY <1>1, <1>4, <2>2 DEF PlanInv, OnlyBorn, Born
    <3>5. Stands(r)'
      BY <1>2, <1>4, <1>5, <2>2, <3>4, OthersStand
    <3> QED
      BY <3>3, <3>5
  <2> QED
    BY <2>1, <2>2
<1>11. NoReturn /\ \A x \in Born : Making(x) => Making(x)'
  BY <1>1, <1>2, <1>4 DEF NoReturn, Over, Usable, Making
<1>12. SentOnce' /\ Lineage'
  <2>1. \A x \in Born' \ Born : Making(x)'
    BY <1>5
  <2> QED
    BY <1>4, <1>5, <1>11, <2>1, LineageKept DEF PlanInv
<1>13. \A x \in Plans : guesses'[x] <= MaxMismatches
  BY <1>4 DEF PlanInv
<1> QED
  BY <1>4, <1>6, <1>7, <1>8, <1>9, <1>10, <1>12, <1>13 DEF PlanInv

\* A killed process leaves its claims behind, and nothing relies on it.
LEMMA CrashKeeps ==
  ASSUME PlanInv, NEW q \in Procs, Crash(q)
  PROVE  PlanInv'
<1>1. /\ proc' \in [Procs -> Process] /\ proc'[q] = Idle /\ proc'[q].held = {} /\ proc'[q].at = "idle"
      /\ \A r \in Procs : r # q => proc'[r] = proc[r]
  BY IdleTyped DEF PlanInv, PlanTypeOK, Crash
<1>2. UNCHANGED <<now, house, made, open, sent, guesses, unsaved>>
  BY DEF Crash, history
<1>3. /\ DOMAIN claims' = DOMAIN claims
      /\ \A x \in DOMAIN claims : /\ claims'[x] \in [file : File, by : Procs \cup {Nobody}]
                                  /\ claims'[x].file = claims[x].file
                                  /\ claims[x].by # q => claims'[x].by = claims[x].by
      /\ claims' \in [DOMAIN claims' -> [file : File, by : Procs \cup {Nobody}]]
  <2>1. DOMAIN claims' = DOMAIN claims
    BY DEF Crash
  <2>2. ASSUME NEW x \in DOMAIN claims
        PROVE  /\ claims'[x] \in [file : File, by : Procs \cup {Nobody}]
               /\ claims'[x].file = claims[x].file
               /\ claims[x].by # q => claims'[x].by = claims[x].by
    <3>1. claims[x] \in [file : File, by : Procs \cup {Nobody}]
      BY DEF PlanInv, PlanTypeOK
    <3>2. claims'[x] = IF claims[x].by = q THEN [claims[x] EXCEPT !.by = Nobody] ELSE claims[x]
      BY DEF Crash
    <3> QED
      BY <3>1, <3>2
  <2>3. claims' = [x \in DOMAIN claims' |-> claims'[x]]
    BY DEF Crash
  <2> QED
    BY <2>1, <2>2, <2>3
<1>4. Born' = Born /\ MadeStay
  BY <1>2 DEF Born, MadeStay
<1>5. \A r \in Procs : proc'[r].held \subseteq proc[r].held
  BY <1>1
<1>6. PlanTypeOK'
  <2>1. \A x, y \in Procs : x # y => proc'[x].held \cap proc'[y].held = {}
    BY <1>5 DEF PlanInv, PlanTypeOK
  <2> QED
    BY <1>1, <1>2, <1>3, <2>1 DEF PlanInv, PlanTypeOK
<1>7. OnlyBorn'
  BY <1>2, <1>3, <1>4, <1>5 DEF PlanInv, OnlyBorn
<1>8. OnePlace'
  BY <1>1, <1>2, <1>3, <1>5 DEF PlanInv, OnePlace
<1>9. FilesFit'
  BY <1>1, <1>2, <1>3, <1>5 DEF PlanInv, FilesFit, Fits, Justified, WasUnsaved
<1>10. ASSUME NEW r \in Procs PROVE Maker(r)' /\ Stands(r)'
  <2>1. CASE r = q
    BY <1>1, <2>1 DEF Maker, Stands
  <2>2. CASE r # q
    <3>1. Maker(r)'
      BY <1>1, <1>2, <1>3, <1>4, <1>5, <2>2 DEF PlanInv, Maker, Justified, WasUnsaved
    <3>2. Stands(r)'
      BY <1>1, <1>2, <1>4, <2>2, OthersStand
    <3> QED
      BY <3>1, <3>2
  <2> QED
    BY <2>1, <2>2
<1>11. NoReturn
  BY <1>1, <1>2, <1>5 DEF NoReturn, Over, Usable, Making
<1>12. SentOnce' /\ Lineage'
  <2>1. \A x \in Born' \ Born : Making(x)'
    BY <1>4
  <2>2. ASSUME NEW x \in Born, Making(x) PROVE Making(x)' \/ (Over(x)' /\ sent[x] = 0)
    <3>1. PICK r \in Procs : proc[r].at = "saving" /\ proc[r].fresh = x
      BY <2>2 DEF Making
    <3>2. CASE r = q
      <4>1. /\ x \notin DOMAIN open /\ sent[x] = 0
            /\ \A y \in Procs : x \notin proc[y].held /\ (proc[y].at = "saving" /\ proc[y].fresh = x => y = r)
        BY <3>1 DEF PlanInv, Maker
      <4> QED
        BY <1>1, <1>2, <1>5, <3>2, <4>1 DEF Over, Usable, Making
    <3>3. CASE r # q
      BY <1>1, <3>1, <3>3 DEF Making
    <3> QED
      BY <3>2, <3>3
  <2> QED
    BY <1>2, <1>4, <1>11, <2>1, <2>2, LineageKept DEF PlanInv
<1> QED
  BY <1>2, <1>6, <1>7, <1>8, <1>9, <1>10, <1>12 DEF PlanInv

LEMMA TimeKeeps ==
  ASSUME PlanInv, Tick \/ HouseChanges
  PROVE  PlanInv'
<1>1. /\ UNCHANGED <<made, open, claims, proc, sent, guesses, unsaved>>
      /\ now' \in Nat /\ house' \in Nat /\ now' >= now
  BY DEF PlanInv, PlanTypeOK, Tick, HouseChanges, filesVars, history
<1>2. now \in Nat /\ PlanTTL \in Nat /\ \A p \in Born : made[p].expires \in Nat
  BY PlanAssumption DEF PlanInv, PlanTypeOK, Born, Plan
<1>3. PlanTypeOK' /\ IsFiniteSet(DOMAIN open')
  BY <1>1 DEF PlanInv, PlanTypeOK
<1>4. OnlyBorn'
  BY <1>1, <1>2 DEF PlanInv, OnlyBorn, Born
<1>5. OnePlace' /\ FilesFit'
  BY <1>1 DEF PlanInv, OnePlace, FilesFit, Fits, Justified, WasUnsaved
<1>6. \A q \in Procs : Maker(q)' /\ Stands(q)'
  BY <1>1 DEF PlanInv, Maker, Stands, Fits, Justified, WasUnsaved, HumanChannel, Born
<1>7. SentOnce' /\ Lineage'
  BY <1>1 DEF PlanInv, SentOnce, Lineage, Unsent, Over, Usable, Making, Born
<1> QED
  BY <1>1, <1>3, <1>4, <1>5, <1>6, <1>7 DEF PlanInv

-----------------------------------------------------------------------------
(* The actions *)

LEMMA GotoGoes ==
  ASSUME PlanInv, NEW q \in Procs, NEW stage \in Stage \ {"saving"},
         proc[q].at # "finishing", Goto(q, stage),
         UNCHANGED <<now, house, filesVars, history>>
  PROVE  GoesOn(q) /\ proc'[q] = [proc[q] EXCEPT !.at = stage] /\ proc'[q].at = stage
<1>1. proc \in [Procs -> Process] /\ proc[q] \in Process /\ unsaved \subseteq Plans
  BY DEF PlanInv, PlanTypeOK
<1>2. proc' = [proc EXCEPT ![q] = [proc[q] EXCEPT !.at = stage]]
  BY DEF Goto
<1>3. [proc[q] EXCEPT !.at = stage] \in Process
  BY <1>1 DEF Process
<1>4. proc'[q] = [proc[q] EXCEPT !.at = stage] /\ proc'[q].at = stage
  BY <1>1, <1>2 DEF Process
<1> QED
  BY <1>1, <1>2, <1>3, <1>4 DEF GoesOn, filesVars, history, Process

\* Who is on the way out relies on nothing.
Leaving == {"returning", "finishing", "gathering"}

LEMMA LeavesKeeps ==
  ASSUME PlanInv, NEW q \in Procs, NEW stage \in Leaving,
         proc[q].at # "finishing", Goto(q, stage),
         UNCHANGED <<now, house, filesVars, history>>
  PROVE  PlanInv'
<1>1. GoesOn(q) /\ proc'[q].at = stage
  BY GotoGoes DEF Leaving, Stage
<1>2. Stands(q)'
  BY <1>1 DEF Stands, Leaving
<1> QED
  BY <1>1, <1>2, GoesOnKeeps

LEMMA MakingPlans ==
  ASSUME PlanInv, NEW q \in Procs, NEW p \in Plans, NEW ask \in Asks,
         MakePlan(q, p, ask) \/ Replace(q, p, ask) \/ Batch(q, p, ask) \/ Redraft(q, p, ask)
  PROVE  PlanInv'
<1>1. NewFile \in File /\ NewFile.mismatches = 0 /\ NewFile.snapshotFailed = FALSE
  BY DEF NewFile, File
<1>2. proc[q] \in Process /\ house \in Nat /\ proc[q].saw \in Nat
  BY DEF PlanInv, PlanTypeOK, Process
<1>3. CASE MakePlan(q, p, ask)
  <2>1. PICK b : b = house
    OBVIOUS
  <2>2. proc[q].held = {}
    BY <1>3 DEF PlanInv, Stands, MakePlan
  <2>3. Drafts(q, p, ask, b, NewFile)
    BY <1>1, <1>2, <1>3, <2>1, <2>2 DEF Drafts, MakePlan
  <2> QED
    BY <2>3, DraftsKeeps
<1>4. CASE Replace(q, p, ask)
  <2>1. PICK b, f : b = proc[q].saw /\ f = [NewFile EXCEPT !.snapshotFailed = proc[q].file.snapshotFailed]
    OBVIOUS
  <2>2. f \in File /\ f.mismatches = 0 /\ f.snapshotFailed = proc[q].file.snapshotFailed
    BY <1>2, <2>1 DEF NewFile, File, Process
  <2>3. /\ proc[q].held = {proc[q].plan} /\ made[proc[q].plan].ask = "window"
        /\ Justified(proc[q].file, proc[q].plan)
    BY <1>4 DEF PlanInv, Stands, Replace
  <2>4. f.snapshotFailed => proc[q].held \cap unsaved # {}
    BY <2>2, <2>3 DEF Justified
  <2>5. Drafts(q, p, ask, b, f)
    BY <1>2, <1>4, <2>1, <2>2, <2>4 DEF Drafts, Replace
  <2> QED
    BY <2>5, DraftsKeeps
<1>5. CASE Batch(q, p, ask)
  <2>1. PICK b : b = house
    OBVIOUS
  <2>2. Drafts(q, p, ask, b, NewFile)
    BY <1>1, <1>2, <1>5, <2>1 DEF Drafts, Batch
  <2> QED
    BY <2>2, DraftsKeeps
<1>6. CASE Redraft(q, p, ask)
  <2>1. PICK b : b = proc[q].saw
    OBVIOUS
  <2>2. Drafts(q, p, ask, b, NewFile)
    BY <1>1, <1>2, <1>6, <2>1 DEF Drafts, Redraft
  <2> QED
    BY <2>2, DraftsKeeps
<1> QED
  BY <1>3, <1>4, <1>5, <1>6

LEMMA SaveKeeps ==
  ASSUME PlanInv, NEW q \in Procs, Save(q)
  PROVE  PlanInv'
<1>1. proc[q].at = "saving" /\ proc[q].fresh \in Plans
  BY DEF PlanInv, Maker, Save, Born
<1>2. PICK p \in Plans : p = proc[q].fresh
  BY <1>1
<1>3. CASE UNCHANGED open
  <2>1. PICK stage \in {"finishing", "returning"} : Settle(q, stage)
    BY <1>1, <1>3 DEF Save, Settle
  <2>2. proc \in [Procs -> Process] /\ proc[q] \in Process /\ unsaved \subseteq Plans
    BY DEF PlanInv, PlanTypeOK
  <2>3. CASE proc[q].held = {}
    <3>1. proc' = [proc EXCEPT ![q] = Idle] /\ proc'[q] = Idle
      BY <2>1, <2>2, <2>3 DEF Settle
    <3>2. GoesOn(q)
      BY <1>1, <1>3, <2>2, <2>3, <3>1, IdleTyped DEF GoesOn, Save, history
    <3>3. Stands(q)'
      BY <3>1, IdleTyped DEF Stands
    <3> QED
      BY <3>2, <3>3, GoesOnKeeps
  <2>4. CASE proc[q].held # {}
    <3>1. Goto(q, stage)
      BY <2>1, <2>2, <2>4 DEF Settle, Goto
    <3> QED
      BY <1>1, <1>3, <3>1, LeavesKeeps DEF Save, Leaving, filesVars
  <2> QED
    BY <2>3, <2>4
<1>4. CASE open' # open
  <2>1. Saves(q, p)
    BY <1>1, <1>2, <1>4 DEF Save, Saves
  <2> QED
    BY <2>1, SavesKeeps
<1> QED
  BY <1>3, <1>4

LEMMA LettingGo ==
  ASSUME PlanInv, NEW q \in Procs, NEW p \in Plans, Remove(q, p) \/ HandBack(q, p)
  PROVE  PlanInv'
<1>1. LetsGo(q, p)
  BY DEF Remove, HandBack, LetsGo, Held
<1> QED
  BY <1>1, LetsGoKeeps

LEMMA Gathering ==
  ASSUME PlanInv, NEW q \in Procs, NEW p \in Plans, Gather(q, p)
  PROVE  PlanInv'
<1>1. proc \in [Procs -> Process] /\ proc[q] \in Process
  BY DEF PlanInv, PlanTypeOK
<1>2. /\ proc' = [proc EXCEPT ![q] = [proc[q] EXCEPT !.at = "gathering", !.held = proc[q].held \cup {p}]]
      /\ proc'[q] = [proc[q] EXCEPT !.at = "gathering", !.held = proc[q].held \cup {p}]
  BY <1>1 DEF Gather, Process
<1>3. proc'[q] \in Process /\ proc'[q].at = "gathering" /\ proc'[q].held = proc[q].held \cup {p}
  BY <1>1, <1>2 DEF Process, Stage
<1>4. Takes(q, p)
  BY <1>2, <1>3 DEF Takes, Gather
<1>5. Stands(q)'
  BY <1>3 DEF Stands
<1> QED
  BY <1>4, <1>5, TakesKeeps

LEMMA Asking ==
  ASSUME PlanInv, NEW q \in Procs, NEW p \in Plans, NEW without \in BOOLEAN,
         Ask(q, p, without)
  PROVE  PlanInv'
<1> DEFINE new == [Idle EXCEPT !.at = "asking", !.plan = p, !.file = open[p], !.without = without]
<1>1. /\ proc \in [Procs -> Process] /\ open[p] \in File /\ unsaved \subseteq Plans
      /\ proc[q].at = "idle" /\ proc[q].held = {} /\ p \in Born /\ Justified(open[p], p)
  BY DEF PlanInv, PlanTypeOK, Ask, Stands, OnlyBorn, FilesFit
<1>2. /\ new \in Process /\ new.at = "asking" /\ new.held = {} /\ new.plan = p /\ new.file = open[p]
  BY <1>1 DEF Idle, Process, Stage, NewFile, File
<1>3. proc' = [proc EXCEPT ![q] = new]
  BY DEF Ask
<1>4. proc'[q] = new
  BY <1>1, <1>3
<1>5. UNCHANGED <<now, house, made, open, claims, sent, guesses, unsaved>>
  BY DEF Ask, filesVars, history
<1> HIDE DEF new
<1>6. GoesOn(q)
  BY <1>1, <1>2, <1>3, <1>4, <1>5 DEF GoesOn
<1>7. Stands(q)'
  BY <1>1, <1>2, <1>4, <1>5 DEF Stands, Justified, WasUnsaved, Born
<1> QED
  BY <1>6, <1>7, GoesOnKeeps

LEMMA Answering ==
  ASSUME PlanInv, NEW q \in Procs, NEW code \in Plans, Answer(q, code)
  PROVE  PlanInv'
<1>1. proc \in [Procs -> Process] /\ proc[q] \in Process /\ unsaved \subseteq Plans
  BY DEF PlanInv, PlanTypeOK
<1>2. /\ proc[q].at = "asking" /\ proc[q].held = {} /\ proc[q].plan \in Born
  BY DEF PlanInv, Stands, Answer
<1>3. /\ proc' = [proc EXCEPT ![q] = [proc[q] EXCEPT !.at = "answered", !.code = code, !.human = TRUE]]
      /\ proc'[q] = [proc[q] EXCEPT !.at = "answered", !.code = code, !.human = TRUE]
  BY <1>1 DEF Answer, Process
<1>4. /\ proc'[q] \in Process /\ proc'[q].at = "answered" /\ proc'[q].held = {}
      /\ proc'[q].plan = proc[q].plan
  BY <1>1, <1>2, <1>3 DEF Process, Stage
<1>5. UNCHANGED <<now, house, made, open, claims, sent, guesses, unsaved>>
  BY DEF Answer, filesVars, history
<1>6. GoesOn(q)
  BY <1>1, <1>2, <1>3, <1>4, <1>5 DEF GoesOn
<1>7. Stands(q)'
  BY <1>2, <1>4, <1>5 DEF Stands, Born
<1> QED
  BY <1>6, <1>7, GoesOnKeeps

LEMMA Forgetting ==
  ASSUME PlanInv, NEW q \in Procs, proc[q].at \in {"asking", "answered"},
         proc' = [proc EXCEPT ![q] = Idle],
         UNCHANGED <<now, house, filesVars, history>>
  PROVE  PlanInv'
<1>1. proc'[q] = Idle /\ proc[q].held = {} /\ unsaved \subseteq Plans
  BY DEF PlanInv, PlanTypeOK, Stands
<1>2. GoesOn(q) /\ Stands(q)'
  BY <1>1, IdleTyped DEF GoesOn, Stands, filesVars, history
<1> QED
  BY <1>2, GoesOnKeeps

LEMMA FallingBack ==
  ASSUME PlanInv, NEW q \in Procs, Fallback(q)
  PROVE  PlanInv'
<1>1. proc \in [Procs -> Process] /\ proc[q] \in Process /\ house \in Nat
  BY DEF PlanInv, PlanTypeOK
<1>2. /\ proc[q].at = "asking" /\ proc[q].held = {} /\ proc[q].plan \in Born
      /\ Justified(proc[q].file, proc[q].plan) /\ made[proc[q].plan].ask = "window"
  BY DEF PlanInv, Stands, Fallback
<1>3. PICK p \in Plans : p = proc[q].plan
  BY <1>2 DEF Born
<1>4. /\ proc' = [proc EXCEPT ![q] = [proc[q] EXCEPT !.at = "replacing", !.held = {p}, !.saw = house]]
      /\ proc'[q] = [proc[q] EXCEPT !.at = "replacing", !.held = {p}, !.saw = house]
  BY <1>1, <1>3 DEF Fallback, FallbackClaim, Process
<1>5. /\ proc'[q] \in Process /\ proc'[q].at = "replacing" /\ proc'[q].held = {p}
      /\ proc'[q].plan = p /\ proc'[q].file = proc[q].file
  BY <1>1, <1>3, <1>4 DEF Process, Stage
<1>6. UNCHANGED <<now, house, made, history>> /\ Take(q, p)
  BY <1>3 DEF Fallback, FallbackClaim
<1>7. Takes(q, p)
  BY <1>2, <1>4, <1>5, <1>6 DEF Takes
<1>8. Stands(q)'
  BY <1>2, <1>3, <1>5, <1>6 DEF Stands, Justified, WasUnsaved, Born, history
<1> QED
  BY <1>7, <1>8, TakesKeeps

LEMMA Claiming ==
  ASSUME PlanInv, NEW q \in Procs, NEW p \in Plans, NEW r \in Process,
         proc[q].at \in {"idle", "answered"}, Take(q, p), proc' = [proc EXCEPT ![q] = r],
         r.at = "claimed", r.plan = p, r.held = {p},
         UNCHANGED <<now, house, made, history>>
  PROVE  PlanInv'
<1>1. proc'[q] = r /\ proc[q].held = {} /\ p \in Born
  BY DEF PlanInv, PlanTypeOK, OnlyBorn, Stands, Take
<1>2. Takes(q, p)
  BY <1>1 DEF Takes
<1>3. Stands(q)'
  BY <1>1 DEF Stands, Born
<1> QED
  BY <1>2, <1>3, TakesKeeps

LEMMA ClaimKeeps ==
  ASSUME PlanInv, NEW q \in Procs, NEW p \in Plans, NEW code \in Plans \cup {NoCode},
         NEW without \in BOOLEAN, Claim(q, p, code, without)
  PROVE  PlanInv'
<1>1. PICK r : r = [Claimed(q, p) EXCEPT !.code = code, !.without = without]
  OBVIOUS
<1>2. proc[q] \in Process
  BY DEF PlanInv, PlanTypeOK
<1>3. r \in Process /\ r.at = "claimed" /\ r.plan = p /\ r.held = {p}
  BY <1>1, <1>2 DEF Claimed, Process, Stage
<1> QED
  BY <1>1, <1>3, Claiming DEF Claim

LEMMA ClaimAnsweredKeeps ==
  ASSUME PlanInv, NEW q \in Procs, ClaimAnswered(q)
  PROVE  PlanInv'
<1>1. proc[q] \in Process /\ proc[q].at = "answered" /\ proc[q].plan \in Born
  BY DEF PlanInv, PlanTypeOK, Stands, ClaimAnswered
<1>2. PICK p \in Plans : p = proc[q].plan
  BY <1>1 DEF Born
<1> PICK r : r = Claimed(q, p)
  OBVIOUS
<1>3. r \in Process /\ r.at = "claimed" /\ r.plan = p /\ r.held = {p}
  BY <1>1, <1>2 DEF Claimed, Process, Stage
<1>4. CASE Take(q, p) /\ proc' = [proc EXCEPT ![q] = r]
  BY <1>1, <1>3, <1>4, Claiming DEF ClaimAnswered
<1>5. CASE proc' = [proc EXCEPT ![q] = Idle] /\ UNCHANGED <<open, claims>>
  BY <1>1, <1>5, Forgetting DEF ClaimAnswered, filesVars
<1> QED
  BY <1>2, <1>4, <1>5 DEF ClaimAnswered

LEMMA Checking ==
  ASSUME PlanInv, NEW q \in Procs, Check(q)
  PROVE  PlanInv'
<1>1. proc \in [Procs -> Process] /\ proc[q] \in Process /\ unsaved \subseteq Plans
  BY DEF PlanInv, PlanTypeOK
<1>2. PICK p \in Plans : p = proc[q].plan /\ p \in Born /\ proc[q].held = {p} /\ proc[q].at = "claimed"
  BY DEF PlanInv, Stands, Check, Born
<1>3. CASE Return(q) \/ Consume(q)
  BY <1>2, <1>3, LeavesKeeps DEF Check, Return, Consume, Leaving
<1>4. CASE /\ Held(p) /\ ~SnapshotRefused(q) /\ ~FormWithoutHuman(q)
           /\ proc' = [proc EXCEPT ![q].at = "checked", ![q].file = claims[p].file]
           /\ UNCHANGED filesVars
  <2>1. /\ claims[p].file \in File /\ Fits(claims[p].file, p) /\ Justified(claims[p].file, p)
    BY <1>2, <1>4 DEF PlanInv, PlanTypeOK, FilesFit, Held
  <2>2. PICK f : f = claims[p].file
    OBVIOUS
  <2>3. proc' = [proc EXCEPT ![q] = [proc[q] EXCEPT !.at = "checked", !.file = f]]
    BY <1>1, <1>4, <2>2 DEF Process
  <2>4. proc'[q] = [proc[q] EXCEPT !.at = "checked", !.file = f]
    BY <1>1, <2>3
  <2>5. /\ proc'[q] \in Process /\ proc'[q].at = "checked" /\ proc'[q].file = f /\ proc'[q].held = {p}
        /\ proc'[q].plan = p /\ proc'[q].human = proc[q].human /\ proc'[q].without = proc[q].without
    BY <1>1, <1>2, <2>1, <2>2, <2>4 DEF Process, Stage
  <2>6. UNCHANGED <<now, house, made, open, claims, sent, guesses, unsaved>>
    BY <1>4 DEF Check, filesVars, history
  <2>7. GoesOn(q)
    BY <1>1, <1>2, <2>3, <2>4, <2>5, <2>6 DEF GoesOn
  <2>8. proc[q].without => f.snapshotFailed
    BY <1>2, <1>4, <2>2 DEF SnapshotRefused
  <2>9. made[p].ask = "form" => proc[q].human
    BY <1>2, <1>4 DEF FormWithoutHuman
  <2>10. Fits(f, p)' /\ Justified(f, p)' /\ (proc[q].without => WasUnsaved(p)') /\ p \in Born'
    BY <1>2, <2>1, <2>2, <2>6, <2>8 DEF Fits, Justified, WasUnsaved, Born
  <2>11. Stands(q)'
    BY <1>2, <2>5, <2>6, <2>9, <2>10 DEF Stands
  <2> QED
    BY <2>7, <2>11, GoesOnKeeps
<1> QED
  BY <1>2, <1>3, <1>4 DEF Check

LEMMA Recomputing ==
  ASSUME PlanInv, NEW q \in Procs, Recompute(q)
  PROVE  PlanInv'
<1>1. /\ proc \in [Procs -> Process] /\ proc[q] \in Process /\ unsaved \subseteq Plans
      /\ house \in Nat /\ proc[q].at = "checked" /\ Stands(q)
  BY DEF PlanInv, PlanTypeOK, Recompute
<1>2. PICK p \in Plans : p = proc[q].plan /\ p \in Born
  BY <1>1 DEF Stands, Born
<1>3. CASE Return(q) \/ Consume(q)
  BY <1>1, <1>3, LeavesKeeps DEF Recompute, Return, Consume, Leaving
<1>4. ASSUME NEW stage \in {"confirmed", "drifted"},
             stage = "confirmed" => SameHouse(p),
             proc' = [proc EXCEPT ![q].at = stage, ![q].saw = house],
             UNCHANGED filesVars
      PROVE  PlanInv'
  <2>1. proc' = [proc EXCEPT ![q] = [proc[q] EXCEPT !.at = stage, !.saw = house]]
    BY <1>1, <1>4 DEF Process
  <2>2. proc'[q] = [proc[q] EXCEPT !.at = stage, !.saw = house]
    BY <1>1, <2>1
  <2>3. /\ proc'[q] \in Process /\ proc'[q].at = stage /\ proc'[q].saw = house
        /\ proc'[q].file = proc[q].file /\ proc'[q].held = proc[q].held /\ proc'[q].plan = p
        /\ proc'[q].human = proc[q].human /\ proc'[q].without = proc[q].without
    BY <1>1, <1>2, <2>2 DEF Process, Stage
  <2>4. UNCHANGED <<now, house, made, open, claims, sent, guesses, unsaved>>
    BY <1>4 DEF Recompute, filesVars, history
  <2>5. GoesOn(q)
    BY <1>1, <2>1, <2>2, <2>3, <2>4 DEF GoesOn
  <2>6. stage = "confirmed" => house = made[p].basis
    BY <1>4 DEF SameHouse
  <2>7. p \in Born' /\ \A f : (Fits(f, p) => Fits(f, p)') /\ (Justified(f, p) => Justified(f, p)')
    BY <1>2, <2>4 DEF Fits, Justified, WasUnsaved, Born
  <2>8. WasUnsaved(p) => WasUnsaved(p)'
    BY <2>4 DEF WasUnsaved
  <2>9. Stands(q)'
    BY <1>1, <1>2, <2>3, <2>4, <2>6, <2>7, <2>8 DEF Stands
  <2> QED
    BY <2>5, <2>9, GoesOnKeeps
<1> QED
  BY <1>2, <1>3, <1>4 DEF Recompute

LEMMA Judging ==
  ASSUME PlanInv, NEW q \in Procs, Judge(q)
  PROVE  PlanInv'
<1>1. /\ proc \in [Procs -> Process] /\ proc[q] \in Process /\ unsaved \subseteq Plans
      /\ guesses \in [Plans -> Nat]
      /\ proc[q].at = "confirmed" /\ Stands(q)
  BY DEF PlanInv, PlanTypeOK, Judge
<1>2. PICK p \in Plans : p = proc[q].plan /\ p \in Born
  BY <1>1 DEF Stands, Born
<1>3. UNCHANGED <<now, house, sent, unsaved>>
  BY DEF Judge
<1>4. CASE Return(q) /\ UNCHANGED guesses
  BY <1>1, <1>3, <1>4, LeavesKeeps DEF Return, Leaving, history
<1>5. CASE Mismatch(q)
  <2>1. PICK f : f = [Counted(q) EXCEPT !.mtime = now]
    OBVIOUS
  <2>2. proc[q].file \in File /\ Fits(proc[q].file, p) /\ Justified(proc[q].file, p) /\ now \in Nat
    BY <1>1, <1>2 DEF Process, Stands, PlanInv, PlanTypeOK
  <2>3. /\ f \in File /\ f.mtime = now /\ f.mismatches = proc[q].file.mismatches + 1
        /\ f.snapshotFailed = proc[q].file.snapshotFailed
    <3>1. PICK old \in File : old = proc[q].file
      BY <2>2
    <3>2. PICK new : new = [old EXCEPT !.mismatches = old.mismatches + 1]
      OBVIOUS
    <3>3. f = [new EXCEPT !.mtime = now]
      BY <2>1, <3>1, <3>2 DEF Counted
    <3>4. /\ new \in File /\ new.mismatches = old.mismatches + 1
          /\ new.snapshotFailed = old.snapshotFailed
      BY <3>1, <3>2 DEF File
    <3> QED
      BY <2>2, <3>1, <3>3, <3>4 DEF File
  <2>4. /\ guesses' \in [Plans -> Nat] /\ guesses'[p] = guesses[p] + 1
        /\ \A x \in Plans : x # p => guesses'[x] = guesses[x]
    BY <1>1, <1>2, <1>5 DEF Mismatch
  <2>5. /\ guesses[p] <= proc[q].file.mismatches /\ proc[q].file.mismatches < MaxMismatches
        /\ guesses[p] \in Nat /\ proc[q].file.mismatches \in Nat /\ MaxMismatches \in Nat
    BY <1>1, <2>2, PlanAssumption DEF Fits, File
  <2>6. guesses'[p] <= MaxMismatches
    BY <2>4, <2>5
  <2>7. CASE Consume(q)
    BY <1>1, <1>2, <1>3, <2>4, <2>6, <2>7, JudgesKeeps DEF Judges, Consume, Goto, filesVars
  <2>8. CASE proc[q].file.mismatches + 1 < MaxMismatches /\ Rewrite(q, Counted(q))
    <3>1. Fits(f, p)'
      BY <2>3, <2>4, <2>5, <2>8 DEF Fits
    <3>2. made' = made
      BY <2>8 DEF Rewrite
    <3>3. Justified(f, p)'
      BY <1>3, <2>2, <2>3, <3>2 DEF Justified, WasUnsaved
    <3>4. Judges(q, p, f)
      BY <1>1, <1>2, <1>3, <2>1, <2>3, <2>4, <2>6, <2>8, <3>1, <3>3 DEF Judges, Rewrite, Goto
    <3> QED
      BY <3>4, JudgesKeeps
  <2> QED
    BY <1>5, <2>7, <2>8 DEF Mismatch
<1>6. CASE ~(Typed(q) /\ NoAnswer(q)) /\ ~(Typed(q) /\ ~RightCode(q)) /\ Goto(q, "approved")
           /\ UNCHANGED <<filesVars, guesses>>
  <2>1. GoesOn(q) /\ proc'[q] = [proc[q] EXCEPT !.at = "approved"] /\ proc'[q].at = "approved"
    BY <1>1, <1>3, <1>6, GotoGoes DEF Stage, history
  <2>2. /\ proc'[q].plan = p /\ proc'[q].held = proc[q].held /\ proc'[q].file = proc[q].file
        /\ proc'[q].human = proc[q].human /\ proc'[q].without = proc[q].without
        /\ proc'[q].saw = proc[q].saw /\ proc'[q].code = proc[q].code
    BY <1>1, <1>2, <2>1 DEF Process
  <2>3. UNCHANGED <<now, house, made, open, claims, sent, guesses, unsaved>>
    BY <1>3, <1>6 DEF filesVars
  <2>4. made[p].ask # "preview" => proc[q].code = p /\ (HumanChannel(p) => proc[q].human)
    BY <1>2, <1>6 DEF Typed, NoAnswer, RightCode
  <2>5. p \in Born' /\ \A f : (Fits(f, p) => Fits(f, p)') /\ (Justified(f, p) => Justified(f, p)')
    BY <1>2, <2>3 DEF Fits, Justified, WasUnsaved, Born
  <2>6. (WasUnsaved(p) => WasUnsaved(p)') /\ (HumanChannel(p)' => HumanChannel(p))
    BY <2>3 DEF WasUnsaved, HumanChannel
  <2>7. Stands(q)'
    BY <1>1, <1>2, <2>1, <2>2, <2>3, <2>4, <2>5, <2>6 DEF Stands
  <2> QED
    BY <2>1, <2>7, GoesOnKeeps
<1> QED
  BY <1>4, <1>5, <1>6 DEF Judge

LEMMA SnapshotFailing ==
  ASSUME PlanInv, NEW q \in Procs, SnapshotFails(q)
  PROVE  PlanInv'
<1>1. /\ proc[q] \in Process /\ unsaved \subseteq Plans /\ guesses \in [Plans -> Nat]
      /\ proc[q].at = "approved" /\ Stands(q)
  BY DEF PlanInv, PlanTypeOK, SnapshotFails
<1>2. PICK p \in Plans : p = proc[q].plan /\ p \in Born
  BY <1>1 DEF Stands, Born
<1>3. PICK f : f = [[proc[q].file EXCEPT !.snapshotFailed = TRUE] EXCEPT !.mtime = now]
  OBVIOUS
<1>4. proc[q].file \in File /\ Fits(proc[q].file, p) /\ now \in Nat
  BY <1>1, <1>2 DEF Process, Stands, PlanInv, PlanTypeOK
<1>5. f \in File /\ f.mtime = now /\ f.mismatches = proc[q].file.mismatches
  BY <1>3, <1>4 DEF File
<1>6. /\ UNCHANGED <<now, house, made, open, sent, guesses>> /\ p \in unsaved'
      /\ unsaved \subseteq unsaved' /\ unsaved' \subseteq Plans
  BY <1>1, <1>2 DEF SnapshotFails, Rewrite, Consume, filesVars
<1>7. Fits(f, p)' /\ Justified(f, p)'
  BY <1>4, <1>5, <1>6 DEF Fits, Justified, WasUnsaved
<1>8. Judges(q, p, f)
  BY <1>1, <1>2, <1>3, <1>5, <1>6, <1>7 DEF SnapshotFails, Judges, Rewrite, Consume, Goto, filesVars, PlanInv
<1> QED
  BY <1>8, JudgesKeeps

LEMMA SendingKeeps ==
  ASSUME PlanInv, NEW q \in Procs, SendIt(q) \/ NotSent(q) \/ GatherRefused(q)
  PROVE  PlanInv'
<1>1. CASE NotSent(q) \/ GatherRefused(q)
  BY <1>1, LeavesKeeps DEF NotSent, GatherRefused, Return, Leaving
<1>2. CASE SendIt(q)
  <2>1. PICK p \in Plans : p = proc[q].plan
    BY <1>2 DEF PlanInv, Stands, Born, SendIt
  <2>2. Sends(q, p)
    BY <1>2, <2>1 DEF SendIt, Sends, AfterSend, Consume, Goto
  <2> QED
    BY <2>2, SendsKeeps
<1> QED
  BY <1>1, <1>2

LEMMA InitInv == Init => PlanInv
<1> SUFFICES ASSUME Init PROVE PlanInv
  OBVIOUS
<1>1. /\ now = 0 /\ house = 0 /\ made = [p \in Plans |-> NoPlan]
      /\ DOMAIN open = {} /\ DOMAIN claims = {}
      /\ proc = [q \in Procs |-> Idle] /\ unsaved = {}
      /\ sent = [p \in Plans |-> 0] /\ guesses = [p \in Plans |-> 0]
  BY DEF Init
<1>2. open \in [DOMAIN open -> File] /\ claims \in [DOMAIN claims -> [file : File, by : Procs \cup {Nobody}]]
  BY <1>1 DEF Init
<1>3. PlanTypeOK
  BY <1>1, <1>2, IdleTyped DEF PlanTypeOK
<1>4. IsFiniteSet(DOMAIN open)
  BY <1>1, FS_EmptySet
<1>5. Born = {}
  BY <1>1 DEF Born
<1>6. OnlyBorn /\ OnePlace /\ FilesFit
  BY <1>1, <1>5, IdleTyped DEF OnlyBorn, OnePlace, FilesFit
<1>7. \A q \in Procs : Maker(q) /\ Stands(q)
  BY <1>1, IdleTyped DEF Maker, Stands
<1>8. SentOnce /\ Lineage
  BY <1>1, <1>5 DEF SentOnce, Lineage
<1>9. \A p \in Plans : guesses[p] <= MaxMismatches
  BY <1>1, PlanAssumption
<1> QED
  BY <1>3, <1>4, <1>6, <1>7, <1>8, <1>9 DEF PlanInv

LEMMA NextInv == PlanInv /\ [Next]_vars => PlanInv'
<1> SUFFICES ASSUME PlanInv, [Next]_vars PROVE PlanInv'
  OBVIOUS
<1>1. CASE UNCHANGED vars
  BY <1>1 DEF vars, filesVars, history, PlanInv, PlanTypeOK, OnlyBorn, OnePlace, FilesFit, Maker,
              Stands, SentOnce, Lineage, Unsent, Over, Usable, Making, Born, Fits, Justified,
              WasUnsaved, HumanChannel
<1>2. CASE Tick \/ HouseChanges
  BY <1>2, TimeKeeps
<1>3. ASSUME NEW q \in Procs, NEW p \in Plans, NEW ask \in Asks,
             MakePlan(q, p, ask) \/ Replace(q, p, ask) \/ Batch(q, p, ask) \/ Redraft(q, p, ask)
      PROVE  PlanInv'
  BY <1>3, MakingPlans
<1>4. ASSUME NEW q \in Procs, NEW p \in Plans,
             Gather(q, p) \/ Remove(q, p) \/ HandBack(q, p) \/ Answer(q, p)
      PROVE  PlanInv'
  BY <1>4, Gathering, LettingGo, Answering
<1>5. ASSUME NEW q \in Procs, NEW p \in Plans, NEW without \in BOOLEAN, Ask(q, p, without)
      PROVE  PlanInv'
  BY <1>5, Asking
<1>6. ASSUME NEW q \in Procs, NEW p \in Plans, NEW without \in BOOLEAN,
             NEW code \in Plans \cup {NoCode}, Claim(q, p, code, without)
      PROVE  PlanInv'
  BY <1>6, ClaimKeeps
<1>7. ASSUME NEW q \in Procs, Unanswered(q)
      PROVE  PlanInv'
  BY <1>7, Forgetting DEF Unanswered
<1>8. ASSUME NEW q \in Procs,
             \/ Save(q) \/ Fallback(q) \/ GatherRefused(q) \/ ClaimAnswered(q) \/ Check(q)
             \/ Recompute(q) \/ Judge(q) \/ SnapshotFails(q) \/ NotSent(q) \/ SendIt(q) \/ Crash(q)
      PROVE  PlanInv'
  BY <1>8, SaveKeeps, FallingBack, ClaimAnsweredKeeps, Checking, Recomputing, Judging,
     SnapshotFailing, SendingKeeps, CrashKeeps
<1> QED
  BY <1>1, <1>2, <1>3, <1>4, <1>5, <1>6, <1>7, <1>8 DEF Next

\* The inductive invariant of the plan directory.
THEOREM PlanInvariant == Spec => []PlanInv
BY InitInv, NextInv, PTL DEF Spec

-----------------------------------------------------------------------------
(* What it gives *)

\* However many processes plan, replace, batch, apply and are killed, a change is
\* sent once, whichever of the plans that stand for it is used.
THEOREM OneSend == Spec => []OneSendPerChange
<1>1. PlanInv => OneSendPerChange
  <2> SUFFICES ASSUME PlanInv, NEW p \in Plans
               PROVE  /\ sent[p] <= 1
                      /\ made[p] # NoPlan /\ (p \in DOMAIN open \/ sent[p] > 0) =>
                           \A m \in made[p].from : m \notin DOMAIN open /\ sent[m] = 0
    BY DEF OneSendPerChange
  <2>1. sent[p] \in {0, 1}
    BY DEF PlanInv, SentOnce
  <2>2. ASSUME p \in Born, p \in DOMAIN open \/ sent[p] > 0, NEW m \in made[p].from
        PROVE  m \notin DOMAIN open /\ sent[m] = 0
    <3>1. ~Unsent(p)
      BY <2>1, <2>2 DEF Unsent, Over, Usable
    <3>2. ~Making(p)
      BY <2>1, <2>2 DEF PlanInv, Making, Maker
    <3>3. Unsent(m)
      BY <2>2, <3>1, <3>2 DEF PlanInv, Lineage
    <3> QED
      BY <3>3 DEF Unsent, Over, Usable
  <2> QED
    BY <2>1, <2>2 DEF Born
<1> QED
  BY <1>1, PlanInvariant, PTL

\* A plan is never tried with more wrong codes than the limit, and with that many it
\* is gone, for any number of concurrent applies, kills and failed writes.
THEOREM GuessesAreFew == Spec => []ThreeGuesses
<1>1. PlanInv => ThreeGuesses
  <2> SUFFICES ASSUME PlanInv, NEW p \in Plans
               PROVE  guesses[p] <= MaxMismatches /\ (guesses[p] = MaxMismatches => p \notin DOMAIN open)
    BY DEF ThreeGuesses
  <2>1. guesses[p] \in Nat /\ MaxMismatches \in Nat /\ guesses[p] <= MaxMismatches
    BY PlanAssumption DEF PlanInv, PlanTypeOK
  <2>2. ASSUME p \in DOMAIN open PROVE guesses[p] # MaxMismatches
    <3>1. Fits(open[p], p) /\ open[p].mismatches \in Nat
      BY <2>2 DEF PlanInv, PlanTypeOK, FilesFit, File
    <3> QED
      BY <2>1, <3>1 DEF Fits
  <2> QED
    BY <2>1, <2>2
<1> QED
  BY <1>1, PlanInvariant, PTL

\* The history of what was sent changes only where it is sent.
LEMMA OnlySendItSends ==
  ASSUME [Next]_vars, sent' # sent
  PROVE  \E q \in Procs : SendIt(q)
<1>1. ~UNCHANGED vars /\ ~Tick /\ ~HouseChanges
  BY DEF vars, history, Tick, HouseChanges
<1>2. ASSUME NEW q \in Procs, NEW p \in Plans, NEW ask \in Asks
      PROVE  ~MakePlan(q, p, ask) /\ ~Replace(q, p, ask) /\ ~Batch(q, p, ask) /\ ~Redraft(q, p, ask)
  BY DEF MakePlan, Replace, Batch, Redraft, history
<1>3. ASSUME NEW q \in Procs, NEW p \in Plans
      PROVE  ~Gather(q, p) /\ ~Remove(q, p) /\ ~HandBack(q, p) /\ ~Answer(q, p)
  BY DEF Gather, Remove, HandBack, Answer, history
<1>4. ASSUME NEW q \in Procs, NEW p \in Plans, NEW without \in BOOLEAN
      PROVE  ~Ask(q, p, without)
  BY DEF Ask, history
<1>5. ASSUME NEW q \in Procs, NEW p \in Plans, NEW without \in BOOLEAN,
             NEW code \in Plans \cup {NoCode}
      PROVE  ~Claim(q, p, code, without)
  BY DEF Claim, history
<1>6. ASSUME NEW q \in Procs
      PROVE  /\ ~Save(q) /\ ~Unanswered(q) /\ ~Fallback(q) /\ ~GatherRefused(q) /\ ~ClaimAnswered(q)
             /\ ~Check(q) /\ ~Recompute(q) /\ ~Judge(q) /\ ~SnapshotFails(q) /\ ~NotSent(q)
             /\ ~Crash(q)
  BY DEF Save, Unanswered, Fallback, GatherRefused, ClaimAnswered, Check, Recompute, Judge,
         SnapshotFails, NotSent, Crash, history
<1> QED
  BY <1>1, <1>2, <1>3, <1>4, <1>5, <1>6 DEF Next

\* What is sent is what the human confirmed, with the plan's own code, where its
\* channel asks for one, and without a snapshot only after this change's failed.
THEOREM SentIsConfirmed == Spec => SentAsConfirmed
<1> DEFINE Confirmed(p) ==
      \E q \in Procs :
        /\ proc[q].plan = p /\ proc[q].saw = made[p].basis
        /\ made[p].ask # "preview" => proc[q].code = p
        /\ made[p].ask = "form" \/ HumanChannel(p) => proc[q].human
        /\ proc[q].without => ({p} \cup made[p].from) \cap unsaved # {}
<1>1. ASSUME PlanInv, [Next]_vars, NEW p \in Plans, sent'[p] > sent[p]
      PROVE  Confirmed(p)
  <2>1. sent' # sent
    BY <1>1 DEF PlanInv, PlanTypeOK
  <2>2. PICK q \in Procs : SendIt(q)
    BY <1>1, <2>1, OnlySendItSends
  <2>3. proc[q].plan = p
    BY <1>1, <2>2 DEF SendIt, PlanInv, PlanTypeOK
  <2>4. proc[q].at = "approved" /\ Stands(q)
    BY <1>1, <2>2 DEF SendIt, PlanInv
  <2> QED
    BY <2>3, <2>4 DEF Stands, WasUnsaved, HumanChannel
<1>2. PlanInv /\ [Next]_vars => [\A p \in Plans : sent'[p] > sent[p] => Confirmed(p)]_vars
  BY <1>1
<1> QED
  BY <1>2, PlanInvariant, PTL DEF Spec, SentAsConfirmed

\* An unexpired plan's file is young, so pruning takes it only to make room.
LEMMA PruningSpares ==
  ASSUME PlanInv, Prune, NEW p \in Plans, Unexpired(p)
  PROVE  /\ p \in DOMAIN open /\ p \notin DOMAIN open' => Cardinality(DOMAIN open) >= MaxFiles
         /\ p \in DOMAIN claims => p \in DOMAIN claims'
<1>1. /\ now \in Nat /\ PlanTTL \in Nat /\ MaxFiles \in Nat
      /\ open \in [DOMAIN open -> File] /\ claims \in [DOMAIN claims -> [file : File, by : Procs \cup {Nobody}]]
      /\ IsFiniteSet(DOMAIN open)
  BY PlanAssumption DEF PlanInv, PlanTypeOK
<1>2. \A x \in Born : made[x].expires \in Nat
  BY DEF PlanInv, PlanTypeOK, Born, Plan
<1>3. DOMAIN open \subseteq Born /\ DOMAIN claims \subseteq Born
  BY DEF PlanInv, OnlyBorn
<1>4. ASSUME NEW f \in File, p \in Born, made[p].expires <= f.mtime + PlanTTL
      PROVE  ~Stale(f)
  <2>1. f.mtime \in Nat
    BY DEF File
  <2> QED
    BY <1>1, <1>2, <1>4, <2>1 DEF Stale, Unexpired
<1>5. ASSUME p \in DOMAIN claims PROVE p \in DOMAIN claims'
  <2>1. ~Stale(claims[p].file)
    BY <1>1, <1>3, <1>4, <1>5 DEF PlanInv, FilesFit
  <2> QED
    BY <1>5, <2>1 DEF Prune, PruneClaims, Less, StaleClaims
<1>6. ASSUME p \in DOMAIN open, p \notin DOMAIN open'
      PROVE  Cardinality(DOMAIN open) >= MaxFiles
  <2>1. PICK K \in Survivors : DOMAIN open' = K
    BY DEF Prune
  <2>2. p \in Young
    BY <1>1, <1>3, <1>4, <1>6 DEF PlanInv, FilesFit, Young
  <2>3. K \subseteq Young /\ K # Young /\ Cardinality(K) = MaxFiles - 1
    BY <1>6, <2>1, <2>2 DEF Survivors
  <2>4. IsFiniteSet(Young) /\ Cardinality(Young) <= Cardinality(DOMAIN open)
    BY <1>1, FS_Subset DEF Young
  <2>5. Cardinality(K) <= Cardinality(Young) /\ Cardinality(K) # Cardinality(Young) /\ IsFiniteSet(K)
    BY <2>3, <2>4, FS_Subset
  <2>6. Cardinality(K) \in Nat /\ Cardinality(Young) \in Nat /\ Cardinality(DOMAIN open) \in Nat
    BY <1>1, <2>4, <2>5, FS_CardinalityType
  <2> QED
    BY <1>1, <2>3, <2>4, <2>5, <2>6
<1> QED
  BY <1>5, <1>6

\* Every other step moves files between open and claimed, or removes what a process
\* is finishing.
LEMMA OnlyDraftsPrune ==
  ASSUME [Next]_vars, ~Prune
  PROVE  /\ DOMAIN open \subseteq DOMAIN open' \cup DOMAIN claims'
         /\ \A p \in DOMAIN claims \ (DOMAIN open' \cup DOMAIN claims') :
              \E q \in Procs : p \in proc[q].held /\ proc[q].at = "finishing"
<1> DEFINE Kept == DOMAIN open \subseteq DOMAIN open' /\ DOMAIN claims \subseteq DOMAIN claims'
<1> DEFINE Spares ==
      /\ DOMAIN open \subseteq DOMAIN open' \cup DOMAIN claims'
      /\ \A p \in DOMAIN claims \ (DOMAIN open' \cup DOMAIN claims') :
           \E q \in Procs : p \in proc[q].held /\ proc[q].at = "finishing"
<1>1. ASSUME UNCHANGED vars \/ Tick \/ HouseChanges PROVE Spares
  BY <1>1 DEF vars, filesVars, Tick, HouseChanges
<1>2. ASSUME NEW q \in Procs, NEW p \in Plans, NEW ask \in Asks
      PROVE  ~MakePlan(q, p, ask) /\ ~Replace(q, p, ask) /\ ~Batch(q, p, ask) /\ ~Redraft(q, p, ask)
  BY DEF MakePlan, Replace, Batch, Redraft, Draft
<1>3. ASSUME NEW q \in Procs, NEW p \in Plans, Take(q, p)
      PROVE  Spares
  BY <1>3 DEF Take, Less, With
<1>4. ASSUME NEW q \in Procs, Return(q) \/ Consume(q) PROVE Kept
  BY <1>4 DEF Return, Consume, filesVars
<1>5. ASSUME NEW q \in Procs, NEW f, Rewrite(q, f) PROVE Kept
  BY <1>5 DEF Rewrite, With
<1>6. ASSUME NEW q \in Procs, Judge(q) \/ SnapshotFails(q) \/ SendIt(q) \/ NotSent(q) \/ GatherRefused(q)
      PROVE  Kept
  <2>1. CASE Judge(q)
    BY <1>4, <1>5, <2>1 DEF Judge, Mismatch, filesVars
  <2>2. CASE SnapshotFails(q)
    BY <1>4, <1>5, <2>2 DEF SnapshotFails
  <2> QED
    BY <1>4, <1>6, <2>1, <2>2 DEF SendIt, AfterSend, NotSent, GatherRefused
<1>7. ASSUME NEW q \in Procs, Check(q) \/ Recompute(q) \/ Save(q) \/ Crash(q) \/ Unanswered(q)
      PROVE  Kept
  <2>1. CASE Check(q) \/ Recompute(q)
    BY <1>4, <2>1 DEF Check, Recompute, filesVars
  <2> QED
    BY <1>7, <2>1 DEF Save, With, Crash, Unanswered, filesVars
<1>8. ASSUME NEW q \in Procs, Fallback(q) \/ ClaimAnswered(q)
      PROVE  Spares
  <2>1. ASSUME NEW p, Take(q, p)
        PROVE  Spares
    BY <2>1 DEF Take, Less, With
  <2> QED
    BY <1>8, <2>1 DEF Fallback, FallbackClaim, ClaimAnswered
<1>9. ASSUME NEW q \in Procs, NEW p \in Plans, NEW without \in BOOLEAN,
             NEW code \in Plans \cup {NoCode}, Claim(q, p, code, without)
      PROVE  Spares
  BY <1>3, <1>9 DEF Claim
<1>10. ASSUME NEW q \in Procs, NEW p \in Plans, NEW without \in BOOLEAN, Ask(q, p, without)
       PROVE  Spares
  BY <1>10 DEF Ask, filesVars
<1>11. ASSUME NEW q \in Procs, NEW p \in Plans,
              Gather(q, p) \/ Remove(q, p) \/ HandBack(q, p) \/ Answer(q, p)
       PROVE  Spares
  <2>1. CASE Gather(q, p)
    BY <1>3, <2>1 DEF Gather
  <2>2. CASE Answer(q, p)
    BY <2>2 DEF Answer, filesVars
  <2>3. CASE HandBack(q, p)
    BY <2>3 DEF HandBack, Held, With, Less
  <2>4. CASE Remove(q, p)
    BY <2>4 DEF Remove, Less
  <2> QED
    BY <1>11, <2>1, <2>2, <2>3, <2>4
<1>12. ASSUME NEW q \in Procs,
              \/ Save(q) \/ Fallback(q) \/ GatherRefused(q) \/ ClaimAnswered(q) \/ Check(q)
              \/ Recompute(q) \/ Judge(q) \/ SnapshotFails(q) \/ NotSent(q) \/ SendIt(q) \/ Crash(q)
              \/ Unanswered(q)
       PROVE  Spares
  BY <1>6, <1>7, <1>8, <1>12
<1> HIDE DEF Spares
<1>13. Spares
  BY <1>1, <1>2, <1>9, <1>10, <1>11, <1>12 DEF Next
<1> QED
  BY <1>13 DEF Spares

\* Pruning takes only what is too old, or makes room; and the claim under a running
\* apply is only ever taken when its plan has expired.
THEOREM PruningIsSafe == Spec => NothingUsableIsPruned
<1> DEFINE Spared ==
      \A p \in Plans :
        /\ (p \in DOMAIN open /\ p \notin DOMAIN open' \cup DOMAIN claims' /\ Unexpired(p))
             => Cardinality(DOMAIN open) >= MaxFiles
        /\ (p \in DOMAIN claims /\ p \notin DOMAIN open' \cup DOMAIN claims' /\ Unexpired(p))
             => \E q \in Procs : p \in proc[q].held /\ proc[q].at = "finishing"
<1>1. ASSUME PlanInv, [Next]_vars PROVE Spared
  <2>1. CASE Prune
    BY <1>1, <2>1, PruningSpares
  <2>2. CASE ~Prune
    BY <1>1, <2>2, OnlyDraftsPrune
  <2> QED
    BY <2>1, <2>2
<1>2. PlanInv /\ [Next]_vars => [Spared]_vars
  BY <1>1
<1> QED
  BY <1>2, PlanInvariant, PTL DEF Spec, NothingUsableIsPruned

-----------------------------------------------------------------------------
(* The plan files implement OneShotPlan.  A rename onto a claim is the     *)
(* abstract taking, a rename back the handing back, and whatever else ends *)
(* a plan (a removed or pruned file, a failed write, a killed process)     *)
(* drops it.  PlanInv makes the places a plan can be in exclude each       *)
(* other, so that Status is where it is, and says that what was sent is    *)
(* over.                                                                   *)

Taken(p) == \E q \in Procs : p \in proc[q].held

Unmade(p) == made[p] = NoPlan \/ Making(p)

Done == {p \in Plans : sent[p] > 0}

\* The status of a plan, case by case.
LEMMA StatusOf ==
  ASSUME NEW p \in Plans
  PROVE  Status[p] = IF p \in DOMAIN open THEN "offered"
                     ELSE IF Taken(p) THEN "taken" ELSE IF Unmade(p) THEN "none" ELSE "spent"
BY DEF Status, Taken, Unmade, Making

LEMMA StatusOfNext ==
  ASSUME NEW p \in Plans
  PROVE  Status'[p] = IF p \in DOMAIN open' THEN "offered"
                      ELSE IF Taken(p)' THEN "taken" ELSE IF Unmade(p)' THEN "none" ELSE "spent"
BY DEF Status, Taken, Unmade, Making

\* A step that puts the plans S somewhere and leaves the others where they are.
LEMMA Puts ==
  ASSUME NEW S, NEW s, \A x \in Plans : Status'[x] = IF x \in S THEN s ELSE Status[x]
  PROVE  OneShot!Put(S, s)
BY DEF OneShot!Put, Status

\* Where each plan is, by PlanInv.
LEMMA Places ==
  ASSUME PlanInv, NEW p \in Plans
  PROVE  /\ Making(p) => made[p] # NoPlan /\ p \notin DOMAIN open /\ ~Taken(p)
         /\ p \in DOMAIN open \/ Taken(p) => made[p] # NoPlan
         /\ Taken(p) => p \notin DOMAIN open
         /\ sent[p] \in {0, 1} /\ (sent[p] = 1 => Over(p))
BY DEF PlanInv, Maker, Making, OnlyBorn, OnePlace, Born, Taken, SentOnce

\* q goes on with what it holds, and makes no plan before or after.
Stays(q) ==
  /\ proc' = [proc EXCEPT ![q] = proc'[q]] /\ proc'[q].held = proc[q].held
  /\ proc[q].at # "saving" /\ proc'[q].at # "saving"
  /\ UNCHANGED <<made, open>>

LEMMA StayingIsStatus ==
  ASSUME PlanInv, NEW q \in Procs, Stays(q)
  PROVE  Status' = Status
<1>1. \A r \in Procs : r # q => proc'[r] = proc[r]
  BY DEF Stays, PlanInv, PlanTypeOK
<1>2. ASSUME NEW x \in Plans PROVE Status'[x] = Status[x]
  <2>1. Taken(x)' = Taken(x) /\ Unmade(x)' = Unmade(x)
    BY <1>1 DEF Stays, Taken, Unmade, Making
  <2> QED
    BY <2>1, StatusOf, StatusOfNext DEF Stays
<1> QED
  BY <1>2 DEF Status

LEMMA TakingIsTake ==
  ASSUME PlanInv, NEW q \in Procs, NEW p \in Plans, Take(q, p),
         proc' = [proc EXCEPT ![q] = proc'[q]], proc'[q].held = proc[q].held \cup {p},
         proc[q].at # "saving", proc'[q].at # "saving", UNCHANGED <<made, sent>>
  PROVE  OneShot!Take(p)
<1>1. /\ p \in DOMAIN open /\ DOMAIN open' = DOMAIN open \ {p}
      /\ \A r \in Procs : r # q => proc'[r] = proc[r]
  BY DEF Take, Less, PlanInv, PlanTypeOK
<1>2. ASSUME NEW x \in Plans PROVE Status'[x] = IF x \in {p} THEN "taken" ELSE Status[x]
  <2>1. CASE x = p
    BY <1>1, <2>1, StatusOfNext DEF Taken
  <2>2. CASE x # p
    <3>1. (x \in DOMAIN open' <=> x \in DOMAIN open) /\ (Taken(x)' <=> Taken(x))
      BY <1>1, <2>2 DEF Taken
    <3>2. Unmade(x)' <=> Unmade(x)
      BY <1>1 DEF Unmade, Making
    <3> QED
      BY <2>2, <3>1, <3>2, StatusOf, StatusOfNext
  <2> QED
    BY <2>1, <2>2
<1>3. Status[p] = "offered"
  BY <1>1, StatusOf
<1> QED
  BY <1>2, <1>3, Puts DEF OneShot!Take

\* A draft clears away what pruning takes; the new plan is not offered yet.
LEMMA DraftingIsDrop ==
  ASSUME PlanInv, NEW q \in Procs, NEW p \in Plans, NEW ask, NEW basis, NEW from, NEW file,
         Draft(q, p, ask, basis, from, file), proc[q].at # "saving", UNCHANGED sent
  PROVE  OneShot!Drop(DOMAIN open \ DOMAIN open')
<1>1. /\ made[p] = NoPlan /\ \A x \in Plans : x # p => made'[x] = made[x]
      /\ \A r \in Procs : r # q => proc'[r] = proc[r]
      /\ proc'[q].at = "saving" /\ proc'[q].fresh = p /\ proc'[q].held = proc[q].held
  BY DEF Draft, PlanInv, PlanTypeOK, Process
<1>2. DOMAIN open' \subseteq DOMAIN open
  BY DEF Draft, Prune, Survivors, Young
<1>3. ASSUME NEW x \in Plans
      PROVE  Status'[x] = IF x \in DOMAIN open \ DOMAIN open' THEN "spent" ELSE Status[x]
  <2>1. Taken(x)' <=> Taken(x)
    BY <1>1 DEF Taken
  <2>2. Unmade(x)' <=> Unmade(x)
    BY <1>1 DEF Unmade, Making
  <2>3. CASE x \in DOMAIN open \ DOMAIN open'
    <3>1. ~Taken(x) /\ ~Unmade(x)
      BY <2>3, Places DEF Unmade
    <3> QED
      BY <2>1, <2>2, <2>3, <3>1, StatusOfNext
  <2>4. CASE x \notin DOMAIN open \ DOMAIN open'
    BY <1>2, <2>1, <2>2, <2>4, StatusOf, StatusOfNext
  <2> QED
    BY <2>3, <2>4
<1> QED
  BY <1>3, Puts DEF OneShot!Drop

\* q is through with saving: it holds what it held, or is idle with nothing.
LEMMA Settled ==
  ASSUME PlanInv, NEW q \in Procs, NEW stage \in {"finishing", "returning"}, Settle(q, stage)
  PROVE  /\ proc'[q].held = proc[q].held /\ proc'[q].at # "saving"
         /\ \A r \in Procs : r # q => proc'[r] = proc[r]
BY IdleTyped DEF Settle, PlanInv, PlanTypeOK, Process

LEMMA SavingRefines ==
  ASSUME PlanInv, NEW q \in Procs, Save(q)
  PROVE  OneShot!Next
<1> PICK p : p = proc[q].fresh
  OBVIOUS
<1>1. /\ p \in Plans /\ Making(p) /\ proc[q].at = "saving"
      /\ \A r \in Procs \ {q} : ~(proc[r].at = "saving" /\ proc[r].fresh = p)
  BY DEF Save, PlanInv, Maker, Making, Born
<1>2. /\ proc'[q].held = proc[q].held /\ proc'[q].at # "saving"
      /\ \A r \in Procs : r # q => proc'[r] = proc[r]
  BY Settled DEF Save
<1>3. UNCHANGED <<made, sent>>
  BY DEF Save, history
<1>4. Status[p] = "none" /\ p \notin DOMAIN open /\ ~Taken(p)
  BY <1>1, Places, StatusOf DEF Unmade
<1>5. \A x \in Plans : (Taken(x)' <=> Taken(x)) /\ (x # p => (Unmade(x)' <=> Unmade(x)))
  BY <1>1, <1>2, <1>3 DEF Taken, Unmade, Making
<1>6. ~Unmade(p)'
  BY <1>1, <1>2, <1>3, Places DEF Unmade, Making
<1>7. CASE DOMAIN open' = DOMAIN open \cup {p}
  <2>1. \A x \in Plans : Status'[x] = IF x \in {p} THEN "offered" ELSE Status[x]
    BY <1>1, <1>5, <1>7, StatusOf, StatusOfNext
  <2>2. OneShot!Offer(p)
    BY <1>1, <1>3, <1>4, <2>1, Puts DEF OneShot!Offer
  <2> QED
    BY <1>1, <2>2 DEF OneShot!Next
<1>8. CASE open' = open
  <2>1. \A x \in Plans : Status'[x] = IF x \in {p} THEN "spent" ELSE Status[x]
    BY <1>1, <1>4, <1>5, <1>6, <1>8, StatusOf, StatusOfNext
  <2>2. OneShot!Drop({p})
    BY <1>3, <2>1, Puts DEF OneShot!Drop
  <2> QED
    BY <1>1, <2>2 DEF OneShot!Next
<1> QED
  BY <1>7, <1>8 DEF Save, With

\* A claim is removed or handed back; a claim that was pruned leaves no file.
LEMMA LettingGoRefines ==
  ASSUME PlanInv, NEW q \in Procs, NEW p \in Plans, Remove(q, p) \/ HandBack(q, p)
  PROVE  OneShot!Next
<1>1. /\ p \in proc[q].held /\ proc[q].at \in {"returning", "finishing"} /\ Taken(p)
      /\ UNCHANGED <<made, sent>> /\ Drop(q, p)
  BY DEF Remove, HandBack, history, Taken
<1>2. /\ proc'[q].held = proc[q].held \ {p} /\ proc'[q].at # "saving"
      /\ \A r \in Procs : r # q => proc'[r] = proc[r]
  <2>1. proc \in [Procs -> Process] /\ proc[q] \in Process
    BY DEF PlanInv, PlanTypeOK
  <2> QED
    BY <1>1, <2>1, IdleTyped DEF Drop, Process
<1>3. \A r \in Procs : r # q => p \notin proc[r].held
  BY <1>1 DEF PlanInv, PlanTypeOK
<1>4. ~Taken(p)' /\ \A x \in Plans : x # p => (Taken(x)' <=> Taken(x))
  BY <1>2, <1>3 DEF Taken
<1>5. \A x \in Plans : Unmade(x)' <=> Unmade(x)
  BY <1>1, <1>2 DEF Unmade, Making
<1>6. p \notin DOMAIN open /\ ~Unmade(p) /\ Status[p] = "taken"
  BY <1>1, Places, StatusOf DEF Unmade
<1>7. CASE open' = open
  <2>1. \A x \in Plans : Status'[x] = IF x \in {p} THEN "spent" ELSE Status[x]
    BY <1>4, <1>5, <1>6, <1>7, StatusOf, StatusOfNext
  <2>2. OneShot!Drop({p})
    BY <1>1, <2>1, Puts DEF OneShot!Drop
  <2> QED
    BY <2>2 DEF OneShot!Next
<1>8. CASE HandBack(q, p) /\ DOMAIN open' = DOMAIN open \cup {p}
  <2>1. \A x \in Plans : Status'[x] = IF x \in {p} THEN "offered" ELSE Status[x]
    BY <1>4, <1>5, <1>8, StatusOf, StatusOfNext
  <2>2. ~Over(p)
    BY <1>1, <1>8 DEF HandBack, Over, Usable
  <2>3. ~(sent[p] > 0)
    BY <2>2, Places
  <2>4. OneShot!HandBack(p)
    BY <1>1, <1>6, <2>1, <2>3, Puts DEF OneShot!HandBack
  <2> QED
    BY <2>4 DEF OneShot!Next
<1> QED
  BY <1>7, <1>8 DEF Remove, HandBack, With

LEMMA SendingRefines ==
  ASSUME PlanInv, NEW q \in Procs, SendIt(q)
  PROVE  OneShot!Next
<1> PICK p : p = proc[q].plan
  OBVIOUS
<1>1. proc[q].at = "approved" /\ Stands(q) /\ proc \in [Procs -> Process] /\ sent \in [Plans -> Nat]
  BY DEF SendIt, PlanInv, PlanTypeOK
<1>2. p \in Plans /\ proc[q].held = {p} /\ Taken(p)
  BY <1>1 DEF Stands, Born, Taken
<1>3. sent[p] = 0
  <2>1. ~Over(p)
    BY <1>1, <1>2 DEF Over, Usable
  <2> QED
    BY <1>2, <2>1, Places
<1>4. sent' = [sent EXCEPT ![p] = @ + 1] /\ Stays(q)
  BY <1>1 DEF SendIt, AfterSend, Consume, Goto, filesVars, Stays, Process
<1>5. {x \in Plans : sent'[x] > 0} = {x \in Plans : sent[x] > 0} \cup {p}
  BY <1>1, <1>2, <1>3, <1>4
<1>6. Status[p] = "taken" /\ Status' = Status
  BY <1>2, <1>4, Places, StatusOf, StayingIsStatus
<1>7. OneShot!Carry(p)
  BY <1>2, <1>3, <1>5, <1>6 DEF OneShot!Carry
<1> QED
  BY <1>2, <1>7 DEF OneShot!Next

\* A killed process leaves claims nobody applies, and a plan nobody saves.
LEMMA CrashRefines ==
  ASSUME PlanInv, NEW q \in Procs, Crash(q)
  PROVE  OneShot!Next
<1> DEFINE Lost == {x \in Plans : \/ x \in proc[q].held
                                  \/ proc[q].at = "saving" /\ proc[q].fresh = x}
<1>1. /\ proc'[q].held = {} /\ proc'[q].at # "saving"
      /\ \A r \in Procs : r # q => proc'[r] = proc[r]
      /\ UNCHANGED <<made, open, sent>>
  BY IdleTyped DEF Crash, history, PlanInv, PlanTypeOK
<1>2. ASSUME NEW x \in Plans
      PROVE  Status'[x] = IF x \in Lost THEN "spent" ELSE Status[x]
  <2>1. CASE x \in proc[q].held
    <3>1. ~Taken(x)'
      BY <1>1, <2>1 DEF Taken, PlanInv, PlanTypeOK
    <3>2. x \notin DOMAIN open /\ ~Unmade(x)
      BY <2>1, Places DEF Taken, Unmade
    <3>3. ~Unmade(x)'
      BY <1>1, <3>2 DEF Unmade, Making
    <3> QED
      BY <1>1, <2>1, <3>1, <3>2, <3>3, StatusOfNext
  <2>2. CASE proc[q].at = "saving" /\ proc[q].fresh = x
    <3>1. /\ Making(x) /\ x \notin DOMAIN open /\ ~Taken(x) /\ made[x] # NoPlan
          /\ \A r \in Procs \ {q} : ~(proc[r].at = "saving" /\ proc[r].fresh = x)
      BY <2>2, Places DEF PlanInv, Maker, Making
    <3>2. ~Taken(x)' /\ ~Unmade(x)'
      BY <1>1, <3>1 DEF Taken, Unmade, Making
    <3> QED
      BY <1>1, <2>2, <3>1, <3>2, StatusOfNext
  <2>3. CASE x \notin Lost
    <3>1. (Taken(x)' <=> Taken(x)) /\ (Unmade(x)' <=> Unmade(x))
      BY <1>1, <2>3 DEF Taken, Unmade, Making
    <3> QED
      BY <1>1, <2>3, <3>1, StatusOf, StatusOfNext
  <2> QED
    BY <2>1, <2>2, <2>3
<1>3. OneShot!Drop(Lost)
  BY <1>1, <1>2, Puts DEF OneShot!Drop
<1> QED
  BY <1>3 DEF OneShot!Next

\* Every other operation leaves each plan where it is, or takes one, or drafts one.
LEMMA DraftsRefine ==
  ASSUME PlanInv, NEW q \in Procs, NEW p \in Plans, NEW ask \in Asks,
         MakePlan(q, p, ask) \/ Replace(q, p, ask) \/ Batch(q, p, ask) \/ Redraft(q, p, ask)
  PROVE  OneShot!Next
<1>1. proc[q].at # "saving" /\ UNCHANGED sent
  BY DEF MakePlan, Replace, Batch, Redraft, history
<1>2. OneShot!Drop(DOMAIN open \ DOMAIN open')
  BY <1>1, DraftingIsDrop DEF MakePlan, Replace, Batch, Redraft
<1>3. DOMAIN open \ DOMAIN open' \in SUBSET Plans
  BY DEF PlanInv, PlanTypeOK
<1> QED
  BY <1>2, <1>3 DEF OneShot!Next

LEMMA TakesRefine ==
  ASSUME PlanInv, NEW q \in Procs, NEW p \in Plans
  PROVE  /\ Gather(q, p) => OneShot!Take(p)
         /\ Fallback(q) /\ p = proc[q].plan => OneShot!Take(p)
         /\ \A code \in Plans \cup {NoCode}, without \in BOOLEAN :
              Claim(q, p, code, without) => OneShot!Take(p)
         /\ ClaimAnswered(q) /\ p \in DOMAIN open /\ p = proc[q].plan => OneShot!Take(p)
<1>1. /\ proc \in [Procs -> Process] /\ proc[q] \in Process
      /\ (proc[q].at \in {"idle", "asking", "answered"} => proc[q].held = {})
  BY DEF PlanInv, PlanTypeOK, Stands
<1>2. CASE Gather(q, p)
  BY <1>1, <1>2, TakingIsTake DEF Gather, history, Process
<1>3. CASE Fallback(q) /\ p = proc[q].plan
  BY <1>1, <1>3, TakingIsTake DEF Fallback, FallbackClaim, history, Process
<1>4. ASSUME NEW code \in Plans \cup {NoCode}, NEW without \in BOOLEAN, Claim(q, p, code, without)
      PROVE  OneShot!Take(p)
  BY <1>1, <1>4, TakingIsTake DEF Claim, Claimed, history, Process
<1>5. CASE ClaimAnswered(q) /\ p \in DOMAIN open /\ p = proc[q].plan
  <2>1. Take(q, p) /\ proc' = [proc EXCEPT ![q] = Claimed(q, p)] /\ proc[q].at = "answered"
    BY <1>5 DEF ClaimAnswered
  <2>2. proc'[q] = Claimed(q, p) /\ UNCHANGED <<made, sent>>
    BY <1>1, <1>5, <2>1 DEF ClaimAnswered, history
  <2>3. proc'[q].at = "claimed" /\ proc'[q].held = proc[q].held \cup {p}
    BY <1>1, <2>1, <2>2 DEF Claimed, Process
  <2> QED
    BY <2>1, <2>2, <2>3, TakingIsTake
<1> QED
  BY <1>2, <1>3, <1>4, <1>5

LEMMA StepsAside ==
  ASSUME PlanInv, NEW q \in Procs,
         \/ Unanswered(q) \/ GatherRefused(q) \/ Check(q) \/ Recompute(q) \/ Judge(q)
         \/ SnapshotFails(q) \/ NotSent(q)
         \/ \E p \in Plans : Answer(q, p) \/ \E without \in BOOLEAN : Ask(q, p, without)
         \/ (ClaimAnswered(q) /\ proc[q].plan \notin DOMAIN open)
  PROVE  UNCHANGED <<Status, Done>>
<1>1. /\ proc \in [Procs -> Process] /\ proc[q] \in Process
      /\ (proc[q].at \in {"idle", "asking", "answered"} => proc[q].held = {})
  BY DEF PlanInv, PlanTypeOK, Stands
<1>2. ASSUME NEW stage, stage # "saving", proc[q].at # "saving", Goto(q, stage), made' = made, open' = open
      PROVE  Stays(q)
  BY <1>1, <1>2 DEF Goto, Stays, Process
<1>3. ASSUME GatherRefused(q) \/ NotSent(q) \/ SnapshotFails(q) PROVE Stays(q)
  <2>1. /\ proc[q].at # "saving" /\ made' = made /\ open' = open
        /\ Goto(q, "returning") \/ Goto(q, "finishing")
    BY <1>3 DEF GatherRefused, NotSent, SnapshotFails, Rewrite, Return, Consume, filesVars
  <2> QED
    BY <1>2, <2>1
<1>4. ASSUME Unanswered(q) \/ (ClaimAnswered(q) /\ proc[q].plan \notin DOMAIN open) PROVE Stays(q)
  <2>1. /\ proc[q].at \in {"asking", "answered"} /\ proc' = [proc EXCEPT ![q] = Idle]
        /\ made' = made /\ open' = open
    BY <1>4 DEF Unanswered, ClaimAnswered, Take, filesVars
  <2> QED
    BY <1>1, <2>1, IdleTyped DEF Stays
<1>5. ASSUME Check(q) PROVE Stays(q)
  <2>1. /\ proc[q].at # "saving" /\ made' = made /\ open' = open
        /\ \/ Goto(q, "returning") \/ Goto(q, "finishing")
           \/ \E f : proc' = [proc EXCEPT ![q].at = "checked", ![q].file = f]
    BY <1>5 DEF Check, Return, Consume, filesVars
  <2>2. ASSUME NEW f, proc' = [proc EXCEPT ![q].at = "checked", ![q].file = f] PROVE Stays(q)
    BY <1>1, <2>1, <2>2 DEF Stays, Process
  <2> QED
    BY <1>2, <2>1, <2>2
<1>6. ASSUME Recompute(q) PROVE Stays(q)
  <2>1. /\ proc[q].at # "saving" /\ made' = made /\ open' = open
        /\ \/ Goto(q, "returning") \/ Goto(q, "finishing")
           \/ \E stage \in {"confirmed", "drifted"} : proc' = [proc EXCEPT ![q].at = stage, ![q].saw = house]
    BY <1>6 DEF Recompute, Return, Consume, filesVars
  <2>2. ASSUME NEW stage \in {"confirmed", "drifted"}, proc' = [proc EXCEPT ![q].at = stage, ![q].saw = house]
        PROVE  Stays(q)
    BY <1>1, <2>1, <2>2 DEF Stays, Process
  <2> QED
    BY <1>2, <2>1, <2>2
<1>7. ASSUME Judge(q) PROVE Stays(q)
  <2>1. /\ proc[q].at # "saving" /\ made' = made /\ open' = open
        /\ Goto(q, "returning") \/ Goto(q, "finishing") \/ Goto(q, "approved")
    BY <1>7 DEF Judge, Mismatch, Rewrite, Return, Consume, filesVars
  <2> QED
    BY <1>2, <2>1
<1>8. ASSUME NEW p \in Plans, Answer(q, p) PROVE Stays(q)
  BY <1>1, <1>8 DEF Answer, filesVars, Stays, Process
<1>9. ASSUME NEW p \in Plans, NEW without \in BOOLEAN, Ask(q, p, without) PROVE Stays(q)
  BY <1>1, <1>9, IdleTyped DEF Ask, filesVars, Stays, Process, Idle
<1>10. UNCHANGED sent
  BY DEF Unanswered, GatherRefused, Check, Recompute, Judge, SnapshotFails, NotSent, Answer, Ask,
         ClaimAnswered, history
<1>11. Stays(q)
  BY <1>3, <1>4, <1>5, <1>6, <1>7, <1>8, <1>9
<1> QED
  BY <1>10, <1>11, StayingIsStatus DEF Done

LEMMA PlanStepRefines ==
  PlanInv /\ [Next]_vars => [OneShot!Next]_(OneShot!vars)
<1> SUFFICES ASSUME PlanInv, [Next]_vars PROVE OneShot!Next \/ UNCHANGED OneShot!vars
  OBVIOUS
<1>1. UNCHANGED <<Status, Done>> => UNCHANGED OneShot!vars
  BY DEF OneShot!vars, Done
<1>2. CASE UNCHANGED vars \/ Tick \/ HouseChanges
  BY <1>1, <1>2 DEF vars, filesVars, history, Tick, HouseChanges, Status, Done
<1>3. ASSUME NEW q \in Procs, NEW p \in Plans, NEW ask \in Asks,
             MakePlan(q, p, ask) \/ Replace(q, p, ask) \/ Batch(q, p, ask) \/ Redraft(q, p, ask)
      PROVE  OneShot!Next
  BY <1>3, DraftsRefine
<1>4. ASSUME NEW p \in Plans, OneShot!Take(p) PROVE OneShot!Next
  BY <1>4 DEF OneShot!Next
<1>5. ASSUME NEW q \in Procs, NEW p \in Plans, Gather(q, p) \/ Remove(q, p) \/ HandBack(q, p)
      PROVE  OneShot!Next
  BY <1>4, <1>5, TakesRefine, LettingGoRefines
<1>6. ASSUME NEW q \in Procs, NEW p \in Plans, NEW without \in BOOLEAN,
             NEW code \in Plans \cup {NoCode}, Claim(q, p, code, without)
      PROVE  OneShot!Next
  BY <1>4, <1>6, TakesRefine
<1>7. ASSUME NEW q \in Procs, Fallback(q) \/ (ClaimAnswered(q) /\ proc[q].plan \in DOMAIN open)
      PROVE  OneShot!Next
  <2>1. proc[q].plan \in Plans
    BY <1>7 DEF Fallback, PlanInv, PlanTypeOK, Stands, Born
  <2>2. PICK p \in Plans : p = proc[q].plan
    BY <2>1
  <2> QED
    BY <1>4, <1>7, <2>2, TakesRefine
<1>8. ASSUME NEW q \in Procs, Save(q) \/ SendIt(q) \/ Crash(q) PROVE OneShot!Next
  BY <1>8, SavingRefines, SendingRefines, CrashRefines
<1>9. ASSUME NEW q \in Procs,
             \/ Unanswered(q) \/ GatherRefused(q) \/ Check(q) \/ Recompute(q) \/ Judge(q)
             \/ SnapshotFails(q) \/ NotSent(q)
             \/ \E p \in Plans : Answer(q, p) \/ \E without \in BOOLEAN : Ask(q, p, without)
             \/ (ClaimAnswered(q) /\ proc[q].plan \notin DOMAIN open)
      PROVE  UNCHANGED OneShot!vars
  BY <1>1, <1>9, StepsAside
<1> QED
  BY <1>2, <1>3, <1>5, <1>6, <1>7, <1>8, <1>9 DEF Next

\* `ha-nova apply` keeps its promise about a plan for any number of plans and
\* processes: offered once, held by one, carried out at most once, and never
\* offered again after that.
THEOREM PlanImplementsOneShot == Spec => ImplementsOneShotPlan
<1>1. Init => OneShot!Init
  BY DEF Init, Idle, OneShot!Init, Status
<1>2. PlanInv /\ [Next]_vars => [OneShot!Next]_(OneShot!vars)
  BY PlanStepRefines
<1> QED
  BY <1>1, <1>2, PlanInvariant, PTL DEF Spec, ImplementsOneShotPlan, OneShot!Spec

-----------------------------------------------------------------------------
(* A plan is carried out once *)

PromiseInv == Promise!OneShotTypeOK /\ Promise!CarriedIsNotOffered

LEMMA PromiseNext == PromiseInv /\ [Promise!Next]_(Promise!vars) => PromiseInv'
<1> SUFFICES ASSUME PromiseInv, Promise!Next \/ UNCHANGED Promise!vars
             PROVE  PromiseInv'
  BY DEF Promise!vars
<1> USE DEF PromiseInv, Promise!OneShotTypeOK, Promise!CarriedIsNotOffered, Promise!Statuses,
            Promise!Put
<1>1. ASSUME NEW p \in Plans, Promise!Offer(p) \/ Promise!Take(p) \/ Promise!HandBack(p)
      PROVE  PromiseInv'
  BY <1>1 DEF Promise!Offer, Promise!Take, Promise!HandBack
<1>2. ASSUME NEW p \in Plans, Promise!Carry(p)
      PROVE  PromiseInv'
  BY <1>2 DEF Promise!Carry
<1>3. ASSUME NEW S \in SUBSET Plans, Promise!Drop(S)
      PROVE  PromiseInv'
  BY <1>3 DEF Promise!Drop
<1>4. CASE UNCHANGED Promise!vars
  BY <1>4 DEF Promise!vars
<1> QED
  BY <1>1, <1>2, <1>3, <1>4 DEF Promise!Next

\* A plan that was sent is never offered again: no second apply can send it.
THEOREM CarriedOnce == Promise!Spec => []Promise!CarriedIsNotOffered
<1>1. Promise!Init => PromiseInv
  BY DEF Promise!Init, PromiseInv, Promise!OneShotTypeOK, Promise!CarriedIsNotOffered,
         Promise!Statuses
<1>2. PromiseInv => Promise!CarriedIsNotOffered
  BY DEF PromiseInv
<1> QED
  BY <1>1, <1>2, PromiseNext, PTL DEF Promise!Spec

-----------------------------------------------------------------------------
(* A batch, member by member *)

LEMMA StepsRun == PartsSpec => Steps!Spec
<1>1. PartsInit => Steps!Init
  BY DEF PartsInit
<1>2. [PartsNext]_<<part, vars, steps>> => [Steps!Next]_(Steps!vars)
  BY DEF PartsNext, steps, Steps!vars
<1> QED
  BY <1>1, <1>2, PTL DEF PartsSpec, Steps!Spec

\* Up to the member at hand all are verified, from it on none was attempted; it
\* is sent while it is verified.
LedgerSoFar ==
  at # "over" =>
    /\ \A k \in Steps!Members : k < member => status[k] = "verified" /\ k \in taken
    /\ \A k \in Steps!Members : k >= member => status[k] = "not_attempted"
    /\ \A k \in Steps!Members : k >= member => (k \in taken <=> (k = member /\ at = "verifying"))

\* What the first member is checked against is what all were planned with.  Later
\* ones are checked against what is read anew: a config that somebody else had
\* changed by then still reads so, and no such config passes.
EditsSoFar ==
  /\ at \in {"planning", "copying"} => member = 1 /\ edited = {}
  /\ at = "checking" =>
       \A k \in edited : config[k] = "theirs" /\ (k \in DOMAIN memo => memo[k] = "theirs")
  /\ at = "sending" => Reads[member] \cap edited = {}

BatchInv == Steps!BatchTypeOK /\ LedgerSoFar /\ Steps!LedgerIsTrue /\ EditsSoFar

LEMMA BatchInit == ASSUME Steps!BatchAssumption, Steps!Init PROVE BatchInv
<1>1. 1 \in Steps!Members
  BY DEF Steps!BatchAssumption, Steps!Members
<1>2. \A k \in Steps!Members : k \in Nat /\ ~(k < 1)
  BY DEF Steps!Members, Steps!BatchAssumption
<1>3. Steps!BatchTypeOK
  BY <1>1 DEF Steps!Init, Steps!BatchTypeOK, Steps!Content, Steps!Fates
<1> QED
  BY <1>2, <1>3 DEF Steps!Init, BatchInv, LedgerSoFar, Steps!LedgerIsTrue, EditsSoFar

\* The steps before the first member is sent.
LEMMA PlanningKeeps ==
  ASSUME Steps!BatchAssumption, BatchInv,
         Steps!Replan \/ Steps!ReplanFails \/ Steps!Copied
           \/ \E k \in Steps!Members : Steps!SaveCopy(k)
  PROVE  BatchInv'
<1>1. /\ at \in {"planning", "copying"} /\ member = 1 /\ edited = {}
      /\ UNCHANGED <<config, memo, member, written, status, taken, edited>>
      /\ at' \in {"planning", "copying", "sending", "over"} /\ plan' \in {"held", "back", "used"}
      /\ copies' \subseteq Deletes
  BY DEF Steps!Replan, Steps!ReplanFails, Steps!Copied, Steps!SaveCopy, Steps!Over, BatchInv,
    Steps!BatchTypeOK, EditsSoFar
<1>2. \A k \in Steps!Members : status[k] = "not_attempted" /\ k \notin taken
  <2>1. \A k \in Steps!Members : k >= 1
    BY DEF Steps!Members, Steps!BatchAssumption
  <2> QED
    BY <1>1, <2>1 DEF BatchInv, LedgerSoFar
<1>3. Steps!BatchTypeOK'
  BY <1>1 DEF BatchInv, Steps!BatchTypeOK
<1>4. taken = {}
  BY <1>2 DEF BatchInv, Steps!BatchTypeOK
<1>5. LedgerSoFar' /\ Steps!LedgerIsTrue'
  <2>1. \A k \in Steps!Members : ~(k < 1)
    BY DEF Steps!Members, Steps!BatchAssumption
  <2> QED
    BY <1>1, <1>2, <1>4, <2>1 DEF LedgerSoFar, Steps!LedgerIsTrue
<1>6. EditsSoFar'
  BY <1>1 DEF EditsSoFar
<1> QED
  BY <1>3, <1>5, <1>6 DEF BatchInv

\* The batch ends at a member that is not verified; it may have been sent only
\* where the fate leaves that open.
LEMMA StopKeeps ==
  ASSUME Steps!BatchAssumption, BatchInv, at # "over", NEW fate \in Steps!Fates \ {"verified"},
           Steps!Stop(fate),
         fate \notin {"unverified", "unknown"} => member \notin taken',
         config' \in [Steps!Members -> Steps!Content],
         taken' \in {taken, taken \cup {member}}, UNCHANGED <<memo, member, copies, written,
           edited>>
  PROVE  BatchInv'
<1>1. at' = "over" /\ plan' = "used" /\ status' = [status EXCEPT ![member] = fate]
  BY DEF Steps!Stop, Steps!Over
<1>2. member \in Steps!Members /\ status \in [Steps!Members -> Steps!Fates \cup {"not_attempted"}]
  BY DEF BatchInv, Steps!BatchTypeOK
<1>3. Steps!BatchTypeOK'
  BY <1>1, <1>2 DEF BatchInv, Steps!BatchTypeOK
<1>4. \A k \in Steps!Members :
        k # member => (status'[k] = "verified" => k \in taken)
                      /\ (status'[k] # "verified" => k \notin taken)
  <2>1. \A k \in Steps!Members : k < member \/ k >= member
    BY <1>2 DEF Steps!Members, Steps!BatchAssumption
  <2> QED
    BY <1>1, <1>2, <2>1 DEF BatchInv, LedgerSoFar
<1>5. Steps!LedgerIsTrue'
  BY <1>1, <1>2, <1>4 DEF Steps!LedgerIsTrue
<1> QED
  BY <1>1, <1>3, <1>5 DEF BatchInv, LedgerSoFar, EditsSoFar

\* Every way a member stops the batch, and the hand-back before the first send.
LEMMA StopsKeep ==
  ASSUME Steps!BatchAssumption, BatchInv,
         \/ Steps!RecheckFails \/ Steps!NothingSent \/ Steps!Rejected \/ Steps!Unclear
         \/ Steps!Recheck /\ at' = "over"
         \/ Steps!Verify /\ Steps!Stop("unverified") /\ UNCHANGED <<memo, member, written, edited>>
  PROVE  BatchInv'
<1>t. member \in Steps!Members /\ config \in [Steps!Members -> Steps!Content]
        /\ taken \subseteq Steps!Members
  BY DEF BatchInv, Steps!BatchTypeOK
<1>s. at # "over" => \A k \in Steps!Members : k >= member
        => (k \in taken <=> (k = member /\ at = "verifying"))
  BY DEF BatchInv, LedgerSoFar
<1>n. at \in {"checking", "sending"} => member \notin taken
  <2>1. member >= member
    BY <1>t DEF Steps!Members
  <2> QED
    BY <1>t, <1>s, <2>1
<1>1. CASE Steps!RecheckFails \/ Steps!Rejected \/ (Steps!Recheck /\ at' = "over")
  BY <1>1, <1>t, <1>n, StopKeeps DEF Steps!RecheckFails, Steps!Rejected, Steps!Recheck, Steps!Fates
<1>2. CASE Steps!Unclear
  <2>1. PICK fate \in {"unverified", "unknown"} : Steps!Stop(fate)
    BY <1>2 DEF Steps!Unclear
  <2>2. config' \in [Steps!Members -> Steps!Content] /\ taken' \in {taken, taken \cup {member}}
    BY <1>2, <1>t DEF Steps!Unclear, Steps!Write, Steps!Content
  <2> QED
    BY <1>2, <2>1, <2>2, StopKeeps DEF Steps!Unclear, Steps!Fates
<1>3. CASE Steps!Verify /\ Steps!Stop("unverified") /\ UNCHANGED <<memo, member, written, edited>>
  BY <1>3, <1>t, StopKeeps DEF Steps!Verify, Steps!Fates
<1>4. CASE Steps!NothingSent /\ member # 1
  BY <1>4, <1>t, <1>n, StopKeeps DEF Steps!NothingSent, Steps!NothingSentYet, Steps!Fates
<1>5. CASE Steps!NothingSent /\ member = 1
  <2>1. /\ at = "sending" /\ at' = "over" /\ plan' = "back"
        /\ UNCHANGED <<config, memo, member, copies, written, status, taken, edited>>
    BY <1>5 DEF Steps!NothingSent, Steps!NothingSentYet, Steps!Over
  <2>2. \A k \in Steps!Members : k >= 1
    BY DEF Steps!Members
  <2>3. \A k \in Steps!Members : status[k] = "not_attempted" /\ k \notin taken
    BY <1>5, <2>1, <2>2 DEF BatchInv, LedgerSoFar
  <2> QED
    BY <1>t, <2>1, <2>3 DEF BatchInv, Steps!BatchTypeOK, LedgerSoFar, Steps!LedgerIsTrue, EditsSoFar
<1> QED
  BY <1>1, <1>2, <1>3, <1>4, <1>5

LEMMA VerifiedKeeps ==
  ASSUME Steps!BatchAssumption, BatchInv, at = "verifying",
         status' = [status EXCEPT ![member] = "verified"],
         written' \in {written, written \cup {member}}, member \in Deletes => written' = written,
         \/ member = Size /\ Steps!Over("used") /\ UNCHANGED <<memo, member, edited>>
         \/ member # Size /\ at' = "checking" /\ member' = member + 1 /\ Steps!Forget
              /\ edited' = Steps!Theirs /\ UNCHANGED plan,
         UNCHANGED <<config, copies, taken>>
  PROVE  BatchInv'
<1>t. member \in Steps!Members /\ member \in Nat /\ Size \in Nat /\ member <= Size
      /\ status \in [Steps!Members -> Steps!Fates \cup {"not_attempted"}]
  BY DEF BatchInv, Steps!BatchTypeOK, Steps!Members, Steps!BatchAssumption
<1>s. /\ \A k \in Steps!Members : k < member => status[k] = "verified" /\ k \in taken
      /\ \A k \in Steps!Members : k >= member => status[k] = "not_attempted"
      /\ \A k \in Steps!Members : k >= member => (k \in taken <=> k = member)
  BY DEF BatchInv, LedgerSoFar
<1>v. status'[member] = "verified" /\ member \in taken /\ \A k \in Steps!Members : k # member
        => status'[k] = status[k]
  BY <1>t, <1>s
<1>w. written' \subseteq Steps!Members \ Deletes
  BY <1>t DEF BatchInv, Steps!BatchTypeOK
<1>k. \A k \in Steps!Members : k \in Nat /\ (k < member \/ k = member \/ k > member)
  BY <1>t DEF Steps!Members
<1>1. CASE member = Size
  <2>1. at' = "over" /\ plan' = "used" /\ UNCHANGED <<memo, member, edited, config, copies, taken>>
    BY <1>1 DEF Steps!Over
  <2>2. Steps!BatchTypeOK'
    BY <1>t, <1>w, <2>1 DEF BatchInv, Steps!BatchTypeOK, Steps!Fates
  <2>3. Steps!LedgerIsTrue'
    <3>1. \A k \in Steps!Members : k < member \/ k = member
      BY <1>1, <1>t DEF Steps!Members
    <3> QED
      BY <1>s, <1>v, <2>1, <3>1 DEF Steps!LedgerIsTrue
  <2> QED
    BY <2>1, <2>2, <2>3 DEF BatchInv, LedgerSoFar, EditsSoFar
<1>2. CASE member # Size
  <2>1. at' = "checking" /\ member' = member + 1 /\ member' \in Steps!Members
          /\ memo' = [k \in {} |-> "previewed"]
        /\ edited' = Steps!Theirs /\ UNCHANGED <<plan, config, copies, taken>>
    BY <1>2, <1>t DEF Steps!Forget, Steps!Members
  <2>2. Steps!BatchTypeOK'
    BY <1>t, <1>w, <2>1 DEF BatchInv, Steps!BatchTypeOK, Steps!Fates, Steps!Theirs
  <2>3. LedgerSoFar'
    <3> SUFFICES ASSUME NEW k \in Steps!Members
                 PROVE  /\ k < member' => status'[k] = "verified" /\ k \in taken'
                        /\ k >= member' => status'[k] = "not_attempted" /\ k \notin taken'
      BY <2>1 DEF LedgerSoFar
    <3>1. (k < member' => k < member \/ k = member) /\ (k >= member' => k >= member /\ k # member)
      BY <1>t, <1>k, <2>1
    <3> QED
      BY <1>s, <1>v, <2>1, <3>1
  <2>4. EditsSoFar'
    BY <2>1 DEF EditsSoFar, Steps!Theirs
  <2> QED
    BY <2>1, <2>2, <2>3, <2>4 DEF BatchInv, Steps!LedgerIsTrue
<1> QED
  BY <1>1, <1>2

LEMMA SendKeeps ==
  ASSUME Steps!BatchAssumption, BatchInv, Steps!Send
  PROVE  BatchInv'
<1>1. /\ at = "sending" /\ at' = "verifying" /\ taken' = taken \cup {member}
           /\ member \in Steps!Members
      /\ config' = [config EXCEPT ![member] = "ours"]
      /\ UNCHANGED <<memo, member, copies, written, status, plan, edited>>
  BY DEF Steps!Send, Steps!Write, BatchInv, Steps!BatchTypeOK
<1>2. Steps!BatchTypeOK'
  BY <1>1 DEF BatchInv, Steps!BatchTypeOK, Steps!Content
<1>3. LedgerSoFar'
  <2>1. \A k \in Steps!Members : k < member => k # member
    BY <1>1 DEF Steps!Members
  <2>2. member >= member
    BY <1>1 DEF Steps!Members
  <2> QED
    BY <1>1, <2>1, <2>2 DEF BatchInv, LedgerSoFar
<1> QED
  BY <1>1, <1>2, <1>3 DEF BatchInv, Steps!LedgerIsTrue, EditsSoFar

\* The check before a send, reads and edits.
LEMMA CheckKeeps ==
  ASSUME Steps!BatchAssumption, BatchInv,
         \/ Steps!Recheck /\ at' = "sending"
         \/ \E k \in Steps!Members : Steps!Edit(k) \/ (Steps!Read(k)
              /\ at \in {"planning", "checking"})
  PROVE  BatchInv'
<1>t. member \in Steps!Members /\ Reads[member] \subseteq Steps!Members
  BY DEF BatchInv, Steps!BatchTypeOK, Steps!BatchAssumption
<1>1. CASE Steps!Recheck /\ at' = "sending"
  <2>1. /\ at = "checking" /\ at' = "sending" /\ Reads[member] \subseteq DOMAIN memo
        /\ \A k \in Reads[member] : Steps!Excused(k)
        /\ UNCHANGED <<config, memo, member, copies, written, status, plan, taken, edited>>
    BY <1>1 DEF Steps!Recheck, Steps!Stop, Steps!Over
  <2>2. Reads[member] \cap edited = {}
    BY <2>1 DEF BatchInv, EditsSoFar, Steps!Excused
  <2> QED
    BY <2>1, <2>2 DEF BatchInv, Steps!BatchTypeOK, LedgerSoFar, Steps!LedgerIsTrue, EditsSoFar
<1>2. ASSUME NEW k \in Steps!Members, Steps!Edit(k) PROVE BatchInv'
  <2>1. /\ config' = [config EXCEPT ![k] = "theirs"]
        /\ UNCHANGED <<memo, at, member, copies, written, status, plan, taken, edited>>
    BY <1>2 DEF Steps!Edit
  <2>2. Steps!BatchTypeOK' /\ \A x \in Steps!Members : config[x] = "theirs" => config'[x] = "theirs"
    BY <2>1 DEF BatchInv, Steps!BatchTypeOK, Steps!Content
  <2>3. EditsSoFar'
    BY <2>1, <2>2 DEF BatchInv, EditsSoFar, Steps!BatchTypeOK
  <2> QED
    BY <2>1, <2>2, <2>3 DEF BatchInv, LedgerSoFar, Steps!LedgerIsTrue
<1>3. ASSUME NEW k \in Steps!Members, Steps!Read(k), at \in {"planning", "checking"} PROVE BatchInv'
  <2>1. /\ k \notin DOMAIN memo /\ DOMAIN memo' = DOMAIN memo \cup {k} /\ memo'[k] = config[k]
        /\ \A x \in DOMAIN memo : memo'[x] = memo[x]
        /\ memo' = [x \in DOMAIN memo' |-> memo'[x]]
        /\ UNCHANGED <<config, at, member, copies, written, status, plan, taken, edited>>
    BY <1>3 DEF Steps!Read
  <2>2. Steps!BatchTypeOK'
    <3>1. memo' \in [DOMAIN memo' -> Steps!Content]
      BY <2>1 DEF BatchInv, Steps!BatchTypeOK
    <3> QED
      BY <2>1, <3>1 DEF BatchInv, Steps!BatchTypeOK
  <2> QED
    BY <2>1, <2>2 DEF BatchInv, LedgerSoFar, Steps!LedgerIsTrue, EditsSoFar
<1> QED
  BY <1>1, <1>2, <1>3

LEMMA BatchNext == ASSUME Steps!BatchAssumption, BatchInv, [Steps!Next]_(Steps!vars) PROVE BatchInv'
<1>1. CASE Steps!Replan \/ Steps!ReplanFails \/ Steps!Copied
             \/ \E k \in Steps!Members : Steps!SaveCopy(k)
  BY <1>1, PlanningKeeps
<1>2. CASE Steps!RecheckFails \/ Steps!NothingSent \/ Steps!Rejected \/ Steps!Unclear
  BY <1>2, StopsKeep
<1>3. CASE Steps!Recheck
  <2>1. at' \in {"sending", "over"}
    BY <1>3 DEF Steps!Recheck, Steps!Stop, Steps!Over
  <2> QED
    BY <1>3, <2>1, StopsKeep, CheckKeeps
<1>4. CASE Steps!Verify
  <2>1. CASE Steps!Stop("unverified") /\ UNCHANGED <<memo, member, written, edited>>
    BY <1>4, <2>1, StopsKeep
  <2>2. CASE ~(Steps!Stop("unverified") /\ UNCHANGED <<memo, member, written, edited>>)
    BY <1>4, <2>2, VerifiedKeeps DEF Steps!Verify
  <2> QED
    BY <2>1, <2>2
<1>5. CASE Steps!Send
  BY <1>5, SendKeeps
<1>6. CASE \E k \in Steps!Members : Steps!Edit(k) \/ (Steps!Read(k)
             /\ (at = "planning" \/ (at = "checking" /\ k \in Reads[member])))
  BY <1>6, CheckKeeps
<1>7. CASE UNCHANGED Steps!vars
  BY <1>7 DEF Steps!vars, BatchInv, Steps!BatchTypeOK, LedgerSoFar, Steps!LedgerIsTrue, EditsSoFar,
    Steps!Content
<1> QED
  BY <1>1, <1>2, <1>3, <1>4, <1>5, <1>6, <1>7 DEF Steps!Next

\* For a batch of any size: the ledger that the apply prints says of no member that
\* it was written or left alone when it was not, and a batch that is handed back
\* wrote nothing (batchStopped).
THEOREM LedgersAreTrue == PartsSpec => []LedgerIsTrue
<1>1. Steps!Init => BatchInv
  BY StepsAssumption, BatchInit
<1>2. BatchInv /\ [Steps!Next]_(Steps!vars) => BatchInv'
  BY StepsAssumption, BatchNext
<1>3. BatchInv => LedgerIsTrue
  BY DEF BatchInv, LedgerIsTrue
<1> QED
  BY <1>1, <1>2, <1>3, StepsRun, PTL DEF Steps!Spec

\* No member is sent over a config it rests on that somebody else had changed when
\* its check began, whatever changes later (excusedByBatch, forgetReads).
THEOREM EditsStopTheBatch == PartsSpec => EditsAreSeen
<1>1. Steps!Init => BatchInv
  BY StepsAssumption, BatchInit
<1>2. BatchInv /\ [Steps!Next]_(Steps!vars) => BatchInv'
  BY StepsAssumption, BatchNext
<1>3. BatchInv /\ [Steps!Next]_(Steps!vars) => [\A k \in taken' \ taken : Reads[k] \cap edited = {}]_(Steps!vars)
  <2> SUFFICES ASSUME BatchInv, Steps!Next, NEW k \in taken' \ taken PROVE Reads[k] \cap edited = {}
    BY DEF Steps!vars
  <2>1. k = member /\ at = "sending"
    BY DEF Steps!Next, Steps!Read, Steps!SaveCopy, Steps!Edit, Steps!Replan, Steps!ReplanFails,
      Steps!Copied, Steps!Recheck, Steps!RecheckFails,
           Steps!NothingSent, Steps!Rejected, Steps!Unclear, Steps!Send, Steps!Verify, Steps!Write
  <2> QED
    BY <2>1 DEF BatchInv, EditsSoFar
<1> QED
  BY <1>1, <1>2, <1>3, StepsRun, PTL DEF Steps!Spec, EditsAreSeen, Steps!EditsAreSeen
=============================================================================

