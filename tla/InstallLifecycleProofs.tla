----------------------- MODULE InstallLifecycleProofs -----------------------
(***************************************************************************)
(* Two promises of the installation, for any number of processes, apps,    *)
(* releases and commands.                                                  *)
(*                                                                         *)
(* An uninstall is final for what began before it.  A section that holds   *)
(* the lock was current when it took it, and only a holder of the lock     *)
(* rotates the generation: so it stays current.  That the generation alone *)
(* does not suffice, nor the marker alone, shows in what ties them to the  *)
(* history: without a marker there has been a setup (StoppedOrOpened), a   *)
(* marker that looks stale is (NewerMeansOpened), and no setup that is     *)
(* still under way survives the rotation that comes before a marker        *)
(* (RotatedFirst).                                                         *)
(*                                                                         *)
(* What is stamped as verified is.  A stamp vouches for every tracked app, *)
(* except one that a repair would find again (Tidy): the plan is written   *)
(* before the files, and a layout's age shows in the files themselves.  It *)
(* survives an update and its being undone, since the update carries what  *)
(* it moved aside (Swapping), and an uninstall, since the state goes       *)
(* before plan and marker, and the bundle last (Emptying).                 *)
(***************************************************************************)
EXTENDS InstallLifecycle, TLAPS

Moving   == {"swapIn", "sync", "rollBack", "putBack", "resync", "commit"}
Removing == {"apps", "rotate", "stop", "state", "cache", "root"}
Setting  == {"persist", "install", "finish"}
Quiet    == {"idle", "heal", "finalize", "mark", "claim"}

Places == {"repair", "complete", "update"} \cup Moving \cup Removing \cup Setting \cup Quiet

Process == [at : Places, cmd : Commands, n : Nat, bin : Nat, looked : BOOLEAN, gen : Nat,
            stop : Nat, ver : Nat, since : Nat, prev : Nat]
StateFile == [saved : BOOLEAN, newer : BOOLEAN, tracked : SUBSET Apps, verified : Nat]

LifecycleType ==
  /\ root \in Nat /\ state \in StateFile /\ gen \in Nat \ {0} /\ stop \in Nat /\ legacy \in Nat
  /\ lock \in Procs \cup {None} /\ proc \in [Procs -> Process]
  /\ starts \in Nat /\ closed \in Nat /\ opened \in BOOLEAN

\* Who is where: what a command does, and who has the lock.
InPlace ==
  \A p \in Procs :
    /\ proc[p].at \in Setting => proc[p].cmd = "setup"
    /\ proc[p].at \in Removing => proc[p].cmd = "uninstall"
    /\ lock = p <=> proc[p].at \in Moving \cup (Removing \ {"apps"})
    /\ IF proc[p].at = "idle" THEN ~proc[p].looked ELSE starts # 0

\* A look that still has the generation was taken after the last uninstall.
LookedSince ==
  \A p \in Procs :
    /\ proc[p].gen <= gen /\ (proc[p].gen = gen => proc[p].since = closed)
    /\ proc[p].at \in Moving => proc[p].gen = gen /\ opened
    /\ proc[p].at \in {"install", "finish"} /\ proc[p].gen = gen => opened

RotatedFirst ==
  \A p, q \in Procs :
    proc[p].at = "stop" /\ proc[q].at \in {"install", "finish"} => proc[q].gen # gen

StoppedOrOpened == opened \/ stop # None \/ (legacy # None /\ starts = 0)
NewerMeansOpened == stop # None /\ state.newer => opened

LifecycleInv ==
  /\ LifecycleType /\ InPlace /\ LookedSince /\ RotatedFirst
  /\ StoppedOrOpened /\ NewerMeansOpened

-----------------------------------------------------------------------------
(* Steps that leave the lifecycle alone *)

\* Where a command goes on, its next section has not looked yet.
LEMMA AfterIsQuiet == \A p \in Procs, c \in BOOLEAN : After(p, c) \in Quiet
BY DEF After, Quiet

\* A section ends, with or without the lock, and the command goes on or is over.
LEMMA SectionEnds ==
  ASSUME InstallAssumption, LifecycleInv, NEW p \in Procs, proc[p].at # "idle",
         NEW x \in Quiet, Go(p, x), lock' = (IF lock = p THEN None ELSE lock),
         root' \in Nat, state' \in StateFile, state'.newer => state.newer \/ opened,
         UNCHANGED <<barrier, starts, opened>>
  PROVE  LifecycleInv'
<1> USE DEF LifecycleInv
<1>1. /\ At(p, x) \in Process /\ At(p, x).gen = None /\ At(p, x).at = x
      /\ ~At(p, x).looked
  BY DEF LifecycleType, At, Idle, Process, Places, Quiet, Commands, None
<1>2. proc' = [proc EXCEPT ![p] = At(p, x)]
  BY DEF Go
<1>3. LifecycleType'
  BY <1>1, <1>2 DEF LifecycleType, barrier
<1>4. InPlace'
  BY <1>1, <1>2 DEF LifecycleType, InPlace, Quiet, Moving, Removing, Setting, barrier,
                    InstallAssumption
<1>5. LookedSince'
  BY <1>1, <1>2 DEF LifecycleType, LookedSince, Quiet, Moving, None, barrier
<1>6. RotatedFirst'
  BY <1>1, <1>2 DEF LifecycleType, RotatedFirst, Quiet, barrier
<1>7. StoppedOrOpened' /\ NewerMeansOpened'
  BY DEF StoppedOrOpened, NewerMeansOpened, barrier
<1> QED
  BY <1>3, <1>4, <1>5, <1>6, <1>7

\* A command begins with nothing seen; it may carry a marker over, or drop a stale one.
LEMMA Beginning ==
  ASSUME InstallAssumption, LifecycleInv, NEW p \in Procs, NEW c \in Commands, Begin(p, c)
  PROVE  LifecycleInv'
<1> USE DEF LifecycleInv
<1> DEFINE new == [Idle EXCEPT !.at = FirstStep[c], !.cmd = c, !.bin = root,
                               !.n = IF c = "relay" THEN starts + 1 ELSE None]
<1>1. /\ new \in Process /\ new.gen = None /\ ~new.looked
      /\ new.at \in {"repair", "heal", "update", "persist", "apps"}
      /\ new.at = "persist" => new.cmd = "setup"
      /\ new.at = "apps" => new.cmd = "uninstall"
  <2>1. /\ FirstStep[c] \in {"repair", "heal", "update", "persist", "apps"}
        /\ FirstStep[c] = "persist" => c = "setup"
        /\ FirstStep[c] = "apps" => c = "uninstall"
    <3>1. CASE c = "relay"
      BY <3>1 DEF FirstStep
    <3>2. CASE c = "quickCheck"
      BY <3>2 DEF FirstStep
    <3>3. CASE c = "check"
      BY <3>3 DEF FirstStep
    <3>4. CASE c = "update"
      BY <3>4 DEF FirstStep
    <3>5. CASE c = "setup"
      BY <3>5 DEF FirstStep
    <3>6. CASE c = "uninstall"
      BY <3>6 DEF FirstStep
    <3> QED
      BY <3>1, <3>2, <3>3, <3>4, <3>5, <3>6 DEF Commands
  <2>2. Idle \in Process /\ Idle.gen = None /\ ~Idle.looked
    BY DEF Idle, Process, Places, Quiet, Commands, None
  <2>3. (IF c = "relay" THEN starts + 1 ELSE None) \in Nat /\ root \in Nat
    BY DEF LifecycleType, None
  <2>4. FirstStep[c] \in Places
    BY <2>1 DEF Places, Moving, Removing, Setting, Quiet
  <2> QED
    BY <2>1, <2>2, <2>3, <2>4 DEF new, Process
<1>2. proc' = [proc EXCEPT ![p] = new]
  BY DEF new, Begin
<1> HIDE DEF new
<1>3. starts' = starts + 1 /\ UNCHANGED <<root, gen, legacy, closed, lock, opened>>
  BY DEF Begin, barrier
<1>4. state' = [state EXCEPT !.newer = @ /\ (stop # None \/ legacy = None)]
  BY DEF Begin
<1>5. stop' = IF stop = None THEN legacy ELSE IF StopIsStale /\ lock = None THEN None ELSE stop
  BY DEF Begin
<1>6. stop' \in Nat /\ state' \in StateFile
  BY <1>4, <1>5 DEF LifecycleType, None, StateFile
<1>7. LifecycleType'
  BY <1>1, <1>2, <1>3, <1>6 DEF LifecycleType
<1>8. InPlace'
  <2>1. proc[p].at = "idle"
    BY DEF Begin, Idle
  <2> QED
    BY <1>1, <1>2, <1>3, <2>1 DEF LifecycleType, InPlace, Moving, Removing, Setting
<1>9. LookedSince'
  BY <1>1, <1>2, <1>3 DEF LifecycleType, LookedSince, Moving, None
<1>10. RotatedFirst'
  BY <1>1, <1>2, <1>3 DEF LifecycleType, RotatedFirst
<1>11. StoppedOrOpened'
  BY <1>3, <1>5 DEF StoppedOrOpened, NewerMeansOpened, StopIsStale
<1>12. NewerMeansOpened'
  BY <1>3, <1>4, <1>5 DEF LifecycleType, StateFile, StoppedOrOpened, NewerMeansOpened
<1> QED
  BY <1>7, <1>8, <1>9, <1>10, <1>11, <1>12

\* Who moves one process keeps the types of the others.
LEMMA OneProcess ==
  ASSUME LifecycleType, NEW p \in Procs, NEW moved \in Process, proc' = [proc EXCEPT ![p] = moved]
  PROVE  proc' \in [Procs -> Process]
<1>1. proc \in [Procs -> Process]
  BY DEF LifecycleType
<1> QED
  BY <1>1

\* A look takes the generation as it is.
LEMMA Looking ==
  ASSUME InstallAssumption, LifecycleInv, NEW p \in Procs, Look(p) \/ LookAtVersion(p)
  PROVE  LifecycleInv'
<1> USE DEF LifecycleInv
<1>1. UNCHANGED <<root, state, barrier, lock, starts, opened>> /\ proc[p].at # "idle"
  BY DEF Look, LookAtVersion, disk
<1>2. ASSUME Go(p, After(p, FALSE)),
             proc[p].at \in {"repair", "heal", "mark", "claim", "update", "persist"}
      PROVE  LifecycleInv'
  <2>1. root' \in Nat /\ state' \in StateFile
    BY <1>1 DEF LifecycleType
  <2>2. lock' = IF lock = p THEN None ELSE lock
    BY <1>1, <1>2 DEF InPlace, Moving, Removing
  <2> QED
    BY <1>1, <1>2, <2>1, <2>2, AfterIsQuiet, SectionEnds
<1>3. LocalVersion(p) \in Nat
  BY DEF LifecycleType, LocalVersion, Process
<1>4. ASSUME proc' = [proc EXCEPT ![p] = [@ EXCEPT !.looked = TRUE, !.gen = gen, !.stop = stop,
                                            !.ver = LocalVersion(p), !.since = closed]],
             proc[p].at \in {"repair", "heal", "mark", "claim", "update", "persist"}
      PROVE  LifecycleInv'
  <2>1. LifecycleType'
    <3> DEFINE moved == [proc[p] EXCEPT !.looked = TRUE, !.gen = gen, !.stop = stop,
                                        !.ver = LocalVersion(p), !.since = closed]
    <3>1. proc[p] \in Process /\ gen \in Nat /\ stop \in Nat /\ closed \in Nat
      BY DEF LifecycleType
    <3>2. moved \in Process
      BY <1>3, <3>1 DEF Process
    <3>3. proc' = [proc EXCEPT ![p] = moved]
      BY <1>4
    <3>4. proc' \in [Procs -> Process]
      BY <3>2, <3>3, OneProcess
    <3> QED
      BY <1>1, <3>4 DEF LifecycleType, barrier
  <2>2. InPlace' /\ LookedSince' /\ RotatedFirst'
    BY <1>1, <1>4 DEF LifecycleType, Process, InPlace, LookedSince, RotatedFirst, Moving,
                      Removing, Setting, barrier
  <2> QED
    BY <1>1, <2>1, <2>2 DEF StoppedOrOpened, NewerMeansOpened, barrier
<1>5. ASSUME proc' = [proc EXCEPT ![p].looked = TRUE, ![p].ver = LocalVersion(p)],
             proc[p].at \in {"complete", "finalize"}
      PROVE  LifecycleInv'
  <2>1. LifecycleType'
    <3> DEFINE moved == [proc[p] EXCEPT !.looked = TRUE, !.ver = LocalVersion(p)]
    <3>1. proc[p] \in Process
      BY DEF LifecycleType
    <3>2. moved \in Process
      BY <1>3, <3>1 DEF Process
    <3>3. proc' = [proc EXCEPT ![p] = moved]
      BY <1>5, <3>1 DEF LifecycleType
    <3>4. proc' \in [Procs -> Process]
      BY <3>2, <3>3, OneProcess
    <3> QED
      BY <1>1, <3>4 DEF LifecycleType, barrier
  <2>2. InPlace' /\ LookedSince' /\ RotatedFirst'
    BY <1>1, <1>5 DEF LifecycleType, Process, InPlace, LookedSince, RotatedFirst, Moving,
                      Removing, Setting, barrier
  <2> QED
    BY <1>1, <2>1, <2>2 DEF StoppedOrOpened, NewerMeansOpened, barrier
<1> QED
  BY <1>2, <1>4, <1>5 DEF Look, LookAtVersion

-----------------------------------------------------------------------------
(* Sections in one step, and those that end *)

\* A sync saves a state that names the apps it found configured.
LEMMA Saving ==
  ASSUME LifecycleType,
         (\E s \in Skippable : SyncAllBut(s)) \/ SyncFails \/ UNCHANGED state
  PROVE  state' \in StateFile
<1>1. Configured \subseteq Apps
  BY DEF Configured, LifecycleType, StateFile
<1>2. \A all \in BOOLEAN : Stamped(all) \in Nat
  BY DEF Stamped, LifecycleType, StateFile
<1>3. ASSUME NEW v \in Nat, Save(Configured, v)
      PROVE  state' \in StateFile
  BY <1>1, <1>3 DEF Save, StateFile
<1>4. state.verified \in Nat
  BY DEF LifecycleType, StateFile
<1> QED
  BY <1>2, <1>3, <1>4 DEF SyncAllBut, SyncFails, LifecycleType

\* Where no uninstall holds, a command that runs knows of a setup since the last.
LEMMA CurrentIsOpened ==
  ASSUME InstallAssumption, LifecycleInv, NEW p \in Procs, Current(p), proc[p].at # "idle"
  PROVE  opened /\ proc[p].since = closed
BY DEF LifecycleInv, LifecycleType, InPlace, LookedSince, StoppedOrOpened, Current

\* Sections that do not touch the state end as they may.
LEMMA WithoutTheState ==
  ASSUME InstallAssumption, LifecycleInv, NEW p \in Procs,
         \/ Contended(p) \/ Stop(p) \/ RepairSkipped(p) \/ RepairOwed(p) \/ Repair(p)
         \/ NothingToRepair(p) \/ Complete(p) \/ Finalize(p) \/ MarkVerified(p) \/ Commit(p)
  PROVE  LifecycleInv'
<1> DEFINE calm == UNCHANGED <<root, state, barrier, starts, opened>>
<1>1. \A c \in BOOLEAN : After(p, c) \in Quiet
  BY AfterIsQuiet
<1>2. "idle" \in Quiet
  BY DEF Quiet
<1>3. ASSUME NEW x \in Quiet, Go(p, x), calm, proc[p].at # "idle",
             lock' = (IF lock = p THEN None ELSE lock)
      PROVE  LifecycleInv'
  <2>1. root' \in Nat /\ state' \in StateFile
    BY <1>3 DEF LifecycleInv, LifecycleType
  <2> QED
    BY <1>3, <2>1, SectionEnds
<1>4. CASE Contended(p)
  <2>1. proc[p].at # "idle"
    BY <1>4 DEF Contended, LifecycleInv, InPlace
  <2> QED
    BY <1>1, <1>3, <1>4, <2>1 DEF Contended, disk
<1>5. CASE Stop(p)
  <2>1. proc[p].at # "idle"
    BY <1>5 DEF Stop, LifecycleInv, InPlace, Moving, Removing
  <2> QED
    BY <1>2, <1>3, <1>5, <2>1 DEF Stop, disk
<1>6. CASE RepairSkipped(p)
  BY <1>1, <1>3, <1>6 DEF RepairSkipped, Ready, disk
<1>7. CASE RepairOwed(p)
  BY <1>1, <1>3, <1>7 DEF RepairOwed, Ready, disk
<1>8. CASE Repair(p)
  BY <1>1, <1>3, <1>8 DEF Repair, Ready
<1>9. CASE NothingToRepair(p)
  BY <1>1, <1>3, <1>9 DEF NothingToRepair, Ready, disk
<1>10. CASE Complete(p)
  BY <1>2, <1>3, <1>10 DEF Complete, Ready, disk
<1>11. CASE Finalize(p)
  BY <1>1, <1>3, <1>11 DEF Finalize, Ready, disk
<1>12. CASE MarkVerified(p)
  BY <1>2, <1>3, <1>12 DEF MarkVerified, Ready, disk
<1>13. CASE Commit(p)
  BY <1>2, <1>3, <1>13 DEF Commit, Locked, disk
<1> QED
  BY <1>4, <1>5, <1>6, <1>7, <1>8, <1>9, <1>10, <1>11, <1>12, <1>13

\* Sections that save the state do so only after a setup.
LEMMA WithTheState ==
  ASSUME InstallAssumption, LifecycleInv, NEW p \in Procs,
         Heal(p) \/ UpdateInPlace(p) \/ Resync(p)
  PROVE  LifecycleInv'
<1>1. PICK x \in Quiet : Go(p, x)
  BY AfterIsQuiet DEF Heal, UpdateInPlace, Resync, Quiet
<1>2. proc[p].at # "idle" /\ UNCHANGED <<root, barrier, starts, opened>>
  BY DEF Heal, UpdateInPlace, Resync, Ready, Locked
<1>3. lock' = IF lock = p THEN None ELSE lock
  BY DEF Heal, UpdateInPlace, Resync, Ready, Locked, InstallAssumption
<1>4. (\E s \in Skippable : SyncAllBut(s)) \/ SyncFails \/ UNCHANGED state
  BY DEF Heal, UpdateInPlace, Resync, Sync
<1>5. opened \/ UNCHANGED state
  <2>1. CASE Resync(p)
    BY <2>1 DEF Resync, Locked, LifecycleInv, LookedSince, Moving
  <2>2. CASE Heal(p) \/ UpdateInPlace(p)
    BY <1>2, <2>2, CurrentIsOpened DEF Heal, UpdateInPlace
  <2> QED
    BY <2>1, <2>2
<1>6. root' \in Nat /\ state' \in StateFile
  BY <1>2, <1>4, Saving DEF LifecycleInv, LifecycleType
<1> QED
  BY <1>1, <1>2, <1>3, <1>5, <1>6, SectionEnds

-----------------------------------------------------------------------------
(* Sections of several steps *)

\* One step of a section, after which its process has the lock if it had it before.
LEMMA SectionGoesOn ==
  ASSUME InstallAssumption, LifecycleInv, NEW p \in Procs, NEW x, Keep(p, x),
         \/ {proc[p].at, x} \subseteq Moving
         \/ {proc[p].at, x} \subseteq {"install", "finish"}
         \/ {proc[p].at, x} \subseteq {"state", "cache", "root"},
         root' \in Nat, state' \in StateFile, state'.newer => state.newer \/ opened,
         UNCHANGED <<barrier, lock, starts, opened>>
  PROVE  LifecycleInv'
<1> USE DEF LifecycleInv
<1>1. x \in Places
  BY DEF Places, Moving, Removing, Setting
<1>2. proc' = [proc EXCEPT ![p].at = x]
  BY DEF Keep
<1>3. LifecycleType'
  BY <1>1, <1>2 DEF LifecycleType, Process, barrier
<1>4. InPlace'
  BY <1>2 DEF LifecycleType, Process, InPlace, Moving, Removing, Setting, barrier
<1>5. LookedSince'
  BY <1>2 DEF LifecycleType, Process, LookedSince, Moving, barrier
<1>6. RotatedFirst'
  BY <1>2 DEF LifecycleType, Process, RotatedFirst, Moving, barrier
<1>7. StoppedOrOpened' /\ NewerMeansOpened'
  BY DEF StoppedOrOpened, NewerMeansOpened, barrier
<1> QED
  BY <1>3, <1>4, <1>5, <1>6, <1>7

\* An update that has the lock keeps it, or gives it up.
LEMMA UpdateGoesOn ==
  ASSUME InstallAssumption, LifecycleInv, NEW p \in Procs,
         SwapIn(p) \/ SyncUpdated(p) \/ RollBack(p) \/ PutBack(p)
  PROVE  LifecycleInv'
<1>1. /\ proc[p].at \in Moving /\ lock = p /\ opened
      /\ UNCHANGED <<barrier, starts, opened>>
  BY DEF SwapIn, SyncUpdated, RollBack, PutBack, Locked, Moving, LifecycleInv, LookedSince
<1>2. root' \in Nat
  BY DEF LifecycleInv, LifecycleType, Process, InstallAssumption, None,
         SwapIn, SyncUpdated, RollBack, PutBack
<1>3. (\E s \in Skippable : SyncAllBut(s)) \/ SyncFails \/ UNCHANGED state
  BY DEF SwapIn, SyncUpdated, RollBack, PutBack, Sync
<1>4. state' \in StateFile
  BY <1>3, Saving DEF LifecycleInv
<1>5. \/ UNCHANGED lock /\ \E x \in Moving : Keep(p, x)
      \/ lock' = None /\ Go(p, "idle")
  BY DEF SwapIn, SyncUpdated, RollBack, PutBack, Moving
<1>6. ASSUME UNCHANGED lock, NEW x \in Moving, Keep(p, x)
      PROVE  LifecycleInv'
  BY <1>1, <1>2, <1>4, <1>6, SectionGoesOn
<1>7. ASSUME lock' = None, Go(p, "idle")
      PROVE  LifecycleInv'
  <2>1. "idle" \in Quiet /\ proc[p].at # "idle"
    BY <1>1 DEF Quiet, Moving
  <2> QED
    BY <1>1, <1>2, <1>4, <1>7, <2>1, SectionEnds
<1> QED
  BY <1>5, <1>6, <1>7

\* An update takes the lock, and moves the bundle out of the way.
LEMMA UpdateBegins ==
  ASSUME InstallAssumption, LifecycleInv, NEW p \in Procs, SwapOut(p)
  PROVE  LifecycleInv'
<1> USE DEF LifecycleInv
<1>1. proc[p].at = "update" /\ lock = None /\ None \notin Procs
  BY DEF SwapOut, Ready, InstallAssumption
<1>2. UNCHANGED <<state, barrier, starts, opened>>
  BY DEF SwapOut
<1>3. CASE Current(p)
  <2>1. /\ proc' = [proc EXCEPT ![p].at = "swapIn", ![p].prev = root]
        /\ lock' = p /\ root' = None
    BY <1>3 DEF SwapOut
  <2>2. opened /\ proc[p].gen = gen
    BY <1>1, <1>3, CurrentIsOpened DEF Current
  <2>3. LifecycleType'
    <3> DEFINE moved == [proc[p] EXCEPT !.at = "swapIn", !.prev = root]
    <3>1. proc[p] \in Process /\ root \in Nat
      BY DEF LifecycleType
    <3>2. "swapIn" \in Places
      BY DEF Places, Moving
    <3>3. moved \in Process
      BY <3>1, <3>2 DEF Process
    <3>4. proc' = [proc EXCEPT ![p] = moved]
      BY <2>1, <3>1 DEF LifecycleType
    <3>5. proc' \in [Procs -> Process]
      BY <3>3, <3>4, OneProcess
    <3> QED
      BY <1>2, <2>1, <3>5 DEF LifecycleType, None, barrier
  <2>4. InPlace'
    BY <1>1, <1>2, <2>1 DEF LifecycleType, Process, InPlace, Moving, Removing, Setting, barrier
  <2>5. LookedSince' /\ RotatedFirst'
    BY <1>2, <2>1, <2>2 DEF LifecycleType, Process, LookedSince, RotatedFirst, Moving, barrier
  <2> QED
    BY <1>2, <2>3, <2>4, <2>5 DEF StoppedOrOpened, NewerMeansOpened, barrier
<1>4. CASE ~Current(p)
  <2>1. Go(p, "idle") /\ UNCHANGED <<lock, root>> /\ "idle" \in Quiet
    BY <1>4 DEF SwapOut, Quiet
  <2>2. root' \in Nat /\ state' \in StateFile /\ lock' = IF lock = p THEN None ELSE lock
    BY <1>1, <1>2, <2>1 DEF LifecycleType
  <2> QED
    BY <1>1, <1>2, <2>1, <2>2, SectionEnds
<1> QED
  BY <1>3, <1>4

\* A claimed check is still of the look that claimed it.
LEMMA Claiming ==
  ASSUME InstallAssumption, LifecycleInv, NEW p \in Procs, Claim(p)
  PROVE  LifecycleInv'
<1> USE DEF LifecycleInv
<1>1. /\ proc[p].at = "claim" /\ lock = None /\ None \notin Procs
      /\ UNCHANGED <<root, state, barrier, lock, starts, opened>>
  BY DEF Claim, Ready, InstallAssumption, disk
<1>2. ASSUME proc' = [proc EXCEPT ![p].at = "complete", ![p].looked = FALSE]
      PROVE  LifecycleInv'
  <2>1. LifecycleType'
    <3> DEFINE moved == [proc[p] EXCEPT !.at = "complete", !.looked = FALSE]
    <3>1. proc[p] \in Process
      BY DEF LifecycleType
    <3>2. moved \in Process
      BY <3>1 DEF Process, Places
    <3>3. proc' = [proc EXCEPT ![p] = moved]
      BY <1>2, <3>1 DEF LifecycleType
    <3>4. proc' \in [Procs -> Process]
      BY <3>2, <3>3, OneProcess
    <3> QED
      BY <1>1, <3>4 DEF LifecycleType, barrier
  <2>2. InPlace' /\ LookedSince' /\ RotatedFirst'
    BY <1>1, <1>2 DEF LifecycleType, Process, InPlace, LookedSince, RotatedFirst, Moving,
                      Removing, Setting, barrier
  <2> QED
    BY <1>1, <2>1, <2>2 DEF StoppedOrOpened, NewerMeansOpened, barrier
<1>3. ASSUME Go(p, "idle")
      PROVE  LifecycleInv'
  <2>1. "idle" \in Quiet /\ root' \in Nat /\ state' \in StateFile
    BY <1>1 DEF Quiet, LifecycleType
  <2> QED
    BY <1>1, <1>3, <2>1, SectionEnds
<1> QED
  BY <1>2, <1>3 DEF Claim

-----------------------------------------------------------------------------
(* Setup and uninstall *)

\* A setup's first write is what lets other commands change things again.
LEMMA Persisting ==
  ASSUME InstallAssumption, LifecycleInv, NEW p \in Procs, Persist(p)
  PROVE  LifecycleInv'
<1> USE DEF LifecycleInv
<1>1. /\ proc[p].at = "persist" /\ lock = None /\ None \notin Procs
      /\ UNCHANGED <<root, barrier, lock, starts>>
  BY DEF Persist, Ready, InstallAssumption
<1>2. ASSUME Save(state.tracked, state.verified), opened' = TRUE, Keep(p, "install")
      PROVE  LifecycleInv'
  <2>1. state' \in StateFile
    BY <1>2 DEF Save, LifecycleType, StateFile
  <2>2. proc' = [proc EXCEPT ![p].at = "install"]
    BY <1>2 DEF Keep
  <2>3. LifecycleType'
    BY <1>1, <1>2, <2>1, <2>2 DEF LifecycleType, Process, Places, Setting, barrier
  <2>4. InPlace'
    BY <1>1, <2>2 DEF LifecycleType, Process, InPlace, Moving, Removing, Setting
  <2>5. LookedSince' /\ RotatedFirst'
    BY <1>1, <1>2, <2>2 DEF LifecycleType, Process, InPlace, LookedSince, RotatedFirst, Moving,
                            Removing, barrier
  <2> QED
    BY <1>2, <2>3, <2>4, <2>5 DEF StoppedOrOpened, NewerMeansOpened
<1>3. ASSUME Go(p, "idle"), UNCHANGED <<state, opened>>
      PROVE  LifecycleInv'
  <2>1. "idle" \in Quiet /\ root' \in Nat /\ state' \in StateFile
    BY <1>1, <1>3 DEF Quiet, LifecycleType
  <2> QED
    BY <1>1, <1>3, <2>1, SectionEnds
<1> QED
  BY <1>2, <1>3 DEF Persist

\* A setup that is still current has saved its state.
LEMMA InstallingApps ==
  ASSUME InstallAssumption, LifecycleInv, NEW p \in Procs, InstallApps(p)
  PROVE  LifecycleInv'
<1> USE DEF LifecycleInv
<1>1. /\ proc[p].at = "install" /\ lock = None /\ None \notin Procs
      /\ UNCHANGED <<root, barrier, lock, starts, opened>>
  BY DEF InstallApps, Ready, InstallAssumption
<1>2. root' \in Nat /\ "idle" \in Quiet
  BY <1>1 DEF LifecycleType, Quiet
<1>3. ASSUME Keep(p, "finish"), CurrentForSetup(p), NEW chosen \in SUBSET Apps,
             Save(state.tracked \cup chosen, Stamped(state.tracked \subseteq chosen))
      PROVE  LifecycleInv'
  <2>1. Stamped(state.tracked \subseteq chosen) \in Nat
    BY DEF Stamped, LifecycleType, StateFile
  <2>2. state' \in StateFile
    BY <1>3, <2>1 DEF Save, LifecycleType, StateFile
  <2>3. opened
    BY <1>1, <1>3 DEF CurrentForSetup, LookedSince
  <2> QED
    BY <1>1, <1>2, <1>3, <2>2, <2>3, SectionGoesOn
<1>4. ASSUME Go(p, "idle"), UNCHANGED state
      PROVE  LifecycleInv'
  <2>1. state' \in StateFile
    BY <1>4 DEF LifecycleType
  <2> QED
    BY <1>1, <1>2, <1>4, <2>1, SectionEnds
<1> QED
  BY <1>3, <1>4 DEF InstallApps

\* The marker goes only after a setup saved the state.
LEMMA FinishingSetup ==
  ASSUME InstallAssumption, LifecycleInv, NEW p \in Procs, FinishSetup(p)
  PROVE  LifecycleInv'
<1> USE DEF LifecycleInv
<1>1. /\ proc[p].at = "finish" /\ lock = None /\ None \notin Procs /\ Go(p, "idle")
      /\ UNCHANGED <<root, state, closed, lock, starts, opened>>
  BY DEF FinishSetup, Ready, InstallAssumption, disk
<1>2. "idle" \in Quiet /\ root' \in Nat /\ state' \in StateFile
  BY <1>1 DEF Quiet, LifecycleType
<1>3. ASSUME CurrentForSetup(p)
      PROVE  LifecycleInv'
  <2>1. opened
    BY <1>1, <1>3 DEF CurrentForSetup, LookedSince
  <2>2. legacy' = None /\ stop' \in {stop, None} /\ gen' \in {gen, gen + 1}
    BY <1>3 DEF FinishSetup
  <2>3. proc' = [proc EXCEPT ![p] = Idle]
    BY <1>1 DEF Go, At
  <2>4. Idle \in Process /\ Idle.gen = None /\ Idle.at = "idle" /\ ~Idle.looked
    BY DEF Idle, Process, Places, Quiet, Commands, None
  <2>5. LifecycleType'
    BY <1>1, <1>2, <2>2, <2>3, <2>4 DEF LifecycleType, None
  <2>6. InPlace'
    BY <1>1, <2>3, <2>4 DEF LifecycleType, InPlace, Moving, Removing, Setting
  <2>7. LookedSince' /\ RotatedFirst'
    BY <1>1, <2>1, <2>2, <2>3, <2>4 DEF LifecycleType, Process, InPlace, LookedSince,
                                        RotatedFirst, Moving, Removing, None
  <2> QED
    BY <1>1, <2>1, <2>5, <2>6, <2>7 DEF StoppedOrOpened, NewerMeansOpened
<1>4. ASSUME UNCHANGED <<legacy, stop, gen>>
      PROVE  LifecycleInv'
  BY <1>1, <1>2, <1>4, SectionEnds DEF barrier
<1> QED
  BY <1>3, <1>4 DEF FinishSetup

\* An uninstall takes the lock once the apps' files are gone.
LEMMA RemovingApps ==
  ASSUME InstallAssumption, LifecycleInv, NEW p \in Procs, RemoveApps(p)
  PROVE  LifecycleInv'
<1> USE DEF LifecycleInv
<1>1. /\ proc[p].at = "apps" /\ lock = None /\ None \notin Procs
      /\ UNCHANGED <<root, state, barrier, starts, opened>>
  BY DEF RemoveApps, InstallAssumption
<1>2. ASSUME lock' = p, Keep(p, "rotate")
      PROVE  LifecycleInv'
  <2>1. proc' = [proc EXCEPT ![p].at = "rotate"]
    BY <1>2 DEF Keep
  <2>2. LifecycleType'
    BY <1>1, <1>2, <2>1 DEF LifecycleType, Process, Places, Removing, barrier
  <2>3. InPlace'
    BY <1>1, <1>2, <2>1 DEF LifecycleType, Process, InPlace, Moving, Removing, Setting
  <2>4. LookedSince' /\ RotatedFirst'
    BY <1>1, <2>1 DEF LifecycleType, Process, LookedSince, RotatedFirst, Moving, barrier
  <2> QED
    BY <1>1, <2>2, <2>3, <2>4 DEF StoppedOrOpened, NewerMeansOpened, barrier
<1>3. ASSUME Go(p, "idle"), UNCHANGED lock
      PROVE  LifecycleInv'
  <2>1. "idle" \in Quiet /\ root' \in Nat /\ state' \in StateFile
    BY <1>1 DEF Quiet, LifecycleType
  <2> QED
    BY <1>1, <1>3, <2>1, SectionEnds
<1> QED
  BY <1>2, <1>3 DEF RemoveApps

\* From here on no look that was taken before has the generation.
LEMMA Rotating ==
  ASSUME InstallAssumption, LifecycleInv, NEW p \in Procs, RotateGeneration(p)
  PROVE  LifecycleInv'
<1> USE DEF LifecycleInv
<1>1. /\ proc[p].at = "rotate" /\ lock = p /\ gen' = gen + 1 /\ closed' = closed + 1
      /\ UNCHANGED <<root, state, stop, legacy, lock, starts, opened>>
  BY DEF RotateGeneration, Locked, disk
<1>2. proc' = [proc EXCEPT ![p].at = "stop"]
  BY DEF RotateGeneration, Keep
<1>3. LifecycleType'
  BY <1>1, <1>2 DEF LifecycleType, Process, Places, Removing
<1>4. InPlace'
  BY <1>1, <1>2 DEF LifecycleType, Process, InPlace, Moving, Removing, Setting
<1>5. LookedSince'
  BY <1>1, <1>2 DEF LifecycleType, Process, InPlace, LookedSince, Moving, Removing
<1>6. RotatedFirst'
  BY <1>1, <1>2 DEF LifecycleType, Process, LookedSince, RotatedFirst
<1> QED
  BY <1>1, <1>3, <1>4, <1>5, <1>6 DEF StoppedOrOpened, NewerMeansOpened

\* And only then the marker says that there is no setup.
LEMMA Marking ==
  ASSUME InstallAssumption, LifecycleInv, NEW p \in Procs, MarkStopped(p)
  PROVE  LifecycleInv'
<1> USE DEF LifecycleInv
<1>1. /\ proc[p].at = "stop" /\ lock = p /\ stop' = gen /\ opened' = FALSE
      /\ state' = [state EXCEPT !.newer = FALSE] /\ legacy' \in {legacy, gen}
      /\ UNCHANGED <<root, gen, closed, lock, starts>>
  BY DEF MarkStopped, Locked
<1>2. proc' = [proc EXCEPT ![p].at = "state"]
  BY DEF MarkStopped, Keep
<1>3. LifecycleType'
  <2> DEFINE moved == [proc[p] EXCEPT !.at = "state"]
  <2>1. proc[p] \in Process
    BY DEF LifecycleType
  <2>2. moved \in Process
    BY <2>1 DEF Process, Places, Removing
  <2>3. proc' = [proc EXCEPT ![p] = moved]
    BY <1>2
  <2>4. proc' \in [Procs -> Process]
    BY <2>2, <2>3, OneProcess
  <2>5. state' \in StateFile
    BY <1>1 DEF LifecycleType, StateFile
  <2> QED
    BY <1>1, <2>4, <2>5 DEF LifecycleType
<1>4. InPlace'
  BY <1>1, <1>2 DEF LifecycleType, Process, InPlace, Moving, Removing, Setting
<1>5. LookedSince' /\ RotatedFirst'
  BY <1>1, <1>2 DEF LifecycleType, Process, InPlace, LookedSince, RotatedFirst, Moving, Removing
<1>6. stop' # None /\ ~state'.newer
  BY <1>1 DEF LifecycleType, StateFile, None
<1> QED
  BY <1>3, <1>4, <1>5, <1>6 DEF StoppedOrOpened, NewerMeansOpened

\* The rest is removed under the marker, and then the lock is free.
LEMMA RemovingTheRest ==
  ASSUME InstallAssumption, LifecycleInv, NEW p \in Procs,
         RemoveState(p) \/ RemoveCache(p) \/ RemoveRoot(p)
  PROVE  LifecycleInv'
<1> USE DEF LifecycleInv
<1>1. UNCHANGED <<barrier, starts, opened>> /\ lock = p /\ proc[p].at \in {"state", "cache", "root"}
  BY DEF RemoveState, RemoveCache, RemoveRoot, Locked, disk
<1>2. root' \in Nat /\ state' \in StateFile /\ (state'.newer => state.newer)
  <2>1. CASE RemoveState(p)
    BY <2>1 DEF LifecycleType, StateFile, NoState, None, RemoveState
  <2>2. CASE RemoveCache(p)
    BY <2>2 DEF LifecycleType, RemoveCache, disk
  <2>3. CASE RemoveRoot(p)
    BY <2>3 DEF LifecycleType, RemoveRoot, None
  <2> QED
    BY <2>1, <2>2, <2>3
<1>3. CASE RemoveRoot(p)
  <2>1. lock' = None /\ Go(p, "idle") /\ "idle" \in Quiet
    BY <1>3 DEF RemoveRoot, Quiet
  <2> QED
    BY <1>1, <1>2, <2>1, SectionEnds
<1>4. CASE RemoveState(p) \/ RemoveCache(p)
  <2>1. PICK x \in {"cache", "root"} : Keep(p, x) /\ UNCHANGED lock
    BY <1>4 DEF RemoveState, RemoveCache
  <2> QED
    BY <1>1, <1>2, <2>1, SectionGoesOn
<1> QED
  BY <1>3, <1>4

\* A claim ages, and releases come, without the lock.
LEMMA Outside ==
  ASSUME InstallAssumption, LifecycleInv, ClaimAges \/ Reinstall \/ OldReleaseComes
  PROVE  LifecycleInv'
<1> USE DEF LifecycleInv
<1>1. CASE ClaimAges \/ Reinstall
  <2>1. UNCHANGED <<state, barrier, lock, proc, starts, opened>> /\ root' \in Nat
    BY <1>1 DEF ClaimAges, Reinstall, disk, LifecycleType, InstallAssumption
  <2> QED
    BY <2>1 DEF LifecycleType, InPlace, LookedSince, RotatedFirst, StoppedOrOpened,
                NewerMeansOpened, barrier
<1>2. CASE OldReleaseComes
  <2>1. /\ starts' = starts + 1 /\ root' = 1 /\ legacy' = None /\ gen' = gen + 1
        /\ opened' = TRUE /\ lock = None /\ UNCHANGED <<stop, closed, lock, proc>>
        /\ state' = [saved |-> TRUE, newer |-> TRUE, tracked |-> Apps, verified |-> 1]
    BY <1>2 DEF OldReleaseComes
  <2>2. LifecycleType'
    BY <2>1 DEF LifecycleType, StateFile, None
  <2>3. InPlace' /\ LookedSince' /\ RotatedFirst'
    BY <2>1 DEF LifecycleType, Process, InPlace, LookedSince, RotatedFirst, InstallAssumption
  <2> QED
    BY <2>1, <2>2, <2>3 DEF StoppedOrOpened, NewerMeansOpened
<1> QED
  BY <1>1, <1>2

-----------------------------------------------------------------------------
(* Every step *)

\* Both beginnings fit the invariant.
LEMMA LifecycleInit ==
  ASSUME InstallAssumption, Init
  PROVE  LifecycleInv
<1>1. Idle \in Process /\ Idle.gen = None /\ Idle.at = "idle" /\ ~Idle.looked
  BY DEF Idle, Process, Places, Quiet, Commands, None
<1>2. proc = [p \in Procs |-> Idle] /\ lock = None /\ None \notin Procs
  BY DEF Init, InstallAssumption
<1>3. /\ root = 1 /\ gen = 1 /\ stop = None /\ starts = 0 /\ closed = 0
      /\ legacy \in {None, 1} /\ opened \in BOOLEAN /\ (opened \/ legacy = 1)
  BY DEF Init
<1>4. state \in StateFile
  <2>1. state \in {NoState, [saved |-> TRUE, newer |-> FALSE, tracked |-> Apps, verified |-> 1]}
    BY DEF Init
  <2>2. NoState \in StateFile
    BY DEF NoState, StateFile, None
  <2>3. [saved |-> TRUE, newer |-> FALSE, tracked |-> Apps, verified |-> 1] \in StateFile
    BY DEF StateFile
  <2> QED
    BY <2>1, <2>2, <2>3
<1>5. LifecycleType
  BY <1>1, <1>2, <1>3, <1>4 DEF LifecycleType, None
<1>6. InPlace /\ LookedSince /\ RotatedFirst
  BY <1>1, <1>2, <1>3 DEF InPlace, LookedSince, RotatedFirst, Moving, Removing, Setting, None
<1>7. StoppedOrOpened /\ NewerMeansOpened
  BY <1>3 DEF StoppedOrOpened, NewerMeansOpened, None
<1> QED
  BY <1>5, <1>6, <1>7 DEF LifecycleInv

\* And every step keeps it.
LEMMA LifecycleNext ==
  ASSUME InstallAssumption, LifecycleInv, [Next]_vars
  PROVE  LifecycleInv'
<1>1. ASSUME NEW p \in Procs, NEW c \in Commands, Begin(p, c)
      PROVE  LifecycleInv'
  BY <1>1, Beginning
<1>2. ASSUME NEW p \in Procs,
             \/ Look(p) \/ LookAtVersion(p) \/ Contended(p) \/ Stop(p)
             \/ RepairSkipped(p) \/ RepairOwed(p) \/ Repair(p) \/ NothingToRepair(p)
             \/ Complete(p) \/ Finalize(p) \/ MarkVerified(p) \/ Commit(p)
             \/ Heal(p) \/ UpdateInPlace(p) \/ Resync(p)
      PROVE  LifecycleInv'
  BY <1>2, Looking, WithoutTheState, WithTheState
<1>3. ASSUME NEW p \in Procs,
             \/ Claim(p) \/ SwapOut(p) \/ SwapIn(p) \/ SyncUpdated(p) \/ RollBack(p)
             \/ PutBack(p) \/ Persist(p) \/ InstallApps(p) \/ FinishSetup(p)
      PROVE  LifecycleInv'
  BY <1>3, Claiming, UpdateBegins, UpdateGoesOn, Persisting, InstallingApps, FinishingSetup
<1>4. ASSUME NEW p \in Procs,
             \/ RemoveApps(p) \/ RotateGeneration(p) \/ MarkStopped(p)
             \/ RemoveState(p) \/ RemoveCache(p) \/ RemoveRoot(p)
      PROVE  LifecycleInv'
  BY <1>4, RemovingApps, Rotating, Marking, RemovingTheRest
<1>5. CASE UNCHANGED vars
  <2>1. UNCHANGED <<root, state, gen, stop, legacy, closed, lock, proc, starts, opened>>
    BY <1>5 DEF vars, disk, barrier
  <2>2. LifecycleType' /\ InPlace' /\ LookedSince' /\ RotatedFirst'
    BY <2>1 DEF LifecycleInv, LifecycleType, InPlace, LookedSince, RotatedFirst
  <2> QED
    BY <2>1, <2>2 DEF LifecycleInv, StoppedOrOpened, NewerMeansOpened
<1> QED
  BY <1>1, <1>2, <1>3, <1>4, <1>5, Outside DEF Next

\* What the checks under the lock rely on always holds (install_lifecycle.go): who moves
\* the bundle has the lock and the generation; a look with the generation came after the
\* last uninstall; without a marker a setup has saved its state since.
THEOREM LifecycleInvariant == Spec => []LifecycleInv
<1>1. Init => LifecycleInv
  BY InstallAssumption, LifecycleInit
<1>2. LifecycleInv /\ [Next]_vars => LifecycleInv'
  BY InstallAssumption, LifecycleNext
<1> QED
  BY <1>1, <1>2, PTL DEF Spec

-----------------------------------------------------------------------------
(* The uninstall *)

\* What StaysUninstalled says of one process.
Final(p) ==
  proc[p]' # proc[p] /\ proc[p].at # "idle" /\ proc[p].cmd # "uninstall" /\ disk' # disk =>
    proc[p].since = closed /\ (proc[p].cmd = "setup" \/ opened)

\* The steps of a command that has begun.
OfProcess(p) ==
  \/ Look(p) \/ LookAtVersion(p) \/ Contended(p) \/ Stop(p)
  \/ RepairSkipped(p) \/ RepairOwed(p) \/ Repair(p) \/ NothingToRepair(p)
  \/ Claim(p) \/ Complete(p) \/ Finalize(p) \/ MarkVerified(p)
  \/ Heal(p) \/ UpdateInPlace(p) \/ SwapOut(p) \/ SwapIn(p) \/ SyncUpdated(p)
  \/ RollBack(p) \/ PutBack(p) \/ Resync(p) \/ Commit(p)
  \/ Persist(p) \/ InstallApps(p) \/ FinishSetup(p)
  \/ RemoveApps(p) \/ RotateGeneration(p) \/ MarkStopped(p)
  \/ RemoveState(p) \/ RemoveCache(p) \/ RemoveRoot(p)

\* A step of one process leaves every other where it is.
LEMMA OneMoves ==
  ASSUME LifecycleType, NEW p \in Procs, OfProcess(p), NEW q \in Procs \ {p}
  PROVE  Final(q)
<1>1. ASSUME proc[q]' = proc[q]
      PROVE  Final(q)
  BY <1>1 DEF Final
<1>2. CASE Look(p) \/ LookAtVersion(p) \/ Contended(p) \/ Stop(p)
  BY <1>1, <1>2 DEF LifecycleType, Look, LookAtVersion, Contended, Stop, Go
<1>3. CASE \/ RepairSkipped(p) \/ RepairOwed(p) \/ Repair(p) \/ NothingToRepair(p)
           \/ Claim(p) \/ Complete(p) \/ Finalize(p) \/ MarkVerified(p)
  BY <1>1, <1>3 DEF LifecycleType, RepairSkipped, RepairOwed, Repair, NothingToRepair, Claim,
                    Complete, Finalize, MarkVerified, Go
<1>4. CASE \/ Heal(p) \/ UpdateInPlace(p) \/ SwapOut(p) \/ SwapIn(p) \/ SyncUpdated(p)
           \/ RollBack(p) \/ PutBack(p) \/ Resync(p) \/ Commit(p)
  BY <1>1, <1>4 DEF LifecycleType, Heal, UpdateInPlace, SwapOut, SwapIn, SyncUpdated, RollBack,
                    PutBack, Resync, Commit, Go, Keep
<1>5. CASE Persist(p) \/ InstallApps(p) \/ FinishSetup(p)
  BY <1>1, <1>5 DEF LifecycleType, Persist, InstallApps, FinishSetup, Go, Keep
<1>6. CASE \/ RemoveApps(p) \/ RotateGeneration(p) \/ MarkStopped(p)
           \/ RemoveState(p) \/ RemoveCache(p) \/ RemoveRoot(p)
  BY <1>1, <1>6 DEF LifecycleType, RemoveApps, RotateGeneration, MarkStopped, RemoveState,
                    RemoveCache, RemoveRoot, Go, Keep
<1> QED
  BY <1>2, <1>3, <1>4, <1>5, <1>6 DEF OfProcess

\* A section in one step looked, and was found current.
LEMMA CurrentActs ==
  ASSUME InstallAssumption, LifecycleInv, NEW p \in Procs,
         \/ RepairSkipped(p) \/ RepairOwed(p) \/ Repair(p) \/ NothingToRepair(p)
         \/ Heal(p) \/ UpdateInPlace(p) \/ SwapOut(p)
  PROVE  Final(p)
<1>1. proc[p].at # "idle"
  BY DEF RepairSkipped, RepairOwed, Repair, NothingToRepair, Heal, UpdateInPlace, SwapOut, Ready
<1>2. Current(p) \/ UNCHANGED disk
  BY DEF RepairSkipped, RepairOwed, Repair, NothingToRepair, Heal, UpdateInPlace, SwapOut, disk
<1> QED
  BY <1>1, <1>2, CurrentIsOpened DEF Final

\* One of several steps is still current, since it has the lock.
LEMMA MovingActs ==
  ASSUME LifecycleInv, NEW p \in Procs, proc[p].at \in Moving
  PROVE  Final(p)
BY DEF LifecycleInv, LookedSince, Final

\* A setup acts on the generation and the marker it looked at.
LEMMA SetupActs ==
  ASSUME InstallAssumption, LifecycleInv, NEW p \in Procs,
         Persist(p) \/ InstallApps(p) \/ FinishSetup(p)
  PROVE  Final(p)
<1>1. proc[p].cmd = "setup"
  BY DEF Persist, InstallApps, FinishSetup, Ready, LifecycleInv, InPlace, Setting
<1>2. CurrentForSetup(p) \/ UNCHANGED disk
  BY DEF Persist, InstallApps, FinishSetup, disk
<1>3. CurrentForSetup(p) => proc[p].since = closed
  BY DEF CurrentForSetup, LifecycleInv, LookedSince
<1> QED
  BY <1>1, <1>2, <1>3 DEF Final

\* An uninstall removes what it likes.
LEMMA UninstallActs ==
  ASSUME LifecycleInv, NEW p \in Procs, proc[p].at \in Removing
  PROVE  Final(p)
BY DEF LifecycleInv, InPlace, Final

\* The others change nothing of what an uninstall removes.
LEMMA OthersActNot ==
  ASSUME NEW p \in Procs,
         \/ Look(p) \/ LookAtVersion(p) \/ Contended(p) \/ Stop(p)
         \/ Claim(p) \/ Complete(p) \/ Finalize(p) \/ MarkVerified(p)
  PROVE  Final(p)
BY DEF Look, LookAtVersion, Contended, Stop, Claim, Complete, Finalize, MarkVerified, Final, disk

\* So no step of any command undoes an uninstall it did not see.
LEMMA EveryStepIsFinal ==
  ASSUME InstallAssumption, LifecycleInv, [Next]_vars
  PROVE  \A q \in Procs : Final(q)
<1>1. ASSUME NEW p \in Procs, OfProcess(p)
      PROVE  \A q \in Procs : Final(q)
  <2> SUFFICES Final(p)
    BY <1>1, OneMoves DEF LifecycleInv
  <2>1. CASE \/ RepairSkipped(p) \/ RepairOwed(p) \/ Repair(p) \/ NothingToRepair(p)
             \/ Heal(p) \/ UpdateInPlace(p) \/ SwapOut(p)
    BY <2>1, CurrentActs
  <2>2. CASE \/ SwapIn(p) \/ SyncUpdated(p) \/ RollBack(p) \/ PutBack(p) \/ Resync(p)
             \/ Commit(p)
    BY <2>2, MovingActs DEF SwapIn, SyncUpdated, RollBack, PutBack, Resync, Commit, Locked,
                            Moving
  <2>3. CASE Persist(p) \/ InstallApps(p) \/ FinishSetup(p)
    BY <2>3, SetupActs
  <2>4. CASE \/ RemoveApps(p) \/ RotateGeneration(p) \/ MarkStopped(p)
             \/ RemoveState(p) \/ RemoveCache(p) \/ RemoveRoot(p)
    BY <2>4, UninstallActs DEF RemoveApps, RotateGeneration, MarkStopped, RemoveState,
                               RemoveCache, RemoveRoot, Locked, Removing
  <2> QED
    BY <1>1, <2>1, <2>2, <2>3, <2>4, OthersActNot DEF OfProcess
<1>2. ASSUME NEW p \in Procs, NEW c \in Commands, Begin(p, c)
      PROVE  \A q \in Procs : Final(q)
  <2>1. proc[p].at = "idle"
    BY <1>2 DEF Begin, Idle
  <2>2. \A q \in Procs \ {p} : proc[q]' = proc[q]
    BY <1>2 DEF Begin, LifecycleInv, LifecycleType
  <2> QED
    BY <2>1, <2>2 DEF Final
<1>3. ASSUME UNCHANGED proc
      PROVE  \A q \in Procs : Final(q)
  BY <1>3 DEF Final
<1>4. CASE UNCHANGED vars \/ ClaimAges \/ Reinstall \/ OldReleaseComes
  BY <1>3, <1>4 DEF vars, ClaimAges, Reinstall, OldReleaseComes
<1> QED
  BY <1>1, <1>2, <1>4 DEF Next, OfProcess

\* An uninstall is final for everything that began before it (install_lifecycle.go),
\* however many commands run, are late, or are cut short.
THEOREM UninstallIsFinal == Spec => StaysUninstalled
<1>1. LifecycleInv /\ [Next]_vars => [\A q \in Procs : Final(q)]_vars
  BY InstallAssumption, EveryStepIsFinal
<1>2. [\A q \in Procs : Final(q)]_vars =>
        [\A p \in Procs :
           proc[p]' # proc[p] /\ proc[p].at # "idle" /\ proc[p].cmd # "uninstall"
             /\ disk' # disk =>
             proc[p].since = closed /\ (proc[p].cmd = "setup" \/ opened)]_vars
  BY DEF Final
<1> QED
  BY <1>1, <1>2, LifecycleInvariant, PTL DEF Spec, StaysUninstalled

-----------------------------------------------------------------------------
(* What a stamped version vouches for *)

Layouts == [st : {"none", "verified", "pending", "running"}, v : Nat, by : Nat, aged : BOOLEAN]
LayoutType ==
  /\ files \in [Apps -> SUBSET Nat] /\ plan \subseteq Apps /\ marker \in Layouts
  /\ knows \in BOOLEAN /\ owed \in BOOLEAN

\* The stamp v leaves no app behind that a repair would not find again: one in the plan,
\* or, as long as there is neither plan nor marker, one whose layout shows its age.
Tidy(v) ==
  state.verified = v /\ ~knows =>
    \A a \in state.tracked :
      \/ files[a] = {v}
      \/ a \in plan
      \/ 0 \in files[a] /\ marker.st = "none" /\ plan = {}

\* Without a bundle the owner was told, or nothing is tracked.
Bare(v) == v = None /\ ~knows => state.tracked = {}

\* An update carries what it moved aside, and never goes back behind a stamp.
Swapping(p) ==
  /\ proc[p].at = "swapIn" => Tidy(proc[p].prev) /\ Bare(proc[p].prev)
  /\ proc[p].at \in {"sync", "commit"} => Tidy(root) /\ root = MaxVersion
  /\ proc[p].at \in {"swapIn", "sync", "rollBack", "putBack"} =>
       (state.verified = MaxVersion => proc[p].prev \in {None, MaxVersion})

\* An uninstall empties one after the other.
Emptying(p) ==
  /\ proc[p].at \in {"state", "cache", "root"} => ~opened
  /\ proc[p].at \in {"cache", "root"} => state.tracked = {}
  /\ proc[p].at = "root" => marker.st = "none" /\ plan = {}

Latest == state.verified = MaxVersion => root \in {None, MaxVersion}
Unopened ==
  ~opened /\ ~knows /\ lock = None => marker.st = "none" /\ plan = {} /\ state.tracked = {}
OpenedIsSaved == opened => state.saved
OwedIsKept == owed => plan # {} \/ marker.st \in {"pending", "running"}

LayoutInv ==
  /\ LayoutType
  /\ lock = None => Tidy(root) /\ Bare(root)
  /\ \A p \in Procs : Swapping(p) /\ Emptying(p)
  /\ Latest /\ Unopened /\ OpenedIsSaved /\ OwedIsKept

\* With the lock free nobody is midway, so only the files and their stamps matter.
LEMMA LockIsFree ==
  ASSUME InstallAssumption, LifecycleInv', lock' = None, LayoutType', Tidy(root)', Bare(root)',
         Latest', Unopened', OpenedIsSaved', OwedIsKept'
  PROVE  LayoutInv'
<1>1. \A p \in Procs : proc'[p].at \notin Moving \cup (Removing \ {"apps"})
  BY DEF LifecycleInv, InPlace, InstallAssumption
<1>2. \A p \in Procs : Swapping(p)' /\ Emptying(p)'
  BY <1>1 DEF Swapping, Emptying, Moving, Removing
<1> QED
  BY <1>2 DEF LayoutInv

\* With the lock taken only its holder is.
LEMMA LockIsTaken ==
  ASSUME InstallAssumption, LifecycleInv', NEW p \in Procs, lock' = p, LayoutType',
         Swapping(p)', Emptying(p)', Latest', OpenedIsSaved', OwedIsKept'
  PROVE  LayoutInv'
<1>1. \A q \in Procs \ {p} : proc'[q].at \notin Moving \cup (Removing \ {"apps"})
  BY DEF LifecycleInv, InPlace, InstallAssumption
<1>2. \A q \in Procs : Swapping(q)' /\ Emptying(q)'
  BY <1>1 DEF Swapping, Emptying, Moving, Removing
<1>3. lock' # None
  BY DEF InstallAssumption
<1> QED
  BY <1>2, <1>3 DEF LayoutInv, Unopened

\* An installed app has the bundle's files, and every other what it had.
LEMMA Installing ==
  ASSUME LayoutType, root \in Nat, NEW apps, Install(apps)
  PROVE  /\ files' \in [Apps -> SUBSET Nat]
         /\ \A a \in Apps : files'[a] = IF a \in apps THEN {root} ELSE files[a]
BY DEF LayoutType, Install

\* An install that stops touches no app but those it was for.
LEMMA InstallingStops ==
  ASSUME LayoutType, root \in Nat, NEW apps \in SUBSET Apps, InstallStops(apps)
  PROVE  /\ files' \in [Apps -> SUBSET Nat]
         /\ \A a \in Apps \ apps : files'[a] = files[a]
<1>1. PICK last \in apps : \E done \in SUBSET (apps \ {last}) :
        \E half \in {files[last], files[last] \cup {root}, {}, {root}} :
          files' = [[a \in Apps |-> IF a \in done THEN {root} ELSE files[a]] EXCEPT ![last] = half]
  BY DEF InstallStops
<1>2. PICK done \in SUBSET (apps \ {last}) :
        \E half \in {files[last], files[last] \cup {root}, {}, {root}} :
          files' = [[a \in Apps |-> IF a \in done THEN {root} ELSE files[a]] EXCEPT ![last] = half]
  BY <1>1
<1>3. PICK half \in {files[last], files[last] \cup {root}, {}, {root}} :
        files' = [[a \in Apps |-> IF a \in done THEN {root} ELSE files[a]] EXCEPT ![last] = half]
  BY <1>2
<1>4. half \in SUBSET Nat /\ {root} \in SUBSET Nat
  BY <1>3 DEF LayoutType
<1> QED
  BY <1>2, <1>3, <1>4 DEF LayoutType

\* A sync leaves out only apps that have no files; with one left out the stamp stays, and
\* so does what it vouched for.
LEMMA Syncing ==
  ASSUME LifecycleType, LayoutType, NEW s \in Skippable, SyncAllBut(s),
         s = {} \/ knows' \/ (~knows /\ Tidy(root)), UNCHANGED <<root, marker, plan>>
  PROVE  /\ files' \in [Apps -> SUBSET Nat] /\ Tidy(root)'
         /\ state'.saved /\ state'.verified \in {root, state.verified}
<1>1. root \in Nat /\ Configured \subseteq Apps /\ s \subseteq Configured
  BY DEF LifecycleType, StateFile, Configured, Skippable
<1>2. \A a \in s : files[a] = {}
  BY DEF Skippable
<1>3. /\ files' \in [Apps -> SUBSET Nat]
      /\ \A a \in Apps : files'[a] = IF a \in Configured \ s THEN {root} ELSE files[a]
  BY <1>1, Installing DEF SyncAllBut
<1>4. /\ state'.saved /\ state'.tracked = Configured
      /\ state'.verified = IF s = {} THEN root ELSE state.verified
  BY DEF SyncAllBut, Save, Stamped
<1>5. ASSUME state'.verified = root, ~knows', NEW a \in Configured
      PROVE  files'[a] = {root} \/ a \in plan
  <2>1. CASE a \notin s
    BY <1>1, <1>3, <2>1
  <2>2. CASE a \in s
    <3>1. ~knows /\ Tidy(root) /\ state.verified = root /\ files[a] = {}
      BY <1>2, <1>4, <1>5, <2>2
    <3>2. a \in state.tracked
      BY <1>5, <3>1 DEF Configured
    <3> QED
      BY <3>1, <3>2 DEF Tidy
  <2> QED
    BY <2>1, <2>2
<1>6. Tidy(root)'
  BY <1>4, <1>5 DEF Tidy
<1> QED
  BY <1>3, <1>4, <1>6

\* A sync that fails leaves the stamp where it was.
LEMMA SyncingFails ==
  ASSUME LifecycleType, LayoutType, SyncFails
  PROVE  /\ files' \in [Apps -> SUBSET Nat] /\ state'.verified = state.verified
         /\ state.saved => state'.saved
<1>1. root \in Nat /\ Configured \in SUBSET Apps
  BY DEF LifecycleType, StateFile, Configured
<1> QED
  BY <1>1, InstallingStops DEF SyncFails, Save

-----------------------------------------------------------------------------
(* The layout, step by step *)

\* A step that changes neither files nor marks, of a process that moves or removes
\* nothing before or after it.
LEMMA NothingTouched ==
  ASSUME InstallAssumption, LifecycleInv, LifecycleInv', LayoutInv, NEW p \in Procs,
         \A q \in Procs \ {p} : proc'[q] = proc[q],
         proc'[p].at \notin Moving \cup (Removing \ {"apps"}),
         state'.saved = state.saved, state'.tracked = state.tracked,
         state'.verified = state.verified,
         UNCHANGED <<root, files, repair, lock, opened, knows>>
  PROVE  LayoutInv'
<1>1. UNCHANGED <<files, plan, marker, owed>>
  BY DEF repair
<1>2. LayoutType' /\ Latest' /\ Unopened' /\ OpenedIsSaved' /\ OwedIsKept'
  BY <1>1 DEF LayoutInv, LayoutType, Latest, Unopened, OpenedIsSaved, OwedIsKept
<1>3. lock' = None => Tidy(root)' /\ Bare(root)'
  BY <1>1 DEF LayoutInv, Tidy, Bare
<1>4. Swapping(p)' /\ Emptying(p)'
  BY DEF Swapping, Emptying, Moving, Removing
<1>5. ASSUME NEW q \in Procs \ {p}
      PROVE  Swapping(q)' /\ Emptying(q)'
  <2>1. proc'[q] = proc[q] /\ Swapping(q) /\ Emptying(q)
    BY DEF LayoutInv
  <2>2. Swapping(q)'
    BY <1>1, <2>1 DEF Swapping, Tidy, Bare
  <2>3. Emptying(q)'
    BY <1>1, <2>1 DEF Emptying
  <2> QED
    BY <2>2, <2>3
<1> QED
  BY <1>2, <1>3, <1>4, <1>5 DEF LayoutInv

\* A command begins, looks, finds the lock taken or its section needless, or dies between
\* two sections; a setup saves its state or drops the markers: the layout stays.
LEMMA LayoutStays ==
  ASSUME InstallAssumption, LifecycleInv, LifecycleInv', LayoutInv, NEW p \in Procs,
         \/ \E c \in Commands : Begin(p, c)
         \/ Look(p) \/ LookAtVersion(p) \/ Contended(p) \/ (Stop(p) /\ lock # p)
         \/ RepairSkipped(p) \/ FinishSetup(p)
  PROVE  LayoutInv'
<1>1. state \in StateFile /\ proc \in [Procs -> Process]
  BY DEF LifecycleInv, LifecycleType
<1>2. UNCHANGED <<root, files, repair, lock, opened, knows>>
  BY DEF Begin, Look, LookAtVersion, Contended, Stop, RepairSkipped, FinishSetup, disk,
         InstallAssumption
<1>3. state'.saved = state.saved /\ state'.tracked = state.tracked
      /\ state'.verified = state.verified
  BY <1>1 DEF Begin, Look, LookAtVersion, Contended, Stop, RepairSkipped, FinishSetup, disk,
              StateFile
<1>4. \A q \in Procs \ {p} : proc'[q] = proc[q]
  BY <1>1 DEF Begin, Look, LookAtVersion, Contended, Stop, RepairSkipped, FinishSetup, Go
<1>5. lock # p
  <2> DEFINE others == {"idle", "repair", "heal", "mark", "claim", "update", "persist",
                        "complete", "finalize", "finish"}
  <2>1. ASSUME proc[p].at \in others
        PROVE  lock # p
    BY <2>1 DEF LifecycleInv, InPlace, Moving, Removing
  <2>2. CASE \E c \in Commands : Begin(p, c)
    <3>1. PICK c \in Commands : Begin(p, c)
      BY <2>2
    <3>2. proc[p] = Idle
      BY <3>1, Zenon DEF Begin
    <3>3. proc[p].at \in others
      BY <3>2 DEF Idle
    <3> QED
      BY <2>1, <3>3
  <2>3. CASE Look(p) \/ LookAtVersion(p) \/ RepairSkipped(p) \/ FinishSetup(p)
    BY <2>1, <2>3 DEF Look, LookAtVersion, RepairSkipped, FinishSetup, Ready
  <2>4. CASE Contended(p)
    BY <2>4 DEF Contended
  <2> QED
    BY <2>2, <2>3, <2>4
<1>6. proc'[p].at \notin Moving \cup (Removing \ {"apps"})
  BY <1>2, <1>5 DEF LifecycleInv, InPlace
<1> QED
  BY <1>2, <1>3, <1>4, <1>6, NothingTouched

\* A process dies with the lock: the owner knows.
LEMMA DiesWithTheLock ==
  ASSUME InstallAssumption, LifecycleInv, LifecycleInv', LayoutInv, NEW p \in Procs,
         Stop(p), lock = p
  PROVE  LayoutInv'
<1>1. lock' = None /\ knows' = TRUE /\ UNCHANGED <<root, files, state, plan, marker, owed, opened>>
  BY DEF Stop, disk, repair
<1>2. LayoutType' /\ Latest' /\ OpenedIsSaved' /\ OwedIsKept'
  BY <1>1 DEF LayoutInv, LayoutType, Latest, OpenedIsSaved, OwedIsKept
<1>3. Tidy(root)' /\ Bare(root)' /\ Unopened'
  BY <1>1 DEF Tidy, Bare, Unopened
<1> QED
  BY <1>1, <1>2, <1>3, LockIsFree

\* What changes the marks and not the files: only a check that had nothing left to find
\* marks a version as verified.
LEMMA Marks ==
  ASSUME InstallAssumption, LifecycleInv, LifecycleInv', LayoutInv, NEW p \in Procs,
         \/ RepairOwed(p) \/ NothingToRepair(p) \/ Claim(p) \/ Complete(p) \/ Finalize(p)
         \/ MarkVerified(p)
  PROVE  LayoutInv'
<1>1. /\ lock = None /\ lock' = None /\ proc[p].at # "idle"
      /\ UNCHANGED <<root, files, state, plan, opened, knows>>
  BY DEF RepairOwed, NothingToRepair, Claim, Complete, Finalize, MarkVerified, Ready, disk
<1>2. proc[p].ver \in Nat /\ proc[p].n \in Nat
  BY DEF LifecycleInv, LifecycleType, Process
<1>3. \/ UNCHANGED <<marker, owed>>
      \/ /\ marker.st \in {"pending", "running"} /\ marker'.st \in {"pending", "running"}
         /\ UNCHANGED owed /\ Current(p)
      \/ /\ marker.st \in {"pending", "running"} /\ marker'.st # "none" /\ owed' = FALSE
      \/ /\ plan = {} /\ Stale = {} /\ marker.st \notin {"pending", "running"}
         /\ marker'.st # "none" /\ UNCHANGED owed /\ Current(p)
  <2>1. CASE RepairOwed(p)
    BY <2>1 DEF RepairOwed, Mark, Pending, Running, OfAnother
  <2>2. CASE NothingToRepair(p)
    BY <2>2 DEF NothingToRepair, Mark
  <2>3. CASE Claim(p)
    BY <2>3 DEF Claim, Mark, Pending, Running
  <2>4. CASE Complete(p)
    <3>1. CASE Current(p) /\ marker.st = "running" /\ marker.by = proc[p].n
      BY <2>4, <3>1 DEF Complete, Mark
    <3>2. CASE ~(Current(p) /\ marker.st = "running" /\ marker.by = proc[p].n)
      BY <2>4, <3>2 DEF Complete, LayoutInv, LayoutType
    <3> QED
      BY <3>1, <3>2
  <2>5. CASE Finalize(p)
    <3>1. CASE stop = None /\ Pending(proc[p].ver)
      BY <2>5, <3>1 DEF Finalize, Mark, Pending
    <3>2. CASE ~(stop = None /\ Pending(proc[p].ver))
      BY <2>5, <3>2 DEF Finalize, LayoutInv, LayoutType
    <3> QED
      BY <3>1, <3>2
  <2>6. CASE MarkVerified(p)
    BY <2>6 DEF MarkVerified, Mark, Markable, Pending, Running, OfAnother
  <2> QED
    BY <2>1, <2>2, <2>3, <2>4, <2>5, <2>6
<1>4. LayoutType' /\ Latest' /\ OpenedIsSaved' /\ Bare(root)'
  <2>1. \/ UNCHANGED marker
        \/ \E st \in {"pending", "running", "verified"}, by \in {None, proc[p].n} :
             marker' = Mark(st, proc[p].ver, by)
    BY DEF RepairOwed, NothingToRepair, Claim, Complete, Finalize, MarkVerified
  <2>2. marker' \in Layouts
    <3>1. \A st \in {"pending", "running", "verified"}, by \in {None, proc[p].n} :
            Mark(st, proc[p].ver, by) \in Layouts
      BY <1>2 DEF Layouts, Mark, None
    <3> QED
      BY <2>1, <3>1 DEF LayoutInv, LayoutType
  <2>3. owed' \in BOOLEAN
    <3>1. owed' = owed \/ owed' = FALSE
      BY <1>3
    <3> QED
      BY <3>1, Zenon DEF LayoutInv, LayoutType
  <2> QED
    BY <1>1, <2>2, <2>3 DEF LayoutInv, LayoutType, Latest, OpenedIsSaved, Bare
<1>5. Current(p) => opened
  BY <1>1, CurrentIsOpened
<1>6. OwedIsKept' /\ Unopened'
  BY <1>1, <1>3, <1>5 DEF LayoutInv, OwedIsKept, Unopened
<1>7. Tidy(root)'
  <2>1. state.tracked \subseteq Apps
    BY DEF LifecycleInv, LifecycleType, StateFile
  <2> QED
    BY <1>1, <1>3, <2>1 DEF LayoutInv, Tidy, Stale
<1> QED
  BY <1>1, <1>4, <1>6, <1>7, LockIsFree

\* A repair finds again whatever it did not finish: the plan comes before the files.
LEMMA Repairing ==
  ASSUME InstallAssumption, LifecycleInv, LifecycleInv', LayoutInv, NEW p \in Procs, Repair(p)
  PROVE  LayoutInv'
<1>1. /\ lock = None /\ lock' = None /\ Current(p) /\ proc[p].at # "idle"
      /\ UNCHANGED <<root, state, opened, knows>>
  BY DEF Repair, Ready
<1>2. opened
  BY <1>1, CurrentIsOpened
<1>3. /\ root \in Nat /\ proc[p].ver \in Nat /\ state.tracked \subseteq Apps /\ LayoutType
      /\ Tidy(root) /\ Bare(root)
  BY <1>1 DEF LifecycleInv, LifecycleType, StateFile, Process, LayoutInv
<1>4. ToRepair \in SUBSET Apps /\ ToRepair # {}
  BY <1>3 DEF Repair, ToRepair, Stale, LayoutType
<1>5. Mark("pending", proc[p].ver, None) \in Layouts /\ marker \in Layouts
  BY <1>3 DEF Layouts, Mark, None, LayoutType
<1>6. files' \in [Apps -> SUBSET Nat] /\ \A a \in Apps \ ToRepair : files'[a] = files[a]
  BY <1>3, <1>4, Installing, InstallingStops DEF Repair
<1>7. \/ plan' = {} /\ Install(ToRepair) /\ owed' = TRUE
         /\ marker' = Mark("pending", proc[p].ver, None)
      \/ /\ plan' = ToRepair /\ marker' \in {marker, Mark("pending", proc[p].ver, None)}
         /\ owed' \in {owed, TRUE}
  BY DEF Repair
<1>8. LayoutType'
  <2>1. owed' \in BOOLEAN
    BY <1>3, <1>7, Zenon DEF LayoutType
  <2>2. marker' \in Layouts /\ plan' \subseteq Apps
    BY <1>4, <1>5, <1>7
  <2> QED
    BY <1>1, <1>3, <1>6, <2>1, <2>2 DEF LayoutType
<1>9. Tidy(root)'
  <2> SUFFICES ASSUME state.verified = root, ~knows, NEW a \in state.tracked
               PROVE  files'[a] = {root} \/ a \in plan'
    BY <1>1 DEF Tidy
  <2>1. a \in Apps /\ (files[a] = {root} \/ a \in ToRepair)
    BY <1>3 DEF Tidy, ToRepair, Stale
  <2>2. CASE plan' = ToRepair
    BY <1>6, <2>1, <2>2
  <2>3. CASE Install(ToRepair)
    BY <1>3, <2>1, <2>3, Installing
  <2> QED
    BY <1>7, <2>2, <2>3
<1>10. OwedIsKept'
  BY <1>4, <1>7 DEF OwedIsKept, Mark
<1>11. Bare(root)' /\ Latest' /\ Unopened' /\ OpenedIsSaved'
  BY <1>1, <1>2, <1>3 DEF LayoutInv, Bare, Latest, Unopened, OpenedIsSaved
<1> QED
  BY <1>1, <1>8, <1>9, <1>10, <1>11, LockIsFree

\* A sync in one section, or its failure, of which the owner hears where it matters.
LEMMA SyncsInOne ==
  ASSUME InstallAssumption, LifecycleInv, LifecycleInv', LayoutInv, NEW p \in Procs,
         Heal(p) \/ UpdateInPlace(p)
  PROVE  LayoutInv'
<1>1. /\ lock = None /\ lock' = None /\ proc[p].at # "idle"
      /\ UNCHANGED <<root, plan, marker, owed, opened>>
  BY DEF Heal, UpdateInPlace, Ready, repair
<1>2. /\ root \in Nat /\ LifecycleType /\ LayoutType /\ Tidy(root) /\ Bare(root) /\ Latest
      /\ OpenedIsSaved /\ OwedIsKept
  BY <1>1 DEF LifecycleInv, LifecycleType, LayoutInv
<1>3. \/ UNCHANGED <<files, state, knows>>
      \/ /\ Current(p) /\ root # None
         /\ \/ Sync
            \/ SyncFails /\ (knows' = TRUE \/ (knows' = knows /\ state.verified # root))
  BY <1>2 DEF Heal, UpdateInPlace, LayoutType
<1>4. CASE UNCHANGED <<files, state, knows>>
  BY <1>1, <1>2, <1>4, LockIsFree
     DEF LayoutInv, LayoutType, Tidy, Bare, Latest, Unopened, OpenedIsSaved, OwedIsKept
<1>5. ASSUME Current(p), root # None, files' \in [Apps -> SUBSET Nat], Tidy(root)',
             state.saved => state'.saved, state'.verified \in {root, state.verified},
             knows' \in BOOLEAN
      PROVE  LayoutInv'
  <2>1. opened /\ state.saved
    BY <1>1, <1>2, <1>5, CurrentIsOpened DEF OpenedIsSaved
  <2>2. LayoutType' /\ Bare(root)' /\ Latest' /\ Unopened' /\ OpenedIsSaved' /\ OwedIsKept'
    BY <1>1, <1>2, <1>5, <2>1 DEF LayoutType, Bare, Latest, Unopened, OpenedIsSaved, OwedIsKept
  <2> QED
    BY <1>1, <1>5, <2>2, LockIsFree
<1>6. CASE Current(p) /\ root # None /\ Sync
  <2>1. PICK s \in Skippable : SyncAllBut(s) /\ knows' = (knows /\ s # {})
    BY <1>6 DEF Sync
  <2>2. s = {} \/ knows' \/ (~knows /\ Tidy(root))
    BY <1>2, <2>1
  <2>3. knows' \in BOOLEAN
    BY <2>1, Zenon
  <2> QED
    BY <1>1, <1>2, <1>5, <1>6, <2>1, <2>2, <2>3, Syncing
<1>7. CASE /\ Current(p) /\ root # None /\ SyncFails
           /\ knows' = TRUE \/ (knows' = knows /\ state.verified # root)
  <2>1. knows' \in BOOLEAN
    BY <1>2, <1>7, Zenon DEF LayoutType
  <2>2. /\ files' \in [Apps -> SUBSET Nat] /\ state'.verified = state.verified
        /\ state.saved => state'.saved
    BY <1>2, <1>7, SyncingFails
  <2>3. Tidy(root)'
    BY <1>1, <1>2, <1>7, <2>2 DEF Tidy
  <2> QED
    BY <1>5, <1>7, <2>1, <2>2, <2>3
<1> QED
  BY <1>3, <1>4, <1>6, <1>7

\* An update takes the lock and moves the bundle aside, or does not begin.
LEMMA MovesAside ==
  ASSUME InstallAssumption, LifecycleInv, LifecycleInv', LayoutInv, NEW p \in Procs, SwapOut(p)
  PROVE  LayoutInv'
<1>1. /\ lock = None /\ proc \in [Procs -> Process]
      /\ UNCHANGED <<files, state, plan, marker, owed, opened, knows>>
  BY DEF SwapOut, Ready, repair, LifecycleInv, LifecycleType
<1>2. LayoutType' /\ OpenedIsSaved' /\ OwedIsKept'
  BY <1>1 DEF LayoutInv, LayoutType, OpenedIsSaved, OwedIsKept
<1>3. CASE Current(p)
  <2>1. /\ lock' = p /\ root' = None /\ proc'[p].at = "swapIn" /\ proc'[p].prev = root
    BY <1>1, <1>3 DEF SwapOut, Process
  <2>2. Swapping(p)' /\ Emptying(p)' /\ Latest'
    BY <1>1, <2>1 DEF LayoutInv, Swapping, Emptying, Tidy, Bare, Latest
  <2> QED
    BY <1>2, <2>1, <2>2, LockIsTaken
<1>4. CASE ~Current(p)
  <2>1. lock' = None /\ root' = root
    BY <1>1, <1>4 DEF SwapOut
  <2> QED
    BY <1>1, <1>2, <2>1, LockIsFree DEF LayoutInv, Tidy, Bare, Latest, Unopened
<1> QED
  BY <1>3, <1>4

\* The new bundle vouches for what the one moved aside did, and going back for nothing
\* that it did not.
LEMMA MovesOn ==
  ASSUME InstallAssumption, LifecycleInv, LifecycleInv', LayoutInv, NEW p \in Procs,
         SwapIn(p) \/ RollBack(p) \/ PutBack(p) \/ Commit(p)
  PROVE  LayoutInv'
<1>1. /\ lock = p /\ proc \in [Procs -> Process] /\ Swapping(p) /\ opened
      /\ UNCHANGED <<files, state, plan, marker, owed, opened, knows>>
  BY DEF SwapIn, RollBack, PutBack, Commit, Locked, repair, disk, LifecycleInv, LifecycleType,
         LookedSince, Moving, LayoutInv
<1>2. LayoutType' /\ OpenedIsSaved' /\ OwedIsKept'
  BY <1>1 DEF LayoutInv, LayoutType, OpenedIsSaved, OwedIsKept
<1>3. ASSUME lock' = None, Tidy(root)', Bare(root)', Latest'
      PROVE  LayoutInv'
  BY <1>1, <1>2, <1>3, LockIsFree DEF Unopened
<1>4. ASSUME lock' = p, proc'[p].at \in Moving, Swapping(p)', Latest'
      PROVE  LayoutInv'
  <2>1. Emptying(p)'
    BY <1>4 DEF Emptying, Moving
  <2> QED
    BY <1>2, <1>4, <2>1, LockIsTaken
<1>5. CASE SwapIn(p)
  <2>1. proc[p].at = "swapIn"
    BY <1>5 DEF SwapIn, Locked
  <2>2. CASE root' = MaxVersion /\ Keep(p, "sync") /\ UNCHANGED lock
    <3>1. /\ lock' = p /\ proc'[p].at = "sync" /\ proc'[p].prev = proc[p].prev
      BY <1>1, <2>2 DEF Keep, Process
    <3>2. Tidy(root)' /\ Latest'
      BY <1>1, <2>1, <2>2 DEF Swapping, Tidy, Bare, Latest
    <3>3. Swapping(p)'
      BY <1>1, <2>1, <2>2, <3>1, <3>2 DEF Swapping
    <3> QED
      BY <1>4, <3>1, <3>2, <3>3 DEF Moving
  <2>3. CASE root' = proc[p].prev /\ lock' = None
    BY <1>1, <1>3, <2>1, <2>3 DEF Swapping, Tidy, Bare, Latest
  <2> QED
    BY <1>5, <2>2, <2>3 DEF SwapIn
<1>6. CASE RollBack(p)
  <2>1. /\ lock' = p /\ proc[p].at = "rollBack" /\ proc'[p].at = "putBack"
        /\ proc'[p].prev = proc[p].prev /\ root' = None
    BY <1>1, <1>6 DEF RollBack, Locked, Keep, Process
  <2> QED
    BY <1>1, <1>4, <2>1 DEF Swapping, Latest, Moving
<1>7. CASE PutBack(p)
  <2>1. /\ lock' = p /\ proc[p].at = "putBack" /\ proc'[p].at = "resync"
        /\ root' = proc[p].prev
    BY <1>1, <1>7 DEF PutBack, Locked, Keep, Process
  <2> QED
    BY <1>1, <1>4, <2>1 DEF Swapping, Latest, Moving
<1>8. CASE Commit(p)
  <2>1. lock' = None /\ proc[p].at = "commit" /\ UNCHANGED root
    BY <1>8 DEF Commit, Locked, disk
  <2>2. root # None
    BY <1>1, <2>1 DEF Swapping, InstallAssumption, None
  <2> QED
    BY <1>1, <1>3, <2>1, <2>2 DEF Swapping, Tidy, Bare, Latest, LayoutInv
<1> QED
  BY <1>5, <1>6, <1>7, <1>8

\* The sync of an update, and the one after it was undone.
LEMMA SyncsUnderTheLock ==
  ASSUME InstallAssumption, LifecycleInv, LifecycleInv', LayoutInv, NEW p \in Procs,
         SyncUpdated(p) \/ Resync(p)
  PROVE  LayoutInv'
<1>1. /\ lock = p /\ proc \in [Procs -> Process] /\ Swapping(p) /\ opened /\ state.saved
      /\ LifecycleType /\ LayoutType /\ Latest /\ OwedIsKept
      /\ UNCHANGED <<root, plan, marker, owed, opened>>
  BY DEF SyncUpdated, Resync, Locked, repair, LifecycleInv, LifecycleType, LookedSince, Moving,
         LayoutInv, OpenedIsSaved
<1>2. CASE SyncUpdated(p)
  <2>1. /\ lock' = p /\ proc[p].at = "sync" /\ root = MaxVersion /\ Tidy(root)
        /\ proc'[p].prev = proc[p].prev
    BY <1>1, <1>2 DEF SyncUpdated, Locked, Keep, Process, Swapping
  <2>2. CASE Sync /\ Keep(p, "commit")
    <3>1. PICK s \in Skippable : SyncAllBut(s) /\ knows' = (knows /\ s # {})
      BY <2>2 DEF Sync
    <3>2. s = {} \/ knows' \/ (~knows /\ Tidy(root))
      BY <2>1, <3>1
    <3>3. /\ files' \in [Apps -> SUBSET Nat] /\ Tidy(root)' /\ state'.saved
          /\ state'.verified \in {root, state.verified}
      BY <1>1, <3>1, <3>2, Syncing
    <3>4. knows' \in BOOLEAN
      BY <3>1, Zenon
    <3>5. proc'[p].at = "commit"
      BY <1>1, <2>2 DEF Keep, Process
    <3>6. LayoutType' /\ Latest' /\ OpenedIsSaved' /\ OwedIsKept'
      BY <1>1, <3>3, <3>4 DEF LayoutType, Latest, OpenedIsSaved, OwedIsKept
    <3>7. Swapping(p)' /\ Emptying(p)'
      BY <1>1, <2>1, <3>3, <3>5 DEF Swapping, Emptying
    <3> QED
      BY <2>1, <3>6, <3>7, LockIsTaken
  <2>3. CASE SyncFails /\ Keep(p, "rollBack") /\ UNCHANGED knows
    <3>1. /\ files' \in [Apps -> SUBSET Nat] /\ state'.verified = state.verified /\ state'.saved
      BY <1>1, <2>3, SyncingFails
    <3>2. proc'[p].at = "rollBack"
      BY <1>1, <2>3 DEF Keep, Process
    <3>3. LayoutType' /\ Latest' /\ OpenedIsSaved' /\ OwedIsKept'
      BY <1>1, <2>3, <3>1 DEF LayoutType, Latest, OpenedIsSaved, OwedIsKept
    <3>4. Swapping(p)' /\ Emptying(p)'
      BY <1>1, <2>1, <3>1, <3>2 DEF Swapping, Emptying
    <3> QED
      BY <2>1, <3>3, <3>4, LockIsTaken
  <2> QED
    BY <1>2, <2>2, <2>3 DEF SyncUpdated
<1>3. CASE Resync(p)
  <2>1. lock' = None
    BY <1>3 DEF Resync
  <2>2. ASSUME knows' \in BOOLEAN, files' \in [Apps -> SUBSET Nat], state'.saved,
               state'.verified \in {root, state.verified}, Tidy(root)', Bare(root)'
        PROVE  LayoutInv'
    <3>1. LayoutType' /\ Latest' /\ Unopened' /\ OpenedIsSaved' /\ OwedIsKept'
      BY <1>1, <2>2 DEF LayoutType, Latest, Unopened, OpenedIsSaved, OwedIsKept
    <3> QED
      BY <2>1, <2>2, <3>1, LockIsFree
  <2>3. CASE root = None /\ knows' = TRUE /\ UNCHANGED <<files, state>>
    BY <1>1, <2>2, <2>3 DEF LayoutType, Tidy, Bare
  <2>4. ASSUME root # None, NEW s \in Skippable, SyncAllBut(s), knows' = (s # {})
        PROVE  LayoutInv'
    <3>1. s = {} \/ knows'
      BY <2>4
    <3>2. /\ files' \in [Apps -> SUBSET Nat] /\ Tidy(root)' /\ state'.saved
          /\ state'.verified \in {root, state.verified}
      BY <1>1, <2>4, <3>1, Syncing
    <3>3. knows' \in BOOLEAN /\ Bare(root)'
      BY <1>1, <2>4, Zenon DEF Bare
    <3> QED
      BY <2>2, <3>2, <3>3
  <2>5. CASE SyncFails /\ knows' = TRUE
    <3>1. /\ files' \in [Apps -> SUBSET Nat] /\ state'.verified = state.verified /\ state'.saved
      BY <1>1, <2>5, SyncingFails
    <3> QED
      BY <2>2, <2>5, <3>1 DEF Tidy, Bare
  <2> QED
    BY <1>3, <2>3, <2>4, <2>5 DEF Resync
<1> QED
  BY <1>2, <1>3

\* A setup saves the state, and stamps the version only when it left no tracked app out.
LEMMA SetsUp ==
  ASSUME InstallAssumption, LifecycleInv, LifecycleInv', LayoutInv, NEW p \in Procs,
         Persist(p) \/ InstallApps(p)
  PROVE  LayoutInv'
<1>1. /\ lock = None /\ lock' = None /\ root \in Nat /\ state.tracked \subseteq Apps
      /\ LayoutType /\ Tidy(root) /\ Bare(root) /\ Latest /\ Unopened /\ OpenedIsSaved
      /\ OwedIsKept /\ UNCHANGED <<root, plan, marker, owed>>
  BY DEF Persist, InstallApps, Ready, repair, LifecycleInv, LifecycleType, StateFile, LayoutInv
<1>2. ASSUME UNCHANGED <<files, knows>>, state'.tracked = state.tracked,
             state'.verified = state.verified,
             UNCHANGED <<state, opened>> \/ (state'.saved /\ opened')
      PROVE  LayoutInv'
  <2>1. LayoutType' /\ Tidy(root)' /\ Bare(root)' /\ Latest' /\ OwedIsKept'
    BY <1>1, <1>2 DEF LayoutType, Tidy, Bare, Latest, OwedIsKept
  <2>2. Unopened' /\ OpenedIsSaved'
    BY <1>1, <1>2 DEF Unopened, OpenedIsSaved
  <2> QED
    BY <1>1, <2>1, <2>2, LockIsFree
<1>3. CASE UNCHANGED <<files, state, knows, opened>>
  BY <1>2, <1>3
<1>4. CASE Persist(p)
  BY <1>2, <1>4 DEF Persist, Save
<1>5. CASE InstallApps(p) /\ CurrentForSetup(p) /\ root # None
  <2>1. opened /\ UNCHANGED opened /\ state.saved
    BY <1>1, <1>5 DEF InstallApps, Ready, CurrentForSetup, LifecycleInv, LookedSince,
                      OpenedIsSaved
  <2>2. ASSUME files' \in [Apps -> SUBSET Nat], knows' \in BOOLEAN, Tidy(root)',
               state'.saved, state'.verified \in {root, state.verified}
        PROVE  LayoutInv'
    <3>1. LayoutType' /\ Bare(root)' /\ Latest' /\ Unopened' /\ OpenedIsSaved' /\ OwedIsKept'
      BY <1>1, <1>5, <2>1, <2>2
         DEF LayoutType, Bare, Latest, Unopened, OpenedIsSaved, OwedIsKept
    <3> QED
      BY <1>1, <2>2, <3>1, LockIsFree
  <2>3. ASSUME NEW chosen \in SUBSET Apps, Install(chosen),
               Save(state.tracked \cup chosen, Stamped(state.tracked \subseteq chosen)),
               knows' = (knows /\ ~(state.tracked \subseteq chosen))
        PROVE  LayoutInv'
    <3>1. /\ files' \in [Apps -> SUBSET Nat]
          /\ \A a \in Apps : files'[a] = IF a \in chosen THEN {root} ELSE files[a]
      BY <1>1, <2>3, Installing
    <3>2. /\ state'.saved /\ state'.tracked = state.tracked \cup chosen
          /\ state'.verified = IF state.tracked \subseteq chosen THEN root ELSE state.verified
      BY <2>3 DEF Save, Stamped
    <3>3. knows' \in BOOLEAN /\ (state.tracked \subseteq chosen \/ (knows <=> knows'))
      BY <2>3, Zenon
    <3>4. Tidy(root)'
      <4>1. CASE state.tracked \subseteq chosen
        BY <1>1, <3>1, <3>2, <4>1 DEF Tidy
      <4>2. CASE ~(state.tracked \subseteq chosen)
        BY <1>1, <3>1, <3>2, <3>3, <4>2 DEF Tidy
      <4> QED
        BY <4>1, <4>2
    <3> QED
      BY <2>2, <3>1, <3>2, <3>3, <3>4
  <2>4. ASSUME NEW chosen \in SUBSET Apps, InstallStops(chosen), knows' = TRUE, UNCHANGED state
        PROVE  LayoutInv'
    BY <1>1, <2>1, <2>2, <2>4, InstallingStops DEF Tidy
  <2> QED
    BY <1>5, <2>3, <2>4 DEF InstallApps
<1> QED
  BY <1>3, <1>4, <1>5 DEF InstallApps

\* An uninstall begins with the copied files, and has the lock from then on.
LEMMA RemovesApps ==
  ASSUME InstallAssumption, LifecycleInv, LifecycleInv', LayoutInv, NEW p \in Procs,
         RemoveApps(p)
  PROVE  LayoutInv'
<1>1. /\ lock = None /\ proc \in [Procs -> Process] /\ files' \in [Apps -> SUBSET Nat]
      /\ UNCHANGED <<root, state, plan, marker, owed, opened>>
  BY DEF RemoveApps, repair, LifecycleInv, LifecycleType, LayoutInv, LayoutType
<1>2. knows' \in BOOLEAN
  BY DEF RemoveApps, LayoutInv, LayoutType
<1>3. LayoutType' /\ Latest' /\ OpenedIsSaved' /\ OwedIsKept'
  BY <1>1, <1>2 DEF LayoutInv, LayoutType, Latest, OpenedIsSaved, OwedIsKept
<1>4. CASE lock' = p /\ Keep(p, "rotate")
  <2>1. proc'[p].at = "rotate"
    BY <1>1, <1>4 DEF Keep, Process
  <2>2. Swapping(p)' /\ Emptying(p)'
    BY <2>1 DEF Swapping, Emptying
  <2> QED
    BY <1>3, <1>4, <2>2, LockIsTaken
<1>5. CASE knows' = TRUE /\ UNCHANGED lock
  BY <1>1, <1>3, <1>5, LockIsFree DEF Tidy, Bare, Unopened
<1> QED
  BY <1>4, <1>5 DEF RemoveApps

\* Generation and markers, then the state, the plan and the marker, and last the bundle.
LEMMA RemovesTheRest ==
  ASSUME InstallAssumption, LifecycleInv, LifecycleInv', LayoutInv, NEW p \in Procs,
         \/ RotateGeneration(p) \/ MarkStopped(p) \/ RemoveState(p) \/ RemoveCache(p)
         \/ RemoveRoot(p)
  PROVE  LayoutInv'
<1>1. /\ lock = p /\ proc \in [Procs -> Process] /\ LayoutType /\ Latest /\ OpenedIsSaved
      /\ OwedIsKept /\ Emptying(p) /\ UNCHANGED files
  BY DEF RotateGeneration, MarkStopped, RemoveState, RemoveCache, RemoveRoot, Locked, disk,
         LifecycleInv, LifecycleType, LayoutInv
<1>2. ASSUME NEW x \in {"stop", "state", "cache", "root"}, Keep(p, x), UNCHANGED lock,
             LayoutType', Latest', OpenedIsSaved', OwedIsKept',
             x # "stop" => ~opened',
             x \in {"cache", "root"} => state'.tracked = {},
             x = "root" => marker'.st = "none" /\ plan' = {}
      PROVE  LayoutInv'
  <2>1. proc'[p].at = x
    BY <1>1, <1>2 DEF Keep, Process
  <2>2. Swapping(p)' /\ Emptying(p)'
    BY <1>2, <2>1 DEF Swapping, Emptying
  <2> QED
    BY <1>1, <1>2, <2>2, LockIsTaken
<1>3. CASE RotateGeneration(p)
  <2>1. /\ Keep(p, "stop") /\ UNCHANGED <<lock, root, state, plan, marker, owed, opened, knows>>
    BY <1>3 DEF RotateGeneration, disk, repair
  <2>2. LayoutType' /\ Latest' /\ OpenedIsSaved' /\ OwedIsKept'
    BY <1>1, <2>1 DEF LayoutType, Latest, OpenedIsSaved, OwedIsKept
  <2> QED
    BY <1>2, <2>1, <2>2
<1>4. CASE MarkStopped(p)
  <2>1. /\ Keep(p, "state") /\ UNCHANGED <<lock, root, plan, marker, owed, knows>>
        /\ opened' = FALSE /\ state' = [state EXCEPT !.newer = FALSE]
    BY <1>4 DEF MarkStopped, repair
  <2>2. state'.verified = state.verified
    BY <2>1 DEF LifecycleInv, LifecycleType, StateFile
  <2>3. LayoutType' /\ Latest' /\ OpenedIsSaved' /\ OwedIsKept'
    BY <1>1, <2>1, <2>2 DEF LayoutType, Latest, OpenedIsSaved, OwedIsKept
  <2> QED
    BY <1>2, <2>1, <2>3
<1>5. CASE RemoveState(p)
  <2>1. /\ Keep(p, "cache") /\ UNCHANGED <<lock, root, plan, marker, owed, opened, knows>>
        /\ proc[p].at = "state" /\ state'.tracked = {} /\ state'.verified = None
    BY <1>5 DEF RemoveState, Locked, repair, NoState
  <2>2. ~opened'
    BY <1>1, <2>1 DEF Emptying
  <2>3. LayoutType' /\ Latest' /\ OpenedIsSaved' /\ OwedIsKept'
    BY <1>1, <2>1, <2>2 DEF LayoutType, Latest, OpenedIsSaved, OwedIsKept, InstallAssumption,
                            None
  <2> QED
    BY <1>2, <2>1, <2>2, <2>3
<1>6. CASE RemoveCache(p)
  <2>1. /\ Keep(p, "root") /\ UNCHANGED <<lock, root, state, opened, knows>>
        /\ proc[p].at = "cache" /\ marker' = NoMark /\ plan' = {} /\ owed' = FALSE
    BY <1>6 DEF RemoveCache, Locked, disk
  <2>2. NoMark \in Layouts /\ NoMark.st = "none"
    BY DEF NoMark, Mark, Layouts, None
  <2>3. LayoutType' /\ Latest' /\ OpenedIsSaved' /\ OwedIsKept'
    BY <1>1, <2>1, <2>2 DEF LayoutType, Latest, OpenedIsSaved, OwedIsKept
  <2>4. ~opened' /\ state'.tracked = {}
    BY <1>1, <2>1 DEF Emptying
  <2> QED
    BY <1>2, <2>1, <2>2, <2>3, <2>4
<1>7. CASE RemoveRoot(p)
  <2>1. /\ lock' = None /\ root' = None /\ knows' = FALSE /\ proc[p].at = "root"
        /\ UNCHANGED <<state, plan, marker, owed, opened>>
    BY <1>7 DEF RemoveRoot, Locked, repair
  <2>2. /\ ~opened /\ state.tracked = {} /\ marker.st = "none" /\ plan = {}
    BY <1>1, <2>1 DEF Emptying
  <2>3. LayoutType' /\ Latest' /\ OpenedIsSaved' /\ OwedIsKept'
    BY <1>1, <2>1 DEF LayoutType, Latest, OpenedIsSaved, OwedIsKept
  <2>4. Tidy(root)' /\ Bare(root)' /\ Unopened'
    BY <2>1, <2>2 DEF Tidy, Bare, Unopened
  <2> QED
    BY <2>1, <2>3, <2>4, LockIsFree
<1> QED
  BY <1>3, <1>4, <1>5, <1>6, <1>7

\* Releases that come without the lock find the state as the uninstall left it.
LEMMA ReleasesCome ==
  ASSUME InstallAssumption, LifecycleInv, LifecycleInv', LayoutInv,
         ClaimAges \/ Reinstall \/ OldReleaseComes
  PROVE  LayoutInv'
<1>1. LayoutType /\ Latest /\ Unopened /\ OpenedIsSaved /\ OwedIsKept
  BY DEF LayoutInv
<1>2. CASE ClaimAges
  <2>1. /\ UNCHANGED <<root, files, state, plan, owed, lock, proc, opened, knows>>
        /\ marker' \in Layouts /\ marker'.st = marker.st
    BY <1>1, <1>2 DEF ClaimAges, disk, LayoutType, Layouts
  <2>2. LayoutType' /\ Latest' /\ Unopened' /\ OpenedIsSaved' /\ OwedIsKept'
    BY <1>1, <2>1 DEF LayoutType, Latest, Unopened, OpenedIsSaved, OwedIsKept
  <2>3. lock' = None => Tidy(root)' /\ Bare(root)'
    BY <2>1 DEF LayoutInv, Tidy, Bare
  <2>4. \A p \in Procs : Swapping(p)' /\ Emptying(p)'
    BY <2>1 DEF LayoutInv, Swapping, Emptying, Tidy, Bare
  <2> QED
    BY <2>2, <2>3, <2>4 DEF LayoutInv
<1>3. CASE Reinstall
  <2>1. /\ root = None /\ root' = MaxVersion /\ lock = None /\ lock' = None
        /\ UNCHANGED <<files, state, plan, marker, owed, opened, knows>>
    BY <1>3 DEF Reinstall, repair
  <2>2. LayoutType' /\ Latest' /\ Unopened' /\ OpenedIsSaved' /\ OwedIsKept'
    BY <1>1, <2>1 DEF LayoutType, Latest, Unopened, OpenedIsSaved, OwedIsKept
  <2>3. Tidy(root)' /\ Bare(root)'
    BY <2>1 DEF LayoutInv, Tidy, Bare, InstallAssumption, None
  <2> QED
    BY <2>1, <2>2, <2>3, LockIsFree
<1>4. CASE OldReleaseComes
  <2>1. /\ root' = 1 /\ lock = None /\ lock' = None /\ opened' = TRUE /\ ~state.saved
        /\ UNCHANGED <<plan, marker, owed, knows>>
        /\ state' = [saved |-> TRUE, newer |-> TRUE, tracked |-> Apps, verified |-> 1]
    BY <1>4 DEF OldReleaseComes, repair
  <2>2. PICK v \in {0, 1} : files' = [a \in Apps |-> {v}]
    BY <1>4 DEF OldReleaseComes
  <2>3. knows \/ (marker.st = "none" /\ plan = {})
    BY <1>1, <2>1 DEF Unopened, OpenedIsSaved
  <2>4. LayoutType' /\ Latest' /\ Unopened' /\ OpenedIsSaved' /\ OwedIsKept'
    BY <1>1, <2>1, <2>2 DEF LayoutType, Latest, Unopened, OpenedIsSaved, OwedIsKept
  <2>5. \A a \in Apps : files'[a] = {1} \/ 0 \in files'[a]
    BY <2>2
  <2>6. Tidy(root)' /\ Bare(root)'
    BY <2>1, <2>3, <2>5 DEF Tidy, Bare, None
  <2> QED
    BY <2>1, <2>4, <2>6, LockIsFree
<1> QED
  BY <1>2, <1>3, <1>4

\* Both beginnings are tidy: the copied files are of release 1 or show their age, or there
\* are none and none is tracked.
LEMMA LayoutInit ==
  ASSUME InstallAssumption, Init
  PROVE  LayoutInv
<1>1. /\ root = 1 /\ marker = NoMark /\ plan = {} /\ knows = FALSE /\ owed = FALSE
      /\ proc = [p \in Procs |-> Idle]
  BY DEF Init
<1>2. \/ /\ files = [a \in Apps |-> {0}] /\ opened = TRUE
         /\ state = [saved |-> TRUE, newer |-> FALSE, tracked |-> Apps, verified |-> 1]
      \/ files = [a \in Apps |-> {}] /\ opened = FALSE /\ state = NoState
  BY DEF Init
<1>3. NoMark \in Layouts /\ NoMark.st = "none"
  BY DEF NoMark, Mark, Layouts, None
<1>4. LayoutType
  <2>1. files \in [Apps -> SUBSET Nat]
    <3>1. CASE files = [a \in Apps |-> {0}]
      BY <3>1
    <3>2. CASE files = [a \in Apps |-> {}]
      BY <3>2
    <3> QED
      BY <1>2, <3>1, <3>2
  <2> QED
    BY <1>1, <1>3, <2>1 DEF LayoutType
<1>5. \A p \in Procs : Swapping(p) /\ Emptying(p)
  BY <1>1 DEF Swapping, Emptying, Idle
<1>6. \/ opened /\ state.saved /\ state.verified = 1 /\ \A a \in Apps : 0 \in files[a]
      \/ ~opened /\ state.tracked = {} /\ state.verified = None
  <2>1. CASE /\ files = [a \in Apps |-> {0}] /\ opened = TRUE
             /\ state = [saved |-> TRUE, newer |-> FALSE, tracked |-> Apps, verified |-> 1]
    BY <2>1
  <2>2. CASE opened = FALSE /\ state = NoState
    BY <2>2 DEF NoState
  <2> QED
    BY <1>2, <2>1, <2>2
<1>7. state.tracked \subseteq Apps
  BY <1>2 DEF NoState
<1>8. Tidy(root) /\ Bare(root)
  BY <1>1, <1>3, <1>6, <1>7 DEF Tidy, Bare, None
<1>9. Latest /\ OpenedIsSaved
  BY <1>1, <1>6 DEF Latest, OpenedIsSaved, InstallAssumption, None
<1>10. Unopened /\ OwedIsKept
  <2>1. opened \/ state.tracked = {}
    BY <1>6
  <2> QED
    BY <1>1, <1>3, <2>1 DEF Unopened, OwedIsKept
<1> QED
  BY <1>4, <1>5, <1>8, <1>9, <1>10 DEF LayoutInv

\* And every step keeps it.
LEMMA LayoutNext ==
  ASSUME InstallAssumption, LifecycleInv, LayoutInv, [Next]_vars
  PROVE  LayoutInv'
<1>1. LifecycleInv'
  BY LifecycleNext
<1>2. ASSUME NEW p \in Procs, NEW c \in Commands, Begin(p, c)
      PROVE  LayoutInv'
  BY <1>1, <1>2, LayoutStays
<1>3. ASSUME NEW p \in Procs, OfProcess(p)
      PROVE  LayoutInv'
  <2>1. CASE \/ Look(p) \/ LookAtVersion(p) \/ Contended(p) \/ Stop(p) \/ RepairSkipped(p)
             \/ FinishSetup(p)
    BY <1>1, <2>1, LayoutStays, DiesWithTheLock
  <2>2. CASE \/ RepairOwed(p) \/ NothingToRepair(p) \/ Claim(p) \/ Complete(p) \/ Finalize(p)
             \/ MarkVerified(p)
    BY <1>1, <2>2, Marks
  <2>3. CASE \/ Repair(p) \/ Heal(p) \/ UpdateInPlace(p) \/ Persist(p) \/ InstallApps(p)
    BY <1>1, <2>3, Repairing, SyncsInOne, SetsUp
  <2>4. CASE \/ SwapOut(p) \/ SwapIn(p) \/ SyncUpdated(p) \/ RollBack(p) \/ PutBack(p)
             \/ Resync(p) \/ Commit(p)
    BY <1>1, <2>4, MovesAside, MovesOn, SyncsUnderTheLock
  <2>5. CASE \/ RemoveApps(p) \/ RotateGeneration(p) \/ MarkStopped(p)
             \/ RemoveState(p) \/ RemoveCache(p) \/ RemoveRoot(p)
    BY <1>1, <2>5, RemovesApps, RemovesTheRest
  <2> QED
    BY <1>3, <2>1, <2>2, <2>3, <2>4, <2>5 DEF OfProcess
<1>4. CASE UNCHANGED vars
  <2>1. UNCHANGED <<root, files, state, marker, plan, owed, lock, proc, opened, knows>>
    BY <1>4 DEF vars, disk, repair
  <2>2. LayoutType' /\ Latest' /\ Unopened' /\ OpenedIsSaved' /\ OwedIsKept'
    BY <2>1 DEF LayoutInv, LayoutType, Latest, Unopened, OpenedIsSaved, OwedIsKept
  <2>3. lock' = None => Tidy(root)' /\ Bare(root)'
    BY <2>1 DEF LayoutInv, Tidy, Bare
  <2>4. \A p \in Procs : Swapping(p)' /\ Emptying(p)'
    BY <2>1 DEF LayoutInv, Swapping, Emptying, Tidy, Bare
  <2> QED
    BY <2>2, <2>3, <2>4 DEF LayoutInv
<1> QED
  BY <1>1, <1>2, <1>3, <1>4, ReleasesCome DEF Next, OfProcess

\* When everything says that the installed version is verified, then it is, or the owner
\* was told (skill_maintenance.go, session_bootstrap_repair.go): no check is owed, and the
\* copied files of every tracked app are of that version.
THEOREM VerifiedIsTrue == Spec => []NothingBrokenUnnoticed
<1>1. Init => LifecycleInv /\ LayoutInv
  BY InstallAssumption, LifecycleInit, LayoutInit
<1>2. (LifecycleInv /\ LayoutInv) /\ [Next]_vars => (LifecycleInv /\ LayoutInv)'
  BY InstallAssumption, LifecycleNext, LayoutNext
<1>3. LifecycleInv /\ LayoutInv => NothingBrokenUnnoticed
  <2> SUFFICES ASSUME LayoutInv, root # None, lock = None, plan = {}, Verified(root),
                      state.verified = root
               PROVE  ~owed /\ (knows \/ \A a \in state.tracked : files[a] = {root})
    BY DEF NothingBrokenUnnoticed
  <2>1. marker.st = "verified"
    BY DEF Verified
  <2> QED
    BY <2>1 DEF LayoutInv, OwedIsKept, Tidy
<1> QED
  BY <1>1, <1>2, <1>3, PTL DEF Spec
=============================================================================
