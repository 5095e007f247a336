-------------------------- MODULE InstallLifecycle --------------------------
(***************************************************************************)
(* The client's installation on one computer: the bundle in its install    *)
(* root, the skill files it copies for each AI app, and the commands that  *)
(* set up, update, repair and remove them.  They run as processes of their *)
(* own, several at once, each may be killed, and one may have begun before *)
(* an uninstall and go on after it.                                        *)
(*                                                                         *)
(* A command works in sections.  A section first looks at the lifecycle    *)
(* without the lock, then takes the lock, looks again and changes things.  *)
(* A section that neither moves the install root nor uninstalls is one     *)
(* step here, with the outcomes of its being cut short; where the one      *)
(* write of a section fails, the section is as good as left out.           *)
(*                                                                         *)
(* Versions are numbers; 0 is, for a copied skill, a layout from before    *)
(* the session bootstrap.  The generation is a random nonce in the code,   *)
(* a counter here: it only has to be new, and its age is compared with the *)
(* stop marker's, which therefore is the generation it was written under.  *)
(***************************************************************************)
EXTENDS Naturals

CONSTANTS Procs,       \* processes
          Apps,        \* AI apps whose skills are copied files
          MaxVersion,  \* bound: the latest release
          MaxStarts,   \* bound: commands begun
          MaxFaults    \* bound: writes that fail or are cut short


VARIABLES root,    \* the bundle in the install root; None when there is none
          files,   \* the versions each app's copied files are of; {} when they are gone
          state,   \* state.json
          marker,  \* session-bootstrap-layout-verified
          plan,    \* the apps in session-bootstrap-repair-pending.json
          gen,     \* the install generation
          stop,    \* the uninstall marker
          legacy,  \* the uninstall marker that Census-era releases know
          lock,    \* the process in a section of several steps
          proc,    \* where each process is, and what it saw when it looked
          starts, faults,
          closed,  \* history: uninstalls that came as far as to rotate the generation
          opened,  \* history: a setup saved its state since one wrote its marker
          knows,   \* history: a command of the owner's failed or was killed since
          owed     \* history: rebuilt files whose first-use check nobody has run yet

disk    == <<root, files, state>>
repair  == <<marker, plan, owed>>
barrier == <<gen, stop, legacy, closed>>
vars == <<disk, repair, barrier, lock, proc, starts, faults, opened, knows>>

None == 0
ASSUME InstallAssumption ==
  /\ MaxVersion \in Nat \ {0} /\ MaxStarts \in Nat \ {0} /\ MaxFaults \in Nat
  /\ None \notin Procs

Versions == 1..MaxVersion
Commands == {"relay", "quickCheck", "check", "update", "setup", "uninstall"}

NoState == [saved |-> FALSE, newer |-> FALSE, tracked |-> {}, verified |-> None]
Mark(s, v, n) == [st |-> s, v |-> v, by |-> n, aged |-> FALSE]
NoMark == Mark("none", None, None)
Idle == [at |-> "idle", cmd |-> "relay", n |-> None, bin |-> None, looked |-> FALSE, gen |-> None,
         stop |-> None, ver |-> None, since |-> None, prev |-> None]

States == [saved : BOOLEAN, newer : BOOLEAN, tracked : SUBSET Apps,
           verified : Versions \cup {None}]
InstallTypeOK ==
  /\ root \in Versions \cup {None} /\ files \in [Apps -> SUBSET (0..MaxVersion)]
  /\ state \in States /\ plan \subseteq Apps
  /\ marker.st \in {"none", "verified", "pending", "running"}
  /\ marker.v \in Versions \cup {None} /\ marker.by \in 0..MaxStarts
  /\ gen \in Nat /\ stop \in 0..gen /\ legacy \in 0..gen
  /\ lock \in Procs \cup {None} /\ \A p \in Procs : proc[p].cmd \in Commands
  /\ {opened, knows, owed} \subseteq BOOLEAN

\* An old updater installed release 1 and copied its own layout; or a Census-era
\* release was uninstalled, and the installer of release 1 has run.
Init ==
  /\ root = 1 /\ marker = NoMark /\ plan = {} /\ gen = 1 /\ stop = None
  /\ \/ /\ files = [a \in Apps |-> {0}] /\ legacy = None /\ opened = TRUE
        /\ state = [saved |-> TRUE, newer |-> FALSE, tracked |-> Apps, verified |-> 1]
     \/ files = [a \in Apps |-> {}] /\ legacy = 1 /\ opened = FALSE /\ state = NoState
  /\ lock = None /\ proc = [p \in Procs |-> Idle] /\ starts = 0 /\ faults = 0
  /\ closed = 0 /\ knows = FALSE /\ owed = FALSE

-----------------------------------------------------------------------------
(* Files *)

\* A full install of the bundle's skills for these apps.
Install(apps) == files' = [a \in Apps |-> IF a \in apps THEN {root} ELSE files[a]]

\* The same, stopped at one of them: its files are as before, of two releases, gone or new.
InstallStops(apps) ==
  \E last \in apps : \E done \in SUBSET (apps \ {last}) :
    \E half \in {files[last], files[last] \cup {root}, {}, {root}} :
      files' = [[a \in Apps |-> IF a \in done THEN {root} ELSE files[a]]
                  EXCEPT ![last] = half]

Stale == {a \in Apps : 0 \in files[a]}
Configured == state.tracked \cup {a \in Apps : files[a] # {}}

\* Saving the state makes it newer than a stop marker.
Save(tracked, verified) ==
  state' = [saved |-> TRUE, newer |-> TRUE, tracked |-> tracked, verified |-> verified]

\* The version is stamped only when no app is left behind.
Stamped(all) == IF all THEN root ELSE state.verified

\* Every configured app is installed again, except one that is not on this computer.
SyncAllBut(skipped) ==
  Install(Configured \ skipped) /\ Save(Configured, Stamped(skipped = {}))
Skippable == SUBSET {a \in Configured : files[a] = {}}
Sync == \E s \in Skippable : SyncAllBut(s) /\ knows' = (knows /\ s # {})

\* An app fails, and the rest is saved; or the process goes before it has saved.
SyncFails ==
  /\ InstallStops(Configured)
  /\ \/ Save(Configured, state.verified)
     \/ UNCHANGED state

\* Every section cut short counts, except a rollback's: what failed the sync may fail it.
Fault == faults < MaxFaults /\ faults' = faults + 1

-----------------------------------------------------------------------------
(* Processes *)

FirstStep == [relay |-> "repair", quickCheck |-> "repair", check |-> "heal",
              update |-> "update", setup |-> "persist", uninstall |-> "apps"]

\* Where the command goes on after a section, which may have left it a check to run.
After(p, candidate) ==
  LET quick == proc[p].cmd = "quickCheck" IN
  CASE proc[p].at = "repair"   -> IF quick THEN "heal" ELSE IF candidate THEN "claim" ELSE "idle"
    [] proc[p].at = "heal"     -> IF quick THEN "finalize" ELSE "mark"
    [] proc[p].at = "finalize" -> "mark"
    [] OTHER                   -> "idle"

At(p, at) ==
  IF at = "idle" THEN Idle ELSE [Idle EXCEPT !.at = at, !.cmd = proc[p].cmd, !.n = proc[p].n,
                                                  !.bin = proc[p].bin]
Go(p, at) == proc' = [proc EXCEPT ![p] = At(p, at)]
Keep(p, at) == proc' = [proc EXCEPT ![p].at = at]

\* A marker that an installation set up since by an older release has superseded.
StopIsStale == stop # None /\ legacy = None /\ gen > stop /\ state.saved /\ state.newer

\* Every command first carries a Census-era marker over, and drops a stale one.  A
\* new process has no history, so it is always the same of those that do not run.
Begin(p, c) ==
  /\ proc[p] = Idle /\ p = CHOOSE q \in Procs : proc[q] = Idle
  /\ root # None /\ starts < MaxStarts
  /\ starts' = starts + 1
  /\ proc' = [proc EXCEPT ![p] = [Idle EXCEPT !.at = FirstStep[c], !.cmd = c, !.bin = root,
                                         !.n = IF c = "relay" THEN starts + 1 ELSE None]]
  /\ stop' = IF stop = None THEN legacy ELSE IF StopIsStale /\ lock = None THEN None ELSE stop
  /\ state' = [state EXCEPT !.newer = @ /\ (stop # None \/ legacy = None)]
  /\ UNCHANGED <<root, files, repair, gen, legacy, closed, lock, faults, opened, knows>>

\* The bundle's version, or the running binary's while there is no bundle.
LocalVersion(p) == IF root = None THEN proc[p].bin ELSE root

\* Without the lock: the generation, whether an uninstall stopped everything, the version.
Look(p) ==
  /\ proc[p].at \in {"repair", "heal", "mark", "claim", "update", "persist"}
  /\ ~proc[p].looked
  /\ IF stop # None /\ proc[p].at # "persist"
       THEN Go(p, After(p, FALSE))
       ELSE proc' = [proc EXCEPT ![p] = [@ EXCEPT !.looked = TRUE, !.gen = gen, !.stop = stop,
                                                  !.ver = LocalVersion(p), !.since = closed]]
  /\ UNCHANGED <<disk, repair, barrier, lock, starts, faults, opened, knows>>

\* These two look at nothing but the version.
LookAtVersion(p) ==
  /\ proc[p].at \in {"complete", "finalize"} /\ ~proc[p].looked
  /\ proc' = [proc EXCEPT ![p].looked = TRUE, ![p].ver = LocalVersion(p)]
  /\ UNCHANGED <<disk, repair, barrier, lock, starts, faults, opened, knows>>

\* Mutant: only the marker counts, not the generation.
CurrentIfNotStopped(p) == p \in Procs /\ stop = None

\* Checked with the lock: no uninstall came since the section looked, and none holds.
Current(p) == proc[p].gen = gen /\ stop = None
CurrentForSetup(p) == proc[p].gen = gen /\ proc[p].stop = stop

Ready(p, at) == proc[p].at = at /\ proc[p].looked /\ lock = None
Locked(p, at) == proc[p].at = at /\ lock = p

Verified(v) == marker.st = "verified" /\ marker.v = v
Pending(v)  == marker.st = "pending" /\ marker.v = v
Running(v)  == marker.st = "running" /\ marker.v = v
OfAnother(v) == marker.st \in {"pending", "running"} /\ marker.v # v

\* Another process has the lock: the section is left out.
Contended(p) ==
  /\ proc[p].looked \/ proc[p].at = "apps"
  /\ lock \notin {None, p}
  /\ Go(p, After(p, plan # {} \/ ~Verified(proc[p].ver)))
  /\ UNCHANGED <<disk, repair, barrier, lock, starts, faults, opened, knows>>

\* A command gives up or its process is killed, with the lock or between two of its
\* writes.  Elsewhere that is as if it stayed where it is.
Stop(p) ==
  /\ Go(p, "idle")
  /\ \/ lock # p /\ proc[p].at \in {"claim", "complete", "install", "finish"}
        /\ UNCHANGED <<lock, knows>>
     \/ lock = p /\ lock' = None /\ knows' = TRUE
  /\ UNCHANGED <<disk, repair, barrier, starts, faults, opened>>

\* A claimed check may be taken over five minutes later.
ClaimAges ==
  /\ marker.st = "running" /\ ~marker.aged
  /\ marker' = [marker EXCEPT !.aged = TRUE]
  /\ UNCHANGED <<disk, plan, owed, barrier, lock, proc, starts, faults, opened, knows>>

-----------------------------------------------------------------------------
(* The session bootstrap's repair *)

\* Nothing is left to repair, this process has no right to, or its first write fails.
RepairSkipped(p) ==
  /\ Ready(p, "repair")
  /\ \/ /\ \/ ~Current(p) \/ root = None
           \/ plan = {} /\ Verified(proc[p].ver)
           \/ plan = {} /\ OfAnother(proc[p].ver) /\ marker.st = "running" /\ ~marker.aged
        /\ UNCHANGED faults
     \/ Fault
  /\ Go(p, After(p, FALSE))
  /\ UNCHANGED <<disk, repair, barrier, lock, starts, opened, knows>>

\* A repair already owes a check; one owed under another version is owed under this one.
RepairOwed(p) ==
  LET v == proc[p].ver IN
  /\ Ready(p, "repair") /\ Current(p) /\ root # None /\ plan = {}
  /\ \/ (Pending(v) \/ Running(v)) /\ UNCHANGED marker
     \/ OfAnother(v) /\ (marker.st = "pending" \/ marker.aged) /\ marker' = Mark("pending", v, None)
  /\ Go(p, After(p, TRUE))
  /\ UNCHANGED <<disk, plan, owed, barrier, lock, starts, faults, opened, knows>>

ToRepair == IF plan # {} THEN plan ELSE Stale

\* The plan is written first, then the files, then the check that is owed.
Repair(p) ==
  /\ Ready(p, "repair") /\ Current(p) /\ root # None
  /\ \/ plan # {}
     \/ ~Verified(proc[p].ver) /\ marker.st \notin {"pending", "running"} /\ Stale # {}
  /\ \/ /\ Install(ToRepair) /\ marker' = Mark("pending", proc[p].ver, None)
        /\ plan' = {} /\ owed' = TRUE
        /\ Go(p, After(p, TRUE)) /\ UNCHANGED faults
     \/ /\ Fault
        /\ plan' = ToRepair
        /\ \/ InstallStops(ToRepair) /\ UNCHANGED <<marker, owed>>
           \/ /\ Install(ToRepair) /\ owed' = TRUE
              /\ marker' \in {marker, Mark("pending", proc[p].ver, None)}
        /\ Go(p, After(p, FALSE))
  /\ UNCHANGED <<root, state, barrier, lock, starts, opened, knows>>

NothingToRepair(p) ==
  /\ Ready(p, "repair") /\ Current(p) /\ root # None /\ plan = {} /\ Stale = {}
  /\ ~Verified(proc[p].ver) /\ marker.st \notin {"pending", "running"}
  /\ marker' = Mark("verified", proc[p].ver, None)
  /\ Go(p, After(p, FALSE))
  /\ UNCHANGED <<disk, plan, owed, barrier, lock, starts, faults, opened, knows>>

\* A Relay command that succeeded runs the check that is owed, once.
Claim(p) ==
  LET v == proc[p].ver IN
  /\ Ready(p, "claim")
  /\ IF Current(p) /\ (Pending(v) \/ (Running(v) /\ marker.aged))
       THEN /\ marker' = Mark("running", v, proc[p].n)
            /\ proc' = [proc EXCEPT ![p].at = "complete", ![p].looked = FALSE]
       ELSE Go(p, "idle") /\ UNCHANGED marker
  /\ UNCHANGED <<disk, plan, owed, barrier, lock, starts, faults, opened, knows>>

Complete(p) ==
  LET mine == Current(p) /\ marker.st = "running" /\ marker.by = proc[p].n IN
  /\ Ready(p, "complete")
  /\ marker' = IF mine THEN Mark("verified", proc[p].ver, None) ELSE marker
  /\ owed' = (owed /\ ~mine)
  /\ Go(p, "idle")
  /\ UNCHANGED <<disk, plan, barrier, lock, starts, faults, opened, knows>>

\* A quick check ran the check itself.
Finalize(p) ==
  LET done == stop = None /\ Pending(proc[p].ver) IN
  /\ Ready(p, "finalize")
  /\ marker' = IF done THEN Mark("verified", proc[p].ver, None) ELSE marker
  /\ owed' = (owed /\ ~done)
  /\ Go(p, After(p, FALSE))
  /\ UNCHANGED <<disk, plan, barrier, lock, starts, faults, opened, knows>>

\* Mutant: a check owed under another version is overlooked.
MarkableOverOlder(v) == plan = {} /\ ~Pending(v) /\ ~Running(v) /\ Stale = {}

\* No repair is unfinished, no check is owed, and no layout lacks the bootstrap.
Markable(v) == plan = {} /\ ~Pending(v) /\ ~Running(v) /\ ~OfAnother(v) /\ Stale = {}

\* At its end a check notes that the layout is complete; it still does so when an update
\* came in between, for the version it read.
MarkVerified(p) ==
  /\ Ready(p, "mark")
  /\ marker' = IF Current(p) /\ root # None /\ Markable(proc[p].ver)
                 THEN Mark("verified", proc[p].ver, None) ELSE marker
  /\ Go(p, "idle")
  /\ UNCHANGED <<disk, plan, owed, barrier, lock, starts, faults, opened, knows>>

-----------------------------------------------------------------------------
(* Heal and update *)

\* A check installs every app again once after the version changed.  One that read the
\* version before an update took the lock does so again after it; when that fails, the
\* stamp stays, and only its warning tells.
Heal(p) ==
  /\ Ready(p, "heal")
  /\ IF Current(p) /\ root # None /\ state.saved /\ state.verified # proc[p].ver
       THEN \/ Sync /\ UNCHANGED faults
            \/ Fault /\ SyncFails /\ knows' = (knows \/ state.verified = root)
       ELSE UNCHANGED <<files, state, knows, faults>>
  /\ Go(p, After(p, FALSE))
  /\ UNCHANGED <<root, repair, barrier, lock, starts, opened>>

\* The latest release runs already: its skills are installed again.
UpdateInPlace(p) ==
  /\ Ready(p, "update") /\ proc[p].ver = MaxVersion
  /\ IF Current(p) /\ root # None
       THEN \/ Sync /\ UNCHANGED faults
            \/ Fault /\ SyncFails /\ knows' = TRUE
       ELSE UNCHANGED <<files, state, knows, faults>>
  /\ Go(p, "idle")
  /\ UNCHANGED <<root, repair, barrier, lock, starts, opened>>

\* The install root is renamed to a backup, then the new bundle to the install root.
SwapOut(p) ==
  /\ Ready(p, "update") /\ proc[p].ver # MaxVersion
  /\ IF Current(p)
       THEN /\ lock' = p /\ root' = None
            /\ proc' = [proc EXCEPT ![p].at = "swapIn", ![p].prev = root]
       ELSE Go(p, "idle") /\ UNCHANGED <<lock, root>>
  /\ UNCHANGED <<files, state, repair, barrier, starts, faults, opened, knows>>

SwapIn(p) ==
  /\ Locked(p, "swapIn")
  /\ \/ root' = MaxVersion /\ Keep(p, "sync") /\ UNCHANGED <<lock, faults>>
     \/ /\ Fault
        /\ root' = proc[p].prev /\ lock' = None /\ Go(p, "idle")
  /\ UNCHANGED <<files, state, repair, barrier, starts, opened, knows>>

SyncUpdated(p) ==
  /\ Locked(p, "sync")
  /\ \/ Sync /\ Keep(p, "commit") /\ UNCHANGED faults
     \/ Fault /\ SyncFails /\ Keep(p, "rollBack") /\ UNCHANGED knows
  /\ UNCHANGED <<root, repair, barrier, lock, starts, opened>>

RollBack(p) ==
  /\ Locked(p, "rollBack") /\ root' = None /\ Keep(p, "putBack")
  /\ UNCHANGED <<files, state, repair, barrier, lock, starts, faults, opened, knows>>

\* Without a previous bundle there is nothing to go back to.
PutBack(p) ==
  /\ Locked(p, "putBack") /\ root' = proc[p].prev /\ Keep(p, "resync")
  /\ UNCHANGED <<files, state, repair, barrier, lock, starts, faults, opened, knows>>

\* The old bundle's skills are installed again; the owner hears of what that leaves.
Resync(p) ==
  /\ Locked(p, "resync") /\ lock' = None /\ Go(p, "idle")
  /\ IF root = None
       THEN knows' = TRUE /\ UNCHANGED <<files, state>>
       ELSE \/ \E s \in Skippable : SyncAllBut(s) /\ knows' = (s # {})
            \/ SyncFails /\ knows' = TRUE
  /\ UNCHANGED <<root, repair, barrier, starts, faults, opened>>

Commit(p) ==
  /\ Locked(p, "commit") /\ lock' = None /\ Go(p, "idle")
  /\ UNCHANGED <<disk, repair, barrier, starts, faults, opened, knows>>

-----------------------------------------------------------------------------
(* Setup and uninstall *)

Persist(p) ==
  /\ Ready(p, "persist")
  /\ IF CurrentForSetup(p)
       THEN Save(state.tracked, state.verified) /\ opened' = TRUE /\ Keep(p, "install")
       ELSE Go(p, "idle") /\ UNCHANGED <<state, opened>>
  /\ UNCHANGED <<root, files, repair, barrier, lock, starts, faults, knows>>

\* The chosen apps; the version is stamped when no other app is tracked.
InstallApps(p) ==
  /\ Ready(p, "install")
  /\ IF CurrentForSetup(p) /\ root # None
       THEN \E chosen \in (SUBSET Apps) \ {{}} :
              \/ /\ Install(chosen) /\ Keep(p, "finish") /\ UNCHANGED faults
                 /\ Save(state.tracked \cup chosen, Stamped(state.tracked \subseteq chosen))
                 /\ knows' = (knows /\ ~(state.tracked \subseteq chosen))
              \/ /\ Fault
                 /\ InstallStops(chosen) /\ knows' = TRUE /\ Go(p, "idle") /\ UNCHANGED state
       ELSE Go(p, "idle") /\ UNCHANGED <<files, state, knows, faults>>
  /\ UNCHANGED <<root, repair, barrier, lock, starts, opened>>

\* Only now are the markers dropped, and then the generation rotates.
FinishSetup(p) ==
  /\ Ready(p, "finish") /\ Go(p, "idle")
  /\ IF CurrentForSetup(p)
       THEN /\ legacy' = None
            /\ \/ stop' = None /\ gen' = gen + 1 /\ UNCHANGED faults
               \/ /\ Fault
                  /\ stop' \in {stop, None} /\ UNCHANGED gen
       ELSE UNCHANGED <<legacy, stop, gen, faults>>
  /\ UNCHANGED <<disk, repair, closed, lock, starts, opened, knows>>

\* The apps the state names; all of them when it names none.
RemoveApps(p) ==
  LET known == IF state.tracked = {} THEN Apps ELSE state.tracked IN
  /\ proc[p].at = "apps" /\ lock = None
  /\ \/ /\ files' = [a \in Apps |-> IF a \in known THEN {} ELSE files[a]]
        /\ lock' = p /\ Keep(p, "rotate") /\ UNCHANGED <<knows, faults>>
     \/ /\ Fault
        /\ \E some \in SUBSET known :
             files' = [a \in Apps |-> IF a \in some THEN {} ELSE files[a]]
        /\ knows' = TRUE /\ Go(p, "idle") /\ UNCHANGED lock
  /\ UNCHANGED <<root, state, repair, barrier, starts, opened>>

RotateGeneration(p) ==
  /\ Locked(p, "rotate") /\ gen' = gen + 1
  /\ closed' = closed + 1 /\ Keep(p, "stop")
  /\ UNCHANGED <<disk, repair, stop, legacy, lock, starts, faults, opened, knows>>

\* The mirror for Census-era releases is best effort.
MarkStopped(p) ==
  /\ Locked(p, "stop") /\ stop' = gen /\ Keep(p, "state")
  /\ \/ legacy' = gen /\ UNCHANGED faults
     \/ Fault /\ UNCHANGED legacy
  /\ state' = [state EXCEPT !.newer = FALSE] /\ opened' = FALSE
  /\ UNCHANGED <<root, files, repair, gen, closed, lock, starts, knows>>

RemoveState(p) ==
  /\ Locked(p, "state") /\ state' = NoState /\ Keep(p, "cache")
  /\ UNCHANGED <<root, files, repair, barrier, lock, starts, faults, opened, knows>>

RemoveCache(p) ==
  /\ Locked(p, "cache") /\ marker' = NoMark /\ plan' = {} /\ owed' = FALSE /\ Keep(p, "root")
  /\ UNCHANGED <<disk, barrier, lock, starts, faults, opened, knows>>

RemoveRoot(p) ==
  /\ Locked(p, "root") /\ root' = None /\ lock' = None /\ knows' = FALSE /\ Go(p, "idle")
  /\ UNCHANGED <<files, state, repair, barrier, starts, faults, opened>>

-----------------------------------------------------------------------------
(* Outside *)

\* The installer puts the latest release where there is none.
Reinstall ==
  /\ root = None /\ lock = None /\ root' = MaxVersion
  /\ UNCHANGED <<files, state, repair, barrier, lock, proc, starts, faults, opened, knows>>

\* After an uninstall a Census-era release is installed and set up, and its own updater
\* brings release 1: that knows neither today's marker nor, perhaps, today's layout.
OldReleaseComes ==
  /\ root = None /\ lock = None /\ stop # None /\ ~state.saved /\ starts < MaxStarts
  /\ starts' = starts + 1
  /\ root' = 1 /\ legacy' = None /\ gen' = gen + 1 /\ opened' = TRUE
  /\ \E v \in {0, 1} : files' = [a \in Apps |-> {v}]
  /\ state' = [saved |-> TRUE, newer |-> TRUE, tracked |-> Apps, verified |-> 1]
  /\ UNCHANGED <<repair, stop, closed, lock, proc, faults, knows>>

Next ==
  \/ \E p \in Procs :
       \/ \E c \in Commands : Begin(p, c)
       \/ Look(p) \/ LookAtVersion(p) \/ Contended(p) \/ Stop(p)
       \/ RepairSkipped(p) \/ RepairOwed(p) \/ Repair(p) \/ NothingToRepair(p)
       \/ Claim(p) \/ Complete(p) \/ Finalize(p) \/ MarkVerified(p)
       \/ Heal(p) \/ UpdateInPlace(p) \/ SwapOut(p) \/ SwapIn(p) \/ SyncUpdated(p)
       \/ RollBack(p) \/ PutBack(p) \/ Resync(p) \/ Commit(p)
       \/ Persist(p) \/ InstallApps(p) \/ FinishSetup(p)
       \/ RemoveApps(p) \/ RotateGeneration(p) \/ MarkStopped(p)
       \/ RemoveState(p) \/ RemoveCache(p) \/ RemoveRoot(p)
  \/ ClaimAges \/ Reinstall \/ OldReleaseComes

Spec == Init /\ [][Next]_vars

-----------------------------------------------------------------------------
(* Properties *)

\* An uninstall is final for everything that began before it (install_lifecycle.go): a
\* process changes files, state or the install root only on a look taken after the last
\* uninstall, and, unless it is a setup, only once a setup has saved its state since.
StaysUninstalled ==
  [][\A p \in Procs :
       proc[p]' # proc[p] /\ proc[p].at # "idle" /\ proc[p].cmd # "uninstall" /\ disk' # disk =>
         proc[p].since = closed /\ (proc[p].cmd = "setup" \/ opened)]_vars

\* When everything says that this version is verified, so that no later check looks
\* again, then it is: no first-use check is owed, and every tracked app's files are of
\* the installed version, unless a command of the owner's failed or was killed.
NothingBrokenUnnoticed ==
  root # None /\ stop = None /\ lock = None /\ plan = {} /\ Verified(root)
    /\ state.verified = root =>
      ~owed /\ (knows \/ \A a \in state.tracked : files[a] = {root})
=============================================================================
