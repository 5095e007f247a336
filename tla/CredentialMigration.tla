------------------------ MODULE CredentialMigration ------------------------
(***************************************************************************)
(* Where a client keeps its device credentials: the OS keyring or private  *)
(* files, told apart for the whole install by one marker file.             *)
(* device_credential_migration.go moves every profile's slots from the     *)
(* keyring to files: copies, then a checkpoint that lists the copies, then *)
(* the marker, then the keyring entries are verified and deleted, then the *)
(* checkpoint goes.  Pairing, resuming a pairing and removing a profile    *)
(* use the same stores.  The lock lets one command mutate at a time; a     *)
(* command may be killed between any two of its writes, and a write, an    *)
(* unlink or the keyring may fail.                                         *)
(***************************************************************************)
EXTENDS Naturals, FiniteSets

CONSTANTS
  Profile,      \* the server profiles of the install
  Default,      \* the default one; also what "who" holds between commands
  MaxCred,      \* bound: credentials the Relay hands out
  Faults,       \* "crash", "write", "marker", "unlink", "locked"
  Removals      \* does the owner remove profiles

StoreAssumption ==
  /\ Default \in Profile
  /\ MaxCred \in Nat \ {0}
  /\ Faults \subseteq {"crash", "write", "marker", "unlink", "locked"}
  /\ Removals \in BOOLEAN

VARIABLES
  keyring,      \* slot -> credential in the OS keyring
  file,         \* slot -> what its file holds
  marker,       \* the .file-backend marker exists
  cleanup,      \* the slots the checkpoint lists; {} when there is none
  endpoint,     \* profiles whose config has a pending endpoint
  mode,         \* file mode this process chose: "unset", "explicit"
  pc,           \* the next write of the running command; "idle" between commands
  todo,         \* slots that write still has to treat
  plan,         \* slots this migration found in the keyring
  after,        \* where the command goes on after a cleanup or a rollback
  who,          \* the profile the command is about
  cred,         \* the credential being activated
  toFile,       \* promotion goes to the file backend
  minted,       \* credentials handed out so far
  works,        \* ghost: profile -> the credentials its Relay accepts
  retired,      \* ghost: credentials a Relay accepts no more
  paired,       \* ghost: profiles that finished a pairing
  hidden,       \* ghost: profiles a file-mode pairing knowingly left in the keyring
  gap           \* ghost: files and marker came apart in one of the two known ways

disk == <<keyring, file, marker, cleanup, endpoint>>
process == <<mode, pc, todo, plan, after, who, cred, toFile>>
relay == <<minted, works, retired, paired, hidden>>
ghosts == <<relay, gap>>
vars == <<disk, process, ghosts>>

None == 0
Torn == MaxCred + 1             \* what a failed write leaves behind

Slot == Profile \X {"current", "pending"}
Current(p) == <<p, "current">>
Pending(p) == <<p, "pending">>
IsCurrent(s) == s[2] = "current"
CurrentsOf(S) == {s \in S : IsCurrent(s)}

\* deviceSecretFileBacked, and the route a fresh process takes.
FileBacked == marker \/ mode # "unset"
Routed(s) == IF FileBacked THEN file[s] ELSE keyring[s]
OnDisk(s) == IF marker THEN file[s] ELSE keyring[s]

Init ==
  /\ keyring = [s \in Slot |-> None]
  /\ file = [s \in Slot |-> None]
  /\ marker = FALSE
  /\ cleanup = {}
  /\ endpoint = {}
  /\ mode = "unset"
  /\ pc = "idle"
  /\ todo = {} /\ plan = {}
  /\ after = "idle"
  /\ who = Default
  /\ cred = None
  /\ toFile = FALSE
  /\ minted = 0
  /\ works = [p \in Profile |-> {}]
  /\ retired = {} /\ paired = {}
  /\ hidden = {}
  /\ gap = FALSE

\* A command ends: what it held in memory is gone.
Ended == /\ pc' = "idle" /\ mode' = "unset"
         /\ todo' = {} /\ plan' = {} /\ after' = "idle"
         /\ who' = Default /\ cred' = None /\ toFile' = FALSE

Crash == /\ "crash" \in Faults
         /\ pc # "idle"
         /\ Ended
         /\ UNCHANGED <<disk, ghosts>>

Step(from, to) == pc = from /\ pc' = to
Fails(fault) == fault \in Faults

\* A write that fails leaves the old content or a torn one.
WriteFails(s) == /\ Fails("write")
                 /\ \E v \in {file[s], Torn} : file' = [file EXCEPT ![s] = v]

-----------------------------------------------------------------------------
(* migrateKeyringDeviceCredentialToFile *)

StartMigration ==
  /\ pc = "idle"
  /\ IF marker
       THEN /\ cleanup # {}
            /\ pc' = "clean" /\ todo' = cleanup /\ plan' = {}
       ELSE /\ \E s \in Slot : keyring[s] # None
            /\ pc' = "copy"
            /\ plan' = {s \in Slot : keyring[s] # None}
            /\ todo' = plan'
  /\ UNCHANGED <<disk, mode, after, who, cred, toFile, ghosts>>

\* Pending slots go first: they never commit the backend.
NextCopy == IF \E s \in todo : ~IsCurrent(s) THEN {s \in todo : ~IsCurrent(s)} ELSE todo

CopySlot ==
  /\ Step("copy", "copy")
  /\ \E s \in NextCopy :
       /\ file' = [file EXCEPT ![s] = keyring[s]]
       /\ todo' = todo \ {s}
  /\ UNCHANGED <<keyring, marker, cleanup, endpoint, mode, plan, after, who, cred, toFile, ghosts>>

CopyFails ==
  /\ pc = "copy"
  /\ \E s \in NextCopy :
       /\ WriteFails(s)
       /\ IF IsCurrent(s)
            THEN /\ pc' = "rollback"
                 /\ todo' = CurrentsOf(plan \ todo)
                 /\ UNCHANGED <<mode, plan, after, who, cred, toFile>>
            ELSE Ended
  /\ UNCHANGED <<keyring, marker, cleanup, endpoint, ghosts>>

WriteCheckpoint ==
  /\ pc = "copy"
  /\ todo = {}
  /\ \/ pc' = "marker" /\ cleanup' = plan /\ todo' = {}
     \/ Fails("write") /\ pc' = "rollback" /\ todo' = CurrentsOf(plan) /\ UNCHANGED cleanup
  /\ UNCHANGED <<keyring, file, marker, endpoint, mode, plan, after, who, cred, toFile, ghosts>>

WriteMarker ==
  /\ Step("marker", "clean")
  /\ marker' = TRUE
  /\ todo' = cleanup
  /\ UNCHANGED <<keyring, file, cleanup, endpoint, mode, plan, after, who, cred, toFile, ghosts>>

\* A failed marker write may leave an empty regular file, which counts as a marker.
MarkerFails ==
  /\ Step("marker", "drop_checkpoint")
  /\ Fails("marker")
  /\ marker' \in BOOLEAN
  /\ UNCHANGED <<keyring, file, cleanup, endpoint, mode, todo, plan, after, who, cred, toFile, ghosts>>

DropCheckpoint ==
  /\ Step("drop_checkpoint", "rollback")
  /\ cleanup' \in {{}} \cup (IF Fails("unlink") THEN {cleanup} ELSE {})
  /\ todo' = CurrentsOf(plan)
  /\ after' = "drop_marker"
  /\ UNCHANGED <<keyring, file, marker, endpoint, mode, plan, who, cred, toFile, ghosts>>

\* rollbackCurrents: an unlink that fails is reported, and the others go on.
Rollback ==
  /\ Step("rollback", "rollback")
  /\ \E s \in todo :
       /\ todo' = todo \ {s}
       /\ \/ file' = [file EXCEPT ![s] = None]
          \/ Fails("unlink") /\ UNCHANGED file
  /\ gap' = (gap \/ marker)
  /\ UNCHANGED <<keyring, marker, cleanup, endpoint, mode, plan, after, who, cred, toFile, relay>>

RolledBack ==
  /\ pc = "rollback"
  /\ todo = {}
  /\ Ended
  /\ marker' \in IF after = "idle" THEN {marker}
                 ELSE {FALSE} \cup (IF Fails("unlink") THEN {marker} ELSE {})
  /\ UNCHANGED <<keyring, file, cleanup, endpoint, ghosts>>

-----------------------------------------------------------------------------
(* resumeKeyringDeviceCredentialCleanup: nothing here looks at the marker. *)

CleanSlot ==
  /\ Step("clean", "clean")
  /\ \E s \in todo :
       /\ file[s] # None
       /\ keyring[s] \in {None, file[s]}
       /\ keyring' = [keyring EXCEPT ![s] = None]
       /\ todo' = todo \ {s}
  /\ gap' = (gap \/ ~marker)
  /\ UNCHANGED <<file, marker, cleanup, endpoint, mode, plan, after, who, cred, toFile, relay>>

\* The copy is missing or differs, the keyring is locked, or a delete has an
\* unknown outcome: the command stops and the checkpoint stays.
CleanStops ==
  /\ pc = "clean"
  /\ \E s \in todo :
       \/ file[s] = None /\ UNCHANGED keyring
       \/ keyring[s] \notin {None, file[s]} /\ UNCHANGED keyring
       \/ /\ Fails("locked")
          /\ \/ UNCHANGED keyring
             \/ keyring[s] = file[s] /\ keyring' = [keyring EXCEPT ![s] = None]
  /\ gap' = (gap \/ (keyring' # keyring /\ ~marker))
  /\ Ended
  /\ UNCHANGED <<file, marker, cleanup, endpoint, relay>>

CleanDone ==
  /\ pc = "clean"
  /\ todo = {}
  /\ \/ /\ cleanup' = {}
        /\ IF after = "idle"
             THEN Ended
             ELSE /\ pc' = after /\ after' = "idle"
                  /\ UNCHANGED <<mode, todo, plan, who, cred, toFile>>
     \/ Fails("unlink") /\ Ended /\ UNCHANGED cleanup
  /\ UNCHANGED <<keyring, file, marker, endpoint, ghosts>>

-----------------------------------------------------------------------------
(* Pairing: pending slot, pending endpoint, activation, promotion *)

\* runSecurePairing refuses to run over an activation it could resume.
MayPair(p) == LET s == Routed(Pending(p))
              IN  s = None \/ (s # Torn /\ p \notin endpoint)

\* --credential-store=file: the migration ran first and had nothing to move,
\* or the keyring could not be read.
ForceFiles(p) ==
  /\ Step("idle", "pair")
  /\ \/ marker /\ cleanup = {}
     \/ ~marker /\ (Fails("locked") \/ \A s \in Slot : keyring[s] = None)
  /\ mode' = "explicit"
  /\ who' = p
  /\ UNCHANGED <<disk, todo, plan, after, cred, toFile, ghosts>>

StartPairing(p) ==
  /\ Step("idle", "pair")
  /\ who' = p
  /\ UNCHANGED <<disk, mode, todo, plan, after, cred, toFile, ghosts>>

\* The Relay hands out a credential and it becomes the pending one.
StorePending ==
  /\ pc = "pair"
  /\ MayPair(who)
  /\ minted < MaxCred
  /\ minted' = minted + 1
  /\ toFile' = FileBacked
  /\ \/ /\ pc' = "endpoint"
        /\ cred' = minted'
        /\ IF FileBacked
             THEN file' = [file EXCEPT ![Pending(who)] = minted'] /\ UNCHANGED keyring
             ELSE keyring' = [keyring EXCEPT ![Pending(who)] = minted'] /\ UNCHANGED file
        /\ UNCHANGED <<mode, todo, plan, after, who>>
     \/ FileBacked /\ WriteFails(Pending(who)) /\ UNCHANGED keyring /\ Ended
  /\ UNCHANGED <<marker, cleanup, endpoint, works, retired, paired, hidden, gap>>

SaveEndpoint ==
  /\ Step("endpoint", IF mode = "explicit" THEN "opt_in" ELSE "activate")
  /\ endpoint' = endpoint \cup {who}
  /\ UNCHANGED <<keyring, file, marker, cleanup, mode, todo, plan, after, who, cred, toFile, ghosts>>

\* Profiles whose keyring credential a file-mode pairing stops reading.
LeftBehind == {p \in Profile : keyring[Current(p)] \in works[p] /\ file[Current(p)] \notin works[p]}

\* The explicit opt-in lays the marker down before activation.
OptIn ==
  /\ pc = "opt_in"
  /\ \/ /\ pc' = "activate" /\ marker' = TRUE
        /\ UNCHANGED <<mode, todo, plan, after, who, cred, toFile>>
     \/ Fails("marker") /\ marker' \in {marker, TRUE} /\ Ended
  /\ hidden' = IF marker' /\ ~marker THEN LeftBehind ELSE hidden
  /\ UNCHANGED <<keyring, file, cleanup, endpoint, minted, works, retired, paired, gap>>

\* The Relay activates the pending credential, or refuses.
Activate ==
  /\ pc = "activate"
  /\ \/ /\ cred \notin retired
        /\ pc' = "promote"
        /\ works' = [works EXCEPT ![who] = @ \cup {cred}]
        /\ UNCHANGED <<mode, todo, plan, after, who, cred, toFile>>
     \/ Ended /\ UNCHANGED works
  /\ UNCHANGED <<disk, minted, retired, paired, hidden, gap>>

\* The current slot is written; on a first commit to files the marker follows.
Promote ==
  /\ pc = "promote"
  /\ IF toFile
       THEN /\ UNCHANGED keyring
            /\ \/ /\ file' = [file EXCEPT ![Current(who)] = cred]
                  /\ pc' = IF marker THEN "drop_pending" ELSE "commit"
                  /\ UNCHANGED <<mode, todo, plan, after, who, cred, toFile>>
               \/ WriteFails(Current(who)) /\ Ended
       ELSE /\ keyring' = [keyring EXCEPT ![Current(who)] = cred]
            /\ pc' = "drop_pending"
            /\ UNCHANGED <<file, mode, todo, plan, after, who, cred, toFile>>
  /\ UNCHANGED <<marker, cleanup, endpoint, ghosts>>

Commit ==
  /\ Step("commit", "drop_pending")
  /\ marker' = TRUE
  /\ hidden' = LeftBehind
  /\ UNCHANGED <<keyring, file, cleanup, endpoint, mode, todo, plan, after, who, cred, toFile, minted, works, retired, paired, gap>>

\* The marker cannot be written: the file goes again, then a half-written marker.
CommitFails ==
  /\ Step("commit", "uncommit")
  /\ Fails("marker")
  /\ marker' \in BOOLEAN
  /\ file' = [file EXCEPT ![Current(who)] = None]
  /\ gap' = (gap \/ marker')
  /\ UNCHANGED <<keyring, cleanup, endpoint, mode, todo, plan, after, who, cred, toFile, relay>>

Uncommit ==
  /\ pc = "uncommit"
  /\ marker' \in {FALSE} \cup (IF Fails("unlink") THEN {marker} ELSE {})
  /\ Ended
  /\ UNCHANGED <<keyring, file, cleanup, endpoint, ghosts>>

DropPending ==
  /\ Step("drop_pending", "settle")
  /\ IF toFile
       THEN file' = [file EXCEPT ![Pending(who)] = None] /\ UNCHANGED keyring
       ELSE keyring' = [keyring EXCEPT ![Pending(who)] = None] /\ UNCHANGED file
  /\ UNCHANGED <<marker, cleanup, endpoint, mode, todo, plan, after, who, cred, toFile, ghosts>>

\* retireOnSameRelay revokes what the new credential replaces, then the pending
\* endpoint is cleared.
Settle ==
  /\ pc = "settle"
  /\ retired' = retired \cup (works[who] \ {cred})
  /\ works' = [works EXCEPT ![who] = {cred}]
  /\ paired' = paired \cup {who}
  /\ hidden' = hidden \ {who}
  /\ endpoint' = endpoint \ {who}
  /\ Ended
  /\ UNCHANGED <<keyring, file, marker, cleanup, minted, gap>>

\* resumePendingActivation: with no marker a keyring pending wins over an
\* orphan file, and a locked keyring resumes nothing.
Resume(p) ==
  /\ Step("idle", "activate")
  /\ p \in endpoint
  /\ \/ /\ marker \/ keyring[Pending(p)] = None
        /\ file[Pending(p)] \notin {None, Torn}
        /\ cred' = file[Pending(p)] /\ toFile' = TRUE
     \/ /\ ~marker /\ keyring[Pending(p)] # None
        /\ cred' = keyring[Pending(p)] /\ toFile' = FALSE
  /\ who' = p
  /\ UNCHANGED <<disk, mode, todo, plan, after, ghosts>>

-----------------------------------------------------------------------------
(* Removing a profile: the cleanup of a migration first, then the slots *)

Remove(p) ==
  /\ Removals
  /\ pc = "idle"
  /\ who' = p
  /\ works' = [works EXCEPT ![p] = {}]
  /\ retired' = retired \cup works[p]
  /\ paired' = paired \ {p}
  /\ hidden' = hidden \ {p}
  /\ todo' = cleanup
  /\ IF cleanup = {} THEN pc' = "remove_pending" /\ UNCHANGED after
                     ELSE pc' = "clean" /\ after' = "remove_pending"
  /\ UNCHANGED <<disk, mode, plan, cred, toFile, minted, gap>>

\* secretDelete goes to the store the route names.
RemoveRouted(from, s, to) ==
  /\ Step(from, to)
  /\ IF FileBacked THEN file' = [file EXCEPT ![s] = None] /\ UNCHANGED keyring
                   ELSE keyring' = [keyring EXCEPT ![s] = None] /\ UNCHANGED file
  /\ UNCHANGED <<marker, cleanup, endpoint, mode, plan, after, who, cred, toFile, ghosts>>

RemovePending == /\ RemoveRouted("remove_pending", Pending(who), "remove_current")
                 /\ UNCHANGED todo

\* Mutant: the sweep takes every profile's files.
RemoveSweepsAll == /\ RemoveRouted("remove_current", Current(who), "residue")
                   /\ todo' = Slot

RemoveCurrent == /\ RemoveRouted("remove_current", Current(who), "residue")
                 /\ todo' = {Current(who), Pending(who)}

\* removeDeviceFileStorageResidueForProfile: the files directly, whatever the route.
RemoveFile ==
  /\ Step("residue", "residue")
  /\ \E s \in todo :
       /\ IsCurrent(s) \/ todo = {s}
       /\ file' = [file EXCEPT ![s] = None]
       /\ todo' = todo \ {s}
  /\ UNCHANGED <<keyring, marker, cleanup, endpoint, mode, plan, after, who, cred, toFile, ghosts>>

\* The marker goes with the last slot file of any profile, never under a checkpoint.
RemoveMarker ==
  /\ pc = "residue"
  /\ todo = {}
  /\ marker' = (marker /\ (cleanup # {} \/ \E s \in Slot : file[s] # None))
  /\ endpoint' = endpoint \ {who}
  /\ Ended
  /\ UNCHANGED <<keyring, file, cleanup, ghosts>>

\* The keyring is locked, or an unlink fails: the removal stops where it is.
RemoveStops ==
  /\ pc \in {"remove_pending", "remove_current", "residue"}
  /\ IF pc = "residue" \/ FileBacked THEN Fails("unlink") ELSE Fails("locked")
  /\ Ended
  /\ UNCHANGED <<disk, ghosts>>

-----------------------------------------------------------------------------
Migration ==
  \/ StartMigration \/ CopySlot \/ CopyFails \/ WriteCheckpoint \/ WriteMarker
  \/ MarkerFails \/ DropCheckpoint \/ Rollback \/ RolledBack
  \/ CleanSlot \/ CleanStops \/ CleanDone

Pairing ==
  \/ \E p \in Profile : ForceFiles(p) \/ StartPairing(p) \/ Resume(p)
  \/ StorePending \/ SaveEndpoint \/ OptIn \/ Activate \/ Promote
  \/ Commit \/ CommitFails \/ Uncommit \/ DropPending \/ Settle

Removal ==
  \/ \E p \in Profile : Remove(p)
  \/ RemovePending \/ RemoveCurrent \/ RemoveFile \/ RemoveMarker \/ RemoveStops

Next == Migration \/ Pairing \/ Removal \/ Crash

Spec == Init /\ [][Next]_vars

-----------------------------------------------------------------------------
(* One type invariant. *)
CredTypeOK ==
  /\ keyring \in [Slot -> 0..MaxCred]
  /\ file \in [Slot -> 0..Torn]
  /\ marker \in BOOLEAN
  /\ cleanup \subseteq Slot
  /\ endpoint \subseteq Profile
  /\ mode \in {"unset", "explicit"}
  /\ todo \subseteq Slot /\ plan \subseteq Slot
  /\ after \in {"idle", "remove_pending", "drop_marker"}
  /\ who \in Profile
  /\ cred \in 0..MaxCred
  /\ toFile \in BOOLEAN
  /\ minted \in 0..MaxCred
  /\ works \in [Profile -> SUBSET (1..MaxCred)]
  /\ retired \subseteq 1..MaxCred
  /\ paired \subseteq Profile /\ hidden \subseteq Profile
  /\ gap \in BOOLEAN

(* No crash, failed write or half-done cleanup destroys the last copy of    *)
(* what a profile's Relay accepts (the verify before delete in              *)
(* resumeKeyringDeviceCredentialCleanup, the rollback of copies only, the   *)
(* pending slot kept until promotion), unless files and marker came apart.  *)
Survives ==
  ~gap => \A p \in paired : \E s \in {Current(p), Pending(p)} :
            keyring[s] \in works[p] \/ file[s] \in works[p]

\* A profile shows what its Relay accepts, or has an activation to resume.
Usable(p) ==
  \/ OnDisk(Current(p)) \in works[p]
  \/ p \in endpoint /\ {keyring[Pending(p)], file[Pending(p)]} \cap works[p] # {}

(* Between commands every profile finds a credential its Relay accepts,      *)
(* unless a pairing into files knowingly left it in the keyring: a migration *)
(* moves live credentials "without ever masking or losing one"               *)
(* (device_credential_migration.go:14-18).                                   *)
NeverMasked == pc = "idle" => \A p \in paired \ hidden : Usable(p)

(* The same while files and marker never came apart: whatever is killed or   *)
(* fails, copies, checkpoint, marker and deletes come in an order that shows *)
(* every profile its credential, and removing one profile hides no other.    *)
NothingMasked == ~gap => NeverMasked

(* Both: no credential in use is lost, or hidden behind the other store.     *)
NothingLost == Survives /\ NothingMasked
=============================================================================
