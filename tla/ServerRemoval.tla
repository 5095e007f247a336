--------------------------- MODULE ServerRemoval ---------------------------
(***************************************************************************)
(* `ha-nova server remove` of one profile: the owner is asked, and what    *)
(* was shown is compared again under the mutation lock; then a checkpoint  *)
(* in the profile lists the two credential slots as they were shown, each  *)
(* slot is revoked, its outcome recorded and the slot deleted, and at last *)
(* the profile goes.  The command may be killed at any step; the same      *)
(* command resumes from the checkpoint without asking.                     *)
(*                                                                         *)
(* Around it: pairings of the profile, which hold the same lock and are    *)
(* refused while a checkpoint exists; a keyring that lost its entries; and *)
(* something else that writes to the slots.                                *)
(*                                                                         *)
(* One Relay, one credential store and no Cloud; other profiles exist.     *)
(* Endpoints are whole: a URL always with its pin.                         *)
(***************************************************************************)
EXTENDS Naturals, FiniteSets

CONSTANTS Askers,    \* terminals with a removal that waits for the typed name
          MaxCred,   \* bound: credentials the Relay hands out
          MaxKills,  \* bound: commands killed
          MaxWrites  \* bound: changes of the slots by something else

RemovalAssumption == MaxCred \in Nat \ {0} /\ MaxKills \in Nat /\ MaxWrites \in Nat

VARIABLES present,    \* the profile is in config.json
          urls,       \* the slots whose endpoint its config has
          checkpoint, \* server_removal: the slots as shown, and their outcomes
          slot,       \* the stored credentials
          asked,      \* what each asker showed the owner
          at,         \* the next step of the command with the lock
          this,       \* the slot it is about
          held,       \* the slots this run found a credential in
          outcome,    \* of the last revocation
          notes,      \* the credentials this run has a note about
          active,     \* the credential the Relay accepts from this computer
          issued,     \* how many the Relay handed out
          fresh,      \* the credential being paired
          kills, writes,
          foreign,    \* history: a slot was changed after the checkpoint
          confirmed,  \* history: the contents the owner confirmed to delete
          deleted,    \* history: the contents deleted
          told,       \* history: the credentials the owner knows may be left
          blind       \* history: the known ways in which a note got lost

config  == <<present, urls, checkpoint>>
removal == <<this, held, outcome, notes>>
pairing == <<fresh, issued>>
faults  == <<kills, writes, foreign>>
history == <<confirmed, deleted, told, blind>>
vars == <<config, slot, asked, at, removal, pairing, active, faults, history>>

Slots == {"pending", "current"}
Creds == 1..MaxCred
None == 0
Junk == MaxCred + 1  \* a stored value that is no credential

RemovalSteps == {"start", "revoke", "record", "delete", "prove"}
PairingSteps == {"store", "endpoint", "activate", "live", "promote", "drop", "settle"}

NoCheckpoint == [shown |-> [s \in Slots |-> None], done |-> [s \in Slots |-> "never"]]
NoAnswer == [urls |-> {}, slot |-> [s \in Slots |-> None], waits |-> FALSE]
Checkpointed == checkpoint # NoCheckpoint

RemovalTypeOK ==
  /\ present \in BOOLEAN /\ urls \in SUBSET Slots
  /\ checkpoint \in [shown : [Slots -> Creds \cup {None, Junk}],
                     done : [Slots -> {"never", "not yet", "revoked", "failed", "local"}]]
  /\ slot \in [Slots -> Creds \cup {None, Junk}]
  /\ asked \in [Askers -> [urls : SUBSET Slots, slot : [Slots -> Creds \cup {None, Junk}],
                           waits : BOOLEAN]]
  /\ at \in {"idle", "tell"} \cup RemovalSteps \cup PairingSteps
  /\ this \in Slots /\ held \in SUBSET Slots /\ notes \in SUBSET Creds
  /\ outcome \in {"none", "revoked", "failed", "local"}
  /\ active \in Creds \cup {None} /\ issued \in 0..MaxCred /\ fresh \in Creds \cup {None}
  /\ kills \in 0..MaxKills /\ writes \in 0..MaxWrites /\ foreign \in BOOLEAN
  /\ confirmed \in SUBSET (Creds \cup {Junk}) /\ deleted \in SUBSET (Creds \cup {Junk})
  /\ told \in SUBSET Creds /\ blind \in SUBSET {"unsaid", "hidden"}

Init ==
  /\ present = TRUE /\ urls = {} /\ checkpoint = NoCheckpoint
  /\ slot = [s \in Slots |-> None]
  /\ asked = [a \in Askers |-> NoAnswer]
  /\ at = "idle" /\ this = "pending" /\ held = {} /\ outcome = "none" /\ notes = {}
  /\ active = None /\ issued = 0 /\ fresh = None
  /\ kills = 0 /\ writes = 0 /\ foreign = FALSE
  /\ confirmed = {} /\ deleted = {} /\ told = {} /\ blind = {}

-----------------------------------------------------------------------------
(* Lost keys: an endpoint without its credential *)

\* The pending key is thought to be the one that belongs to both endpoints.
InterruptedFirstPromotion == slot["pending"] \in Creds /\ urls = Slots

Lost ==
  {s \in urls :
    /\ slot[s] = None
    /\ checkpoint.done[s] \in {"never", "not yet"}
    /\ s = "current" => ~InterruptedFirstPromotion
    /\ ~(Checkpointed /\ checkpoint.shown[s] = None)}

\* Known blind: no key looks lost or damaged, but the Relay accepts one that no slot
\* holds.  A pairing over it was stopped before the Relay activated the new key.
HiddenLoss ==
  Lost = {} /\ \A s \in Slots : slot[s] # Junk /\ active \notin {None, slot[s]}

-----------------------------------------------------------------------------
(* The removal *)

\* Up to the typed name, without the lock.
Ask(a) ==
  /\ ~asked[a].waits /\ present /\ ~Checkpointed
  /\ asked' = [asked EXCEPT ![a] = [urls |-> urls, slot |-> slot, waits |-> TRUE]]
  /\ UNCHANGED <<config, slot, at, removal, pairing, active, faults, history>>

\* Under the lock: all is as it was shown.
Unchanged(a) ==
  /\ present /\ ~Checkpointed
  /\ asked[a].urls = urls /\ asked[a].slot = slot

\* The name was typed: the checkpoint is written.  A lost key was announced with
\* the question: the owner is to look for this computer, whatever its key.
Confirm(a) ==
  /\ at = "idle" /\ asked[a].waits /\ Unchanged(a)
  /\ checkpoint' = [shown |-> slot, done |-> [s \in Slots |-> "not yet"]]
  /\ confirmed' = {asked[a].slot[s] : s \in Slots} \ {None}
  /\ asked' = [asked EXCEPT ![a] = NoAnswer]
  /\ at' = "start"
  /\ told' = IF Lost # {} THEN Creds ELSE told
  /\ blind' = IF HiddenLoss THEN blind \cup {"hidden"} ELSE blind
  /\ UNCHANGED <<present, urls, slot, removal, pairing, active, faults, deleted>>

\* Another name, no answer, something changed, or the lock is taken.
Refuse(a) ==
  /\ asked[a].waits
  /\ asked' = [asked EXCEPT ![a] = NoAnswer]
  /\ UNCHANGED <<config, slot, at, removal, pairing, active, faults, history>>

\* The same command again.
Resume ==
  /\ at = "idle" /\ present /\ Checkpointed
  /\ at' = "start"
  /\ UNCHANGED <<config, slot, asked, removal, pairing, active, faults, history>>

\* Mutant: what is in the slot is not compared.
AnyContent(s) == s \in Slots

\* The slot holds what the checkpoint lists, or nothing.
AsListed(s) == checkpoint.shown[s] # None => slot[s] \in {None, checkpoint.shown[s]}

\* A credential appeared since, is missing without an outcome, or was replaced.
Unsafe ==
  \/ Lost # {}
  \/ \E s \in Slots :
       \/ checkpoint.shown[s] = None /\ slot[s] # None
       \/ checkpoint.shown[s] # None /\ checkpoint.done[s] = "not yet" /\ slot[s] = None
       \/ ~AsListed(s)

\* What a note about a slot tells the owner to look for.
About(s) == IF checkpoint.shown[s] = Junk THEN 1..issued ELSE {checkpoint.shown[s]}

\* Mutant: a resumed run forgets what an earlier one found.
OwnNotesOnly == {}

\* An outcome that an earlier run recorded is said again.
Recorded ==
  UNION {About(s) : s \in {x \in Slots : slot[x] = None /\ checkpoint.done[x] = "failed"}}

Begin ==
  /\ at = "start" /\ ~Unsafe
  /\ held' = {s \in Slots : slot[s] # None}
  /\ notes' = Recorded
  /\ this' = "pending" /\ at' = "revoke"
  /\ UNCHANGED <<config, slot, asked, outcome, pairing, active, faults, history>>

\* On to the other slot, or to the end.
Onward ==
  /\ this' = "current"
  /\ at' = IF this = "pending" THEN "revoke" ELSE "prove"

Skip ==
  /\ at = "revoke" /\ this \notin held /\ Onward
  /\ UNCHANGED <<config, slot, asked, held, outcome, notes, pairing, active, faults, history>>

\* A slot without an endpoint was never activated.  An answer may get lost.
Revoke ==
  LET c == checkpoint.shown[this]
      without == IF active = c THEN None ELSE active
  IN  /\ at = "revoke" /\ this \in held
      /\ \/ c = Junk /\ outcome' = "failed" /\ active' = active
         \/ c # Junk /\ this \notin urls /\ outcome' = "local" /\ active' = active
         \/ c # Junk /\ this \in urls /\ outcome' = "revoked" /\ active' = without
         \/ c # Junk /\ this \in urls /\ outcome' = "failed" /\ active' \in {active, without}
      /\ at' = "record"
      /\ UNCHANGED <<config, slot, asked, this, held, notes, pairing, faults, history>>

\* Mutant: the outcome is only kept in memory.
RecordNothing ==
  /\ at = "record" /\ at' = "delete"
  /\ UNCHANGED <<config, slot, asked, removal, pairing, active, faults, history>>

\* Before the slot is deleted: a resumed run finds it gone.
Record ==
  /\ at = "record"
  /\ checkpoint' = [checkpoint EXCEPT !.done[this] = outcome]
  /\ at' = "delete"
  /\ UNCHANGED <<present, urls, slot, asked, removal, pairing, active, faults, history>>

Delete ==
  /\ at = "delete" /\ AsListed(this)
  /\ slot' = [slot EXCEPT ![this] = None]
  /\ deleted' = deleted \cup ({slot[this]} \ {None})
  /\ notes' = IF outcome = "failed" THEN notes \cup About(this) ELSE notes
  /\ Onward
  /\ UNCHANGED <<config, asked, held, outcome, pairing, active, faults, confirmed, told, blind>>

\* Nothing came back: the profile goes, with its checkpoint.
Prove ==
  /\ at = "prove" /\ \A s \in Slots : slot[s] = None
  /\ present' = FALSE /\ urls' = {} /\ checkpoint' = NoCheckpoint
  /\ at' = "tell"
  /\ UNCHANGED <<slot, asked, removal, pairing, active, faults, history>>

\* printDetails, after the configuration was written.
Tell ==
  /\ at = "tell"
  /\ told' = told \cup notes
  /\ at' = "idle" /\ notes' = {}
  /\ UNCHANGED <<config, slot, asked, this, held, outcome, pairing, active, faults, confirmed,
                 deleted, blind>>

\* A run that finds something else than the checkpoint lists stops, and says
\* what it knows unless a credential came back at the very end.
Stop ==
  /\ \/ at = "start" /\ Unsafe /\ told' = told \cup Recorded
     \/ at = "delete" /\ ~AsListed(this) /\ told' = told \cup notes
     \/ at = "prove" /\ (\E s \in Slots : slot[s] # None) /\ told' = told
  /\ at' = "idle" /\ notes' = {}
  /\ UNCHANGED <<config, slot, asked, this, held, outcome, pairing, active, faults, confirmed,
                 deleted, blind>>

-----------------------------------------------------------------------------
(* Pairings, which a checkpoint blocks (rejectPendingServerRemoval) *)

MayPair == at = "idle" /\ present /\ ~Checkpointed

Resumable == slot["pending"] \in Creds /\ "pending" \in urls

StartPairing ==
  /\ MayPair /\ ~Resumable /\ slot["pending"] # Junk /\ issued < MaxCred
  /\ issued' = issued + 1 /\ fresh' = issued + 1
  /\ at' = "store"
  /\ UNCHANGED <<config, slot, asked, removal, active, faults, history>>

ResumePairing ==
  /\ MayPair /\ Resumable
  /\ fresh' = slot["pending"]
  /\ at' = "activate"
  /\ UNCHANGED <<config, slot, asked, removal, issued, active, faults, history>>

\* Pending credential, pending endpoint, live endpoint, current credential, the
\* pending ones away: each write durable before the next.
Write(from, to, slot1, urls1) ==
  /\ at = from /\ at' = to /\ slot' = slot1 /\ urls' = urls1
  /\ UNCHANGED <<present, checkpoint, asked, removal, pairing, active, faults, history>>

PairingWrites ==
  \/ Write("store", "endpoint", [slot EXCEPT !["pending"] = fresh], urls)
  \/ Write("endpoint", "activate", slot, urls \cup {"pending"})
  \/ Write("live", "promote", slot, urls \cup {"current"})
  \/ Write("promote", "drop", [slot EXCEPT !["current"] = fresh], urls)
  \/ Write("drop", "settle", [slot EXCEPT !["pending"] = None], urls)
  \/ \E left \in {{}, {"pending"}} :  \* the last save is best effort
       Write("settle", "idle", slot, {"current"} \cup left)

\* The Relay drops the computer's earlier device; the answer may get lost.
Activate ==
  /\ at = "activate"
  /\ \/ active' = fresh /\ at' = "live"
     \/ active' \in {active, fresh} /\ at' = "idle"
  /\ UNCHANGED <<config, slot, asked, removal, pairing, faults, history>>

-----------------------------------------------------------------------------
(* Faults *)

Kill ==
  /\ at # "idle" /\ kills < MaxKills
  /\ kills' = kills + 1
  /\ blind' = IF at = "tell" THEN blind \cup {"unsaid"} ELSE blind
  /\ at' = "idle" /\ notes' = {}
  /\ UNCHANGED <<config, slot, asked, this, held, outcome, pairing, active, writes, foreign,
                 confirmed, deleted, told>>

\* A reset keyring, a damaged entry.  Not while a pairing runs.
ForeignWrite(s) ==
  /\ present /\ at \notin PairingSteps /\ writes < MaxWrites
  /\ writes' = writes + 1
  /\ \E v \in {None, Junk} \ {slot[s]} : slot' = [slot EXCEPT ![s] = v]
  /\ foreign' = (foreign \/ Checkpointed)
  /\ UNCHANGED <<config, asked, at, removal, pairing, active, kills, history>>

Removal == Resume \/ Begin \/ Skip \/ Revoke \/ Record \/ Delete \/ Prove \/ Tell \/ Stop

Next ==
  \/ \E a \in Askers : Ask(a) \/ Confirm(a) \/ Refuse(a)
  \/ Removal
  \/ StartPairing \/ ResumePairing \/ PairingWrites \/ Activate
  \/ Kill
  \/ \E s \in Slots : ForeignWrite(s)

Spec == Init /\ [][Next]_vars

-----------------------------------------------------------------------------
(* What makes it correct *)

\* A removal that was stopped at any step resumes: unless something else wrote
\* to the slots, what is found is what the checkpoint lists.
ResumeSucceeds == Checkpointed /\ ~foreign => ~Unsafe

\* Nothing is deleted that the owner did not see before typing the name, and
\* nothing that was stored in its place since.
OnlyConfirmedGoes == deleted \subseteq confirmed

\* When the profile is gone, either the Relay accepts nothing from this computer
\* or the owner was told what to look for; over kills and lost answers.
Forgotten == ~present /\ at # "tell" /\ active \notin told \cup {None}
NoneLeftUntold == blind = {} => ~Forgotten

\* "The purge revokes that pairing with the pending key, so the current key is
\* not lost" (uninstall_lost_device_key.go:33): where a key counts as not lost
\* because its pairing was stopped, the pending key is that pairing's.
PendingKeyCovers ==
  at = "idle" /\ InterruptedFirstPromotion /\ slot["current"] = None
    => active \in {None, slot["pending"]}
=============================================================================
