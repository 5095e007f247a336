----------------------------- MODULE CloudLink -----------------------------
(***************************************************************************)
(* Home Assistant Link for a profile that is paired locally: `cloud add`,  *)
(* `cloud reconnect` and `cloud remove`.  Link uses a sign-in (a refresh   *)
(* token) that Home Assistant keeps alive until it is revoked.  Its token  *)
(* is in one of three slots of the native keyring; config.json has the     *)
(* lifecycle, and for the current and the pending sign-in the generation   *)
(* and the client address.                                                 *)
(*                                                                         *)
(* A command holds the client mutation lock, except while the person is in *)
(* the browser: then another terminal may run a whole command.  It may be  *)
(* killed at any step, a keyring write may end in doubt, an answer of Home *)
(* Assistant may get lost.                                                 *)
(*                                                                         *)
(* A sign-in is numbered when its browser opens.  The number stands for    *)
(* its client address (a random port), which no other has, and for the     *)
(* token that the exchange of its code makes.                              *)
(***************************************************************************)
EXTENDS Naturals, FiniteSets

CONSTANTS Terminals,  \* where a command may wait for the browser
          Users,      \* people who may sign in, numbers above 0
          MaxSignIns  \* bound: browsers opened

CloudAssumption == MaxSignIns \in Nat \ {0} /\ Users \subseteq Nat \ {0}

VARIABLES cloud,    \* the profile's lifecycle in config.json
          slot,     \* the stored sign-ins
          live,     \* the sign-ins that Home Assistant accepts
          device,   \* the person this computer's device is bound to
          signIns,  \* how many browsers were opened
          gen,      \* the generation of each sign-in
          user,     \* the person who signed in
          waits,    \* what a terminal with an open browser remembers
          at,       \* the next step of the command with the lock
          cmd,      \* which command that is
          env,      \* the sign-in it works with
          late,     \* the hold it leaves once a doubtful sign-in is gone
          removing, \* history: a removal began to revoke
          orphans   \* history: the known way to forget a sign-in

command == <<at, cmd, env, late>>
people  == <<signIns, gen, user>>
history == <<removing, orphans>>
vars == <<cloud, slot, live, device, people, waits, command, history>>

Slots == {"current", "pending", "retiring"}
None == 0
SignIns == 1..MaxSignIns
Maybe == SignIns \cup {None}

NotDone == [s \in Slots |-> MaxSignIns + 1]
NoCloud == [state |-> "none", current |-> None, pending |-> None, hold |-> "none",
            done |-> NotDone]
NoWait == [n |-> None, cmd |-> "add", cloud |-> NoCloud]

States == {"none", "authorizing", "token_stored", "cloud_verified",
           "device_bound_or_paired", "rolling_back", "committed", "retiring_previous", "ready"}
Lifecycles == [state : States, current : Maybe, pending : Maybe,
               hold : {"none", "authorization", "identity", "storage", "outcome"},
               done : [Slots -> Maybe] \cup {NotDone}]

CloudTypeOK ==
  /\ cloud \in Lifecycles
  /\ slot \in [Slots -> Maybe] /\ live \subseteq SignIns
  /\ device \in Users \cup {None} /\ signIns \in Maybe
  /\ gen \in [SignIns -> Maybe] /\ user \in [SignIns -> Users \cup {None}]
  /\ waits \in [Terminals -> [n : Maybe, cmd : {"add", "reconnect"}, cloud : Lifecycles]]
  /\ cmd \in {"add", "reconnect"} /\ env \in Maybe /\ late \in {"none", "storage"}
  /\ removing \in BOOLEAN /\ orphans \subseteq SignIns

Init ==
  /\ cloud = NoCloud /\ slot = [s \in Slots |-> None]
  /\ live = {} /\ device = None
  /\ signIns = 0 /\ gen = [n \in SignIns |-> None] /\ user = [n \in SignIns |-> None]
  /\ waits = [t \in Terminals |-> NoWait]
  /\ at = "idle" /\ cmd = "add" /\ env = None /\ late = "none"
  /\ removing = FALSE /\ orphans = {}

Stored(n) == \E s \in Slots : slot[s] = n
SameGeneration(m, n) == m # None /\ n # None /\ gen[m] = gen[n]

Configured == cloud.current # None
Ready == cloud.state = "ready" /\ Configured /\ cloud.pending = None /\ cloud.done = NotDone

\* A command that stops leaves a safety hold, and never replaces another one.
Held(h) == IF cloud.hold = "none" THEN [cloud EXCEPT !.hold = h] ELSE cloud
EndWith(h) == at' = "idle" /\ cloud' = Held(h)

To(next) == at' = next /\ UNCHANGED <<cmd, env, late>>

\* A write of the keyring: done, or with an outcome nobody knows.
Write(new, next, h) ==
  /\ \/ slot' = new /\ at' = next /\ cloud' = cloud
     \/ slot' \in {slot, new} /\ EndWith(h)
  /\ UNCHANGED <<cmd, env, late>>

-----------------------------------------------------------------------------
(* The start of add and reconnect *)

Intent(c) ==
  /\ cloud.done = NotDone /\ cloud.hold = "none"
  /\ c = "reconnect" => Configured
  /\ c = "add" => ~Configured \/ cloud.state \in {"committed", "retiring_previous"}

\* The slots fit the lifecycle.
Preflight ==
  LET promoted == cloud.state = "device_bound_or_paired" /\ slot["pending"] = None
      resumes == cloud.pending # None /\ cloud.state # "committed"
  IN  /\ resumes /\ slot["pending"] # None =>
           /\ slot["pending"] = cloud.pending
           /\ slot["current"] = None => ~Configured
           /\ slot["current"] # None => slot["current"] \in {cloud.current, cloud.pending}
      /\ resumes /\ promoted => slot["current"] = cloud.pending
      /\ Configured /\ ~(resumes /\ (promoted \/ slot["pending"] # None)) =>
           slot["current"] = cloud.current
      /\ cloud.state \in {"committed", "retiring_previous"} => Configured

\* An unfinished rollback or commit comes first; any other run starts with what an
\* earlier one left to retire.
Start(c) ==
  /\ at = "idle" /\ Intent(c) /\ Preflight
  /\ cmd' = c
  /\ at' = IF cloud.state = "rolling_back" THEN "roll back"
           ELSE IF cloud.state = "committed" THEN "settle" ELSE "retire"
  /\ env' = None /\ late' = "none"
  /\ UNCHANGED <<cloud, slot, live, device, people, waits, history>>

Retire ==
  /\ at = "retire"
  /\ IF slot["retiring"] # None
     THEN live' = live \ {slot["retiring"]} /\ To("drop retiring")
     ELSE /\ live' = live
          /\ To(IF cloud.state = "retiring_previous" THEN "finish" ELSE "begin")
  /\ UNCHANGED <<cloud, slot, device, people, waits, history>>

DropRetiring ==
  /\ at = "drop retiring"
  /\ Write([slot EXCEPT !["retiring"] = None], "retire", "storage")
  /\ UNCHANGED <<live, device, people, waits, history>>

Begin ==
  /\ at = "begin"
  /\ cloud' = IF cloud = NoCloud \/ (cmd = "reconnect" /\ Ready)
              THEN [cloud EXCEPT !.state = "authorizing"] ELSE cloud
  /\ To("authorize")
  /\ UNCHANGED <<slot, live, device, people, waits, history>>

-----------------------------------------------------------------------------
(* The sign-in *)

\* What an earlier run left to go on with.
Resumable ==
  IF slot["pending"] # None THEN slot["pending"]
  ELSE IF cloud.pending # None /\ cloud.state = "device_bound_or_paired" THEN slot["current"]
  ELSE None

\* It must be the one in the lifecycle, and after the token was stored it must be there.
Fits ==
  IF Resumable # None THEN Resumable = cloud.pending
  ELSE cloud.pending # None => cloud.state = "authorizing"

\* Home Assistant still accepts it, or rejects it: then it is cleared away.
GoOn ==
  /\ at = "authorize" /\ Resumable # None /\ Fits
  /\ env' = Resumable
  /\ at' = IF env' \in live THEN "note"
           ELSE IF cloud.state = "authorizing" THEN "drop" ELSE "idle"
  /\ UNCHANGED <<cloud, slot, live, device, people, waits, cmd, late, history>>

\* A sign-in that may have been exchanged keeps its generation.
Generation(n) == IF cloud.pending # None THEN gen[cloud.pending] ELSE n

\* The browser opens and the lock is released.  Over a saved sign-in the new address
\* is saved at once; otherwise it is remembered until the person is back.
OpenBrowser(t) ==
  LET n == signIns + 1
      saved == IF cloud.pending # None THEN [cloud EXCEPT !.pending = n] ELSE cloud
  IN  /\ at = "authorize" /\ Resumable = None /\ Fits
      /\ waits[t] = NoWait /\ n \in SignIns
      /\ signIns' = n
      /\ gen' = [gen EXCEPT ![n] = Generation(n)]
      /\ \E u \in Users : user' = [user EXCEPT ![n] = u]
      /\ cloud' = saved
      /\ waits' = [waits EXCEPT ![t] = [n |-> n, cmd |-> cmd, cloud |-> saved]]
      /\ To("idle")
      /\ UNCHANGED <<slot, live, device, history>>

\* Cancelled, timed out or killed; or the config changed meanwhile.
LeaveBrowser(t) ==
  /\ waits[t] # NoWait
  /\ waits' = [waits EXCEPT ![t] = NoWait]
  /\ UNCHANGED <<cloud, slot, live, device, people, command, history>>

\* Mutant: the config is not compared with what it was.
AnyConfig(t) == t \in Terminals

ConfigAsLeft(t) == waits[t].cloud = cloud

\* Approved, with the lock again.
ComeBack(t) ==
  /\ at = "idle" /\ waits[t] # NoWait /\ ConfigAsLeft(t)
  /\ at' = "save" /\ cmd' = waits[t].cmd /\ env' = waits[t].n /\ late' = "none"
  /\ waits' = [waits EXCEPT ![t] = NoWait]
  /\ UNCHANGED <<cloud, slot, live, device, people, history>>

\* Mutant: the sign-in is saved after its token was stored, not before the exchange.
SaveNothing == at = "save" /\ To("exchange") /\ UNCHANGED <<cloud, slot, live, device, people, waits, history>>

\* Saved before a token can exist.
Save ==
  /\ at = "save"
  /\ cloud' = [cloud EXCEPT !.pending = env]
  /\ To("exchange")
  /\ UNCHANGED <<slot, live, device, people, waits, history>>

\* The code is exchanged, the answer is lost, or the code is refused.
Exchange ==
  /\ at = "exchange" /\ UNCHANGED <<cmd, env, late>>
  /\ \/ live' = live \cup {env} /\ at' = "create" /\ cloud' = cloud
     \/ live' \in {live, live \cup {env}} /\ EndWith("authorization")
     \/ live' = live /\ at' = "idle" /\ cloud' = cloud
  /\ UNCHANGED <<slot, device, people, waits, history>>

\* Sign-ins of the same generation that neither a slot nor the lifecycle has.
Unnoticed == {n \in live \ {env} : SameGeneration(n, env) /\ ~Stored(n)}

\* The slots were read before the browser opened, and are not read again.
Create ==
  LET new == [slot EXCEPT !["pending"] = env]
  IN  /\ at = "create" /\ UNCHANGED <<cmd, env>>
      /\ \/ /\ slot' = new /\ at' = "note" /\ late' = late
            /\ orphans' = orphans \cup Unnoticed
         \/ /\ slot' = slot /\ at' = "unmint" /\ late' = "none" /\ orphans' = orphans
         \/ /\ slot' \in {slot, new} /\ at' = "unmint" /\ late' = "storage"
            /\ orphans' = IF slot' = new THEN orphans \cup Unnoticed ELSE orphans
      /\ UNCHANGED <<cloud, live, device, people, waits, removing>>

\* A token that could not be stored is revoked, and after doubt its slot emptied.
Unmint ==
  /\ at = "unmint" /\ UNCHANGED <<cmd, env, late>>
  /\ \/ /\ live' = live \ {env} /\ cloud' = cloud
        /\ at' = IF late = "storage" THEN "drop" ELSE "idle"
     \/ live' \in {live, live \ {env}} /\ EndWith("authorization")
  /\ UNCHANGED <<slot, device, people, waits, history>>

Drop ==
  /\ at = "drop" /\ slot["pending"] \in {None, env}
  /\ Write([slot EXCEPT !["pending"] = None], "forget", "authorization")
  /\ UNCHANGED <<live, device, people, waits, history>>

Forget ==
  /\ at = "forget"
  /\ cloud' = [Held(late) EXCEPT !.pending = None]
  /\ To("idle")
  /\ orphans' = orphans \cup Unnoticed
  /\ UNCHANGED <<slot, live, device, people, waits, removing>>

-----------------------------------------------------------------------------
(* From a stored token to a working Link *)

Rank(state) ==
  CASE state = "authorizing" -> 0 [] state = "token_stored" -> 1
    [] state = "cloud_verified" -> 2 [] state = "device_bound_or_paired" -> 3

\* A resumed run does not fall back to an earlier state.
Advanced(state) ==
  IF Rank(cloud.state) < Rank(state) THEN [cloud EXCEPT !.state = state] ELSE cloud

Note ==
  /\ at = "note" /\ cloud' = Advanced("token_stored") /\ To("verify")
  /\ UNCHANGED <<slot, live, device, people, waits, history>>

\* The home behind the Link is checked, and the slot written with what it said.
Verify ==
  /\ at = "verify" /\ UNCHANGED <<cmd, env, late>>
  /\ \/ at' = "bind" /\ cloud' = Advanced("cloud_verified")
     \/ \E h \in {"identity", "storage"} : EndWith(h)
  /\ UNCHANGED <<slot, live, device, people, waits, history>>

OtherPerson ==
  \/ Configured /\ user[cloud.current] # user[env]
  \/ device \notin {None, user[env]}

\* The device is bound to the person, or the answer is lost.
Bind ==
  /\ at = "bind" /\ ~OtherPerson /\ UNCHANGED <<cmd, env, late>>
  /\ \/ device' = user[env] /\ at' = "bound" /\ cloud' = cloud
     \/ device' \in {device, user[env]} /\ EndWith("outcome")
  /\ UNCHANGED <<slot, live, people, waits, history>>

\* Another person: a reconnect is rolled back, an add stops for good.
Conflict ==
  /\ at = "bind" /\ OtherPerson /\ UNCHANGED <<cmd, env, late>>
  /\ \/ cmd = "reconnect" /\ cloud' = [cloud EXCEPT !.state = "rolling_back"] /\ at' = "roll back"
     \/ cmd = "add" /\ EndWith("identity")
  /\ UNCHANGED <<slot, live, device, people, waits, history>>

\* Mutant: the lifecycle names the new sign-in before the slot holds it.
CommitEarly ==
  /\ at = "bound" /\ cloud' = [cloud EXCEPT !.current = env, !.state = "committed"]
  /\ To("promote")
  /\ UNCHANGED <<slot, live, device, people, waits, history>>

Bound ==
  /\ at = "bound" /\ cloud' = Advanced("device_bound_or_paired") /\ To("promote")
  /\ UNCHANGED <<slot, live, device, people, waits, history>>

InPlace == SameGeneration(slot["current"], env)

\* The previous token is still to be copied to the retiring slot.
ToKeep == slot["current"] # None /\ slot["retiring"] = None

\* One write per step: keep the previous token, replace it, empty the pending slot.
Promote ==
  LET kept == [slot EXCEPT !["retiring"] = slot["current"]]
      replaced == [slot EXCEPT !["current"] = slot["pending"]]
      cleared == [slot EXCEPT !["pending"] = None]
  IN  /\ at = "promote"
      /\ \/ InPlace /\ Write(cleared, "commit", "storage")
         \/ ~InPlace /\ ToKeep /\ Write(kept, "promote", "storage")
         \/ /\ ~InPlace /\ ~ToKeep
            /\ slot["retiring"] # None => SameGeneration(slot["retiring"], slot["current"])
            /\ Write(replaced, "promote", "storage")
      /\ UNCHANGED <<live, device, people, waits, history>>

Commit ==
  /\ at = "commit"
  /\ cloud' = [cloud EXCEPT !.current = env, !.state = "committed"] /\ To("settle")
  /\ removing' = FALSE
  /\ UNCHANGED <<slot, live, device, people, waits, orphans>>

Settle ==
  /\ at = "settle"
  /\ cloud' = [cloud EXCEPT !.pending = None, !.state = "retiring_previous"] /\ To("retire")
  /\ UNCHANGED <<slot, live, device, people, waits, history>>

Finish ==
  /\ at = "finish"
  /\ cloud' = [cloud EXCEPT !.state = "ready"] /\ To("idle")
  /\ UNCHANGED <<slot, live, device, people, waits, history>>

-----------------------------------------------------------------------------
(* The rollback of a reconnect by another person *)

RollBack ==
  /\ at = "roll back" /\ UNCHANGED <<cmd, env, late>>
  /\ \/ slot["pending"] = None /\ live' = live /\ at' = "restore" /\ cloud' = cloud
     \/ /\ slot["pending"] # None
        /\ \/ live' = live \ {slot["pending"]} /\ at' = "drop pending" /\ cloud' = cloud
           \/ live' \in {live, live \ {slot["pending"]}} /\ EndWith("authorization")
  /\ UNCHANGED <<slot, device, people, waits, history>>

DropPending ==
  /\ at = "drop pending"
  /\ Write([slot EXCEPT !["pending"] = None], "restore", "authorization")
  /\ UNCHANGED <<live, device, people, waits, history>>

Restore ==
  /\ at = "restore"
  /\ cloud' = [cloud EXCEPT !.pending = None, !.state = "ready"] /\ To("idle")
  /\ UNCHANGED <<slot, live, device, people, waits, history>>

-----------------------------------------------------------------------------
(* Removal *)

\* The lifecycle names a sign-in that no slot holds, or one that got lost.
Unverifiable ==
  \/ \E n \in {cloud.current, cloud.pending} \ {None} : ~Stored(n)
  \/ cloud.hold = "authorization" /\ cloud.current = None /\ cloud.pending = None

\* What the owner is told to delete in Home Assistant: the only address there is, or all.
ToDelete ==
  LET clients == {cloud.current, cloud.pending, slot["current"], slot["pending"],
                  slot["retiring"]} \ {None}
      unstored == cloud.pending # None /\ \A s \in Slots : ~SameGeneration(slot[s], cloud.pending)
  IN  IF ~unstored /\ Cardinality(clients) = 1 THEN clients ELSE SignIns

Remove ==
  /\ at = "idle" /\ cloud # NoCloud
  /\ \/ /\ cloud.done = NotDone /\ Unverifiable
        /\ EndWith("authorization") /\ removing' = removing
     \/ /\ cloud.done = NotDone /\ ~Unverifiable
        /\ at' = "revoke" /\ cloud' = cloud /\ removing' = TRUE
     \/ /\ cloud.done # NotDone /\ \A s \in Slots : slot[s] \in {None, cloud.done[s]}
        /\ at' = "erase" /\ cloud' = cloud /\ removing' = TRUE
  /\ UNCHANGED <<slot, live, device, people, waits, cmd, env, late, orphans>>

\* The owner does as told, and runs the command that says so.
RemoveConfirmed ==
  /\ at = "idle" /\ cloud.done = NotDone /\ Unverifiable
  /\ live' = live \ ToDelete
  /\ cloud' = [cloud EXCEPT !.done = slot]
  /\ To("erase") /\ removing' = TRUE
  /\ UNCHANGED <<slot, device, people, waits, orphans>>

ToRevoke == {slot[s] : s \in Slots} \cap live

Revoke ==
  /\ at = "revoke"
  /\ \E n \in ToRevoke : live' = live \ {n}
  /\ UNCHANGED <<cloud, slot, device, people, waits, command, history>>

\* All are revoked: the slots are listed, and from now on only deleted.
Attest ==
  /\ at = "revoke" /\ ToRevoke = {}
  /\ cloud' = IF \E s \in Slots : slot[s] # None THEN [cloud EXCEPT !.done = slot] ELSE cloud
  /\ To("erase")
  /\ UNCHANGED <<slot, live, device, people, waits, history>>

NextToErase ==
  IF slot["retiring"] # None THEN "retiring"
  ELSE IF slot["pending"] # None THEN "pending" ELSE "current"

Erase ==
  /\ at = "erase" /\ slot[NextToErase] # None
  /\ Write([slot EXCEPT ![NextToErase] = None], "erase", "storage")
  /\ UNCHANGED <<live, device, people, waits, history>>

Removed ==
  /\ at = "erase" /\ slot[NextToErase] = None
  /\ cloud' = NoCloud /\ To("idle") /\ removing' = FALSE
  /\ UNCHANGED <<slot, live, device, people, waits, orphans>>

\* Killed, or failed in a way that leaves no hold.
Stop ==
  /\ at # "idle" /\ To("idle")
  /\ UNCHANGED <<cloud, slot, live, device, people, waits, history>>

Next ==
  \/ \E c \in {"add", "reconnect"} : Start(c)
  \/ Retire \/ DropRetiring \/ Begin \/ GoOn
  \/ \E t \in Terminals : OpenBrowser(t) \/ LeaveBrowser(t) \/ ComeBack(t)
  \/ Save \/ Exchange \/ Create \/ Unmint \/ Drop \/ Forget
  \/ Note \/ Verify \/ Bind \/ Conflict \/ Bound \/ Promote \/ Commit \/ Settle \/ Finish
  \/ RollBack \/ DropPending \/ Restore
  \/ Remove \/ RemoveConfirmed \/ Revoke \/ Attest \/ Erase \/ Removed \/ Stop

Spec == Init /\ [][Next]_vars

-----------------------------------------------------------------------------
(* Properties *)

\* No sign-in is forgotten: one that Home Assistant accepts is in a slot, in the hands
\* of the running command, or in doubt in a way that makes `cloud remove` name it to
\* the owner (cloud_authorization_cleanup_plan.go).  The exception is one that was
\* exchanged by a command that was killed, when a later one took its generation over.
SignInsAccountedFor ==
  \A n \in live :
    \/ Stored(n) \/ n \in orphans
    \/ env = n /\ at \in {"create", "unmint"}
    \/ Unverifiable /\ n \in ToDelete

\* Without the exception: once Link is removed, Home Assistant accepts none of its
\* sign-ins.
RemovedMeansSignedOut == cloud = NoCloud => live = {}

\* Until a reconnect is verified and bound, and from its commit on, Link works: the
\* current slot holds what the lifecycle names, Home Assistant accepts it, and it is of
\* the person that this computer's device is bound to.
LinkKeepsWorking ==
  Configured /\ ~removing /\ cloud.state # "device_bound_or_paired" =>
    /\ slot["current"] = cloud.current /\ cloud.current \in live
    /\ device = user[cloud.current]

\* Whatever stopped the last command, the next one can go on.  Without a hold, add or
\* reconnect is allowed and finds slots that fit, and what it resumes is the sign-in in
\* the lifecycle, which still works unless Link is being removed or the token was not
\* noted.  An unfinished removal finds nothing in the slots that it did not revoke.
NeverStuck ==
  at = "idle" /\ cloud # NoCloud =>
    \/ cloud.hold # "none" /\ cloud.done = NotDone
    \/ cloud.done # NotDone /\ \A s \in Slots : slot[s] \in {None, cloud.done[s]}
    \/ /\ \E c \in {"add", "reconnect"} : Intent(c)
       /\ Preflight
       /\ \/ cloud.state \in {"committed", "retiring_previous", "rolling_back"}
          \/ Fits /\ (Resumable \in live \cup {None} \/ cloud.state = "authorizing" \/ removing)
=============================================================================
