------------------------------ MODULE ChatApps ------------------------------
(***************************************************************************)
(* The owner's switch for chat apps (runtime/chat-apps.ts): a bridge       *)
(* process that is started, watched and restarted, its credential in the   *)
(* registry, the secret, the integration's folder in Home Assistant and    *)
(* the Supervisor's discovery message.  Turning on, turning off and the    *)
(* start-up queue behind each other (`serial`), but between two of their   *)
(* calls processes exit, timers fire, Home Assistant acts and the App may  *)
(* die.                                                                    *)
(*                                                                         *)
(* Time is left out: a timer that is set may fire at any step.  What a     *)
(* request only refuses (consent, configuration, version) changes nothing  *)
(* and is left out too.  There is one NOVA App, so the folder, when it     *)
(* carries a mark, carries this App's.  An id (a secret, a message's uuid, *)
(* a credential, a process) is a number nobody holds yet.                  *)
(***************************************************************************)
EXTENDS Naturals, FiniteSets

CONSTANTS MaxRequests,  \* bound: times the owner turns on or off
          MaxFaults,    \* bound: failed calls and writes, and crashes
          MaxProcs      \* bound: bridge processes alive at a time

ASSUME ChatAssumption == MaxRequests \in Nat /\ MaxFaults \in Nat /\ MaxProcs \in Nat \ {0}

VARIABLES enabled, uuid,     \* state.json: the switch, the message's id (0: none)
          secret,            \* the secret file (0: none)
          relay,             \* relay.json: the credential in it (0: none)
          registry,          \* the bridge's records in the device registry
          damaged,           \* the registry's file was damaged when the App started
          up,                \* the App runs
          child, wanted,     \* the process it owns (0: none), and whether it wants one
          respawn,           \* the timer that starts the bridge again is set
          procs,             \* the bridge processes alive
          op,                \* what the queue is busy with
          bootDue,           \* the start-up, or its retry, is still to run
          folder,            \* custom_components/ha_nova
          message,           \* the Supervisor's discovery message
          heard, entry,      \* what Home Assistant read of it, and the entry it made
          loaded,            \* Home Assistant runs the integration
          backup,            \* a copy of /data
          lost,              \* history: nothing the App keeps tells of the message
          requests, faults, restores  \* what the bounds count

files   == <<enabled, uuid, secret, relay>>
access  == <<registry, damaged>>
bridge  == <<child, wanted, respawn, procs>>
home    == <<folder, message, heard, entry, loaded>>
bounds  == <<requests, faults, restores>>
vars == <<files, access, up, bridge, op, bootDue, home, backup, lost, bounds>>

None == [uuid |-> 0, secret |-> 0]
Idle == [task |-> "none", at |-> "idle", saved |-> 0, more |-> FALSE]

Fresh(used) == CHOOSE n \in 1..(Cardinality(used) + 1) : n \notin used

NewSecret == Fresh({message.secret, heard.secret, entry.secret, backup.secret})
NewUuid   == Fresh({uuid, heard.uuid, entry.uuid, backup.uuid})
NewCred   == Fresh({relay, backup.relay} \cup {d.id : d \in registry \cup backup.registry}
                   \cup {p.cred : p \in procs})

\* One fault less to come.
Fault  == faults < MaxFaults /\ faults' = faults + 1 /\ UNCHANGED <<requests, restores>>
Smooth == UNCHANGED bounds

Init ==
  /\ enabled = FALSE /\ uuid = 0 /\ secret = 0 /\ relay = 0
  /\ registry = {} /\ damaged = FALSE
  /\ up = TRUE /\ child = 0 /\ wanted = FALSE /\ respawn = FALSE /\ procs = {}
  /\ op = Idle /\ bootDue = TRUE
  /\ folder = "none" /\ message = None /\ heard = None /\ entry = None /\ loaded = FALSE
  /\ backup = [enabled |-> FALSE, uuid |-> 0, secret |-> 0, relay |-> 0, registry |-> {}]
  /\ lost = FALSE /\ requests = 0 /\ faults = 0 /\ restores = 0

\* Off, but something this App made is still there.
Leftover == uuid # 0 \/ registry # {} \/ folder = "mine"

\* No synchronous stretch of code is under way.
Awaiting == up /\ op.at # "undo"
Free     == up /\ op = Idle

-----------------------------------------------------------------------------
(* The bridge process *)

Resolves(cred) == [id |-> cred, active |-> TRUE] \in registry

\* ensureCredential: what the registry and relay.json hold after it, and
\* whether it succeeded.
Minted ==
  LET new    == NewCred
      kept   == [registry |-> registry, relay |-> relay]
      active == {[id |-> new, active |-> TRUE]}
      half   == {d \in registry : d.active} \cup {[id |-> new, active |-> FALSE]}
  IN  [ok  |-> IF Resolves(relay) THEN {kept}
               ELSE IF damaged THEN {} ELSE {[registry |-> active, relay |-> new]},
       bad |-> IF Resolves(relay) THEN {}
               ELSE IF damaged THEN {kept}
               ELSE {kept, [registry |-> half, relay |-> relay], [registry |-> active, relay |-> relay]}]

\* startChild
Started ==
  /\ wanted' = TRUE
  /\ IF child # 0
     THEN UNCHANGED <<registry, relay, child, respawn, procs>>
     ELSE /\ Cardinality(procs) < MaxProcs
          /\ \E m \in Minted.ok :
               /\ registry' = m.registry /\ relay' = m.relay
               /\ child' = Fresh({p.id : p \in procs})
               /\ procs' = procs \cup {[id |-> child', cred |-> m.relay, told |-> FALSE]}
               /\ respawn' = FALSE

NoRetry(later) == UNCHANGED respawn

\* startLater, where the code calls it.
Retry(later) == respawn' = (respawn \/ later)

\* startChild could not get a credential; startLater follows where `later`.
NotStarted(later) ==
  /\ child = 0 /\ wanted' = TRUE
  /\ \E m \in Minted.bad : registry' = m.registry /\ relay' = m.relay
  /\ IF damaged THEN Smooth ELSE Fault
  /\ Retry(later)
  /\ UNCHANGED <<child, procs>>

Told(id) == {IF p.id = id THEN [p EXCEPT !.told = TRUE] ELSE p : p \in procs}

\* The timer startLater set.
Respawn ==
  /\ Awaiting /\ respawn
  /\ \/ Started /\ Smooth
     \/ NotStarted(TRUE)
  /\ UNCHANGED <<enabled, uuid, secret, damaged, up, op, bootDue, home, backup, lost>>

AnyProcess(p) == TRUE

\* The exit handler forgets and replaces the process it was registered for only.
Current(p) == child = p.id

\* A process ends: told to, after 7 s by force, or on its own.
Exit(p) ==
  /\ Awaiting
  /\ procs' = procs \ {p}
  /\ IF Current(p)
     THEN child' = 0 /\ respawn' = (respawn \/ wanted)
     ELSE UNCHANGED <<child, respawn>>
  /\ UNCHANGED <<files, access, up, wanted, op, bootDue, home, backup, lost, bounds>>

\* The owner resets the damaged registry: restartBridge.
Reset ==
  /\ Awaiting /\ damaged
  /\ damaged' = FALSE
  /\ procs' = Told(child)
  /\ respawn' = (respawn \/ (child = 0 /\ wanted))
  /\ UNCHANGED <<files, registry, up, child, wanted, op, bootDue, home, backup, lost, bounds>>

-----------------------------------------------------------------------------
(* Turning off: `off` of an owner's request ("off"), of the start-up       *)
(* ("boot") and of a failed turn-on ("undo")                               *)

ClearTimer == respawn' = FALSE

\* The first, synchronous stretch of `off`.
StopChild ==
  /\ wanted' = FALSE /\ ClearTimer /\ child' = 0
  /\ procs' = Told(child)

Clear(task) == [task |-> task, at |-> "entries", saved |-> uuid, more |-> task # "undo" /\ folder # "none"]

GiveUpForGood == op' = Idle /\ UNCHANGED bootDue

\* A failed clean-up at the start-up is retried, another one is not.
GiveUp == op' = Idle /\ bootDue' = (bootDue \/ op.task = "boot")

\* What `off` does before its first call, when all of it works, when the
\* switch cannot be saved, and when the credential cannot be revoked.
Off(task) ==
  /\ StopChild
  /\ \/ /\ enabled' = FALSE /\ registry' = {} /\ relay' = 0
        /\ op' = Clear(task) /\ bootDue' = (bootDue /\ task # "boot")
        /\ UNCHANGED faults
     \/ /\ \/ UNCHANGED enabled /\ registry' = {} /\ relay' = 0
           \/ enabled' = FALSE /\ UNCHANGED <<registry, relay>>
        /\ op' = Idle /\ bootDue' = (bootDue \/ task = "boot")
        /\ faults < MaxFaults /\ faults' = faults + 1
  /\ UNCHANGED <<uuid, secret, damaged, up, home, backup, lost, restores>>

TurnOff ==
  /\ Free /\ requests < MaxRequests /\ requests' = requests + 1
  /\ Off("off")

\* A first turn-on failed: leave nothing behind.
Undo == up /\ op.at = "undo" /\ Off("undo") /\ UNCHANGED requests

-----------------------------------------------------------------------------
(* clearChatAppsInHA, call by call, and the rest of `off` *)

At(pc) == [op EXCEPT !.at = pc]

\* The answer to a call arrives, or it is lost.
Answered(next) ==
  \/ Smooth /\ op' = next /\ UNCHANGED bootDue
  \/ Fault /\ GiveUp

Quiet == UNCHANGED <<files, access, up, bridge, folder, heard, loaded, backup>>

Clearing == {"entries", "drop", "name", "forget", "list", "remove", "check"}

\* A call never reaches the other side.
ClearCallFails ==
  /\ up /\ op.at \in Clearing
  /\ Fault /\ GiveUp
  /\ Quiet /\ UNCHANGED <<message, entry, lost>>

ReadEntries ==
  /\ up /\ op.at = "entries"
  /\ LET more == op.more \/ entry # None
     IN  op' = [op EXCEPT !.more = more,
                          !.at = IF op.saved # 0 THEN "drop" ELSE IF more THEN "name" ELSE "list"]
  /\ Smooth /\ Quiet /\ UNCHANGED <<bootDue, message, entry, lost>>

\* Delete the message /data remembers; it may name none any more.
DropMessage ==
  /\ up /\ op.at = "drop"
  /\ LET found == message.uuid = op.saved
     IN  /\ message' = IF found THEN None ELSE message
         /\ Answered(At(IF ~found /\ op.more THEN "name" ELSE "list"))
  /\ lost' = (lost /\ message' # None)
  /\ Quiet /\ UNCHANGED entry

\* The Supervisor keeps one message per App: sending an empty one names it.
NameMessage ==
  /\ up /\ op.at = "name"
  /\ message' = [uuid |-> IF message = None THEN NewUuid ELSE message.uuid, secret |-> 0]
  /\ Answered([op EXCEPT !.saved = message'.uuid, !.at = "forget"])
  /\ Quiet /\ UNCHANGED <<entry, lost>>

ForgetMessage ==
  /\ up /\ op.at = "forget"
  /\ message' = None /\ lost' = FALSE
  /\ Answered(At("list"))
  /\ Quiet /\ UNCHANGED entry

ListEntries ==
  /\ up /\ op.at = "list"
  /\ op' = At(IF entry = None THEN "check" ELSE "remove")
  /\ Smooth /\ Quiet /\ UNCHANGED <<bootDue, message, entry, lost>>

RemoveEntry ==
  /\ up /\ op.at = "remove"
  /\ entry' = None
  /\ Answered(At("check"))
  /\ Quiet /\ UNCHANGED <<message, lost>>

\* Set up meanwhile, from a message still on its way: not cleared.
CheckEntries ==
  /\ up /\ op.at = "check"
  /\ IF entry = None
     THEN op' = At(IF op.task = "on" THEN "up" ELSE "finish") /\ UNCHANGED bootDue
     ELSE GiveUp
  /\ Smooth /\ Quiet /\ UNCHANGED <<message, entry, lost>>

\* The last stretch of `off`: the secret, the folder, the state.
Finish ==
  /\ up /\ op.at = "finish"
  /\ secret' = 0
  /\ \/ folder' = "none" /\ uuid' = 0 /\ op' = Idle /\ UNCHANGED bootDue /\ Smooth
     \/ folder' \in {folder, "none"} /\ UNCHANGED uuid /\ Fault /\ GiveUp
  /\ UNCHANGED <<enabled, relay, access, up, bridge, message, heard, entry, loaded, backup, lost>>

-----------------------------------------------------------------------------
(* Turning on, and the start-up *)

TurnOn ==
  /\ Free /\ requests < MaxRequests /\ requests' = requests + 1
  /\ op' = IF enabled THEN [Idle EXCEPT !.task = "again", !.at = "up"] ELSE Clear("on")
  /\ UNCHANGED <<files, access, up, bridge, bootDue, home, backup, lost, faults, restores>>

\* A first turn-on is undone; a repeated one, and the start-up, keep what runs.
TryFails(later) ==
  /\ op' = IF op.task = "on" THEN At("undo") ELSE Idle
  /\ respawn' = (respawn \/ (op.task # "on" /\ later))

\* There is a message, and it is not the one with this id.
Untold(id) == message # None /\ message.uuid # id

EnsureSecret == secret' = IF secret = 0 THEN NewSecret ELSE secret

\* The secret, the folder and the process, in one stretch.
BringUp ==
  /\ up /\ op.at = "up"
  /\ \/ EnsureSecret /\ folder' = "mine" /\ Started /\ op' = At("publish") /\ Smooth
     \/ /\ \/ UNCHANGED <<secret, folder>>
           \/ EnsureSecret /\ folder' \in {folder, "none", "unmarked"}
        /\ Fault /\ TryFails(child = 0 /\ wanted)
        /\ UNCHANGED <<registry, relay, child, wanted, procs>>
     \/ /\ EnsureSecret /\ folder' = "mine" /\ NotStarted(op.task # "on")
        /\ op' = IF op.task = "on" THEN At("undo") ELSE Idle
  /\ UNCHANGED <<enabled, uuid, damaged, up, bootDue, message, heard, entry, loaded, backup>>
  /\ lost' = (lost \/ (folder' = "none" /\ Untold(uuid)))

\* publish, up to the Supervisor.
Publish ==
  /\ up /\ op.at = "publish"
  /\ \/ /\ EnsureSecret
        /\ message' = [uuid |-> IF message = None THEN NewUuid ELSE message.uuid, secret |-> secret']
        /\ op' = [op EXCEPT !.saved = message'.uuid, !.at = "save"]
        /\ Smooth /\ UNCHANGED respawn
     \/ Fault /\ TryFails(child = 0 /\ wanted) /\ UNCHANGED <<secret, message>>
  /\ UNCHANGED <<enabled, uuid, relay, access, up, child, wanted, procs, bootDue,
                 folder, heard, entry, loaded, backup, lost>>

\* publish's answer: the message's id, and then the switch.
SavePublished ==
  /\ up /\ op.at = "save"
  /\ \/ /\ uuid' = op.saved /\ enabled' = (enabled \/ op.task # "resume")
        /\ op' = Idle /\ lost' = FALSE /\ Smooth /\ UNCHANGED respawn
     \/ /\ Fault /\ TryFails(child = 0 /\ wanted)
        /\ UNCHANGED uuid \/ (op.task # "resume" /\ uuid' = op.saved)
        /\ UNCHANGED enabled
        /\ lost' = (lost \/ (op.task = "on" /\ uuid' # op.saved))
  /\ UNCHANGED <<secret, relay, access, up, child, wanted, procs, bootDue, home, backup>>

\* On without the folder, or off with a leftover: finish turning off.
Boot ==
  /\ Free /\ bootDue /\ UNCHANGED requests
  /\ IF (enabled /\ folder = "none") \/ (~enabled /\ Leftover)
     THEN Off("boot")
     ELSE /\ bootDue' = FALSE
          /\ \/ ~enabled /\ UNCHANGED <<registry, relay, bridge, op, faults, restores>>
             \/ enabled /\ Started /\ op' = [Idle EXCEPT !.task = "resume", !.at = "publish"]
                /\ UNCHANGED <<faults, restores>>
             \/ enabled /\ NotStarted(TRUE) /\ op' = Idle
          /\ UNCHANGED <<enabled, uuid, secret, damaged, up, home, backup, lost>>

-----------------------------------------------------------------------------
(* The App, Home Assistant and the backup *)

\* The App ends at any step; its container takes the bridge with it.
Crash ==
  /\ up /\ up' = FALSE /\ Fault
  /\ child' = 0 /\ wanted' = FALSE /\ respawn' = FALSE /\ procs' = {}
  /\ op' = Idle /\ bootDue' = FALSE
  /\ UNCHANGED <<files, access, home, backup, lost>>

Start ==
  /\ ~up /\ up' = TRUE /\ bootDue' = TRUE
  /\ \/ Smooth /\ UNCHANGED access
     \/ Fault /\ damaged' = TRUE /\ registry' = {}
  /\ UNCHANGED <<files, bridge, op, home, backup, lost>>

World == UNCHANGED <<access, up, bridge, op, bootDue, lost, requests, faults>>

Hear ==
  /\ loaded /\ message.secret # 0 /\ heard' = message
  /\ World /\ UNCHANGED <<files, folder, message, entry, loaded, backup, restores>>

SetUp ==
  /\ loaded /\ heard # None /\ entry' = heard /\ heard' = None
  /\ World /\ UNCHANGED <<files, folder, message, loaded, backup, restores>>

\* Home Assistant learns that the entry's message is gone.
DropEntry ==
  /\ entry # None /\ entry.uuid # message.uuid /\ entry' = None
  /\ World /\ UNCHANGED <<files, folder, message, heard, loaded, backup, restores>>

RestartHome ==
  /\ loaded' = (folder # "none") /\ heard' = None
  /\ World /\ UNCHANGED <<files, folder, message, entry, backup, restores>>

TakeBackup ==
  /\ Free /\ restores = 0
  /\ backup' = [enabled |-> enabled, uuid |-> uuid, secret |-> secret, relay |-> relay, registry |-> registry]
  /\ World /\ UNCHANGED <<files, home, restores>>

\* A partial restore rewinds /data ...
RestoreData ==
  /\ ~up /\ restores = 0 /\ restores' = 1
  /\ enabled' = backup.enabled /\ uuid' = backup.uuid /\ secret' = backup.secret
  /\ relay' = backup.relay /\ registry' = backup.registry /\ damaged' = FALSE
  /\ lost' = (lost \/ (folder # "mine" /\ Untold(backup.uuid)))
  /\ UNCHANGED <<up, bridge, op, bootDue, home, backup, requests, faults>>

\* ... or Home Assistant's configuration, to a time before chat apps.  Home
\* Assistant is down for it, so no call is under way.
RestoreHome ==
  /\ op = Idle /\ restores = 0 /\ restores' = 1
  /\ folder' = "none" /\ entry' = None /\ heard' = None /\ loaded' = FALSE
  /\ lost' = (lost \/ Untold(uuid))
  /\ UNCHANGED <<files, access, up, bridge, op, bootDue, message, backup, requests, faults>>

Step ==
  \/ ReadEntries \/ DropMessage \/ NameMessage \/ ForgetMessage \/ ListEntries
  \/ RemoveEntry \/ CheckEntries \/ Finish \/ BringUp \/ Publish \/ SavePublished \/ Undo

Next ==
  \/ Step \/ ClearCallFails
  \/ TurnOn \/ TurnOff \/ Boot
  \/ Respawn \/ (\E p \in procs : Exit(p)) \/ Reset
  \/ Crash \/ Start
  \/ Hear \/ SetUp \/ DropEntry \/ RestartHome
  \/ TakeBackup \/ RestoreData \/ RestoreHome

\* The event loop runs what is due; calls end by their timeout, a process that
\* is told to stop is killed after 7 s; Home Assistant hears of a message's end.
Fairness ==
  /\ WF_vars(Step) /\ WF_vars(Boot) /\ WF_vars(Respawn) /\ WF_vars(Start)
  /\ WF_vars(\E p \in procs : p.told /\ Exit(p)) /\ WF_vars(DropEntry)

Spec == Init /\ [][Next]_vars /\ Fairness

-----------------------------------------------------------------------------
(* What makes it correct *)

Finished == Free /\ ~bootDue /\ ~enabled /\ ~Leftover

\* At most one bridge is running that was not told to stop.
OneBridge == Cardinality({p \in procs : ~p.told}) <= 1

\* Off and not "unfinished": no bridge is wanted, none can reach the Relay, and
\* the Supervisor keeps no message an integration would accept, except one that
\* neither /data nor the marked folder tells of (its answer was lost while a
\* first turn-on failed, or a restore rewound what told of it).
OffIsClean ==
  Finished => /\ ~wanted /\ child = 0 /\ ~respawn
              /\ \A p \in procs : p.told /\ ~Resolves(p.cred)
              /\ \/ message.secret = 0
                 \/ lost /\ (message.secret # secret \/ restores = 1)

\* The bridge is as the switch says.
BridgeAsSwitched == OneBridge /\ OffIsClean

\* A bridge that is wanted comes up, however often it ends.
BridgeComesBack == wanted ~> (child # 0 \/ ~wanted \/ damaged)

\* A turn-off the start-up finds unfinished is finished.
CleanupEnds == (up /\ bootDue /\ ~enabled) ~> (up /\ (~Leftover \/ enabled))
=============================================================================
