# Verification of NOVA

NOVA lets an AI agent read and change a Home Assistant installation under the
control of its owner. Two programs share the work: the **Relay**, a Home
Assistant App in TypeScript (`nova/src`), which holds the upstream token and
decides who may talk to Home Assistant, and the **CLI** `ha-nova` in Go (`cli`),
which agents run, and which turns every risky change into a *plan* that a human
confirms. This directory models the parts of both where the order of events
decides whether they are right: who holds a credential, and what is sent when
somebody confirmed it.

Run everything from this directory: `tlc -config DeviceRegistry.cfg
MCDeviceRegistry` (and so on, see *Runs*), `tlapm DeviceRegistryProofs.tla`.

## Inventory

| Component | State | Operations | What is hard | What makes it correct |
|---|---|---|---|---|
| Device registry (`security/device-registry*.ts`) | one JSON file: devices, stored pairing replies, Cloud revocation tombstones | create pending, activate (locally, for Cloud), bind, revoke, revoke for Cloud, mint the bridge's credential | expiry and caps met by any order of re-pairing, activation and revocation; lost answers | one active credential per installation; caps; a binding never moves; what was revoked stays so |
| Pairing manager (`security/pairing-v1.ts`) | in memory: one slot, its handshakes | generate code, arm, cancel, start, finish, status | overlapping handshakes, lazy expiry, restarts, lost finish replies | one device per slot, only for whom the slot is meant, and in time; a retry gets the same reply |
| Legacy migration (`runtime/legacy-migration.ts`, `app-mode.ts`) | App option, plaintext file, registry fields | import, unlink, clear, revoke, reset | a crash or a failed write after every step | the token is never lost, and never back once cut |
| Plan store and apply (`plan_store.go`, `verb_apply.go`, `confirm_*.go`, `plan_batch.go`, `mcp_confirm.go`) | a directory of plan files | plan, claim, check, recompute, confirm, send, hand back, replace, batch, prune | several processes with no lock but `rename`; kills; drift; wrong codes | a change is sent once, as confirmed, with at most three guesses |
| WebSocket client (`ha/ws-client.ts`) | one shared connection | send, collect events, reset, reconnect | late failures of a replaced connection, an end before the acknowledgement | nothing leaks, no healthy connection is closed |
| Window and phone (`confirm_both.go`, `confirm_phone.go`, `confirm_window.go`) | two goroutines, their votes, the phone's notification | ask, vote, withdraw, apply, tell | simultaneous answers, signals, calls in flight | the first decisive answer decides, and the phone learns how it ended |
| Pairing rate limiter (`pairing-rate-limit.ts`) | windows per peer and for all | attempt | eviction, edges of windows | budgets hold over any span, the blocked cost nobody else |
| Client credential store (`device_credential_*.go`) | keyring, files, marker, checkpoint | promote, migrate, retire, clean up | crash between two stores | a live credential is never masked or lost |
| Client pairing (`pairing_*.go`, `cmd_pair.go`) | pending credential, endpoint | pair, resume, activate | lost activation answer | never two half-paired states |
| Cloud remote (`cloud_*.go`, `command_cloud_*.go`) | the lifecycle in the profile, three keyring slots | add, reconnect, remove; sign in, verify, bind, promote, commit, roll back, retire, revoke | kills and lost answers between a sign-in and its storage, the browser without the lock | no sign-in is forgotten, Link works until its replacement does, every stop can be resumed |
| Server profiles and removal (`command_server_remove*.go`, `server_removal_checkpoint.go`, `uninstall_device*.go`) | configuration, a checkpoint in the profile, two slots | ask, confirm, revoke, record, delete, resume | kills between a revocation and its record, lost keys, pairings between question and answer | resumes to the end, deletes what was confirmed, and no accepted credential is left unmentioned |
| Chat apps (`runtime/chat-apps*.ts`, `mcp_serve_control*.go`) | bridge process and its credential, folder and discovery message in Home Assistant; the owner's list, the users' phone links | turn on, off, boot, respawn, clean up; save the list, link, move, stop, drop | on and off racing child exits and timers, a clean-up of seven calls, two processes with a file each | at most one bridge, off leaves nothing behind, a re-listed user lost the old phone |
| MCP servers (`mcp_server.go`, `mcp_confirm.go`, `mcp_serve_apply.go`, `mcp_serve_phone.go`) | messages read while a form is open; jobs, the lock, who waits for what | call, form, answer, cancel; apply, join, ask the phone, answer | late and repeated answers, calls that give up before their job, a list that changes after the tap | an answer serves its own form, one question at a time, nothing for a removed user |
| Execution of a plan (`verb_apply_batch.go`, `verb_config_apply.go`, `plan_*.go`) | the session's reads, a ledger | plan again, copy, check, write, verify | a failure or a stranger's edit between two members | the ledger is true, an edit stops the batch |
| Bundle updates and repair (`command_update*.go`, `bundle_apply.go`, `self_heal.go`, `session_bootstrap_*.go`, `client_install.go`) | the install root, each app's copied skills, `state.json`, a marker and a plan in the cache | update, roll back, heal, repair, claim and complete the first-use check, set up | several processes, kills between renames, files and markers, versions that change between two sections | what is marked verified is; nothing is repaired by halves for good |
| Uninstall (`command_uninstall.go`, `install_lifecycle.go`, `uninstall_paths.go`) | the generation and two uninstall markers | remove apps, stop the lifecycle, remove state, cache and program; set up again | processes from before it, older releases that know other markers | final for whatever began before it |
| Snapshots | see `PROJECT.json` | | | |
| Risk tiers, verbs, setup dialogues, HTTP proxies, skills, installers | none that lasts | pure functions, input and output | | left to the tests |

Components interact through three interfaces: the registry (pairing manager,
chat apps, Cloud handlers and owner page mutate it, the principal resolver reads
it), the plan directory (every CLI run and MCP server on a computer), and the
Relay's HTTP API. The Relay is a single-threaded event loop in which a registry
mutation is synchronous, so one operation is one step; the CLI's processes
interleave between any two file operations.

## Modules

| Module | What it is |
|---|---|
| `AccessLifecycle` | the promise about credentials: provisional, usable, gone |
| `DeviceRegistry` | the registry, which implements `AccessLifecycle` |
| `Pairing` | the pairing manager, composed with `DeviceRegistry` (`Registry == INSTANCE ...`) |
| `LegacyMigration` | the shared token's migration, revocation and reset |
| `OneShotPlan` | the promise about plans: offered, taken, carried out at most once |
| `PlanApply` | the plan directory and the processes on it, which implements `OneShotPlan` |
| `WsClient` | the Relay's shared connection to Home Assistant |
| `HumanVote` | window and phone, asked together or alone: `PlanApply`'s step `Ask` in detail |
| `PairingRateLimit` | the limiter of pairing starts |
| `CredentialMigration` | the client's keyring, credential files and marker, and the commands that use them |
| `ServerRemoval` | `server remove` of one profile, with the pairings that contend for it |
| `BatchApply` | `PlanApply`'s step `SendIt` in detail, for a batch: one member after another |
| `CloudLink` | Home Assistant Link of one profile: `cloud add`, `reconnect` and `remove` |
| `McpForms` | the stdio MCP server and its forms: `PlanApply`'s step `Answer` in detail, for a form |
| `InstallLifecycle` | the bundle, the apps' skills and the commands that set up, update, repair and remove them |
| `ChatCalls` | the chat bridge's applies: jobs, calls that wait for them, the lock |
| `ChatApps` | the owner's switch for chat apps and everything it starts and leaves |
| `ChatUsers` | who may use chat apps and whose phone confirms, over the App and the bridge |
| `Relay`, `Client`, `PlanBatch`, `Chat` | parts that share no state, side by side: what the runs check and the theorems are about |
| `MC*` | small instances for TLC |
| `*Proofs` | theorems and their proofs |

### How they correspond to the code

**DeviceRegistry.** `devices`, `responses` and `revocations` are the three lists
of the registry file. `persist` writes the whole file atomically before memory
follows, and a failed write changes neither, so the file is not a variable of its
own and a restart changes nothing; a failed write is a stutter. One action per
method of `DeviceRegistry` that changes state; `Tick` is the clock. Credentials are issued with ids that were never used before
(`generateCredential` draws 128 bits). `issuedTo` and `withdrawn` are history.
The legacy fields are in `LegacyMigration`. The throttled last-used stamp and the
validation of a damaged file are left out.

**Pairing.** `phase`, `slot` and `handshakes` are the manager's variables and
`Restart` empties them. OPAQUE is reduced to its outcome: `Finish` for a client
that knows the slot's secret, `FinishFailed` for one that does not. The rate
limiters only refuse starts, which `StartRefused` may always do. The Cloud option
and the secure port may differ after a restart. History: slots are numbered over
restarts, and `mints` records how each credential came to be.

**LegacyMigration.** `pc` walks through `buildAppMode`: open the registry, import,
unlink the file, clear the option, run. Every write may fail and every state but
`down` may crash. `snapshot` is `/data/options.json`, which Supervisor writes at
the App's start and not again. `Corrupt` damages the registry file while the App
is down. A reset is two steps, as in the code: put the file aside and open a fresh
one, then stamp the tombstone.

**PlanApply.** One step is one file operation (or the network read behind it)
with the decisions up to the next one. `open` are the `<id>.json` files, `claims`
the renamed ones, `made` the fields that never change. A process moves through
*asking, answered, claimed, checked, confirmed, approved* to *finishing* (remove
the claim) or *returning* (rename it back), or through *replacing*, *gathering* or
*drifted* and *saving* to a new plan. The drift hash is the version of Home
Assistant the plan was made against (`basis`), and a code is the plan it was derived
for. Window and phone are asks of their own: both derive the code in the process, but
only a window that cannot open is replaced, and never by another window
(`detectAfterWindow`). (As one channel, a chain of replacements could carry "its
snapshot failed" on from a plan that was replaced long ago, which the code cannot; the
proof of `SentAsConfirmed` showed it.) A killed process leaves its
claims behind. Simplifications: a process id is not used again while a claim with
it exists; pruning looks at the directory and removes in one step (a rename keeps
the modification time, so what is old stays old); edited plan files and plans of
an earlier format are left out, and so is what is refused for its content.

**WsClient.** One variable per closure variable of `createHaWsClient` that the
properties need, and the calls as records. A promise that waiters share resumes
them one after another with nothing in between; each `await` is a step.

**HumanVote.** `window` and `phone` are the two goroutines, `votes` the buffered
channel between them and `main`, the command. `confirmByWindow` without a ready
phone and `confirmByPhone` are the same with one surface (`asked`). The phone's
screen and the two calls that change it are state of their own, because a call
may land after the command went on. `PlanApply` has the whole as one answer:
what it calls an answer is `main = "applying"` here, and `Fallback` is the window
that could not open.

**PairingRateLimit.** One action, `attempt`. The history `allowed` keeps when each
allowed attempt was.

**CredentialMigration.** `keyring`, `file`, `marker`, `cleanup` (the slots the
checkpoint lists) and `endpoint` (the pending endpoint in the configuration)
survive a kill; `mode`, `pc` and the other variables of the running command do
not. The client's mutation lock lets one command run at a time, so `pc` is one
variable; each step is one write, unlink or keyring call, and `Crash` may come
between any two. `Faults` names what may fail: a *write* leaves the old content or
a torn file, a *marker* write may leave an empty file, which counts as a marker,
an *unlink* may fail, the keyring may be *locked*. Slots are copied and cleaned in
any order (the code sorts them). History: `works`, what a profile's Relay accepts,
`retired`, what it accepts no more, `paired`, the profiles that completed a
pairing, and `hidden`, those that a pairing into files left in a keyring it could
not read, which the code accepts and tells the owner. Left out: the fallback of a
machine without a keyring (its canary writes the marker and removes it again, so a
kill in between flips the install as the findings below do), a half-written
checkpoint (every later command then stops with an error), and the full purge.

**ServerRemoval.** `present`, `urls` (which of the two endpoints the profile has) and
`checkpoint` are the profile in `config.json`, `slot` the two stored credentials. The
command with the mutation lock is at `at`; an asker waits for the typed name without
the lock, and what it showed (`asked`) is compared when it has it. `Revoke` asks the
Relay, whose answer may be lost; `Record` saves the outcome before `Delete`, so a
resumed run knows why a slot is empty; `Prove` removes the profile and `Tell` prints
what the owner should look for. The pairing's writes are one step each, in the order
of `runSecurePairingWithProvisioner`. `ForeignWrite` is a reset keyring or a damaged
entry. History: `confirmed`, `deleted`, `told`, and `blind`, the two known ways in
which a note gets lost (see *Seen on the way*). Left out: Cloud profiles, the other
credential store, half an endpoint (a URL without its pin), the full purge, a changed
configuration, and the reminder a resumed run prints for a lost key.

**CloudLink.** `cloud` is the lifecycle in `config.json`, `slot` the three keyring
slots, `live` what Home Assistant accepts, `device` the person this computer's
device is bound to. A sign-in is a number, drawn when its browser opens; it stands
for its client address and its token at once, and `gen` maps it to its generation,
which an unfinished sign-in passes on to the next. `at` is the command with the
mutation lock; `waits` are the terminals whose browser is open, without the lock,
with the configuration they must find again (`ConfigAsLeft`). `Write` is one write
of the keyring, done or with an outcome nobody knows; `EndWith` leaves the safety
hold that the error leaves. `Promote` is one step per write of `PromotePending`.
The store remembers what it read (`stageOAuthSecretStoreMemoization`), so `Create`
does not see what another terminal did to the slots. History: `removing`, and
`orphans`, the sign-ins of the finding `removed_link`. Left out: profiles that have
only Link (their device is activated and revoked too), checks of origin and Relay
identity, unlocking a keyring and the holds of `doctor`, holds that go away
with an unlock.

**InstallLifecycle.** `root` is the bundle's version in the install root, `files` the
releases each app's copied skills are of (two after a sync that was cut short, none
when they are gone, 0 for a layout from before the session bootstrap). A command goes
through the sections of `FirstStep` and `After`: it looks without the lock (`Look`),
then takes the lock, looks again (`Current`) and acts. A section is one step, with
the outcomes of its being cut short among its disjuncts, except where the install root
moves (`SwapOut`, `SwapIn`, `SyncUpdated`, `RollBack`, `PutBack`, `Resync`, `Commit`)
and in an uninstall, whose steps a kill may separate (`Stop`). The lock goes with its
process, so a kill frees it. Nonces are numbers; that a marker is older than a file is
`gen > stop` and `state.newer`. External: the installer (`Reinstall`), and an older
release that is installed over the marker it does not know (`OldReleaseComes`). History:
`closed` (uninstalls), `opened` (a setup saved its state since), `owed`
(a repair's first-use check that nobody has run), and `knows` (a command of the
owner's failed or was killed, so its own message told of it). Left out: Windows'
detached helpers, Claude's plugin, apps by symlink, downloads, explicit older targets,
dev builds, the purge, PATH.

**BatchApply.** `at` and `m` are the place in `executeBatch` and its member.
`memo` is what the session remembers of Home Assistant (`forgetReads` empties it),
so a check sees an edit only where it reads anew. A config is *previewed*, *ours*
or *theirs*. Every request may fail before, at or after Home Assistant; nothing is
rolled back, so the ledger `status` and what becomes of the plan are all the user
has. `sent` and `edited` are history.

**McpForms.** `wire` is stdin, `queued` the calls read while a form was open,
`form` the open form. The client answers and cancels as it likes, also forms that
are gone. Left out: the newest protocol revision (there the client repeats the
call with its answer and the server holds nothing), pings, invalid messages.

**ChatCalls.** A job is *in line, starts, asking, heard, users, again, rereads,
sends* as in `phoneJob` and `applyJob`; `current` is `bridge.jobs`; `other` stands
for every other request that holds `mcpVerbLock`. Timeouts may come at once.

**ChatApps.** `serial` queues what the owner and the start-up do, so `op` is one
variable: which task, and at which of its awaited calls. A synchronous stretch of
the TypeScript is one step. `Exit`, `Respawn`, Home Assistant (`Hear`, `SetUp`,
`DropEntry`, `RestartHome`), backups and crashes come between any two. A failed call
either never arrived or arrived without an answer. `lost` marks a discovery
message nothing on disk tells of any more (`Untold`; the two ways to it are under *Seen
on the way*). Left out: the timer of `restartSoon`,
refusals, a damaged `state.json`, another NOVA App's folder, the TLS pin, backoff.

**ChatUsers.** The App's `saves` and the bridge's `jobs` share only two files:
`chat-apps.json`, which the App writes, and `phone-links.json`, which the bridge
writes whole under `linksMu` (`writer`). `stale` is history: who left the list with
a link that nothing removed since.

## Runs

Components that share no state are checked side by side in one run: `Relay`, `Client`,
`PlanBatch` and `Chat` hold the variables of each of their parts, the variable
`part` says which of them a behaviour moves, and the others stay where they start. The
states are the sum of the parts, not their product, and every property speaks of its own
part. The module of a run is `MC` and the name of its cfg; `client` is `Client` itself
and needs no `MC` module, `legacy_reset`, `removal_masks` and `relisted` are runs of
`MCLegacyMigration`, `MCCredentialMigration` and `MCChatUsers`, `lost_key` and
`removed_link` of `ServerRemoval` and `CloudLink`.


| Run | Instance | Shows |
|---|---|---|
| `device_registry` | 3 credentials, 2 installs and the bridge, 2 users, caps of 2, 2, 2 and 1, clock to 3 | the registry's invariants and that it implements `AccessLifecycle` |
| `relay`: `LegacyMigration`, `WsClient`, `PairingRateLimit`, `Pairing` | 2 tokens, 4 boots, 2 corruptions; 2 calls of each kind, 2 connections; 3 peers, 2 remembered, budgets of 2 and 3, windows of 2 and 3, clock to 5; 2 credentials, 1 peer, 2 users, 2 slots, 2 handshakes, 1 pending device, 1 stored reply, clock to 3 | a cut stays cut, a used token is not lost; nothing leaks, no healthy connection is closed; budgets over any span; who is paired, how and until when, and a lost finish reply can be fetched again at the cap |
| `legacy_reset` | 2 tokens, 4 boots, 2 corruptions | *violation*: the reset's comment does not hold over a crash |
| `client`: `CredentialMigration`, `ServerRemoval`, `CloudLink`, `McpForms`, `InstallLifecycle` | 2 profiles, 2 pairings, removals, every fault; 1 profile, 2 terminals, 2 pairings, 2 kills, 1 foreign write; 2 terminals, 2 people, 3 sign-ins; 3 calls, 3 forms; 2 processes, 2 apps, 2 releases, 3 commands, 1 section cut short | no credential in use is lost or hidden until files and marker come apart; a removal resumes, deletes what was confirmed, and leaves nothing unmentioned; no sign-in is forgotten but in one way, Link goes on working, the next command can go on; a form takes its own answer only; an uninstall is final for what began before it, and a layout marked verified is one |
| `removal_masks` | the same, kills only | *violation*: a removal masks other profiles after a killed migration |
| `removed_link` | 1 terminal, 1 person, 2 sign-ins | *violation*: Link is removed while Home Assistant accepts a sign-in of it |
| `lost_key` | 1 terminal, 2 pairings, no kill, 1 foreign write | *violation*: a pending key is taken for the lost key's |
| `plan_answers`: `PlanApply` twice | 2 chat plans, 2 processes, 3 attempts; form, window and phone plans, 2 processes, 1 change of Home Assistant | three guesses; sent as confirmed, and once |
| `plan_batch`: `PlanApply` twice, `BatchApply` | 3 preview plans, 2 processes, room for 2 files; clock to the TTL and 1 change of Home Assistant, or clock to one tick past the TTL (`Aging`) and no change; a batch of 4, two of them deletes | batches, drift, pruning for room and by age; the plan files implement `OneShotPlan`; a true ledger |
| `chat_apps`: `ChatApps`, `ChatUsers`, `HumanVote` | 2 turns of the switch, 2 faults, 1 backup, 2 processes; 2 users, 2 phones, 3 saves from one page, 1 fault; window, phone or both, 2 taps | one bridge, a clean off, the bridge comes back, a clean-up ends; no old phone; one answer decides, nothing is left on either surface, the command ends |
| `relisted` | 2 users, 2 phones, 5 saves from two pages, no faults | *violation*: two saves that overlap keep an old phone |
| `chat_calls` | 2 phone plans, 1 chat plan, 1 user, 2 calls, 2 jobs, 1 change of the list | one question at a time; nothing for a removed user; calls end with a true answer |

**Bounds.** Caps are set so low that every cap is met and, where something is
trimmed, there is something that must survive. Time is a counter; each TTL is one
or two ticks, so before, at and after an expiry all occur. A plan's file goes by age one
tick later than the plan expires, so `plan_batch` has an instance with a clock of
`PlanTTL + 1` (`Aging` in `MCPlanBatch`): there old plans, abandoned claims and claims of
running applies are pruned by age, and such an apply goes on to send. It leaves out
drift, which the other instance has: with both the run is too long. Two processes and two
plans suffice for every race on one file (`rename` makes one of them lose); three
plans are the least in which a batch of two and its plan exist together. Two
slots and two handshakes let a handshake outlive its slot, two users let an armed
slot meet a stranger. `MaxBoots = 4` is one more than the longest history a
property needs: import, fail to clear, revoke, boot again. Two pairings pair both
profiles or one of them twice, and a migration, a removal and any number of kills
come before, between and after. Three sign-ins are a current one, its replacement and
one that a kill or a second terminal left in between. Three commands are an uninstall, the
setup after it, and one that began before both; or a repair, an update and the check
after it. (`InstallLifecycle` alone was also checked with four commands and two cut
short.) All bounds are
constants (`MaxNow`, `MaxSlots`, `MaxBoots`, `MaxCorruptions`, `MaxHouse`, `MaxTaps`, `MaxCred`, `MaxCalls`, `MaxJobs`, `MaxChanges`, `MaxRequests`, `MaxFaults`, `MaxProcs`, `MaxSaves`, `MaxKills`, `MaxWrites`, `MaxSignIns`, `MaxVersion`, `MaxStarts`, and in
`WsClient` `Conns`). Sets of interchangeable values are symmetric, in runs without liveness where it pays. The bounded
systems stop when their clock or ids are used up, so their runs do not check
deadlock.

In `relay` the parts share model values (two requests of one part are two credentials
of another), so that one small symmetry group serves all; the parts never meet.

Some properties are conjunctions of named parts that one hazard threatens together:
`CapsKeepReplies` (`WithinCaps`, `PendingHasReply`), `BridgeAsSwitched` (`OneBridge`,
`OffIsClean`), `MintsOnceInTime` (`OneDevicePerSlot`, `MintedInTime`), `NothingLost` (`Survives`,
`NothingMasked`), `RunsAsAnswered` (`OwnAnswerOnly`, `CancelledNeverRuns`), `FirstAnswerSettles`
(`FirstAnswerDecides`, `NoAskLeft`, `PhoneKnows`).

The refinement to `OneShotPlan` is checked where plans are previews and batches;
for forms, windows and their replacements `plan_answers` checks `OneSendPerChange`
directly, and for chat plans the count of guesses, because all kinds together are
too many states for one run. Two requests and two failures turn chat apps on, fail,
and off again with a failure in each; a batch of four has a member before, between
and after every other, and two deletes.

**Type invariants.** Each module states one (`...TypeOK`) as the reader's
declaration of its variables. Those of `DeviceRegistry`, `Pairing`, `LegacyMigration`,
`WsClient`, `PlanApply`, `BatchApply`, `McpForms`, `ChatCalls`, `InstallLifecycle`,
`ServerRemoval`, `CredentialMigration` and `CloudLink` are proved, as a part of each inductive
invariant. The other modules were checked with theirs while they were written; the runs
spend their properties on what could go wrong.

**Fairness.** Three components state any; all other properties are safety properties.

- `HumanVote`: weak fairness of its goroutines and of its command. Every wait in
  them ends by a deadline or a cancelled context (the window's timer, `ctx` of the
  ask, `phoneTellSpan`), so they go on without the human and without Home Assistant,
  which get no fairness.
- `ChatApps`: weak fairness of the queue's next step (calls have timeouts), of the
  start-up and the respawn timer, of the App's start (Supervisor), of the exit of a
  process that was told to stop (it is killed after 7 s), and of Home Assistant's
  dropping an entry whose message is gone. Nothing of the owner.
- `ChatCalls`: weak fairness of a job's own steps and of a call's timeout, and
  strong fairness of taking the lock: others hold it again and again, but its
  waiters are served in order (`verbLock`), so none is passed over for ever.

### The findings

`relisted`: `setUsers` works out who is being re-added, awaits the drop of their old
links, and only then writes the list. Two saves are not serialised (the owner's page
has no revision check, and the handler awaits nothing before `setUsers`). A save that
waits for user A's drop is overtaken by one that takes user B off the list; it then
writes B back, and the faster save's drop of B is refused, because B is on the list
again. B keeps the phone they had, which is what the comment above `setUsers` says the
wait prevents. With one page (`chat_apps`) `NoOldLink` holds, under every failure.

`legacy_reset`: `resetRegistry` puts the corrupt file aside and opens a fresh
registry before `markLegacyMigrated` writes the tombstone. The comment between
the two says that a lingering plaintext token is not imported again on the next
boot. A crash or a failed write in between leaves neither file nor tombstone, and
the next boot does import it. The weaker `CutStays` holds and is proved: once
the reset was *completed*, or the owner revoked the access, it stays cut.

`removal_masks`: `removeDeviceFileStorageResidueForProfile` and the purge of a
profile first resume the cleanup a migration left, and the cleanup never looks at
the marker. If the migration was killed after its checkpoint and before the
marker, the cleanup deletes the keyring entries of *every* profile the checkpoint
lists, while reads still go to the keyring: the other profiles find nothing,
although their files hold the credential. The migration's comment says that it
moves live credentials "without ever masking or losing one".

There is a second way to the same end, without a run of its own. When the marker
cannot be written, the migration removes the checkpoint, then the copied files,
then what is left of the marker. An empty marker file already counts, so a kill
(or a failed unlink) in between leaves an install that reads files which are gone.
The keyring still has the credentials.

The ghost `gap` of `CredentialMigration` is set by exactly these steps: a cleanup
that deletes while there is no marker, and a rollback (of a migration, or of the first
credential written to a file) that removes copies while a half-written marker
stands. `Survives` and `NothingMasked` are claimed until then, under every other
combination of kills, faults, migrations, pairings and removals; `NeverMasked` is
the claim without `gap`, which `removal_masks` refutes. In `client` a behaviour of the
store ends there.

`removed_link`: the code of a sign-in is exchanged, so Home Assistant accepts it, and
the command is killed before the token is stored. The lifecycle still names the
sign-in, and a removal *now* stops and sends the owner to Home Assistant, as the
specification wants. If the owner runs `cloud add` again first, the new sign-in takes
over the generation (`authorizeOrRefreshCloud`) and overwrites the address. Once its
token is stored, the generation is in a slot, `requireMetadataMatch` is content, and a
removal revokes this one sign-in and reports success; the first lives on.
`SignInsAccountedFor` is claimed except there (`orphans`).

`lost_key`: an endpoint whose slot is empty means that the key is lost, and the owner
is told to remove the computer by hand. `interruptedFirstPromotion` makes an
exception for a first pairing that stopped before its promotion, recognised by a
pending key with the same endpoint. A paired computer that pairs again *with the same
Relay* and stops before the Relay activates the new key looks the same. If the current
key is then lost (a reset keyring), the removal revokes with the pending key only, the
Relay keeps the first device, and nothing is said, although the comment says that the
current key is not lost. `NoneLeftUntold` is claimed except there (`HiddenLoss`).

### Seen on the way

Behaviour a reader may want to know, without a document it disagrees with:

- `chatBusy` (`mcp_serve_apply.go:184`) says that nothing was sent for the plan. It
  says so of the call's own job; a later call's job of the same plan may have applied
  it by the time the first answer is read.
- `setLink` checks the App's list and writes its own file with nothing in between
  that the App respects: a user taken off in that instant keeps the new link until the
  App's drop, which follows every save, removes it.
- When the answer to the first discovery message is lost, the failed turn-on cleans
  up by what `/data` knows, which is nothing of the message. A dead message stays until
  the next turn-on (`lost` in `ChatApps`). A second way to the same end came up in the
  proof of `BridgeAsSwitched`, and TLC finds it with three requests and three faults: a
  start-up whose saved message Home Assistant does not have publishes a new one and dies
  before its id is saved, and a repeated turn-on whose install fails removes the folder.
  The next start-up finds nothing to clean up and finishes the off.
- `server remove` prints what may be left on the Relay after it wrote the
  configuration without the profile. A kill in between loses the note for good: the
  checkpoint that knew of it is gone (`blind` has "unsaid").
- A rollback that fails leaves a hold and says to rerun `cloud reconnect`
  (`cloud_reconnect_rollback.go:84`), but `validateCloudConnectIntent` refuses every
  reconnect while there is a hold: only `cloud remove` is left.
- A sync that fails does not clear `ClientsVerifiedVersion`. After a rollback whose second
  sync fails, or a failed sync of the running version, it may still name that version,
  and no later check tries again; the owner was told that it failed
  (`command_update.go:175`, `:318`; `knows` in `InstallLifecycle`). The same
  holds of a heal that read the version before another process's update and got the
  lock after it: its warning says "retries on next run", and if the update had stamped
  the version, it does not.
- A kill between the two renames of an update leaves no install root. The previous one
  is beside it under a backup's name, which no command, an uninstall neither, looks for.
- An uninstall removes the apps `state.json` names, if it names any. An app whose files
  a setup wrote before it was killed, and so never saved, keeps them.
- A process that dies while a batch gathers its members leaves those plans claimed
  and unusable; they are made again with one command, and the claims go by age.

## Proofs

`tlapm` checks every theorem for all values of the constants that satisfy the
`ASSUME` of the module; nothing else is assumed. For the modules that put parts side by
side the theorems are about the whole (`PartsSpec`), as in the runs: a lemma per part
(`PairingRuns`, `LegacyRuns`, `StoreRuns`, ...) says that in every behaviour of the whole
the part behaves as its own specification, and the invariants are the part's own.

- `DeviceRegistryProofs`: `RegistryTypeCorrect`, `OneActive`, `BindingStays` and
  `RetrySucceeds`. The inductive
  invariant is `RegistryInv`: the type, `OneActivePerInstall`, and
  `IssuedAsRecorded` (a record's installation is the one its id was issued for,
  which ties `devices` to the history).
  Activation removes every other active record of the installation, and creation
  never makes an active one. One lemma per operator that yields a new set of
  records says which records it keeps. From the same invariant `BindingStays`: only
  a free binding is ever set. `RetrySucceeds` adds `RetryInv`: what revoked itself is
  gone for good, did so under one identity, and every tombstone tells of such a
  revocation; so a retry meets its own tombstone or none, whatever the cap dropped.
  `CapsHold` has another difficulty, time: `PendingHasReply`
  compares with the clock, and a mutation drops expired replies and records at
  different moments. `ReplyKept` says the same without the clock (a provisional
  record and its reply expire together), and so is inductive with the three caps,
  which are counted before the step drops what it replaces.
  `RegistryImplementsAccess`: every step of the
  registry is a step of `AccessLifecycle` or a stutter, under the mapping that
  reads *provisional* and *usable* off the records and *gone* off the history. What the
  promise is good for, one usable credential per installation and none that comes back
  (`OneUsable`, `GoneIsGone`), the registry inherits through it.
- `RelayProofs`, of `Pairing`: `PairsOnce`, `PairsTheRightOne`, `RetryGetsItsReply`,
  `PairingTypeCorrect`. A handshake in memory belongs to the open slot and was started by
  whom that slot is armed for (`OwnHandshakes`), because opening, finishing and
  closing a slot forget every handshake; a slot that minted is closed for good
  (`UsedUp`). The reply under a finish's key names the credential that finish minted
  (`RepliesFit`), and that the registry still has it while it can be activated is the
  registry's own invariant (`CapsInv`), used through `INSTANCE DeviceRegistryProofs`.
  Of `LegacyMigration`: `LegacyCutIsFinal`. `CutStays` speaks of memory; it
  is inductive only with the facts in `CutInv` about the *file*: a cut registry's
  file is readable, has the tombstone and no record, is not taken for damaged, and
  agrees with memory while the App runs. From it, `LegacyTokenIsKept`: a token that
  nobody cut is in memory, in the file, or in the plaintexts an import reads, whichever
  of the writes in between failed (`KeptInv`).
  `OneConnection` is `OneTrueConnection` of `WsClient`: there is one attempt at most,
  the one `connecting` names, and only while there is no connection (`OneAttempt`); a
  collection that is over and was never acknowledged leaves when it is (`Leavable`).
  `StartsStayInBudget` is `BudgetsHold` of `PairingRateLimit`, for any number of peers, any
  budgets and windows. The windows are fixed, so a span of a window's length may touch two;
  that a third contributes nothing is part of `Opened`: what was allowed within a window's
  length before the open one is one window's. The history keeps the times of the
  allowed attempts, so the budgets are cardinalities and need no sum.
- `ClientProofs`: `DeletesAsConfirmed`, `RemovalResumes` and `NothingLeftUntold`, about
  `ServerRemoval`. The checkpoint lists what was confirmed (`AsConfirmed`), and a slot
  holds what is listed until its outcome is recorded (`Listed`); what the Relay
  accepts is in a slot, was dealt with, or was named to the owner (`Covered`, `Dealt`,
  `NotesFollow`), which needs that a pairing keeps an endpoint next to every key the
  Relay may know (`PairingFits`). `CredentialsSurvive` is `NothingLost` of
  `CredentialMigration`: while there is no marker, what a paired profile uses is in the
  keyring; with the marker it is in the files, or known to be left behind (`Kept`). Each
  step of a migration, a pairing or a removal keeps the one or makes the other, because
  of where it stands in its writes (`Stages`, `Pairs`). `FormsRunAsAnswered` is about
  `McpForms`: an answer is given to the form on the screen, so what is read for the open
  form is that form's, and a form that was left is never open again.
- `CloudLinkProofs`: `LinkInvariant`, and in `ClientProofs` what follows from it
  (`LinkGoesOnWorking`, `NextCommandGoesOn`, `NoSignInForgotten`). The lifecycle in
  `config.json`, the slots and Home Assistant are written by three different calls, and
  none of them alone says what the others hold. `LinkInv` says it for each state of the
  lifecycle and each step of a command: what the lifecycle names (`Names`), where that is
  stored (`InSlots`, `Intact`, `InStep`), that what a command builds on is still accepted
  (`Alive`) and what it dropped is not (`Gone`). A promotion that is resumed knows by the
  generation alone whether its write was done; that this tells the two sign-ins apart is
  `Generations`, and it needs that a terminal which waits for its browser without the lock
  finds the configuration it left (`Waiting`). Before the proof, TLC checked `LinkInv` as an
  invariant with two terminals, two people and up to four sign-ins. `LinkSteps` carries the
  result over to `Client`, where `CloudLink` is one of the parts.
- `InstallLifecycleProofs`: `UninstallIsFinal`, that is `StaysUninstalled` for any
  number of commands, apps, releases and faults. `LifecycleInvariant` gives the
  inductive invariant `LifecycleInv`: who has the lock is in a section of several
  steps, and the other way round (`InPlace`); a look whose generation is still the
  installation's was taken after the last uninstall, and who moves the bundle has such
  a look (`LookedSince`). The generation alone would do for that, but not to tell that
  a setup has come since: for this, a missing marker and a marker that looks stale
  both mean a setup (`StoppedOrOpened`, `NewerMeansOpened`), and when an uninstall
  writes its marker, no setup under way still has the generation (`RotatedFirst`: the
  code rotates before it writes). One lemma covers every section that ends
  (`SectionEnds`), one those that go on under the lock (`SectionGoesOn`).
  `VerifiedIsTrue` proves `NothingBrokenUnnoticed` from `LayoutInv` on top. What says
  that a version is verified is spread over the state's stamp, the layout marker and the
  repair plan, which different commands write at different times; the invariant is what
  the stamp vouches for in *every* state (`Tidy`): each tracked app's files are of the
  stamped version, or the app is in the plan, or there is neither plan nor marker and its
  layout shows its age. While an update has the lock, that is said of the bundle it moved
  aside, and it must not have been older than a stamp of the latest release
  (`Swapping`); while an uninstall has it, of what is already empty (`Emptying`).
- `ChatCallsProofs`: `OneQuestion`, `RemovedUsersSendNothing` and `AnswersAreTrue`, from
  `CallsInv`. All three hang on the plan's entry in `bridge.jobs`: an open job is always
  its plan's entry (`CurrentJobs`), so who looks there before it starts another one sees
  every open question of the user (`OneAtATime`); a job's number is never used again, so
  a call that was woken, or stopped waiting, still speaks of its own job (`CallFits`).
- `PlanApplyProofs`: `OneSend`, `GuessesAreFew`, `SentIsConfirmed`, `PruningIsSafe`, all
  from `PlanInv`. A plan is open, held by one process, or being made; what left
  all three is over for good. `Lineage` says of every plan made that it was never sent
  and is over, or is still being made, or that all it came from was never sent and is over:
  so whichever of them is sent, nothing else was or will be (`OneSend`). Processes
  act on what they read earlier, and `FilesFit` and `Stands` say why they may: a file
  has counted every guess, because who guesses holds the only claim, writes the counter
  before it lets go and removes the file where the write fails (`GuessesAreFew`); a file's
  failed snapshot is that of its plan or of one it came from. For this the proof
  needs that a window plan's failed snapshot is always its own, since its replacement
  inherits the file's flag and names only that one plan.
  `PruningIsSafe`: a file is never older than its plan, so an unexpired one is young.
  `PlanImplementsOneShot`: every step on plan files is a
  step of `OneShotPlan` or a stutter. `PlanInv` makes the cases of `Status` exclude each
  other and says that a plan which may go back was not sent. `CarriedOnce` says of
  `OneShotPlan` alone that what was carried out is offered to nobody.
  The step that `PlanApply` leaves whole is `BatchApply`: `LedgersAreTrue` and
  `EditsStopTheBatch`, because what the ledger says of a member is fixed
  by where the batch is (a member before it is settled, one after it untouched), and
  what the session remembers of a config is the preview or was read after the last
  edit.
- `ChatProofs`: `BridgeIsAsSwitched`, from `BridgeInv`. A bridge that was not told to stop
  is the one `child` names (`ProcsFit`). No message is forgotten silently: the state
  file names it, the folder betrays it, or it is lost (`Accounted`); and a clean-up passes
  a call only when what that call deletes is gone (`ClearingFits`), so at its end there is
  nothing left. New ids are the least number nobody holds; that there is one takes a
  count (`FreshIsFree`). Of `ChatUsers`, `OnlyOwnEntries`: whoever holds `linksMu` writes
  from the links as they are (`WriterFits`), so a write changes its own entry. And
  `OldLinksAreDropped`, which is `NoOldLink` for every number of users, phones and saves,
  while there is one page (`OnePage`; with two it is false, see `relisted`): who left with
  a link that was not removed still has it (`StaleLinked`), and the one save there can be
  waits for the drop of everyone it puts back (`WaitsForDrops`). Of `HumanVote`,
  `FirstAnswerDoesSettle`: a surface votes once (`VotesFit`), so the first decisive vote in
  the channel is the one that is received first (`FirstFits`), and what the phone may
  show follows from how far the command's reply got (`ReplyFits`).

Every safety property of a passing run is a theorem. Only model-checked is liveness,
which is out of the prover's reach: `BridgeComesBack`, `CleanupEnds`, `VoteEnds`,
`CallsEnd`.

## Not modelled, and why

`PROJECT.json` lists every part. In short: pure functions over Home Assistant's
data (risk tiers, previews, diffs) have no state; cryptography is used as a black
box; dialogues, reads and reports leave nothing behind; installers
are file copies. The rest is planned.

## Plan

Done: registry, pairing, migration, plans and their execution, the WebSocket client,
the human's answer, forms and chat calls, chat apps and their users, the limiter, the
credential store, the removal of a profile, Home Assistant Link, the installation's life
cycle. Next, in this order:

1. `CredentialRetirement`: retirement with its own checkpoint, on the store of
   `CredentialMigration`; there, the headless fallback.
2. `SecurePairing`: the client's pending credential and resumed activation,
   composed with `Pairing`.
3. In `CloudLink`, profiles that have only Link; `SnapshotStore`; in `InstallLifecycle`,
   Windows' detached helpers.

Theorems come with the modules: a retirement, like a migration, loses no live credential
(`NothingLost` over both); an activation that is resumed leaves one pending device at most.
