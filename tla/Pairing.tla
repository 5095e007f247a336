------------------------------ MODULE Pairing ------------------------------
(***************************************************************************)
(* The pairing manager of the Relay (createPairingV1Manager) on top of the *)
(* device registry.  The owner opens a slot (a six-digit code, or a secret *)
(* armed for one signed-in user); a client starts a handshake against the  *)
(* slot and finishes it; the finish mints one provisional credential and   *)
(* closes the slot.  Slot and handshakes live in memory and die with the   *)
(* App; the credential and its encrypted reply are in the registry.        *)
(*                                                                         *)
(* A client that holds the slot's secret produces the right KE3 of its     *)
(* handshake; everyone else a wrong one.  The rate limiters only refuse a  *)
(* start, so a start may always be refused.                                *)
(***************************************************************************)
EXTENDS Naturals, FiniteSets

CONSTANTS DeviceIds, Installs, BridgeInstall, NoInstall,
          Users,          \* Home Assistant users that come in through ingress
          NoUser,
          Peers,          \* socket addresses on the LAN
          Handshakes,     \* the random handshake ids
          NoSlot,
          MaxActive, MaxPending, MaxResponses, MaxRevocations,
          PendingTTL, RevocationTTL, MaxNow,
          CodeTTL, ArmTTL, HandshakeTTL, NoticeTTL,
          MaxHandshakes,  \* MAX_CONCURRENT_HANDSHAKES
          MaxSlots        \* bound of the slots ever opened

SlotType == [generation : Nat, expires : Nat, armedFor : Users \cup {NoUser},
             link : BOOLEAN, number : Nat]

PairingAssumption ==
  /\ NoSlot \notin SlotType
  /\ NoUser \notin Users /\ Users \cap Peers = {}
  /\ CodeTTL \in Nat \ {0} /\ ArmTTL \in Nat \ {0}
  /\ HandshakeTTL \in Nat \ {0} /\ NoticeTTL \in Nat \ {0}
  /\ MaxHandshakes \in Nat /\ MaxSlots \in Nat

VARIABLES now, devices, responses, revocations, issuedTo, withdrawn,
          phase,       \* inactive, active or consumed
          slot,        \* the one open slot (active), or NoSlot
          handshakes,  \* the started handshakes
          consumedAt,
          generation,  \* generationCounter
          port,        \* the secure host port is known
          cloud,       \* cloudPairing: Cloud remote is enabled
          opened,      \* history: slots ever opened, over all restarts
          started,     \* history: handshake ids ever handed out
          mints        \* history: how each paired credential came to be

registryVars == <<now, devices, responses, revocations, issuedTo, withdrawn>>
managerVars  == <<phase, slot, handshakes, consumedAt, generation, port, cloud>>
historyVars  == <<opened, started, mints>>
vars         == <<registryVars, managerVars, historyVars>>

Caller == [mode : {"local"}, who : Peers] \cup [mode : {"cloud"}, who : Users]

\* pairingContext: every LAN peer shares one, a Cloud user has their own.
Contexts == {"local"} \cup Users
Context(caller) == IF caller.mode = "local" THEN "local" ELSE caller.who

Registry == INSTANCE DeviceRegistry
              WITH Bindings <- Users, NoBinding <- NoUser, Keys <- Handshakes \X Contexts

HandshakeType == [generation : Nat, caller : Caller, created : Nat]

PairingTypeOK ==
  /\ Registry!RegistryTypeOK
  /\ phase \in {"inactive", "active", "consumed"}
  /\ slot \in SlotType \cup {NoSlot}
  /\ phase = "active" <=> slot # NoSlot
  /\ DOMAIN handshakes \subseteq started
  /\ handshakes \in [DOMAIN handshakes -> HandshakeType]
  /\ consumedAt \in Nat /\ generation \in Nat /\ opened \in Nat
  /\ port \in BOOLEAN /\ cloud \in BOOLEAN
  /\ started \in SUBSET Handshakes
  /\ DOMAIN mints \subseteq DeviceIds

Empty == [x \in {} |-> NoSlot]

ClearHandshakes == handshakes' = Empty

Init ==
  /\ Registry!Init
  /\ phase = "inactive" /\ slot = NoSlot /\ handshakes = Empty
  /\ consumedAt = 0 /\ generation = 0
  /\ port \in BOOLEAN /\ cloud \in BOOLEAN
  /\ opened = 0 /\ started = {} /\ mints = Empty

-----------------------------------------------------------------------------
(* expireCode and pruneHandshakes, run on the way into every operation *)

SlotExpired == slot # NoSlot /\ now >= slot.expires

OpenSlot == IF SlotExpired THEN NoSlot ELSE slot

FreshHandshakes ==
  IF SlotExpired THEN {}
  ELSE {h \in DOMAIN handshakes : now < handshakes[h].created + HandshakeTTL}

NoticeOver == phase = "consumed" /\ now >= consumedAt + NoticeTTL

Expire == /\ slot' = OpenSlot
          /\ phase' = IF SlotExpired \/ NoticeOver THEN "inactive" ELSE phase

KeepHandshakes(H) == handshakes' = [h \in H |-> handshakes[h]]

Sweep == Expire /\ KeepHandshakes(FreshHandshakes)

ArmedLocal(s) == s # NoSlot /\ s.armedFor # NoUser /\ ~s.link

-----------------------------------------------------------------------------
(* The owner: generateCode, arm, cancel; the page: getStatus *)

Open(ttl, user, link) ==
  /\ opened < MaxSlots
  /\ generation' = generation + 1
  /\ opened' = opened + 1
  /\ slot' = [generation |-> generation + 1, expires |-> now + ttl,
              armedFor |-> user, link |-> link, number |-> opened + 1]
  /\ ClearHandshakes
  /\ phase' = "active"
  /\ UNCHANGED <<registryVars, consumedAt, port, cloud, started, mints>>

GenerateCode == (port \/ cloud) /\ Open(CodeTTL, NoUser, FALSE)

Arm(user, link) == (IF link THEN cloud ELSE port) /\ Open(ArmTTL, user, link)

Cancel ==
  /\ slot' = NoSlot /\ ClearHandshakes /\ phase' = "inactive"
  /\ UNCHANGED <<registryVars, consumedAt, generation, port, cloud, historyVars>>

GetStatus ==
  /\ Expire
  /\ KeepHandshakes(IF SlotExpired THEN {} ELSE DOMAIN handshakes)
  /\ UNCHANGED <<registryVars, consumedAt, generation, port, cloud, historyVars>>

-----------------------------------------------------------------------------
(* start and startCloud *)

\* An armed slot exists only for its user.
AnyoneMayStart(s, caller) == s # NoSlot

MayStart(s, caller) ==
  /\ s # NoSlot
  /\ s.armedFor # NoUser => (caller.mode = "cloud" /\ caller.who = s.armedFor)

\* No slot, somebody else's slot, a malformed KE1, rate limited or busy.
StartRefused(caller) ==
  /\ caller.mode = "cloud" => (cloud \/ ArmedLocal(slot))
  /\ Sweep
  /\ UNCHANGED <<registryVars, consumedAt, generation, port, cloud, historyVars>>

Start(caller, h) ==
  /\ caller.mode = "cloud" => (cloud \/ ArmedLocal(slot))
  /\ Expire
  /\ MayStart(OpenSlot, caller)
  /\ Cardinality(FreshHandshakes) < MaxHandshakes
  /\ h \notin started
  /\ handshakes' = [x \in FreshHandshakes \cup {h} |->
        IF x = h THEN [generation |-> slot.generation, caller |-> caller, created |-> now]
        ELSE handshakes[x]]
  /\ started' = started \cup {h}
  /\ UNCHANGED <<registryVars, consumedAt, generation, port, cloud, opened, mints>>

-----------------------------------------------------------------------------
(* finish and finishCloud *)

Key(caller, h) == <<h, Context(caller)>>

\* A live reply decides the finish before anything else is looked at, and the
\* finish changes nothing: the same ciphertext for the same KE3, or "invalid".
Replayed(caller, h) == Registry!LiveResponses(Key(caller, h)) # {}

\* The handshake this finish may complete: the caller's own, of the open slot.
Ready(caller, h) ==
  /\ OpenSlot # NoSlot
  /\ h \in FreshHandshakes
  /\ handshakes[h].caller = caller
  /\ handshakes[h].generation = slot.generation

\* Malformed, unknown or expired, somebody else's, of an older slot; Cloud
\* remote off; no endpoint to pin; a full registry; or a failed write.  The slot
\* stays open and the handshake with it.
FinishRefused(caller, h) ==
  /\ ~Replayed(caller, h)
  /\ Sweep
  /\ UNCHANGED <<registryVars, consumedAt, generation, port, cloud, historyVars>>

\* A wrong KE3 or unreadable metadata costs the caller the handshake.
FinishFailed(caller, h) ==
  /\ ~Replayed(caller, h)
  /\ Ready(caller, h)
  /\ Expire
  /\ KeepHandshakes(FreshHandshakes \ {h})
  /\ UNCHANGED <<registryVars, consumedAt, generation, port, cloud, historyVars>>

\* A local device needs the pinned endpoint; anything else needs Cloud remote.
CanAnswer(caller) ==
  /\ caller.mode = "cloud" => (ArmedLocal(slot) \/ cloud)
  /\ caller.mode = "local" \/ ArmedLocal(slot) => port

Binding(caller) ==
  IF caller.mode = "local" \/ ArmedLocal(slot) THEN NoUser ELSE caller.who

StayOpen == UNCHANGED <<slot, phase, handshakes>>

Consume == slot' = NoSlot /\ ClearHandshakes /\ phase' = "consumed"

Finish(caller, h, d, i) ==
  /\ ~Replayed(caller, h)
  /\ Ready(caller, h)
  /\ CanAnswer(caller)
  /\ Registry!CreatePendingWithResponse(d, i, Binding(caller), Key(caller, h))
  /\ Consume
  /\ consumedAt' = now
  /\ mints' = [x \in DOMAIN mints \cup {d} |->
        IF x = d THEN [slot |-> slot, handshake |-> h, caller |-> caller, at |-> now,
                       started |-> handshakes[h].created]
        ELSE mints[x]]
  /\ UNCHANGED <<generation, port, cloud, opened, started>>

-----------------------------------------------------------------------------
(* The rest of the App *)

\* ensureSecurePort: once read from Supervisor, the mapping stays.
LearnPort ==
  /\ ~port /\ port' = TRUE
  /\ UNCHANGED <<registryVars, phase, slot, handshakes, consumedAt, generation, cloud,
                 historyVars>>

\* The App restarts, perhaps with another option: memory is gone, the registry
\* is what its last write left.
Restart ==
  /\ phase' = "inactive" /\ slot' = NoSlot /\ handshakes' = Empty
  /\ consumedAt' = 0 /\ generation' = 0
  /\ port' \in BOOLEAN /\ cloud' \in BOOLEAN
  /\ UNCHANGED <<registryVars, historyVars>>

RegistryStep ==
  /\ \/ \E d \in DeviceIds :
          \/ Registry!ActivatePending(d)
          \/ Registry!Revoke(d)
          \/ \E u \in Users : \/ Registry!ActivatePendingForCloud(d, u)
                              \/ Registry!BindCloudUser(d, u)
                              \/ Registry!RevokeCloudDevice(d, u)
     \/ Registry!Tick
  /\ UNCHANGED <<managerVars, historyVars>>

Next == \/ GenerateCode
        \/ \E u \in Users, link \in BOOLEAN : Arm(u, link)
        \/ Cancel
        \/ GetStatus
        \/ \E caller \in Caller :
             \/ StartRefused(caller)
             \/ \E h \in Handshakes :
                  \/ Start(caller, h)
                  \/ FinishRefused(caller, h)
                  \/ FinishFailed(caller, h)
                  \/ \E d \in DeviceIds, i \in Installs \ {BridgeInstall} :
                       Finish(caller, h, d, i)
        \/ LearnPort
        \/ Restart
        \/ RegistryStep

Spec == Init /\ [][Next]_vars

-----------------------------------------------------------------------------
(* Properties *)

\* One slot pairs at most one device, over retries, overlapping handshakes,
\* failed writes and restarts ("exactly one device finished", pairing-v1.ts).
OneDevicePerSlot ==
  \A d, x \in DOMAIN mints : mints[d].slot.number = mints[x].slot.number => d = x

\* No credential is minted after the slot or the handshake ran out, although
\* neither is retired by a timer: each operation sweeps first.
MintedInTime ==
  \A d \in DOMAIN mints :
    /\ mints[d].at < mints[d].slot.expires
    /\ mints[d].at < mints[d].started + HandshakeTTL

\* Both: what a slot was opened for happens once, and while it is open.
MintsOnceInTime == OneDevicePerSlot /\ MintedInTime

\* The owner's sign-in secret pairs nobody else: not a LAN peer, not another
\* Home Assistant user, not a handshake that was started on an earlier slot.
ArmedSlotPairsItsUser ==
  \A d \in DOMAIN mints :
    mints[d].slot.armedFor # NoUser =>
      mints[d].caller = [mode |-> "cloud", who |-> mints[d].slot.armedFor]

\* A credential is usable on the path it was paired for: bound to the Cloud user
\* who paired it, and unbound when it was paired for the pinned local port, so
\* that the local activation accepts it (finishHandshake).
BoundAsPaired ==
  \A d \in DOMAIN mints \cap DOMAIN devices :
    IF mints[d].caller.mode = "local" \/ ArmedLocal(mints[d].slot)
    THEN Registry!IsPending(d) => devices[d].bound = NoUser
    ELSE devices[d].bound = mints[d].caller.who

\* Both: a slot pairs whom its owner meant, on the path it was paired for.
PairsAsMeant == ArmedSlotPairsItsUser /\ BoundAsPaired

\* A finish that is repeated because its answer was lost is answered with the
\* credential it minted, and no other, for as long as that can be activated:
\* after later pairings, trimmed replies and restarts.
RetriedFinishGetsItsReply ==
  \A d \in DOMAIN mints \cap DOMAIN devices :
    d \in Registry!PendingIn(Registry!Unexpired) =>
      LET replies == Registry!LiveResponses(Key(mints[d].caller, mints[d].handshake))
      IN  {r.device : r \in replies} = {d}
=============================================================================
