----------------------------- MODULE RelayProofs -----------------------------
(***************************************************************************)
(* Proofs about the four parts of the App, each for every value of its     *)
(* constants: pairing (Pairing, on the registry of the theorems of         *)
(* DeviceRegistryProofs, Reg), the legacy token (Legacy, LegacyMigration), *)
(* the WebSocket client (Ws, WsClient) and the limiter (Rate,              *)
(* PairingRateLimit).                                                      *)
(*                                                                         *)
(* Pairing: a slot pairs once, in time, whom its owner meant, and a finish *)
(* that is repeated gets its reply.  A slot is one only by its history     *)
(* number; what closes it is that finishing and opening both forget every  *)
(* handshake.  So a handshake in memory belongs to the open slot, was      *)
(* started by whom that slot is armed for, and has minted nothing          *)
(* (OwnHandshakes, UsedUp).  What a reply is stored under names one        *)
(* credential (RepliesFit), and that the registry still has it is the      *)
(* registry's own invariant (CapsInv).                                     *)
(*                                                                         *)
(* A cut of the legacy access is final, for any number of boots, crashes,  *)
(* failed writes and damaged files.  CutStays speaks of the registry in    *)
(* memory; what makes it inductive is that the FILE of a cut registry is   *)
(* readable, carries the tombstone and has no record, that a running       *)
(* process and the file agree, and that a cut registry is not taken for a  *)
(* damaged one, which a reset would put aside.  The token itself is never  *)
(* lost: until the registry is stamped the token is where a boot looks     *)
(* first (Effective), and a plaintext goes only on a boot whose registry   *)
(* is stamped, and then holds it.                                          *)
(*                                                                         *)
(* The WebSocket client has one connection at a time, for every number of  *)
(* requests, collections and connections.  OneTrueConnection is inductive  *)
(* with two more facts.  There is at most one attempt, the one that        *)
(* connecting names, and it runs only while there is no connection         *)
(* (OneAttempt).  And a live subscription was acknowledged, so its         *)
(* collection knows how to leave it, while one that is over and not        *)
(* acknowledged leaves with the acknowledgement (Leavable).                *)
(*                                                                         *)
(* The limiter's windows do not slide, so a span may touch two of them,    *)
(* and no more: what was allowed within a window's length before the open  *)
(* window is another window's, whole or in part (Opened).                  *)
(***************************************************************************)
EXTENDS Relay, Sequences, FiniteSetTheorems, TLAPS

Reg == INSTANCE DeviceRegistryProofs
         WITH Bindings <- Users, NoBinding <- NoUser, Keys <- Handshakes \X Contexts

-----------------------------------------------------------------------------
(* Each part behaves as its own specification says *)

LEMMA PairingRuns == PartsSpec => Spec
<1>1. PartsInit => Init
  BY DEF PartsInit
<1>2. [PartsNext]_<<part, vars, legacy, ws, rate>> => [Next]_vars
  BY DEF PartsNext
<1> QED
  BY <1>1, <1>2, PTL DEF PartsSpec, Spec

LEMMA LegacyRuns == PartsSpec => Legacy!Spec
<1>1. PartsInit => Legacy!Init
  BY DEF PartsInit
<1>2. [PartsNext]_<<part, vars, legacy, ws, rate>> => [Legacy!Next]_(Legacy!vars)
  <2>1. UNCHANGED legacy => UNCHANGED Legacy!vars
    BY DEF legacy, Legacy!vars, Legacy!diskVars, Legacy!processVars, Legacy!historyVars
  <2> QED
    BY <2>1 DEF PartsNext
<1> QED
  BY <1>1, <1>2, PTL DEF PartsSpec, Legacy!Spec

LEMMA WsRuns == PartsSpec => Ws!Spec
<1>1. PartsInit => Ws!Init
  BY DEF PartsInit
<1>2. [PartsNext]_<<part, vars, legacy, ws, rate>> => [Ws!Next]_(Ws!vars)
  <2>1. UNCHANGED ws => UNCHANGED Ws!vars
    BY DEF ws, Ws!vars, Ws!clientVars
  <2> QED
    BY <2>1 DEF PartsNext
<1> QED
  BY <1>1, <1>2, PTL DEF PartsSpec, Ws!Spec

-----------------------------------------------------------------------------
(* The registry that Pairing uses is the one the theorems are about *)

LEMMA SameCardinality == \A S : Registry!Cardinality(S) = Reg!Cardinality(S)
BY DEF Registry!Cardinality, Reg!Cardinality

LEMMA SameViews ==
  /\ Registry!Unexpired = Reg!Unexpired
  /\ \A S : Registry!PendingIn(S) = Reg!PendingIn(S) /\ Registry!ActiveIn(S) = Reg!ActiveIn(S)
  /\ \A i : Registry!OfInstall(i) = Reg!OfInstall(i)
  /\ \A k : Registry!LiveResponses(k) = Reg!LiveResponses(k)
  /\ Registry!LiveRevocations = Reg!LiveRevocations
  /\ \A S : Registry!Oldest(S) = Reg!Oldest(S)
BY DEF Registry!Unexpired, Reg!Unexpired, Registry!PendingExpired, Reg!PendingExpired,
       Registry!IsPending, Reg!IsPending, Registry!IsActive, Reg!IsActive,
       Registry!Registered, Reg!Registered, Registry!PendingIn, Reg!PendingIn,
       Registry!ActiveIn, Reg!ActiveIn, Registry!OfInstall, Reg!OfInstall,
       Registry!LiveResponses, Reg!LiveResponses, Registry!LiveRevocations, Reg!LiveRevocations,
       Registry!Oldest, Reg!Oldest

LEMMA SameCreation ==
  ASSUME NEW d, NEW i, NEW b, NEW k, Registry!CreatePendingWithResponse(d, i, b, k)
  PROVE  Reg!CreatePendingWithResponse(d, i, b, k)
<1>1. Registry!HasRoom(i) => Reg!HasRoom(i)
  BY SameCardinality, SameViews DEF Registry!HasRoom, Reg!HasRoom
<1>2. Registry!WithPending(d, i, b) = Reg!WithPending(d, i, b)
  BY SameViews DEF Registry!WithPending, Reg!WithPending
<1>3. \A K, P : Registry!Evictable(K, P) = Reg!Evictable(K, P)
  BY DEF Registry!Evictable, Reg!Evictable
<1>4. \A K, P : Registry!Trimmed(K, P) = Reg!Trimmed(K, P)
  BY <1>3, SameCardinality, SameViews DEF Registry!Trimmed, Reg!Trimmed
<1> QED
  BY <1>1, <1>2, <1>4, SameViews DEF Registry!CreatePendingWithResponse,
    Reg!CreatePendingWithResponse

LEMMA SameActivation ==
  ASSUME NEW d
  PROVE  /\ Registry!CanActivate(d) => Reg!CanActivate(d)
         /\ Registry!WithActivated(d) = Reg!WithActivated(d)
<1>1. Registry!Superseded(d) = Reg!Superseded(d)
  BY SameViews DEF Registry!Superseded, Reg!Superseded
<1>2. Registry!RoomToActivate(d) => Reg!RoomToActivate(d)
  BY <1>1, SameCardinality, SameViews DEF Registry!RoomToActivate, Reg!RoomToActivate
<1>3. Registry!CanActivate(d) => Reg!CanActivate(d)
  BY <1>2, SameViews DEF Registry!CanActivate, Reg!CanActivate, Registry!IsPending, Reg!IsPending
<1>4. Registry!WithActivated(d) = Reg!WithActivated(d)
  BY <1>1, SameViews DEF Registry!WithActivated, Reg!WithActivated
<1> QED
  BY <1>3, <1>4

LEMMA SameRevocation ==
  ASSUME NEW d
  PROVE  /\ Registry!Revoke(d) => Reg!Revoke(d)
         /\ \A b : Registry!RevokeCloudDevice(d, b) => Reg!RevokeCloudDevice(d, b)
<1>1. Registry!Without(Registry!RevokedWith(d)) = Reg!Without(Reg!RevokedWith(d))
        /\ Registry!Registered = Reg!Registered
  BY SameViews DEF Registry!Without, Reg!Without, Registry!RevokedWith, Reg!RevokedWith,
    Registry!Registered, Reg!Registered
<1>2. \A K, v : Registry!Capped(K, v) = Reg!Capped(K, v)
  BY SameCardinality, SameViews DEF Registry!Capped, Reg!Capped
<1> QED
  BY <1>1, <1>2, SameViews DEF Registry!Revoke, Reg!Revoke, Registry!RevokeCloudDevice,
    Reg!RevokeCloudDevice

LEMMA SameSteps == RegistryStep => Reg!Next
<1>1. ASSUME NEW d \in DeviceIds, Registry!ActivatePending(d) PROVE Reg!ActivatePending(d)
  BY <1>1, SameActivation DEF Registry!ActivatePending, Reg!ActivatePending
<1>2. ASSUME NEW d \in DeviceIds, NEW u \in Users, Registry!ActivatePendingForCloud(d, u)
      PROVE  Reg!ActivatePendingForCloud(d, u)
  BY <1>2, SameActivation DEF Registry!ActivatePendingForCloud, Reg!ActivatePendingForCloud
<1>3. ASSUME NEW d \in DeviceIds, NEW u \in Users, Registry!BindCloudUser(d, u)
      PROVE  Reg!BindCloudUser(d, u)
  BY <1>3 DEF Registry!BindCloudUser, Reg!BindCloudUser, Registry!Registered, Reg!Registered,
              Registry!IsActive, Reg!IsActive, Registry!BindingFree, Reg!BindingFree
<1>4. Registry!Tick => Reg!Tick
  BY DEF Registry!Tick, Reg!Tick
<1> QED
  BY <1>1, <1>2, <1>3, <1>4, SameRevocation DEF RegistryStep, Reg!Next

-----------------------------------------------------------------------------
(* The inductive invariant *)

Mint == [slot : SlotType, handshake : Handshakes, caller : Caller, at : Nat, started : Nat]

ManagerTypeOK ==
  /\ phase \in {"inactive", "active", "consumed"}
  /\ slot \in SlotType \cup {NoSlot} /\ (phase = "active" <=> slot # NoSlot)
  /\ DOMAIN handshakes \subseteq started /\ handshakes \in [DOMAIN handshakes -> HandshakeType]
  /\ consumedAt \in Nat /\ generation \in Nat /\ opened \in Nat
  /\ port \in BOOLEAN /\ cloud \in BOOLEAN /\ started \in SUBSET Handshakes

\* The open slot has paired nobody.
SlotFits ==
  slot # NoSlot =>
    slot.number <= opened /\ \A d \in DOMAIN mints : mints[d].slot.number # slot.number

\* Only whom the slot is armed for has a handshake.
OwnHandshakes ==
  slot # NoSlot /\ slot.armedFor # NoUser =>
    \A h \in DOMAIN handshakes : handshakes[h].caller = [mode |-> "cloud", who |-> slot.armedFor]

\* A handshake mints once, and is gone then.
UsedUp ==
  /\ \A d \in DOMAIN mints : mints[d].handshake \in started \ DOMAIN handshakes
  /\ \A d, x \in DOMAIN mints : mints[d].handshake = mints[x].handshake => d = x

MintsFit ==
  \A d \in DOMAIN mints :
    /\ d \in DeviceIds /\ mints[d] \in Mint /\ mints[d].slot.number <= opened
    /\ issuedTo[d] \in Installs \ {BridgeInstall}

RepliesFit ==
  \A r \in responses :
    r.device \in DOMAIN mints /\ r.key = Key(mints[r.device].caller, mints[r.device].handshake)

PairingInv ==
  /\ ManagerTypeOK /\ Reg!RegistryInv /\ Reg!CapsInv
  /\ SlotFits /\ OwnHandshakes /\ UsedUp /\ MintsFit /\ RepliesFit
  /\ MintsOnceInTime /\ PairsAsMeant

\* The registry part, for steps of the manager alone.
LEMMA RegistryRests ==
  ASSUME Reg!RegistryAssumption, PairingInv, UNCHANGED registryVars
  PROVE  Reg!RegistryInv' /\ Reg!CapsInv'
<1>1. UNCHANGED Reg!vars
  BY DEF registryVars, Reg!vars
<1> QED
  BY <1>1, Reg!InvNext, Reg!CapsNext DEF PairingInv

LEMMA ManagerKeeps ==
  ASSUME Reg!RegistryAssumption, PairingInv, UNCHANGED <<registryVars, mints>>,
         ManagerTypeOK', SlotFits', OwnHandshakes', opened <= opened', started \subseteq started',
         DOMAIN handshakes' \cap started \subseteq DOMAIN handshakes
  PROVE  PairingInv'
<1>1. UsedUp'
  BY DEF PairingInv, UsedUp
<1>2. MintsFit'
  <2>1. \A d \in DOMAIN mints : mints[d].slot.number \in Nat
    BY DEF PairingInv, MintsFit, Mint, SlotType
  <2> QED
    BY <2>1 DEF PairingInv, MintsFit, registryVars, ManagerTypeOK
<1>3. RepliesFit'
  BY DEF PairingInv, RepliesFit, registryVars, Key, Context
<1>4. MintsOnceInTime'
  BY DEF PairingInv, MintsOnceInTime, OneDevicePerSlot, MintedInTime
<1>5. PairsAsMeant'
  BY DEF PairingInv, PairsAsMeant, ArmedSlotPairsItsUser, BoundAsPaired, registryVars, ArmedLocal,
         Registry!IsPending
<1> QED
  BY <1>1, <1>2, <1>3, <1>4, <1>5, RegistryRests DEF PairingInv

-----------------------------------------------------------------------------
(* The owner, and the handshakes that come to nothing *)

LEMMA SweepKeeps ==
  ASSUME Reg!RegistryAssumption, PairingAssumption, PairingInv,
         Expire, NEW H \in SUBSET DOMAIN handshakes, KeepHandshakes(H),
         UNCHANGED <<registryVars, consumedAt, generation, port, cloud, historyVars>>
  PROVE  PairingInv'
<1>1. /\ slot' = slot \/ slot' = NoSlot
      /\ DOMAIN handshakes' = H /\ \A h \in H : handshakes'[h] = handshakes[h]
      /\ UNCHANGED <<mints, opened, started>>
  BY DEF Expire, OpenSlot, KeepHandshakes, historyVars
<1>2. phase' \in {"inactive", "active", "consumed"} /\ (phase' = "active" <=> slot' # NoSlot)
  BY DEF Expire, OpenSlot, SlotExpired, NoticeOver, PairingInv, ManagerTypeOK
<1>3. ManagerTypeOK'
  BY <1>1, <1>2 DEF PairingInv, ManagerTypeOK, KeepHandshakes
<1>4. SlotFits' /\ OwnHandshakes'
  BY <1>1 DEF PairingInv, SlotFits, OwnHandshakes
<1> QED
  BY <1>1, <1>3, <1>4, ManagerKeeps DEF PairingInv, ManagerTypeOK

LEMMA StartRefusedKeeps ==
  ASSUME Reg!RegistryAssumption, PairingAssumption, PairingInv, NEW caller, NEW h,
         GetStatus \/ StartRefused(caller) \/ FinishRefused(caller, h) \/ FinishFailed(caller, h)
  PROVE  PairingInv'
<1>1. FreshHandshakes \subseteq DOMAIN handshakes
  BY DEF FreshHandshakes
<1>2. PICK H \in SUBSET DOMAIN handshakes : KeepHandshakes(H)
  BY <1>1 DEF GetStatus, StartRefused, FinishRefused, FinishFailed, Sweep
<1>3. Expire /\ UNCHANGED <<registryVars, consumedAt, generation, port, cloud, historyVars>>
  BY DEF GetStatus, StartRefused, FinishRefused, FinishFailed, Sweep
<1> QED
  BY <1>2, <1>3, SweepKeeps

LEMMA OpenKeeps ==
  ASSUME Reg!RegistryAssumption, PairingAssumption, PairingInv,
         NEW ttl \in Nat, NEW user \in Users \cup {NoUser}, NEW known \in BOOLEAN,
         Open(ttl, user, known)
  PROVE  PairingInv'
<1>t. now \in Nat
  BY DEF PairingInv, Reg!RegistryInv, Reg!RegistryTypeOK
<1>1. /\ slot' \in SlotType /\ slot'.number = opened' /\ opened' = opened + 1
      /\ DOMAIN handshakes' = {} /\ UNCHANGED <<registryVars, mints, started>>
  BY <1>t DEF Open, ClearHandshakes, Empty, SlotType, PairingInv, ManagerTypeOK
<1>2. ManagerTypeOK'
  <2>1. slot' # NoSlot
    BY <1>1, <1>t DEF Open, PairingAssumption
  <2>2. handshakes' \in [DOMAIN handshakes' -> HandshakeType]
    BY DEF Open, ClearHandshakes, Empty
  <2>3. generation' \in Nat /\ opened' \in Nat /\ consumedAt' \in Nat /\ phase' = "active"
    BY DEF Open, PairingInv, ManagerTypeOK
  <2>4. port' \in BOOLEAN /\ cloud' \in BOOLEAN /\ started' \in SUBSET Handshakes
    BY DEF Open, PairingInv, ManagerTypeOK
  <2> QED
    BY <1>1, <2>1, <2>2, <2>3, <2>4 DEF ManagerTypeOK
<1>3. SlotFits'
  <2>1. \A d \in DOMAIN mints : mints[d].slot.number \in Nat /\ mints[d].slot.number <= opened
    BY DEF PairingInv, MintsFit, Mint, SlotType
  <2> QED
    BY <1>1, <2>1 DEF SlotFits, PairingInv, ManagerTypeOK
<1>4. OwnHandshakes'
  BY <1>1 DEF OwnHandshakes
<1> QED
  BY <1>1, <1>2, <1>3, <1>4, ManagerKeeps DEF PairingInv, ManagerTypeOK

LEMMA ForgetKeeps ==
  ASSUME Reg!RegistryAssumption, PairingAssumption, PairingInv, Cancel \/ Restart \/ LearnPort
  PROVE  PairingInv'
<1>1. UNCHANGED <<registryVars, mints, opened, started>>
  BY DEF Cancel, Restart, LearnPort, historyVars
<1>2. ManagerTypeOK'
  <2>1. CASE LearnPort
    BY <2>1 DEF LearnPort, historyVars, PairingInv, ManagerTypeOK
  <2>2. CASE Cancel \/ Restart
    <3>1. slot' = NoSlot /\ phase' = "inactive" /\ DOMAIN handshakes' = {}
          /\ handshakes' \in [{} -> HandshakeType]
      BY <2>2 DEF Cancel, Restart, ClearHandshakes, Empty
    <3>2. consumedAt' \in Nat /\ generation' \in Nat /\ port' \in BOOLEAN /\ cloud' \in BOOLEAN
      BY <2>2 DEF Cancel, Restart, PairingInv, ManagerTypeOK
    <3> QED
      BY <1>1, <3>1, <3>2 DEF PairingInv, ManagerTypeOK
  <2> QED
    BY <2>1, <2>2
<1>3. SlotFits' /\ OwnHandshakes' /\ DOMAIN handshakes' \subseteq DOMAIN handshakes
  BY <1>1 DEF Cancel, Restart, LearnPort, ClearHandshakes, Empty, PairingInv, SlotFits,
    OwnHandshakes
<1> QED
  BY <1>1, <1>2, <1>3, ManagerKeeps DEF PairingInv, ManagerTypeOK

LEMMA StartKeeps ==
  ASSUME Reg!RegistryAssumption, PairingAssumption, PairingInv,
         NEW caller \in Caller, NEW h \in Handshakes, Start(caller, h)
  PROVE  PairingInv'
<1>t. now \in Nat
  BY DEF PairingInv, Reg!RegistryInv, Reg!RegistryTypeOK
<1>1. /\ slot \in SlotType /\ slot' = slot /\ phase' = phase
      /\ slot.armedFor # NoUser => caller.mode = "cloud" /\ caller.who = slot.armedFor
  BY DEF Start, MayStart, Expire, OpenSlot, SlotExpired, NoticeOver, PairingInv, ManagerTypeOK
<1>2. /\ FreshHandshakes \subseteq DOMAIN handshakes
      /\ DOMAIN handshakes' = FreshHandshakes \cup {h} /\ handshakes'[h].caller = caller
      /\ handshakes'[h] \in HandshakeType
      /\ \A x \in FreshHandshakes : x # h => handshakes'[x] = handshakes[x]
  BY <1>1, <1>t DEF Start, FreshHandshakes, HandshakeType, SlotType
<1>3. /\ h \notin started /\ started' = started \cup {h}
      /\ UNCHANGED <<registryVars, mints, opened, consumedAt, generation, port, cloud>>
  BY DEF Start
<1>4. ManagerTypeOK'
  <2>1. handshakes' \in [DOMAIN handshakes' -> HandshakeType]
    BY <1>2 DEF Start, PairingInv, ManagerTypeOK
  <2> QED
    BY <2>1, <1>1, <1>2, <1>3 DEF PairingInv, ManagerTypeOK
<1>5. SlotFits'
  BY <1>1, <1>3 DEF PairingInv, SlotFits
<1>6. OwnHandshakes'
  <2>1. slot.armedFor # NoUser => caller = [mode |-> "cloud", who |-> slot.armedFor]
    BY <1>1 DEF Caller
  <2> QED
    BY <2>1, <1>1, <1>2 DEF PairingInv, OwnHandshakes
<1> QED
  BY <1>2, <1>3, <1>4, <1>5, <1>6, ManagerKeeps DEF PairingInv, ManagerTypeOK

-----------------------------------------------------------------------------
(* The registry's own steps *)

\* What they leave of a record that was paired.
LEMMA RecordsStay ==
  ASSUME Reg!RegistryAssumption, PairingInv, RegistryStep, NEW x \in DOMAIN devices'
  PROVE  /\ x \in DOMAIN devices
         /\ Registry!IsPending(x)' => devices'[x] = devices[x]
         /\ devices[x].bound # NoUser => devices'[x].bound = devices[x].bound
<1> USE DEF Reg!Registered, Reg!IsPending, Reg!IsActive
<1>1. x \in DOMAIN devices /\ (Registry!IsPending(x)' => devices'[x] = devices[x])
  <2>1. CASE \E d \in DeviceIds : Reg!CanActivate(d) /\ devices' = Reg!WithActivated(d)
    BY <2>1 DEF Reg!CanActivate, Reg!WithActivated, Reg!Unexpired, Registry!IsPending
  <2>2. CASE \E d \in DeviceIds : devices' = Reg!Without(Reg!RevokedWith(d))
    BY <2>2 DEF Reg!Without, Registry!IsPending
  <2>3. CASE \E d \in DeviceIds, u \in Users : Registry!BindCloudUser(d, u)
    BY <2>3 DEF Registry!BindCloudUser, Registry!IsPending, Registry!IsActive, Registry!Registered
  <2>4. CASE Registry!Tick
    BY <2>4 DEF Registry!Tick, Registry!IsPending
  <2>5. ASSUME NEW d \in DeviceIds,
               \/ Registry!ActivatePending(d)
               \/ \E u \in Users : Registry!ActivatePendingForCloud(d, u)
        PROVE  Reg!CanActivate(d) /\ devices' = Reg!WithActivated(d)
    BY <2>5, SameActivation DEF Registry!ActivatePending, Registry!ActivatePendingForCloud
  <2>6. ASSUME NEW d \in DeviceIds,
               \/ Registry!Revoke(d)
               \/ \E u \in Users : Registry!RevokeCloudDevice(d, u)
        PROVE  devices' = Reg!Without(Reg!RevokedWith(d))
    BY <2>6, SameRevocation DEF Reg!Revoke, Reg!RevokeCloudDevice
  <2> QED
    BY <2>1, <2>2, <2>3, <2>4, <2>5, <2>6 DEF RegistryStep
<1>2. ASSUME devices[x].bound # NoUser PROVE devices'[x].bound = devices[x].bound
  BY <1>1, <1>2, SameSteps, Reg!BindingStep DEF PairingInv
<1> QED
  BY <1>1, <1>2

LEMMA RegistryStepKeeps ==
  ASSUME Reg!RegistryAssumption, PairingAssumption, PairingInv, RegistryStep
  PROVE  PairingInv'
<1>1. Reg!RegistryInv' /\ Reg!CapsInv'
  BY SameSteps, Reg!InvNext, Reg!CapsNext DEF PairingInv
<1>2. UNCHANGED <<responses, issuedTo, managerVars, historyVars>>
  BY DEF RegistryStep, Registry!ActivatePending, Registry!ActivatePendingForCloud,
         Registry!Revoke, Registry!RevokeCloudDevice, Registry!BindCloudUser, Registry!Tick
<1>3. ManagerTypeOK' /\ SlotFits' /\ OwnHandshakes' /\ UsedUp'
  BY <1>2 DEF managerVars, historyVars, PairingInv, ManagerTypeOK, SlotFits, OwnHandshakes, UsedUp
<1>4. MintsFit' /\ RepliesFit'
  BY <1>2 DEF historyVars, PairingInv, MintsFit, RepliesFit, Key, Context
<1>5. MintsOnceInTime' /\ ArmedSlotPairsItsUser'
  BY <1>2 DEF historyVars, PairingInv, MintsOnceInTime, OneDevicePerSlot, MintedInTime,
              PairsAsMeant, ArmedSlotPairsItsUser
<1>6. BoundAsPaired'
  <2> SUFFICES ASSUME NEW x \in DOMAIN mints \cap DOMAIN devices'
               PROVE  IF mints[x].caller.mode = "local" \/ ArmedLocal(mints[x].slot)
                      THEN Registry!IsPending(x)' => devices'[x].bound = NoUser
                      ELSE devices'[x].bound = mints[x].caller.who
    BY <1>2 DEF BoundAsPaired, historyVars, ArmedLocal
  <2>1. mints[x].caller.mode # "local" => mints[x].caller.who \in Users
    BY DEF PairingInv, MintsFit, Mint, Caller
  <2>2. mints[x].caller.mode # "local" => mints[x].caller.who # NoUser
    BY <2>1 DEF PairingAssumption
  <2> QED
    BY <2>2, RecordsStay DEF PairingInv, PairsAsMeant, BoundAsPaired, Registry!IsPending
<1> QED
  BY <1>1, <1>3, <1>4, <1>5, <1>6 DEF PairingInv, PairsAsMeant

-----------------------------------------------------------------------------
(* A finish *)

\* What a finish that mints finds, and what it leaves.
LEMMA FinishFinds ==
  ASSUME Reg!RegistryAssumption, PairingAssumption, PairingInv,
         NEW caller \in Caller, NEW h \in Handshakes, NEW d \in DeviceIds,
         NEW i \in Installs \ {BridgeInstall}, Finish(caller, h, d, i)
  PROVE  /\ slot \in SlotType /\ now \in Nat /\ now < slot.expires
         /\ h \in DOMAIN handshakes /\ handshakes[h].caller = caller
         /\ handshakes[h].created \in Nat /\ now < handshakes[h].created + HandshakeTTL
         /\ issuedTo[d] = NoInstall /\ d \notin DOMAIN mints
         /\ d \notin DOMAIN devices
<1>1. now \in Nat
  BY DEF PairingInv, Reg!RegistryInv, Reg!RegistryTypeOK
<1>2. ~SlotExpired /\ slot # NoSlot /\ h \in FreshHandshakes /\ handshakes[h].caller = caller
  BY DEF Finish, Ready, OpenSlot
<1>3. slot \in SlotType /\ now < slot.expires
  BY <1>1, <1>2 DEF SlotExpired, PairingInv, ManagerTypeOK, SlotType
<1>4. h \in DOMAIN handshakes /\ now < handshakes[h].created + HandshakeTTL
  BY <1>2 DEF FreshHandshakes
<1>5. handshakes[h].created \in Nat
  BY <1>4 DEF PairingInv, ManagerTypeOK, HandshakeType
<1>6. issuedTo[d] = NoInstall
  BY DEF Finish, Registry!CreatePendingWithResponse
<1>7. d \notin DOMAIN mints
  BY <1>6 DEF PairingInv, MintsFit, Reg!RegistryAssumption
<1>8. d \notin DOMAIN devices
  BY <1>6, Reg!UnissuedUnregistered DEF PairingInv, Reg!Registered
<1> QED
  BY <1>1, <1>2, <1>3, <1>4, <1>5, <1>6, <1>7, <1>8

LEMMA FinishWrites ==
  ASSUME Reg!RegistryAssumption, PairingAssumption, PairingInv,
         NEW caller \in Caller, NEW h \in Handshakes, NEW d \in DeviceIds,
         NEW i \in Installs \ {BridgeInstall}, Finish(caller, h, d, i)
  PROVE  /\ Reg!RegistryInv' /\ Reg!CapsInv'
         /\ DOMAIN devices' \subseteq DOMAIN devices \cup {d}
         /\ devices'[d].bound = Binding(caller)
         /\ \A x \in DOMAIN devices' : x # d => devices'[x] = devices[x]
         /\ issuedTo' = [issuedTo EXCEPT ![d] = i]
         /\ \A r \in responses' :
              r \in responses \/ (r.device = d /\ r.key = Key(caller, h))
         /\ DOMAIN mints' = DOMAIN mints \cup {d}
         /\ mints'[d] = [slot |-> slot, handshake |-> h, caller |-> caller, at |-> now,
                         started |-> handshakes[h].created]
         /\ \A x \in DOMAIN mints : x # d => mints'[x] = mints[x]
<1> DEFINE key == Key(caller, h)
<1>1. Binding(caller) \in Users \cup {NoUser} /\ key \in Handshakes \X Contexts
  BY DEF Binding, Key, Context, Contexts, Caller
<1>2. Reg!LiveResponses(key) = {} /\ Reg!CreatePendingWithResponse(d, i, Binding(caller), key)
  BY SameViews, SameCreation DEF Finish, Replayed
<1>3. Reg!Pair(d)
  BY <1>1, <1>2 DEF Reg!Pair
<1>4. Reg!RegistryInv' /\ Reg!CapsInv'
  BY <1>3, Reg!InvNext, Reg!CapsNext DEF PairingInv, Reg!Next
<1>5. devices' = Reg!WithPending(d, i, Binding(caller)) /\ issuedTo' = [issuedTo EXCEPT ![d] = i]
  BY <1>2 DEF Reg!CreatePendingWithResponse
<1>6. /\ DOMAIN devices' \subseteq DOMAIN devices \cup {d}
      /\ devices'[d].bound = Binding(caller)
      /\ \A x \in DOMAIN devices' : x # d => devices'[x] = devices[x]
  BY <1>5 DEF Reg!WithPending, Reg!Unexpired, Reg!Registered
<1>7. responses' \subseteq responses \cup {[key |-> key, device |-> d,
        expires |-> now + PendingTTL]}
  BY <1>2, Reg!TrimmedIsSubset DEF Reg!CreatePendingWithResponse
<1>8. \A r \in responses' : r \in responses \/ (r.device = d /\ r.key = key)
  BY <1>7
<1> QED
  BY <1>4, <1>5, <1>6, <1>8 DEF Finish

LEMMA FinishKeeps ==
  ASSUME Reg!RegistryAssumption, PairingAssumption, PairingInv,
         NEW caller \in Caller, NEW h \in Handshakes, NEW d \in DeviceIds,
         NEW i \in Installs \ {BridgeInstall}, Finish(caller, h, d, i)
  PROVE  PairingInv'
<1> DEFINE new == [slot |-> slot, handshake |-> h, caller |-> caller, at |-> now,
                   started |-> handshakes[h].created]
<1>f. /\ slot \in SlotType /\ now \in Nat /\ now < slot.expires
      /\ h \in DOMAIN handshakes /\ handshakes[h].caller = caller
      /\ handshakes[h].created \in Nat /\ now < handshakes[h].created + HandshakeTTL
      /\ d \notin DOMAIN mints /\ d \notin DOMAIN devices
  BY FinishFinds
<1>w. /\ DOMAIN mints' = DOMAIN mints \cup {d} /\ mints'[d] = new
      /\ devices'[d].bound = Binding(caller)
      /\ \A x \in DOMAIN mints : x # d => mints'[x] = mints[x]
      /\ DOMAIN devices' \subseteq DOMAIN devices \cup {d}
      /\ \A x \in DOMAIN devices' : x # d => devices'[x] = devices[x]
  BY FinishWrites
<1>m. DOMAIN mints' = DOMAIN mints \cup {d} /\ mints'[d] = new
      /\ \A x \in DOMAIN mints : mints'[x] = mints[x]
  BY <1>f, <1>w
<1>c. /\ slot' = NoSlot /\ phase' = "consumed" /\ handshakes' = Empty /\ consumedAt' = now
      /\ UNCHANGED <<generation, port, cloud, opened, started>>
  BY DEF Finish, Consume, ClearHandshakes
<1>1. ManagerTypeOK'
  <2>1. DOMAIN handshakes' = {} /\ handshakes' \in [{} -> HandshakeType]
    BY <1>c DEF Empty
  <2> QED
    BY <2>1, <1>c, <1>f DEF PairingInv, ManagerTypeOK
<1>2. SlotFits' /\ OwnHandshakes'
  BY <1>c DEF SlotFits, OwnHandshakes
<1>s. slot # NoSlot /\ slot.number <= opened /\ \A x \in DOMAIN mints : mints[x].slot.number # slot.number
  BY <1>f DEF PairingAssumption, PairingInv, SlotFits
<1>3. UsedUp'
  <2>1. h \in started /\ DOMAIN handshakes' = {} /\ started' = started
    BY <1>f, <1>c DEF PairingInv, ManagerTypeOK, Empty
  <2>2. \A x \in DOMAIN mints : mints[x].handshake # h
    BY <1>f DEF PairingInv, UsedUp
  <2> QED
    BY <2>1, <2>2, <1>m DEF PairingInv, UsedUp
<1>4. MintsFit'
  <2>1. new \in Mint /\ new.slot.number <= opened
    BY <1>f, <1>s DEF Mint
  <2>2. \A x \in DOMAIN mints' : issuedTo'[x] \in Installs \ {BridgeInstall}
    BY <1>m, FinishWrites DEF PairingInv, MintsFit, Reg!RegistryInv, Reg!RegistryTypeOK
  <2> QED
    BY <2>1, <2>2, <1>m, <1>c DEF PairingInv, MintsFit
<1>5. RepliesFit'
  BY <1>m, FinishWrites DEF PairingInv, RepliesFit, Key, Context
<1>6. MintsOnceInTime'
  <2>1. OneDevicePerSlot'
    BY <1>m, <1>s DEF PairingInv, MintsOnceInTime, OneDevicePerSlot
  <2>2. MintedInTime'
    BY <1>m, <1>f DEF PairingInv, MintsOnceInTime, MintedInTime
  <2> QED
    BY <2>1, <2>2 DEF MintsOnceInTime
<1>7. PairsAsMeant'
  <2>1. ArmedSlotPairsItsUser'
    <3>1. slot.armedFor # NoUser => caller = [mode |-> "cloud", who |-> slot.armedFor]
      BY <1>f, <1>s DEF PairingInv, OwnHandshakes
    <3> QED
      BY <3>1, <1>m DEF PairingInv, PairsAsMeant, ArmedSlotPairsItsUser
  <2>2. BoundAsPaired'
    <3>1. devices'[d].bound = Binding(caller) /\ ArmedLocal(new.slot) = ArmedLocal(slot)
      <4>1. new.slot = slot
        OBVIOUS
      <4> QED
        BY <1>w, <4>1
    <3>2. ASSUME NEW x \in DOMAIN mints \cap DOMAIN devices', x # d
          PROVE  x \in DOMAIN devices /\ devices'[x] = devices[x]
      BY <3>2, <1>w
    <3> QED
      BY <3>1, <3>2, <1>m DEF PairingInv, PairsAsMeant, BoundAsPaired, ArmedLocal, Binding,
                              Registry!IsPending
  <2> QED
    BY <2>1, <2>2 DEF PairsAsMeant
<1> QED
  BY <1>1, <1>2, <1>3, <1>4, <1>5, <1>6, <1>7, FinishWrites DEF PairingInv

-----------------------------------------------------------------------------
(* The theorems *)

LEMMA PairingInit ==
  ASSUME Reg!RegistryAssumption, PairingAssumption, Init
  PROVE  PairingInv
<1>1. Reg!Init
  BY DEF Init, Registry!Init, Reg!Init
<1>2. Reg!RegistryInv /\ Reg!CapsInv
  BY <1>1, Reg!InvInit, Reg!CapsInit
<1>3. /\ DOMAIN mints = {} /\ DOMAIN handshakes = {} /\ responses = {}
      /\ handshakes \in [{} -> HandshakeType]
      /\ phase = "inactive" /\ slot = NoSlot
      /\ consumedAt \in Nat /\ generation \in Nat /\ opened \in Nat
      /\ port \in BOOLEAN /\ cloud \in BOOLEAN /\ started = {}
  BY <1>1 DEF Init, Empty, Reg!Init
<1>4. ManagerTypeOK
  BY <1>3 DEF ManagerTypeOK
<1>5. SlotFits /\ OwnHandshakes /\ UsedUp /\ MintsFit /\ RepliesFit
  BY <1>3 DEF SlotFits, OwnHandshakes, UsedUp, MintsFit, RepliesFit
<1>6. MintsOnceInTime /\ PairsAsMeant
  BY <1>3 DEF MintsOnceInTime, OneDevicePerSlot, MintedInTime, PairsAsMeant, ArmedSlotPairsItsUser,
              BoundAsPaired
<1> QED
  BY <1>2, <1>4, <1>5, <1>6 DEF PairingInv

LEMMA PairingNext ==
  ASSUME Reg!RegistryAssumption, PairingAssumption, PairingInv, [Next]_vars
  PROVE  PairingInv'
<1>1. CASE GenerateCode \/ \E u \in Users, known \in BOOLEAN : Arm(u, known)
  <2>1. PICK ttl \in Nat, user \in Users \cup {NoUser}, known \in BOOLEAN : Open(ttl, user, known)
    BY <1>1 DEF GenerateCode, Arm, PairingAssumption
  <2> QED
    BY <2>1, OpenKeeps
<1>2. CASE Cancel \/ Restart \/ LearnPort
  BY <1>2, ForgetKeeps
<1>3. CASE GetStatus
  BY <1>3, StartRefusedKeeps
<1>4. ASSUME NEW caller \in Caller, StartRefused(caller) PROVE PairingInv'
  BY <1>4, StartRefusedKeeps
<1>5. ASSUME NEW caller \in Caller, NEW h \in Handshakes, Start(caller, h) PROVE PairingInv'
  BY <1>5, StartKeeps
<1>6. ASSUME NEW caller \in Caller, NEW h \in Handshakes,
             FinishRefused(caller, h) \/ FinishFailed(caller, h)
      PROVE  PairingInv'
  BY <1>6, StartRefusedKeeps
<1>7. ASSUME NEW caller \in Caller, NEW h \in Handshakes, NEW d \in DeviceIds,
             NEW i \in Installs \ {BridgeInstall}, Finish(caller, h, d, i)
      PROVE  PairingInv'
  BY <1>7, FinishKeeps
<1>8. CASE RegistryStep
  BY <1>8, RegistryStepKeeps
<1>9. CASE UNCHANGED vars
  BY <1>9, ManagerKeeps DEF vars, managerVars, historyVars, PairingInv, ManagerTypeOK, SlotFits,
     OwnHandshakes
<1> QED
  BY <1>1, <1>2, <1>3, <1>4, <1>5, <1>6, <1>7, <1>8, <1>9 DEF Next

\* The inductive invariant holds in every state.
LEMMA PairingInvariant == PartsSpec => []PairingInv
<1>a. Reg!RegistryAssumption /\ PairingAssumption
  BY PartsAssumption DEF Registry!RegistryAssumption, Reg!RegistryAssumption
<1>1. Init => PairingInv
  BY <1>a, PairingInit
<1>2. PairingInv /\ [Next]_vars => PairingInv'
  BY <1>a, PairingNext
<1> QED
  BY <1>1, <1>2, PairingRuns, PTL DEF Spec

\* The manager's and the registry's state is well-typed, in every state that
\* pairing (createPairingV1Manager) and the device routes reach.
THEOREM PairingTypeCorrect == PartsSpec => []PairingTypeOK
<1>1. PairingInv => PairingTypeOK
  <2>1. Reg!RegistryTypeOK => Registry!RegistryTypeOK
    BY DEF Reg!RegistryTypeOK, Registry!RegistryTypeOK, Reg!Device, Registry!Device, Reg!Response,
           Registry!Response, Reg!Revocation, Registry!Revocation
  <2> QED
    BY <2>1 DEF PairingInv, ManagerTypeOK, MintsFit, PairingTypeOK, Reg!RegistryInv
<1> QED
  BY <1>1, PairingInvariant, PTL

\* However finishes, retries, expiries and restarts are mixed, a slot pairs at
\* most one device, and only while slot and handshake are valid, although no
\* timer retires them (expireCode, pruneHandshakes, finishHandshake).
THEOREM PairsOnce == PartsSpec => []MintsOnceInTime
<1>1. PairingInv => MintsOnceInTime
  BY DEF PairingInv
<1> QED
  BY <1>1, PairingInvariant, PTL

\* An armed slot pairs the user it was armed for and nobody else, and every
\* credential stays usable on the path it was paired for (startCloud, finish).
THEOREM PairsTheRightOne == PartsSpec => []PairsAsMeant
<1>1. PairingInv => PairsAsMeant
  BY DEF PairingInv
<1> QED
  BY <1>1, PairingInvariant, PTL

\* While a credential can still be activated, the finish that minted it, asked
\* again, is answered with it and no other: trimming, later pairings and
\* restarts do not take the reply (getPairingResponse, trimPairingResponses).
THEOREM RetryGetsItsReply == PartsSpec => []RetriedFinishGetsItsReply
<1>1. ASSUME PairingInv PROVE RetriedFinishGetsItsReply
  <2> SUFFICES ASSUME NEW d \in DOMAIN mints \cap DOMAIN devices,
                      d \in Reg!PendingIn(Reg!Unexpired)
               PROVE  {r.device : r \in Reg!LiveResponses(Key(mints[d].caller, mints[d].handshake))}
                        = {d}
    BY SameViews DEF RetriedFinishGetsItsReply
  <2>t. now \in Nat /\ devices[d].expires \in Nat
    BY <1>1 DEF PairingInv, Reg!RegistryInv, Reg!RegistryTypeOK, Reg!Device
  <2>1. d \in Reg!PendingIn(Reg!Registered) /\ devices[d].expires > now
    BY <2>t DEF Reg!PendingIn, Reg!Unexpired, Reg!PendingExpired, Reg!IsPending
  <2>2. devices[d].install # BridgeInstall
    BY <1>1 DEF PairingInv, MintsFit, Reg!RegistryInv, Reg!IssuedAsRecorded, Reg!Registered
  <2>3. PICK r \in responses : r.device = d /\ r.expires = devices[d].expires
    BY <1>1, <2>1, <2>2 DEF PairingInv, Reg!CapsInv, Reg!ReplyKept
  <2>4. r \in Reg!LiveResponses(Key(mints[d].caller, mints[d].handshake))
    BY <1>1, <2>1, <2>3 DEF PairingInv, RepliesFit, Reg!LiveResponses
  <2>5. ASSUME NEW x \in Reg!LiveResponses(Key(mints[d].caller, mints[d].handshake))
        PROVE  x.device = d
    BY <1>1, <2>5 DEF PairingInv, RepliesFit, UsedUp, Key, Reg!LiveResponses
  <2> QED
    BY <2>3, <2>4, <2>5
<1> QED
  BY <1>1, PairingInvariant, PTL

-----------------------------------------------------------------------------
(* The legacy token: a cut is final *)

CutInv ==
  /\ {option, plain, snapshot} \subseteq Tokens \cup {None}
  /\ file \in Legacy!Record /\ memory \in Legacy!Record
  /\ pc # "down" => memory = file
  /\ file.legacy # None => file.completed
  /\ pc = "mark" => memory.legacy = None
  /\ cut => status = "readable" /\ file.completed /\ file.legacy = None /\ ~damaged

LEMMA CutInit == Legacy!Init => CutInv
BY PartsAssumption DEF Legacy!LegacyAssumption, Legacy!Init, CutInv, Legacy!Record, Legacy!Empty

LEMMA CutNext == CutInv /\ [Legacy!Next]_(Legacy!vars) => CutInv'
<1> SUFFICES ASSUME CutInv, [Legacy!Next]_(Legacy!vars)
             PROVE  CutInv'
  OBVIOUS
<1> USE DEF CutInv, Legacy!Record, Legacy!Empty
<1>1. CASE Legacy!Boot
  BY <1>1 DEF Legacy!Boot, Legacy!OpenRegistry, Legacy!diskVars, Legacy!historyVars
<1>2. CASE Legacy!Import
  <2>1. CASE Legacy!MayImport /\ Legacy!Effective # None
    <3>1. ~cut
      BY <1>2, <2>1 DEF Legacy!Import, Legacy!MayImport
    <3>2. UNCHANGED <<option, plain, snapshot, damaged, cut>>
      BY <1>2 DEF Legacy!Import, Legacy!historyVars
    <3>3. CASE Legacy!Persist([legacy |-> Legacy!Effective, completed |-> TRUE]) /\ pc' = "unlink"
      <4>1. Legacy!Effective \in Tokens \cup {None}
        BY DEF Legacy!Effective
      <4>2. memory' = [legacy |-> Legacy!Effective, completed |-> TRUE] /\ file' = memory'
        BY <3>3 DEF Legacy!Persist
      <4>3. memory' \in Legacy!Record
        BY <4>1, <4>2
      <4> QED
        BY <3>1, <3>2, <3>3, <4>2, <4>3
    <3>4. CASE Legacy!WriteFails /\ pc' = "down"
      BY <3>1, <3>2, <3>4 DEF Legacy!WriteFails
    <3> QED
      BY <1>2, <2>1, <3>3, <3>4 DEF Legacy!Import
  <2>2. CASE ~(Legacy!MayImport /\ Legacy!Effective # None)
    BY <1>2, <2>2 DEF Legacy!Import, Legacy!historyVars
  <2> QED
    BY <2>1, <2>2
<1>3. CASE Legacy!Unlink \/ Legacy!Clear
  BY <1>3 DEF Legacy!Unlink, Legacy!Clear, Legacy!processVars, Legacy!historyVars
<1>4. CASE Legacy!RevokeLegacy
  BY <1>4 DEF Legacy!RevokeLegacy, Legacy!Persist
<1>5. CASE Legacy!ResetOpen
  BY <1>5 DEF Legacy!ResetOpen
<1>6. CASE Legacy!ResetMark
  <2>1. pc = "mark" /\ pc' = "running" /\ UNCHANGED <<option, plain, snapshot>>
    BY <1>6 DEF Legacy!ResetMark
  <2>2. CASE Legacy!Persist(Legacy!Fresh) /\ damaged' = FALSE /\ cut' = TRUE
    <3>1. memory' = [memory EXCEPT !.completed = TRUE] /\ file' = memory' /\ status' = "readable"
      BY <2>2 DEF Legacy!Persist, Legacy!Fresh
    <3>2. memory' \in Legacy!Record /\ memory'.legacy = None /\ memory'.completed
      BY <2>1, <3>1
    <3> QED
      BY <2>1, <2>2, <3>1, <3>2
  <2>3. CASE Legacy!WriteFails /\ UNCHANGED <<damaged, cut>>
    BY <2>1, <2>3 DEF Legacy!WriteFails
  <2> QED
    BY <1>6, <2>2, <2>3 DEF Legacy!ResetMark
<1>7. CASE Legacy!Crash
  BY <1>7, PartsAssumption DEF Legacy!LegacyAssumption, Legacy!Crash, Legacy!diskVars,
    Legacy!historyVars
<1>8. CASE Legacy!Corrupt
  BY <1>8, PartsAssumption DEF Legacy!LegacyAssumption, Legacy!Corrupt, Legacy!processVars
<1>9. CASE UNCHANGED Legacy!vars
  BY <1>9 DEF Legacy!vars, Legacy!diskVars, Legacy!processVars, Legacy!historyVars
<1> QED
  BY <1>1, <1>2, <1>3, <1>4, <1>5, <1>6, <1>7, <1>8, <1>9 DEF Legacy!Next

\* Once the owner was told that legacy access is gone, no later boot accepts the
\* old shared token, wherever a copy of it lingers (importLegacyToken).
THEOREM LegacyCutIsFinal == PartsSpec => []CutStays
<1>1. CutInv => CutStays
  BY DEF CutInv, CutStays, Legacy!CutStays, Legacy!LegacyAccepted
<1> QED
  BY <1>1, CutInit, CutNext, LegacyRuns, PTL DEF Legacy!Spec
-----------------------------------------------------------------------------
(* The token is never lost *)

\* Neither the owner nor a damaged file has taken the token away.
Kept == token # None /\ ~cut /\ ~resetting /\ ~lost

KeptInv ==
  /\ pc = "import" => snapshot = option
  /\ pc = "unlink" => file.completed
  /\ pc = "clear" /\ Legacy!ClearsToken => file.completed
  /\ Kept /\ file.completed => file.legacy = token
  /\ Kept /\ ~file.completed => token = IF option # None THEN option ELSE plain

LEMMA KeptInit == Legacy!Init => KeptInv
BY DEF Legacy!Init, KeptInv, Legacy!Empty

LEMMA KeptNext == CutInv /\ KeptInv /\ [Legacy!Next]_(Legacy!vars) => KeptInv'
<1> SUFFICES ASSUME CutInv, KeptInv, [Legacy!Next]_(Legacy!vars)
             PROVE  KeptInv'
  OBVIOUS
<1> USE DEF CutInv, KeptInv, Kept, Legacy!ClearsToken
<1>1. CASE Legacy!Boot
  BY <1>1 DEF Legacy!Boot, Legacy!OpenRegistry, Legacy!diskVars, Legacy!historyVars
<1>2. CASE Legacy!Import
  <2>1. /\ pc = "import" /\ memory = file
        /\ UNCHANGED <<option, plain, snapshot, damaged, cut, resetting, lost, token>>
    BY <1>2 DEF Legacy!Import, Legacy!historyVars
  <2>2. CASE Legacy!MayImport /\ Legacy!Effective # None
               /\ Legacy!Persist([legacy |-> Legacy!Effective, completed |-> TRUE])
               /\ pc' = "unlink"
    <3>1. file' = [legacy |-> Legacy!Effective, completed |-> TRUE]
      BY <2>2 DEF Legacy!Persist
    <3>2. Kept => Legacy!Effective = token
      BY <2>1, <2>2 DEF Legacy!MayImport, Legacy!Effective
    <3> QED
      BY <2>1, <2>2, <3>1, <3>2
  <2>3. CASE Legacy!WriteFails /\ pc' = "down"
    BY <2>1, <2>3 DEF Legacy!WriteFails
  <2>4. CASE Legacy!MayImport /\ Legacy!Effective = None /\ UNCHANGED <<memory, file, status>>
               /\ pc' = "clear"
    BY <2>1, <2>4 DEF Legacy!Effective
  <2>5. CASE ~Legacy!MayImport /\ UNCHANGED <<memory, file, status>> /\ pc' = "unlink"
    BY <2>1, <2>5 DEF Legacy!MayImport
  <2> QED
    BY <1>2, <2>2, <2>3, <2>4, <2>5 DEF Legacy!Import
<1>3. CASE Legacy!Unlink
  BY <1>3 DEF Legacy!Unlink, Legacy!processVars, Legacy!historyVars
<1>4. CASE Legacy!Clear
  BY <1>4 DEF Legacy!Clear, Legacy!processVars, Legacy!historyVars
<1>5. CASE Legacy!RevokeLegacy \/ Legacy!ResetOpen \/ Legacy!ResetMark \/ Legacy!Crash
  <2>1. CASE Legacy!RevokeLegacy
    BY <2>1 DEF Legacy!RevokeLegacy
  <2>2. CASE Legacy!ResetOpen
    BY <2>2 DEF Legacy!ResetOpen
  <2>3. CASE Legacy!ResetMark
    BY <2>3 DEF Legacy!ResetMark, Legacy!Persist, Legacy!Fresh, Legacy!WriteFails
  <2>4. CASE Legacy!Crash
    BY <2>4 DEF Legacy!Crash, Legacy!diskVars, Legacy!historyVars
  <2> QED
    BY <1>5, <2>1, <2>2, <2>3, <2>4
<1>6. CASE Legacy!Corrupt
  BY <1>6 DEF Legacy!Corrupt, Legacy!processVars, Legacy!Empty
<1>7. CASE UNCHANGED Legacy!vars
  BY <1>7 DEF Legacy!vars, Legacy!diskVars, Legacy!processVars, Legacy!historyVars
<1> QED
  BY <1>1, <1>2, <1>3, <1>4, <1>5, <1>6, <1>7 DEF Legacy!Next

\* However often a boot fails, is killed or cannot write: the token that existing
\* clients use stays in the option, the plaintext file or the registry until the
\* owner cuts it or the registry is destroyed (importLegacyToken).
THEOREM LegacyTokenIsKept == PartsSpec => []TokenNeverLost
<1>1. CutInv /\ KeptInv => TokenNeverLost
  BY DEF KeptInv, Kept, TokenNeverLost, Legacy!TokenNeverLost
<1> QED
  BY <1>1, CutInit, CutNext, KeptInit, KeptNext, LegacyRuns, PTL DEF Legacy!Spec

-----------------------------------------------------------------------------
(* The WebSocket client *)

OneAttempt ==
  /\ {c \in Conns : link[c] = "connecting"} = {connecting} \ {NoConn}
  /\ connecting # NoConn => current = NoConn

OneLink ==
  /\ {c \in Conns : link[c] \in {"open", "down"}} = {current} \ {NoConn}
  /\ connected <=> current # NoConn /\ link[current] = "open"
  /\ \A c \in Conns : link[c] = "closed" => c \in broken

Leavable(call) ==
  /\ call.sub = "live" => call.acked
  /\ call.at \in {"idle", "waiting"} => call.sub \in {"none", "gone"}
  /\ call.at = "done" => call.sub # "live" /\ (call.sub = "asked" => call.late)
  /\ call.at \in {"idle", "waiting", "open"} => call.events < MaxEvents
  /\ call.at \in {"waiting", "open", "leaving"} => call.conn # NoConn

WsInv ==
  /\ Ws!WsTypeOK /\ OneAttempt /\ OneLink
  /\ \A k \in Collects : Leavable(collect[k])

-----------------------------------------------------------------------------
(* The connection *)

\* A request is made on the connection that is there, or waits for the one attempt.
LEMMA RequestKeeps ==
  ASSUME Ws!WsAssumption, WsInv, NEW c \in Conns,
         Ws!AttemptIfNone(c) \/ (current = c /\ UNCHANGED <<connecting, link>>),
         UNCHANGED <<current, connected, everConnected, failure, broken>>
  PROVE  /\ OneAttempt' /\ OneLink' /\ connecting' \in Conns \cup {NoConn}
         /\ link' \in [Conns -> {"new", "connecting", "open", "down", "closed"}]
<1> USE DEF Ws!WsAssumption, WsInv, Ws!WsTypeOK, OneAttempt, OneLink
<1>1. CASE UNCHANGED <<connecting, link>>
  BY <1>1
<1>2. CASE current = NoConn /\ connecting = NoConn /\ Ws!Attempt(c)
  <2>1. /\ link[c] = "new" /\ connecting' = c /\ link'[c] = "connecting"
        /\ \A x \in Conns : x # c => link'[x] = link[x]
        /\ link' \in [Conns -> {"new", "connecting", "open", "down", "closed"}]
    BY <1>2 DEF Ws!Attempt
  <2>2. OneAttempt'
    BY <1>2, <2>1
  <2>3. OneLink'
    BY <1>2, <2>1
  <2> QED
    BY <2>1, <2>2, <2>3
<1> QED
  BY <1>1, <1>2 DEF Ws!AttemptIfNone

\* A failure on a connection takes down that one, if it is the current one.
LEMMA ResetKeeps ==
  ASSUME Ws!WsAssumption, WsInv, NEW c \in Conns, Ws!Reset(c), broken' = broken \cup {c},
         UNCHANGED <<connecting, everConnected>>
  PROVE  /\ OneAttempt' /\ OneLink' /\ current' \in Conns \cup {NoConn} /\ connected' \in BOOLEAN
         /\ link' \in [Conns -> {"new", "connecting", "open", "down", "closed"}]
<1> USE DEF Ws!WsAssumption, WsInv, Ws!WsTypeOK, OneAttempt, OneLink
<1>1. CASE current = c /\ Ws!CloseCurrent
  <2>1. /\ current' = NoConn /\ connected' = FALSE /\ link'[c] = "closed"
             /\ link[c] \in {"open", "down"}
        /\ \A x \in Conns : x # c => link'[x] = link[x]
        /\ link' \in [Conns -> {"new", "connecting", "open", "down", "closed"}]
    BY <1>1 DEF Ws!CloseCurrent
  <2>2. OneAttempt'
    BY <2>1
  <2>3. OneLink'
    BY <1>1, <2>1
  <2> QED
    BY <2>1, <2>2, <2>3
<1>2. CASE UNCHANGED <<current, connected, link>>
  BY <1>2
<1> QED
  BY <1>1, <1>2 DEF Ws!Reset

\* The library's link goes up or down under the client, which is told.
LEMMA ReportKeeps ==
  ASSUME Ws!WsAssumption, WsInv, NEW c \in Conns, NEW up \in BOOLEAN, link[c] \in {"open", "down"},
         link' = [link EXCEPT ![c] = IF up THEN "open" ELSE "down"], Ws!Report(c, up),
         UNCHANGED <<current, connecting, broken>>
  PROVE  /\ OneAttempt' /\ OneLink' /\ connected' \in BOOLEAN
         /\ link' \in [Conns -> {"new", "connecting", "open", "down", "closed"}]
<1> USE DEF Ws!WsAssumption, WsInv, Ws!WsTypeOK, OneAttempt, OneLink
<1>1. /\ current = c /\ connected' = up /\ link'[c] = (IF up THEN "open" ELSE "down")
      /\ \A x \in Conns : x # c => link'[x] = link[x]
      /\ link' \in [Conns -> {"new", "connecting", "open", "down", "closed"}]
  BY DEF Ws!Report, Ws!IsCurrent
<1>2. OneAttempt' /\ OneLink'
  BY <1>1
<1> QED
  BY <1>1, <1>2

-----------------------------------------------------------------------------
(* The requests *)

\* What one call does to its own record.
LEMMA OneCall ==
  ASSUME WsInv, NEW k \in Collects, NEW call, call \in Ws!Collect, Leavable(call),
         collect' = [collect EXCEPT ![k] = call]
  PROVE  collect' \in [Collects -> Ws!Collect] /\ \A x \in Collects : Leavable(collect'[x])
BY DEF WsInv, Ws!WsTypeOK

\* `finally`: the collection is over, or knows how to leave.
LEMMA LeaveFits ==
  ASSUME NEW call, call \in Ws!Collect, call.at = "open", call.sub \in {"asked", "live", "gone"},
         call.sub = "live" => call.acked, call.conn # NoConn
  PROVE  Ws!Leave(call) \in Ws!Collect /\ Leavable(Ws!Leave(call))
<1>1. CASE call.acked
  <2>1. Ws!Leave(call) = [call EXCEPT !.at = "leaving"]
    BY <1>1 DEF Ws!Leave
  <2> QED
    BY <1>1, <2>1 DEF Ws!Collect, Leavable
<1>2. CASE ~call.acked
  <2>1. Ws!Leave(call) = [call EXCEPT !.at = "done", !.late = TRUE]
    BY <1>2 DEF Ws!Leave
  <2> QED
    BY <1>2, <2>1 DEF Ws!Collect, Leavable
<1> QED
  BY <1>1, <1>2

LEMMA StartSendKeeps ==
  ASSUME Ws!WsAssumption, WsInv, NEW s \in Sends, NEW c \in Conns, Ws!StartSend(s, c)
  PROVE  WsInv'
<1>1. /\ Ws!AttemptIfNone(c) \/ (current = c /\ UNCHANGED <<connecting, link>>)
      /\ UNCHANGED <<current, connected, everConnected, failure, broken, collect>>
      /\ \E at \in {"sent", "waiting"} : send' = [send EXCEPT ![s] = [at |-> at, conn |-> c]]
  BY DEF Ws!StartSend, Ws!Request
<1>2. send' \in [Sends -> Ws!Send] /\ \A x \in Sends : send'[x].at \in {"waiting", "sent", "lost"}
        => send'[x].conn # NoConn
  BY <1>1 DEF WsInv, Ws!WsTypeOK, Ws!Send, Ws!WsAssumption
<1>3. /\ OneAttempt' /\ OneLink' /\ connecting' \in Conns \cup {NoConn}
      /\ link' \in [Conns -> {"new", "connecting", "open", "down", "closed"}]
  BY <1>1, RequestKeeps
<1> QED
  BY <1>1, <1>2, <1>3 DEF WsInv, Ws!WsTypeOK

LEMMA StartCollectKeeps ==
  ASSUME Ws!WsAssumption, WsInv, NEW k \in Collects, NEW c \in Conns, NEW window \in BOOLEAN,
         Ws!StartCollect(k, c, window)
  PROVE  WsInv'
<1> PICK call : call = [collect[k] EXCEPT !.conn = c, !.window = window]
  OBVIOUS
<1>1. /\ Ws!AttemptIfNone(c) \/ (current = c /\ UNCHANGED <<connecting, link>>)
      /\ UNCHANGED <<current, connected, everConnected, failure, broken, send>>
      /\ \/ collect' = [collect EXCEPT ![k] = Ws!Subscribing(call)]
         \/ collect' = [collect EXCEPT ![k] = [call EXCEPT !.at = "waiting"]]
      /\ collect[k].at = "idle"
  BY DEF Ws!StartCollect, Ws!Request
<1>2. call \in Ws!Collect /\ call.at = "idle" /\ call.conn = c /\ call.sub \in {"none", "gone"}
        /\ call.events < MaxEvents
  <2>1. collect[k] \in Ws!Collect /\ Leavable(collect[k])
    BY DEF WsInv, Ws!WsTypeOK
  <2>2. call \in Ws!Collect /\ call.at = collect[k].at /\ call.conn = c
        /\ call.sub = collect[k].sub /\ call.events = collect[k].events
    BY <2>1 DEF Ws!Collect
  <2> QED
    BY <1>1, <2>1, <2>2 DEF Leavable
<1>3. Ws!Subscribing(call) \in Ws!Collect /\ Leavable(Ws!Subscribing(call))
  BY <1>2 DEF Ws!Subscribing, Ws!Collect, Leavable, Ws!WsAssumption
<1>4. [call EXCEPT !.at = "waiting"] \in Ws!Collect /\ Leavable([call EXCEPT !.at = "waiting"])
  BY <1>2 DEF Ws!Collect, Leavable, Ws!WsAssumption
<1>5. collect' \in [Collects -> Ws!Collect] /\ \A x \in Collects : Leavable(collect'[x])
  BY <1>1, <1>3, <1>4, OneCall
<1>6. /\ OneAttempt' /\ OneLink' /\ connecting' \in Conns \cup {NoConn}
      /\ link' \in [Conns -> {"new", "connecting", "open", "down", "closed"}]
  BY <1>1, RequestKeeps
<1> QED
  BY <1>1, <1>5, <1>6 DEF WsInv, Ws!WsTypeOK

\* A connection attempt ends: whoever waited for it goes on, or has failed.
LEMMA ConnectKeeps ==
  ASSUME Ws!WsAssumption, WsInv, NEW c \in Conns, Ws!Connect(c)
  PROVE  WsInv'
<1> USE DEF WsInv, Ws!WsTypeOK
<1>1. /\ connecting = c /\ current = NoConn /\ current' = c /\ connecting' = NoConn
           /\ link'[c] = "open"
      /\ \A x \in Conns : x # c => link'[x] = link[x]
      /\ link' \in [Conns -> {"new", "connecting", "open", "down", "closed"}]
      /\ connected' /\ broken' = broken
  BY DEF Ws!Connect, OneAttempt
<1>2. OneAttempt' /\ OneLink'
  BY <1>1 DEF Ws!WsAssumption, OneAttempt, OneLink
<1>3. send' \in [Sends -> Ws!Send] /\ \A x \in Sends : send'[x].at \in {"waiting", "sent", "lost"}
        => send'[x].conn # NoConn
  BY DEF Ws!Connect, Ws!Send, Ws!Waits
<1>4. ASSUME NEW k \in Collects, Ws!Waits(collect[k], c)
      PROVE  Ws!Subscribing(collect[k]) \in Ws!Collect /\ Leavable(Ws!Subscribing(collect[k]))
  <2>1. collect[k] \in Ws!Collect /\ Leavable(collect[k]) /\ collect[k].at = "waiting"
    BY <1>4 DEF Ws!Waits
  <2> DEFINE sent == Ws!Subscribing(collect[k])
  <2>2. sent \in Ws!Collect /\ sent.at = "open" /\ sent.sub = "asked"
        /\ sent.conn = collect[k].conn /\ sent.events = collect[k].events
    BY <2>1 DEF Ws!Subscribing, Ws!Collect
  <2> HIDE DEF sent
  <2>3. Leavable(sent)
    BY <2>1, <2>2 DEF Leavable
  <2> QED
    BY <2>2, <2>3 DEF sent
<1>5. collect' \in [Collects -> Ws!Collect] /\ \A k \in Collects : Leavable(collect'[k])
  BY <1>4 DEF Ws!Connect
<1> QED
  BY <1>1, <1>2, <1>3, <1>5 DEF Ws!Connect

LEMMA ConnectFailsKeeps ==
  ASSUME Ws!WsAssumption, WsInv, NEW c \in Conns, NEW why \in {"auth", "network"},
           Ws!ConnectFails(c, why)
  PROVE  WsInv'
<1> USE DEF WsInv, Ws!WsTypeOK
<1>1. /\ connecting = c /\ current = NoConn /\ current' = current /\ connecting' = NoConn
           /\ link'[c] = "closed"
      /\ \A x \in Conns : x # c => link'[x] = link[x]
      /\ link' \in [Conns -> {"new", "connecting", "open", "down", "closed"}]
      /\ connected' = connected /\ broken' = broken \cup {c}
  BY DEF Ws!ConnectFails, OneAttempt
<1>2. OneAttempt' /\ OneLink'
  BY <1>1 DEF Ws!WsAssumption, OneAttempt, OneLink
<1>3. send' \in [Sends -> Ws!Send] /\ \A x \in Sends : send'[x].at \in {"waiting", "sent", "lost"}
        => send'[x].conn # NoConn
  BY DEF Ws!ConnectFails, Ws!Send, Ws!Waits
<1>4. ASSUME NEW k \in Collects, Ws!Waits(collect[k], c)
      PROVE  /\ [collect[k] EXCEPT !.at = "done", !.result = "failed"] \in Ws!Collect
             /\ Leavable([collect[k] EXCEPT !.at = "done", !.result = "failed"])
  <2>1. collect[k] \in Ws!Collect /\ Leavable(collect[k]) /\ collect[k].at = "waiting"
    BY <1>4 DEF Ws!Waits
  <2> DEFINE ended == [collect[k] EXCEPT !.at = "done", !.result = "failed"]
  <2>2. ended \in Ws!Collect /\ ended.at = "done" /\ ended.sub = collect[k].sub
    BY <2>1 DEF Ws!Collect
  <2> HIDE DEF ended
  <2>3. Leavable(ended)
    BY <2>1, <2>2 DEF Leavable
  <2> QED
    BY <2>2, <2>3 DEF ended
<1>5. collect' \in [Collects -> Ws!Collect] /\ \A k \in Collects : Leavable(collect'[k])
  BY <1>4 DEF Ws!ConnectFails
<1> QED
  BY <1>1, <1>2, <1>3, <1>5 DEF Ws!ConnectFails

LEMMA DisconnectKeeps ==
  ASSUME Ws!WsAssumption, WsInv, NEW c \in Conns, Ws!Disconnect(c)
  PROVE  WsInv'
<1>1. /\ OneAttempt' /\ OneLink' /\ connected' \in BOOLEAN
      /\ link' \in [Conns -> {"new", "connecting", "open", "down", "closed"}]
  BY ReportKeeps DEF Ws!Disconnect
<1> USE DEF WsInv, Ws!WsTypeOK
<1>2. send' \in [Sends -> Ws!Send] /\ \A x \in Sends : send'[x].at \in {"waiting", "sent", "lost"}
        => send'[x].conn # NoConn
  BY DEF Ws!Disconnect, Ws!Send
<1>3. ASSUME NEW k \in Collects
      PROVE  [collect[k] EXCEPT !.sub = "gone"] \in Ws!Collect
               /\ Leavable([collect[k] EXCEPT !.sub = "gone"])
  BY DEF Ws!Collect, Leavable
<1>4. collect' \in [Collects -> Ws!Collect] /\ \A k \in Collects : Leavable(collect'[k])
  BY <1>3 DEF Ws!Disconnect
<1> QED
  BY <1>1, <1>2, <1>4 DEF Ws!Disconnect

\* A connection that was closed is never the current one, so its last events are
\* not believed.
LEMMA EventsKeep ==
  ASSUME Ws!WsAssumption, WsInv, NEW c \in Conns, Ws!LateEvent(c) \/ Ws!Ready(c)
           \/ Ws!ReconnectError(c)
  PROVE  WsInv'
<1>1. CASE Ws!LateEvent(c)
  <2>1. current # c
    BY <1>1 DEF Ws!LateEvent, WsInv, OneLink, Ws!WsAssumption
  <2>2. UNCHANGED Ws!vars
    BY <1>1, <2>1 DEF Ws!LateEvent, Ws!Report, Ws!IsCurrent, Ws!vars, Ws!clientVars
  <2> QED
    BY <2>2 DEF Ws!vars, Ws!clientVars, WsInv, Ws!WsTypeOK, OneAttempt, OneLink, Leavable
<1>2. CASE Ws!Ready(c)
  BY <1>2, ReportKeeps DEF Ws!Ready, WsInv, Ws!WsTypeOK
<1>3. CASE Ws!ReconnectError(c)
  BY <1>3, ResetKeeps DEF Ws!ReconnectError, WsInv, Ws!WsTypeOK
<1> QED
  BY <1>1, <1>2, <1>3

LEMMA SendsKeep ==
  ASSUME Ws!WsAssumption, WsInv, NEW s \in Sends, Ws!Answered(s) \/ Ws!SendFails(s)
  PROVE  WsInv'
<1>1. send[s] \in Ws!Send /\ (send[s].at \in {"sent", "lost"} => send[s].conn \in Conns)
  BY DEF WsInv, Ws!WsTypeOK, Ws!Send
<1>2. /\ send' \in [Sends -> Ws!Send] /\ \A x \in Sends : send'[x].at \in {"waiting", "sent",
           "lost"} => send'[x].conn # NoConn
      /\ UNCHANGED collect
  BY DEF Ws!Answered, Ws!SendFails, WsInv, Ws!WsTypeOK, Ws!Send
<1>3. CASE Ws!Answered(s)
  BY <1>2, <1>3 DEF Ws!Answered, Ws!clientVars, WsInv, Ws!WsTypeOK, OneAttempt, OneLink
<1>4. CASE Ws!SendFails(s)
  <2>1. PICK c \in Conns : c = send[s].conn
    BY <1>1, <1>4 DEF Ws!SendFails
  <2>2. Ws!Reset(c) /\ broken' = broken \cup {c} /\ UNCHANGED <<connecting, everConnected, failure>>
    BY <1>4, <2>1 DEF Ws!SendFails, Ws!FailOn
  <2> QED
    BY <1>2, <2>2, ResetKeeps DEF WsInv, Ws!WsTypeOK
<1> QED
  BY <1>3, <1>4

\* A collection alone goes on: the connection is left as it is.
LEMMA CallKeeps ==
  ASSUME WsInv, NEW k \in Collects, NEW call, call \in Ws!Collect, Leavable(call), Ws!Put(k, call),
         UNCHANGED <<Ws!clientVars, link, send, broken>>
  PROVE  WsInv'
BY OneCall DEF Ws!Put, Ws!clientVars, WsInv, Ws!WsTypeOK, OneAttempt, OneLink

LEMMA AckKeeps ==
  ASSUME Ws!WsAssumption, WsInv, NEW k \in Collects, Ws!Ack(k)
  PROVE  WsInv'
<1>1. collect[k] \in Ws!Collect /\ Leavable(collect[k]) /\ collect[k].sub = "asked"
  BY DEF Ws!Ack, WsInv, Ws!WsTypeOK
<1>2. PICK call : call = IF collect[k].late THEN [collect[k] EXCEPT !.sub = "gone"]
                         ELSE [collect[k] EXCEPT !.sub = "live", !.acked = TRUE]
  OBVIOUS
<1>3. call \in Ws!Collect /\ Leavable(call)
  BY <1>1, <1>2 DEF Ws!Collect, Leavable
<1> QED
  BY <1>2, <1>3, CallKeeps DEF Ws!Ack

LEMMA RefusedKeeps ==
  ASSUME Ws!WsAssumption, WsInv, NEW k \in Collects, Ws!Refused(k)
  PROVE  WsInv'
<1>1. collect[k] \in Ws!Collect /\ Leavable(collect[k]) /\ collect[k].sub = "asked"
  BY DEF Ws!Refused, WsInv, Ws!WsTypeOK
<1>2. PICK call : call = [collect[k] EXCEPT !.sub = "gone"]
  OBVIOUS
<1>3. CASE call.at = "open"
  <2>1. PICK left : left = [call EXCEPT !.result = "refused"]
    OBVIOUS
  <2>2. left \in Ws!Collect /\ left.at = "open" /\ left.sub = "gone" /\ left.conn # NoConn
    BY <1>1, <1>2, <1>3, <2>1 DEF Ws!Collect, Leavable
  <2>3. Ws!Leave(left) \in Ws!Collect /\ Leavable(Ws!Leave(left))
    BY <2>2, LeaveFits
  <2>4. Ws!Put(k, Ws!Leave(left)) /\ UNCHANGED <<Ws!clientVars, link, send, broken>>
    BY <1>2, <1>3, <2>1 DEF Ws!Refused
  <2> QED
    BY <2>3, <2>4, CallKeeps
<1>4. CASE call.at # "open"
  <2>1. call \in Ws!Collect /\ Leavable(call)
    BY <1>1, <1>2, <1>4 DEF Ws!Collect, Leavable
  <2>2. Ws!Put(k, call) /\ UNCHANGED <<Ws!clientVars, link, send, broken>>
    BY <1>2, <1>4 DEF Ws!Refused
  <2> QED
    BY <2>1, <2>2, CallKeeps
<1> QED
  BY <1>3, <1>4

LEMMA WindowEndsKeeps ==
  ASSUME Ws!WsAssumption, WsInv, NEW k \in Collects, Ws!WindowEnds(k)
  PROVE  WsInv'
<1>1. /\ collect[k] \in Ws!Collect /\ Leavable(collect[k]) /\ collect[k].at = "open"
      /\ collect[k].acked
  BY DEF Ws!WindowEnds, Ws!TimerRuns, WsInv, Ws!WsTypeOK
<1>2. PICK call : call = [collect[k] EXCEPT !.result = "truncated"]
  OBVIOUS
<1>3. Ws!Leave(call) = [call EXCEPT !.at = "leaving"]
  BY <1>1, <1>2 DEF Ws!Leave, Ws!Collect
<1>4. [call EXCEPT !.at = "leaving"] \in Ws!Collect /\ Leavable([call EXCEPT !.at = "leaving"])
  BY <1>1, <1>2 DEF Ws!Collect, Leavable
<1>5. Ws!Put(k, Ws!Leave(call)) /\ UNCHANGED <<Ws!clientVars, link, send, broken>>
  BY <1>2 DEF Ws!WindowEnds
<1> QED
  BY <1>3, <1>4, <1>5, CallKeeps

LEMMA EventKeeps ==
  ASSUME Ws!WsAssumption, WsInv, NEW k \in Collects, NEW finish \in BOOLEAN, Ws!Event(k, finish)
  PROVE  WsInv'
<1>1. /\ collect[k] \in Ws!Collect /\ Leavable(collect[k]) /\ collect[k].at = "open"
      /\ collect[k].sub \in {"asked", "live"} /\ MaxEvents \in Nat
  BY DEF Ws!Event, WsInv, Ws!WsTypeOK, Ws!WsAssumption
<1>2. PICK call : call = [collect[k] EXCEPT !.events = @ + 1]
  OBVIOUS
<1>3. /\ call \in Ws!Collect /\ call.at = "open" /\ call.sub \in {"asked", "live"}
      /\ call.sub = "live" => call.acked
      /\ call.conn # NoConn
  BY <1>1, <1>2 DEF Ws!Collect, Leavable
<1>4. ASSUME NEW result \in {"finished", "truncated", "overflow"},
             Ws!Put(k, Ws!Leave([call EXCEPT !.result = result]))
      PROVE  WsInv'
  <2>1. PICK left : left = [call EXCEPT !.result = result]
    OBVIOUS
  <2>2. left \in Ws!Collect /\ left.at = "open" /\ left.sub = call.sub /\ left.acked = call.acked
          /\ left.conn = call.conn
    BY <1>3, <2>1 DEF Ws!Collect
  <2>3. Ws!Leave(left) \in Ws!Collect /\ Leavable(Ws!Leave(left))
    BY <1>3, <2>2, LeaveFits
  <2> QED
    BY <1>4, <2>1, <2>3, CallKeeps DEF Ws!Event
<1>5. CASE finish
  BY <1>2, <1>4, <1>5 DEF Ws!Event
<1>6. CASE ~finish /\ ~Ws!AtLimit(call.events)
  <2>1. Leavable(call)
    BY <1>1, <1>2, <1>3, <1>6 DEF Ws!AtLimit, Leavable, Ws!Collect
  <2>2. Ws!Put(k, call)
    BY <1>2, <1>6 DEF Ws!Event
  <2> QED
    BY <1>3, <2>1, <2>2, CallKeeps DEF Ws!Event
<1>7. CASE ~finish /\ Ws!AtLimit(call.events)
  <2>1. PICK result : result = IF call.window THEN "truncated" ELSE "overflow"
    OBVIOUS
  <2>2. Ws!Put(k, Ws!Leave([call EXCEPT !.result = result]))
    BY <1>2, <1>7, <2>1 DEF Ws!Event
  <2> QED
    BY <1>4, <2>1, <2>2
<1> QED
  BY <1>5, <1>6, <1>7

LEMMA CollectFailsKeeps ==
  ASSUME Ws!WsAssumption, WsInv, NEW k \in Collects, Ws!CollectFails(k)
  PROVE  WsInv'
<1>1. /\ collect[k] \in Ws!Collect /\ Leavable(collect[k]) /\ collect[k].at = "open"
  BY DEF Ws!CollectFails, WsInv, Ws!WsTypeOK
<1>2. PICK call : call = [collect[k] EXCEPT !.result = "failed", !.at = "done"]
  OBVIOUS
<1>3. PICK left : left = IF call.acked THEN [call EXCEPT !.sub = "gone"] ELSE [call EXCEPT !.late = TRUE]
  OBVIOUS
<1>4. left \in Ws!Collect /\ Leavable(left)
  BY <1>1, <1>2, <1>3 DEF Ws!Collect, Leavable
<1>5. PICK c \in Conns : c = collect[k].conn
  BY <1>1 DEF Ws!Collect, Leavable
<1>6. /\ Ws!Put(k, left) /\ Ws!FailOn(c) /\ UNCHANGED send
  <2>1. call.conn = c
    BY <1>1, <1>2, <1>5 DEF Ws!Collect
  <2> QED
    BY <1>2, <1>3, <2>1 DEF Ws!CollectFails
<1>7. collect' \in [Collects -> Ws!Collect] /\ \A x \in Collects : Leavable(collect'[x])
  BY <1>4, <1>6, OneCall DEF Ws!Put
<1> QED
  BY <1>6, <1>7, ResetKeeps DEF Ws!FailOn, WsInv, Ws!WsTypeOK

LEMMA UnsubscribedKeeps ==
  ASSUME Ws!WsAssumption, WsInv, NEW k \in Collects, Ws!Unsubscribed(k)
  PROVE  WsInv'
<1>1. collect[k] \in Ws!Collect
  BY DEF WsInv, Ws!WsTypeOK
<1>2. PICK call : /\ Ws!Put(k, call)
                  /\ \/ call = [collect[k] EXCEPT !.at = "done", !.sub = "gone"]
                     \/ call = [collect[k] EXCEPT !.at = "done", !.sub = "gone",
                          !.result = "failed"]
  BY DEF Ws!Unsubscribed
<1>3. call \in Ws!Collect /\ Leavable(call)
  BY <1>1, <1>2 DEF Ws!Collect, Leavable
<1> QED
  BY <1>2, <1>3, CallKeeps DEF Ws!Unsubscribed

-----------------------------------------------------------------------------

LEMMA WsInit == Ws!WsAssumption /\ Ws!Init => WsInv
<1> SUFFICES ASSUME Ws!WsAssumption, Ws!Init PROVE WsInv
  OBVIOUS
<1>1. OneAttempt /\ OneLink
  BY DEF Ws!Init, OneAttempt, OneLink
<1>2. \A k \in Collects : collect[k] \in Ws!Collect /\ Leavable(collect[k])
  BY DEF Ws!Init, Ws!Collect, Leavable, Ws!WsAssumption
<1>3. \A s \in Sends : send[s] \in Ws!Send /\ send[s].at = "idle"
  BY DEF Ws!Init, Ws!Send
<1>4. Ws!WsTypeOK
  BY <1>2, <1>3 DEF Ws!Init, Ws!WsTypeOK
<1> QED
  BY <1>1, <1>2, <1>4 DEF WsInv

LEMMA WsNext == Ws!WsAssumption /\ WsInv /\ [Ws!Next]_(Ws!vars) => WsInv'
<1> SUFFICES ASSUME Ws!WsAssumption, WsInv, [Ws!Next]_(Ws!vars) PROVE WsInv'
  OBVIOUS
<1>1. CASE UNCHANGED Ws!vars
  BY <1>1 DEF Ws!vars, Ws!clientVars, WsInv, Ws!WsTypeOK, OneAttempt, OneLink, Leavable
<1>2. ASSUME NEW c \in Conns, NEW s \in Sends, Ws!StartSend(s, c) PROVE WsInv'
  BY <1>2, StartSendKeeps
<1>3. ASSUME NEW c \in Conns, NEW k \in Collects, NEW window \in BOOLEAN,
               Ws!StartCollect(k, c, window)
      PROVE  WsInv'
  BY <1>3, StartCollectKeeps
<1>4. ASSUME NEW c \in Conns, NEW why \in {"auth", "network"}, Ws!ConnectFails(c, why) PROVE WsInv'
  BY <1>4, ConnectFailsKeeps
<1>5. ASSUME NEW c \in Conns,
             Ws!Connect(c) \/ Ws!Disconnect(c) \/ Ws!LateEvent(c) \/ Ws!Ready(c)
               \/ Ws!ReconnectError(c)
      PROVE  WsInv'
  BY <1>5, ConnectKeeps, DisconnectKeeps, EventsKeep
<1>6. ASSUME NEW s \in Sends, Ws!Answered(s) \/ Ws!SendFails(s) PROVE WsInv'
  BY <1>6, SendsKeep
<1>7. ASSUME NEW k \in Collects,
             Ws!Ack(k) \/ Ws!Refused(k) \/ Ws!WindowEnds(k) \/ Ws!CollectFails(k)
               \/ Ws!Unsubscribed(k)
      PROVE  WsInv'
  BY <1>7, AckKeeps, RefusedKeeps, WindowEndsKeeps, CollectFailsKeeps, UnsubscribedKeeps
<1>8. ASSUME NEW k \in Collects, NEW finish \in BOOLEAN, Ws!Event(k, finish) PROVE WsInv'
  BY <1>8, EventKeeps
<1> QED
  BY <1>1, <1>2, <1>3, <1>4, <1>5, <1>6, <1>7, <1>8 DEF Ws!Next

\* However many requests ask at once and whichever fail, the client uses the one
\* connection there is, tells the truth about it, closes none that did not fail, and
\* leaves no subscription behind.
THEOREM OneConnection == PartsSpec => []OneTrueConnection
<1>a. Ws!WsAssumption
  BY PartsAssumption
<1>1. WsInv => OneTrueConnection
  BY DEF WsInv, OneLink, OneTrueConnection, Ws!OneTrueConnection, Leavable
<1>2. Ws!Init => WsInv
  BY <1>a, WsInit
<1>3. WsInv /\ [Ws!Next]_(Ws!vars) => WsInv'
  BY <1>a, WsNext
<1> QED
  BY <1>1, <1>2, <1>3, WsRuns, PTL DEF Ws!Spec
-----------------------------------------------------------------------------
(* The limiter of pairing starts *)

LEMMA RateRuns == PartsSpec => Rate!Spec
<1>1. PartsInit => Rate!Init
  BY DEF PartsInit
<1>2. [PartsNext]_<<part, vars, legacy, ws, rate>> => [Rate!Next]_(Rate!vars)
  <2>1. UNCHANGED rate => UNCHANGED Rate!vars
    BY DEF rate, Rate!vars
  <2> QED
    BY <2>1 DEF PartsNext
<1> QED
  BY <1>1, <1>2, PTL DEF PartsSpec, Rate!Spec

\* Cardinality as PairingRateLimit has it is that of the theorems.
LEMMA SameNumbers == \A S : Rate!Cardinality(S) = Cardinality(S)
BY DEF Rate!Cardinality, Cardinality

\* The entries of s from a to b, of which AllowedIn is the case s = allowed.
Hits(s, a, b) == {n \in DOMAIN s : s[n] \in a..b}

LEMMA HitsFinite ==
  ASSUME NEW s \in Seq(Int), NEW a, NEW b
  PROVE  IsFiniteSet(Hits(s, a, b)) /\ Cardinality(Hits(s, a, b)) \in Nat
<1>1. Hits(s, a, b) \in SUBSET (1..Len(s)) /\ Len(s) \in Nat
  BY DEF Hits
<1>2. IsFiniteSet(1..Len(s))
  BY <1>1, FS_Interval
<1>3. IsFiniteSet(Hits(s, a, b))
  BY <1>1, <1>2, FS_Subset
<1> QED
  BY <1>3, FS_CardinalityType

LEMMA HitsOfAppend ==
  ASSUME NEW s \in Seq(Int), NEW t \in Int, NEW a \in Int, NEW b \in Int
  PROVE  /\ t \in a..b =>
              Cardinality(Hits(Append(s, t), a, b)) = Cardinality(Hits(s, a, b)) + 1
         /\ t \notin a..b => Hits(Append(s, t), a, b) = Hits(s, a, b)
<1>1. /\ DOMAIN Append(s, t) = DOMAIN s \cup {Len(s) + 1}
      /\ \A n \in DOMAIN s : Append(s, t)[n] = s[n]
      /\ Append(s, t)[Len(s) + 1] = t
      /\ Len(s) + 1 \notin DOMAIN s
  OBVIOUS
<1>2. CASE t \notin a..b
  BY <1>1, <1>2 DEF Hits
<1>3. CASE t \in a..b
  <2>1. Hits(Append(s, t), a, b) = Hits(s, a, b) \cup {Len(s) + 1}
    BY <1>1, <1>3 DEF Hits
  <2>2. Len(s) + 1 \notin Hits(s, a, b)
    BY <1>1 DEF Hits
  <2>3. IsFiniteSet(Hits(s, a, b))
    BY HitsFinite
  <2>4. Cardinality(Hits(s, a, b) \cup {Len(s) + 1}) = Cardinality(Hits(s, a, b)) + 1
    BY <2>2, <2>3, FS_AddElement
  <2> QED
    BY <1>3, <2>1, <2>4
<1> QED
  BY <1>2, <1>3

\* What two intervals hold together, any part of both holds at most.
LEMMA HitsOfBoth ==
  ASSUME NEW s \in Seq(Int), NEW a, NEW b, NEW c, NEW d, NEW e, NEW f,
         NEW m \in Nat, NEW n \in Nat,
         Hits(s, e, f) \subseteq Hits(s, a, b) \cup Hits(s, c, d),
         Cardinality(Hits(s, a, b)) <= m, Cardinality(Hits(s, c, d)) <= n
  PROVE  Cardinality(Hits(s, e, f)) <= m + n
<1> DEFINE early == Hits(s, a, b)
           late  == Hits(s, c, d)
           span  == Hits(s, e, f)
<1>1. /\ IsFiniteSet(early) /\ IsFiniteSet(late) /\ Cardinality(span) \in Nat
      /\ Cardinality(early) \in Nat /\ Cardinality(late) \in Nat
  BY HitsFinite
<1>2. Cardinality(early) <= m /\ Cardinality(late) <= n /\ span \in SUBSET (early \cup late)
  OBVIOUS
<1> HIDE DEF early, late, span
<1>3. /\ IsFiniteSet(early \cup late)
      /\ Cardinality(early \cup late) =
           Cardinality(early) + Cardinality(late) - Cardinality(early \cap late)
  BY <1>1, FS_Union
<1>4. IsFiniteSet(early \cap late)
  BY <1>1, FS_Intersection
<1>5. Cardinality(early \cap late) \in Nat /\ Cardinality(early \cup late) \in Nat
  BY <1>3, <1>4, FS_CardinalityType
<1>6. Cardinality(span) <= Cardinality(early \cup late)
  BY <1>2, <1>3, FS_Subset
<1>7. Cardinality(span) <= m + n
  BY <1>1, <1>2, <1>3, <1>5, <1>6
<1> QED
  BY <1>7 DEF span

\* The open window w counts what it allowed, what came before it has passed, and
\* within a window's length before it, only one other window allowed anything.
Opened(w) ==
  /\ w.count <= GlobalLimit /\ w.started <= instant
  /\ \A n \in DOMAIN allowed :
       allowed[n] <= instant /\ allowed[n] < w.started + GlobalWindow
  /\ w.count = Cardinality(Hits(allowed, w.started, instant))
  /\ Cardinality(Hits(allowed, w.started - GlobalWindow + 1, w.started - 1)) <= GlobalLimit

SpansFit ==
  \A t \in Rate!Times : Cardinality(Hits(allowed, t, t + GlobalWindow - 1)) <= 2 * GlobalLimit

\* A peer that was told when to come back, and is remembered, has the window it was
\* told of.
ToldFits ==
  \A p \in RatePeers : told[p] >= 0 /\ p \in DOMAIN peers => told[p] = peers[p].started + PeerWindow

RateInv ==
  /\ Rate!RateTypeOK /\ IsFiniteSet(DOMAIN peers)
  /\ Opened(global) /\ SpansFit /\ ToldFits

\* The types as the proofs below use them.
LEMMA RateTypes ==
  ASSUME Rate!RateAssumption, RateInv
  PROVE  /\ GlobalLimit \in Nat \ {0} /\ PeerLimit \in Nat \ {0}
         /\ GlobalWindow \in Nat \ {0} /\ PeerWindow \in Nat \ {0}
         /\ MaxTracked \in Nat \ {0} /\ RateMaxNow \in Nat
         /\ instant \in Nat /\ Rate!Times \subseteq Nat
         /\ told \in [RatePeers -> Int] /\ allowed \in Seq(Int)
         /\ \A n \in DOMAIN allowed : allowed[n] \in Int
         /\ global.started \in Int /\ global.count \in Nat /\ global \in Rate!Window
<1>1. instant \in Rate!Times /\ allowed \in Seq(Rate!Times) /\ global \in Rate!Window
  BY DEF RateInv, Rate!RateTypeOK
<1>2. Rate!Times \subseteq Nat /\ Rate!Times \subseteq Int
  BY DEF Rate!Times, Rate!RateAssumption
<1>3. allowed \in Seq(Int)
  <2>1. allowed \in [1..Len(allowed) -> Rate!Times] /\ Len(allowed) \in Nat
    BY <1>1
  <2>2. allowed \in [1..Len(allowed) -> Int]
    <3>1. \A n \in 1..Len(allowed) : allowed[n] \in Rate!Times
      BY <2>1
    <3>2. \A n \in 1..Len(allowed) : allowed[n] \in Int
      BY <1>2, <3>1
    <3>3. allowed = [n \in 1..Len(allowed) |-> allowed[n]]
      BY <2>1
    <3> QED
      BY <3>2, <3>3
  <2> QED
    BY <2>1, <2>2
<1>4. \A n \in DOMAIN allowed : allowed[n] \in Int
  BY <1>3
<1>5. global.started \in Int /\ global.count \in Nat
  BY <1>1 DEF Rate!Window
<1> QED
  BY <1>1, <1>2, <1>3, <1>4, <1>5 DEF RateInv, Rate!RateTypeOK, Rate!RateAssumption

LEMMA RateHolds == Rate!RateAssumption /\ RateInv => BudgetsHold
<1> SUFFICES ASSUME Rate!RateAssumption, RateInv PROVE BudgetsHold
  OBVIOUS
<1>1. \A a, b : Rate!AllowedIn(a, b) = Hits(allowed, a, b)
  BY DEF Hits, Rate!AllowedIn
<1>2. Rate!OnlyAllowedCount
  BY <1>1, SameNumbers DEF RateInv, Opened, Rate!OnlyAllowedCount
<1>3. Rate!GlobalBudget
  BY <1>1, SameNumbers DEF RateInv, SpansFit, Rate!GlobalBudget
<1>4. ASSUME NEW p \in RatePeers, told[p] >= 0, instant >= told[p]
      PROVE  ~Rate!Full(Rate!PeerWindowOf(p), PeerLimit)
  <2>1. CASE p \in DOMAIN peers
    <3>1. peers[p].started \in Int /\ told[p] = peers[p].started + PeerWindow
      BY <1>4, <2>1 DEF RateInv, ToldFits, Rate!RateTypeOK, Rate!Window
    <3>2. Rate!PeerWindowOf(p) = Rate!Roll(peers[p], PeerWindow)
      BY <2>1 DEF Rate!PeerWindowOf
    <3>3. instant >= peers[p].started + PeerWindow
      BY <1>4, <3>1
    <3>4. Rate!PeerWindowOf(p).count = 0
      BY <3>2, <3>3 DEF Rate!Roll
    <3> QED
      BY <3>4, RateTypes DEF Rate!Full
  <2>2. CASE p \notin DOMAIN peers
    <3>1. Rate!PeerWindowOf(p).count = 0
      BY <2>2, RateTypes DEF Rate!PeerWindowOf, Rate!Roll, Rate!NoWindow
    <3> QED
      BY <3>1, RateTypes DEF Rate!Full
  <2> QED
    BY <2>1, <2>2
<1> QED
  BY <1>2, <1>3, <1>4 DEF BudgetsHold, Rate!BudgetsHold, Rate!RetryAfterIsTrue

LEMMA RateInit == Rate!RateAssumption /\ Rate!Init => RateInv
<1> SUFFICES ASSUME Rate!RateAssumption, Rate!Init PROVE RateInv
  OBVIOUS
<1> USE DEF Rate!RateAssumption, Rate!Init
<1>1. DOMAIN peers = {} /\ IsFiniteSet({}) /\ Cardinality({}) = 0
  BY FS_EmptySet
<1>2. \A a, b : Cardinality(Hits(allowed, a, b)) = 0
  <2>1. \A a, b : Hits(allowed, a, b) = {}
    BY DEF Hits
  <2> QED
    BY <1>1, <2>1
<1>3. Rate!RateTypeOK
  BY <1>1, SameNumbers DEF Rate!RateTypeOK, Rate!Window, Rate!NoWindow, Rate!Times
<1>4. global.count = 0 /\ global.started = -GlobalWindow /\ DOMAIN allowed = {} /\ instant = 0
  BY DEF Rate!NoWindow
<1>5. Opened(global)
  BY <1>2, <1>4 DEF Opened
<1>6. SpansFit
  BY <1>2 DEF SpansFit
<1> QED
  BY <1>1, <1>3, <1>5, <1>6 DEF RateInv, ToldFits

\* Rolling the global window keeps what is said of it.
LEMMA RolledFits ==
  ASSUME Rate!RateAssumption, RateInv
  PROVE  LET all == Rate!Roll(global, GlobalWindow)
         IN  /\ all \in Rate!Window /\ Opened(all)
             /\ instant < all.started + GlobalWindow
<1> DEFINE all == Rate!Roll(global, GlobalWindow)
<1>1. CASE instant < global.started + GlobalWindow
  <2>1. all = [global EXCEPT !.seen = instant]
    BY <1>1, RateTypes DEF Rate!Roll
  <2>2. all \in Rate!Window /\ all.started = global.started /\ all.count = global.count
    <3>1. global \in [started : Int, count : Nat, seen : Int] /\ instant \in Int
      BY RateTypes DEF Rate!Window
    <3> HIDE DEF all
    <3> QED
      BY <2>1, <3>1 DEF Rate!Window
  <2> HIDE DEF all
  <2>3. Opened(all)
    BY <2>2 DEF RateInv, Opened
  <2> QED
    BY <1>1, <2>2, <2>3 DEF all
<1>2. CASE instant >= global.started + GlobalWindow
  <2>1. all = [started |-> instant, count |-> 0, seen |-> instant]
    BY <1>2 DEF Rate!Roll
  <2>2. all \in Rate!Window /\ all.started = instant /\ all.count = 0
    BY <2>1, RateTypes DEF Rate!Window
  <2>3. \A n \in DOMAIN allowed : allowed[n] < instant
    BY <1>2, RateTypes DEF RateInv, Opened
  <2>4. Cardinality(Hits(allowed, instant, instant)) = 0
    <3>1. Hits(allowed, instant, instant) = {}
      BY <2>3, RateTypes DEF Hits
    <3> QED
      BY <3>1, FS_EmptySet
  <2>5. Cardinality(Hits(allowed, instant - GlobalWindow + 1, instant - 1)) <= GlobalLimit
    <3>1. Hits(allowed, instant - GlobalWindow + 1, instant - 1)
            \subseteq Hits(allowed, global.started, instant)
      <4>1. /\ global.started \in Int /\ GlobalWindow \in Nat /\ instant \in Int
            /\ \A n \in DOMAIN allowed : allowed[n] \in Int
        BY RateTypes
      <4>2. ASSUME NEW t \in Int, t \in (instant - GlobalWindow + 1)..(instant - 1)
            PROVE  t \in global.started..instant
        BY <1>2, <4>1, <4>2
      <4> QED
        BY <4>1, <4>2 DEF Hits
    <3>2. /\ Cardinality(Hits(allowed, global.started, instant)) \in Nat
          /\ Cardinality(Hits(allowed, instant - GlobalWindow + 1, instant - 1)) \in Nat
          /\ IsFiniteSet(Hits(allowed, global.started, instant))
      BY RateTypes, HitsFinite
    <3>3. Cardinality(Hits(allowed, instant - GlobalWindow + 1, instant - 1))
            <= Cardinality(Hits(allowed, global.started, instant))
      BY <3>1, <3>2, FS_Subset
    <3>4. Cardinality(Hits(allowed, global.started, instant)) <= GlobalLimit
      BY DEF RateInv, Opened
    <3> QED
      BY <3>2, <3>3, <3>4, RateTypes
  <2> HIDE DEF all
  <2>6. \A n \in DOMAIN allowed : allowed[n] <= instant /\ allowed[n] < instant + GlobalWindow
    BY <2>3, RateTypes
  <2>7. Opened(all)
    BY <2>2, <2>4, <2>5, <2>6, RateTypes DEF Opened
  <2>8. instant < all.started + GlobalWindow
    BY <2>2, RateTypes
  <2> QED
    BY <2>2, <2>7, <2>8 DEF all
<1> QED
  BY <1>1, <1>2, RateTypes

\* Remembering a peer, with another one forgotten where there is no room, stays
\* within the cap.
LEMMA TrackFits ==
  ASSUME Rate!RateAssumption, RateInv,
         NEW p \in RatePeers, NEW window \in Rate!Window, NEW gone \in Rate!Evicted(p),
         Rate!Track(p, window, gone)
  PROVE  /\ DOMAIN peers' \subseteq RatePeers /\ peers' \in [DOMAIN peers' -> Rate!Window]
         /\ IsFiniteSet(DOMAIN peers') /\ Cardinality(DOMAIN peers') <= MaxTracked
         /\ peers'[p] = window
         /\ \A q \in DOMAIN peers' : q # p => q \in DOMAIN peers /\ peers'[q] = peers[q]
<1> DEFINE old == DOMAIN peers
<1>1. /\ DOMAIN peers' = (old \ gone) \cup {p}
      /\ \A x \in DOMAIN peers' : peers'[x] = IF x = p THEN window ELSE peers[x]
      /\ peers' = [x \in DOMAIN peers' |-> peers'[x]]
  BY DEF Rate!Track
<1>2. /\ old \subseteq RatePeers /\ (\A x \in old : peers[x] \in Rate!Window)
      /\ IsFiniteSet(old) /\ Cardinality(old) <= MaxTracked /\ Cardinality(old) \in Nat
  BY SameNumbers, FS_CardinalityType DEF RateInv, Rate!RateTypeOK
<1>3. /\ DOMAIN peers' \subseteq RatePeers /\ peers' \in [DOMAIN peers' -> Rate!Window]
      /\ peers'[p] = window
      /\ \A q \in DOMAIN peers' : q # p => q \in DOMAIN peers /\ peers'[q] = peers[q]
  BY <1>1, <1>2
<1>4. IF p \in old \/ Cardinality(old) < MaxTracked
      THEN gone = {}
      ELSE \E x \in old : gone = {x}
  BY SameNumbers DEF Rate!Evicted
<1> HIDE DEF old
<1>5. IsFiniteSet(DOMAIN peers') /\ Cardinality(DOMAIN peers') <= MaxTracked
  <2>1. CASE p \in old
    <3>1. DOMAIN peers' = old
      BY <1>1, <1>4, <2>1
    <3> QED
      BY <1>2, <3>1
  <2>2. CASE p \notin old /\ Cardinality(old) < MaxTracked
    <3>1. DOMAIN peers' = old \cup {p}
      BY <1>1, <1>4, <2>2
    <3>2. IsFiniteSet(old \cup {p}) /\ Cardinality(old \cup {p}) = Cardinality(old) + 1
      BY <1>2, <2>2, FS_AddElement
    <3>3. Cardinality(old) + 1 <= MaxTracked
      BY <1>2, <2>2, RateTypes
    <3> QED
      BY <3>1, <3>2, <3>3
  <2>3. CASE p \notin old /\ ~(Cardinality(old) < MaxTracked)
    <3>1. PICK x \in old : gone = {x}
      BY <1>4, <2>3
    <3> DEFINE rest == old \ {x}
    <3>2. IsFiniteSet(rest) /\ Cardinality(rest) = Cardinality(old) - 1
      BY <1>2, <3>1, FS_RemoveElement
    <3>3. DOMAIN peers' = rest \cup {p} /\ p \notin rest
      BY <1>1, <2>3, <3>1
    <3> HIDE DEF rest
    <3>4. IsFiniteSet(rest \cup {p}) /\ Cardinality(rest \cup {p}) = Cardinality(rest) + 1
      BY <3>2, <3>3, FS_AddElement
    <3>5. Cardinality(rest) + 1 = Cardinality(old)
      BY <1>2, <3>2
    <3> QED
      BY <1>2, <3>3, <3>4, <3>5
  <2> QED
    BY <2>1, <2>2, <2>3
<1> QED
  BY <1>3, <1>5

\* An allowed attempt is counted by its window, and by every span it falls in.
LEMMA OneMoreFits ==
  ASSUME Rate!RateAssumption, RateInv, NEW all \in Rate!Window, Opened(all),
         instant < all.started + GlobalWindow, all.count < GlobalLimit,
         UNCHANGED instant, allowed' = Append(allowed, instant),
         global' \in Rate!Window, global'.started = all.started, global'.count = all.count + 1
  PROVE  Opened(global)' /\ SpansFit'
<1>1. all.started \in Int /\ all.count \in Nat
  BY DEF Rate!Window
<1>2. /\ instant \in Int /\ GlobalWindow \in Nat \ {0} /\ GlobalLimit \in Nat
      /\ allowed \in Seq(Int) /\ Rate!Times \subseteq Nat
      /\ \A n \in DOMAIN allowed : allowed[n] \in Int
  BY RateTypes
<1>3. /\ all.started <= instant
      /\ \A n \in DOMAIN allowed :
           allowed[n] <= instant /\ allowed[n] < all.started + GlobalWindow
      /\ all.count = Cardinality(Hits(allowed, all.started, instant))
      /\ Cardinality(Hits(allowed, all.started - GlobalWindow + 1, all.started - 1)) <= GlobalLimit
  BY DEF Opened
<1>4. ASSUME NEW n \in DOMAIN allowed'
      PROVE  allowed'[n] <= instant /\ allowed'[n] < all.started + GlobalWindow
  <2>1. (n \in DOMAIN allowed /\ allowed'[n] = allowed[n]) \/ allowed'[n] = instant
    BY <1>2
  <2> QED
    BY <1>2, <1>3, <2>1
<1>5. Cardinality(Hits(allowed', all.started, instant)) = all.count + 1
  <2>1. instant \in all.started..instant
    BY <1>1, <1>2, <1>3
  <2>2. Cardinality(Hits(allowed', all.started, instant)) =
          Cardinality(Hits(allowed, all.started, instant)) + 1
    BY <1>1, <1>2, <2>1, HitsOfAppend
  <2> QED
    BY <1>3, <2>2
<1>6. Cardinality(Hits(allowed', all.started - GlobalWindow + 1, all.started - 1)) <= GlobalLimit
  <2>1. /\ instant \notin (all.started - GlobalWindow + 1)..(all.started - 1)
        /\ all.started - GlobalWindow + 1 \in Int /\ all.started - 1 \in Int
    BY <1>1, <1>2, <1>3
  <2>2. Hits(allowed', all.started - GlobalWindow + 1, all.started - 1) =
          Hits(allowed, all.started - GlobalWindow + 1, all.started - 1)
    BY <1>2, <2>1, HitsOfAppend
  <2> QED
    BY <1>3, <2>2
<1>7. Opened(global)'
  BY <1>1, <1>2, <1>3, <1>4, <1>5, <1>6 DEF Opened
<1>8. ASSUME NEW t \in Rate!Times
      PROVE  Cardinality(Hits(allowed', t, t + GlobalWindow - 1)) <= 2 * GlobalLimit
  <2>1. t \in Int /\ t + GlobalWindow - 1 \in Int
    BY <1>2
  <2>2. CASE instant \notin t..(t + GlobalWindow - 1)
    <3>1. Hits(allowed', t, t + GlobalWindow - 1) = Hits(allowed, t, t + GlobalWindow - 1)
      BY <1>2, <2>1, <2>2, HitsOfAppend
    <3> QED
      BY <3>1 DEF RateInv, SpansFit
  <2>3. CASE instant \in t..(t + GlobalWindow - 1)
    <3>1. t >= all.started - GlobalWindow + 1
      BY <1>1, <1>2, <1>3, <2>1, <2>3
    <3>2. Hits(allowed, t, t + GlobalWindow - 1)
            \subseteq Hits(allowed, all.started - GlobalWindow + 1, all.started - 1)
                        \cup Hits(allowed, all.started, instant)
      <4>1. ASSUME NEW n \in DOMAIN allowed, allowed[n] \in t..(t + GlobalWindow - 1)
            PROVE  \/ allowed[n] \in (all.started - GlobalWindow + 1)..(all.started - 1)
                   \/ allowed[n] \in all.started..instant
        <5>1. allowed[n] \in Int /\ allowed[n] >= t /\ allowed[n] <= instant
          BY <1>2, <1>3, <2>1, <4>1
        <5>2. CASE allowed[n] < all.started
          <6>1. allowed[n] >= all.started - GlobalWindow + 1 /\ allowed[n] <= all.started - 1
            BY <1>1, <1>2, <2>1, <3>1, <5>1, <5>2
          <6> QED
            BY <1>1, <1>2, <5>1, <6>1
        <5>3. CASE allowed[n] >= all.started
          BY <1>1, <1>2, <5>1, <5>3
        <5> QED
          BY <1>1, <5>1, <5>2, <5>3
      <4> QED
        BY <4>1 DEF Hits
    <3>3. Cardinality(Hits(allowed, t, t + GlobalWindow - 1)) <= GlobalLimit + all.count
      <4>1. Cardinality(Hits(allowed, all.started, instant)) <= all.count
        BY <1>1, <1>3
      <4> QED
        BY <1>1, <1>2, <1>3, <3>2, <4>1, HitsOfBoth
    <3>4. Cardinality(Hits(allowed', t, t + GlobalWindow - 1)) =
            Cardinality(Hits(allowed, t, t + GlobalWindow - 1)) + 1
      BY <1>2, <2>1, <2>3, HitsOfAppend
    <3>5. Cardinality(Hits(allowed, t, t + GlobalWindow - 1)) \in Nat
      BY <1>2, HitsFinite
    <3> QED
      BY <1>1, <1>2, <3>3, <3>4, <3>5
  <2> QED
    BY <2>2, <2>3
<1>9. SpansFit'
  BY <1>8 DEF SpansFit, Rate!Times
<1> QED
  BY <1>7, <1>9

LEMMA AttemptKeeps ==
  ASSUME Rate!RateAssumption, RateInv, NEW p \in RatePeers, Rate!Attempt(p)
  PROVE  RateInv'
<1> DEFINE mine == Rate!PeerWindowOf(p)
           all  == Rate!Roll(global, GlobalWindow)
<1>1. PICK gone \in Rate!Evicted(p) :
        /\ Rate!Allow(p, mine, all, gone) \/ Rate!Block(p, mine, all, gone)
        /\ UNCHANGED instant
  BY DEF Rate!Attempt
<1>2. mine \in Rate!Window
  <2> DEFINE open == IF p \in DOMAIN peers THEN peers[p] ELSE Rate!NoWindow(PeerWindow)
  <2>1. open \in Rate!Window
    <3>1. p \in DOMAIN peers => peers[p] \in Rate!Window
      BY DEF RateInv, Rate!RateTypeOK
    <3>2. Rate!NoWindow(PeerWindow) \in Rate!Window
      BY RateTypes DEF Rate!NoWindow, Rate!Window
    <3> QED
      BY <3>1, <3>2
  <2>2. mine = Rate!Roll(open, PeerWindow)
    BY DEF Rate!PeerWindowOf
  <2> HIDE DEF open, mine
  <2>3. mine = [started |-> instant, count |-> 0, seen |-> instant]
          \/ mine = [open EXCEPT !.seen = instant]
    BY <2>2 DEF Rate!Roll
  <2>4. open \in [started : Int, count : Nat, seen : Int] /\ instant \in Int
    BY <2>1, RateTypes DEF Rate!Window
  <2>5. mine \in [started : Int, count : Nat, seen : Int]
    BY <2>3, <2>4
  <2> QED
    BY <2>5 DEF Rate!Window
<1>3. all \in Rate!Window /\ Opened(all) /\ instant < all.started + GlobalWindow
  BY RolledFits
<1> HIDE DEF mine, all
<1>4. /\ instant \in Rate!Times /\ told \in [RatePeers -> Int] /\ allowed \in Seq(Rate!Times)
      /\ mine.started \in Int /\ all.count \in Nat /\ all.started \in Int
  BY <1>2, <1>3 DEF RateInv, Rate!RateTypeOK, Rate!Window
<1>5. CASE Rate!Allow(p, mine, all, gone)
  <2>1. /\ all.count < GlobalLimit
        /\ Rate!Track(p, Rate!Counted(mine), gone)
        /\ global' = Rate!Counted(all)
        /\ allowed' = Append(allowed, instant)
        /\ told' = [told EXCEPT ![p] = -1]
    BY <1>4, <1>5, RateTypes DEF Rate!Allow, Rate!Full
  <2>2. Rate!Counted(mine) \in Rate!Window
    BY <1>2 DEF Rate!Counted, Rate!Window
  <2>3. /\ global' \in Rate!Window
        /\ global'.started = all.started /\ global'.count = all.count + 1
    BY <1>3, <2>1 DEF Rate!Counted, Rate!Window
  <2>4. /\ DOMAIN peers' \subseteq RatePeers /\ peers' \in [DOMAIN peers' -> Rate!Window]
        /\ IsFiniteSet(DOMAIN peers') /\ Cardinality(DOMAIN peers') <= MaxTracked
        /\ \A q \in DOMAIN peers' : q # p => q \in DOMAIN peers /\ peers'[q] = peers[q]
    BY <2>1, <2>2, TrackFits
  <2>5. allowed' \in Seq(Rate!Times) /\ told' \in [RatePeers -> Int]
    BY <1>4, <2>1
  <2>6. Rate!RateTypeOK'
    BY <1>1, <1>4, <2>3, <2>4, <2>5, SameNumbers DEF Rate!RateTypeOK, Rate!Times, Rate!Window
  <2>7. Opened(global)' /\ SpansFit'
    BY <1>1, <1>3, <2>1, <2>3, OneMoreFits
  <2>8. ToldFits'
    BY <1>4, <2>1, <2>4 DEF ToldFits, RateInv
  <2> QED
    BY <2>4, <2>6, <2>7, <2>8 DEF RateInv
<1>6. CASE Rate!Block(p, mine, all, gone)
  <2>1. /\ Rate!Track(p, mine, gone) /\ global' = all /\ UNCHANGED allowed
        /\ told' = [told EXCEPT ![p] = IF Rate!Full(mine, PeerLimit)
                                         THEN mine.started + PeerWindow ELSE -1]
    BY <1>6 DEF Rate!Block
  <2>2. /\ DOMAIN peers' \subseteq RatePeers /\ peers' \in [DOMAIN peers' -> Rate!Window]
        /\ IsFiniteSet(DOMAIN peers') /\ Cardinality(DOMAIN peers') <= MaxTracked
        /\ peers'[p] = mine
        /\ \A q \in DOMAIN peers' : q # p => q \in DOMAIN peers /\ peers'[q] = peers[q]
    BY <1>2, <2>1, TrackFits
  <2>3. told' \in [RatePeers -> Int]
    BY <1>4, <2>1, RateTypes
  <2>4. Rate!RateTypeOK'
    BY <1>1, <1>3, <1>4, <2>1, <2>2, <2>3, SameNumbers
       DEF Rate!RateTypeOK, Rate!Times, Rate!Window
  <2>5. Opened(global)'
    BY <1>1, <1>3, <2>1 DEF Opened
  <2>6. SpansFit'
    BY <2>1 DEF SpansFit, RateInv, Rate!Times
  <2>7. ToldFits'
    BY <1>4, <2>1, <2>2, RateTypes DEF ToldFits, RateInv
  <2> QED
    BY <2>2, <2>4, <2>5, <2>6, <2>7 DEF RateInv
<1> QED
  BY <1>1, <1>5, <1>6

LEMMA RateNext == Rate!RateAssumption /\ RateInv /\ [Rate!Next]_(Rate!vars) => RateInv'
<1> SUFFICES ASSUME Rate!RateAssumption, RateInv, Rate!Next \/ UNCHANGED Rate!vars
             PROVE  RateInv'
  BY DEF Rate!vars
<1>1. CASE Rate!Tick
  <2>1. /\ instant < RateMaxNow /\ instant' = instant + 1
        /\ UNCHANGED <<peers, global, allowed, told>>
    BY <1>1 DEF Rate!Tick
  <2>2. instant' \in Rate!Times
    BY <2>1, RateTypes DEF Rate!Times
  <2>3. Rate!RateTypeOK'
    BY <2>1, <2>2 DEF RateInv, Rate!RateTypeOK, Rate!Times, Rate!Window
  <2>4. Opened(global)'
    <3>1. \A n \in DOMAIN allowed : allowed[n] <= instant
      BY DEF RateInv, Opened
    <3>2. Hits(allowed, global.started, instant + 1) = Hits(allowed, global.started, instant)
      BY <3>1, RateTypes DEF Hits
    <3>3. \A n \in DOMAIN allowed : allowed[n] <= instant + 1
      BY <3>1, RateTypes
    <3>4. global.started <= instant + 1
      BY RateTypes DEF RateInv, Opened
    <3> QED
      BY <2>1, <3>2, <3>3, <3>4 DEF Opened, RateInv
  <2>5. SpansFit' /\ ToldFits' /\ IsFiniteSet(DOMAIN peers')
    BY <2>1 DEF RateInv, SpansFit, ToldFits, Rate!Times
  <2> QED
    BY <2>3, <2>4, <2>5 DEF RateInv
<1>2. ASSUME NEW p \in RatePeers, Rate!Attempt(p) PROVE RateInv'
  BY <1>2, AttemptKeeps
<1>3. CASE UNCHANGED Rate!vars
  <2>1. UNCHANGED <<instant, peers, global, allowed, told>>
    BY <1>3 DEF Rate!vars
  <2>2. Rate!RateTypeOK'
    BY <2>1 DEF RateInv, Rate!RateTypeOK, Rate!Times, Rate!Window
  <2> QED
    BY <2>1, <2>2 DEF RateInv, Opened, SpansFit, ToldFits, Rate!Times
<1> QED
  BY <1>1, <1>2, <1>3 DEF Rate!Next

\* For any number of peers and any budgets and windows: the global budget is spent by
\* allowed attempts alone, any span of a window's length has two budgets of them at
\* most, and a peer that waits as long as it was told to has its own budget again.
THEOREM StartsStayInBudget == PartsSpec => []BudgetsHold
<1>a. Rate!RateAssumption
  BY PartsAssumption
<1>1. Rate!Init => RateInv
  BY <1>a, RateInit
<1>2. RateInv /\ [Rate!Next]_(Rate!vars) => RateInv'
  BY <1>a, RateNext
<1>3. RateInv => BudgetsHold
  BY <1>a, RateHolds
<1> QED
  BY <1>1, <1>2, <1>3, RateRuns, PTL DEF Rate!Spec
=============================================================================
