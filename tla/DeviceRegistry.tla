--------------------------- MODULE DeviceRegistry ---------------------------
(***************************************************************************)
(* The Relay's device registry: device records, the encrypted pairing      *)
(* replies kept for a lost answer, and the tombstones of Cloud devices     *)
(* that removed themselves.  Node runs every mutation to its end, and each *)
(* one is a single atomic, durable file write, so a mutation is one action *)
(* and a restart reloads exactly the state of the last one.  A write that  *)
(* fails leaves memory and file alone: it is a stutter here.               *)
(* The last-used stamps and the descriptive fields of a record are left    *)
(* out.  The legacy fields are module LegacyMigration's.                   *)
(***************************************************************************)
EXTENDS Naturals, FiniteSets

CONSTANTS DeviceIds,        \* the random device ids, one per credential
          Installs,         \* client install ids
          BridgeInstall,    \* the install id reserved for the chat-app bridge
          NoInstall,
          Bindings,         \* Cloud identities: a user and a Relay instance
          NoBinding,
          Keys,             \* pairing reply keys: handshake id and context
          MaxActive, MaxPending, MaxResponses, MaxRevocations,
          PendingTTL, RevocationTTL,
          MaxNow            \* bound of the clock

ASSUME RegistryAssumption ==
  /\ BridgeInstall \in Installs
  /\ NoInstall \notin Installs
  /\ NoBinding \notin Bindings
  /\ MaxActive \in Nat /\ MaxPending \in Nat /\ MaxResponses \in Nat
  /\ MaxRevocations \in Nat \ {0}
  /\ PendingTTL \in Nat \ {0} /\ RevocationTTL \in Nat \ {0}
  /\ MaxNow \in Nat

VARIABLES now,
          devices,      \* the registered ids, each with its record
          responses,    \* the pairing replies that can be replayed
          revocations,  \* tombstones of Cloud self-revocations
          issuedTo,     \* history: the install each id ever minted was minted for
          withdrawn     \* history: the <<id, binding>> that revoked themselves

vars == <<now, devices, responses, revocations, issuedTo, withdrawn>>

Device == [state : {"pending", "active"}, install : Installs,
           bound : Bindings \cup {NoBinding}, expires : Nat]

Response == [key : Keys, device : DeviceIds, expires : Nat]

Revocation == [device : DeviceIds, bound : Bindings, expires : Nat]

RegistryTypeOK ==
  /\ now \in Nat
  /\ DOMAIN devices \subseteq DeviceIds
  /\ devices \in [DOMAIN devices -> Device]
  /\ responses \in SUBSET Response
  /\ revocations \in SUBSET Revocation
  /\ issuedTo \in [DeviceIds -> Installs \cup {NoInstall}]
  /\ withdrawn \in SUBSET (DeviceIds \X Bindings)

Init ==
  /\ now = 0
  /\ devices = [d \in {} |-> NoInstall]
  /\ responses = {} /\ revocations = {}
  /\ issuedTo = [d \in DeviceIds |-> NoInstall]
  /\ withdrawn = {}

-----------------------------------------------------------------------------
(* Reading the registry *)

Registered == DOMAIN devices

IsPending(d) == devices[d].state = "pending"
IsActive(d)  == devices[d].state = "active"

\* pendingExpired
PendingExpired(d) == IsPending(d) /\ now >= devices[d].expires

Unexpired == {d \in Registered : ~PendingExpired(d)}

PendingIn(S) == {d \in S : IsPending(d)}
ActiveIn(S)  == {d \in S : IsActive(d)}

OfInstall(i) == {d \in Registered : devices[d].install = i}

\* The reply a retried finish is answered with.
LiveResponses(k) == {r \in responses : r.key = k /\ r.expires > now}

-----------------------------------------------------------------------------
(* withPending: a provisional record, if the caps leave room *)

HasRoom(i) ==
  /\ Cardinality(PendingIn(Unexpired)) < MaxPending
  /\ \/ ActiveIn(Unexpired) \cap OfInstall(i) # {}
     \/ Cardinality(ActiveIn(Unexpired)) < MaxActive

WithPending(d, i, b) ==
  [x \in Unexpired \cup {d} |->
     IF x = d THEN [state |-> "pending", install |-> i, bound |-> b,
                    expires |-> now + PendingTTL]
     ELSE devices[x]]

\* trimPairingResponses: over the limit, the oldest reply that belongs to no
\* pending device goes.  A write adds one reply, so at most one is over.
EvictableAny(kept, pending) == kept

Evictable(kept, pending) == {r \in kept : r.device \notin pending}

Oldest(S) == {r \in S : \A other \in S : r.expires <= other.expires}

Trimmed(kept, pending) ==
  IF Cardinality(kept) <= MaxResponses THEN {kept}
  ELSE {kept \ {r} : r \in Oldest(Evictable(kept, pending))}

\* createPendingWithResponse: credential and reply share one write.
CreatePendingWithResponse(d, i, b, k) ==
  /\ issuedTo[d] = NoInstall
  /\ HasRoom(i)
  /\ devices' = WithPending(d, i, b)
  /\ responses' \in Trimmed({r \in responses : r.expires > now /\ r.key # k}
                              \cup {[key |-> k, device |-> d, expires |-> now + PendingTTL]},
                            PendingIn(Unexpired) \cup {d})
  /\ issuedTo' = [issuedTo EXCEPT ![d] = i]
  /\ UNCHANGED <<now, revocations, withdrawn>>

-----------------------------------------------------------------------------
(* withActivated: the promoted record replaces everything of its install *)

SupersededPendingOnly(d) == PendingIn(OfInstall(devices[d].install))

Superseded(d) == OfInstall(devices[d].install)

RoomToActivateUnchecked(d) == TRUE

\* Counted after the replaced record is gone: re-pairing at the cap is allowed.
RoomToActivate(d) == Cardinality(ActiveIn(Unexpired \ Superseded(d))) < MaxActive

CanActivate(d) == d \in Unexpired /\ IsPending(d) /\ RoomToActivate(d)

WithActivated(d) ==
  [x \in (Unexpired \ Superseded(d)) \cup {d} |->
     IF x = d THEN [devices[d] EXCEPT !.state = "active", !.expires = 0] ELSE devices[x]]

\* activatePending, from POST /auth/device/activate: the local route never
\* activates a credential minted for a Cloud user.  Repeating it for an active
\* record changes nothing.
ActivatePending(d) ==
  /\ CanActivate(d)
  /\ devices[d].bound = NoBinding
  /\ devices' = WithActivated(d)
  /\ UNCHANGED <<now, responses, revocations, issuedTo, withdrawn>>

\* activatePendingForCloud: only for the identity the credential was minted for.
ActivatePendingForCloud(d, b) ==
  /\ CanActivate(d)
  /\ devices[d].bound = b
  /\ devices' = WithActivated(d)
  /\ UNCHANGED <<now, responses, revocations, issuedTo, withdrawn>>

\* bindCloudUser: adds Cloud access to an active device; a binding never moves.
BindingFreeOrOther(d, b) == devices[d].bound # b

BindingFree(d, b) == devices[d].bound = NoBinding

BindCloudUser(d, b) ==
  /\ d \in Registered /\ IsActive(d)
  /\ BindingFree(d, b)
  /\ devices' = [devices EXCEPT ![d].bound = b]
  /\ UNCHANGED <<now, responses, revocations, issuedTo, withdrawn>>

-----------------------------------------------------------------------------
(* Revocation *)

\* The record itself and every pending re-pairing of its install.
RevokedAlone(d) == {d}

RevokedWith(d) == {d} \cup PendingIn(OfInstall(devices[d].install))

Without(S) == [x \in Registered \ S |-> devices[x]]

Revoke(d) ==
  /\ d \in Registered
  /\ devices' = Without(RevokedWith(d))
  /\ UNCHANGED <<now, responses, revocations, issuedTo, withdrawn>>

LiveRevocations == {v \in revocations : v.expires > now}

\* The tombstone that was written last survives the cap (slice(-MAX)).
Capped(kept, v) ==
  IF Cardinality(kept \cup {v}) <= MaxRevocations THEN {kept \cup {v}}
  ELSE {(kept \ {old}) \cup {v} : old \in Oldest(kept)}

RevokeCloudDevice(d, b) ==
  /\ d \in Registered /\ devices[d].bound = b
  /\ devices' = Without(RevokedWith(d))
  /\ LET tombstone == [device |-> d, bound |-> b, expires |-> now + RevocationTTL]
     IN  revocations' \in Capped({v \in LiveRevocations : v.device # d \/ v.bound # b}, tombstone)
  /\ withdrawn' = withdrawn \cup {<<d, b>>}
  /\ UNCHANGED <<now, responses, issuedTo>>

\* What withCloudDeviceRevoked answers to a caller who holds d's secret and
\* comes as identity b while no record matches: the answer to a retry.
ExactReplayNever(d, b) == FALSE

ExactReplay(d, b) == \E v \in LiveRevocations : v.device = d /\ v.bound = b

RetryAnswer(d, b) ==
  IF /\ d \notin Registered
     /\ \/ \A v \in LiveRevocations : v.device # d
        \/ ExactReplay(d, b)
  THEN "ok" ELSE "unknown"

-----------------------------------------------------------------------------
(* ensureCredential of the chat apps: createPending, then activate.  The   *)
(* two writes run back to back; a crash or a failed write leaves only the  *)
(* first, and the next start mints another.                                *)

MintBridge(d) ==
  LET pending == WithPending(d, BridgeInstall, NoBinding)
      others  == {x \in Unexpired : devices[x].install # BridgeInstall}
  IN /\ issuedTo[d] = NoInstall
     /\ HasRoom(BridgeInstall)
     /\ \/ devices' = pending
        \/ /\ Cardinality(ActiveIn(others)) < MaxActive
           /\ devices' = [x \in others \cup {d} |->
                IF x = d THEN [pending[d] EXCEPT !.state = "active", !.expires = 0]
                ELSE devices[x]]
     /\ issuedTo' = [issuedTo EXCEPT ![d] = BridgeInstall]
     /\ UNCHANGED <<now, responses, revocations, withdrawn>>

Tick == /\ now < MaxNow
        /\ now' = now + 1
        /\ UNCHANGED <<devices, responses, revocations, issuedTo, withdrawn>>

-----------------------------------------------------------------------------

\* Pairing refuses the bridge's install id and mints a reply only for a key
\* that has none (module Pairing).
Pair(d) == \E i \in Installs \ {BridgeInstall}, b \in Bindings \cup {NoBinding}, k \in Keys :
             LiveResponses(k) = {} /\ CreatePendingWithResponse(d, i, b, k)

Next == \/ \E d \in DeviceIds :
             \/ Pair(d)
             \/ ActivatePending(d)
             \/ Revoke(d)
             \/ MintBridge(d)
             \/ \E b \in Bindings : \/ ActivatePendingForCloud(d, b)
                                    \/ BindCloudUser(d, b)
                                    \/ RevokeCloudDevice(d, b)
        \/ Tick

Spec == Init /\ [][Next]_vars

-----------------------------------------------------------------------------
(* Properties *)

\* One install never has two active records: activation retires the one it
\* replaces (withActivated), whatever re-pairings overlapped.
OneActivePerInstall ==
  \A d, x \in Registered :
    (IsActive(d) /\ IsActive(x) /\ devices[d].install = devices[x].install) => d = x

\* The caps hold in every state, though they are checked before the records
\* they count are dropped or replaced (withPending, withActivated).
WithinCaps ==
  /\ Cardinality(ActiveIn(Registered)) <= MaxActive
  /\ Cardinality(PendingIn(Registered)) <= MaxPending
  /\ Cardinality(responses) <= MaxResponses
  /\ Cardinality(revocations) <= MaxRevocations

\* A client whose finish reply was lost can fetch it again for as long as its
\* provisional credential can be activated: trimming never takes it first.
\* The bridge's own record has no reply: it never crossed a network.
PendingHasReply ==
  \A d \in PendingIn(Unexpired) :
    devices[d].install # BridgeInstall =>
      \E r \in responses : r.device = d /\ r.expires > now

\* What makes room for new records never takes what a client still needs.
CapsKeepReplies == WithinCaps /\ PendingHasReply

\* A Cloud device that revoked itself and never saw the answer is told "ok"
\* by every retry, after the tombstone was capped or timed out, too.
RevokeRetrySucceeds == \A w \in withdrawn : RetryAnswer(w[1], w[2]) = "ok"

\* The Cloud identity of a registered device never moves to another one, also
\* not across its activation (bindCloudUser, activatePendingForCloud).
BindingNeverMoves ==
  [][\A d \in Registered \cap Registered' :
       devices[d].bound # NoBinding => devices'[d].bound = devices[d].bound]_vars

\* The registry implements the life of a credential.
Life == [d \in DeviceIds |->
           IF d \in Registered
           THEN IF IsActive(d) THEN "usable" ELSE "provisional"
           ELSE IF issuedTo[d] = NoInstall THEN "unissued" ELSE "gone"]

Access == INSTANCE AccessLifecycle
            WITH Credentials <- DeviceIds, life <- Life, holder <- issuedTo

ImplementsAccessLifecycle == Access!Spec
=============================================================================
