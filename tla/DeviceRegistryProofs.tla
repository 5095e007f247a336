------------------------ MODULE DeviceRegistryProofs ------------------------
(***************************************************************************)
(* Proofs about the device registry for every number of credentials,       *)
(* installs and bindings, every cap and every lifetime: its types, one     *)
(* active record per install, bindings that stay, revocations whose        *)
(* retries are answered, and caps that cost no reply a client may need.    *)
(* Last, what AccessLifecycle promises, which the registry keeps.          *)
(*                                                                         *)
(* OneActivePerInstall is not inductive for the abstract life: that one    *)
(* speaks of the install a credential was issued to, and the registry of   *)
(* the install its record names.  IssuedAsRecorded ties the two together.  *)
(*                                                                         *)
(* The caps are counted before the records they count are dropped, and     *)
(* PendingHasReply speaks of time; ReplyKept says the same without time:   *)
(* a provisional record and its reply expire together.                     *)
(***************************************************************************)
EXTENDS DeviceRegistry, FiniteSetTheorems, TLAPS

-----------------------------------------------------------------------------
(* The state functions mutations are built from *)

\* Dropping expired provisional records leaves registered ones, unchanged.
LEMMA UnexpiredRegistered == Unexpired \subseteq Registered
BY DEF Unexpired

\* A new provisional record joins what has not expired (withPending).
LEMMA WithPendingType ==
  ASSUME RegistryTypeOK, RegistryAssumption,
         NEW d \in DeviceIds, NEW i \in Installs, NEW b \in Bindings \cup {NoBinding}
  PROVE  /\ DOMAIN WithPending(d, i, b) = Unexpired \cup {d}
         /\ WithPending(d, i, b) \in [Unexpired \cup {d} -> Device]
         /\ WithPending(d, i, b)[d] = [state |-> "pending", install |-> i, bound |-> b,
                                       expires |-> now + PendingTTL]
         /\ \A x \in Unexpired \ {d} : WithPending(d, i, b)[x] = devices[x]
<1>1. now + PendingTTL \in Nat
  BY DEF RegistryTypeOK, RegistryAssumption
<1>2. \A x \in Unexpired : devices[x] \in Device
  BY UnexpiredRegistered DEF RegistryTypeOK, Registered
<1>3. [state |-> "pending", install |-> i, bound |-> b, expires |-> now + PendingTTL] \in Device
  BY <1>1 DEF Device
<1> QED
  BY <1>2, <1>3 DEF WithPending

\* The promoted record replaces every other one of its install (withActivated).
LEMMA WithActivatedType ==
  ASSUME RegistryTypeOK, NEW d \in Unexpired
  PROVE  /\ DOMAIN WithActivated(d) = (Unexpired \ Superseded(d)) \cup {d}
         /\ WithActivated(d) \in [(Unexpired \ Superseded(d)) \cup {d} -> Device]
         /\ WithActivated(d)[d].state = "active"
         /\ WithActivated(d)[d].install = devices[d].install
         /\ WithActivated(d)[d].bound = devices[d].bound
         /\ \A x \in (Unexpired \ Superseded(d)) \ {d} : WithActivated(d)[x] = devices[x]
<1>1. \A x \in Unexpired : devices[x] \in Device
  BY UnexpiredRegistered DEF RegistryTypeOK, Registered
<1>2. [devices[d] EXCEPT !.state = "active", !.expires = 0] \in Device
  BY <1>1 DEF Device
<1>3. /\ [devices[d] EXCEPT !.state = "active", !.expires = 0].state = "active"
      /\ [devices[d] EXCEPT !.state = "active", !.expires = 0].install = devices[d].install
      /\ [devices[d] EXCEPT !.state = "active", !.expires = 0].bound = devices[d].bound
  BY <1>1 DEF Device
<1> QED
  BY <1>1, <1>2, <1>3 DEF WithActivated

\* Trimming replies and capping tombstones only drops members.
LEMMA TrimmedIsSubset ==
  ASSUME NEW kept, NEW pending, NEW r \in Trimmed(kept, pending)
  PROVE  r \subseteq kept
BY DEF Trimmed

LEMMA CappedIsSubset ==
  ASSUME NEW kept, NEW v, NEW r \in Capped(kept, v)
  PROVE  r \subseteq kept \cup {v}
BY DEF Capped

-----------------------------------------------------------------------------
(* Type correctness *)

LEMMA TypeInit == RegistryAssumption /\ Init => RegistryTypeOK
BY DEF Init, RegistryTypeOK, RegistryAssumption, Device

LEMMA TypeNext == RegistryAssumption /\ RegistryTypeOK /\ [Next]_vars => RegistryTypeOK'
<1> SUFFICES ASSUME RegistryAssumption, RegistryTypeOK, [Next]_vars
             PROVE  RegistryTypeOK'
  OBVIOUS
<1>1. ASSUME NEW d \in DeviceIds, NEW i \in Installs, NEW b \in Bindings \cup {NoBinding},
             NEW k \in Keys, CreatePendingWithResponse(d, i, b, k)
      PROVE  RegistryTypeOK'
  <2>a. devices' = WithPending(d, i, b)
    BY <1>1 DEF CreatePendingWithResponse
  <2>b. /\ DOMAIN WithPending(d, i, b) = Unexpired \cup {d}
        /\ WithPending(d, i, b) \in [Unexpired \cup {d} -> Device]
    BY WithPendingType
  <2>c. Unexpired \cup {d} \subseteq DeviceIds
    BY UnexpiredRegistered DEF RegistryTypeOK, Registered
  <2>1. DOMAIN devices' \subseteq DeviceIds /\ devices' \in [DOMAIN devices' -> Device]
    BY <2>a, <2>b, <2>c
  <2>2. [key |-> k, device |-> d, expires |-> now + PendingTTL] \in Response
    BY DEF Response, RegistryTypeOK, RegistryAssumption
  <2>3. responses' \in SUBSET Response
    BY <1>1, <2>2, TrimmedIsSubset DEF CreatePendingWithResponse, RegistryTypeOK
  <2>4. issuedTo' \in [DeviceIds -> Installs \cup {NoInstall}]
    BY <1>1 DEF CreatePendingWithResponse, RegistryTypeOK
  <2> QED
    BY <1>1, <2>1, <2>3, <2>4 DEF CreatePendingWithResponse, RegistryTypeOK
<1>2. ASSUME NEW d \in DeviceIds, CanActivate(d), devices' = WithActivated(d),
             UNCHANGED <<now, responses, revocations, issuedTo, withdrawn>>
      PROVE  RegistryTypeOK'
  <2>1. /\ DOMAIN WithActivated(d) = (Unexpired \ Superseded(d)) \cup {d}
        /\ WithActivated(d) \in [(Unexpired \ Superseded(d)) \cup {d} -> Device]
    BY <1>2, WithActivatedType DEF CanActivate
  <2>2. (Unexpired \ Superseded(d)) \cup {d} \subseteq DeviceIds
    BY UnexpiredRegistered DEF RegistryTypeOK, Registered
  <2>3. DOMAIN devices' \subseteq DeviceIds /\ devices' \in [DOMAIN devices' -> Device]
    BY <1>2, <2>1, <2>2
  <2> QED
    BY <1>2, <2>3 DEF RegistryTypeOK
<1>3. ASSUME NEW d \in DeviceIds, NEW b \in Bindings, BindCloudUser(d, b)
      PROVE  RegistryTypeOK'
  <2>1. devices[d] \in Device /\ [devices[d] EXCEPT !.bound = b] \in Device
    BY <1>3 DEF BindCloudUser, RegistryTypeOK, Registered, Device
  <2> QED
    BY <1>3, <2>1 DEF BindCloudUser, RegistryTypeOK
<1>4. ASSUME NEW d \in DeviceIds, Revoke(d)
      PROVE  RegistryTypeOK'
  BY <1>4 DEF Revoke, Without, RegistryTypeOK, Registered
<1>5. ASSUME NEW d \in DeviceIds, NEW b \in Bindings, RevokeCloudDevice(d, b)
      PROVE  RegistryTypeOK'
  <2>1. [device |-> d, bound |-> b, expires |-> now + RevocationTTL] \in Revocation
    BY DEF Revocation, RegistryTypeOK, RegistryAssumption
  <2>2. revocations' \in SUBSET Revocation
    BY <1>5, <2>1, CappedIsSubset DEF RevokeCloudDevice, LiveRevocations, RegistryTypeOK
  <2> QED
    BY <1>5, <2>2 DEF RevokeCloudDevice, Without, RegistryTypeOK, Registered
<1>6. ASSUME NEW d \in DeviceIds, MintBridge(d)
      PROVE  RegistryTypeOK'
  <2> DEFINE pending == WithPending(d, BridgeInstall, NoBinding)
             others  == {x \in Unexpired : devices[x].install # BridgeInstall}
  <2>1. pending \in [Unexpired \cup {d} -> Device]
    BY WithPendingType DEF RegistryAssumption
  <2>2. [pending[d] EXCEPT !.state = "active", !.expires = 0] \in Device
    BY <2>1 DEF Device
  <2>3. \A x \in others : devices[x] \in Device
    BY UnexpiredRegistered DEF RegistryTypeOK, Registered
  <2>4. DOMAIN devices' \subseteq DeviceIds /\ devices' \in [DOMAIN devices' -> Device]
    <3>1. CASE devices' = pending
      BY <3>1, <2>1, UnexpiredRegistered DEF RegistryTypeOK, Registered
    <3>2. CASE devices' = [x \in others \cup {d} |->
                 IF x = d THEN [pending[d] EXCEPT !.state = "active", !.expires = 0]
                 ELSE devices[x]]
      BY <3>2, <2>2, <2>3, UnexpiredRegistered DEF RegistryTypeOK, Registered
    <3> QED
      BY <1>6, <3>1, <3>2 DEF MintBridge
  <2>5. issuedTo' \in [DeviceIds -> Installs \cup {NoInstall}]
    BY <1>6 DEF MintBridge, RegistryTypeOK, RegistryAssumption
  <2> QED
    BY <1>6, <2>4, <2>5 DEF MintBridge, RegistryTypeOK
<1>7. CASE Tick
  BY <1>7 DEF Tick, RegistryTypeOK
<1>8. CASE UNCHANGED vars
  BY <1>8 DEF vars, RegistryTypeOK
<1> QED
  BY <1>1, <1>2, <1>3, <1>4, <1>5, <1>6, <1>7, <1>8
     DEF Next, Pair, ActivatePending, ActivatePendingForCloud

\* Every state of the registry has the shape the file schema gives it: whatever
\* mutation ran, a later one finds records, replies and tombstones it can read.
THEOREM RegistryTypeCorrect == Spec => []RegistryTypeOK
<1>1. Init => RegistryTypeOK
  BY RegistryAssumption, TypeInit
<1>2. RegistryTypeOK /\ [Next]_vars => RegistryTypeOK'
  BY RegistryAssumption, TypeNext
<1> QED
  BY <1>1, <1>2, PTL DEF Spec

-----------------------------------------------------------------------------
(* One active record per install *)

\* A record names the install its credential was minted for.
IssuedAsRecorded == \A d \in Registered : issuedTo[d] = devices[d].install

RegistryInv == RegistryTypeOK /\ IssuedAsRecorded /\ OneActivePerInstall

\* A credential that was never minted has no record.
LEMMA UnissuedUnregistered ==
  ASSUME RegistryInv, RegistryAssumption, NEW d \in DeviceIds, issuedTo[d] = NoInstall
  PROVE  d \notin Registered
<1> SUFFICES ASSUME d \in Registered PROVE FALSE
  OBVIOUS
<1>1. devices[d].install \in Installs
  BY DEF RegistryInv, RegistryTypeOK, Registered, Device
<1> QED
  BY <1>1 DEF RegistryInv, IssuedAsRecorded, RegistryAssumption

LEMMA InvInit == RegistryAssumption /\ Init => RegistryInv
<1>1. Init => IssuedAsRecorded /\ OneActivePerInstall
  BY DEF Init, IssuedAsRecorded, OneActivePerInstall, Registered
<1> QED
  BY <1>1, TypeInit DEF RegistryInv

LEMMA InvNext == RegistryAssumption /\ RegistryInv /\ [Next]_vars => RegistryInv'
<1> SUFFICES ASSUME RegistryAssumption, RegistryInv, [Next]_vars
             PROVE  RegistryInv'
  OBVIOUS
<1> USE DEF Registered
<1>t. RegistryTypeOK'
  BY TypeNext DEF RegistryInv
<1>u. \A x \in Unexpired : x \in DOMAIN devices /\ x \in DeviceIds
  BY UnexpiredRegistered DEF RegistryInv, RegistryTypeOK
\* A minted record is pending, so it adds no active one.
<1>1. ASSUME NEW d \in DeviceIds, NEW i \in Installs, NEW b \in Bindings \cup {NoBinding},
             issuedTo[d] = NoInstall, issuedTo' = [issuedTo EXCEPT ![d] = i],
             devices' = WithPending(d, i, b)
      PROVE  IssuedAsRecorded' /\ OneActivePerInstall'
  <2>1. d \notin DOMAIN devices
    BY <1>1, UnissuedUnregistered
  <2>2. /\ DOMAIN devices' = Unexpired \cup {d}
        /\ devices'[d].state = "pending" /\ devices'[d].install = i
        /\ \A x \in Unexpired : x # d /\ devices'[x] = devices[x]
    <3>1. /\ DOMAIN WithPending(d, i, b) = Unexpired \cup {d}
          /\ WithPending(d, i, b)[d] = [state |-> "pending", install |-> i, bound |-> b,
                                        expires |-> now + PendingTTL]
          /\ \A x \in Unexpired \ {d} : WithPending(d, i, b)[x] = devices[x]
      <4>1. RegistryTypeOK
        BY DEF RegistryInv
      <4>2. DOMAIN WithPending(d, i, b) = Unexpired \cup {d}
        BY <4>1, WithPendingType
      <4>3. WithPending(d, i, b)[d] = [state |-> "pending", install |-> i, bound |-> b,
                                       expires |-> now + PendingTTL]
        BY <4>1, WithPendingType
      <4>4. \A x \in Unexpired \ {d} : WithPending(d, i, b)[x] = devices[x]
        BY DEF WithPending
      <4> QED
        BY <4>2, <4>3, <4>4
    <3>2. \A x \in Unexpired : x # d
      BY <2>1, <1>u
    <3> QED
      BY <1>1, <3>1, <3>2
  <2>3. issuedTo'[d] = i /\ \A x \in Unexpired : issuedTo'[x] = issuedTo[x]
    BY <1>1, <1>u, <2>2 DEF RegistryInv, RegistryTypeOK
  <2>4. IssuedAsRecorded'
    BY <2>2, <2>3, <1>u DEF IssuedAsRecorded, RegistryInv
  <2>5. OneActivePerInstall'
    BY <2>2, <1>u DEF OneActivePerInstall, IsActive, RegistryInv
  <2> QED
    BY <2>4, <2>5
\* Every other record of the promoted one's install is gone.
<1>2. ASSUME NEW d \in DeviceIds, CanActivate(d), devices' = WithActivated(d),
             UNCHANGED issuedTo
      PROVE  IssuedAsRecorded' /\ OneActivePerInstall'
  <2>1. d \in Unexpired
    BY <1>2 DEF CanActivate
  <2>2. /\ DOMAIN devices' = (Unexpired \ Superseded(d)) \cup {d}
        /\ devices'[d].install = devices[d].install
        /\ \A x \in (Unexpired \ Superseded(d)) \ {d} : devices'[x] = devices[x]
    BY <1>2, <2>1, WithActivatedType DEF RegistryInv
  <2>3. \A x \in Unexpired \ Superseded(d) : devices[x].install # devices[d].install
    BY <1>u DEF Superseded, OfInstall
  <2>4. IssuedAsRecorded'
    BY <1>2, <2>1, <2>2, <1>u DEF IssuedAsRecorded, RegistryInv
  <2>5. OneActivePerInstall'
    BY <2>2, <2>3, <1>u DEF OneActivePerInstall, IsActive, RegistryInv
  <2> QED
    BY <2>4, <2>5
\* A binding touches neither state nor install.
<1>3. ASSUME NEW d \in DeviceIds, NEW b \in Bindings, BindCloudUser(d, b)
      PROVE  IssuedAsRecorded' /\ OneActivePerInstall'
  <2>1. devices' = [devices EXCEPT ![d].bound = b] /\ d \in DOMAIN devices /\ UNCHANGED issuedTo
    BY <1>3 DEF BindCloudUser
  <2>2. \A x \in DOMAIN devices : devices[x] \in Device
    BY DEF RegistryInv, RegistryTypeOK
  <2>3. /\ DOMAIN devices' = DOMAIN devices
        /\ \A x \in DOMAIN devices : /\ devices'[x].install = devices[x].install
                                     /\ devices'[x].state = devices[x].state
    BY <2>1, <2>2 DEF Device
  <2>4. IssuedAsRecorded'
    BY <2>1, <2>3 DEF IssuedAsRecorded, RegistryInv
  <2>5. OneActivePerInstall'
    BY <2>3 DEF OneActivePerInstall, IsActive, RegistryInv
  <2> QED
    BY <2>4, <2>5
\* Removing records.
<1>4. ASSUME NEW S, devices' = Without(S), UNCHANGED issuedTo
      PROVE  IssuedAsRecorded' /\ OneActivePerInstall'
  <2>1. DOMAIN devices' = DOMAIN devices \ S /\ \A x \in DOMAIN devices' : devices'[x] = devices[x]
    BY <1>4 DEF Without
  <2> QED
    BY <1>4, <2>1 DEF IssuedAsRecorded, OneActivePerInstall, IsActive, RegistryInv
<1>5. ASSUME NEW d \in DeviceIds, MintBridge(d)
      PROVE  IssuedAsRecorded' /\ OneActivePerInstall'
  <2> DEFINE pending == WithPending(d, BridgeInstall, NoBinding)
             others  == {x \in Unexpired : devices[x].install # BridgeInstall}
  <2>1. /\ issuedTo[d] = NoInstall /\ issuedTo' = [issuedTo EXCEPT ![d] = BridgeInstall]
        /\ BridgeInstall \in Installs /\ NoBinding \in Bindings \cup {NoBinding}
    BY <1>5 DEF MintBridge, RegistryAssumption
  <2>2. CASE devices' = pending
    BY <2>1, <2>2, <1>1
  <2>3. CASE devices' = [x \in others \cup {d} |->
               IF x = d THEN [pending[d] EXCEPT !.state = "active", !.expires = 0]
               ELSE devices[x]]
    <3>1. d \notin DOMAIN devices
      BY <2>1, UnissuedUnregistered
    <3>2. pending[d] \in Device /\ pending[d].install = BridgeInstall
      <4>1. /\ pending \in [Unexpired \cup {d} -> Device]
            /\ pending[d] = [state |-> "pending", install |-> BridgeInstall,
                             bound |-> NoBinding, expires |-> now + PendingTTL]
        BY <2>1, WithPendingType DEF RegistryInv
      <4> HIDE DEF pending
      <4> QED
        BY <4>1
    <3>3. [pending[d] EXCEPT !.state = "active", !.expires = 0].install = BridgeInstall
      BY <3>2 DEF Device
    <3>4. /\ DOMAIN devices' = others \cup {d} /\ devices'[d].install = BridgeInstall
          /\ \A x \in others : x # d /\ devices'[x] = devices[x]
      BY <2>3, <3>1, <3>3, <1>u
    <3>5. issuedTo'[d] = BridgeInstall /\ \A x \in others : issuedTo'[x] = issuedTo[x]
      BY <2>1, <1>u, <3>4 DEF RegistryInv, RegistryTypeOK
    <3>6. \A x \in others : x \in DOMAIN devices /\ devices[x].install # BridgeInstall
      BY <1>u
    <3>7. IssuedAsRecorded'
      BY <3>4, <3>5, <3>6 DEF IssuedAsRecorded, RegistryInv
    <3>8. OneActivePerInstall'
      BY <3>4, <3>6 DEF OneActivePerInstall, IsActive, RegistryInv
    <3> QED
      BY <3>7, <3>8
  <2> QED
    BY <1>5, <2>2, <2>3 DEF MintBridge
<1>6. ASSUME UNCHANGED <<devices, issuedTo>>
      PROVE  IssuedAsRecorded' /\ OneActivePerInstall'
  <2>1. devices' = devices /\ issuedTo' = issuedTo
    BY <1>6
  <2>2. IssuedAsRecorded'
    BY <2>1 DEF IssuedAsRecorded, RegistryInv
  <2>3. OneActivePerInstall'
    BY <2>1 DEF OneActivePerInstall, IsActive, RegistryInv
  <2> QED
    BY <2>2, <2>3
<1>7. IssuedAsRecorded' /\ OneActivePerInstall'
  <2>1. CASE \E d \in DeviceIds : Pair(d)
    BY <2>1, <1>1 DEF Pair, CreatePendingWithResponse
  <2>2. CASE \E d \in DeviceIds : ActivatePending(d)
                               \/ \E b \in Bindings : ActivatePendingForCloud(d, b)
    BY <2>2, <1>2 DEF ActivatePending, ActivatePendingForCloud
  <2>3. CASE \E d \in DeviceIds : Revoke(d) \/ \E b \in Bindings : RevokeCloudDevice(d, b)
    BY <2>3, <1>4 DEF Revoke, RevokeCloudDevice
  <2>4. CASE Tick \/ UNCHANGED vars
    <3>1. UNCHANGED <<devices, issuedTo>>
      BY <2>4 DEF Tick, vars
    <3> QED
      BY <3>1, <1>6
  <2>5. CASE \E d \in DeviceIds : MintBridge(d) \/ \E b \in Bindings : BindCloudUser(d, b)
    BY <2>5, <1>3, <1>5
  <2> QED
    BY <2>1, <2>2, <2>3, <2>4, <2>5 DEF Next
<1> QED
  BY <1>t, <1>7 DEF RegistryInv

LEMMA RegistryInvariant == Spec => []RegistryInv
<1>1. Init => RegistryInv
  BY RegistryAssumption, InvInit
<1>2. RegistryInv /\ [Next]_vars => RegistryInv'
  BY RegistryAssumption, InvNext
<1> QED
  BY <1>1, <1>2, PTL DEF Spec

\* However pairings, activations, revocations and expiries interleave, a client
\* install never has two usable credentials in the registry (withActivated).
THEOREM OneActive == Spec => []OneActivePerInstall
<1>1. RegistryInv => OneActivePerInstall
  BY DEF RegistryInv
<1> QED
  BY <1>1, RegistryInvariant, PTL

-----------------------------------------------------------------------------
(* Bindings *)

\* Every mutation keeps the binding of the records it keeps, or sets one that was free.
LEMMA BindingStep ==
  ASSUME RegistryAssumption, RegistryInv, [Next]_vars,
         NEW x \in Registered \cap Registered', devices[x].bound # NoBinding
  PROVE  devices'[x].bound = devices[x].bound
<1> USE DEF Registered
<1>t. RegistryTypeOK /\ devices[x] \in Device /\ x \in DeviceIds
  BY DEF RegistryInv, RegistryTypeOK
<1>1. ASSUME NEW d \in DeviceIds, NEW i \in Installs, NEW b \in Bindings \cup {NoBinding},
             issuedTo[d] = NoInstall, devices' = WithPending(d, i, b)
      PROVE  devices'[x].bound = devices[x].bound
  <2>1. x # d
    BY <1>1, UnissuedUnregistered
  <2>2. DOMAIN WithPending(d, i, b) = Unexpired \cup {d}
    BY <1>t, WithPendingType
  <2>3. x \in Unexpired
    BY <1>1, <2>1, <2>2
  <2>4. WithPending(d, i, b)[x] = devices[x]
    BY <2>1, <2>3 DEF WithPending
  <2> QED
    BY <1>1, <2>4
<1>2. ASSUME NEW d \in DeviceIds, CanActivate(d), devices' = WithActivated(d)
      PROVE  devices'[x].bound = devices[x].bound
  <2>1. /\ DOMAIN WithActivated(d) = (Unexpired \ Superseded(d)) \cup {d}
        /\ WithActivated(d)[d].bound = devices[d].bound
        /\ \A y \in (Unexpired \ Superseded(d)) \ {d} : WithActivated(d)[y] = devices[y]
    BY <1>t, <1>2, WithActivatedType DEF CanActivate
  <2> QED
    BY <1>2, <2>1
<1>3. ASSUME NEW d \in DeviceIds, NEW b \in Bindings, BindCloudUser(d, b)
      PROVE  devices'[x].bound = devices[x].bound
  <2>1. x # d
    BY <1>3 DEF BindCloudUser, BindingFree
  <2> QED
    BY <1>3, <2>1 DEF BindCloudUser
<1>4. ASSUME NEW S, devices' = Without(S)
      PROVE  devices'[x].bound = devices[x].bound
  BY <1>4 DEF Without
<1>5. ASSUME NEW d \in DeviceIds, MintBridge(d)
      PROVE  devices'[x].bound = devices[x].bound
  <2> DEFINE pending == WithPending(d, BridgeInstall, NoBinding)
             others  == {y \in Unexpired : devices[y].install # BridgeInstall}
  <2>1. issuedTo[d] = NoInstall /\ BridgeInstall \in Installs
    BY <1>5 DEF MintBridge, RegistryAssumption
  <2>2. CASE devices' = pending
    BY <2>1, <2>2, <1>1
  <2>3. CASE devices' = [y \in others \cup {d} |->
               IF y = d THEN [pending[d] EXCEPT !.state = "active", !.expires = 0]
               ELSE devices[y]]
    <3>1. x # d
      BY <2>1, UnissuedUnregistered
    <3> QED
      BY <2>3, <3>1
  <2> QED
    BY <1>5, <2>2, <2>3 DEF MintBridge
<1>6. CASE Tick \/ UNCHANGED vars
  BY <1>6 DEF Tick, vars
<1>7. CASE \E d \in DeviceIds : Pair(d) \/ MintBridge(d)
  BY <1>7, <1>1, <1>5 DEF Pair, CreatePendingWithResponse
<1>8. CASE \E d \in DeviceIds :
             \/ ActivatePending(d) \/ Revoke(d)
             \/ \E b \in Bindings : \/ ActivatePendingForCloud(d, b)
                                    \/ BindCloudUser(d, b) \/ RevokeCloudDevice(d, b)
  BY <1>8, <1>2, <1>3, <1>4
     DEF ActivatePending, ActivatePendingForCloud, Revoke, RevokeCloudDevice
<1> QED
  BY <1>6, <1>7, <1>8 DEF Next

\* Whatever a credential goes through, the Cloud identity of its record stays the
\* one it was minted for or first bound to (bindCloudUser, activatePendingForCloud).
THEOREM BindingStays == Spec => BindingNeverMoves
<1>1. RegistryInv /\ [Next]_vars =>
        [\A d \in Registered \cap Registered' :
           devices[d].bound # NoBinding => devices'[d].bound = devices[d].bound]_vars
  BY RegistryAssumption, BindingStep
<1> QED
  BY <1>1, RegistryInvariant, PTL DEF Spec, BindingNeverMoves

-----------------------------------------------------------------------------
(* The retry of a Cloud revocation *)

\* What revoked itself is gone, was revoked as one identity only, and every
\* tombstone tells of such a revocation.
WithdrawnIsGone ==
  \A w \in withdrawn : w[1] \notin Registered /\ issuedTo[w[1]] # NoInstall

OneOwner == \A w, x \in withdrawn : w[1] = x[1] => w[2] = x[2]

TombstonesAreTrue == \A v \in revocations : <<v.device, v.bound>> \in withdrawn

RetryInv == WithdrawnIsGone /\ OneOwner /\ TombstonesAreTrue

LEMMA RetryInit == Init => RetryInv
BY DEF Init, RetryInv, WithdrawnIsGone, OneOwner, TombstonesAreTrue

\* A step that revokes no Cloud device registers only ids that were never issued.
LEMMA RetryKept ==
  ASSUME RegistryInv, RetryInv,
         NEW d \in DeviceIds,
         UNCHANGED <<revocations, withdrawn>>,
         Registered' \subseteq Registered \cup {d},
         d \in Registered \/ issuedTo[d] = NoInstall,
         \A x \in DeviceIds : x # d => issuedTo'[x] = issuedTo[x],
         d \in Registered => issuedTo'[d] = issuedTo[d]
  PROVE  RetryInv'
<1>1. \A w \in withdrawn : w[1] \in DeviceIds /\ w[1] # d
  BY DEF RegistryInv, RegistryTypeOK, RetryInv, WithdrawnIsGone
<1>2. WithdrawnIsGone'
  BY <1>1 DEF RetryInv, WithdrawnIsGone
<1> QED
  BY <1>2 DEF RetryInv, OneOwner, TombstonesAreTrue

LEMMA RetryNext ==
  RegistryAssumption /\ RegistryInv /\ RetryInv /\ [Next]_vars => RetryInv'
<1> SUFFICES ASSUME RegistryAssumption, RegistryInv, RetryInv, [Next]_vars
             PROVE  RetryInv'
  OBVIOUS
<1> USE DEF Registered
<1>u. Unexpired \subseteq DOMAIN devices
  BY UnexpiredRegistered
<1>t. RegistryTypeOK
  BY DEF RegistryInv
<1>1. ASSUME NEW d \in DeviceIds, Pair(d) \/ MintBridge(d)
      PROVE  RetryInv'
  <2>1. issuedTo[d] = NoInstall /\ UNCHANGED <<revocations, withdrawn>>
    BY <1>1 DEF Pair, CreatePendingWithResponse, MintBridge
  <2>2. \A x \in DeviceIds : x # d => issuedTo'[x] = issuedTo[x]
    BY <1>1, <1>t DEF Pair, CreatePendingWithResponse, MintBridge, RegistryTypeOK
  <2>3. DOMAIN devices' \subseteq DOMAIN devices \cup {d}
    <3>1. CASE Pair(d)
      BY <1>u, <3>1 DEF Pair, CreatePendingWithResponse, WithPending
    <3>2. CASE MintBridge(d)
      <4>1. DOMAIN WithPending(d, BridgeInstall, NoBinding) \subseteq DOMAIN devices \cup {d}
        BY <1>u DEF WithPending
      <4>2. CASE devices' = WithPending(d, BridgeInstall, NoBinding)
        BY <4>1, <4>2
      <4>3. CASE devices' # WithPending(d, BridgeInstall, NoBinding)
        <5>1. DOMAIN devices' = {x \in Unexpired : devices[x].install # BridgeInstall} \cup {d}
          BY <3>2, <4>3 DEF MintBridge
        <5> QED
          BY <1>u, <5>1
      <4> QED
        BY <4>2, <4>3
    <3> QED
      BY <1>1, <3>1, <3>2
  <2>4. d \notin DOMAIN devices
    BY <2>1, UnissuedUnregistered
  <2> QED
    BY <2>1, <2>2, <2>3, <2>4, RetryKept
<1>2. ASSUME NEW d \in DeviceIds, CanActivate(d), devices' = WithActivated(d),
             UNCHANGED <<revocations, issuedTo, withdrawn>>
      PROVE  RetryInv'
  <2>1. d \in DOMAIN devices /\ DOMAIN devices' \subseteq DOMAIN devices
    BY <1>2, <1>u DEF CanActivate, WithActivated
  <2> QED
    BY <1>2, <2>1, RetryKept
<1>3. ASSUME NEW d \in DeviceIds, NEW b \in Bindings, BindCloudUser(d, b)
      PROVE  RetryInv'
  BY <1>3, RetryKept DEF BindCloudUser
<1>4. ASSUME NEW d \in DeviceIds, Revoke(d)
      PROVE  RetryInv'
  BY <1>4, RetryKept DEF Revoke, Without
<1>5. ASSUME NEW d \in DeviceIds, NEW b \in Bindings, RevokeCloudDevice(d, b)
      PROVE  RetryInv'
  <2> DEFINE tombstone == [device |-> d, bound |-> b, expires |-> now + RevocationTTL]
  <2>1. /\ d \in DOMAIN devices /\ devices' = Without(RevokedWith(d))
        /\ withdrawn' = withdrawn \cup {<<d, b>>} /\ issuedTo' = issuedTo
    BY <1>5 DEF RevokeCloudDevice
  <2>2. revocations' \subseteq revocations \cup {tombstone}
    BY <1>5, CappedIsSubset DEF RevokeCloudDevice, LiveRevocations
  <2>3. DOMAIN devices' \subseteq DOMAIN devices \ {d}
    BY <2>1 DEF Without, RevokedWith
  <2>4. issuedTo[d] # NoInstall
    BY <2>1, UnissuedUnregistered
  <2>5. WithdrawnIsGone'
    BY <2>1, <2>3, <2>4 DEF RetryInv, WithdrawnIsGone
  <2>6. \A w \in withdrawn : w[1] # d
    BY <2>1 DEF RetryInv, WithdrawnIsGone
  <2>7. OneOwner'
    BY <2>1, <2>6 DEF RetryInv, OneOwner
  <2>8. TombstonesAreTrue'
    <3> SUFFICES ASSUME NEW v \in revocations'
                 PROVE  <<v.device, v.bound>> \in withdrawn'
      BY DEF TombstonesAreTrue
    <3>1. CASE v = tombstone
      BY <3>1, <2>1
    <3>2. CASE v \in revocations
      BY <3>2, <2>1 DEF RetryInv, TombstonesAreTrue
    <3> QED
      BY <2>2, <3>1, <3>2
  <2> QED
    BY <2>5, <2>7, <2>8 DEF RetryInv
<1>6. CASE Tick \/ UNCHANGED vars
  BY <1>6 DEF Tick, vars, RetryInv, WithdrawnIsGone, OneOwner, TombstonesAreTrue
<1> QED
  BY <1>1, <1>2, <1>3, <1>4, <1>5, <1>6 DEF Next, ActivatePending, ActivatePendingForCloud

\* A Cloud device that revoked itself is told so by every retry, however many
\* revocations, expiries and new pairings come in between (withCloudDeviceRevoked).
THEOREM RetrySucceeds == Spec => []RevokeRetrySucceeds
<1>1. RegistryInv /\ RetryInv => RevokeRetrySucceeds
  <2> SUFFICES ASSUME RegistryInv, RetryInv, NEW w \in withdrawn
               PROVE  RetryAnswer(w[1], w[2]) = "ok"
    BY DEF RevokeRetrySucceeds
  <2>1. w[1] \notin Registered
    BY DEF RetryInv, WithdrawnIsGone
  <2>2. \A v \in LiveRevocations : v.device = w[1] => v.bound = w[2]
    <3> SUFFICES ASSUME NEW v \in revocations, v.device = w[1]
                 PROVE  v.bound = w[2]
      BY DEF LiveRevocations
    <3>1. <<v.device, v.bound>> \in withdrawn
      BY DEF RetryInv, TombstonesAreTrue
    <3> QED
      BY <3>1 DEF RetryInv, OneOwner
  <2> QED
    BY <2>1, <2>2 DEF RetryAnswer, ExactReplay
<1>2. Init => RetryInv
  BY RetryInit
<1>3. RegistryInv /\ RetryInv /\ [Next]_vars => RetryInv'
  BY RegistryAssumption, RetryNext
<1> QED
  BY <1>1, <1>2, <1>3, RegistryInvariant, PTL DEF Spec

-----------------------------------------------------------------------------
(* Counting *)

LEMMA FewerStayWithin ==
  ASSUME NEW S, NEW T \in SUBSET S, IsFiniteSet(S), NEW n \in Nat, Cardinality(S) <= n
  PROVE  IsFiniteSet(T) /\ Cardinality(T) <= n
<1>1. IsFiniteSet(T) /\ Cardinality(T) <= Cardinality(S)
  BY FS_Subset
<1>2. Cardinality(S) \in Nat
  BY FS_CardinalityType
<1>3. Cardinality(T) \in Nat
  BY <1>1, FS_CardinalityType
<1> QED
  BY <1>1, <1>2, <1>3

LEMMA OneMoreStaysWithin ==
  ASSUME NEW S, NEW x, NEW T \in SUBSET (S \cup {x}), IsFiniteSet(S), NEW n \in Nat,
         Cardinality(S) < n
  PROVE  IsFiniteSet(T) /\ Cardinality(T) <= n
<1>1. Cardinality(S) \in Nat
  BY FS_CardinalityType
<1>2. IsFiniteSet(S \cup {x}) /\ Cardinality(S \cup {x}) <= Cardinality(S) + 1
  <2>1. /\ IsFiniteSet(S \cup {x})
        /\ Cardinality(S \cup {x}) = IF x \in S THEN Cardinality(S) ELSE Cardinality(S) + 1
    BY FS_AddElement
  <2> QED
    BY <1>1, <2>1
<1>3. Cardinality(S \cup {x}) \in Nat
  BY <1>2, FS_CardinalityType
<1> QED
  BY <1>1, <1>2, <1>3, FewerStayWithin

-----------------------------------------------------------------------------
(* The invariant *)

RecordsWithin ==
  /\ IsFiniteSet(Registered)
  /\ Cardinality(ActiveIn(Registered)) <= MaxActive
  /\ Cardinality(PendingIn(Registered)) <= MaxPending

RepliesWithin == IsFiniteSet(responses) /\ Cardinality(responses) <= MaxResponses

TombstonesWithin == IsFiniteSet(revocations) /\ Cardinality(revocations) <= MaxRevocations

\* A provisional record and its reply expire at the same time.
ReplyKept ==
  \A d \in PendingIn(Registered) : devices[d].install # BridgeInstall =>
    \E r \in responses : r.device = d /\ r.expires = devices[d].expires

CapsInv == RecordsWithin /\ RepliesWithin /\ TombstonesWithin /\ ReplyKept

LEMMA CapsInit == RegistryAssumption /\ Init => CapsInv
<1> SUFFICES ASSUME RegistryAssumption, Init PROVE CapsInv
  OBVIOUS
<1>1. Registered = {} /\ ActiveIn(Registered) = {} /\ PendingIn(Registered) = {}
  BY DEF Init, Registered, ActiveIn, PendingIn
<1>2. IsFiniteSet({}) /\ Cardinality({}) = 0
  BY FS_EmptySet
<1>3. 0 <= MaxActive /\ 0 <= MaxPending /\ 0 <= MaxResponses /\ 0 <= MaxRevocations
  BY DEF RegistryAssumption
<1>4. RecordsWithin
  BY <1>1, <1>2, <1>3 DEF RecordsWithin
<1>5. RepliesWithin /\ TombstonesWithin
  BY <1>2, <1>3 DEF Init, RepliesWithin, TombstonesWithin
<1>6. ReplyKept
  BY <1>1 DEF ReplyKept
<1> QED
  BY <1>4, <1>5, <1>6 DEF CapsInv

-----------------------------------------------------------------------------
(* Records *)

\* Whoever is active or pending afterwards was so before, but for one record for
\* which the mutation found room.
LEMMA RecordsStep ==
  ASSUME RegistryAssumption, RecordsWithin, NEW d, NEW A, NEW P,
         A \subseteq ActiveIn(Registered), P \subseteq PendingIn(Registered),
         Registered' \subseteq Registered \cup {d},
         \/ ActiveIn(Registered)' \subseteq A
         \/ ActiveIn(Registered)' \subseteq A \cup {d} /\ Cardinality(A) < MaxActive,
         \/ PendingIn(Registered)' \subseteq P
         \/ PendingIn(Registered)' \subseteq P \cup {d} /\ Cardinality(P) < MaxPending
  PROVE  RecordsWithin'
<1>1. MaxActive \in Nat /\ MaxPending \in Nat
  BY DEF RegistryAssumption
<1>2. IsFiniteSet(Registered')
  <2>1. IsFiniteSet(Registered \cup {d})
    BY FS_AddElement DEF RecordsWithin
  <2> QED
    BY <2>1, FS_Subset
<1>3. IsFiniteSet(ActiveIn(Registered)) /\ IsFiniteSet(PendingIn(Registered))
  BY FS_Subset DEF RecordsWithin, ActiveIn, PendingIn
<1>4. IsFiniteSet(A) /\ Cardinality(A) <= MaxActive
  BY <1>1, <1>3, FewerStayWithin DEF RecordsWithin
<1>5. IsFiniteSet(P) /\ Cardinality(P) <= MaxPending
  BY <1>1, <1>3, FewerStayWithin DEF RecordsWithin
<1>6. Cardinality(ActiveIn(Registered)') <= MaxActive
  <2>1. CASE ActiveIn(Registered)' \subseteq A
    BY <2>1, <1>1, <1>4, FewerStayWithin
  <2>2. CASE ActiveIn(Registered)' \subseteq A \cup {d} /\ Cardinality(A) < MaxActive
    BY <2>2, <1>1, <1>4, OneMoreStaysWithin
  <2> QED
    BY <2>1, <2>2
<1>7. Cardinality(PendingIn(Registered)') <= MaxPending
  <2>1. CASE PendingIn(Registered)' \subseteq P
    BY <2>1, <1>1, <1>5, FewerStayWithin
  <2>2. CASE PendingIn(Registered)' \subseteq P \cup {d} /\ Cardinality(P) < MaxPending
    BY <2>2, <1>1, <1>5, OneMoreStaysWithin
  <2> QED
    BY <2>1, <2>2
<1> QED
  BY <1>2, <1>6, <1>7 DEF RecordsWithin

LEMMA PendingRecords ==
  ASSUME RegistryAssumption, RegistryInv, RecordsWithin, NEW d \in DeviceIds, NEW i \in Installs,
         NEW b \in Bindings \cup {NoBinding}, HasRoom(i), devices' = WithPending(d, i, b)
  PROVE  RecordsWithin'
<1>1. Unexpired \subseteq Registered
  BY UnexpiredRegistered
<1>2. /\ Registered' = Unexpired \cup {d}
      /\ devices'[d].state = "pending"
      /\ \A x \in Unexpired \ {d} : devices'[x] = devices[x]
  BY DEF WithPending, Registered
<1>3. ActiveIn(Registered)' \subseteq ActiveIn(Registered)
  BY <1>1, <1>2 DEF ActiveIn, IsActive
<1>4. PendingIn(Registered)' \subseteq PendingIn(Unexpired) \cup {d}
  BY <1>2 DEF PendingIn, IsPending
<1>5. PendingIn(Unexpired) \subseteq PendingIn(Registered)
  BY <1>1 DEF PendingIn
<1>6. Cardinality(PendingIn(Unexpired)) < MaxPending
  BY DEF HasRoom
<1>7. Registered' \subseteq Registered \cup {d}
  BY <1>1, <1>2
<1> QED
  BY <1>3, <1>4, <1>5, <1>6, <1>7, RecordsStep

LEMMA ActivatedRecords ==
  ASSUME RegistryAssumption, RegistryInv, RecordsWithin, NEW d \in DeviceIds,
         CanActivate(d), devices' = WithActivated(d)
  PROVE  RecordsWithin'
<1> DEFINE left == Unexpired \ Superseded(d)
<1>1. Unexpired \subseteq Registered /\ d \in Registered
  BY UnexpiredRegistered DEF CanActivate
<1>2. /\ Registered' = left \cup {d} /\ devices'[d].state = "active"
      /\ \A x \in left \ {d} : devices'[x] = devices[x]
  BY WithActivatedType DEF RegistryInv, CanActivate, Registered
<1>3. ActiveIn(Registered)' \subseteq ActiveIn(left) \cup {d}
  BY <1>2 DEF ActiveIn, IsActive
<1>4. PendingIn(Registered)' \subseteq PendingIn(Registered)
  BY <1>1, <1>2 DEF PendingIn, IsPending
<1>5. ActiveIn(left) \subseteq ActiveIn(Registered)
  BY <1>1 DEF ActiveIn
<1>6. Cardinality(ActiveIn(left)) < MaxActive
  BY DEF CanActivate, RoomToActivate
<1>7. Registered' \subseteq Registered \cup {d}
  BY <1>1, <1>2
<1> QED
  BY <1>3, <1>4, <1>5, <1>6, <1>7, RecordsStep

\* No record becomes active or pending.
LEMMA KeptRecords ==
  ASSUME RegistryAssumption, RecordsWithin, Registered' \subseteq Registered,
         \A x \in Registered' : devices'[x].state = devices[x].state
  PROVE  RecordsWithin'
<1>1. /\ ActiveIn(Registered)' \subseteq ActiveIn(Registered)
      /\ PendingIn(Registered)' \subseteq PendingIn(Registered)
  BY DEF ActiveIn, PendingIn, IsActive, IsPending
<1> QED
  BY <1>1, RecordsStep

LEMMA BridgeRecords ==
  ASSUME RegistryAssumption, RegistryInv, RecordsWithin, NEW d \in DeviceIds, MintBridge(d)
  PROVE  RecordsWithin'
<1> DEFINE pending == WithPending(d, BridgeInstall, NoBinding)
           others  == {x \in Unexpired : devices[x].install # BridgeInstall}
<1>1. BridgeInstall \in Installs /\ HasRoom(BridgeInstall)
  BY DEF MintBridge, RegistryAssumption
<1>2. CASE devices' = pending
  BY <1>1, <1>2, PendingRecords
<1>3. CASE /\ Cardinality(ActiveIn(others)) < MaxActive
           /\ devices' = [x \in others \cup {d} |->
                IF x = d THEN [pending[d] EXCEPT !.state = "active", !.expires = 0]
                ELSE devices[x]]
  <2>1. others \subseteq Registered
    BY UnexpiredRegistered
  <2>2. pending[d] \in Device
    <3>1. RegistryTypeOK /\ NoBinding \in Bindings \cup {NoBinding}
      BY DEF RegistryInv
    <3>2. pending \in [Unexpired \cup {d} -> Device]
      BY <1>1, <3>1, WithPendingType
    <3> HIDE DEF pending
    <3> QED
      BY <3>2
  <2>3. [pending[d] EXCEPT !.state = "active", !.expires = 0].state = "active"
    BY <2>2 DEF Device
  <2>4. /\ Registered' = others \cup {d} /\ devices'[d].state = "active"
        /\ \A x \in others \ {d} : devices'[x] = devices[x]
    BY <1>3, <2>3 DEF Registered
  <2> HIDE DEF others, pending
  <2>5. ActiveIn(Registered)' \subseteq ActiveIn(others) \cup {d}
    BY <2>4 DEF ActiveIn, IsActive
  <2>6. PendingIn(Registered)' \subseteq PendingIn(Registered)
    BY <2>1, <2>4 DEF PendingIn, IsPending
  <2>7. ActiveIn(others) \subseteq ActiveIn(Registered)
    BY <2>1 DEF ActiveIn
  <2>8. Registered' \subseteq Registered \cup {d}
    BY <2>1, <2>4
  <2> QED
    BY <1>3, <2>5, <2>6, <2>7, <2>8, RecordsStep
<1> QED
  BY <1>2, <1>3 DEF MintBridge

LEMMA RecordsNext ==
  RegistryAssumption /\ RegistryInv /\ RecordsWithin /\ [Next]_vars => RecordsWithin'
<1> SUFFICES ASSUME RegistryAssumption, RegistryInv, RecordsWithin, [Next]_vars
             PROVE  RecordsWithin'
  OBVIOUS
<1>1. CASE \E d \in DeviceIds : Pair(d)
  BY <1>1, PendingRecords DEF Pair, CreatePendingWithResponse
<1>2. CASE \E d \in DeviceIds : ActivatePending(d)
                             \/ \E b \in Bindings : ActivatePendingForCloud(d, b)
  BY <1>2, ActivatedRecords DEF ActivatePending, ActivatePendingForCloud
<1>3. ASSUME NEW S, devices' = Without(S)
      PROVE  RecordsWithin'
  BY <1>3, KeptRecords DEF Without, Registered
<1>4. CASE \E d \in DeviceIds : Revoke(d) \/ \E b \in Bindings : RevokeCloudDevice(d, b)
  BY <1>4, <1>3 DEF Revoke, RevokeCloudDevice
<1>5. ASSUME NEW d \in DeviceIds, NEW b \in Bindings, BindCloudUser(d, b)
      PROVE  RecordsWithin'
  <2>1. devices' = [devices EXCEPT ![d].bound = b]
    BY <1>5 DEF BindCloudUser
  <2>2. \A x \in Registered : devices[x] \in Device
    BY DEF RegistryInv, RegistryTypeOK, Registered
  <2>3. Registered' = Registered /\ \A x \in Registered : devices'[x].state = devices[x].state
    BY <2>1, <2>2 DEF Registered, Device
  <2> QED
    BY <2>3, KeptRecords
<1>6. CASE \E d \in DeviceIds : MintBridge(d)
  BY <1>6, BridgeRecords
<1>7. CASE Tick \/ UNCHANGED vars
  BY <1>7, KeptRecords DEF Tick, vars, Registered
<1> QED
  BY <1>1, <1>2, <1>4, <1>5, <1>6, <1>7 DEF Next

-----------------------------------------------------------------------------
(* Replies and tombstones *)

\* A write adds one reply, and the trimming drops one that nobody waits for.
LEMMA TrimmedReplies ==
  ASSUME RegistryAssumption, RepliesWithin, NEW kept, kept \subseteq responses, NEW new,
         NEW pending, NEW r, r \in Trimmed(kept \cup {new}, pending)
  PROVE  /\ IsFiniteSet(r) /\ Cardinality(r) <= MaxResponses
         /\ \A x \in kept \cup {new} : x.device \in pending => x \in r
<1> DEFINE all == kept \cup {new}
<1>1. MaxResponses \in Nat /\ IsFiniteSet(kept) /\ Cardinality(kept) <= MaxResponses
  BY FewerStayWithin DEF RegistryAssumption, RepliesWithin
<1>2. Cardinality(kept) \in Nat
  BY <1>1, FS_CardinalityType
<1>3. IsFiniteSet(all) /\ Cardinality(all) <= Cardinality(kept) + 1
  <2>1. /\ IsFiniteSet(all)
        /\ Cardinality(all) = Cardinality(kept) \/ Cardinality(all) = Cardinality(kept) + 1
    BY <1>1, FS_AddElement
  <2> HIDE DEF all
  <2> QED
    BY <1>2, <2>1
<1>4. Cardinality(all) \in Nat
  BY <1>3, FS_CardinalityType
<1> HIDE DEF all
<1>5. CASE Cardinality(all) <= MaxResponses
  <2>1. r = all
    BY <1>5 DEF Trimmed, all
  <2> QED
    BY <1>3, <1>5, <2>1 DEF all
<1>6. CASE ~(Cardinality(all) <= MaxResponses)
  <2>1. PICK old \in Evictable(all, pending) : r = all \ {old}
    BY <1>6 DEF Trimmed, Oldest, all
  <2>2. old \in all /\ old.device \notin pending
    BY <2>1 DEF Evictable
  <2>3. IsFiniteSet(r) /\ Cardinality(r) = Cardinality(all) - 1
    BY <1>3, <2>1, <2>2, FS_RemoveElement
  <2>4. Cardinality(r) <= MaxResponses
    BY <1>1, <1>2, <1>3, <1>4, <2>3
  <2> QED
    BY <2>1, <2>2, <2>3, <2>4 DEF all
<1> QED
  BY <1>5, <1>6

LEMMA CappedTombstones ==
  ASSUME RegistryAssumption, TombstonesWithin, NEW kept \in SUBSET revocations, NEW v,
         NEW r \in Capped(kept, v)
  PROVE  IsFiniteSet(r) /\ Cardinality(r) <= MaxRevocations
<1>1. MaxRevocations \in Nat /\ IsFiniteSet(kept) /\ Cardinality(kept) <= MaxRevocations
  BY FewerStayWithin DEF RegistryAssumption, TombstonesWithin
<1>2. CASE Cardinality(kept \cup {v}) <= MaxRevocations
  <2>1. r = kept \cup {v}
    BY <1>2 DEF Capped
  <2>2. IsFiniteSet(kept \cup {v})
    BY <1>1, FS_AddElement
  <2> QED
    BY <1>2, <2>1, <2>2
<1>3. CASE ~(Cardinality(kept \cup {v}) <= MaxRevocations)
  <2>1. PICK old \in kept : r = (kept \ {old}) \cup {v}
    BY <1>3 DEF Capped, Oldest
  <2>2. IsFiniteSet(kept \ {old}) /\ Cardinality(kept \ {old}) = Cardinality(kept) - 1
    BY <1>1, FS_RemoveElement
  <2>3. Cardinality(kept) \in Nat
    BY <1>1, FS_CardinalityType
  <2>4. Cardinality(kept \ {old}) < MaxRevocations
    BY <1>1, <2>2, <2>3
  <2> QED
    BY <1>1, <2>1, <2>2, <2>4, OneMoreStaysWithin
<1> QED
  BY <1>2, <1>3

-----------------------------------------------------------------------------
(* A new record brings its reply, and takes nobody else's. *)

LEMMA PairKeepsReplies ==
  ASSUME RegistryAssumption, RegistryInv, CapsInv, NEW d \in DeviceIds, Pair(d)
  PROVE  RepliesWithin' /\ ReplyKept'
<1>1. PICK i \in Installs \ {BridgeInstall}, b \in Bindings \cup {NoBinding}, k \in Keys :
        LiveResponses(k) = {} /\ CreatePendingWithResponse(d, i, b, k)
  BY DEF Pair
<1> DEFINE kept == {r \in responses : r.expires > now /\ r.key # k}
           new == [key |-> k, device |-> d, expires |-> now + PendingTTL]
           pending == PendingIn(Unexpired) \cup {d}
<1>2. responses' \in Trimmed(kept \cup {new}, pending) /\ devices' = WithPending(d, i, b)
  BY <1>1 DEF CreatePendingWithResponse
<1>3. /\ IsFiniteSet(responses') /\ Cardinality(responses') <= MaxResponses
      /\ \A x \in kept \cup {new} : x.device \in pending => x \in responses'
  <2>1. RepliesWithin
    BY DEF CapsInv
  <2> HIDE DEF kept, new, pending
  <2>2. kept \in SUBSET responses
    BY DEF kept
  <2>3. responses' \in Trimmed(kept \cup {new}, pending)
    BY <1>2
  <2>4. \A q \in Trimmed(kept \cup {new}, pending) :
          /\ IsFiniteSet(q) /\ Cardinality(q) <= MaxResponses
          /\ \A x \in kept \cup {new} : x.device \in pending => x \in q
    BY <2>1, <2>2, TrimmedReplies, ZenonT(40)
  <2> QED
    BY <2>3, <2>4
<1>4. d \notin Registered
  BY <1>1, UnissuedUnregistered DEF CreatePendingWithResponse
<1>5. /\ Registered' = Unexpired \cup {d}
      /\ devices'[d].expires = now + PendingTTL
      /\ \A x \in Unexpired : x # d /\ devices'[x] = devices[x]
  BY <1>2, <1>4, UnexpiredRegistered DEF WithPending, Registered
<1>6. ASSUME NEW x \in PendingIn(Registered)', devices'[x].install # BridgeInstall
      PROVE  \E r \in responses' : r.device = x /\ r.expires = devices'[x].expires
  <2>1. CASE x = d
    <3>1. new \in responses'
      BY <1>3
    <3> QED
      BY <2>1, <3>1, <1>5
  <2>2. CASE x # d
    <3>1. x \in PendingIn(Unexpired) /\ x \in Registered /\ devices'[x] = devices[x]
      BY <1>5, <1>6, <2>2, UnexpiredRegistered DEF PendingIn, IsPending
    <3>2. PICK r \in responses : r.device = x /\ r.expires = devices[x].expires
      BY <1>6, <3>1 DEF CapsInv, ReplyKept, PendingIn
    <3>3. r.expires > now
      <4>1. ~(now >= devices[x].expires)
        BY <3>1 DEF PendingIn, Unexpired, PendingExpired
      <4>2. now \in Nat /\ devices[x].expires \in Nat
        BY <3>1 DEF RegistryInv, RegistryTypeOK, Registered, Device
      <4> QED
        BY <3>2, <4>1, <4>2
    <3>4. r.key # k
      BY <1>1, <3>3 DEF LiveResponses
    <3>5. r \in responses'
      BY <1>3, <3>1, <3>2, <3>3, <3>4
    <3> QED
      BY <3>1, <3>2, <3>5
  <2> QED
    BY <2>1, <2>2
<1>7. ReplyKept'
  BY <1>6 DEF ReplyKept
<1> QED
  BY <1>3, <1>7 DEF RepliesWithin

\* Whoever is pending afterwards was so before, with the same expiry, or is the bridge.
LEMMA RepliesStay ==
  ASSUME CapsInv, UNCHANGED responses,
         \A x \in PendingIn(Registered)' :
           \/ devices'[x].install = BridgeInstall
           \/ x \in Registered /\ devices'[x].state = devices[x].state
              /\ devices'[x].expires = devices[x].expires
              /\ devices'[x].install = devices[x].install
  PROVE  RepliesWithin' /\ ReplyKept'
<1>1. RepliesWithin'
  BY DEF CapsInv, RepliesWithin
<1>2. ReplyKept'
  BY DEF CapsInv, ReplyKept, PendingIn, IsPending
<1> QED
  BY <1>1, <1>2

LEMMA CapsNext ==
  RegistryAssumption /\ RegistryInv /\ CapsInv /\ [Next]_vars => CapsInv'
<1> SUFFICES ASSUME RegistryAssumption, RegistryInv, CapsInv, [Next]_vars
             PROVE  CapsInv'
  OBVIOUS
<1>r. RecordsWithin'
  BY RecordsNext DEF CapsInv
<1>u. Unexpired \subseteq Registered
  BY UnexpiredRegistered
<1>1. CASE \E d \in DeviceIds : Pair(d)
  <2>1. RepliesWithin' /\ ReplyKept'
    BY <1>1, PairKeepsReplies
  <2>2. TombstonesWithin'
    BY <1>1 DEF Pair, CreatePendingWithResponse, CapsInv, TombstonesWithin
  <2> QED
    BY <1>r, <2>1, <2>2 DEF CapsInv
<1>2. ASSUME NEW d \in DeviceIds, CanActivate(d), devices' = WithActivated(d),
             UNCHANGED <<responses, revocations>>
      PROVE  CapsInv'
  <2>1. d \in Unexpired
    BY <1>2 DEF CanActivate
  <2>2. /\ Registered' = (Unexpired \ Superseded(d)) \cup {d} /\ devices'[d].state = "active"
        /\ \A x \in (Unexpired \ Superseded(d)) \ {d} : devices'[x] = devices[x]
    BY <1>2, <2>1, WithActivatedType DEF RegistryInv, Registered
  <2>3. \A x \in PendingIn(Registered)' : x \in Registered /\ devices'[x] = devices[x]
    BY <1>u, <2>2 DEF PendingIn, IsPending
  <2>4. RepliesWithin' /\ ReplyKept'
    BY <1>2, <2>3, RepliesStay
  <2> QED
    BY <1>2, <1>r, <2>4 DEF CapsInv, TombstonesWithin
<1>3. ASSUME NEW d \in DeviceIds, NEW b \in Bindings, BindCloudUser(d, b)
      PROVE  CapsInv'
  <2>1. devices' = [devices EXCEPT ![d].bound = b] /\ UNCHANGED <<responses, revocations>>
    BY <1>3 DEF BindCloudUser
  <2>2. \A x \in Registered : devices[x] \in Device
    BY DEF RegistryInv, RegistryTypeOK, Registered
  <2>3. \A x \in Registered' : /\ x \in Registered /\ devices'[x].state = devices[x].state
                               /\ devices'[x].expires = devices[x].expires
                               /\ devices'[x].install = devices[x].install
    BY <2>1, <2>2 DEF Registered, Device
  <2>4. RepliesWithin' /\ ReplyKept'
    BY <2>1, <2>3, RepliesStay DEF PendingIn
  <2> QED
    BY <2>1, <1>r, <2>4 DEF CapsInv, TombstonesWithin
<1>4. ASSUME NEW S, devices' = Without(S), UNCHANGED responses
      PROVE  RepliesWithin' /\ ReplyKept'
  <2>1. \A x \in Registered' : x \in Registered /\ devices'[x] = devices[x]
    BY <1>4 DEF Without, Registered
  <2> QED
    BY <1>4, <2>1, RepliesStay DEF PendingIn
<1>5. CASE \E d \in DeviceIds : Revoke(d)
  BY <1>5, <1>4, <1>r DEF Revoke, CapsInv, TombstonesWithin
<1>6. ASSUME NEW d \in DeviceIds, NEW b \in Bindings, RevokeCloudDevice(d, b)
      PROVE  CapsInv'
  <2>1. RepliesWithin' /\ ReplyKept'
    BY <1>6, <1>4 DEF RevokeCloudDevice
  <2>2. PICK kept \in SUBSET revocations :
               revocations' \in Capped(kept, [device |-> d, bound |-> b,
                                              expires |-> now + RevocationTTL])
    BY <1>6 DEF RevokeCloudDevice, LiveRevocations
  <2>3. TombstonesWithin'
    BY <2>2, CappedTombstones DEF CapsInv, TombstonesWithin
  <2> QED
    BY <1>r, <2>1, <2>3 DEF CapsInv
<1>7. ASSUME NEW d \in DeviceIds, MintBridge(d)
      PROVE  CapsInv'
  <2> DEFINE pending == WithPending(d, BridgeInstall, NoBinding)
             others  == {x \in Unexpired : devices[x].install # BridgeInstall}
  <2>1. \A x \in Registered' : x # d => x \in Unexpired /\ devices'[x] = devices[x]
    BY <1>7 DEF MintBridge, WithPending, Registered
  <2>2. devices'[d].install = BridgeInstall
    <3>1. pending[d] \in Device /\ pending[d].install = BridgeInstall
      <4>1. BridgeInstall \in Installs /\ NoBinding \in Bindings \cup {NoBinding}
        BY DEF RegistryAssumption
      <4>2. /\ pending \in [Unexpired \cup {d} -> Device]
            /\ pending[d] = [state |-> "pending", install |-> BridgeInstall,
                             bound |-> NoBinding, expires |-> now + PendingTTL]
        BY <4>1, WithPendingType DEF RegistryInv
      <4> HIDE DEF pending
      <4> QED
        BY <4>2
    <3>2. [pending[d] EXCEPT !.state = "active", !.expires = 0].install = BridgeInstall
      BY <3>1 DEF Device
    <3> QED
      BY <1>7, <3>1, <3>2 DEF MintBridge
  <2>3. UNCHANGED <<responses, revocations>>
    BY <1>7 DEF MintBridge
  <2>4. \A x \in PendingIn(Registered)' : x # d => x \in Registered /\ devices'[x] = devices[x]
    BY <1>u, <2>1 DEF PendingIn
  <2>5. RepliesWithin' /\ ReplyKept'
    BY <2>2, <2>3, <2>4, RepliesStay
  <2> QED
    BY <1>r, <2>3, <2>5 DEF CapsInv, TombstonesWithin
<1>8. CASE Tick \/ UNCHANGED vars
  <2>1. UNCHANGED <<devices, responses, revocations>>
    BY <1>8 DEF Tick, vars
  <2>2. RepliesWithin' /\ ReplyKept'
    BY <2>1, RepliesStay DEF PendingIn, Registered
  <2> QED
    BY <1>r, <2>1, <2>2 DEF CapsInv, TombstonesWithin
<1> QED
  BY <1>1, <1>2, <1>3, <1>5, <1>6, <1>7, <1>8 DEF Next, ActivatePending, ActivatePendingForCloud

\* Whatever is paired, activated, bound and revoked, the registry never holds more
\* records, replies or tombstones than its caps, and a client that lost the answer
\* of a finish can fetch it for as long as its credential can be activated
\* (withPending, withActivated, trimPairingResponses, withCloudDeviceRevoked).
THEOREM CapsHold == Spec => []CapsKeepReplies
<1>1. RegistryInv /\ CapsInv => CapsKeepReplies
  <2> SUFFICES ASSUME RegistryInv, CapsInv PROVE CapsKeepReplies
    OBVIOUS
  <2>1. WithinCaps
    BY DEF CapsInv, RecordsWithin, RepliesWithin, TombstonesWithin, WithinCaps
  <2>2. ASSUME NEW d \in PendingIn(Unexpired), devices[d].install # BridgeInstall
        PROVE  \E r \in responses : r.device = d /\ r.expires > now
    <3>1. d \in PendingIn(Registered) /\ ~(now >= devices[d].expires)
      BY <2>2, UnexpiredRegistered DEF PendingIn, Unexpired, PendingExpired
    <3>2. PICK r \in responses : r.device = d /\ r.expires = devices[d].expires
      BY <2>2, <3>1 DEF CapsInv, ReplyKept
    <3>3. now \in Nat /\ devices[d].expires \in Nat
      BY <3>1 DEF RegistryInv, RegistryTypeOK, PendingIn, Registered, Device
    <3> QED
      BY <3>1, <3>2, <3>3
  <2> QED
    BY <2>1, <2>2 DEF CapsKeepReplies, PendingHasReply
<1>2. Init => CapsInv
  BY RegistryAssumption, CapsInit
<1>3. RegistryInv /\ CapsInv /\ [Next]_vars => CapsInv'
  BY RegistryAssumption, CapsNext
<1> QED
  BY <1>1, <1>2, <1>3, RegistryInvariant, PTL DEF Spec

-----------------------------------------------------------------------------
(* The registry implements AccessLifecycle.  Each mutation is a step of    *)
(* the abstract life (or leaves it alone): the expired provisional records *)
(* it drops are the ones that lapse, and IssuedAsRecorded makes "same      *)
(* install" mean the same thing.                                           *)

Lapsed == Registered \ Unexpired

\* What the life of a credential is, case by case.
LEMMA LifeOf ==
  ASSUME NEW d \in DeviceIds
  PROVE  /\ d \in Registered /\ IsActive(d) => Life[d] = "usable"
         /\ d \in Registered /\ ~IsActive(d) => Life[d] = "provisional"
         /\ d \notin Registered /\ issuedTo[d] = NoInstall => Life[d] = "unissued"
         /\ d \notin Registered /\ issuedTo[d] # NoInstall => Life[d] = "gone"
BY DEF Life

LEMMA LifeOfNext ==
  ASSUME NEW d \in DeviceIds
  PROVE  /\ d \in DOMAIN devices' /\ devices'[d].state = "active" => Life'[d] = "usable"
         /\ d \in DOMAIN devices' /\ devices'[d].state # "active" => Life'[d] = "provisional"
         /\ d \notin DOMAIN devices' /\ issuedTo'[d] = NoInstall => Life'[d] = "unissued"
         /\ d \notin DOMAIN devices' /\ issuedTo'[d] # NoInstall => Life'[d] = "gone"
BY DEF Life, Registered, IsActive

\* Registered credentials were issued, to the install of their record.
LEMMA RegisteredIssued ==
  ASSUME RegistryInv, RegistryAssumption, NEW d \in Registered
  PROVE  /\ d \in DeviceIds
         /\ issuedTo[d] = devices[d].install /\ issuedTo[d] # NoInstall
         /\ IsActive(d) <=> ~IsPending(d)
<1>1. devices[d] \in Device
  BY DEF RegistryInv, RegistryTypeOK, Registered
<1> QED
  BY <1>1 DEF RegistryInv, RegistryTypeOK, IssuedAsRecorded, Registered, Device,
              RegistryAssumption, IsActive, IsPending

LEMMA LapsedProvisional ==
  ASSUME RegistryInv, RegistryAssumption
  PROVE  /\ Lapsed \subseteq Access!Provisional
         /\ \A d \in Lapsed : d \in DeviceIds /\ issuedTo[d] # NoInstall /\ Life[d] = "provisional"
<1> SUFFICES ASSUME NEW d \in Lapsed
             PROVE  d \in DeviceIds /\ issuedTo[d] # NoInstall /\ Life[d] = "provisional"
  BY DEF Access!Provisional
<1>1. d \in Registered /\ IsPending(d)
  BY DEF Lapsed, Unexpired, PendingExpired
<1> QED
  BY <1>1, RegisteredIssued, LifeOf

\* withPending issues a provisional credential.
LEMMA PendingIsIssue ==
  ASSUME RegistryInv, RegistryAssumption, NEW d \in DeviceIds, NEW i \in Installs,
         NEW b \in Bindings \cup {NoBinding},
         issuedTo[d] = NoInstall, devices' = WithPending(d, i, b),
         issuedTo' = [issuedTo EXCEPT ![d] = i]
  PROVE  Access!Issue(d, i)
<1>1. d \notin Registered
  BY UnissuedUnregistered
<1>2. Life[d] = "unissued"
  BY <1>1, LifeOf
<1>3. /\ DOMAIN devices' = Unexpired \cup {d} /\ devices'[d].state = "pending"
      /\ \A x \in Unexpired : x # d => devices'[x] = devices[x]
  BY DEF WithPending
<1>4. issuedTo' [d] = i /\ \A x \in DeviceIds \ {d} : issuedTo'[x] = issuedTo[x]
  BY DEF RegistryInv, RegistryTypeOK
<1>5. ASSUME NEW x \in DeviceIds
      PROVE  Life'[x] = IF x = d THEN "provisional"
                        ELSE IF x \in Lapsed THEN "gone" ELSE Life[x]
  <2>1. CASE x = d
    BY <2>1, <1>3, LifeOfNext
  <2>2. CASE x # d /\ x \in Unexpired
    BY <2>2, <1>3, UnexpiredRegistered, LifeOf, LifeOfNext DEF Lapsed, IsActive
  <2>3. CASE x # d /\ x \in Lapsed
    BY <2>3, <1>3, <1>4, LapsedProvisional, LifeOfNext DEF Lapsed
  <2>4. CASE x # d /\ x \notin Registered
    BY <2>4, <1>3, <1>4, UnexpiredRegistered, LifeOf, LifeOfNext DEF Lapsed
  <2> QED
    BY <2>1, <2>2, <2>3, <2>4 DEF Lapsed
<1>6. Life' = [x \in DeviceIds |-> IF x = d THEN "provisional"
                                  ELSE IF x \in Lapsed THEN "gone" ELSE Life[x]]
  BY <1>5 DEF Life
<1> QED
  BY <1>2, <1>6, LapsedProvisional DEF Access!Issue

\* withActivated promotes one.
LEMMA ActivatedIsPromote ==
  ASSUME RegistryInv, RegistryAssumption, NEW d \in DeviceIds,
         CanActivate(d), devices' = WithActivated(d), UNCHANGED issuedTo
  PROVE  Access!Promote(d)
<1>1. d \in Registered /\ d \in Unexpired /\ IsPending(d)
  BY UnexpiredRegistered DEF CanActivate
<1>2. Life[d] = "provisional" /\ d \notin Lapsed
  BY <1>1, LifeOf, RegisteredIssued DEF Lapsed
<1>3. /\ DOMAIN devices' = (Unexpired \ Superseded(d)) \cup {d} /\ devices'[d].state = "active"
      /\ \A x \in (Unexpired \ Superseded(d)) \ {d} : devices'[x] = devices[x]
  <2>1. RegistryTypeOK
    BY DEF RegistryInv
  <2> QED
    BY <1>1, <2>1, WithActivatedType
<1>4. ASSUME NEW x \in DeviceIds
      PROVE  Life'[x] = IF x = d THEN "usable"
                        ELSE IF x \in Lapsed \cup Access!SameInstall(d) THEN "gone" ELSE Life[x]
  <2>1. CASE x = d
    BY <2>1, <1>3, LifeOfNext
  <2>2. CASE x # d /\ x \in Unexpired /\ x \notin Superseded(d)
    <3>1. x \in Registered /\ x \notin Lapsed
      BY <2>2, UnexpiredRegistered DEF Lapsed
    <3>2. x \notin Access!SameInstall(d)
      BY <2>2, <3>1, <1>1, RegisteredIssued DEF Access!SameInstall, Superseded, OfInstall
    <3> QED
      BY <2>2, <3>1, <3>2, <1>3, LifeOf, LifeOfNext DEF IsActive
  <2>3. CASE x # d /\ x \in Superseded(d)
    <3>1. x \in Registered /\ devices[x].install = devices[d].install
      BY <2>3 DEF Superseded, OfInstall
    <3>2. x \in Access!SameInstall(d) /\ issuedTo'[x] # NoInstall
      BY <3>1, <1>1, RegisteredIssued DEF Access!SameInstall
    <3> QED
      BY <2>3, <3>2, <1>3, LifeOfNext
  <2>4. CASE x # d /\ x \in Lapsed
    BY <2>4, <1>3, LapsedProvisional, LifeOfNext DEF Lapsed
  <2>5. CASE x \notin Registered
    <3>1. x # d /\ x \notin DOMAIN devices' /\ x \notin Lapsed
      BY <2>5, <1>1, <1>3, UnexpiredRegistered DEF Lapsed
    <3>2. CASE issuedTo[x] = NoInstall
      <4>1. x \notin Access!SameInstall(d)
        BY <3>2, <1>1, RegisteredIssued DEF Access!SameInstall
      <4> QED
        BY <2>5, <3>1, <3>2, <4>1, LifeOf, LifeOfNext
    <3>3. CASE issuedTo[x] # NoInstall
      BY <2>5, <3>1, <3>3, LifeOf, LifeOfNext
    <3> QED
      BY <3>2, <3>3
  <2> QED
    BY <2>1, <2>2, <2>3, <2>4, <2>5 DEF Lapsed
<1>5. Life' = [x \in DeviceIds |->
                 IF x = d THEN "usable"
                 ELSE IF x \in Lapsed \cup Access!SameInstall(d) THEN "gone" ELSE Life[x]]
  BY <1>4 DEF Life
<1>6. Lapsed \in SUBSET (Access!Provisional \ {d})
  BY <1>2, LapsedProvisional
<1> QED
  BY <1>2, <1>5, <1>6 DEF Access!Promote

\* Either revocation withdraws one, with the pending re-pairings of its install.
LEMMA RevokedIsWithdraw ==
  ASSUME RegistryInv, RegistryAssumption, NEW d \in Registered,
         devices' = Without(RevokedWith(d)), UNCHANGED issuedTo
  PROVE  Access!Withdraw(d)
<1> DEFINE Gone(x) == x = d \/ x \in Access!Provisional \cap Access!SameInstall(d)
<1>1. d \in DeviceIds /\ Life[d] \in {"provisional", "usable"}
  BY LifeOf, RegisteredIssued
<1>2. /\ DOMAIN devices' = Registered \ RevokedWith(d)
      /\ \A x \in Registered \ RevokedWith(d) : devices'[x] = devices[x]
  BY DEF Without
<1>3. ASSUME NEW x \in DeviceIds
      PROVE  Life'[x] = IF Gone(x) THEN "gone" ELSE Life[x]
  <2>1. CASE x \in RevokedWith(d)
    <3>1. x \in Registered /\ (x = d \/ (IsPending(x) /\ devices[x].install = devices[d].install))
      BY <2>1 DEF RevokedWith, PendingIn, OfInstall
    <3>2. Gone(x)
      BY <3>1, LifeOf, RegisteredIssued DEF Access!Provisional, Access!SameInstall
    <3> QED
      BY <2>1, <3>1, <3>2, <1>2, RegisteredIssued, LifeOfNext
  <2>2. CASE x \in Registered /\ x \notin RevokedWith(d)
    <3>1. x # d /\ (IsActive(x) \/ devices[x].install # devices[d].install)
      BY <2>2, RegisteredIssued DEF RevokedWith, PendingIn, OfInstall
    <3>2. ~Gone(x)
      BY <2>2, <3>1, LifeOf, RegisteredIssued DEF Access!Provisional, Access!SameInstall
    <3> QED
      BY <2>2, <3>2, <1>2, LifeOf, LifeOfNext DEF IsActive
  <2>3. CASE x \notin Registered
    <3>1. ~Gone(x)
      BY <2>3, LifeOf DEF Access!Provisional
    <3> QED
      BY <2>3, <3>1, <1>2, LifeOf, LifeOfNext
  <2> QED
    BY <2>1, <2>2, <2>3
<1>4. Life' = [x \in DeviceIds |-> IF Gone(x) THEN "gone" ELSE Life[x]]
  BY <1>3 DEF Life
<1> QED
  BY <1>1, <1>4 DEF Access!Withdraw

\* The bridge's credential is issued, and in the same step usable if its second
\* write succeeds.
LEMMA MintIsIssue ==
  ASSUME RegistryInv, RegistryAssumption, NEW d \in DeviceIds, MintBridge(d)
  PROVE  Access!Issue(d, BridgeInstall) \/ Access!IssueUsable(d, BridgeInstall)
<1> DEFINE pending == WithPending(d, BridgeInstall, NoBinding)
           others  == {x \in Unexpired : devices[x].install # BridgeInstall}
           Gone    == Lapsed \cup {y \in DeviceIds : issuedTo[y] = BridgeInstall}
<1>1. /\ issuedTo[d] = NoInstall /\ issuedTo' = [issuedTo EXCEPT ![d] = BridgeInstall]
      /\ BridgeInstall \in Installs /\ NoBinding \in Bindings \cup {NoBinding}
  BY DEF MintBridge, RegistryAssumption
<1>2. CASE devices' = pending
  BY <1>1, <1>2, PendingIsIssue
<1>3. CASE devices' = [x \in others \cup {d} |->
             IF x = d THEN [pending[d] EXCEPT !.state = "active", !.expires = 0]
             ELSE devices[x]]
  <2>1. d \notin Registered /\ Life[d] = "unissued"
    BY <1>1, UnissuedUnregistered, LifeOf
  <2>2. pending[d] = [state |-> "pending", install |-> BridgeInstall, bound |-> NoBinding,
                      expires |-> now + PendingTTL]
    BY DEF WithPending
  <2>3. [pending[d] EXCEPT !.state = "active", !.expires = 0].state = "active"
    BY <2>2
  <2>4. /\ DOMAIN devices' = others \cup {d} /\ devices'[d].state = "active"
        /\ \A x \in others : x # d => devices'[x] = devices[x]
    BY <1>3, <2>3
  <2>5. /\ BridgeInstall # NoInstall
        /\ \A x \in DeviceIds \ {d} : issuedTo'[x] = issuedTo[x]
    BY <1>1 DEF RegistryInv, RegistryTypeOK, RegistryAssumption
  <2>6. ASSUME NEW x \in DeviceIds
        PROVE  Life'[x] = IF x = d THEN "usable" ELSE IF x \in Gone THEN "gone" ELSE Life[x]
    <3>1. CASE x = d
      BY <3>1, <2>4, LifeOfNext
    <3>2. CASE x # d /\ x \in others
      <4>1. x \in Registered /\ x \notin Gone
        BY <3>2, UnexpiredRegistered, RegisteredIssued DEF Lapsed
      <4> QED
        BY <3>2, <4>1, <2>4, LifeOf, LifeOfNext DEF IsActive
    <3>3. CASE x # d /\ x \in Registered /\ x \notin others
      <4>1. x \in Gone /\ issuedTo'[x] # NoInstall
        BY <3>3, <2>5, RegisteredIssued DEF Lapsed
      <4> QED
        BY <3>3, <4>1, <2>4, LifeOfNext
    <3>4. CASE x # d /\ x \notin Registered
      <4>1. x \notin DOMAIN devices' /\ x \notin Lapsed
        BY <3>4, <2>4, UnexpiredRegistered DEF Lapsed
      <4> QED
        BY <3>4, <4>1, <2>5, LifeOf, LifeOfNext
    <3> QED
      BY <3>1, <3>2, <3>3, <3>4
  <2>7. Life' = [x \in DeviceIds |->
                   IF x = d THEN "usable" ELSE IF x \in Gone THEN "gone" ELSE Life[x]]
    BY <2>6 DEF Life
  <2>8. Access!IssueUsable(d, BridgeInstall)
    BY <1>1, <2>1, <2>7, LapsedProvisional DEF Access!IssueUsable
  <2> QED
    BY <2>8
<1> QED
  BY <1>2, <1>3 DEF MintBridge

LEMMA BindIsStutter ==
  ASSUME RegistryInv, NEW d \in DeviceIds, NEW b \in Bindings, BindCloudUser(d, b)
  PROVE  UNCHANGED Access!vars
<1>1. devices' = [devices EXCEPT ![d].bound = b] /\ UNCHANGED issuedTo
  BY DEF BindCloudUser
<1>2. \A x \in Registered : devices[x] \in Device
  BY DEF RegistryInv, RegistryTypeOK, Registered
<1>3. DOMAIN devices' = Registered /\ \A x \in Registered : devices'[x].state = devices[x].state
  BY <1>1, <1>2 DEF Registered, Device
<1>4. ASSUME NEW x \in DeviceIds PROVE Life'[x] = Life[x]
  BY <1>1, <1>3, LifeOf, LifeOfNext DEF IsActive
<1>5. Life' = Life
  BY <1>4 DEF Life
<1> QED
  BY <1>1, <1>5 DEF Access!vars

LEMMA StepRefines ==
  RegistryAssumption /\ RegistryInv /\ [Next]_vars => [Access!Next]_(Access!vars)
<1> SUFFICES ASSUME RegistryAssumption, RegistryInv, [Next]_vars
             PROVE  Access!Next \/ UNCHANGED Access!vars
  OBVIOUS
<1>1. ASSUME NEW d \in DeviceIds, Pair(d) PROVE Access!Next
  BY <1>1, PendingIsIssue DEF Pair, CreatePendingWithResponse, Access!Next
<1>2. ASSUME NEW d \in DeviceIds,
             ActivatePending(d) \/ \E b \in Bindings : ActivatePendingForCloud(d, b)
      PROVE  Access!Next
  BY <1>2, ActivatedIsPromote DEF ActivatePending, ActivatePendingForCloud, Access!Next
<1>3. ASSUME NEW d \in DeviceIds, Revoke(d) \/ \E b \in Bindings : RevokeCloudDevice(d, b)
      PROVE  Access!Next
  BY <1>3, RevokedIsWithdraw DEF Revoke, RevokeCloudDevice, Access!Next
<1>4. ASSUME NEW d \in DeviceIds, MintBridge(d) PROVE Access!Next
  BY <1>4, MintIsIssue DEF Access!Next, RegistryAssumption
<1>5. CASE Tick \/ UNCHANGED vars
  BY <1>5 DEF Tick, vars, Access!vars, Life, Registered, IsActive
<1> QED
  BY <1>1, <1>2, <1>3, <1>4, <1>5, BindIsStutter DEF Next

\* The registry keeps the promise of a credential's life for every population of
\* clients: issued once, one usable per install, and gone for good once it was
\* revoked, replaced or expired.
THEOREM RegistryImplementsAccess == Spec => ImplementsAccessLifecycle
<1>1. Init => Access!Init
  BY DEF Init, Access!Init, Life, Registered
<1>2. RegistryInv /\ [Next]_vars => [Access!Next]_(Access!vars)
  BY RegistryAssumption, StepRefines
<1> QED
  BY <1>1, <1>2, RegistryInvariant, PTL DEF Spec, ImplementsAccessLifecycle, Access!Spec

-----------------------------------------------------------------------------
(* What AccessLifecycle promises *)

AccessInv == Access!LifeTypeOK /\ Access!OneUsablePerInstall

LEMMA AccessInit == Access!Init => AccessInv
BY DEF Access!Init, AccessInv, Access!LifeTypeOK, Access!OneUsablePerInstall, Access!Stages

LEMMA AccessNext == AccessInv /\ [Access!Next]_(Access!vars) => AccessInv'
<1> SUFFICES ASSUME AccessInv, Access!Next \/ UNCHANGED Access!vars
             PROVE  AccessInv'
  BY DEF Access!vars
<1> USE DEF AccessInv, Access!LifeTypeOK, Access!OneUsablePerInstall, Access!Stages,
            Access!Provisional, Access!SameInstall
<1>1. ASSUME NEW c \in DeviceIds, NEW i \in Installs, Access!Issue(c, i)
      PROVE  AccessInv'
  BY <1>1 DEF Access!Issue
<1>2. ASSUME NEW c \in DeviceIds, NEW i \in Installs, Access!IssueUsable(c, i)
      PROVE  AccessInv'
  BY <1>2 DEF Access!IssueUsable
<1>3. ASSUME NEW c \in DeviceIds, Access!Promote(c)
      PROVE  AccessInv'
  BY <1>3 DEF Access!Promote
<1>4. ASSUME NEW c \in DeviceIds, Access!Withdraw(c)
      PROVE  AccessInv'
  BY <1>4 DEF Access!Withdraw
<1>5. CASE UNCHANGED Access!vars
  BY <1>5 DEF Access!vars
<1> QED
  BY <1>1, <1>2, <1>3, <1>4, <1>5 DEF Access!Next

\* In every behaviour of the registry an install never has two usable credentials,
\* by what each credential was issued for, whatever its record says (promote, pair).
THEOREM OneUsable == Spec => []Access!OneUsablePerInstall
<1>1. AccessInv => Access!OneUsablePerInstall
  BY DEF AccessInv
<1> QED
  BY <1>1, AccessInit, AccessNext, RegistryImplementsAccess, PTL
     DEF Access!Spec, ImplementsAccessLifecycle

\* In every behaviour of the registry a credential that was withdrawn, replaced or
\* has lapsed never works again.
THEOREM GoneIsGone == Spec => Access!GoneForever
<1>1. AccessInv /\ [Access!Next]_(Access!vars) =>
        [\A c \in DeviceIds : Life[c] = "gone" => Life'[c] = "gone"]_(Access!vars)
  <2> SUFFICES ASSUME AccessInv, Access!Next, NEW c \in DeviceIds, Life[c] = "gone"
               PROVE  Life'[c] = "gone"
    BY DEF Access!vars
  <2> USE DEF AccessInv, Access!LifeTypeOK, Access!Stages, Access!Provisional, Access!SameInstall
  <2>1. ASSUME NEW x \in DeviceIds, NEW i \in Installs,
               Access!Issue(x, i) \/ Access!IssueUsable(x, i)
        PROVE  Life'[c] = "gone"
    BY <2>1 DEF Access!Issue, Access!IssueUsable
  <2>2. ASSUME NEW x \in DeviceIds, Access!Promote(x) \/ Access!Withdraw(x)
        PROVE  Life'[c] = "gone"
    BY <2>2 DEF Access!Promote, Access!Withdraw
  <2> QED
    BY <2>1, <2>2 DEF Access!Next
<1> QED
  BY <1>1, AccessInit, AccessNext, RegistryImplementsAccess, PTL
     DEF Access!Spec, ImplementsAccessLifecycle, Access!GoneForever
=============================================================================
