---------------------------- MODULE ClientProofs ----------------------------
(***************************************************************************)
(* Proofs about the client's parts, each for every value of its constants: *)
(* the removal of a server profile (ServerRemoval), the store of its       *)
(* credentials (Store, CredentialMigration), Home Assistant Link (Link,    *)
(* CloudLink) and the forms of its MCP server (Forms, McpForms).           *)
(*                                                                         *)
(* What carries the removal is its checkpoint: it lists what the owner     *)
(* confirmed (AsConfirmed), without foreign writes a slot holds what is    *)
(* listed until its outcome is recorded (Listed), and whatever the Relay   *)
(* accepts is listed unless the owner was told (Covered).  A slot that was *)
(* dealt with has an outcome, and a failed one a note (Dealt); a pairing   *)
(* keeps an endpoint with every key the Relay may know (PairingFits).      *)
(*                                                                         *)
(* What carries the store is that a command makes the new copy before it   *)
(* moves the marker, and removes the old one after (Kept).                 *)
(*                                                                         *)
(* What carries the forms is that nothing is read while one is open except *)
(* to look for its answer, so calls and answers keep the order in which    *)
(* they were sent (HandledInOrder, FormIsLast).                            *)
(***************************************************************************)
EXTENDS Client, Sequences, TLAPS

-----------------------------------------------------------------------------
(* Each part behaves as its own specification says *)

LEMMA ServerRuns == PartsSpec => Server!Spec
<1>1. PartsInit => Server!Init
  BY DEF PartsInit
<1>2. [PartsNext]_<<part, vars, store, server, link, forms>> => [Server!Next]_(Server!vars)
  <2>1. UNCHANGED server => UNCHANGED Server!vars
    BY DEF server, Server!vars, Server!config, Server!removal, Server!pairing, Server!faults,
           Server!history
  <2> QED
    BY <2>1 DEF PartsNext
<1> QED
  BY <1>1, <1>2, PTL DEF PartsSpec, Server!Spec

LEMMA StoreRuns == PartsSpec => Store!Spec
<1>1. PartsInit => Store!Init
  BY DEF PartsInit
<1>2. [PartsNext]_<<part, vars, store, server, link, forms>> => [Store!Next]_(Store!vars)
  <2>1. UNCHANGED store => UNCHANGED Store!vars
    BY DEF store, Store!vars, Store!disk, Store!process, Store!relay, Store!ghosts
  <2> QED
    BY <2>1 DEF PartsNext
<1> QED
  BY <1>1, <1>2, PTL DEF PartsSpec, Store!Spec

LEMMA FormsRun == PartsSpec => Forms!Spec
<1>1. PartsInit => Forms!Init
  BY DEF PartsInit
<1>2. [PartsNext]_<<part, vars, store, server, link, forms>> => [Forms!Next]_(Forms!vars)
  <2>1. UNCHANGED forms => UNCHANGED Forms!vars
    BY DEF forms, Forms!vars, Forms!client, Forms!server
  <2> QED
    BY <2>1 DEF PartsNext
<1> QED
  BY <1>1, <1>2, PTL DEF PartsSpec, Forms!Spec

-----------------------------------------------------------------------------
(* The removal of a server profile (ServerRemoval) *)

\* The checkpoint exists from the confirmation on, and goes with the profile.
Phases ==
  /\ at \in Server!RemovalSteps => present /\ Server!Checkpointed
  /\ at \in Server!PairingSteps => present /\ ~Server!Checkpointed
  /\ at = "tell" => ~present
  /\ ~present => at \in {"idle", "tell"} /\ ~Server!Checkpointed
  /\ Server!Checkpointed => \A s \in Server!Slots : checkpoint.done[s] # "never"

\* What is deleted was listed, and what is listed was confirmed.
AsConfirmed ==
  /\ present /\ ~Server!Checkpointed => deleted = {}
  /\ Server!Checkpointed => \A s \in Server!Slots : checkpoint.shown[s] \in confirmed
       \cup {Server!None}
  /\ \A s \in Server!Slots :
       checkpoint.done[s] \in {"revoked", "failed", "local"} => checkpoint.shown[s] # Server!None
  /\ at \in {"revoke", "record", "delete"} => \A s \in held : checkpoint.shown[s] # Server!None
  /\ at \in {"record", "delete"} => this \in held
  /\ at \in {"record", "delete"} => outcome # "none"
  /\ at = "delete" => checkpoint.done[this] = outcome
  /\ Server!OnlyConfirmedGoes

\* Without foreign writes a slot holds what is listed, until it is deleted, and that
\* comes after its outcome.
Listed ==
  Server!Checkpointed /\ ~foreign =>
    \A s \in Server!Slots :
      /\ slot[s] \in {Server!None, checkpoint.shown[s]}
      /\ checkpoint.done[s] = "not yet" => slot[s] = checkpoint.shown[s]

\* A key that the Relay may know has an endpoint, at every step of a pairing.
PairingFits ==
  /\ slot["current"] \in Server!Creds => "current" \in urls
  /\ slot["pending"] \in Server!Creds /\ "pending" \notin urls => slot["pending"] # active
  /\ active <= issued
  /\ \A s \in Server!Slots : slot[s] \in Server!Creds => slot[s] <= issued
  /\ at \in Server!PairingSteps => fresh \in 1..issued
  /\ at = "store" => fresh # active
  /\ at \in {"endpoint", "activate"} => slot["pending"] = fresh
  /\ at = "activate" => "pending" \in urls
  /\ at = "promote" => "current" \in urls
  /\ at = "settle" => slot["pending"] = Server!None

\* The Relay accepts a key that the owner is to hear of.
Owed == blind = {} /\ active \notin told \cup {Server!None}

\* This run needs to do nothing more about the slot.
Settled(s) ==
  /\ at \in {"revoke", "record", "delete", "prove"}
  /\ s \notin held \/ at = "prove" \/ (this = "current" /\ s = "pending")

\* What the Relay accepts is listed, unless the owner was told; it is not what was
\* revoked, and not what never got an endpoint.
Covered ==
  /\ Server!Checkpointed =>
       /\ Owed => \E s \in Server!Slots : checkpoint.shown[s] \in {active, Server!Junk}
       /\ \A s \in Server!Slots : checkpoint.done[s] \in {"revoked", "local"}
                             => checkpoint.shown[s] \in Server!Creds \ {active}
       /\ \A s \in Server!Slots : checkpoint.shown[s] \in Server!Creds /\ s \notin urls
                             => checkpoint.shown[s] # active
  /\ at \in {"record", "delete"} /\ outcome \in {"revoked", "local"}
       => checkpoint.shown[this] \in Server!Creds \ {active}

\* A slot that was dealt with has its outcome, and a failed one its note.
Dealt ==
  \A s \in Server!Slots :
    Settled(s) /\ checkpoint.shown[s] # Server!None
      => /\ checkpoint.done[s] # "not yet"
         /\ checkpoint.done[s] = "failed" => Server!About(s) \subseteq notes

\* When the profile is gone, what is owed is in the notes, until they are said.
NotesFollow ==
  /\ at = "tell" /\ Owed => active \in notes
  /\ ~present /\ at # "tell" => ~Owed


LEMMA ContentsApart ==
  ASSUME Server!RemovalAssumption
  PROVE  /\ Server!None \notin Server!Creds /\ Server!Junk \notin Server!Creds
              /\ Server!Junk # Server!None
         /\ Server!Creds \subseteq Nat /\ 0..MaxCred = Server!Creds \cup {Server!None}
         /\ "pending" \in Server!Slots /\ "current" \in Server!Slots /\ "pending" # "current"
         /\ \A s \in Server!Slots : s = "pending" \/ s = "current"
BY DEF Server!RemovalAssumption, Server!Creds, Server!None, Server!Junk, Server!Slots

-----------------------------------------------------------------------------
(* Type correctness *)

LEMMA RemovalTypeInit == ASSUME Server!RemovalAssumption, Server!Init PROVE Server!RemovalTypeOK
<1>1. checkpoint \in [shown : [Server!Slots -> Server!Creds \cup {Server!None, Server!Junk}],
                     done : [Server!Slots -> {"never", "not yet", "revoked", "failed", "local"}]]
  BY DEF Server!Init, Server!NoCheckpoint
<1>2. asked \in [Askers -> [urls : SUBSET Server!Slots,
        slot : [Server!Slots -> Server!Creds \cup {Server!None, Server!Junk}],
                           waits : BOOLEAN]]
  BY DEF Server!Init, Server!NoAnswer
<1>3. slot \in [Server!Slots -> Server!Creds \cup {Server!None, Server!Junk}]
  BY DEF Server!Init
<1>4. issued \in 0..MaxCred /\ kills \in 0..MaxKills /\ writes \in 0..MaxWrites
  BY DEF Server!Init, Server!RemovalAssumption
<1> QED
  BY <1>1, <1>2, <1>3, <1>4 DEF Server!Init, Server!RemovalTypeOK, Server!Slots

\* What a note names is a credential: a slot with an outcome was listed.
LEMMA NotesAreCreds ==
  ASSUME Server!RemovalAssumption, Server!RemovalTypeOK, NEW s \in Server!Slots,
           checkpoint.shown[s] # Server!None
  PROVE  Server!About(s) \subseteq Server!Creds
<1>0. issued \in 0..MaxCred
  BY DEF Server!RemovalTypeOK
<1>1. 1..issued \subseteq Server!Creds
  BY <1>0 DEF Server!RemovalAssumption, Server!Creds
<1>2. checkpoint.shown[s] \in Server!Creds \cup {Server!Junk}
  BY DEF Server!RemovalTypeOK
<1> QED
  BY <1>1, <1>2 DEF Server!About

LEMMA RecordedAreCreds ==
  ASSUME Server!RemovalAssumption, Server!RemovalTypeOK, AsConfirmed
  PROVE Server!Recorded \subseteq Server!Creds
<1>1. \A s \in Server!Slots : checkpoint.done[s] = "failed"
        => Server!About(s) \subseteq Server!Creds
  BY NotesAreCreds DEF AsConfirmed
<1> QED
  BY <1>1 DEF Server!Recorded

LEMMA RemovalTypeNext ==
  ASSUME Server!RemovalAssumption, Server!RemovalTypeOK, AsConfirmed, [Server!Next]_(Server!vars)
  PROVE Server!RemovalTypeOK'
<1> USE DEF Server!config, Server!removal, Server!pairing, Server!faults, Server!history
<1>c. /\ Server!None \notin Server!Creds /\ Server!Junk \notin Server!Creds
           /\ Server!Junk # Server!None /\ Server!Creds \subseteq Nat
      /\ "pending" \in Server!Slots /\ "current" \in Server!Slots
  BY ContentsApart
<1>1. ASSUME NEW a \in Askers, Server!Ask(a) \/ Server!Refuse(a) PROVE Server!RemovalTypeOK'
  <2>1. asked' \in [Askers -> [urls : SUBSET Server!Slots,
          slot : [Server!Slots -> Server!Creds \cup {Server!None, Server!Junk}],
                               waits : BOOLEAN]]
    <3> DEFINE S == [urls : SUBSET Server!Slots, slot : [Server!Slots -> Server!Creds
          \cup {Server!None, Server!Junk}], waits : BOOLEAN]
    <3>1. PICK v \in S : asked' = [asked EXCEPT ![a] = v]
      <4>1. Server!NoAnswer \in S
        BY DEF Server!NoAnswer
      <4>2. [urls |-> urls, slot |-> slot, waits |-> TRUE] \in S
        BY DEF Server!RemovalTypeOK
      <4> QED
        BY <1>1, <4>1, <4>2 DEF Server!Ask, Server!Refuse
    <3>2. asked \in [Askers -> S]
      BY DEF Server!RemovalTypeOK
    <3> HIDE DEF S
    <3>3. asked' \in [Askers -> S]
      BY <3>1, <3>2
    <3> QED
      BY <3>3 DEF S
  <2> QED
    BY <1>1, <2>1 DEF Server!Ask, Server!Refuse, Server!RemovalTypeOK
<1>2. ASSUME NEW a \in Askers, Server!Confirm(a) PROVE Server!RemovalTypeOK'
  <2>1. {asked[a].slot[s] : s \in Server!Slots} \ {Server!None} \subseteq Server!Creds
          \cup {Server!Junk}
    <3>1. asked[a] \in [urls : SUBSET Server!Slots,
            slot : [Server!Slots -> Server!Creds \cup {Server!None, Server!Junk}], waits : BOOLEAN]
      BY DEF Server!RemovalTypeOK
    <3>2. \A s \in Server!Slots : asked[a].slot[s] \in Server!Creds \cup {Server!None, Server!Junk}
      BY <3>1
    <3> QED
      BY <3>2
  <2>2. checkpoint' \in [shown : [Server!Slots -> Server!Creds \cup {Server!None, Server!Junk}],
                         done : [Server!Slots -> {"never", "not yet", "revoked", "failed",
                           "local"}]]
    BY <1>2 DEF Server!Confirm, Server!RemovalTypeOK
  <2>3. asked' \in [Askers -> [urls : SUBSET Server!Slots,
          slot : [Server!Slots -> Server!Creds \cup {Server!None, Server!Junk}],
                               waits : BOOLEAN]]
    BY <1>2 DEF Server!Confirm, Server!RemovalTypeOK, Server!NoAnswer
  <2> QED
    BY <1>2, <2>1, <2>2, <2>3 DEF Server!Confirm, Server!RemovalSteps, Server!RemovalTypeOK
<1>3. CASE Server!Resume \/ Server!Skip
  BY <1>3, <1>c
     DEF Server!Resume, Server!Skip, Server!Onward, Server!RemovalSteps, Server!RemovalTypeOK
<1>4. CASE Server!Begin
  BY <1>4, <1>c, RecordedAreCreds DEF Server!Begin, Server!RemovalSteps, Server!RemovalTypeOK
<1>5. CASE Server!Revoke
  BY <1>5 DEF Server!Revoke, Server!RemovalSteps, Server!RemovalTypeOK
<1>6. CASE Server!Record
  <2>1. checkpoint' \in [shown : [Server!Slots -> Server!Creds \cup {Server!None, Server!Junk}],
                         done : [Server!Slots -> {"never", "not yet", "revoked", "failed",
                           "local"}]]
    <3>1. checkpoint' = [checkpoint EXCEPT !.done = [checkpoint.done EXCEPT ![this] = outcome]]
      BY <1>6 DEF Server!Record, Server!RemovalTypeOK
    <3>2. outcome \in {"revoked", "failed", "local"}
      BY <1>6 DEF Server!Record, AsConfirmed, Server!RemovalTypeOK
    <3>3. [checkpoint.done EXCEPT ![this] = outcome]
            \in [Server!Slots -> {"never", "not yet", "revoked", "failed", "local"}]
      BY <3>2 DEF Server!RemovalTypeOK
    <3> QED
      BY <3>1, <3>3 DEF Server!RemovalTypeOK
  <2> QED
    BY <1>6, <2>1 DEF Server!Record, Server!RemovalSteps, Server!RemovalTypeOK
<1>7. CASE Server!Delete
  <2>1. Server!About(this) \subseteq Server!Creds
    BY <1>7, NotesAreCreds DEF Server!Delete, AsConfirmed, Server!RemovalTypeOK
  <2>2. deleted' \in SUBSET (Server!Creds \cup {Server!Junk})
          /\ slot' \in [Server!Slots -> Server!Creds \cup {Server!None, Server!Junk}]
    BY <1>7 DEF Server!Delete, Server!RemovalTypeOK
  <2> QED
    BY <1>7, <1>c, <2>1, <2>2
       DEF Server!Delete, Server!Onward, Server!RemovalSteps, Server!RemovalTypeOK
<1>8. CASE Server!Prove
  BY <1>8 DEF Server!Prove, Server!NoCheckpoint, Server!RemovalTypeOK
<1>9. CASE Server!Tell \/ Server!Stop
  BY <1>9, RecordedAreCreds DEF Server!Tell, Server!Stop, Server!RemovalTypeOK
<1>10. CASE Server!StartPairing
  <2>1. issued \in 0..MaxCred
    BY DEF Server!RemovalTypeOK
  <2>2. issued' \in 0..MaxCred /\ fresh' \in Server!Creds
    BY <1>10, <2>1 DEF Server!StartPairing, Server!RemovalAssumption, Server!Creds
  <2> QED
    BY <1>10, <2>2 DEF Server!StartPairing, Server!PairingSteps, Server!RemovalTypeOK
<1>11. CASE Server!ResumePairing
  BY <1>11
     DEF Server!ResumePairing, Server!MayPair, Server!Resumable, Server!PairingSteps,
         Server!RemovalTypeOK
<1>12. CASE Server!PairingWrites
  <2>1. ASSUME NEW to \in {"idle"} \cup Server!PairingSteps, NEW v \in Server!Creds
                 \cup {Server!None, Server!Junk},
               NEW s \in Server!Slots, NEW u \in SUBSET Server!Slots, NEW from,
               Server!Write(from, to, slot, u) \/ Server!Write(from, to, [slot EXCEPT ![s] = v], u)
        PROVE  Server!RemovalTypeOK'
    <3>1. [slot EXCEPT ![s] = v] \in [Server!Slots -> Server!Creds \cup {Server!None, Server!Junk}]
      BY DEF Server!RemovalTypeOK
    <3>2. slot' \in [Server!Slots -> Server!Creds \cup {Server!None, Server!Junk}]
      BY <2>1, <3>1 DEF Server!Write, Server!RemovalTypeOK
    <3> QED
      BY <2>1, <3>2 DEF Server!Write, Server!RemovalTypeOK
  <2> QED
    <3>1. fresh \in Server!Creds \cup {Server!None, Server!Junk} /\ Server!None \in Server!Creds
            \cup {Server!None, Server!Junk} /\ urls \in SUBSET Server!Slots
      BY DEF Server!RemovalTypeOK
    <3>2. CASE Server!Write("store", "endpoint", [slot EXCEPT !["pending"] = fresh], urls)
      BY <3>1, <3>2, <2>1, <1>c DEF Server!PairingSteps
    <3>3. CASE Server!Write("endpoint", "activate", slot, urls \cup {"pending"})
      BY <3>1, <3>3, <2>1, <1>c DEF Server!PairingSteps
    <3>4. CASE Server!Write("live", "promote", slot, urls \cup {"current"})
      BY <3>1, <3>4, <2>1, <1>c DEF Server!PairingSteps
    <3>5. CASE Server!Write("promote", "drop", [slot EXCEPT !["current"] = fresh], urls)
      BY <3>1, <3>5, <2>1, <1>c DEF Server!PairingSteps
    <3>6. CASE Server!Write("drop", "settle", [slot EXCEPT !["pending"] = Server!None], urls)
      BY <3>1, <3>6, <2>1, <1>c DEF Server!PairingSteps
    <3>7. ASSUME NEW left \in {{}, {"pending"}}, Server!Write("settle", "idle", slot, {"current"}
                   \cup left)
          PROVE  Server!RemovalTypeOK'
      BY <3>1, <3>7, <2>1, <1>c DEF Server!PairingSteps
    <3> QED
      BY <1>12, <3>2, <3>3, <3>4, <3>5, <3>6, <3>7 DEF Server!PairingWrites
<1>13. CASE Server!Activate
  BY <1>13 DEF Server!Activate, Server!PairingSteps, Server!RemovalTypeOK
<1>14. CASE Server!Kill
  <2>0. kills \in 0..MaxKills
    BY DEF Server!RemovalTypeOK
  <2>1. kills' \in 0..MaxKills
    BY <1>14, <2>0 DEF Server!Kill, Server!RemovalAssumption
  <2> QED
    BY <1>14, <2>1 DEF Server!Kill, Server!RemovalTypeOK
<1>15. ASSUME NEW s \in Server!Slots, Server!ForeignWrite(s) PROVE Server!RemovalTypeOK'
  <2>0. writes \in 0..MaxWrites
    BY DEF Server!RemovalTypeOK
  <2>1. writes' \in 0..MaxWrites
    BY <1>15, <2>0 DEF Server!ForeignWrite, Server!RemovalAssumption
  <2>2. slot' \in [Server!Slots -> Server!Creds \cup {Server!None, Server!Junk}]
    BY <1>15 DEF Server!ForeignWrite, Server!RemovalTypeOK
  <2> QED
    BY <1>15, <2>1, <2>2 DEF Server!ForeignWrite, Server!RemovalTypeOK
<1>16. CASE UNCHANGED Server!vars
  BY <1>16 DEF Server!vars, Server!RemovalTypeOK
<1> QED
  BY <1>1, <1>2, <1>3, <1>4, <1>5, <1>6, <1>7, <1>8, <1>9, <1>10, <1>11, <1>12, <1>13, <1>14,
     <1>15, <1>16 DEF Server!Next, Server!Removal

-----------------------------------------------------------------------------
(* The phases of the command, and what was confirmed *)

LEMMA PhasesNext ==
  ASSUME Server!RemovalAssumption, Server!RemovalTypeOK, Phases, [Server!Next]_(Server!vars)
  PROVE Phases'
<1> USE DEF Server!config, Server!removal, Server!pairing, Server!faults, Server!history
<1>s. /\ Server!RemovalSteps = {"start", "revoke", "record", "delete", "prove"}
      /\ Server!PairingSteps = {"store", "endpoint", "activate", "live", "promote", "drop",
           "settle"}
  BY DEF Server!RemovalSteps, Server!PairingSteps
<1>1. ASSUME checkpoint' = checkpoint, present' = present, at' = at PROVE Phases'
  BY <1>1 DEF Phases, Server!Checkpointed, Server!NoCheckpoint
<1>2. ASSUME NEW a \in Askers, Server!Confirm(a) PROVE Phases'
  <2>1. /\ present' /\ at' = "start" /\ \A s \in Server!Slots : checkpoint'.done[s] = "not yet"
    BY <1>2 DEF Server!Confirm, Server!Unchanged
  <2>2. checkpoint' # Server!NoCheckpoint
    <3>1. Server!NoCheckpoint.done["pending"] = "never" /\ "pending" \in Server!Slots
      BY ContentsApart DEF Server!NoCheckpoint
    <3> QED
      BY <2>1, <3>1
  <2>3. Server!NoCheckpoint' = Server!NoCheckpoint
    BY DEF Server!NoCheckpoint
  <2> QED
    BY <1>s, <2>1, <2>2, <2>3 DEF Phases, Server!Checkpointed
<1>3. ASSUME checkpoint' = checkpoint, present' = present, at' = "idle" PROVE Phases'
  BY <1>s, <1>3 DEF Phases, Server!Checkpointed, Server!NoCheckpoint
<1>4. ASSUME checkpoint' = checkpoint, present' = present, present, Server!Checkpointed,
             at' \in Server!RemovalSteps
      PROVE  Phases'
  BY <1>s, <1>4 DEF Phases, Server!Checkpointed, Server!NoCheckpoint
<1>5. ASSUME checkpoint' = checkpoint, present' = present, present, ~Server!Checkpointed,
             at' \in Server!PairingSteps \cup {"idle"}
      PROVE  Phases'
  BY <1>s, <1>5 DEF Phases, Server!Checkpointed, Server!NoCheckpoint
<1>6. CASE Server!Record
  <2>1. /\ present /\ Server!Checkpointed /\ \A s \in Server!Slots : checkpoint.done[s] # "never"
    BY <1>s, <1>6 DEF Server!Record, Phases
  <2>2. \A s \in Server!Slots : checkpoint'.done[s] \in {checkpoint.done[s], outcome}
    BY <1>6 DEF Server!Record, Server!RemovalTypeOK
  <2>3. \A s \in Server!Slots : checkpoint'.done[s] # "never"
    BY <2>1, <2>2 DEF Server!RemovalTypeOK
  <2>4. checkpoint' # Server!NoCheckpoint /\ Server!NoCheckpoint' = Server!NoCheckpoint
    BY <2>3, ContentsApart DEF Server!NoCheckpoint
  <2> QED
    BY <1>s, <1>6, <2>1, <2>3, <2>4 DEF Server!Record, Phases, Server!Checkpointed
<1>7. CASE Server!Prove
  BY <1>s, <1>7 DEF Server!Prove, Phases, Server!Checkpointed, Server!NoCheckpoint
<1>8. CASE Server!Resume \/ Server!Begin \/ Server!Skip \/ Server!Revoke \/ Server!Delete
  <2>1. present /\ Server!Checkpointed
    BY <1>s, <1>8 DEF Server!Resume, Server!Begin, Server!Skip, Server!Revoke, Server!Delete, Phases
  <2> QED
    BY <1>s, <1>8, <1>4, <2>1
       DEF Server!Resume, Server!Begin, Server!Skip, Server!Revoke, Server!Delete, Server!Onward
<1>9. CASE Server!Tell \/ Server!Stop \/ Server!Kill
  BY <1>9, <1>3 DEF Server!Tell, Server!Stop, Server!Kill
<1>10. CASE Server!StartPairing \/ Server!ResumePairing
  BY <1>s, <1>10, <1>5 DEF Server!StartPairing, Server!ResumePairing, Server!MayPair
<1>11. CASE Server!PairingWrites \/ Server!Activate
  <2>1. present /\ ~Server!Checkpointed
    BY <1>s, <1>11 DEF Server!PairingWrites, Server!Write, Server!Activate, Phases
  <2> QED
    BY <1>s, <1>11, <1>5, <2>1 DEF Server!PairingWrites, Server!Write, Server!Activate
<1>12. CASE (\E a \in Askers : Server!Ask(a) \/ Server!Refuse(a))
              \/ (\E s \in Server!Slots : Server!ForeignWrite(s))
            \/ UNCHANGED Server!vars
  BY <1>12, <1>1 DEF Server!Ask, Server!Refuse, Server!ForeignWrite, Server!vars
<1> QED
  BY <1>2, <1>6, <1>7, <1>8, <1>9, <1>10, <1>11, <1>12 DEF Server!Next, Server!Removal

LEMMA AsConfirmedNext ==
  ASSUME Server!RemovalAssumption, Server!RemovalTypeOK, Phases, AsConfirmed,
           [Server!Next]_(Server!vars) PROVE AsConfirmed'
<1> USE DEF Server!config, Server!removal, Server!pairing, Server!faults, Server!history,
      Server!OnlyConfirmedGoes
<1>c. /\ Server!NoCheckpoint' = Server!NoCheckpoint /\ Server!None' = Server!None
      /\ \A s \in Server!Slots : Server!NoCheckpoint.shown[s] = Server!None
           /\ Server!NoCheckpoint.done[s] = "never"
  BY DEF Server!NoCheckpoint, Server!None
<1>1. ASSUME UNCHANGED <<present, checkpoint, confirmed, deleted>>,
             \/ UNCHANGED <<at, this, held, outcome>>
             \/ at' \notin {"revoke", "record", "delete"}
             \/ /\ at' = "revoke" /\ held' = held
                /\ at \in {"revoke", "delete"}
             \/ /\ at' = "revoke" /\ \A s \in held' : checkpoint.shown[s] # Server!None
             \/ /\ at = "revoke" /\ at' = "record" /\ this \in held /\ outcome' # "none"
                /\ UNCHANGED <<this, held>>
      PROVE  AsConfirmed'
  BY <1>c, <1>1 DEF AsConfirmed, Server!Checkpointed
<1>2. ASSUME NEW a \in Askers, Server!Confirm(a) PROVE AsConfirmed'
  <2>1. deleted' = {} /\ at' = "start"
    BY <1>2 DEF Server!Confirm, Server!Unchanged, AsConfirmed
  <2>2. /\ checkpoint'.shown = slot /\ \A s \in Server!Slots : checkpoint'.done[s] = "not yet"
        /\ confirmed' = {slot[s] : s \in Server!Slots} \ {Server!None}
    BY <1>2 DEF Server!Confirm, Server!Unchanged
  <2>3. \A s \in Server!Slots : slot[s] \in confirmed' \cup {Server!None}
    BY <2>2
  <2> QED
    BY <1>2, <2>1, <2>2, <2>3 DEF AsConfirmed
<1>3. CASE Server!Record
  <2>1. /\ checkpoint'.shown = checkpoint.shown
        /\ \A s \in Server!Slots : checkpoint'.done[s] = IF s = this THEN outcome ELSE checkpoint.done[s]
    BY <1>3 DEF Server!Record, Server!RemovalTypeOK
  <2>2. /\ at' = "delete" /\ UNCHANGED <<present, this, held, outcome, confirmed, deleted>>
        /\ this \in held /\ outcome # "none" /\ this \in Server!Slots /\ at = "record"
    BY <1>3 DEF Server!Record, AsConfirmed, Server!RemovalTypeOK
  <2>3. present /\ Server!Checkpointed
    BY <2>2 DEF Phases, Server!RemovalSteps
  <2>4. Server!Checkpointed'
    <3>1. Phases'
      BY PhasesNext
    <3> QED
      BY <2>2, <3>1 DEF Phases, Server!RemovalSteps
  <2>5. \A s \in held : checkpoint.shown[s] # Server!None
    BY <2>2 DEF AsConfirmed
  <2> QED
    BY <1>c, <2>1, <2>2, <2>3, <2>4, <2>5 DEF AsConfirmed
<1>4. CASE Server!Begin
  <2>1. \A s \in Server!Slots : checkpoint.shown[s] = Server!None => slot[s] = Server!None
    BY <1>4 DEF Server!Begin, Server!Unsafe
  <2>2. \A s \in held' : checkpoint.shown[s] # Server!None
    BY <1>4, <2>1 DEF Server!Begin
  <2> QED
    BY <1>4, <1>1, <2>2 DEF Server!Begin
<1>5. CASE Server!Revoke
  BY <1>5, <1>1 DEF Server!Revoke
<1>6. CASE Server!Delete
  <2>1. at = "delete" /\ present /\ Server!Checkpointed /\ this \in Server!Slots /\ this \in held
    BY <1>6 DEF Server!Delete, Phases, Server!RemovalSteps, Server!RemovalTypeOK, AsConfirmed
  <2>2. checkpoint.shown[this] \in confirmed \cup {Server!None}
          /\ checkpoint.shown[this] # Server!None
    BY <2>1 DEF AsConfirmed
  <2>3. slot[this] \in {Server!None, checkpoint.shown[this]}
    BY <1>6, <2>2 DEF Server!Delete, Server!AsListed
  <2>4. deleted' \subseteq confirmed
    BY <1>6, <2>2, <2>3 DEF Server!Delete, AsConfirmed
  <2>5. /\ UNCHANGED <<present, checkpoint, confirmed, held>>
        /\ at' \in {"revoke", "prove"}
    BY <1>6 DEF Server!Delete, Server!Onward
  <2> QED
    BY <1>c, <2>1, <2>4, <2>5 DEF AsConfirmed, Server!Checkpointed
<1>7. CASE Server!Prove
  BY <1>c, <1>7 DEF Server!Prove, AsConfirmed, Server!Checkpointed
<1>8. CASE Server!Skip
  BY <1>8, <1>1 DEF Server!Skip, Server!Onward
<1>9. CASE Server!Resume \/ Server!Tell \/ Server!Stop \/ Server!Kill
  BY <1>9, <1>1 DEF Server!Resume, Server!Tell, Server!Stop, Server!Kill
<1>10. CASE Server!StartPairing \/ Server!ResumePairing \/ Server!PairingWrites \/ Server!Activate
  BY <1>10, <1>1
     DEF Server!StartPairing, Server!ResumePairing, Server!PairingWrites, Server!Write,
         Server!Activate
<1>11. CASE (\E a \in Askers : Server!Ask(a) \/ Server!Refuse(a))
              \/ (\E s \in Server!Slots : Server!ForeignWrite(s))
            \/ UNCHANGED Server!vars
  BY <1>11, <1>1 DEF Server!Ask, Server!Refuse, Server!ForeignWrite, Server!vars
<1> QED
  BY <1>2, <1>3, <1>4, <1>5, <1>6, <1>7, <1>8, <1>9, <1>10, <1>11 DEF Server!Next, Server!Removal

\* The phases and the confirmation, as every reachable state has them.
Sound == Server!RemovalTypeOK /\ Phases /\ AsConfirmed

LEMMA SoundInit == ASSUME Server!RemovalAssumption, Server!Init PROVE Sound
<1>1. Server!RemovalTypeOK
  BY RemovalTypeInit
<1>2. Phases /\ AsConfirmed
  BY
     DEF Server!Init, Phases, AsConfirmed, Server!OnlyConfirmedGoes, Server!Checkpointed,
         Server!NoCheckpoint, Server!RemovalSteps,
         Server!PairingSteps
<1> QED
  BY <1>1, <1>2 DEF Sound

LEMMA SoundNext == ASSUME Server!RemovalAssumption, Sound, [Server!Next]_(Server!vars) PROVE Sound'
BY RemovalTypeNext, PhasesNext, AsConfirmedNext DEF Sound

\* A removal deletes nothing that its owner did not see before the name was
\* typed: deleteServerRemovalSlot compares what it is about to delete with the
\* checkpoint, and the checkpoint with what was shown.
THEOREM DeletesAsConfirmed == PartsSpec => []OnlyConfirmedGoes
<1>a. Server!RemovalAssumption
  BY PartsAssumption
<1>1. Server!Init => Sound
  BY <1>a, SoundInit
<1>2. Sound /\ [Server!Next]_(Server!vars) => Sound'
  BY <1>a, SoundNext
<1>3. Sound => OnlyConfirmedGoes
  BY DEF Sound, AsConfirmed, OnlyConfirmedGoes, In
<1> QED
  BY <1>1, <1>2, <1>3, ServerRuns, PTL DEF Server!Spec

-----------------------------------------------------------------------------
(* What a resumed removal finds *)

LEMMA ListedNext ==
  ASSUME Server!RemovalAssumption, Sound, Listed, [Server!Next]_(Server!vars) PROVE Listed'
<1> USE DEF Server!config, Server!removal, Server!pairing, Server!faults, Server!history
<1>1. ASSUME UNCHANGED <<checkpoint, slot, foreign>> PROVE Listed'
  BY <1>1 DEF Listed, Server!Checkpointed, Server!NoCheckpoint
<1>2. ASSUME NEW a \in Askers, Server!Confirm(a) PROVE Listed'
  <2>1. slot' = slot /\ checkpoint'.shown = slot
    BY <1>2 DEF Server!Confirm
  <2> QED
    BY <2>1 DEF Listed
<1>3. CASE Server!Record
  <2>1. /\ Server!Checkpointed /\ UNCHANGED <<slot, foreign>> /\ outcome # "not yet"
        /\ checkpoint'.shown = checkpoint.shown
        /\ \A s \in Server!Slots : checkpoint'.done[s] \in {checkpoint.done[s], outcome}
    BY <1>3 DEF Server!Record, Sound, Server!RemovalTypeOK, Phases, Server!RemovalSteps
  <2> QED
    BY <2>1 DEF Listed
<1>4. CASE Server!Delete
  <2>1. /\ Server!Checkpointed /\ UNCHANGED <<checkpoint, foreign>>
        /\ \A s \in Server!Slots : slot'[s] = IF s = this THEN Server!None ELSE slot[s]
        /\ checkpoint.done[this] # "not yet"
    BY <1>4 DEF Server!Delete, Sound, Server!RemovalTypeOK, Phases, Server!RemovalSteps, AsConfirmed
  <2> QED
    BY <2>1 DEF Listed, Server!None
<1>5. CASE Server!Prove
  <2>1. ~Server!Checkpointed'
    BY <1>5 DEF Server!Prove, Server!Checkpointed, Server!NoCheckpoint
  <2> QED
    BY <2>1 DEF Listed
<1>6. ASSUME ~Server!Checkpointed, UNCHANGED checkpoint PROVE Listed'
  BY <1>6 DEF Listed, Server!Checkpointed, Server!NoCheckpoint
<1>7. CASE Server!StartPairing \/ Server!ResumePairing \/ Server!PairingWrites \/ Server!Activate
  <2>1. ~Server!Checkpointed /\ UNCHANGED checkpoint
    BY <1>7
       DEF Server!StartPairing, Server!ResumePairing, Server!MayPair, Server!PairingWrites,
           Server!Write, Server!Activate, Sound, Phases,
                Server!PairingSteps
  <2> QED
    BY <2>1, <1>6
<1>8. ASSUME NEW s \in Server!Slots, Server!ForeignWrite(s) PROVE Listed'
  <2>1. UNCHANGED checkpoint /\ (Server!Checkpointed => foreign')
    BY <1>8 DEF Server!ForeignWrite
  <2> QED
    BY <2>1 DEF Listed, Server!Checkpointed, Server!NoCheckpoint
<1>9. CASE (\E a \in Askers : Server!Ask(a) \/ Server!Refuse(a)) \/ Server!Resume \/ Server!Begin
             \/ Server!Skip \/ Server!Revoke \/ Server!Tell
           \/ Server!Stop \/ Server!Kill \/ UNCHANGED Server!vars
  BY <1>9, <1>1
     DEF Server!Ask, Server!Refuse, Server!Resume, Server!Begin, Server!Skip, Server!Revoke,
         Server!Tell, Server!Stop, Server!Kill, Server!vars
<1> QED
  BY <1>2, <1>3, <1>4, <1>5, <1>7, <1>8, <1>9 DEF Server!Next, Server!Removal

LEMMA ListedResumes == ASSUME Sound, Listed PROVE Server!ResumeSucceeds
<1> SUFFICES ASSUME Server!Checkpointed, ~foreign PROVE ~Server!Unsafe
  BY DEF Server!ResumeSucceeds
<1>1. \A s \in Server!Slots :
        /\ slot[s] \in {Server!None, checkpoint.shown[s]}
        /\ checkpoint.done[s] = "not yet" => slot[s] = checkpoint.shown[s]
        /\ checkpoint.done[s] # "never"
  BY DEF Listed, Sound, Phases
<1>2. Server!Lost = {}
  <2>1. urls \subseteq Server!Slots
    BY DEF Sound, Server!RemovalTypeOK
  <2> QED
    BY <1>1, <2>1 DEF Server!Lost
<1> QED
  BY <1>1, <1>2 DEF Server!Unsafe, Server!AsListed

\* A removal that was killed after any step can be resumed: unless something else
\* wrote to the slots, the run finds what its checkpoint lists, because an outcome
\* is recorded before its slot is deleted.
THEOREM RemovalResumes == PartsSpec => []ResumeSucceeds
<1>a. Server!RemovalAssumption
  BY PartsAssumption
<1>1. Server!Init => Sound /\ Listed
  <2>1. Server!Init => ~Server!Checkpointed
    BY DEF Server!Init, Server!Checkpointed
  <2> QED
    BY <1>a, <2>1, SoundInit DEF Listed
<1>2. Sound /\ Listed /\ [Server!Next]_(Server!vars) => (Sound /\ Listed)'
  BY <1>a, SoundNext, ListedNext
<1>3. Sound /\ Listed => ResumeSucceeds
  BY ListedResumes DEF ResumeSucceeds, In
<1> QED
  BY <1>1, <1>2, <1>3, ServerRuns, PTL DEF Server!Spec

-----------------------------------------------------------------------------
(* What the Relay accepts, and where it is stored *)

LEMMA PairingFitsNext ==
  ASSUME Server!RemovalAssumption, Sound, PairingFits, [Server!Next]_(Server!vars)
  PROVE PairingFits'
<1> USE DEF Server!config, Server!removal, Server!pairing, Server!faults, Server!history
<1>s. Server!PairingSteps = {"store", "endpoint", "activate", "live", "promote", "drop", "settle"}
  BY DEF Server!PairingSteps
<1>c. /\ Server!None \notin Server!Creds /\ Server!Junk \notin Server!Creds /\ Server!None = 0
           /\ Server!Creds = 1..MaxCred /\ MaxCred \in Nat
      /\ "pending" \in Server!Slots /\ "current" \in Server!Slots
      /\ \A s \in Server!Slots : s = "pending" \/ s = "current"
  BY ContentsApart DEF Server!None, Server!Creds, Server!RemovalAssumption
<1>t. /\ slot \in [Server!Slots -> Server!Creds \cup {Server!None, Server!Junk}]
           /\ urls \subseteq Server!Slots
      /\ active \in Server!Creds \cup {Server!None} /\ issued \in 0..MaxCred
      /\ fresh \in Server!Creds \cup {Server!None}
  BY DEF Sound, Server!RemovalTypeOK
<1>1. ASSUME UNCHANGED <<slot, urls, issued>>, active' \in {active, Server!None},
             at' \notin Server!PairingSteps \/ UNCHANGED <<at, fresh>>
      PROVE  PairingFits'
  BY <1>s, <1>c, <1>t, <1>1 DEF PairingFits
<1>2. CASE Server!Delete \/ \E s \in Server!Slots : Server!ForeignWrite(s)
  <2>1. PICK t \in Server!Slots, v \in {Server!None, Server!Junk} : slot' = [slot EXCEPT ![t] = v]
    BY <1>2 DEF Server!Delete, Server!ForeignWrite, Sound, Server!RemovalTypeOK
  <2>2. at' \notin Server!PairingSteps /\ UNCHANGED <<urls, active, issued>>
    BY <1>s, <1>2 DEF Server!Delete, Server!Onward, Server!ForeignWrite
  <2> QED
    BY <1>s, <1>c, <1>t, <2>1, <2>2 DEF PairingFits
<1>3. CASE Server!Prove
  BY <1>s, <1>c, <1>t, <1>3 DEF Server!Prove, PairingFits
<1>4. CASE Server!StartPairing
  BY <1>s, <1>c, <1>t, <1>4 DEF Server!StartPairing, PairingFits
<1>5. CASE Server!ResumePairing
  BY <1>s, <1>c, <1>t, <1>5 DEF Server!ResumePairing, Server!Resumable, PairingFits
<1>6. CASE Server!PairingWrites
  <2>1. CASE Server!Write("store", "endpoint", [slot EXCEPT !["pending"] = fresh], urls)
    BY <1>s, <1>c, <1>t, <2>1 DEF Server!Write, PairingFits
  <2>2. CASE Server!Write("endpoint", "activate", slot, urls \cup {"pending"})
    BY <1>s, <1>c, <1>t, <2>2 DEF Server!Write, PairingFits
  <2>3. CASE Server!Write("live", "promote", slot, urls \cup {"current"})
    BY <1>s, <1>c, <1>t, <2>3 DEF Server!Write, PairingFits
  <2>4. CASE Server!Write("promote", "drop", [slot EXCEPT !["current"] = fresh], urls)
    BY <1>s, <1>c, <1>t, <2>4 DEF Server!Write, PairingFits
  <2>5. CASE Server!Write("drop", "settle", [slot EXCEPT !["pending"] = Server!None], urls)
    BY <1>s, <1>c, <1>t, <2>5 DEF Server!Write, PairingFits
  <2>6. ASSUME NEW left \in {{}, {"pending"}}, Server!Write("settle", "idle", slot, {"current"}
                 \cup left)
        PROVE  PairingFits'
    BY <1>s, <1>c, <1>t, <2>6 DEF Server!Write, PairingFits
  <2> QED
    BY <1>6, <2>1, <2>2, <2>3, <2>4, <2>5, <2>6 DEF Server!PairingWrites
<1>7. CASE Server!Activate
  BY <1>s, <1>c, <1>t, <1>7 DEF Server!Activate, PairingFits
<1>8. CASE Server!Revoke
  BY <1>s, <1>8, <1>1 DEF Server!Revoke
<1>9. CASE Server!Resume \/ Server!Begin \/ Server!Skip \/ Server!Record \/ Server!Tell
           \/ Server!Stop \/ Server!Kill
  BY <1>s, <1>9, <1>1
     DEF Server!Resume, Server!Begin, Server!Skip, Server!Onward, Server!Record, Server!Tell,
         Server!Stop, Server!Kill
<1>10. CASE (\E a \in Askers : Server!Ask(a) \/ Server!Confirm(a) \/ Server!Refuse(a))
              \/ UNCHANGED Server!vars
  BY <1>s, <1>10, <1>1 DEF Server!Ask, Server!Confirm, Server!Refuse, Server!vars
<1> QED
  BY <1>2, <1>3, <1>4, <1>5, <1>6, <1>7, <1>8, <1>9, <1>10 DEF Server!Next, Server!Removal

\* While a checkpoint exists nothing is paired: what the Relay accepts can only go.
LEMMA CoveredNext ==
  ASSUME Server!RemovalAssumption, Sound, PairingFits, Covered, [Server!Next]_(Server!vars)
  PROVE Covered'
<1> USE DEF Server!config, Server!removal, Server!pairing, Server!faults, Server!history
<1>s. /\ Server!RemovalSteps = {"start", "revoke", "record", "delete", "prove"}
      /\ Server!PairingSteps = {"store", "endpoint", "activate", "live", "promote", "drop",
           "settle"}
  BY DEF Server!RemovalSteps, Server!PairingSteps
<1>c. /\ Server!None \notin Server!Creds /\ Server!Junk \notin Server!Creds
           /\ Server!None # Server!Junk
      /\ "pending" \in Server!Slots /\ "current" \in Server!Slots /\ "pending" # "current"
      /\ \A s \in Server!Slots : s = "pending" \/ s = "current"
  BY ContentsApart
<1>t. /\ slot \in [Server!Slots -> Server!Creds \cup {Server!None, Server!Junk}]
           /\ urls \subseteq Server!Slots
      /\ active \in Server!Creds \cup {Server!None} /\ told \subseteq Server!Creds
      /\ checkpoint.shown \in [Server!Slots -> Server!Creds \cup {Server!None, Server!Junk}]
      /\ this \in Server!Slots /\ held \subseteq Server!Slots
  BY DEF Sound, Server!RemovalTypeOK
<1>p. Phases
  BY DEF Sound
<1>1. ASSUME UNCHANGED <<urls, checkpoint, active>>, told \subseteq told', blind \subseteq blind',
             UNCHANGED <<at, this, outcome>> \/ at' \notin {"record", "delete"}
      PROVE  Covered'
  <2>1. Owed' => Owed
    BY <1>1 DEF Owed
  <2>2. Server!Checkpointed' = Server!Checkpointed
    BY <1>1 DEF Server!Checkpointed, Server!NoCheckpoint
  <2> QED
    BY <1>1, <2>1, <2>2 DEF Covered
<1>2. ASSUME NEW a \in Askers, Server!Confirm(a) PROVE Covered'
  <2>1. /\ checkpoint'.shown = slot /\ \A s \in Server!Slots : checkpoint'.done[s] = "not yet"
        /\ UNCHANGED <<urls, active>> /\ at' = "start"
    BY <1>2 DEF Server!Confirm
  <2>2. ASSUME Owed' PROVE \E s \in Server!Slots : slot[s] \in {active, Server!Junk}
    <3>1. active \in Server!Creds /\ active \notin told' /\ blind' = {}
      BY <1>t, <2>1, <2>2 DEF Owed
    <3>2. Server!Lost = {} /\ ~Server!HiddenLoss
      BY <1>2, <3>1 DEF Server!Confirm
    <3> QED
      BY <1>c, <3>1, <3>2 DEF Server!HiddenLoss
  <2>3. \A s \in Server!Slots : slot[s] \in Server!Creds /\ s \notin urls => slot[s] # active
    BY <1>c DEF PairingFits
  <2> QED
    BY <2>1, <2>2, <2>3 DEF Covered
<1>3. CASE Server!Record
  <2>1. /\ checkpoint'.shown = checkpoint.shown
        /\ \A s \in Server!Slots : checkpoint'.done[s] = IF s = this THEN outcome ELSE checkpoint.done[s]
        /\ UNCHANGED <<urls, active, this, outcome>> /\ at = "record"
    BY <1>3 DEF Server!Record, Sound, Server!RemovalTypeOK
  <2>2. Owed' => Owed
    BY <1>3 DEF Server!Record, Owed
  <2>3. Server!Checkpointed
    BY <1>s, <1>p, <2>1 DEF Phases
  <2> QED
    BY <2>1, <2>2, <2>3 DEF Covered
<1>4. CASE Server!Revoke
  <2>1. /\ at = "revoke" /\ at' = "record" /\ this \in held /\ Server!Checkpointed
        /\ UNCHANGED <<urls, checkpoint, this, told, blind>>
    BY <1>s, <1>p, <1>4 DEF Server!Revoke, Phases
  <2>2. active' = active \/ active' = Server!None
    BY <1>4 DEF Server!Revoke
  <2>3. Owed' => Owed /\ active' = active
    BY <2>1, <2>2 DEF Owed
  <2>4. checkpoint.shown[this] # Server!None /\ checkpoint.shown[this] \in Server!Creds
          \cup {Server!None, Server!Junk}
    BY <1>t, <2>1 DEF Sound, AsConfirmed
  <2>5. \A s \in Server!Slots : checkpoint.shown[s] \in Server!Creds /\ checkpoint.shown[s] # active
                           => checkpoint.shown[s] # active'
    BY <1>c, <2>2
  <2>6. outcome' = "revoked" => checkpoint.shown[this] \in Server!Creds \ {active'}
    BY <1>c, <1>4, <2>4 DEF Server!Revoke
  <2>7. outcome' = "local" => checkpoint.shown[this] \in Server!Creds \ {active'}
    BY <1>t, <1>4, <2>1, <2>4, <2>5 DEF Server!Revoke, Covered
  <2>8. Server!Checkpointed'
    BY <2>1 DEF Server!Checkpointed, Server!NoCheckpoint
  <2> QED
    BY <2>1, <2>3, <2>5, <2>6, <2>7 DEF Covered
<1>5. ASSUME ~Server!Checkpointed', at' \notin {"record", "delete"} PROVE Covered'
  BY <1>5 DEF Covered
<1>6. CASE Server!Prove
  BY <1>6, <1>5 DEF Server!Prove, Server!Checkpointed, Server!NoCheckpoint
<1>7. CASE Server!StartPairing \/ Server!ResumePairing \/ Server!PairingWrites \/ Server!Activate
  <2>1. ~Server!Checkpointed /\ UNCHANGED checkpoint /\ at' \in Server!PairingSteps \cup {"idle"}
    BY <1>s, <1>p, <1>7
       DEF Server!StartPairing, Server!ResumePairing, Server!MayPair, Server!PairingWrites,
         Server!Write, Server!Activate, Phases
  <2> QED
    BY <1>s, <1>5, <2>1 DEF Server!Checkpointed, Server!NoCheckpoint
<1>8. CASE Server!Resume \/ Server!Begin \/ Server!Skip \/ Server!Delete \/ Server!Tell
           \/ Server!Stop \/ Server!Kill
  BY <1>8, <1>1
     DEF Server!Resume, Server!Begin, Server!Skip, Server!Delete, Server!Onward, Server!Tell,
         Server!Stop, Server!Kill
<1>9. CASE (\E a \in Askers : Server!Ask(a) \/ Server!Refuse(a))
             \/ (\E s \in Server!Slots : Server!ForeignWrite(s))
           \/ UNCHANGED Server!vars
  BY <1>9, <1>1 DEF Server!Ask, Server!Refuse, Server!ForeignWrite, Server!vars
<1> QED
  BY <1>2, <1>3, <1>4, <1>6, <1>7, <1>8, <1>9 DEF Server!Next, Server!Removal

LEMMA DealtNext ==
  ASSUME Server!RemovalAssumption, Sound, Dealt, [Server!Next]_(Server!vars) PROVE Dealt'
<1> USE DEF Server!config, Server!removal, Server!pairing, Server!faults, Server!history
<1>s. /\ Server!RemovalSteps = {"start", "revoke", "record", "delete", "prove"}
      /\ Server!PairingSteps = {"store", "endpoint", "activate", "live", "promote", "drop",
           "settle"}
  BY DEF Server!RemovalSteps, Server!PairingSteps
<1>c. /\ "pending" \in Server!Slots /\ "current" \in Server!Slots /\ "pending" # "current"
      /\ \A s \in Server!Slots : s = "pending" \/ s = "current"
  BY ContentsApart
<1>p. Phases /\ this \in Server!Slots /\ held \subseteq Server!Slots
  BY DEF Sound, Server!RemovalTypeOK
<1>1. ASSUME at' \notin {"revoke", "record", "delete", "prove"} PROVE Dealt'
  BY <1>1 DEF Dealt, Settled
<1>2. ASSUME UNCHANGED <<checkpoint, issued, notes, at, this, held>> PROVE Dealt'
  <2>1. \A s \in Server!Slots : Settled(s)' = Settled(s) /\ Server!About(s)' = Server!About(s)
    BY <1>2 DEF Settled, Server!About
  <2> QED
    BY <1>2, <2>1 DEF Dealt
<1>3. CASE Server!Begin
  <2>1. /\ at' = "revoke" /\ this' = "pending" /\ UNCHANGED <<checkpoint, issued>>
        /\ notes' = Server!Recorded /\ ~Server!Unsafe /\ \A s \in Server!Slots : s \in held'
             <=> slot[s] # Server!None
    BY <1>3 DEF Server!Begin
  <2>2. \A s \in Server!Slots : slot[s] = Server!None /\ checkpoint.shown[s] # Server!None
                           => checkpoint.done[s] # "not yet"
    BY <2>1 DEF Server!Unsafe
  <2>3. \A s \in Server!Slots : slot[s] = Server!None /\ checkpoint.done[s] = "failed"
          => Server!About(s) \subseteq notes'
    BY <2>1 DEF Server!Recorded
  <2>4. \A s \in Server!Slots : Settled(s)' => slot[s] = Server!None
    BY <1>c, <2>1 DEF Settled
  <2>5. \A s \in Server!Slots : Server!About(s)' = Server!About(s)
    BY <2>1 DEF Server!About
  <2> QED
    BY <2>1, <2>2, <2>3, <2>4, <2>5 DEF Dealt
<1>4. CASE Server!Skip
  <2>1. /\ at = "revoke" /\ this \notin held /\ UNCHANGED <<checkpoint, issued, notes, held>>
        /\ this' = "current" /\ at' = IF this = "pending" THEN "revoke" ELSE "prove"
    BY <1>4 DEF Server!Skip, Server!Onward
  <2>2. \A s \in Server!Slots : Settled(s)' => Settled(s)
    BY <1>c, <1>p, <2>1 DEF Settled
  <2>3. \A s \in Server!Slots : Server!About(s)' = Server!About(s)
    BY <2>1 DEF Server!About
  <2> QED
    BY <2>1, <2>2, <2>3 DEF Dealt
<1>5. CASE Server!Revoke
  <2>1. at = "revoke" /\ at' = "record" /\ UNCHANGED <<checkpoint, issued, notes, this, held>>
    BY <1>5 DEF Server!Revoke
  <2>2. \A s \in Server!Slots : Settled(s)' = Settled(s) /\ Server!About(s)' = Server!About(s)
    BY <2>1 DEF Settled, Server!About
  <2> QED
    BY <2>1, <2>2 DEF Dealt
<1>6. CASE Server!Record
  <2>1. /\ at = "record" /\ at' = "delete" /\ UNCHANGED <<issued, notes, this, held>>
        /\ checkpoint'.shown = checkpoint.shown /\ this \in held
        /\ \A s \in Server!Slots : s # this => checkpoint'.done[s] = checkpoint.done[s]
    BY <1>6 DEF Server!Record, Sound, Server!RemovalTypeOK, AsConfirmed
  <2>2. \A s \in Server!Slots : (Settled(s)' => Settled(s) /\ s # this)
          /\ Server!About(s)' = Server!About(s)
    BY <1>c, <2>1 DEF Settled, Server!About
  <2> QED
    BY <2>1, <2>2 DEF Dealt
<1>7. CASE Server!Delete
  <2>1. /\ at = "delete" /\ UNCHANGED <<checkpoint, issued, held>> /\ this \in held
        /\ this' = "current" /\ at' = IF this = "pending" THEN "revoke" ELSE "prove"
        /\ checkpoint.done[this] = outcome /\ outcome # "not yet"
        /\ notes' = IF outcome = "failed" THEN notes \cup Server!About(this) ELSE notes
    BY <1>7 DEF Server!Delete, Server!Onward, Sound, Server!RemovalTypeOK, AsConfirmed
  <2>2. \A s \in Server!Slots : Settled(s)' => Settled(s) \/ s = this
    BY <1>c, <1>p, <2>1 DEF Settled
  <2>3. \A s \in Server!Slots : Server!About(s)' = Server!About(s)
    BY <2>1 DEF Server!About
  <2>4. notes \subseteq notes' /\ (outcome = "failed" => Server!About(this) \subseteq notes')
    BY <2>1
  <2> QED
    BY <2>1, <2>2, <2>3, <2>4 DEF Dealt
<1>8. CASE Server!Resume \/ Server!Prove \/ Server!Tell \/ Server!Stop \/ Server!Kill
           \/ Server!StartPairing \/ Server!ResumePairing
           \/ Server!PairingWrites \/ Server!Activate \/ \E a \in Askers : Server!Confirm(a)
  BY <1>8, <1>1
     DEF Server!Resume, Server!Prove, Server!Tell, Server!Stop, Server!Kill, Server!StartPairing,
       Server!ResumePairing, Server!PairingWrites, Server!Write,
     Server!Activate, Server!Confirm
<1>9. CASE (\E a \in Askers : Server!Ask(a) \/ Server!Refuse(a))
             \/ (\E s \in Server!Slots : Server!ForeignWrite(s))
           \/ UNCHANGED Server!vars
  BY <1>9, <1>2 DEF Server!Ask, Server!Refuse, Server!ForeignWrite, Server!vars
<1> QED
  BY <1>3, <1>4, <1>5, <1>6, <1>7, <1>8, <1>9 DEF Server!Next, Server!Removal

\* At the end of a removal every listed key was revoked or is in a note.
LEMMA AllDealt ==
  ASSUME Server!RemovalAssumption, Sound, PairingFits, Covered, Dealt, at = "prove", Owed
  PROVE  active \in notes
<1>1. /\ Server!Checkpointed /\ \A s \in Server!Slots : checkpoint.done[s] # "never"
  BY DEF Sound, Phases, Server!RemovalSteps
<1>2. PICK s \in Server!Slots : checkpoint.shown[s] \in {active, Server!Junk}
  BY <1>1 DEF Covered
<1>3. active \in 1..issued /\ checkpoint.shown[s] # Server!None /\ active # Server!None
  <2>1. active \in Server!Creds \cup {Server!None} /\ active <= issued /\ issued \in 0..MaxCred
    BY DEF Sound, Server!RemovalTypeOK, PairingFits
  <2>2. active \in Server!Creds
    BY <2>1 DEF Owed
  <2> QED
    BY <1>2, <2>1, <2>2, ContentsApart DEF Server!Creds, Server!RemovalAssumption
<1>4. Settled(s)
  BY DEF Settled
<1>5. checkpoint.done[s] # "not yet" /\ (checkpoint.done[s] = "failed"
        => Server!About(s) \subseteq notes)
  BY <1>3, <1>4 DEF Dealt
<1>6. checkpoint.done[s] \notin {"revoked", "local"}
  BY <1>1, <1>2, ContentsApart DEF Covered
<1>7. checkpoint.done[s] = "failed"
  BY <1>1, <1>5, <1>6 DEF Sound, Server!RemovalTypeOK
<1> QED
  BY <1>2, <1>3, <1>5, <1>7 DEF Server!About

LEMMA NotesFollowNext ==
  ASSUME Server!RemovalAssumption, Sound, PairingFits, Covered, Dealt, NotesFollow,
           [Server!Next]_(Server!vars)
  PROVE  NotesFollow'
<1> USE DEF Server!config, Server!removal, Server!pairing, Server!faults, Server!history
<1>s. /\ Server!RemovalSteps = {"start", "revoke", "record", "delete", "prove"}
      /\ Server!PairingSteps = {"store", "endpoint", "activate", "live", "promote", "drop",
           "settle"}
  BY DEF Server!RemovalSteps, Server!PairingSteps
<1>p. Phases /\ present \in BOOLEAN
  BY DEF Sound, Server!RemovalTypeOK
<1>1. ASSUME present', at' # "tell" PROVE NotesFollow'
  BY <1>1 DEF NotesFollow
<1>2. ASSUME UNCHANGED <<present, at, notes, active, told, blind>> PROVE NotesFollow'
  BY <1>2 DEF NotesFollow, Owed
<1>3. CASE Server!Prove
  <2>1. at = "prove" /\ at' = "tell" /\ Owed' = Owed /\ UNCHANGED <<active, notes>>
    BY <1>3 DEF Server!Prove, Owed
  <2> QED
    BY <2>1, AllDealt DEF NotesFollow
<1>4. CASE Server!Tell
  BY <1>4 DEF Server!Tell, NotesFollow, Owed
<1>5. CASE Server!Kill
  <2>1. CASE at = "tell"
    BY <1>5, <2>1 DEF Server!Kill, NotesFollow, Owed
  <2>2. CASE at # "tell"
    BY <1>p, <1>5, <2>2, <1>1 DEF Server!Kill, Phases
  <2> QED
    BY <2>1, <2>2
<1>6. CASE Server!Resume \/ Server!Begin \/ Server!Skip \/ Server!Revoke \/ Server!Record
           \/ Server!Delete \/ Server!Stop
  <2>1. present /\ UNCHANGED present /\ at' # "tell"
    BY <1>s, <1>p, <1>6
       DEF Server!Resume, Server!Begin, Server!Skip, Server!Revoke, Server!Record, Server!Delete,
           Server!Stop, Server!Onward, Phases
  <2> QED
    BY <1>1, <2>1
<1>7. CASE Server!StartPairing \/ Server!ResumePairing \/ Server!PairingWrites \/ Server!Activate
             \/ \E a \in Askers : Server!Confirm(a)
  <2>1. present /\ UNCHANGED present /\ at' # "tell"
    BY <1>s, <1>p, <1>7
       DEF Server!StartPairing, Server!ResumePairing, Server!MayPair, Server!PairingWrites,
           Server!Write, Server!Activate,
                            Server!Confirm, Server!Unchanged, Phases
  <2> QED
    BY <1>1, <2>1
<1>8. CASE (\E a \in Askers : Server!Ask(a) \/ Server!Refuse(a))
             \/ (\E s \in Server!Slots : Server!ForeignWrite(s))
           \/ UNCHANGED Server!vars
  BY <1>8, <1>2 DEF Server!Ask, Server!Refuse, Server!ForeignWrite, Server!vars
<1> QED
  BY <1>3, <1>4, <1>5, <1>6, <1>7, <1>8 DEF Server!Next, Server!Removal

\* Once the profile is gone, the Relay accepts nothing from this computer, or the
\* owner was told which device to remove: over kills at any step, lost answers and
\* damaged keys, wherever no note is known to be lost (blind).
THEOREM NothingLeftUntold == PartsSpec => []NoneLeftUntold
<1>a. Server!RemovalAssumption
  BY PartsAssumption
<1> DEFINE Inv == Sound /\ PairingFits /\ Covered /\ Dealt /\ NotesFollow
<1>1. Server!Init => Inv
  <2>1. Server!Init => PairingFits /\ Covered /\ Dealt /\ NotesFollow
    BY <1>a, ContentsApart
    DEF Server!Init, PairingFits, Covered, Dealt, NotesFollow, Owed, Settled, Server!Checkpointed,
      Server!PairingSteps, Server!None
  <2> QED
    BY <1>a, <2>1, SoundInit
<1>2. Inv /\ [Server!Next]_(Server!vars) => Inv'
  BY <1>a, SoundNext, PairingFitsNext, CoveredNext, DealtNext, NotesFollowNext
<1>3. Inv => NoneLeftUntold
  BY DEF NotesFollow, Owed, NoneLeftUntold, In, Server!NoneLeftUntold, Server!Forgotten
<1> QED
  BY <1>1, <1>2, <1>3, ServerRuns, PTL DEF Server!Spec


-----------------------------------------------------------------------------
(* The credential store (CredentialMigration)                              *)
(*                                                                         *)
(* While the marker is away what a profile needs is in the keyring         *)
(* (InKeyring), with the marker in the files or known to be left in the    *)
(* keyring (InFiles): every step keeps the one, the other or both (Kept).  *)
(* That rests on where a command is in its writes (Stages) and on what a   *)
(* pairing has stored by then (Pairs).                                     *)

Pairings == {"endpoint", "opt_in", "activate", "promote", "commit", "drop_pending", "settle"}

Stages ==
  /\ pc = "idle" => mode = "unset"
  /\ pc \in {"copy", "marker", "commit"} => ~backend
  /\ pc \in {"copy", "marker"} =>
       /\ found = {s \in Store!Slot : keyring[s] # Store!None}
       /\ \A s \in found \ todo : file[s] = keyring[s]
  /\ pc = "marker" => todo = {}
  /\ pc = "uncommit" /\ backend => gap
  /\ pc \in {"remove_pending", "remove_current", "residue"} => who \notin paired
  /\ pc = "residue" => todo \subseteq {Store!Current(who), Store!Pending(who)}
  /\ after = "remove_pending" => pc = "clean" /\ who \notin paired

Pairs ==
  /\ pc \in Pairings => cred # Store!None /\ (toFile \/ (~backend /\ mode # "explicit"))
  /\ pc \in {"endpoint", "opt_in", "activate", "promote"} =>
       IF toFile THEN file[Store!Pending(who)] = cred ELSE keyring[Store!Pending(who)] = cred
  /\ pc \in {"opt_in", "activate", "promote"} => who \in endpoint
  /\ pc = "opt_in" => toFile
  /\ pc \in {"promote", "commit", "drop_pending", "settle"} => cred \in works[who]
  /\ pc = "commit" => toFile /\ file[Store!Current(who)] = cred
  /\ pc \in {"drop_pending", "settle"} =>
       IF toFile THEN backend /\ file[Store!Current(who)] = cred ELSE keyring[Store!Current(who)] = cred

InKeyring(p) ==
  \/ keyring[Store!Current(p)] \in works[p]
  \/ p \in endpoint /\ keyring[Store!Pending(p)] \in works[p]

InFiles(p) ==
  \/ file[Store!Current(p)] \in works[p]
  \/ p \in hidden /\ keyring[Store!Current(p)] \in works[p]
  \/ p \in endpoint /\ (keyring[Store!Pending(p)] \in works[p]
       \/ file[Store!Pending(p)] \in works[p])

Kept ==
  ~gap => \A p \in paired :
    /\ ~backend \/ pc \in {"drop_checkpoint", "rollback"} => InKeyring(p)
    /\ backend => InFiles(p)
LEMMA SlotFacts ==
  ASSUME Store!StoreAssumption
  PROVE  /\ \A p \in Profile : /\ Store!Current(p) \in Store!Slot /\ Store!Pending(p) \in Store!Slot
                               /\ Store!IsCurrent(Store!Current(p))
                               /\ ~Store!IsCurrent(Store!Pending(p))
         /\ \A p, q \in Profile : /\ Store!Current(p) # Store!Pending(q)
                                  /\ Store!Current(p) = Store!Current(q) => p = q
                                  /\ Store!Pending(p) = Store!Pending(q) => p = q
         /\ Store!None \notin 1..MaxCred /\ Store!Torn \notin 1..MaxCred /\ Store!None # Store!Torn
         /\ 0..MaxCred = 1..MaxCred \cup {Store!None}
         /\ 0..Store!Torn = 1..MaxCred \cup {Store!None, Store!Torn}
         /\ Default \in Profile
<1>1. /\ \A p \in Profile : /\ Store!Current(p) \in Store!Slot /\ Store!Pending(p) \in Store!Slot
                            /\ Store!IsCurrent(Store!Current(p))
                            /\ ~Store!IsCurrent(Store!Pending(p))
      /\ \A p, q \in Profile : /\ Store!Current(p) # Store!Pending(q)
                               /\ Store!Current(p) = Store!Current(q) => p = q
                               /\ Store!Pending(p) = Store!Pending(q) => p = q
  BY DEF Store!Current, Store!Pending, Store!Slot, Store!IsCurrent
<1>2. /\ Store!None \notin 1..MaxCred /\ Store!Torn \notin 1..MaxCred /\ Store!None # Store!Torn
      /\ 0..MaxCred = 1..MaxCred \cup {Store!None}
      /\ 0..Store!Torn = 1..MaxCred \cup {Store!None, Store!Torn}
  BY DEF Store!StoreAssumption, Store!None, Store!Torn
<1> QED
  BY <1>1, <1>2 DEF Store!StoreAssumption

-----------------------------------------------------------------------------
(* Type correctness *)

LEMMA CredTypeInit == ASSUME Store!StoreAssumption, Store!Init PROVE Store!CredTypeOK
<1>1. 0 \in 0..MaxCred /\ Store!None \in 0..MaxCred /\ Store!None \in 0..Store!Torn
  BY DEF Store!StoreAssumption, Store!None, Store!Torn
<1> QED
  BY <1>1, SlotFacts DEF Store!Init, Store!CredTypeOK

LEMMA CredTypeNext ==
  ASSUME Store!StoreAssumption, Store!CredTypeOK, Pairs, [Store!Next]_(Store!vars)
  PROVE Store!CredTypeOK'
<1> USE DEF Store!disk, Store!process, Store!relay, Store!ghosts
<1>f. /\ \A p \in Profile : Store!Current(p) \in Store!Slot /\ Store!Pending(p) \in Store!Slot
      /\ 0..MaxCred \subseteq 0..Store!Torn /\ Store!None \in 0..MaxCred
      /\ Store!Torn \in 0..Store!Torn
      /\ 0..MaxCred = 1..MaxCred \cup {Store!None}
      /\ 0..Store!Torn = 1..MaxCred \cup {Store!None, Store!Torn}
      /\ Default \in Profile /\ MaxCred \in Nat
  BY SlotFacts DEF Store!StoreAssumption
<1>e. ASSUME Store!Ended
      PROVE  /\ mode' \in {"unset", "explicit"} /\ todo' \subseteq Store!Slot
                  /\ found' \subseteq Store!Slot
             /\ after' \in {"idle", "remove_pending", "drop_marker"} /\ who' \in Profile
             /\ cred' \in 0..MaxCred /\ toFile' \in BOOLEAN
  BY <1>e, <1>f DEF Store!Ended
<1>1. CASE Store!Crash
  BY <1>1, <1>e DEF Store!Crash, Store!CredTypeOK
<1>2. CASE Store!StartMigration
  BY <1>2 DEF Store!StartMigration, Store!CredTypeOK
<1>3. CASE Store!CopySlot
  <2>1. file' \in [Store!Slot -> 0..Store!Torn] /\ todo' \subseteq Store!Slot
    BY <1>3, <1>f DEF Store!CopySlot, Store!CredTypeOK, Store!NextCopy
  <2> QED
    BY <1>3, <2>1 DEF Store!CopySlot, Store!CredTypeOK
<1>4. CASE Store!CopyFails
  <2>1. file' \in [Store!Slot -> 0..Store!Torn]
    <3>1. PICK s \in Store!NextCopy : Store!WriteFails(s)
      BY <1>4 DEF Store!CopyFails
    <3> QED
      BY <3>1, <1>f DEF Store!WriteFails, Store!CredTypeOK
  <2>2. \/ Store!Ended
        \/ todo' \subseteq Store!Slot /\ UNCHANGED <<mode, found, after, who, cred, toFile>>
    BY <1>4 DEF Store!CopyFails, Store!CurrentsOf, Store!CredTypeOK
  <2>3. UNCHANGED <<keyring, backend, cleanup, endpoint, Store!ghosts>>
    BY <1>4 DEF Store!CopyFails
  <2> QED
    BY <2>1, <2>2, <2>3, <1>e DEF Store!CredTypeOK
<1>5. CASE Store!WriteCheckpoint \/ Store!WriteMarker \/ Store!MarkerFails \/ Store!DropCheckpoint
  BY <1>5
     DEF Store!WriteCheckpoint, Store!WriteMarker, Store!MarkerFails, Store!DropCheckpoint,
         Store!CurrentsOf, Store!CredTypeOK
<1>6. CASE Store!Rollback
  <2>1. file' \in [Store!Slot -> 0..Store!Torn] /\ todo' \subseteq Store!Slot /\ gap' \in BOOLEAN
    BY <1>6, <1>f DEF Store!Rollback, Store!CredTypeOK
  <2> QED
    BY <1>6, <2>1 DEF Store!Rollback, Store!CredTypeOK
<1>7. CASE Store!RolledBack
  BY <1>7, <1>e DEF Store!RolledBack, Store!CredTypeOK
<1>8. CASE Store!CleanSlot
  <2>1. keyring' \in [Store!Slot -> 0..MaxCred] /\ todo' \subseteq Store!Slot /\ gap' \in BOOLEAN
    BY <1>8, <1>f DEF Store!CleanSlot, Store!CredTypeOK
  <2> QED
    BY <1>8, <2>1 DEF Store!CleanSlot, Store!CredTypeOK
<1>9. CASE Store!CleanStops
  <2>1. keyring' \in [Store!Slot -> 0..MaxCred] /\ gap' \in BOOLEAN
    BY <1>9, <1>f DEF Store!CleanStops, Store!CredTypeOK
  <2> QED
    BY <1>9, <1>e, <2>1 DEF Store!CleanStops, Store!CredTypeOK
<1>10. CASE Store!CleanDone
  BY <1>10, <1>e DEF Store!CleanDone, Store!CredTypeOK
<1>11. ASSUME NEW p \in Profile, Store!ForceFiles(p) \/ Store!StartPairing(p)
       PROVE Store!CredTypeOK'
  BY <1>11 DEF Store!ForceFiles, Store!StartPairing, Store!CredTypeOK
<1>12. ASSUME NEW p \in Profile, Store!Resume(p) PROVE Store!CredTypeOK'
  <2>1. cred' \in 0..MaxCred /\ toFile' \in BOOLEAN
    <3>1. file[Store!Pending(p)] \in 0..Store!Torn /\ keyring[Store!Pending(p)] \in 0..MaxCred
      BY <1>f DEF Store!CredTypeOK
    <3> QED
      BY <1>12, <1>f, <3>1 DEF Store!Resume
  <2> QED
    BY <1>12, <2>1 DEF Store!Resume, Store!CredTypeOK
<1>13. CASE Store!StorePending
  <2>1. minted \in 0..MaxCred /\ minted' = minted + 1 /\ minted < MaxCred
    BY <1>13 DEF Store!StorePending, Store!CredTypeOK
  <2>2. minted' \in 0..MaxCred /\ minted' \in 0..Store!Torn
    BY <1>f, <2>1
  <2>3. keyring' \in [Store!Slot -> 0..MaxCred] /\ file' \in [Store!Slot -> 0..Store!Torn]
    BY <1>13, <1>f, <2>2 DEF Store!StorePending, Store!WriteFails, Store!CredTypeOK
  <2>4. toFile' \in BOOLEAN
    BY <1>13, <1>e DEF Store!StorePending, Store!FileBacked, Store!CredTypeOK
  <2>5. \/ Store!Ended
        \/ cred' \in 0..MaxCred /\ UNCHANGED <<mode, todo, found, after, who>>
    BY <1>13, <2>2 DEF Store!StorePending
  <2>6. UNCHANGED <<backend, cleanup, endpoint, works, retired, paired, hidden, gap>>
    BY <1>13 DEF Store!StorePending
  <2> QED
    BY <1>e, <2>2, <2>3, <2>4, <2>5, <2>6 DEF Store!CredTypeOK
<1>14. CASE Store!SaveEndpoint
  BY <1>14 DEF Store!SaveEndpoint, Store!CredTypeOK
<1>15. CASE Store!OptIn
  BY <1>15, <1>e DEF Store!OptIn, Store!LeftBehind, Store!CredTypeOK
<1>16. CASE Store!Activate
  <2>1. cred \in 1..MaxCred
    BY <1>16, <1>f DEF Store!Activate, Pairs, Pairings, Store!CredTypeOK
  <2>2. works' \in [Profile -> SUBSET (1..MaxCred)]
    BY <1>16, <2>1 DEF Store!Activate, Store!CredTypeOK
  <2> QED
    BY <1>16, <1>e, <2>2 DEF Store!Activate, Store!CredTypeOK
<1>17. CASE Store!Promote
  <2>1. keyring' \in [Store!Slot -> 0..MaxCred] /\ file' \in [Store!Slot -> 0..Store!Torn]
    BY <1>17, <1>f DEF Store!Promote, Store!WriteFails, Store!CredTypeOK
  <2> QED
    BY <1>17, <1>e, <2>1 DEF Store!Promote, Store!CredTypeOK
<1>18. CASE Store!Commit
  BY <1>18 DEF Store!Commit, Store!LeftBehind, Store!CredTypeOK
<1>19. CASE Store!CommitFails
  <2>1. file' \in [Store!Slot -> 0..Store!Torn] /\ gap' \in BOOLEAN
    BY <1>19, <1>f DEF Store!CommitFails, Store!CredTypeOK
  <2> QED
    BY <1>19, <2>1 DEF Store!CommitFails, Store!CredTypeOK
<1>20. CASE Store!Uncommit
  BY <1>20, <1>e DEF Store!Uncommit, Store!CredTypeOK
<1>21. CASE Store!DropPending
  <2>1. keyring' \in [Store!Slot -> 0..MaxCred] /\ file' \in [Store!Slot -> 0..Store!Torn]
    BY <1>21, <1>f DEF Store!DropPending, Store!CredTypeOK
  <2> QED
    BY <1>21, <2>1 DEF Store!DropPending, Store!CredTypeOK
<1>22. CASE Store!Settle
  <2>1. cred \in 1..MaxCred
    BY <1>22, <1>f DEF Store!Settle, Pairs, Pairings, Store!CredTypeOK
  <2>2. works' \in [Profile -> SUBSET (1..MaxCred)] /\ retired' \subseteq 1..MaxCred
    BY <1>22, <2>1 DEF Store!Settle, Store!CredTypeOK
  <2> QED
    BY <1>22, <1>e, <2>2 DEF Store!Settle, Store!CredTypeOK
<1>23. ASSUME NEW p \in Profile, Store!Remove(p) PROVE Store!CredTypeOK'
  <2>1. works' \in [Profile -> SUBSET (1..MaxCred)] /\ retired' \subseteq 1..MaxCred
    BY <1>23 DEF Store!Remove, Store!CredTypeOK
  <2> QED
    BY <1>23, <2>1 DEF Store!Remove, Store!CredTypeOK
<1>24. CASE Store!RemovePending \/ Store!RemoveCurrent
  <2>1. keyring' \in [Store!Slot -> 0..MaxCred] /\ file' \in [Store!Slot -> 0..Store!Torn]
          /\ todo' \subseteq Store!Slot
    BY <1>24, <1>f
       DEF Store!RemovePending, Store!RemoveCurrent, Store!RemoveRouted, Store!CredTypeOK
  <2> QED
    BY <1>24, <2>1
       DEF Store!RemovePending, Store!RemoveCurrent, Store!RemoveRouted, Store!CredTypeOK
<1>25. CASE Store!RemoveFile
  <2>1. file' \in [Store!Slot -> 0..Store!Torn] /\ todo' \subseteq Store!Slot
    BY <1>25, <1>f DEF Store!RemoveFile, Store!CredTypeOK
  <2> QED
    BY <1>25, <2>1 DEF Store!RemoveFile, Store!CredTypeOK
<1>26. CASE Store!RemoveMarker \/ Store!RemoveStops
  BY <1>26, <1>e DEF Store!RemoveMarker, Store!RemoveStops, Store!CredTypeOK
<1>27. CASE UNCHANGED Store!vars
  BY <1>27 DEF Store!vars, Store!CredTypeOK
<1> QED
  BY <1>1, <1>2, <1>3, <1>4, <1>5, <1>6, <1>7, <1>8, <1>9, <1>10, <1>11, <1>12, <1>13, <1>14,
     <1>15, <1>16, <1>17, <1>18, <1>19, <1>20, <1>21, <1>22, <1>23, <1>24, <1>25, <1>26, <1>27
  DEF Store!Next, Store!Migration, Store!Pairing, Store!Removal

-----------------------------------------------------------------------------
(* Where the commands are *)

LEMMA StagesNext ==
  ASSUME Store!StoreAssumption, Store!CredTypeOK, Stages, [Store!Next]_(Store!vars) PROVE Stages'
<1> USE DEF Store!disk, Store!process, Store!relay, Store!ghosts
<1>f. /\ \A p \in Profile : Store!Current(p) \in Store!Slot /\ Store!Pending(p) \in Store!Slot
      /\ \A p \in Profile : /\ Store!Current(p)' = Store!Current(p)
                                 /\ Store!Pending(p)' = Store!Pending(p)
      /\ keyring \in [Store!Slot -> 0..MaxCred] /\ file \in [Store!Slot -> 0..Store!Torn]
      /\ todo \subseteq Store!Slot /\ found \subseteq Store!Slot /\ who \in Profile
  BY SlotFacts DEF Store!CredTypeOK, Store!Current, Store!Pending
<1>e. ASSUME pc' = "idle", mode' = "unset", after' # "remove_pending" PROVE Stages'
  BY <1>e DEF Stages
<1>g. ASSUME pc' \notin {"idle", "copy", "marker", "commit", "remove_pending", "remove_current",
               "residue"},
             after' = after, UNCHANGED <<who, paired>>, pc' = pc \/ pc # "clean",
             pc' = "uncommit" /\ backend' => gap'
      PROVE  Stages'
  BY <1>g DEF Stages
<1>1. CASE Store!Crash
  BY <1>1, <1>e DEF Store!Crash, Store!Ended
<1>2. CASE Store!StartMigration
  <2>1. /\ pc = "idle" /\ pc' \in {"clean", "copy"} /\ after # "remove_pending" /\ after' = after
        /\ pc' = "copy" => /\ ~backend /\ UNCHANGED <<backend, keyring>> /\ todo' = found'
                           /\ found' = {s \in Store!Slot : keyring[s] # Store!None}
    BY <1>2 DEF Store!StartMigration, Stages
  <2> QED
    BY <2>1 DEF Stages
<1>3. CASE Store!CopySlot
  <2>1. PICK s \in Store!NextCopy : file' = [file EXCEPT ![s] = keyring[s]] /\ todo' = todo \ {s}
    BY <1>3 DEF Store!CopySlot
  <2>2. /\ pc = "copy" /\ pc' = "copy" /\ UNCHANGED <<keyring, backend, found, after, who, paired>>
    BY <1>3 DEF Store!CopySlot, Store!Step
  <2>3. s \in Store!Slot
    BY <1>f DEF Store!NextCopy
  <2>4. \A x \in found \ todo' : file'[x] = keyring[x]
    <3>1. \A x \in found \ todo : file[x] = keyring[x]
      BY <2>2 DEF Stages
    <3> QED
      BY <1>f, <2>1, <2>3, <3>1
  <2> QED
    BY <2>2, <2>4 DEF Stages
<1>4. CASE Store!CopyFails
  BY <1>4 DEF Store!CopyFails, Store!Ended, Stages
<1>5. CASE Store!WriteCheckpoint
  BY <1>5 DEF Store!WriteCheckpoint, Stages
<1>6. CASE Store!WriteMarker \/ Store!MarkerFails \/ Store!SaveEndpoint
  BY <1>6, <1>g DEF Store!WriteMarker, Store!MarkerFails, Store!SaveEndpoint, Store!Step
<1>7. CASE Store!DropCheckpoint
  BY <1>7 DEF Store!DropCheckpoint, Store!Step, Stages
<1>8. CASE Store!Rollback
  BY <1>8, <1>g DEF Store!Rollback, Store!Step
<1>9. CASE Store!RolledBack \/ Store!CleanStops \/ Store!Uncommit \/ Store!Settle
           \/ Store!RemoveMarker \/ Store!RemoveStops
  BY <1>9, <1>e
     DEF Store!RolledBack, Store!CleanStops, Store!Uncommit, Store!Settle, Store!RemoveMarker,
         Store!RemoveStops, Store!Ended
<1>10. CASE Store!CleanSlot
  BY <1>10, <1>g DEF Store!CleanSlot, Store!Step
<1>11. CASE Store!CleanDone
  <2>1. CASE Store!Ended
    BY <2>1, <1>e DEF Store!Ended
  <2>2. CASE pc = "clean" /\ pc' = after /\ after # "idle" /\ after' = "idle"
             /\ UNCHANGED <<who, paired>>
    <3>1. after \in {"remove_pending", "drop_marker"}
      BY <2>2 DEF Store!CredTypeOK
    <3> QED
      BY <2>2, <3>1 DEF Stages
  <2> QED
    BY <1>11, <2>1, <2>2 DEF Store!CleanDone
<1>12. ASSUME NEW p \in Profile, Store!ForceFiles(p) \/ Store!StartPairing(p) \/ Store!Resume(p)
       PROVE Stages'
  BY <1>12 DEF Store!ForceFiles, Store!StartPairing, Store!Resume, Store!Step, Stages
<1>13. CASE Store!StorePending
  BY <1>13, <1>e, <1>g DEF Store!StorePending, Store!Ended
<1>14. CASE Store!OptIn \/ Store!Activate
  BY <1>14, <1>e, <1>g DEF Store!OptIn, Store!Activate, Store!Ended
<1>15. CASE Store!Promote
  BY <1>15 DEF Store!Promote, Store!Ended, Stages
<1>16. CASE Store!Commit \/ Store!CommitFails \/ Store!DropPending
  BY <1>16, <1>g DEF Store!Commit, Store!CommitFails, Store!DropPending, Store!Step
<1>17. ASSUME NEW p \in Profile, Store!Remove(p) PROVE Stages'
  <2>1. /\ pc' \in {"remove_pending", "clean"} /\ who' = p /\ paired' = paired \ {p}
        /\ after' = "remove_pending" => pc' = "clean"
    BY <1>17 DEF Store!Remove, Stages
  <2> QED
    BY <2>1 DEF Stages
<1>18. CASE Store!RemovePending \/ Store!RemoveCurrent
  <2>1. /\ pc \in {"remove_pending", "remove_current"} /\ pc' \in {"remove_current", "residue"}
        /\ UNCHANGED <<who, paired, after>>
        /\ pc' = "residue" => todo' = {Store!Current(who), Store!Pending(who)}
    BY <1>18 DEF Store!RemovePending, Store!RemoveCurrent, Store!RemoveRouted, Store!Step
  <2>2. pc' = "residue" => todo' \subseteq {Store!Current(who'), Store!Pending(who')}
    BY <2>1
  <2> QED
    BY <2>1, <2>2 DEF Stages, Store!Current, Store!Pending
<1>19. CASE Store!RemoveFile
  <2>1. /\ pc = "residue" /\ pc' = "residue" /\ UNCHANGED <<who, paired, after>>
             /\ todo' \subseteq todo
    BY <1>19 DEF Store!RemoveFile, Store!Step
  <2> QED
    BY <2>1 DEF Stages, Store!Current, Store!Pending
<1>20. CASE UNCHANGED Store!vars
  BY <1>20 DEF Store!vars, Stages, Store!Current, Store!Pending
<1> QED
  BY <1>1, <1>2, <1>3, <1>4, <1>5, <1>6, <1>7, <1>8, <1>9, <1>10, <1>11, <1>12, <1>13, <1>14,
     <1>15, <1>16, <1>17, <1>18, <1>19, <1>20
  DEF Store!Next, Store!Migration, Store!Pairing, Store!Removal

LEMMA PairsNext ==
  ASSUME Store!StoreAssumption, Store!CredTypeOK, Stages, Pairs, [Store!Next]_(Store!vars)
  PROVE Pairs'
<1> USE DEF Store!disk, Store!process, Store!relay, Store!ghosts, Pairings
<1>f. /\ \A p \in Profile : Store!Current(p) \in Store!Slot /\ Store!Pending(p) \in Store!Slot
      /\ \A p \in Profile : /\ Store!Current(p)' = Store!Current(p)
                                 /\ Store!Pending(p)' = Store!Pending(p)
                            /\ Store!Current(p) # Store!Pending(p)
      /\ keyring \in [Store!Slot -> 0..MaxCred] /\ file \in [Store!Slot -> 0..Store!Torn]
      /\ who \in Profile
      /\ endpoint \subseteq Profile /\ works \in [Profile -> SUBSET (1..MaxCred)]
  BY SlotFacts DEF Store!CredTypeOK, Store!Current, Store!Pending
<1>e. ASSUME pc' \notin Pairings PROVE Pairs'
  BY <1>e DEF Pairs
<1>1. CASE Store!Crash \/ Store!StartMigration \/ Store!CopySlot \/ Store!CopyFails
           \/ Store!WriteCheckpoint \/ Store!WriteMarker
           \/ Store!MarkerFails \/ Store!DropCheckpoint \/ Store!Rollback \/ Store!RolledBack
           \/ Store!CleanSlot \/ Store!CleanStops
  BY <1>1, <1>e
     DEF Store!Crash, Store!StartMigration, Store!CopySlot, Store!CopyFails,
         Store!WriteCheckpoint, Store!WriteMarker,
     Store!MarkerFails, Store!DropCheckpoint, Store!Rollback, Store!RolledBack, Store!CleanSlot,
       Store!CleanStops, Store!Ended, Store!Step
<1>2. CASE Store!CleanDone
  <2>1. pc' \in {"idle", "clean", "remove_pending", "drop_marker"}
    BY <1>2 DEF Store!CleanDone, Store!Ended, Store!CredTypeOK
  <2> QED
    BY <2>1, <1>e
<1>3. CASE Store!CommitFails \/ Store!Uncommit \/ Store!Settle \/ Store!RemovePending
           \/ Store!RemoveCurrent \/ Store!RemoveFile
           \/ Store!RemoveMarker \/ Store!RemoveStops
  BY <1>3, <1>e
     DEF Store!CommitFails, Store!Uncommit, Store!Settle, Store!RemovePending,
         Store!RemoveCurrent, Store!RemoveRouted,
     Store!RemoveFile, Store!RemoveMarker, Store!RemoveStops, Store!Ended, Store!Step
<1>4. ASSUME NEW p \in Profile, Store!ForceFiles(p) \/ Store!StartPairing(p) \/ Store!Remove(p)
      PROVE Pairs'
  BY <1>4, <1>e DEF Store!ForceFiles, Store!StartPairing, Store!Remove, Store!Step
<1>5. ASSUME NEW p \in Profile, Store!Resume(p) PROVE Pairs'
  <2>1. /\ pc' = "activate" /\ who' = p /\ p \in endpoint
             /\ UNCHANGED <<keyring, file, backend, mode, endpoint>>
        /\ \/ cred' = file[Store!Pending(p)] /\ cred' # Store!None /\ toFile'
           \/ cred' = keyring[Store!Pending(p)] /\ cred' # Store!None /\ ~toFile' /\ ~backend
    BY <1>5 DEF Store!Resume, Store!Step
  <2>2. pc = "idle"
    BY <1>5 DEF Store!Resume, Store!Step
  <2>3. toFile' \/ mode # "explicit"
    BY <2>1, <2>2 DEF Stages
  <2> QED
    BY <2>1, <2>3, <1>f DEF Pairs, Store!Pending
<1>6. CASE Store!StorePending
  <2>1. CASE Store!Ended
    BY <2>1, <1>e DEF Store!Ended
  <2>2. CASE pc' = "endpoint"
    <3>1. /\ cred' = minted + 1 /\ toFile' = Store!FileBacked /\ UNCHANGED <<who, mode, backend>>
          /\ IF Store!FileBacked THEN file' = [file EXCEPT ![Store!Pending(who)] = cred']
                           ELSE keyring' = [keyring EXCEPT ![Store!Pending(who)] = cred']
      BY <1>6, <2>2 DEF Store!StorePending, Store!Ended
    <3>2. cred' # Store!None
      BY <3>1 DEF Store!CredTypeOK, Store!None
    <3>3. IF toFile' THEN file'[Store!Pending(who)] = cred' ELSE keyring'[Store!Pending(who)] = cred'
      BY <3>1, <1>f DEF Store!FileBacked
    <3>4. toFile' \/ (~backend' /\ mode' # "explicit")
      BY <3>1 DEF Store!FileBacked
    <3> QED
      BY <2>2, <3>1, <3>2, <3>3, <3>4 DEF Pairs, Store!Pending
  <2> QED
    BY <1>6, <2>1, <2>2 DEF Store!StorePending
<1>7. CASE Store!SaveEndpoint
  <2>1. /\ pc = "endpoint" /\ pc' = IF mode = "explicit" THEN "opt_in" ELSE "activate"
        /\ endpoint' = endpoint \cup {who}
        /\ UNCHANGED <<keyring, file, backend, mode, who, cred, toFile, works>>
    BY <1>7 DEF Store!SaveEndpoint, Store!Step
  <2> QED
    BY <2>1 DEF Pairs, Store!Pending
<1>8. CASE Store!OptIn
  <2>1. CASE pc' = "idle"
    BY <2>1, <1>e
  <2>2. CASE pc' = "activate"
    <3>1. /\ pc = "opt_in" /\ UNCHANGED <<keyring, file, endpoint, mode, who, cred, toFile, works>>
      BY <1>8, <2>2 DEF Store!OptIn, Store!Ended
    <3> QED
      BY <2>2, <3>1 DEF Pairs, Store!Pending
  <2> QED
    BY <1>8, <2>1, <2>2 DEF Store!OptIn, Store!Ended
<1>9. CASE Store!Activate
  <2>1. CASE pc' = "idle"
    BY <2>1, <1>e
  <2>2. CASE pc' = "promote"
    <3>1. /\ pc = "activate" /\ UNCHANGED <<keyring, file, endpoint, mode, who, cred, toFile,
               backend>>
          /\ works' = [works EXCEPT ![who] = @ \cup {cred}]
      BY <1>9, <2>2 DEF Store!Activate, Store!Ended
    <3>2. cred \in works'[who]
      BY <3>1, <1>f
    <3> QED
      BY <2>2, <3>1, <3>2 DEF Pairs, Store!Pending
  <2> QED
    BY <1>9, <2>1, <2>2 DEF Store!Activate, Store!Ended
<1>10. CASE Store!Promote
  <2>1. CASE pc' = "idle"
    BY <2>1, <1>e
  <2>2. CASE pc' \in {"drop_pending", "commit"}
    <3>1. /\ pc = "promote" /\ UNCHANGED <<mode, who, cred, toFile, backend, works>>
          /\ IF toFile THEN /\ file' = [file EXCEPT ![Store!Current(who)] = cred]
                            /\ pc' = IF backend THEN "drop_pending" ELSE "commit"
                       ELSE keyring' = [keyring EXCEPT ![Store!Current(who)] = cred]
                         /\ pc' = "drop_pending"
      BY <1>10, <2>2 DEF Store!Promote, Store!Ended
    <3>2. IF toFile THEN file'[Store!Current(who)] = cred ELSE keyring'[Store!Current(who)] = cred
      BY <3>1, <1>f
    <3> QED
      BY <2>2, <3>1, <3>2 DEF Pairs, Store!Current
  <2> QED
    BY <1>10, <2>1, <2>2 DEF Store!Promote, Store!Ended
<1>11. CASE Store!Commit
  <2>1. /\ pc = "commit" /\ pc' = "drop_pending" /\ backend'
        /\ UNCHANGED <<keyring, file, mode, who, cred, toFile, works>>
    BY <1>11 DEF Store!Commit, Store!Step
  <2> QED
    BY <2>1 DEF Pairs, Store!Current
<1>12. CASE Store!DropPending
  <2>1. /\ pc = "drop_pending" /\ pc' = "settle" /\ UNCHANGED <<backend, mode, who, cred, toFile,
             works>>
        /\ IF toFile THEN file' = [file EXCEPT ![Store!Pending(who)] = Store!None]
                     ELSE keyring' = [keyring EXCEPT ![Store!Pending(who)] = Store!None]
    BY <1>12 DEF Store!DropPending, Store!Step
  <2>2. IF toFile THEN file'[Store!Current(who)] = file[Store!Current(who)]
                  ELSE keyring'[Store!Current(who)] = keyring[Store!Current(who)]
    BY <2>1, <1>f
  <2> QED
    BY <2>1, <2>2 DEF Pairs, Store!Current
<1>13. CASE UNCHANGED Store!vars
  BY <1>13 DEF Store!vars, Pairs, Store!Current, Store!Pending
<1> QED
  BY <1>1, <1>2, <1>3, <1>4, <1>5, <1>6, <1>7, <1>8, <1>9, <1>10, <1>11, <1>12, <1>13
  DEF Store!Next, Store!Migration, Store!Pairing, Store!Removal

-----------------------------------------------------------------------------
(* Where a profile's credential is *)

\* A step that leaves the stores as they are keeps what is in them.
LEMMA KeptWhenStill ==
  ASSUME Kept, UNCHANGED <<keyring, file, backend, endpoint, works, paired, hidden>>, gap => gap',
         pc' \in {"drop_checkpoint", "rollback"}
           => ~backend \/ pc \in {"drop_checkpoint", "rollback"}
  PROVE  Kept'
<1>1. \A p : InKeyring(p)' = InKeyring(p) /\ InFiles(p)' = InFiles(p)
  BY DEF InKeyring, InFiles, Store!Current, Store!Pending
<1> QED
  BY <1>1 DEF Kept

\* What a credential in use is copied to, it is the same there.
LEMMA KeptByMigration ==
  ASSUME Store!StoreAssumption, Store!CredTypeOK, Stages, Kept,
         \/ Store!StartMigration \/ Store!CopySlot \/ Store!CopyFails \/ Store!WriteCheckpoint
         \/ Store!WriteMarker
         \/ Store!MarkerFails \/ Store!DropCheckpoint \/ Store!Rollback \/ Store!RolledBack
         \/ Store!CleanSlot \/ Store!CleanStops \/ Store!CleanDone
  PROVE  Kept'
<1> USE DEF Store!disk, Store!process, Store!relay, Store!ghosts
<1>c. \A p \in Profile : Store!Current(p)' = Store!Current(p)
        /\ Store!Pending(p)' = Store!Pending(p)
  BY DEF Store!Current, Store!Pending
<1>f. /\ \A p \in Profile : Store!Current(p) \in Store!Slot /\ Store!Pending(p) \in Store!Slot
      /\ keyring \in [Store!Slot -> 0..MaxCred] /\ file \in [Store!Slot -> 0..Store!Torn]
      /\ works \in [Profile -> SUBSET (1..MaxCred)] /\ paired \subseteq Profile
      /\ Store!None \notin 1..MaxCred /\ Store!Torn \notin 1..MaxCred
      /\ found \subseteq Store!Slot /\ todo \subseteq Store!Slot
  BY SlotFacts DEF Store!CredTypeOK
\* while the marker is away, only the keyring counts
<1>k. ASSUME ~backend, ~backend', UNCHANGED <<keyring, endpoint, works, paired, gap>> PROVE Kept'
  <2>1. \A p \in Profile : InKeyring(p)' = InKeyring(p)
    BY <1>k, <1>c DEF InKeyring
  <2> QED
    BY <1>k, <1>f, <2>1 DEF Kept
<1>1. CASE Store!StartMigration
  BY <1>1, KeptWhenStill DEF Store!StartMigration
<1>2. CASE Store!CopySlot
  <2>1. ~backend
    BY <1>2 DEF Store!CopySlot, Store!Step, Stages
  <2> QED
    BY <1>2, <1>k, <2>1 DEF Store!CopySlot
<1>3. CASE Store!CopyFails
  <2>1. ~backend
    BY <1>3 DEF Store!CopyFails, Stages
  <2> QED
    BY <1>3, <1>k, <2>1 DEF Store!CopyFails
<1>4. CASE Store!WriteCheckpoint
  <2>1. ~backend
    BY <1>4 DEF Store!WriteCheckpoint, Stages
  <2> QED
    BY <1>4, <1>k, <2>1 DEF Store!WriteCheckpoint
<1>5. CASE Store!WriteMarker \/ Store!MarkerFails
  <2>1. /\ pc = "marker" /\ ~backend /\ UNCHANGED <<keyring, file, endpoint, works, paired, hidden,
             gap>>
    BY <1>5 DEF Store!WriteMarker, Store!MarkerFails, Store!Step, Stages
  <2>2. \A p \in Profile : InKeyring(p)' = InKeyring(p)
    BY <2>1, <1>c DEF InKeyring
  <2>3. \A s \in Store!Slot : keyring[s] # Store!None => file[s] = keyring[s] \/ s \in todo
    BY <2>1 DEF Stages
  <2>4. todo = {}
    BY <2>1 DEF Stages
  <2>5. \A p \in Profile : InKeyring(p) => InFiles(p)'
    BY <1>c, <1>f, <2>1, <2>3, <2>4 DEF InKeyring, InFiles
  <2> QED
    BY <1>f, <2>1, <2>2, <2>5 DEF Kept
<1>6. CASE Store!DropCheckpoint
  BY <1>6, KeptWhenStill DEF Store!DropCheckpoint, Store!Step
<1>7. CASE Store!Rollback
  <2>1. pc = "rollback" /\ gap' = (gap \/ backend) /\ UNCHANGED <<keyring, backend, endpoint,
          works, paired>>
    BY <1>7 DEF Store!Rollback, Store!Step
  <2>2. CASE backend
    BY <2>1, <2>2 DEF Kept, Store!CredTypeOK
  <2>3. CASE ~backend
    BY <2>1, <2>3, <1>k DEF Store!CredTypeOK
  <2> QED
    BY <2>2, <2>3
<1>8. CASE Store!RolledBack
  <2>1. /\ pc = "rollback" /\ pc' = "idle" /\ (backend' => backend)
        /\ UNCHANGED <<keyring, file, endpoint, works, paired, hidden, gap>>
    BY <1>8 DEF Store!RolledBack, Store!Ended
  <2>2. \A p \in Profile : InKeyring(p)' = InKeyring(p) /\ InFiles(p)' = InFiles(p)
    BY <2>1, <1>c DEF InKeyring, InFiles
  <2>3. ~gap => \A p \in paired : InKeyring(p) /\ (backend => InFiles(p))
    BY <2>1 DEF Kept
  <2>4. ~gap => \A p \in paired : InKeyring(p)' /\ (backend' => InFiles(p)')
    BY <1>f, <2>1, <2>2, <2>3
  <2> QED
    BY <2>1, <2>4 DEF Kept
<1>9. ASSUME pc = "clean", pc' \in {"clean", "idle"},
               gap' = (gap \/ (keyring' # keyring /\ ~backend)),
             UNCHANGED <<file, backend, endpoint, works, paired, hidden>>,
             \A s \in Store!Slot : keyring'[s] = keyring[s] \/ keyring[s] = file[s]
      PROVE  Kept'
  <2>1. CASE ~gap'
    <3>1. ~gap
      BY <1>9, <2>1 DEF Store!CredTypeOK
    <3>2. CASE backend
      <4>1. \A p \in Profile : InFiles(p) => InFiles(p)'
        BY <1>c, <1>f, <1>9 DEF InFiles
      <4> QED
        BY <1>f, <1>9, <3>1, <3>2, <4>1 DEF Kept
    <3>3. CASE ~backend
      <4>1. keyring' = keyring /\ gap' = gap
        BY <1>9, <2>1, <3>1, <3>3 DEF Store!CredTypeOK
      <4> QED
        BY <1>9, <1>k, <3>3, <4>1
    <3> QED
      BY <3>2, <3>3
  <2> QED
    BY <2>1 DEF Kept
<1>10. CASE Store!CleanSlot
  <2>1. PICK s \in todo : keyring[s] \in {Store!None, file[s]}
          /\ keyring' = [keyring EXCEPT ![s] = Store!None]
    BY <1>10 DEF Store!CleanSlot
  <2>2. \A x \in Store!Slot : keyring'[x] = keyring[x] \/ keyring[x] = file[x]
    BY <1>f, <2>1
  <2>3. CASE keyring' = keyring
    BY <2>3, <1>10, KeptWhenStill DEF Store!CleanSlot, Store!Step
  <2>4. CASE keyring' # keyring
    <3>1. gap' = (gap \/ (keyring' # keyring /\ ~backend))
      BY <2>4, <1>10 DEF Store!CleanSlot
    <3> QED
      BY <1>10, <1>9, <2>2, <3>1 DEF Store!CleanSlot, Store!Step
  <2> QED
    BY <2>3, <2>4
<1>11. CASE Store!CleanStops
  <2>1. \A x \in Store!Slot : keyring'[x] = keyring[x] \/ keyring[x] = file[x]
    BY <1>11, <1>f DEF Store!CleanStops
  <2> QED
    BY <1>11, <1>9, <2>1 DEF Store!CleanStops, Store!Ended
<1>12. CASE Store!CleanDone
  <2>1. UNCHANGED <<keyring, file, backend, endpoint, works, paired, hidden, gap>> /\ pc = "clean"
    BY <1>12 DEF Store!CleanDone
  <2>2. pc' \notin {"drop_checkpoint", "rollback"}
    BY <1>12 DEF Store!CleanDone, Store!Ended, Store!CredTypeOK
  <2> QED
    BY <2>1, <2>2, KeptWhenStill
<1> QED
  BY <1>1, <1>2, <1>3, <1>4, <1>5, <1>6, <1>7, <1>8, <1>10, <1>11, <1>12

\* A pairing writes over nothing in use: it needs a free pending slot, the pending one
\* holds the new credential until it is the current one, and the other store's does
\* not count any more.
LEMMA KeptByPairing ==
  ASSUME Store!StoreAssumption, Store!CredTypeOK, Stages, Pairs, Kept,
         \/ \E p \in Profile : Store!ForceFiles(p) \/ Store!StartPairing(p) \/ Store!Resume(p)
         \/ Store!StorePending \/ Store!SaveEndpoint \/ Store!OptIn \/ Store!Activate
         \/ Store!Promote
         \/ Store!Commit \/ Store!CommitFails \/ Store!Uncommit \/ Store!DropPending \/ Store!Settle
  PROVE  Kept'
<1> USE DEF Store!disk, Store!process, Store!relay, Store!ghosts, Pairings
<1>c. \A p \in Profile : Store!Current(p)' = Store!Current(p)
        /\ Store!Pending(p)' = Store!Pending(p)
  BY DEF Store!Current, Store!Pending
<1>f. /\ \A p \in Profile : Store!Current(p) \in Store!Slot /\ Store!Pending(p) \in Store!Slot
      /\ \A p, q \in Profile : /\ Store!Current(p) # Store!Pending(q)
                               /\ Store!Current(p) = Store!Current(q) => p = q
                               /\ Store!Pending(p) = Store!Pending(q) => p = q
      /\ keyring \in [Store!Slot -> 0..MaxCred] /\ file \in [Store!Slot -> 0..Store!Torn]
      /\ works \in [Profile -> SUBSET (1..MaxCred)] /\ paired \subseteq Profile /\ who \in Profile
      /\ Store!None \notin 1..MaxCred /\ Store!Torn \notin 1..MaxCred /\ endpoint \subseteq Profile
      /\ cred \in 0..MaxCred
  BY SlotFacts DEF Store!CredTypeOK
<1>w. \A p \in Profile : Store!None \notin works[p] /\ Store!Torn \notin works[p]
  BY <1>f
<1>1. CASE \E p \in Profile : Store!ForceFiles(p) \/ Store!StartPairing(p) \/ Store!Resume(p)
  BY <1>1, KeptWhenStill DEF Store!ForceFiles, Store!StartPairing, Store!Resume, Store!Step
<1>2. CASE Store!StorePending
  <2>1. /\ pc = "pair" /\ pc' \in {"idle", "endpoint"} /\ Store!MayPair(who)
        /\ UNCHANGED <<backend, endpoint, works, paired, hidden, gap>>
    BY <1>2 DEF Store!StorePending, Store!Ended
  <2>2. PICK v \in 0..Store!Torn :
          \/ Store!FileBacked /\ keyring' = keyring
               /\ file' = [file EXCEPT ![Store!Pending(who)] = v]
          \/ ~Store!FileBacked /\ file' = file /\ keyring' = [keyring EXCEPT ![Store!Pending(who)] = v]
    <3>1. minted + 1 \in 0..Store!Torn /\ file[Store!Pending(who)] \in 0..Store!Torn
            /\ Store!Torn \in 0..Store!Torn
      BY <1>2, <1>f DEF Store!StorePending, Store!CredTypeOK, Store!StoreAssumption, Store!Torn
    <3> QED
      BY <1>2, <3>1 DEF Store!StorePending, Store!WriteFails
  <2>3. ASSUME NEW p \in Profile, InFiles(p), backend PROVE InFiles(p)'
    <3>1. /\ Store!FileBacked /\ keyring' = keyring
               /\ file'[Store!Current(p)] = file[Store!Current(p)]
          /\ p # who => file'[Store!Pending(p)] = file[Store!Pending(p)]
      BY <1>f, <2>2, <2>3 DEF Store!FileBacked
    <3>2. p = who /\ p \in endpoint => file[Store!Pending(p)] = Store!None
      BY <2>1, <3>1 DEF Store!MayPair, Store!Routed
    <3> QED
      BY <1>c, <1>w, <2>1, <2>3, <3>1, <3>2 DEF InFiles
  <2>4. ASSUME NEW p \in Profile, InKeyring(p) PROVE InKeyring(p)'
    <3>1. CASE Store!FileBacked
      BY <1>c, <2>1, <2>2, <2>4, <3>1 DEF InKeyring
    <3>2. CASE ~Store!FileBacked
      <4>1. /\ keyring'[Store!Current(p)] = keyring[Store!Current(p)]
            /\ p # who => keyring'[Store!Pending(p)] = keyring[Store!Pending(p)]
        BY <1>f, <2>2, <3>2
      <4>2. p = who /\ p \in endpoint => keyring[Store!Pending(p)] = Store!None
        BY <2>1, <3>2 DEF Store!MayPair, Store!Routed
      <4> QED
        BY <1>c, <1>w, <2>1, <2>4, <4>1, <4>2 DEF InKeyring
    <3> QED
      BY <3>1, <3>2
  <2> QED
    BY <1>f, <2>1, <2>3, <2>4 DEF Kept
<1>3. CASE Store!SaveEndpoint
  <2>1. /\ endpoint' = endpoint \cup {who} /\ UNCHANGED <<keyring, file, backend, works, paired,
             hidden, gap>>
        /\ pc' \in {"opt_in", "activate"}
    BY <1>3 DEF Store!SaveEndpoint, Store!Step
  <2>2. \A p \in Profile : (InKeyring(p) => InKeyring(p)') /\ (InFiles(p) => InFiles(p)')
    BY <1>c, <2>1 DEF InKeyring, InFiles
  <2> QED
    BY <1>f, <2>1, <2>2 DEF Kept
\* the marker is laid down, and what it leaves in the keyring is known
<1>o. ASSUME ~backend, UNCHANGED <<keyring, file, endpoint, works, paired, gap>>,
             hidden' = Store!LeftBehind \/ ~backend',
             pc' \notin {"drop_checkpoint", "rollback"}
      PROVE  Kept'
  <2>1. \A p \in Profile : InKeyring(p)' = InKeyring(p)
    BY <1>c, <1>o DEF InKeyring
  <2>2. ASSUME NEW p \in Profile, InKeyring(p), backend' PROVE InFiles(p)'
    <3>1. hidden' = Store!LeftBehind
      BY <1>o, <2>2
    <3>2. keyring[Store!Current(p)] \in works[p] => p \in hidden'
            \/ file[Store!Current(p)] \in works[p]
      BY <3>1 DEF Store!LeftBehind
    <3> QED
      BY <1>c, <1>o, <2>2, <3>2 DEF InKeyring, InFiles
  <2> QED
    BY <1>f, <1>o, <2>1, <2>2 DEF Kept
<1>4. CASE Store!OptIn
  <2>1. /\ UNCHANGED <<keyring, file, endpoint, works, paired, gap>> /\ pc = "opt_in"
        /\ pc' \in {"idle", "activate"} /\ backend' \in {backend, TRUE}
        /\ hidden' = IF backend' /\ ~backend THEN Store!LeftBehind ELSE hidden
    BY <1>4 DEF Store!OptIn, Store!Ended
  <2>2. CASE backend
    BY <2>1, <2>2, KeptWhenStill DEF Store!CredTypeOK
  <2>3. CASE ~backend
    BY <2>1, <2>3, <1>o
  <2> QED
    BY <2>2, <2>3
<1>5. CASE Store!Activate
  <2>1. /\ UNCHANGED <<keyring, file, backend, endpoint, paired, hidden, gap>>
             /\ pc' \in {"idle", "promote"}
        /\ \A p \in Profile : works[p] \subseteq works'[p]
    BY <1>5, <1>f DEF Store!Activate, Store!Ended
  <2>2. \A p \in Profile : (InKeyring(p) => InKeyring(p)') /\ (InFiles(p) => InFiles(p)')
    BY <1>c, <2>1 DEF InKeyring, InFiles
  <2> QED
    BY <1>f, <2>1, <2>2 DEF Kept
<1>6. CASE Store!Promote
  <2>1. /\ pc = "promote" /\ UNCHANGED <<backend, endpoint, works, paired, hidden, gap>>
        /\ pc' \in {"idle", "drop_pending", "commit"}
        /\ who \in endpoint /\ cred \in works[who]
        /\ IF toFile THEN file[Store!Pending(who)] = cred ELSE ~backend
             /\ keyring[Store!Pending(who)] = cred
    BY <1>6 DEF Store!Promote, Store!Ended, Pairs
  <2>2. CASE toFile
    <3>1. keyring' = keyring /\ \E v \in 0..Store!Torn : file' = [file EXCEPT ![Store!Current(who)] = v]
      <4>1. cred \in 0..Store!Torn /\ file[Store!Current(who)] \in 0..Store!Torn
              /\ Store!Torn \in 0..Store!Torn
        BY <1>f DEF Store!StoreAssumption, Store!Torn
      <4> QED
        BY <1>6, <2>2, <4>1 DEF Store!Promote, Store!WriteFails
    <3>2. \A p \in Profile : InKeyring(p)' = InKeyring(p)
      BY <1>c, <2>1, <3>1 DEF InKeyring
    <3>3. ASSUME NEW p \in Profile, InFiles(p) PROVE InFiles(p)'
      <4>1. /\ file'[Store!Pending(p)] = file[Store!Pending(p)]
            /\ p # who => file'[Store!Current(p)] = file[Store!Current(p)]
        BY <1>f, <3>1
      <4> QED
        BY <1>c, <2>1, <2>2, <3>1, <3>3, <4>1 DEF InFiles
    <3> QED
      BY <1>f, <2>1, <3>2, <3>3 DEF Kept
  <2>3. CASE ~toFile
    <3>1. ~backend /\ ~backend' /\ keyring' = [keyring EXCEPT ![Store!Current(who)] = cred]
      BY <1>6, <2>1, <2>3 DEF Store!Promote
    <3>2. ASSUME NEW p \in Profile, InKeyring(p) PROVE InKeyring(p)'
      <4>1. /\ keyring'[Store!Pending(p)] = keyring[Store!Pending(p)]
            /\ p # who => keyring'[Store!Current(p)] = keyring[Store!Current(p)]
            /\ keyring'[Store!Current(who)] = cred
        BY <1>f, <3>1
      <4> QED
        BY <1>c, <2>1, <3>2, <4>1 DEF InKeyring
    <3> QED
      BY <1>f, <2>1, <3>1, <3>2 DEF Kept
  <2> QED
    BY <2>2, <2>3
<1>7. CASE Store!Commit
  <2>1. ~backend
    BY <1>7 DEF Store!Commit, Store!Step, Stages
  <2> QED
    BY <1>7, <1>o, <2>1 DEF Store!Commit, Store!Step
<1>8. CASE Store!CommitFails
  <2>1. /\ pc = "commit" /\ pc' = "uncommit" /\ ~backend /\ gap' = (gap \/ backend')
        /\ UNCHANGED <<keyring, endpoint, works, paired>>
    BY <1>8 DEF Store!CommitFails, Store!Step, Stages
  <2>2. \A p \in Profile : InKeyring(p)' = InKeyring(p)
    BY <1>c, <2>1 DEF InKeyring
  <2>3. ~gap' => ~gap /\ ~backend'
    BY <1>8, <2>1 DEF Store!CommitFails, Store!CredTypeOK
  <2> QED
    BY <1>f, <2>1, <2>2, <2>3 DEF Kept
<1>9. CASE Store!Uncommit
  <2>1. /\ pc = "uncommit" /\ pc' = "idle" /\ (backend' => backend)
        /\ UNCHANGED <<keyring, file, endpoint, works, paired, hidden, gap>>
    BY <1>9 DEF Store!Uncommit, Store!Ended
  <2>2. backend => gap
    BY <2>1 DEF Stages
  <2>3. \A p \in Profile : InKeyring(p)' = InKeyring(p)
    BY <1>c, <2>1 DEF InKeyring
  <2> QED
    BY <1>f, <2>1, <2>2, <2>3 DEF Kept
<1>10. CASE Store!DropPending
  <2>1. /\ pc = "drop_pending" /\ pc' = "settle" /\ UNCHANGED <<backend, endpoint, works, paired,
             hidden, gap>>
        /\ IF toFile THEN /\ backend /\ file[Store!Current(who)] \in works[who]
                               /\ keyring' = keyring
                          /\ file' = [file EXCEPT ![Store!Pending(who)] = Store!None]
                     ELSE /\ ~backend /\ keyring[Store!Current(who)] \in works[who] /\ file' = file
                          /\ keyring' = [keyring EXCEPT ![Store!Pending(who)] = Store!None]
    BY <1>10 DEF Store!DropPending, Store!Step, Pairs
  <2>2. CASE toFile
    <3>1. ASSUME NEW p \in Profile, InFiles(p) PROVE InFiles(p)'
      <4>1. /\ file'[Store!Current(p)] = file[Store!Current(p)]
            /\ p # who => file'[Store!Pending(p)] = file[Store!Pending(p)]
        BY <1>f, <2>1, <2>2
      <4> QED
        BY <1>c, <2>1, <2>2, <3>1, <4>1 DEF InFiles
    <3> QED
      BY <1>f, <2>1, <2>2, <3>1 DEF Kept
  <2>3. CASE ~toFile
    <3>1. ASSUME NEW p \in Profile, InKeyring(p) PROVE InKeyring(p)'
      <4>1. /\ keyring'[Store!Current(p)] = keyring[Store!Current(p)]
            /\ p # who => keyring'[Store!Pending(p)] = keyring[Store!Pending(p)]
        BY <1>f, <2>1, <2>3
      <4> QED
        BY <1>c, <2>1, <2>3, <3>1, <4>1 DEF InKeyring
    <3> QED
      BY <1>f, <2>1, <2>3, <3>1 DEF Kept
  <2> QED
    BY <2>2, <2>3
<1>11. CASE Store!Settle
  <2>1. /\ pc = "settle" /\ pc' = "idle" /\ UNCHANGED <<keyring, file, backend, gap>>
        /\ works' = [works EXCEPT ![who] = {cred}] /\ paired' = paired \cup {who}
        /\ hidden' = hidden \ {who} /\ endpoint' = endpoint \ {who}
        /\ IF toFile THEN backend /\ file[Store!Current(who)] = cred
                     ELSE ~backend /\ keyring[Store!Current(who)] = cred
    BY <1>11 DEF Store!Settle, Store!Ended, Pairs
  <2>2. ASSUME NEW p \in Profile, p # who
        PROVE  InKeyring(p)' = InKeyring(p) /\ InFiles(p)' = InFiles(p)
    <3>1. works'[p] = works[p] /\ (p \in endpoint' <=> p \in endpoint)
            /\ (p \in hidden' <=> p \in hidden)
      BY <1>f, <2>1, <2>2
    <3> QED
      BY <1>c, <2>1, <3>1 DEF InKeyring, InFiles
  <2>3. works'[who] = {cred}
    BY <1>f, <2>1
  <2>4. ASSUME NEW p \in Profile, p = who
        PROVE (~backend' => InKeyring(p)') /\ (backend' => InFiles(p)')
    BY <1>c, <2>1, <2>3, <2>4 DEF InKeyring, InFiles
  <2> QED
    BY <1>f, <2>1, <2>2, <2>4 DEF Kept
<1> QED
  BY <1>1, <1>2, <1>3, <1>4, <1>5, <1>6, <1>7, <1>8, <1>9, <1>10, <1>11

\* A removal only takes from a profile that is not paired any more.
LEMMA KeptByRemoval ==
  ASSUME Store!StoreAssumption, Store!CredTypeOK, Stages, Kept,
         \/ \E p \in Profile : Store!Remove(p)
         \/ Store!RemovePending \/ Store!RemoveCurrent \/ Store!RemoveFile \/ Store!RemoveMarker
         \/ Store!RemoveStops
  PROVE  Kept'
<1> USE DEF Store!disk, Store!process, Store!relay, Store!ghosts
<1>c. \A p \in Profile : Store!Current(p)' = Store!Current(p)
        /\ Store!Pending(p)' = Store!Pending(p)
  BY DEF Store!Current, Store!Pending
<1>f. /\ \A p \in Profile : Store!Current(p) \in Store!Slot /\ Store!Pending(p) \in Store!Slot
      /\ \A p, q \in Profile : /\ Store!Current(p) # Store!Pending(q)
                               /\ Store!Current(p) = Store!Current(q) => p = q
                               /\ Store!Pending(p) = Store!Pending(q) => p = q
      /\ keyring \in [Store!Slot -> 0..MaxCred] /\ file \in [Store!Slot -> 0..Store!Torn]
      /\ works \in [Profile -> SUBSET (1..MaxCred)] /\ paired \subseteq Profile /\ who \in Profile
      /\ Store!None \notin 1..MaxCred /\ todo \subseteq Store!Slot
  BY SlotFacts DEF Store!CredTypeOK
<1>1. ASSUME NEW p \in Profile, Store!Remove(p) PROVE Kept'
  <2>1. /\ paired' = paired \ {p} /\ hidden' = hidden \ {p} /\ works' = [works EXCEPT ![p] = {}]
        /\ UNCHANGED <<keyring, file, backend, endpoint, gap>>
        /\ pc' \in {"remove_pending", "clean"}
    BY <1>1 DEF Store!Remove
  <2>2. ASSUME NEW q \in Profile, q # p
        PROVE  InKeyring(q)' = InKeyring(q) /\ InFiles(q)' = InFiles(q)
    <3>1. works'[q] = works[q] /\ (q \in hidden' <=> q \in hidden)
      BY <1>f, <2>1, <2>2
    <3> QED
      BY <1>c, <2>1, <3>1 DEF InKeyring, InFiles
  <2> QED
    BY <1>f, <2>1, <2>2 DEF Kept
<1>2. ASSUME \A s \in Store!Slot : s \in {Store!Current(who), Store!Pending(who)}
                              \/ (keyring'[s] = keyring[s] /\ file'[s] = file[s]),
             who \notin paired, UNCHANGED <<backend, endpoint, works, paired, hidden, gap>>,
             pc' \notin {"drop_checkpoint", "rollback"}
      PROVE  Kept'
  <2>1. ASSUME NEW p \in paired
        PROVE  InKeyring(p)' = InKeyring(p) /\ InFiles(p)' = InFiles(p)
    <3>1. p \in Profile /\ Store!Current(p) \notin {Store!Current(who), Store!Pending(who)}
          /\ Store!Pending(p) \notin {Store!Current(who), Store!Pending(who)}
      BY <1>f, <1>2
    <3>2. /\ keyring'[Store!Current(p)] = keyring[Store!Current(p)]
               /\ file'[Store!Current(p)] = file[Store!Current(p)]
          /\ keyring'[Store!Pending(p)] = keyring[Store!Pending(p)]
          /\ file'[Store!Pending(p)] = file[Store!Pending(p)]
      BY <1>f, <1>2, <3>1
    <3> QED
      BY <1>c, <1>2, <3>1, <3>2 DEF InKeyring, InFiles
  <2> QED
    BY <1>2, <2>1 DEF Kept
<1>3. CASE Store!RemovePending \/ Store!RemoveCurrent
  <2>1. PICK s \in {Store!Current(who), Store!Pending(who)} :
          \/ file' = [file EXCEPT ![s] = Store!None] /\ UNCHANGED keyring
          \/ keyring' = [keyring EXCEPT ![s] = Store!None] /\ UNCHANGED file
    BY <1>3 DEF Store!RemovePending, Store!RemoveCurrent, Store!RemoveRouted
  <2>2. \A x \in Store!Slot : x \in {Store!Current(who), Store!Pending(who)}
                          \/ (keyring'[x] = keyring[x] /\ file'[x] = file[x])
    BY <1>f, <2>1
  <2>3. /\ who \notin paired /\ UNCHANGED <<backend, endpoint, works, paired, hidden, gap>>
        /\ pc' \notin {"drop_checkpoint", "rollback"}
    BY <1>3 DEF Store!RemovePending, Store!RemoveCurrent, Store!RemoveRouted, Store!Step, Stages
  <2> QED
    BY <1>2, <2>2, <2>3
<1>4. CASE Store!RemoveFile
  <2>1. PICK s \in todo : file' = [file EXCEPT ![s] = Store!None] /\ UNCHANGED keyring
    BY <1>4 DEF Store!RemoveFile
  <2>2. /\ who \notin paired /\ UNCHANGED <<backend, endpoint, works, paired, hidden, gap>>
        /\ pc' \notin {"drop_checkpoint", "rollback"}
        /\ s \in {Store!Current(who), Store!Pending(who)}
    BY <1>4, <2>1 DEF Store!RemoveFile, Store!Step, Stages
  <2>3. \A x \in Store!Slot : x \in {Store!Current(who), Store!Pending(who)}
                          \/ (keyring'[x] = keyring[x] /\ file'[x] = file[x])
    BY <1>f, <2>1, <2>2
  <2> QED
    BY <1>2, <2>2, <2>3
<1>5. CASE Store!RemoveMarker
  <2>1. /\ who \notin paired /\ UNCHANGED <<keyring, file, works, paired, hidden, gap>>
        /\ endpoint' = endpoint \ {who} /\ pc' = "idle" /\ (backend' => backend)
        /\ backend /\ ~backend' => \A s \in Store!Slot : file[s] = Store!None
    BY <1>5 DEF Store!RemoveMarker, Store!Ended, Stages
  <2>2. ASSUME NEW p \in paired
        PROVE  InKeyring(p)' = InKeyring(p) /\ InFiles(p)' = InFiles(p)
    BY <1>c, <1>f, <2>1 DEF InKeyring, InFiles
  <2>3. ASSUME NEW p \in paired, backend, ~backend', InFiles(p) PROVE InKeyring(p)
    <3>1. file[Store!Current(p)] = Store!None /\ file[Store!Pending(p)] = Store!None
            /\ Store!None \notin works[p]
      BY <1>f, <2>1, <2>3
    <3> QED
      BY <2>3, <3>1 DEF InFiles, InKeyring
  <2> QED
    BY <2>1, <2>2, <2>3 DEF Kept
<1>6. CASE Store!RemoveStops
  BY <1>6, KeptWhenStill DEF Store!RemoveStops, Store!Ended
<1> QED
  BY <1>1, <1>3, <1>4, <1>5, <1>6

LEMMA KeptNext ==
  ASSUME Store!StoreAssumption, Store!CredTypeOK, Stages, Pairs, Kept, [Store!Next]_(Store!vars)
  PROVE Kept'
<1>1. CASE Store!Crash \/ UNCHANGED Store!vars
  BY <1>1, KeptWhenStill
     DEF Store!Crash, Store!Ended, Store!disk, Store!process, Store!relay, Store!ghosts, Store!vars
<1> QED
  BY <1>1, KeptByMigration, KeptByPairing, KeptByRemoval
     DEF Store!Next, Store!Migration, Store!Pairing, Store!Removal

LEMMA KeptIsEnough == ASSUME Store!StoreAssumption, Store!CredTypeOK, Kept PROVE Store!NothingLost
<1>1. Store!Survives
  <2>1. ASSUME ~gap, NEW p \in paired
        PROVE  \E s \in {Store!Current(p), Store!Pending(p)} : keyring[s] \in works[p]
                 \/ file[s] \in works[p]
    <3>1. InKeyring(p) \/ InFiles(p)
      BY <2>1 DEF Kept, Store!CredTypeOK
    <3> QED
      BY <3>1 DEF InKeyring, InFiles
  <2> QED
    BY <2>1 DEF Store!Survives
<1>2. Store!NothingMasked
  <2>1. ASSUME ~gap, NEW p \in paired \ hidden PROVE Store!Usable(p)
    <3>1. CASE backend
      BY <2>1, <3>1 DEF Kept, InFiles, Store!Usable, Store!OnDisk
    <3>2. CASE ~backend
      BY <2>1, <3>2 DEF Kept, InKeyring, Store!Usable, Store!OnDisk
    <3> QED
      BY <3>1, <3>2
  <2> QED
    BY <2>1 DEF Store!NothingMasked, Store!NeverMasked
<1> QED
  BY <1>1, <1>2 DEF Store!NothingLost

\* No credential in use is lost, or hidden behind the other store: over crashes,
\* failed writes and unlinks, a locked keyring, migrations that are resumed and
\* removals of other profiles, unless files and marker came apart (gap).
THEOREM CredentialsSurvive == PartsSpec => []NothingLost
<1>a. Store!StoreAssumption
  BY PartsAssumption
<1> DEFINE Inv == Store!CredTypeOK /\ Stages /\ Pairs /\ Kept
<1>1. Store!Init => Inv
  <2>1. Store!Init => Stages /\ Pairs /\ Kept
    BY DEF Store!Init, Stages, Pairs, Pairings, Kept
  <2> QED
    BY <1>a, <2>1, CredTypeInit
<1>2. Inv /\ [Store!Next]_(Store!vars) => Inv'
  BY <1>a, CredTypeNext, StagesNext, PairsNext, KeptNext
<1>3. Inv => NothingLost
  BY <1>a, KeptIsEnough DEF NothingLost, In
<1> QED
  BY <1>1, <1>2, <1>3, StoreRuns, PTL DEF Store!Spec

-----------------------------------------------------------------------------
(* A form's answer runs its own call *)

Handled == {shown[f] : f \in DOMAIN shown} \cup {r[1] : r \in ran}
Queued  == {queued[i] : i \in DOMAIN queued}
Coming  == {wire[i].of : i \in {j \in DOMAIN wire : wire[j].type = "call"}}

Messages == [type : {"call", "answer", "cancel"}, of : Forms!Calls, yes : BOOLEAN]

FormsTyped ==
  /\ wire \in Seq(Messages) /\ queued \in Seq(Forms!Calls) /\ shown \in Seq(Forms!Calls)
  /\ asks \in Seq(BOOLEAN)
  /\ Len(asks) <= MaxCalls /\ ran \in SUBSET (Forms!Calls \X (0..Len(shown)))
  /\ dropped \subseteq Forms!Calls /\ cancelled \subseteq Forms!Calls
  /\ open \in BOOLEAN /\ answers \in SUBSET (Forms!Calls \X BOOLEAN)

\* What the client wrote: a call before its cancellation and before all later ones.
WireInOrder ==
  /\ \A i, j \in DOMAIN wire :
       i < j /\ wire[i].type # "answer" /\ wire[j].type = "call" => wire[i].of < wire[j].of
  /\ \A i \in DOMAIN wire :
       IF wire[i].type = "answer" THEN <<wire[i].of, wire[i].yes>> \in answers
       ELSE wire[i].of \in DOMAIN asks

\* A call is handled before every later one, and once.
HandledInOrder ==
  /\ Handled \cup Queued \cup Coming \subseteq DOMAIN asks
  /\ \A c \in Queued \cup Coming : \A h \in Handled : h < c
  /\ \A c \in Coming : \A q \in Queued : q < c
  /\ \A i, j \in DOMAIN queued : i < j => queued[i] < queued[j]

\* The open form is the last one shown; its call has not run.
FormIsLast ==
  /\ \A f \in DOMAIN shown : shown[f] >= f /\ asks[shown[f]]
  /\ form # Forms!NoForm => /\ form.form \in DOMAIN shown /\ shown[form.form] = form.call
                      /\ form.call \notin dropped /\ \A r \in ran : r[1] # form.call

\* A change runs on its form's answer, anything else without a form.
RunsOnItsForm ==
  \A r \in ran :
    IF asks[r[1]] THEN r[2] \in DOMAIN shown /\ shown[r[2]] = r[1] /\ <<r[2], TRUE>> \in answers
    ELSE r[2] = 0

DroppedIsOver ==
  /\ dropped \subseteq DOMAIN asks \ Queued /\ Forms!CancelledNeverRuns
  /\ \A c \in Coming : \A d \in dropped : d < c

FormsInv ==
  /\ FormsTyped /\ WireInOrder /\ HandledInOrder /\ FormIsLast /\ RunsOnItsForm /\ DroppedIsOver

LEMMA FormsInit == ASSUME Forms!FormsAssumption, Forms!Init PROVE FormsInv
<1>1. FormsTyped
  BY DEF Forms!FormsAssumption, Forms!Init, FormsTyped, Forms!Calls
<1>2. Queued = {} /\ Coming = {} /\ Handled = {}
  BY DEF Forms!Init, Queued, Coming, Handled
<1> QED
  BY <1>1, <1>2 DEF Forms!Init, FormsInv, WireInOrder, HandledInOrder, FormIsLast, RunsOnItsForm,
                    DroppedIsOver, Forms!CancelledNeverRuns, Forms!NoForm

-----------------------------------------------------------------------------

\* Reading a message leaves later ones, in order.
LEMMA ReadsInOrder ==
  ASSUME Forms!FormsAssumption, wire \in Seq(Messages), wire # <<>>, wire' = Tail(wire),
           WireInOrder,
         UNCHANGED <<answers, asks>>
  PROVE  /\ wire' \in Seq(Messages) /\ WireInOrder' /\ Coming' \subseteq Coming
         /\ Head(wire) \in Messages
         /\ Head(wire).type = "call" => Head(wire).of \in Coming
         /\ Head(wire).type # "answer" => /\ \A c \in Coming' : Head(wire).of < c
                                          /\ Head(wire).of \in DOMAIN asks
         /\ Head(wire).type = "answer" => <<Head(wire).of, Head(wire).yes>> \in answers
<1>1. Len(wire) \in Nat /\ Len(wire) >= 1 /\ DOMAIN wire = 1..Len(wire)
  OBVIOUS
<1>2. /\ wire' \in Seq(Messages) /\ Head(wire) = wire[1] /\ 1 \in DOMAIN wire
      /\ wire[1] \in Messages
  BY <1>1
<1>3. \A i \in DOMAIN wire' : i \in Nat /\ i + 1 \in DOMAIN wire /\ wire'[i] = wire[i + 1]
  BY <1>1
<1>4. WireInOrder'
  BY <1>3 DEF WireInOrder
<1>5. Coming' \subseteq Coming
  BY <1>3 DEF Coming
<1>6. \A c \in Coming' : Head(wire).type # "answer" => Head(wire).of < c
  <2>1. ASSUME NEW i \in DOMAIN wire', wire'[i].type = "call", Head(wire).type # "answer"
        PROVE  Head(wire).of < wire'[i].of
    BY <1>2, <1>3, <2>1 DEF WireInOrder
  <2> QED
    BY <2>1 DEF Coming
<1> QED
  BY <1>2, <1>4, <1>5, <1>6 DEF WireInOrder, Coming

LEMMA HandleKeeps ==
  ASSUME Forms!FormsAssumption, FormsInv, form = Forms!NoForm, NEW c \in DOMAIN asks,
           Forms!Handle(c),
         c \notin dropped, c \notin Handled,
         UNCHANGED <<Forms!client, dropped>>,
         wire' \in Seq(Messages), WireInOrder', queued' \in Seq(Forms!Calls),
         \A i, j \in DOMAIN queued' : i < j => queued'[i] < queued'[j],
         Queued' \subseteq Queued, Coming' \subseteq Coming,
         \A h \in Handled : h < c, \A x \in Queued' \cup Coming' : c < x
  PROVE  FormsInv'
<1>t. /\ wire \in Seq(Messages) /\ shown \in Seq(Forms!Calls) /\ asks \in Seq(BOOLEAN)
           /\ Len(asks) \in Nat
      /\ Len(asks) <= MaxCalls /\ MaxCalls \in Nat /\ Len(shown) \in Nat
      /\ DOMAIN asks = 1..Len(asks) /\ DOMAIN shown = 1..Len(shown) /\ c \in Forms!Calls
      /\ ran \in SUBSET (Forms!Calls \X (0..Len(shown)))
  BY DEF FormsInv, FormsTyped, Forms!FormsAssumption, Forms!Calls
<1>a. UNCHANGED <<open, asks, answers, cancelled, dropped>>
  BY DEF Forms!client
<1>1. CASE asks[c]
  <2>1. /\ shown' = Append(shown, c) /\ form' = [form |-> Len(shown) + 1, call |-> c] /\ ran' = ran
    BY <1>1 DEF Forms!Handle
  <2>2. /\ shown' \in Seq(Forms!Calls) /\ Len(shown') = Len(shown) + 1 /\ shown'[Len(shown) + 1] = c
        /\ DOMAIN shown' = 1..(Len(shown) + 1)
        /\ \A f \in DOMAIN shown : f \in DOMAIN shown' /\ shown'[f] = shown[f]
        /\ Len(shown) + 1 \in DOMAIN shown'
        /\ \A f \in DOMAIN shown' : f = Len(shown) + 1 \/ f \in DOMAIN shown
    BY <2>1, <1>t
  <2>3. FormsTyped'
    <3>1. ran' \in SUBSET (Forms!Calls \X (0..Len(shown')))
      BY <1>t, <2>1, <2>2
    <3> QED
      BY <1>a, <2>2, <3>1 DEF FormsInv, FormsTyped
  <2>4. Handled' = Handled \cup {c}
    BY <2>1, <2>2 DEF Handled
  <2>5. HandledInOrder'
    BY <1>a, <2>4 DEF FormsInv, HandledInOrder
  <2>6. FormIsLast'
    <3>1. \A f \in DOMAIN shown : f < c
      <4>1. \A f \in DOMAIN shown : f <= shown[f] /\ shown[f] < c /\ shown[f] \in Nat
        BY <1>t DEF FormsInv, FormIsLast, Handled, Forms!Calls
      <4> QED
        BY <1>t, <4>1 DEF Forms!Calls
    <3>2. Len(shown) + 1 <= c
      <4>1. CASE Len(shown) = 0
        BY <1>t, <4>1 DEF Forms!Calls
      <4>2. CASE Len(shown) # 0
        <5>1. Len(shown) \in DOMAIN shown
          BY <1>t, <4>2
        <5> QED
          BY <1>t, <3>1, <5>1 DEF Forms!Calls
      <4> QED
        BY <4>1, <4>2
    <3>3. \A f \in DOMAIN shown' : shown'[f] >= f /\ asks'[shown'[f]]
      BY <1>1, <1>a, <2>2, <3>2 DEF FormsInv, FormIsLast
    <3>4. \A r \in ran' : r[1] # c
      BY <2>1 DEF Handled
    <3> QED
      BY <1>a, <2>1, <2>2, <3>3, <3>4 DEF FormIsLast
  <2>7. RunsOnItsForm' /\ DroppedIsOver'
    BY <1>a, <2>1, <2>2 DEF FormsInv, RunsOnItsForm, DroppedIsOver, Forms!CancelledNeverRuns
  <2> QED
    BY <2>3, <2>5, <2>6, <2>7 DEF FormsInv
<1>2. CASE ~asks[c]
  <2>1. ran' = ran \cup {<<c, 0>>} /\ UNCHANGED <<form, shown>>
    BY <1>2 DEF Forms!Handle
  <2>2. FormsTyped'
    BY <1>t, <1>a, <2>1 DEF FormsInv, FormsTyped
  <2>p. <<c, 0>>[1] = c /\ <<c, 0>>[2] = 0
    OBVIOUS
  <2>3. Handled' = Handled \cup {c}
    <3>1. {r[1] : r \in ran'} = {r[1] : r \in ran} \cup {c}
      BY <2>1, <2>p
    <3> QED
      BY <2>1, <3>1 DEF Handled
  <2>4. HandledInOrder'
    BY <1>a, <2>3 DEF FormsInv, HandledInOrder
  <2>5. FormIsLast' /\ DroppedIsOver'
    BY <1>a, <2>1, <2>p DEF FormsInv, FormIsLast, DroppedIsOver, Forms!CancelledNeverRuns
  <2>6. RunsOnItsForm'
    <3>1. ASSUME NEW r \in ran
          PROVE  IF asks'[r[1]]
                 THEN r[2] \in DOMAIN shown' /\ shown'[r[2]] = r[1] /\ <<r[2], TRUE>> \in answers'
                 ELSE r[2] = 0
      BY <1>a, <2>1, <3>1 DEF FormsInv, RunsOnItsForm
    <3> QED
      BY <1>2, <1>a, <2>1, <2>p, <3>1 DEF RunsOnItsForm
  <2> QED
    BY <2>2, <2>4, <2>5, <2>6, <1>a DEF FormsInv
<1> QED
  BY <1>1, <1>2

LEMMA MainLoopKeeps ==
  ASSUME Forms!FormsAssumption, FormsInv, Forms!FromQueue \/ Forms!FromWire
  PROVE  FormsInv'
<1>t. /\ wire \in Seq(Messages) /\ queued \in Seq(Forms!Calls) /\ WireInOrder /\ HandledInOrder
      /\ Queued \cup Coming \subseteq DOMAIN asks
      /\ \A c \in Queued \cup Coming : c \notin Handled /\ c \notin dropped /\ c \in Nat
  <2>1. \A c \in DOMAIN asks : c \in Nat /\ ~(c < c)
    BY DEF FormsInv, FormsTyped
  <2> QED
    BY <2>1 DEF FormsInv, FormsTyped, HandledInOrder, DroppedIsOver
<1>1. CASE Forms!FromQueue
  <2>1. /\ form = Forms!NoForm /\ queued # <<>> /\ queued' = Tail(queued)
             /\ Forms!Handle(Head(queued))
        /\ UNCHANGED <<wire, Forms!client, dropped>>
    BY <1>1 DEF Forms!FromQueue
  <2>2. /\ Len(queued) \in Nat /\ Len(queued) >= 1 /\ DOMAIN queued = 1..Len(queued)
        /\ queued' \in Seq(Forms!Calls) /\ Head(queued) = queued[1]
        /\ \A i \in DOMAIN queued' : i \in Nat /\ i >= 1 /\ i + 1 \in DOMAIN queued
             /\ queued'[i] = queued[i + 1]
    BY <1>t, <2>1
  <2>3. Head(queued) \in Queued /\ Queued' \subseteq Queued
    BY <2>2 DEF Queued
  <2>4. \A x \in Queued' : Head(queued) < x
    BY <1>t, <2>2 DEF Queued, HandledInOrder
  <2>5. \A i, j \in DOMAIN queued' : i < j => queued'[i] < queued'[j]
    BY <1>t, <2>2 DEF HandledInOrder
  <2>6. Coming' = Coming /\ WireInOrder' /\ wire' \in Seq(Messages)
    BY <1>t, <2>1 DEF Coming, WireInOrder, Forms!client
  <2>7. \A x \in Queued' \cup Coming' : Head(queued) < x
    BY <1>t, <2>3, <2>4, <2>6 DEF HandledInOrder
  <2>8. \A h \in Handled : h < Head(queued)
    BY <1>t, <2>3 DEF HandledInOrder
  <2> QED
    BY <1>t, <2>1, <2>2, <2>3, <2>5, <2>6, <2>7, <2>8, HandleKeeps
<1>2. CASE Forms!FromWire
  <2>1. /\ form = Forms!NoForm /\ queued = <<>> /\ queued' = queued /\ wire # <<>>
             /\ wire' = Tail(wire)
        /\ UNCHANGED Forms!client
    BY <1>2 DEF Forms!FromWire
  <2>2. /\ wire' \in Seq(Messages) /\ WireInOrder' /\ Coming' \subseteq Coming
        /\ Head(wire) \in Messages
        /\ Head(wire).type = "call" => Head(wire).of \in Coming
        /\ Head(wire).type # "answer" => /\ \A c \in Coming' : Head(wire).of < c
                                         /\ Head(wire).of \in DOMAIN asks
    BY <1>t, <2>1, ReadsInOrder DEF Forms!client
  <2>3. Queued = {} /\ Queued' = {} /\ queued' \in Seq(Forms!Calls)
    BY <1>t, <2>1 DEF Queued
  <2>4. CASE Head(wire).type = "call"
    <3>1. Forms!Handle(Head(wire).of) /\ UNCHANGED dropped
      BY <1>2, <2>4 DEF Forms!FromWire
    <3>2. \A i, j \in DOMAIN queued' : i < j => queued'[i] < queued'[j]
      BY <2>1
    <3>3. \A h \in Handled : h < Head(wire).of
      BY <1>t, <2>2, <2>4 DEF HandledInOrder
    <3> QED
      BY <1>t, <2>1, <2>2, <2>3, <2>4, <3>1, <3>2, <3>3, HandleKeeps
  <2>5. CASE Head(wire).type # "call"
    <3>1. UNCHANGED <<form, shown, ran, queued, open, asks, answers, cancelled>>
      BY <1>2, <2>1, <2>5 DEF Forms!FromWire, Forms!client
    <3>2. \/ dropped' = dropped
          \/ /\ dropped' = dropped \cup {Head(wire).of} /\ Head(wire).type = "cancel"
             /\ \A f \in 0..MaxCalls : <<Head(wire).of, f>> \notin ran
      BY <1>2 DEF Forms!FromWire
    <3>3. \A r \in ran : r = <<r[1], r[2]>> /\ r[2] \in 0..MaxCalls
      <4>1. \A f \in DOMAIN shown : f \in Nat /\ shown[f] \in Nat /\ f <= shown[f]
              /\ shown[f] <= MaxCalls
        BY DEF FormsInv, FormsTyped, FormIsLast, Forms!Calls, Forms!FormsAssumption
      <4>2. Len(shown) \in Nat /\ Len(shown) <= MaxCalls
        <5>1. CASE Len(shown) = 0
          BY <5>1 DEF Forms!FormsAssumption
        <5>2. CASE Len(shown) # 0
          <6>1. Len(shown) \in DOMAIN shown
            BY <5>2 DEF FormsInv, FormsTyped
          <6> QED
            BY <4>1, <6>1 DEF Forms!FormsAssumption
        <5> QED
          BY <5>1, <5>2
      <4>3. ran \subseteq Forms!Calls \X (0..Len(shown))
        BY DEF FormsInv, FormsTyped
      <4> QED
        BY <4>2, <4>3 DEF Forms!FormsAssumption
    <3>4. dropped' # dropped => \A r \in ran : r[1] # Head(wire).of
      BY <3>2, <3>3
    <3>5. FormsTyped'
      BY <2>2, <2>3, <3>1, <3>2 DEF FormsInv, FormsTyped, Messages
    <3>6. HandledInOrder'
      BY <2>1, <2>2, <2>3, <3>1 DEF FormsInv, HandledInOrder, Handled
    <3>7. FormIsLast' /\ RunsOnItsForm'
      BY <2>1, <3>1 DEF FormsInv, FormIsLast, RunsOnItsForm
    <3>8. DroppedIsOver'
      <4>1. dropped' \subseteq DOMAIN asks' \ Queued'
        BY <2>2, <2>3, <3>1, <3>2 DEF FormsInv, DroppedIsOver
      <4>2. \A c \in Coming' : \A d \in dropped' : d < c
        BY <2>2, <3>2 DEF FormsInv, DroppedIsOver
      <4> QED
        BY <3>1, <3>2, <3>4, <4>1, <4>2 DEF FormsInv, DroppedIsOver, Forms!CancelledNeverRuns
    <3> QED
      BY <2>2, <3>5, <3>6, <3>7, <3>8 DEF FormsInv
  <2> QED
    BY <2>4, <2>5
<1> QED
  BY <1>1, <1>2

-----------------------------------------------------------------------------

LEMMA Removed ==
  ASSUME NEW S, NEW s \in Seq(S), NEW i \in DOMAIN s
  PROVE  /\ Forms!RemoveAt(s, i) \in Seq(S)
         /\ DOMAIN Forms!RemoveAt(s, i) = 1..(Len(s) - 1)
         /\ \A j \in 1..(Len(s) - 1) : Forms!RemoveAt(s, i)[j] = IF j < i THEN s[j] ELSE s[j + 1]
<1> DEFINE a == SubSeq(s, 1, i - 1)
           b == SubSeq(s, i + 1, Len(s))
<1>1. Len(s) \in Nat /\ i \in 1..Len(s)
  OBVIOUS
<1>2. a \in Seq(S) /\ Len(a) = i - 1 /\ \A j \in 1..(i - 1) : a[j] = s[j]
  BY <1>1
<1>3. b \in Seq(S) /\ Len(b) = Len(s) - i /\ \A j \in 1..(Len(s) - i) : b[j] = s[i + j]
  BY <1>1
<1> HIDE DEF a, b
<1>4. a \o b \in Seq(S) /\ Len(a \o b) = Len(s) - 1
  BY <1>1, <1>2, <1>3
<1>5. ASSUME NEW j \in 1..(Len(s) - 1) PROVE (a \o b)[j] = IF j < i THEN s[j] ELSE s[j + 1]
  <2>1. CASE j < i
    BY <1>1, <1>2, <1>3, <2>1
  <2>2. CASE ~(j < i)
    <3>1. (a \o b)[j] = b[j - (i - 1)] /\ j - (i - 1) \in 1..(Len(s) - i)
      BY <1>1, <1>2, <1>3, <2>2
    <3>2. i + (j - (i - 1)) = j + 1
      BY <1>1
    <3> QED
      BY <1>3, <2>2, <3>1, <3>2
  <2> QED
    BY <2>1, <2>2
<1>6. Forms!RemoveAt(s, i) = a \o b
  BY DEF Forms!RemoveAt, a, b
<1> QED
  BY <1>4, <1>5, <1>6

\* The messages read while a form is open: one message off the wire, and what it does.
LEMMA WhileOpenKeeps ==
  ASSUME Forms!FormsAssumption, FormsInv, Forms!WhileOpen
  PROVE  FormsInv'
<1> DEFINE msg == Head(wire)
<1>t. /\ wire \in Seq(Messages) /\ queued \in Seq(Forms!Calls) /\ shown \in Seq(Forms!Calls)
      /\ WireInOrder /\ HandledInOrder
      /\ \A c \in Queued \cup Coming : c \in Nat /\ c \notin Handled /\ c \notin dropped
      /\ \A c \in DOMAIN asks : c \in Nat /\ ~(c < c)
  BY DEF FormsInv, FormsTyped, HandledInOrder, DroppedIsOver
<1>o. /\ form # Forms!NoForm /\ wire # <<>> /\ wire' = Tail(wire)
      /\ UNCHANGED <<open, asks, answers, cancelled, shown>>
      /\ Forms!Answered(msg) \/ Forms!AnsweredLate(msg) \/ Forms!CancelledCall(msg)
           \/ Forms!CancelledOther(msg) \/ Forms!Queue(msg)
  BY DEF Forms!WhileOpen, Forms!client
<1>r. /\ wire' \in Seq(Messages) /\ WireInOrder' /\ Coming' \subseteq Coming /\ msg \in Messages
      /\ msg.type = "call" => msg.of \in Coming
      /\ msg.type # "answer" => (\A c \in Coming' : msg.of < c) /\ msg.of \in DOMAIN asks
      /\ msg.type = "answer" => <<msg.of, msg.yes>> \in answers
  <2>1. UNCHANGED <<answers, asks>>
    BY <1>o
  <2> QED
    BY <1>t, <1>o, <2>1, ReadsInOrder
<1>f. /\ form.form \in DOMAIN shown /\ shown[form.form] = form.call /\ form.call \in Handled
      /\ form.call \notin dropped /\ \A r \in ran : r[1] # form.call
      /\ asks[form.call] /\ form.form \in 0..Len(shown) /\ form.call \in Forms!Calls
      /\ Forms!NoForm = [form |-> 0, call |-> 0]
  BY <1>t, <1>o DEF FormsInv, FormIsLast, Handled, Forms!NoForm
<1> HIDE DEF msg
<1>1. CASE Forms!Answered(msg) \/ Forms!AnsweredLate(msg)
  <2>1. /\ msg.type = "answer" /\ form' \in {form, Forms!NoForm} /\ UNCHANGED <<queued, dropped>>
        /\ \/ ran' = ran
           \/ ran' = ran \cup {<<form.call, form.form>>} /\ form' = Forms!NoForm /\ msg.yes
                /\ msg.of = form.form
    BY <1>1 DEF Forms!Answered, Forms!AnsweredLate, Forms!ForForm, Forms!Closes
  <2>p. <<form.call, form.form>>[1] = form.call /\ <<form.call, form.form>>[2] = form.form
    OBVIOUS
  <2>2. FormsTyped'
    BY <1>o, <1>r, <1>f, <2>1 DEF FormsInv, FormsTyped
  <2>3. \A r \in ran' : r \in ran \/ (r = <<form.call, form.form>> /\ form' = Forms!NoForm
          /\ msg.yes /\ msg.of = form.form)
    BY <2>1
  <2>4. Handled' \subseteq Handled
    BY <1>o, <1>f, <2>3, <2>p DEF Handled
  <2>5. HandledInOrder'
    BY <1>o, <1>r, <2>1, <2>4 DEF FormsInv, HandledInOrder, Queued
  <2>6. FormIsLast'
    BY <1>o, <2>1, <2>3 DEF FormsInv, FormIsLast
  <2>7. RunsOnItsForm'
    <3> SUFFICES ASSUME NEW r \in ran'
                 PROVE  IF asks[r[1]] THEN r[2] \in DOMAIN shown /\ shown[r[2]] = r[1]
                          /\ <<r[2], TRUE>> \in answers
                        ELSE r[2] = 0
      BY <1>o DEF RunsOnItsForm
    <3>1. CASE r \in ran
      BY <3>1 DEF FormsInv, RunsOnItsForm
    <3>2. CASE r = <<form.call, form.form>> /\ msg.yes /\ msg.of = form.form
      <4>1. msg.yes = TRUE
        BY <1>r, <3>2 DEF Messages
      <4> QED
        BY <1>r, <1>f, <2>1, <2>p, <3>2, <4>1
    <3> QED
      BY <2>3, <3>1, <3>2
  <2>8. DroppedIsOver'
    BY <1>o, <1>r, <1>f, <2>1, <2>3, <2>p
       DEF FormsInv, DroppedIsOver, Forms!CancelledNeverRuns, Queued
  <2> QED
    BY <1>r, <2>2, <2>5, <2>6, <2>7, <2>8 DEF FormsInv
<1>2. CASE Forms!CancelledCall(msg)
  <2>1. /\ msg.type = "cancel" /\ msg.of = form.call /\ form' = Forms!NoForm
        /\ dropped' = dropped \cup {form.call} /\ UNCHANGED <<queued, ran>>
    BY <1>2 DEF Forms!CancelledCall, Forms!Closes
  <2>2. FormsTyped'
    BY <1>o, <1>r, <1>f, <2>1 DEF FormsInv, FormsTyped
  <2>3. HandledInOrder'
    <3>1. Handled' = Handled /\ Queued' = Queued /\ UNCHANGED <<asks, queued>>
      BY <1>o, <2>1 DEF Handled, Queued
    <3> QED
      BY <1>t, <1>r, <3>1 DEF HandledInOrder
  <2>4. FormIsLast' /\ RunsOnItsForm'
    BY <1>o, <2>1 DEF FormsInv, FormIsLast, RunsOnItsForm
  <2>5. form.call \notin Queued
    BY <1>f, <1>t
  <2>6. DroppedIsOver'
    <3>1. form.call \in DOMAIN asks /\ Queued' = Queued
      BY <1>f, <1>t, <2>1 DEF HandledInOrder, Queued
    <3> QED
      BY <1>o, <1>r, <1>f, <2>1, <2>5, <3>1 DEF FormsInv, DroppedIsOver, Forms!CancelledNeverRuns
  <2> QED
    BY <1>r, <2>2, <2>3, <2>4, <2>6 DEF FormsInv
<1>3. CASE Forms!CancelledOther(msg)
  <2>1. /\ msg.type = "cancel" /\ msg.of # form.call /\ Forms!DropQueued(msg.of)
             /\ UNCHANGED <<form, ran>>
        /\ dropped' = IF Forms!Contains(queued, msg.of) THEN dropped \cup {msg.of} ELSE dropped
    BY <1>3 DEF Forms!CancelledOther
  <2>2. Forms!Contains(queued, msg.of) <=> msg.of \in Queued
    BY <1>t DEF Forms!Contains, Queued
  <2>q. /\ queued' \in Seq(Forms!Calls) /\ Queued' \subseteq Queued
        /\ msg.of \notin Queued'
        /\ \A i, j \in DOMAIN queued' : i < j => queued'[i] < queued'[j]
    <3>0. \A i, j \in DOMAIN queued : i < j => queued[i] < queued[j]
      BY <1>t DEF HandledInOrder
    <3>1. CASE ~Forms!Contains(queued, msg.of)
      BY <1>t, <2>1, <2>2, <3>0, <3>1 DEF Forms!DropQueued, Queued
    <3>2. CASE Forms!Contains(queued, msg.of)
      <4>1. PICK i \in DOMAIN queued : queued[i] = msg.of /\ queued' = Forms!RemoveAt(queued, i)
        BY <2>1, <3>2 DEF Forms!DropQueued
      <4>2. /\ queued' \in Seq(Forms!Calls) /\ DOMAIN queued' = 1..(Len(queued) - 1)
            /\ \A j \in 1..(Len(queued) - 1) : queued'[j] = IF j < i THEN queued[j] ELSE queued[j + 1]
        BY <1>t, <4>1, Removed
      <4>3. \A j \in DOMAIN queued' :
              /\ j \in DOMAIN queued /\ j + 1 \in DOMAIN queued /\ j \in Nat
              /\ queued'[j] = IF j < i THEN queued[j] ELSE queued[j + 1]
        BY <1>t, <4>2
      <4>4. \A j \in DOMAIN queued : queued[j] \in Nat /\ i \in Nat /\ (j # i => queued[j] # msg.of)
        <5>1. \A j \in DOMAIN queued : j \in Nat /\ queued[j] \in Nat
          <6>1. \A j \in DOMAIN queued : j \in Nat /\ queued[j] \in Forms!Calls
            BY <1>t
          <6> QED
            BY <6>1 DEF Forms!Calls, Forms!FormsAssumption
        <5>2. \A j \in DOMAIN queued : j # i => j < i \/ i < j
          BY <5>1
        <5> QED
          BY <3>0, <4>1, <5>1, <5>2
      <4>5. msg.of \notin Queued' /\ Queued' \subseteq Queued
        BY <4>3, <4>4 DEF Queued
      <4>6. \A j, k \in DOMAIN queued' : j < k => queued'[j] < queued'[k]
        BY <3>0, <4>3, <4>4
      <4> QED
        BY <4>2, <4>5, <4>6
    <3> QED
      BY <3>1, <3>2
  <2>3. FormsTyped'
    BY <1>o, <1>r, <2>q, <2>1 DEF FormsInv, FormsTyped, Messages
  <2>4. HandledInOrder'
    BY <1>o, <1>r, <2>q, <2>1 DEF FormsInv, HandledInOrder, Handled
  <2>5. FormIsLast' /\ RunsOnItsForm'
    BY <1>o, <2>1 DEF FormsInv, FormIsLast, RunsOnItsForm
  <2>6. DroppedIsOver'
    <3>1. msg.of \in Queued => \A r \in ran : r[1] # msg.of
      BY <1>t DEF Handled
    <3> QED
      BY <1>o, <1>r, <2>q, <2>1, <2>2, <3>1 DEF FormsInv, DroppedIsOver, Forms!CancelledNeverRuns
  <2> QED
    BY <1>r, <2>3, <2>4, <2>5, <2>6 DEF FormsInv
<1>4. CASE Forms!Queue(msg)
  <2>1. msg.type = "call" /\ queued' = Append(queued, msg.of) /\ UNCHANGED <<form, dropped, ran>>
    BY <1>4 DEF Forms!Queue
  <2>2. msg.of \in Coming /\ msg.of \in Forms!Calls /\ \A c \in Coming' : msg.of < c
    BY <1>r, <2>1 DEF Messages
  <2>3. /\ queued' \in Seq(Forms!Calls) /\ Len(queued) \in Nat
        /\ DOMAIN queued' = 1..(Len(queued) + 1) /\ DOMAIN queued = 1..Len(queued)
        /\ queued'[Len(queued) + 1] = msg.of
        /\ \A i \in DOMAIN queued : queued'[i] = queued[i]
    BY <1>t, <2>1, <2>2
  <2>4. Queued' = Queued \cup {msg.of}
    <3>1. \A i \in DOMAIN queued' : i \in DOMAIN queued \/ i = Len(queued) + 1
      BY <2>3
    <3>2. Len(queued) + 1 \in DOMAIN queued' /\ \A i \in DOMAIN queued : i \in DOMAIN queued'
      BY <2>3
    <3> QED
      BY <2>3, <3>1, <3>2 DEF Queued
  <2>5. FormsTyped'
    BY <1>o, <1>r, <2>1, <2>3 DEF FormsInv, FormsTyped
  <2>6. HandledInOrder'
    <3>1. \A q \in Queued : q < msg.of
      BY <1>t, <2>2 DEF HandledInOrder
    <3>2. \A i, j \in DOMAIN queued' : i < j => queued'[i] < queued'[j]
      <4> SUFFICES ASSUME NEW i \in DOMAIN queued', NEW j \in DOMAIN queued', i < j
                   PROVE  queued'[i] < queued'[j]
        OBVIOUS
      <4>1. i \in DOMAIN queued
        BY <2>3
      <4>2. CASE j \in DOMAIN queued
        BY <1>t, <2>3, <4>1, <4>2 DEF HandledInOrder
      <4>3. CASE j = Len(queued) + 1
        BY <2>3, <3>1, <4>1, <4>3 DEF Queued
      <4> QED
        BY <2>3, <4>2, <4>3
    <3>3. Handled' = Handled /\ asks' = asks
      BY <1>o, <2>1 DEF Handled
    <3> QED
      BY <1>t, <1>r, <2>2, <2>4, <3>2, <3>3 DEF HandledInOrder
  <2>7. FormIsLast' /\ RunsOnItsForm'
    BY <1>o, <2>1 DEF FormsInv, FormIsLast, RunsOnItsForm
  <2>8. DroppedIsOver'
    <3>1. msg.of \notin dropped
      BY <1>t, <2>2
    <3> QED
      BY <1>o, <1>r, <2>1, <2>4, <3>1 DEF FormsInv, DroppedIsOver, Forms!CancelledNeverRuns
  <2> QED
    BY <1>r, <2>5, <2>6, <2>7, <2>8 DEF FormsInv
<1> QED
  BY <1>o, <1>1, <1>2, <1>3, <1>4

-----------------------------------------------------------------------------

\* The client writes one more message: a new call, an answer or a cancellation.
LEMMA WritesInOrder ==
  ASSUME Forms!FormsAssumption, FormsInv, NEW msg \in Messages, wire' = Append(wire, msg),
         msg.type = "call" => msg.of \in DOMAIN asks' /\ msg.of = Len(asks) + 1,
         msg.type = "answer" => <<msg.of, msg.yes>> \in answers',
         msg.type = "cancel" => msg.of \in DOMAIN asks',
         answers \subseteq answers', DOMAIN asks \subseteq DOMAIN asks'
  PROVE  /\ wire' \in Seq(Messages) /\ WireInOrder'
         /\ Coming' = IF msg.type = "call" THEN Coming \cup {msg.of} ELSE Coming
<1>1. /\ wire \in Seq(Messages) /\ Len(wire) \in Nat /\ Len(asks) \in Nat
      /\ DOMAIN asks = 1..Len(asks)
  BY DEF FormsInv, FormsTyped
<1>2. /\ wire' \in Seq(Messages) /\ DOMAIN wire' = 1..(Len(wire) + 1) /\ DOMAIN wire = 1..Len(wire)
      /\ wire'[Len(wire) + 1] = msg /\ \A i \in DOMAIN wire : wire'[i] = wire[i]
  BY <1>1
<1>3. \A i \in DOMAIN wire' : i \in Nat /\ (i \in DOMAIN wire \/ i = Len(wire) + 1)
  BY <1>1, <1>2
<1>4. Coming' = IF msg.type = "call" THEN Coming \cup {msg.of} ELSE Coming
  <2>1. Len(wire) + 1 \in DOMAIN wire' /\ \A i \in DOMAIN wire : i \in DOMAIN wire'
    BY <1>1, <1>2
  <2> QED
    BY <1>2, <1>3, <2>1 DEF Coming
<1>5. WireInOrder'
  <2>1. ASSUME NEW i \in DOMAIN wire', NEW j \in DOMAIN wire', i < j,
               wire'[i].type # "answer", wire'[j].type = "call"
        PROVE  wire'[i].of < wire'[j].of
    <3>1. i \in DOMAIN wire
      BY <1>1, <1>2, <2>1
    <3>2. CASE j \in DOMAIN wire
      BY <1>2, <2>1, <3>1, <3>2 DEF FormsInv, WireInOrder
    <3>3. CASE j = Len(wire) + 1
      <4>1. wire[i].of \in DOMAIN asks
        BY <1>2, <2>1, <3>1 DEF FormsInv, WireInOrder
      <4> QED
        BY <1>1, <1>2, <2>1, <3>1, <3>3, <4>1
    <3> QED
      BY <1>3, <3>2, <3>3
  <2>2. ASSUME NEW i \in DOMAIN wire'
        PROVE  IF wire'[i].type = "answer" THEN <<wire'[i].of, wire'[i].yes>> \in answers'
               ELSE wire'[i].of \in DOMAIN asks'
    <3>1. CASE i \in DOMAIN wire
      BY <1>2, <3>1 DEF FormsInv, WireInOrder
    <3>2. CASE i = Len(wire) + 1
      BY <1>2, <3>2 DEF Messages
    <3> QED
      BY <1>3, <3>1, <3>2
  <2> QED
    BY <2>1, <2>2 DEF WireInOrder
<1> QED
  BY <1>2, <1>4, <1>5

LEMMA ClientKeeps ==
  ASSUME Forms!FormsAssumption, FormsInv,
         \/ Forms!CloseInput
         \/ \E b \in BOOLEAN : Forms!SendCall(b) \/ (\E f \in Forms!Calls : Forms!SendAnswer(f, b))
         \/ \E c \in Forms!Calls : Forms!SendCancel(c)
  PROVE  FormsInv'
<1>t. /\ wire \in Seq(Messages) /\ asks \in Seq(BOOLEAN) /\ Len(asks) \in Nat
           /\ DOMAIN asks = 1..Len(asks)
      /\ MaxCalls \in Nat /\ Len(asks) <= MaxCalls
      /\ answers \subseteq Forms!Calls \X BOOLEAN
  BY DEF FormsInv, FormsTyped, Forms!FormsAssumption
<1>1. CASE Forms!CloseInput
  <2>1. /\ open' = FALSE
        /\ UNCHANGED <<wire, asks, answers, cancelled, queued, form, shown, dropped, ran>>
    BY <1>1 DEF Forms!CloseInput, Forms!server
  <2>2. Handled' = Handled /\ Queued' = Queued /\ Coming' = Coming
    BY <2>1 DEF Handled, Queued, Coming
  <2>3. FormsTyped' /\ WireInOrder' /\ HandledInOrder'
    BY <2>1, <2>2 DEF FormsInv, FormsTyped, WireInOrder, HandledInOrder
  <2>4. FormIsLast' /\ RunsOnItsForm' /\ DroppedIsOver'
    BY <2>1, <2>2 DEF FormsInv, FormIsLast, RunsOnItsForm, DroppedIsOver, Forms!CancelledNeverRuns
  <2> QED
    BY <2>3, <2>4 DEF FormsInv
<1>2. ASSUME NEW b \in BOOLEAN, Forms!SendCall(b) PROVE FormsInv'
  <2>1. /\ Len(asks) < MaxCalls /\ wire' = Append(wire, Forms!Message("call", Len(asks) + 1, FALSE))
        /\ asks' = Append(asks, b)
        /\ UNCHANGED <<open, queued, form, shown, dropped, ran, answers, cancelled>>
    BY <1>2 DEF Forms!SendCall, Forms!Writes, Forms!server
  <2>2. /\ asks' \in Seq(BOOLEAN) /\ Len(asks') = Len(asks) + 1 /\ DOMAIN asks' = 1..(Len(asks) + 1)
        /\ \A c \in DOMAIN asks : c \in DOMAIN asks' /\ asks'[c] = asks[c] /\ c < Len(asks) + 1
    BY <1>t, <2>1
  <2>3. PICK sentMsg \in Messages : sentMsg.type = "call" /\ sentMsg.of = Len(asks) + 1
          /\ wire' = Append(wire, sentMsg)
    <3>1. Forms!Message("call", Len(asks) + 1, FALSE) \in Messages
      BY <1>t, <2>1 DEF Forms!Message, Messages, Forms!Calls
    <3> QED
      BY <2>1, <3>1 DEF Forms!Message
  <2>4. wire' \in Seq(Messages) /\ WireInOrder' /\ Coming' = Coming \cup {Len(asks) + 1}
    <3>1. sentMsg.of \in DOMAIN asks' /\ DOMAIN asks \subseteq DOMAIN asks'
            /\ answers \subseteq answers'
      BY <1>t, <2>1, <2>2, <2>3
    <3> QED
      BY <2>3, <3>1, WritesInOrder
  <2>5. FormsTyped'
    <3>1. Len(asks') <= MaxCalls /\ asks' \in Seq(BOOLEAN)
      BY <1>t, <2>1, <2>2
    <3>2. UNCHANGED <<open, queued, shown, dropped, ran, answers, cancelled>>
      BY <2>1
    <3> QED
      BY <2>4, <3>1, <3>2 DEF FormsInv, FormsTyped
  <2>6. Handled' = Handled /\ Queued' = Queued
    BY <2>1 DEF Handled, Queued
  <2>7. HandledInOrder'
    <3>1. Len(asks) + 1 \in DOMAIN asks'
      BY <1>t, <2>2
    <3> QED
      BY <2>1, <2>2, <2>4, <2>6, <3>1 DEF FormsInv, HandledInOrder
  <2>8. FormIsLast' /\ RunsOnItsForm'
    <3>1. \A c \in Handled : asks'[c] = asks[c]
      BY <2>2 DEF FormsInv, HandledInOrder
    <3>2. /\ \A f \in DOMAIN shown : shown[f] \in Handled
          /\ \A r \in ran : r[1] \in Handled
      BY DEF Handled
    <3>3. FormIsLast'
      BY <2>1, <3>1, <3>2 DEF FormsInv, FormIsLast
    <3>4. RunsOnItsForm'
      BY <2>1, <3>1, <3>2 DEF FormsInv, RunsOnItsForm
    <3> QED
      BY <3>3, <3>4
  <2>9. DroppedIsOver'
    <3>1. \A d \in dropped : d < Len(asks) + 1
      BY <2>2 DEF FormsInv, DroppedIsOver
    <3> QED
      BY <2>1, <2>4, <2>6, <3>1 DEF FormsInv, DroppedIsOver, Forms!CancelledNeverRuns
  <2> QED
    BY <2>4, <2>5, <2>7, <2>8, <2>9 DEF FormsInv
<1>3. ASSUME NEW sentMsg \in Messages, sentMsg.type # "call", wire' = Append(wire, sentMsg),
               asks' = asks,
             answers \subseteq answers', answers' \subseteq Forms!Calls \X BOOLEAN,
               cancelled' \subseteq Forms!Calls,
             sentMsg.type = "answer" => <<sentMsg.of, sentMsg.yes>> \in answers',
             sentMsg.type = "cancel" => sentMsg.of \in DOMAIN asks,
             UNCHANGED <<open, queued, form, shown, dropped, ran>>
      PROVE  FormsInv'
  <2>1. wire' \in Seq(Messages) /\ WireInOrder' /\ Coming' = Coming
    BY <1>3, WritesInOrder
  <2>2. Handled' = Handled /\ Queued' = Queued
    BY <1>3 DEF Handled, Queued
  <2>3. FormsTyped'
    BY <1>3, <2>1 DEF FormsInv, FormsTyped
  <2>4. HandledInOrder' /\ FormIsLast' /\ DroppedIsOver'
    BY <1>3, <2>1, <2>2
       DEF FormsInv, HandledInOrder, FormIsLast, DroppedIsOver, Forms!CancelledNeverRuns
  <2>5. RunsOnItsForm'
    BY <1>3 DEF FormsInv, RunsOnItsForm
  <2> QED
    BY <2>1, <2>3, <2>4, <2>5 DEF FormsInv
<1>4. ASSUME NEW b \in BOOLEAN, NEW f \in Forms!Calls, Forms!SendAnswer(f, b) PROVE FormsInv'
  <2>1. Forms!Message("answer", f, b) \in Messages
    BY DEF Forms!Message, Messages
  <2> QED
    <3>1. /\ wire' = Append(wire, Forms!Message("answer", f, b)) /\ answers' = answers
               \cup {<<f, b>>}
          /\ UNCHANGED <<open, asks, cancelled, queued, form, shown, dropped, ran>>
      BY <1>4 DEF Forms!SendAnswer, Forms!Writes, Forms!server
    <3>2. cancelled' \subseteq Forms!Calls /\ answers' \subseteq Forms!Calls \X BOOLEAN
      BY <1>t, <3>1 DEF FormsInv, FormsTyped
    <3>3. PICK sentMsg \in Messages : wire' = Append(wire, sentMsg) /\ sentMsg.type = "answer"
            /\ sentMsg.of = f /\ sentMsg.yes = b
      BY <2>1, <3>1 DEF Forms!Message
    <3> QED
      BY <1>3, <3>1, <3>2, <3>3
<1>5. ASSUME NEW c \in Forms!Calls, Forms!SendCancel(c) PROVE FormsInv'
  <2>1. Forms!Message("cancel", c, FALSE) \in Messages
    BY DEF Forms!Message, Messages
  <2> QED
    <3>1. /\ wire' = Append(wire, Forms!Message("cancel", c, FALSE)) /\ c \in DOMAIN asks
          /\ cancelled' = cancelled \cup {c}
          /\ UNCHANGED <<open, asks, answers, queued, form, shown, dropped, ran>>
      BY <1>5 DEF Forms!SendCancel, Forms!Writes, Forms!server
    <3>2. cancelled' \subseteq Forms!Calls
      BY <3>1 DEF FormsInv, FormsTyped
    <3> QED
      BY <1>3, <1>t, <2>1, <3>1, <3>2 DEF Forms!Message
<1> QED
  BY <1>1, <1>2, <1>4, <1>5

LEMMA FormsNext == ASSUME Forms!FormsAssumption, FormsInv, [Forms!Next]_(Forms!vars) PROVE FormsInv'
<1>1. CASE Forms!FromQueue \/ Forms!FromWire
  BY <1>1, MainLoopKeeps
<1>2. CASE Forms!WhileOpen
  BY <1>2, WhileOpenKeeps
<1>3. CASE Forms!FormTimesOut \/ UNCHANGED Forms!vars
  <2>1. form' \in {form, Forms!NoForm} /\ UNCHANGED <<wire, open, asks, answers, cancelled, queued,
          shown, dropped, ran>>
    BY <1>3 DEF Forms!FormTimesOut, Forms!Closes, Forms!client, Forms!server, Forms!vars
  <2> QED
    <3>1. Handled' = Handled /\ Queued' = Queued /\ Coming' = Coming
      BY <2>1 DEF Handled, Queued, Coming
    <3>2. FormsTyped' /\ WireInOrder' /\ HandledInOrder'
      BY <2>1, <3>1 DEF FormsInv, FormsTyped, WireInOrder, HandledInOrder
    <3>3. FormIsLast' /\ RunsOnItsForm' /\ DroppedIsOver'
      BY <2>1, <3>1 DEF FormsInv, FormIsLast, RunsOnItsForm, DroppedIsOver, Forms!CancelledNeverRuns
    <3> QED
      BY <3>2, <3>3 DEF FormsInv
<1>4. CASE \/ Forms!CloseInput
           \/ \E b \in BOOLEAN : Forms!SendCall(b) \/ (\E f \in Forms!Calls : Forms!SendAnswer(f,
                b))
           \/ \E c \in Forms!Calls : Forms!SendCancel(c)
  BY <1>4, ClientKeeps
<1> QED
  BY <1>1, <1>2, <1>3, <1>4 DEF Forms!Next, Forms!Server

\* However calls, answers, cancellations and timeouts are mixed on stdin: a change
\* runs only on the code typed into its own form, an answer runs one change, and a
\* call that was cancelled before it ran never runs (elicit, dropQueued).
THEOREM FormsRunAsAnswered == PartsSpec => []RunsAsAnswered
<1>a. Forms!FormsAssumption
  BY PartsAssumption
<1>1. Forms!Init => FormsInv
  BY <1>a, FormsInit
<1>2. FormsInv /\ [Forms!Next]_(Forms!vars) => FormsInv'
  BY <1>a, FormsNext
<1>3. ASSUME FormsInv PROVE Forms!RunsAsAnswered
  <2>1. ASSUME NEW r \in ran, asks[r[1]], NEW s \in ran, s[2] = r[2] PROVE s = r
    <3>1. r[2] \in DOMAIN shown /\ shown[r[2]] = r[1] /\ r[2] # 0
      <4>1. 0 \notin DOMAIN shown
        BY <1>3 DEF FormsInv, FormsTyped
      <4> QED
        BY <1>3, <2>1, <4>1 DEF FormsInv, RunsOnItsForm
    <3>2. s[1] = r[1]
      BY <1>3, <2>1, <3>1 DEF FormsInv, RunsOnItsForm
    <3> QED
      <4>1. r = <<r[1], r[2]>> /\ s = <<s[1], s[2]>>
        BY <1>3 DEF FormsInv, FormsTyped
      <4> QED
        BY <2>1, <3>2, <4>1
  <2>2. Forms!OwnAnswerOnly
    BY <1>3, <2>1 DEF FormsInv, RunsOnItsForm, Forms!OwnAnswerOnly
  <2> QED
    BY <1>3, <2>2 DEF FormsInv, DroppedIsOver, Forms!RunsAsAnswered
<1>4. FormsInv => RunsAsAnswered
  BY <1>3 DEF RunsAsAnswered, In
<1> QED
  BY <1>1, <1>2, <1>4, FormsRun, PTL DEF Forms!Spec

-----------------------------------------------------------------------------
(* Home Assistant Link: CloudLinkProofs for the part that Client calls Link *)

Cloud == INSTANCE CloudLinkProofs WITH slot <- tokens, device <- bound, at <- step,
                                       gen <- nonces

LEMMA SameToDelete == Link!ToDelete = Cloud!ToDelete
<1>1. \A S : Link!Cardinality(S) = Cloud!Cardinality(S)
  BY DEF Link!Cardinality, Cloud!Cardinality
<1> QED
  BY <1>1 DEF Link!ToDelete, Cloud!ToDelete, Link!SameGeneration, Cloud!SameGeneration,
              Link!SignIns, Cloud!SignIns, Link!Slots, Cloud!Slots, Link!None, Cloud!None

\* CloudLink and CloudLinkProofs have the same definitions, twice over: each step is
\* one of the other by its definition.
LEMMA LinkSteps == Link!Next => Cloud!Next
<1> USE DEF Link!None, Cloud!None, Link!NotDone, Cloud!NotDone, Link!Slots, Cloud!Slots,
         Link!people, Cloud!people, Link!history, Cloud!history, Link!To, Cloud!To, Link!Held,
         Cloud!Held, Link!EndWith, Cloud!EndWith, Link!Write, Cloud!Write
<1>1. \A c \in {"add", "reconnect"} : Link!Start(c) => Cloud!Start(c)
  BY DEF Link!Configured, Cloud!Configured, Link!Intent, Cloud!Intent, Link!Preflight,
         Cloud!Preflight, Link!Start, Cloud!Start
<1>2. Link!Retire => Cloud!Retire
  BY DEF Link!Retire, Cloud!Retire
<1>3. Link!DropRetiring => Cloud!DropRetiring
  BY DEF Link!DropRetiring, Cloud!DropRetiring
<1>4. Link!Begin => Cloud!Begin
  BY DEF Link!Begin, Cloud!Begin, Link!Configured, Cloud!Configured, Link!NoCloud, Cloud!NoCloud,
         Link!Ready, Cloud!Ready
<1>5. Link!GoOn => Cloud!GoOn
  BY DEF Link!Fits, Cloud!Fits, Link!GoOn, Cloud!GoOn, Link!Resumable, Cloud!Resumable
<1>6. \A t \in Terminals : Link!OpenBrowser(t) => Cloud!OpenBrowser(t)
  BY DEF Link!Fits, Cloud!Fits, Link!Generation, Cloud!Generation, Link!NoCloud, Cloud!NoCloud,
         Link!NoWait, Cloud!NoWait, Link!OpenBrowser, Cloud!OpenBrowser, Link!Resumable,
         Cloud!Resumable, Link!SignIns, Cloud!SignIns
<1>7. \A t \in Terminals : Link!LeaveBrowser(t) => Cloud!LeaveBrowser(t)
  BY DEF Link!LeaveBrowser, Cloud!LeaveBrowser, Link!NoCloud, Cloud!NoCloud, Link!NoWait,
         Cloud!NoWait, Link!command, Cloud!command
<1>8. \A t \in Terminals : Link!ComeBack(t) => Cloud!ComeBack(t)
  BY DEF Link!ComeBack, Cloud!ComeBack, Link!ConfigAsLeft, Cloud!ConfigAsLeft, Link!NoCloud,
         Cloud!NoCloud, Link!NoWait, Cloud!NoWait
<1>9. Link!Save => Cloud!Save
  BY DEF Link!Save, Cloud!Save
<1>10. Link!Exchange => Cloud!Exchange
  BY DEF Link!Exchange, Cloud!Exchange
<1>11. Link!Create => Cloud!Create
  BY DEF Link!Create, Cloud!Create, Link!SameGeneration, Cloud!SameGeneration, Link!Stored,
         Cloud!Stored, Link!Unnoticed, Cloud!Unnoticed
<1>12. Link!Unmint => Cloud!Unmint
  BY DEF Link!Unmint, Cloud!Unmint
<1>13. Link!Drop => Cloud!Drop
  BY DEF Link!Drop, Cloud!Drop
<1>14. Link!Forget => Cloud!Forget
  BY DEF Link!Forget, Cloud!Forget, Link!SameGeneration, Cloud!SameGeneration, Link!Stored,
         Cloud!Stored, Link!Unnoticed, Cloud!Unnoticed
<1>15. Link!Note => Cloud!Note
  BY DEF Link!Advanced, Cloud!Advanced, Link!Note, Cloud!Note, Link!Rank, Cloud!Rank
<1>16. Link!Verify => Cloud!Verify
  BY DEF Link!Advanced, Cloud!Advanced, Link!Rank, Cloud!Rank, Link!Verify, Cloud!Verify
<1>17. Link!Bind => Cloud!Bind
  BY DEF Link!Bind, Cloud!Bind, Link!Configured, Cloud!Configured, Link!OtherPerson,
         Cloud!OtherPerson
<1>18. Link!Conflict => Cloud!Conflict
  BY DEF Link!Configured, Cloud!Configured, Link!Conflict, Cloud!Conflict, Link!OtherPerson,
         Cloud!OtherPerson
<1>19. Link!Bound => Cloud!Bound
  BY DEF Link!Advanced, Cloud!Advanced, Link!Bound, Cloud!Bound, Link!Rank, Cloud!Rank
<1>20. Link!Promote => Cloud!Promote
  BY DEF Link!InPlace, Cloud!InPlace, Link!Promote, Cloud!Promote, Link!SameGeneration,
         Cloud!SameGeneration, Link!ToKeep, Cloud!ToKeep
<1>21. Link!Commit => Cloud!Commit
  BY DEF Link!Commit, Cloud!Commit
<1>22. Link!Settle => Cloud!Settle
  BY DEF Link!Settle, Cloud!Settle
<1>23. Link!Finish => Cloud!Finish
  BY DEF Link!Finish, Cloud!Finish
<1>24. Link!RollBack => Cloud!RollBack
  BY DEF Link!RollBack, Cloud!RollBack
<1>25. Link!DropPending => Cloud!DropPending
  BY DEF Link!DropPending, Cloud!DropPending
<1>26. Link!Restore => Cloud!Restore
  BY DEF Link!Restore, Cloud!Restore
<1>27. Link!Remove => Cloud!Remove
  BY DEF Link!NoCloud, Cloud!NoCloud, Link!Remove, Cloud!Remove, Link!Stored, Cloud!Stored,
         Link!Unverifiable, Cloud!Unverifiable
<1>28. Link!RemoveConfirmed => Cloud!RemoveConfirmed
  BY SameToDelete DEF Link!RemoveConfirmed, Cloud!RemoveConfirmed, Link!Stored, Cloud!Stored,
         Link!Unverifiable, Cloud!Unverifiable
<1>29. Link!Revoke => Cloud!Revoke
  BY DEF Link!Revoke, Cloud!Revoke, Link!ToRevoke, Cloud!ToRevoke, Link!command, Cloud!command
<1>30. Link!Attest => Cloud!Attest
  BY DEF Link!Attest, Cloud!Attest, Link!ToRevoke, Cloud!ToRevoke
<1>31. Link!Erase => Cloud!Erase
  BY DEF Link!Erase, Cloud!Erase, Link!NextToErase, Cloud!NextToErase
<1>32. Link!Removed => Cloud!Removed
  BY DEF Link!NextToErase, Cloud!NextToErase, Link!NoCloud, Cloud!NoCloud, Link!Removed,
         Cloud!Removed
<1>33. Link!Stop => Cloud!Stop
  BY DEF Link!Stop, Cloud!Stop
<1> QED
  BY <1>1, <1>2, <1>3, <1>4, <1>5, <1>6, <1>7, <1>8, <1>9, <1>10, <1>11, <1>12, <1>13, <1>14,
     <1>15, <1>16, <1>17, <1>18, <1>19, <1>20, <1>21, <1>22, <1>23, <1>24, <1>25, <1>26, <1>27,
     <1>28, <1>29, <1>30, <1>31, <1>32, <1>33
  DEF Link!Next, Cloud!Next

LEMMA LinkRuns == PartsSpec => Cloud!Spec
<1>1. PartsInit => Cloud!Init
  BY DEF PartsInit, Link!Init, Cloud!Init, Link!NoCloud, Cloud!NoCloud, Link!NotDone,
         Cloud!NotDone, Link!Slots, Cloud!Slots, Link!None, Cloud!None, Link!SignIns,
         Cloud!SignIns, Link!NoWait, Cloud!NoWait
<1>2. [PartsNext]_<<part, vars, store, server, link, forms>> => [Cloud!Next]_(Cloud!vars)
  <2>1. UNCHANGED link => UNCHANGED Cloud!vars
    BY DEF link, Cloud!vars, Cloud!command, Cloud!people, Cloud!history
  <2> QED
    BY <2>1, LinkSteps DEF PartsNext
<1> QED
  BY <1>1, <1>2, PTL DEF PartsSpec, Cloud!Spec

LEMMA LinkBounds == Cloud!CloudAssumption
BY PartsAssumption DEF PartsAssumption, Link!CloudAssumption, Cloud!CloudAssumption

LEMMA LinkHolds == PartsSpec => []Cloud!LinkInv
<1>1. Cloud!Spec => []Cloud!LinkInv
  BY LinkBounds, Cloud!LinkInvariant
<1> QED
  BY <1>1, LinkRuns, PTL

\* Whatever a reconnect does and wherever it is killed: until its new sign-in is verified
\* and bound, and again from its commit on, Link works with what the lifecycle names
\* (PromotePending, which keeps the previous token first).
THEOREM LinkGoesOnWorking == PartsSpec => []LinkKeepsWorking
<1>1. Cloud!LinkInv => LinkKeepsWorking
  BY DEF Cloud!LinkInv, Cloud!LinkKeepsWorking, Cloud!Configured, Cloud!None,
         LinkKeepsWorking, In, Link!LinkKeepsWorking, Link!Configured, Link!None
<1> QED
  BY <1>1, LinkHolds, PTL

\* Wherever a command was killed, the next one finds slots that fit the lifecycle and
\* something it can resume, unless a safety hold says why not.  An unfinished
\* removal finds only what it revoked (validateCloudConnectIntent and
\* preflightSelectedCloudSecret).
THEOREM NextCommandGoesOn == PartsSpec => []NeverStuck
<1>1. Cloud!LinkInv => Cloud!NeverStuck
  BY LinkBounds, Cloud!GoesOn
<1>2. Cloud!NeverStuck => NeverStuck
  BY DEF NeverStuck, In, Link!NeverStuck, Cloud!NeverStuck, Link!NoCloud, Cloud!NoCloud,
           Link!NotDone, Cloud!NotDone, Link!None, Cloud!None, Link!Slots, Cloud!Slots, Link!Intent,
           Cloud!Intent, Link!Configured, Cloud!Configured, Link!Preflight, Cloud!Preflight, Link!Fits,
           Cloud!Fits, Link!Resumable, Cloud!Resumable
<1> QED
  BY <1>1, <1>2, LinkHolds, PTL

\* A sign-in that Home Assistant still accepts is in a slot, in the hands of the running
\* command, or `cloud remove` names it to the owner.  Only the known way to forget one (`orphans`) is left out: it was exchanged
\* by a command that was killed, and a later one took its generation over.
THEOREM NoSignInForgotten == PartsSpec => []SignInsAccountedFor
<1>1. Cloud!LinkInv => Cloud!SignInsAccountedFor
  BY LinkBounds, Cloud!AllAccounted
<1>2. Cloud!SignInsAccountedFor => SignInsAccountedFor
  <2>1. Link!ToDelete = Cloud!ToDelete
    BY SameToDelete
  <2> QED
    BY <2>1 DEF SignInsAccountedFor, In, Link!SignInsAccountedFor, Cloud!SignInsAccountedFor,
           Link!Stored, Cloud!Stored, Link!Unverifiable, Cloud!Unverifiable, Link!Slots, Cloud!Slots,
           Link!None, Cloud!None
<1> QED
  BY <1>1, <1>2, LinkHolds, PTL
=============================================================================

