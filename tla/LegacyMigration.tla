-------------------------- MODULE LegacyMigration --------------------------
(***************************************************************************)
(* The shared relay token from before device pairing: a boot of the App    *)
(* moves it from its plaintext places (an App option, a file in /data)     *)
(* into the device registry as one legacy record, once; the owner can      *)
(* revoke it, or reset a registry that became corrupt.  Every step of a    *)
(* boot and of a reset may be the last one before a crash, and every write *)
(* may fail.  Only the registry's legacy fields are kept here.             *)
(***************************************************************************)
EXTENDS Naturals

CONSTANTS Tokens, None,
          MaxBoots, MaxCorruptions   \* bounds

LegacyAssumption == None \notin Tokens /\ MaxBoots \in Nat /\ MaxCorruptions \in Nat

VARIABLES option,    \* relay_auth_token in the App options Supervisor holds
          plain,     \* /data/relay_auth_token
          status,    \* device-registry.json: absent, readable or corrupt
          file,      \* its legacy fields while it is readable
          snapshot,  \* /data/options.json as written when the App started
          memory,    \* the registry the process uses (an inert one has no record)
          damaged,   \* registryCorrupt
          pc,
          boots, corruptions,
          cut,       \* history: the owner was told that legacy access is gone
          resetting, \* history: the owner's confirmed reset put the old file aside
          lost,      \* history: a stamped registry was destroyed by corruption
          token      \* history: the token existing clients were given

diskVars    == <<option, plain, status, file>>
processVars == <<snapshot, memory, damaged>>
historyVars == <<cut, resetting, lost, token>>
vars == <<diskVars, processVars, historyVars, pc, boots, corruptions>>

Record == [legacy : Tokens \cup {None}, completed : BOOLEAN]
Empty  == [legacy |-> None, completed |-> FALSE]

LegacyTypeOK ==
  /\ option \in Tokens \cup {None} /\ plain \in Tokens \cup {None}
  /\ status \in {"absent", "readable", "corrupt"} /\ file \in Record
  /\ status # "readable" => file = Empty
  /\ snapshot \in Tokens \cup {None}
  /\ memory \in Record
  /\ damaged \in BOOLEAN
  /\ pc \in {"down", "import", "unlink", "clear", "running", "mark"}
  /\ boots \in 0..MaxBoots /\ corruptions \in 0..MaxCorruptions
  /\ cut \in BOOLEAN /\ resetting \in BOOLEAN /\ lost \in BOOLEAN
  /\ token \in Tokens \cup {None}

\* An installation from before pairing, started for the first time with it.
Init ==
  /\ option \in Tokens \cup {None} /\ plain \in Tokens \cup {None}
  /\ status = "absent" /\ file = Empty
  /\ snapshot = None /\ memory = Empty /\ damaged = FALSE
  /\ pc = "down" /\ boots = 0 /\ corruptions = 0
  /\ cut = FALSE /\ resetting = FALSE /\ lost = FALSE
  /\ token = IF option # None THEN option ELSE plain

-----------------------------------------------------------------------------
(* Boot: buildAppMode up to the listeners *)

OpenRegistry == memory' = file /\ damaged' = (status = "corrupt")

Boot ==
  /\ pc = "down" /\ boots < MaxBoots
  /\ boots' = boots + 1
  /\ snapshot' = option
  /\ OpenRegistry
  /\ pc' = IF status = "corrupt" THEN "clear" ELSE "import"
  /\ UNCHANGED <<diskVars, corruptions, historyVars>>

\* findEffectiveLegacyToken: the option wins over the file.
Effective == IF snapshot # None THEN snapshot ELSE plain

\* A registry record or the tombstone wins; without a token nothing is stamped.
MayImportUnlessRecord == memory.legacy = None

MayImport == ~memory.completed /\ memory.legacy = None

Persist(record) == memory' = record /\ file' = record /\ status' = "readable"

WriteFails == UNCHANGED <<memory, file, status>>

\* A failed import ends the start-up.
Import ==
  /\ pc = "import"
  /\ \/ /\ MayImport /\ Effective # None
        /\ \/ Persist([legacy |-> Effective, completed |-> TRUE]) /\ pc' = "unlink"
           \/ WriteFails /\ pc' = "down"
     \/ MayImport /\ Effective = None /\ UNCHANGED <<memory, file, status>> /\ pc' = "clear"
     \/ ~MayImport /\ UNCHANGED <<memory, file, status>> /\ pc' = "unlink"
  /\ UNCHANGED <<option, plain, snapshot, damaged, boots, corruptions, historyVars>>

\* On every boot: an earlier one may have failed to remove the file.
Unlink ==
  /\ pc = "unlink"
  /\ plain' \in {None, plain}
  /\ pc' = "clear"
  /\ UNCHANGED <<option, status, file, processVars, boots, corruptions, historyVars>>

\* clearLegacyOptions: one write through Supervisor, which may fail.  A corrupt
\* registry keeps the token.
ClearsAlways == snapshot # None

ClearsToken == ~damaged /\ snapshot # None

Clear ==
  /\ pc = "clear"
  /\ option' \in IF ClearsToken THEN {None, option} ELSE {option}
  /\ pc' = "running"
  /\ UNCHANGED <<plain, status, file, processVars, boots, corruptions, historyVars>>

-----------------------------------------------------------------------------
(* The owner, on the NOVA page *)

\* The confirm screen exists only for a readable registry with a record.
RevokeLegacy ==
  /\ pc = "running" /\ ~damaged /\ memory.legacy # None
  /\ Persist([memory EXCEPT !.legacy = None])
  /\ cut' = TRUE
  /\ UNCHANGED <<option, plain, snapshot, damaged, pc, boots, corruptions, resetting, lost, token>>

\* resetRegistry, first half: archive the damaged file, open a fresh registry.
ResetOpen ==
  /\ pc = "running" /\ damaged
  /\ status' = "absent" /\ file' = Empty /\ memory' = Empty
  /\ resetting' = TRUE
  /\ pc' = "mark"
  /\ UNCHANGED <<option, plain, snapshot, damaged, boots, corruptions, cut, lost, token>>

\* Second half: markLegacyMigrated, and the owner sees the page without an
\* error; or its write fails, and the page says so.
Fresh == [memory EXCEPT !.completed = TRUE]

ResetMark ==
  /\ pc = "mark"
  /\ \/ Persist(Fresh) /\ damaged' = FALSE /\ cut' = TRUE
     \/ WriteFails /\ UNCHANGED <<damaged, cut>>
  /\ pc' = "running"
  /\ UNCHANGED <<option, plain, snapshot, boots, corruptions, resetting, lost, token>>

-----------------------------------------------------------------------------
(* The environment *)

Crash ==
  /\ pc # "down" /\ pc' = "down"
  /\ memory' = Empty /\ damaged' = FALSE
  /\ UNCHANGED <<diskVars, snapshot, boots, corruptions, historyVars>>

\* The registry file is damaged while the App is stopped; with it goes what the
\* owner had been told of the old one.
Corrupt ==
  /\ pc = "down" /\ corruptions < MaxCorruptions
  /\ corruptions' = corruptions + 1
  /\ status' = "corrupt" /\ file' = Empty
  /\ cut' = FALSE /\ lost' = (lost \/ file.completed)
  /\ UNCHANGED <<option, plain, processVars, pc, boots, resetting, token>>

Next == Boot \/ Import \/ Unlink \/ Clear \/ RevokeLegacy \/ ResetOpen \/ ResetMark
          \/ Crash \/ Corrupt

Spec == Init /\ [][Next]_vars

-----------------------------------------------------------------------------
(* Properties *)

LegacyAccepted == pc = "running" /\ memory.legacy # None

\* Once the owner revoked legacy access, or completed a reset, the token is
\* accepted again by no later boot, although its plaintext may still be there.
CutStays == cut => ~LegacyAccepted

\* Until the owner cuts it or the file that holds it is destroyed, the token that
\* existing clients use is never lost: a plaintext goes only after the record is
\* durable, and a corrupt registry keeps it.
TokenNeverLost ==
  (token # None /\ ~cut /\ ~resetting /\ ~lost)
    => token \in {option, plain, file.legacy}

\* What the comment of resetRegistry says: after the owner's reset put the
\* damaged file aside, a lingering plaintext token is not imported again.
ResetCutsLegacy == resetting => ~LegacyAccepted
=============================================================================
