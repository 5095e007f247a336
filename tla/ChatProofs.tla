----------------------------- MODULE ChatProofs -----------------------------
(***************************************************************************)
(* Proofs about the parts with a phone at one end, each for every value of *)
(* its constants: the switch and the bridge process (ChatApps), the users  *)
(* and their links (Who, ChatUsers), the vote of window and phone (Vote,   *)
(* HumanVote).                                                             *)
(*                                                                         *)
(* What carries the switch is that no message is forgotten silently: it is *)
(* named by the state file, betrayed by the folder, or counted as lost     *)
(* (Accounted), and the clean-up passes only what it deleted or what was   *)
(* lost before (ClearingFits).                                             *)
(*                                                                         *)
(* What carries the users is the lock: a change that holds it writes from  *)
(* the links as they are (WriterFits).  With one page open, a save knows   *)
(* every old link of whom it puts back (WaitsForDrops); with two it does   *)
(* not (Relisted.cfg).                                                     *)
(*                                                                         *)
(* What carries the vote is that a surface votes once (VotesFit), so the   *)
(* first decisive vote in the channel is the first one received            *)
(* (FirstFits).                                                            *)
(***************************************************************************)
EXTENDS Chat, FiniteSetTheorems, SequenceTheorems, TLAPS

-----------------------------------------------------------------------------
(* Each part behaves as its own specification says *)

LEMMA BridgeRuns == PartsSpec => Init /\ [][Next]_vars
<1>1. PartsInit => Init
  BY DEF PartsInit
<1>2. [PartsNext]_<<part, vars, who, vote>> => [Next]_vars
  BY DEF PartsNext
<1> QED
  BY <1>1, <1>2, PTL DEF PartsSpec

LEMMA UsersRun == PartsSpec => Who!Spec
<1>1. PartsInit => Who!Init
  BY DEF PartsInit
<1>2. [PartsNext]_<<part, vars, who, vote>> => [Who!Next]_(Who!vars)
  <2>1. UNCHANGED who => UNCHANGED Who!vars
    BY DEF who, Who!vars
  <2> QED
    BY <2>1 DEF PartsNext
<1> QED
  BY <1>1, <1>2, PTL DEF PartsSpec, Who!Spec

LEMMA VoteRuns == PartsSpec => Vote!Init /\ [][Vote!Next]_(Vote!vars)
<1>1. PartsInit => Vote!Init
  BY DEF PartsInit
<1>2. [PartsNext]_<<part, vars, who, vote>> => [Vote!Next]_(Vote!vars)
  <2>1. UNCHANGED vote => UNCHANGED Vote!vars
    BY DEF vote, Vote!vars, Vote!goroutines, Vote!command, Vote!toPhone
  <2> QED
    BY <2>1 DEF PartsNext
<1> QED
  BY <1>1, <1>2, PTL DEF PartsSpec

-----------------------------------------------------------------------------
(* The switch and the bridge: the inductive invariant *)

Pcs == {"idle", "undo", "entries", "drop", "name", "forget", "list", "remove", "check", "finish",
        "up", "publish", "save"}
Tasks == {"none", "off", "boot", "undo", "on", "again", "resume"}

Ops == [task : Tasks, at : Pcs, saved : Nat, more : BOOLEAN]

SwitchTyped ==
  /\ enabled \in BOOLEAN /\ uuid \in Nat /\ secret \in Nat
  /\ up \in BOOLEAN /\ child \in Nat /\ wanted \in BOOLEAN /\ respawn \in BOOLEAN
  /\ op \in Ops /\ bootDue \in BOOLEAN
  /\ folder \in {"none", "unmarked", "mine"}
  /\ message \in [uuid : Nat, secret : Nat] /\ entry \in [uuid : Nat, secret : Nat]
  /\ heard \in [uuid : Nat, secret : Nat]
  /\ backup.enabled \in BOOLEAN /\ backup.uuid \in Nat /\ backup.secret \in Nat
  /\ lost \in BOOLEAN /\ restores \in {0, 1}

\* Processes have ids of their own; only the App's own child was not told to stop.
ProcsFit ==
  /\ IsFiniteSet(procs)
  /\ \A p \in procs : p \in [id : Nat \ {0}, cred : {p.cred}, told : BOOLEAN]
  /\ \A p, q \in procs : p.id = q.id => p = q
  /\ \A p \in procs : p.told \/ p.id = child

\* Which tasks take which steps.
TaskFits ==
  /\ op.at \in {"finish"} => op.task \in {"off", "boot", "undo"}
  /\ op.at \in Clearing => op.task \in {"off", "boot", "undo", "on"}
  /\ op.at = "undo" => op.task = "on"
  /\ op.at = "up" => op.task \in {"on", "again"}
  /\ op.at \in {"publish", "save"} => op.task \in {"on", "again", "resume"}
  /\ op.task \in {"again", "resume"} => enabled
  /\ op.task \in {"off", "boot", "undo", "on"} => ~enabled
  /\ op.at = "idle" => op.task = "none"

\* What a bridge is wanted for; nothing outlives the App.
WantedFits ==
  /\ child # 0 \/ respawn => wanted
  /\ wanted => enabled \/ (op.task = "on" /\ op.at \in {"publish", "save", "undo"})
  /\ ~up => ~wanted /\ op = Idle /\ procs = {}

\* On, the state file names the message: only a restore makes it another's.
OnIsTold ==
  /\ enabled => uuid # 0
  /\ enabled /\ restores = 0 => message.uuid = uuid
  /\ backup.enabled => backup.uuid # 0
  /\ message.uuid = 0 => message = None

Lost == lost /\ (message.secret # secret \/ restores = 1)

\* A message that neither the state file nor the folder tells of is a lost one.
Accounted ==
  message.secret # 0 /\ message.uuid # uuid /\ folder # "mine" /\ (folder = "none" \/ uuid = 0)
    => Lost

\* How far the clean-up is.
ClearingFits ==
  /\ message.secret # 0 /\ (op.at = "undo" \/ (op.task = "undo"
       /\ op.at \in {"entries", "drop"})) =>
       lost \/ message.uuid = uuid
  /\ op.at \in {"entries", "drop"} =>
       op.saved = uuid /\ (op.more \/ folder = "none" \/ op.task = "undo")
  /\ op.at = "drop" => op.saved # 0
  /\ op.at = "name" => op.more
  /\ op.at = "forget" => message.secret = 0
  /\ message.secret # 0 /\ (op.at \in {"list", "remove", "check", "finish"}
       \/ (op.task = "on" /\ op.at = "up")) =>
       lost /\ (op.task = "undo" \/ Lost)

\* Publishing goes into a folder that is there.
PublishFits ==
  /\ op.at \in {"publish", "save"} => folder # "none"
  /\ op.at \in {"publish", "save"} /\ op.task = "on" => folder = "mine"
  /\ op.at = "publish" /\ op.task = "on" /\ message.secret # 0 => lost
  /\ op.at = "save" => op.saved = message.uuid /\ op.saved # 0

BridgeInv ==
  /\ SwitchTyped /\ ProcsFit /\ TaskFits /\ WantedFits /\ OnIsTold /\ Accounted
  /\ ClearingFits /\ PublishFits

-----------------------------------------------------------------------------
(* Numbers nobody holds *)

USE DEF Ops

LEMMA FreshIsFree ==
  ASSUME NEW used, IsFiniteSet(used) PROVE Fresh(used) \in Nat \ {0} /\ Fresh(used) \notin used
<1> DEFINE c == Cardinality(used)
<1>1. c \in Nat
  BY FS_CardinalityType
<1>2. ASSUME 1..(c + 1) \subseteq used PROVE FALSE
  <2>1. IsFiniteSet(1..(c + 1)) /\ Cardinality(1..(c + 1)) = c + 1
    <3>1. 1 \in Int /\ c + 1 \in Int /\ 1 <= c + 1
      BY <1>1
    <3> HIDE DEF c
    <3>2. Cardinality(1..(c + 1)) = (c + 1) - 1 + 1
      BY <1>1, <3>1, FS_Interval
    <3> QED BY <1>1, <3>1, <3>2, FS_Interval
  <2>2. Cardinality(1..(c + 1)) <= c
    BY <1>2, FS_Subset
  <2> QED BY <1>1, <2>1, <2>2
<1>3. \E n \in 1..(c + 1) : n \notin used
  BY <1>2
<1>4. Fresh(used) \in 1..(c + 1) /\ Fresh(used) \notin used
  BY <1>3 DEF Fresh
<1> HIDE DEF c
<1> QED BY <1>1, <1>4

LEMMA FourFinite == ASSUME NEW a, NEW b, NEW c, NEW d PROVE IsFiniteSet({a, b, c, d})
<1>1. IsFiniteSet({}) /\ IsFiniteSet({a}) /\ IsFiniteSet({a} \cup {b})
        /\ IsFiniteSet(({a} \cup {b}) \cup {c})
  BY FS_EmptySet, FS_AddElement, FS_Singleton
<1>2. IsFiniteSet((({a} \cup {b}) \cup {c}) \cup {d})
  BY <1>1, FS_AddElement
<1>3. {a, b, c, d} = (({a} \cup {b}) \cup {c}) \cup {d}
  OBVIOUS
<1> QED BY <1>2, <1>3

LEMMA NewIds ==
  /\ NewSecret \in Nat \ {0} /\ NewSecret # message.secret
  /\ NewUuid \in Nat \ {0}
<1>1. NewSecret \in Nat \ {0} /\ NewSecret \notin {message.secret, heard.secret, entry.secret,
        backup.secret}
  BY FourFinite, FreshIsFree DEF NewSecret
<1>2. NewUuid \in Nat \ {0}
  BY FourFinite, FreshIsFree DEF NewUuid
<1> QED BY <1>1, <1>2

LEMMA SecretIsNew ==
  ASSUME SwitchTyped, EnsureSecret
  PROVE  secret' \in Nat \ {0} /\ (secret' = secret \/ (secret = 0 /\ secret' # message.secret))
BY NewIds DEF SwitchTyped, EnsureSecret

-----------------------------------------------------------------------------
(* The processes *)

LEMMA ImageFinite ==
  ASSUME NEW S, IsFiniteSet(S), NEW f, f = [x \in S |-> f[x]]
  PROVE  IsFiniteSet({f[x] : x \in S})
<1>1. f \in Surjection(S, {f[x] : x \in S})
  BY DEF Surjection
<1> QED BY <1>1, FS_Surjection

LEMMA StartedFits ==
  ASSUME SwitchTyped, ProcsFit, Started
  PROVE  /\ wanted' = TRUE /\ child' \in Nat /\ child' # 0 /\ respawn' \in {respawn, FALSE}
         /\ ProcsFit'
<1>1. CASE child # 0
  BY <1>1 DEF Started, SwitchTyped, ProcsFit
<1>2. CASE child = 0
  <2> DEFINE ids == {p.id : p \in procs}
  <2>1. IsFiniteSet(ids)
    <3> DEFINE f == [p \in procs |-> p.id]
    <3>1. IsFiniteSet(procs) /\ f = [p \in procs |-> f[p]] /\ ids = {f[p] : p \in procs}
      BY DEF ProcsFit
    <3> HIDE DEF f
    <3> QED BY <3>1, ImageFinite
  <2>2. PICK m \in Minted.ok :
          /\ child' = Fresh(ids) /\ procs' = procs \cup {[id |-> child', cred |-> m.relay,
               told |-> FALSE]}
          /\ respawn' = FALSE /\ wanted' = TRUE
    BY <1>2 DEF Started
  <2>3. child' \in Nat \ {0} /\ child' \notin ids
    BY <2>1, <2>2, FreshIsFree
  <2> DEFINE new == [id |-> child', cred |-> m.relay, told |-> FALSE]
  <2>4. new.id = child' /\ new.told = FALSE /\ new \in [id : Nat \ {0}, cred : {new.cred},
          told : BOOLEAN]
    BY <2>3
  <2>5. procs' = procs \cup {new}
    BY <2>2
  <2> HIDE DEF new
  <2>6. IsFiniteSet(procs')
    BY <2>5, FS_AddElement DEF ProcsFit
  <2>7. \A p \in procs : p.told /\ p.id # child'
    BY <1>2, <2>3 DEF ProcsFit
  <2> QED BY <2>2, <2>3, <2>4, <2>5, <2>6, <2>7 DEF ProcsFit
<1> QED BY <1>1, <1>2

LEMMA ToldFits ==
  ASSUME SwitchTyped, ProcsFit, procs' = Told(child), child' \in {child, 0}
  PROVE  ProcsFit'
<1> DEFINE tell(p) == IF p.id = child THEN [p EXCEPT !.told = TRUE] ELSE p
<1>1. procs' = {tell(p) : p \in procs}
  BY DEF Told
<1>2. \A p \in procs : /\ tell(p).id = p.id /\ tell(p).told
                       /\ tell(p) \in [id : Nat \ {0}, cred : {tell(p).cred}, told : BOOLEAN]
  <2> SUFFICES ASSUME NEW p \in procs
               PROVE  /\ tell(p).id = p.id /\ tell(p).told
                       /\ tell(p) \in [id : Nat \ {0}, cred : {tell(p).cred}, told : BOOLEAN]
    OBVIOUS
  <2>1. p \in [id : Nat \ {0}, cred : {p.cred}, told : BOOLEAN] /\ (p.told \/ p.id = child)
    BY DEF ProcsFit
  <2>2. CASE p.id = child
    BY <2>1, <2>2
  <2>3. CASE p.id # child
    BY <2>1, <2>3
  <2> QED BY <2>2, <2>3
<1> HIDE DEF tell
<1>3. IsFiniteSet(procs')
  <2> DEFINE f == [p \in procs |-> tell(p)]
  <2>1. IsFiniteSet(procs) /\ f = [p \in procs |-> f[p]] /\ procs' = {f[p] : p \in procs}
    BY <1>1 DEF ProcsFit
  <2> HIDE DEF f
  <2> QED BY <2>1, ImageFinite
<1> QED BY <1>1, <1>2, <1>3 DEF ProcsFit

LEMMA ExitFits ==
  ASSUME SwitchTyped, ProcsFit, NEW p \in procs, Exit(p)
  PROVE  ProcsFit' /\ child' \in {child, 0} /\ respawn' \in {respawn, respawn \/ wanted}
<1>1. procs' = procs \ {p} /\ IsFiniteSet(procs')
  BY FS_RemoveElement DEF Exit, ProcsFit
<1>2. child' \in {child, 0} /\ (child' = child \/ child = p.id)
        /\ respawn' \in {respawn, respawn \/ wanted}
  BY DEF Exit, Current
<1> QED BY <1>1, <1>2 DEF ProcsFit

LEMMA OneBridgeAtATime == ProcsFit => OneBridge
<1> SUFFICES ASSUME ProcsFit PROVE Cardinality({p \in procs : ~p.told}) <= 1
  BY DEF OneBridge
<1> DEFINE running == {p \in procs : ~p.told}
<1>1. \A p, q \in running : p = q
  BY DEF ProcsFit
<1>2. CASE running = {}
  BY <1>2, FS_EmptySet
<1>3. CASE running # {}
  <2>1. PICK p : running = {p}
    BY <1>1, <1>3
  <2>2. Cardinality({p}) = 1
    BY FS_Singleton
  <2> QED BY <2>1, <2>2
<1> QED BY <1>2, <1>3

-----------------------------------------------------------------------------

LEMMA BridgeHolds == BridgeInv => BridgeAsSwitched
<1> SUFFICES ASSUME BridgeInv PROVE BridgeAsSwitched
  OBVIOUS
<1>1. OneBridge
  BY OneBridgeAtATime DEF BridgeInv
<1>2. ASSUME Finished
      PROVE  /\ ~wanted /\ child = 0 /\ ~respawn
             /\ \A p \in procs : p.told /\ ~Resolves(p.cred)
             /\ \/ message.secret = 0
                \/ lost /\ (message.secret # secret \/ restores = 1)
  <2>1. op = Idle /\ op.task = "none" /\ ~enabled /\ uuid = 0 /\ registry = {} /\ folder # "mine"
    BY <1>2 DEF Finished, Free, Leftover, Idle
  <2>2. ~wanted
    BY <2>1 DEF BridgeInv, WantedFits
  <2>3. child = 0 /\ ~respawn
    BY <2>2 DEF BridgeInv, WantedFits
  <2>4. \A p \in procs : p.told /\ ~Resolves(p.cred)
    BY <2>1, <2>3 DEF BridgeInv, ProcsFit, Resolves
  <2>5. message.secret # 0 => message.uuid # 0
    BY DEF BridgeInv, OnIsTold, None
  <2>6. message.secret # 0 => Lost
    BY <2>1, <2>5 DEF BridgeInv, Accounted
  <2> QED BY <2>2, <2>3, <2>4, <2>6 DEF Lost
<1> QED BY <1>1, <1>2 DEF BridgeAsSwitched, OffIsClean

LEMMA IdleOp == Idle \in Ops /\ Idle.at = "idle" /\ Idle.task = "none"
BY DEF Idle, Tasks, Pcs

LEMMA AnsweredFits ==
  ASSUME SwitchTyped, NEW next \in Ops, Answered(next)
  PROVE  /\ op' \in {next, Idle} /\ op' \in Ops
         /\ bootDue' \in BOOLEAN /\ restores' = restores
<1>1. op' \in {next, Idle} /\ bootDue' \in {bootDue, (bootDue \/ op.task = "boot")}
        /\ restores' = restores
  BY DEF Answered, Smooth, GiveUp, Fault, bounds
<1>2. bootDue' \in BOOLEAN
  BY <1>1 DEF SwitchTyped
<1> QED BY <1>1, <1>2, IdleOp

LEMMA AtFits ==
  ASSUME SwitchTyped, NEW pc \in Pcs
  PROVE  /\ At(pc) \in Ops
         /\ At(pc).at = pc /\ At(pc).task = op.task /\ At(pc).saved = op.saved
              /\ At(pc).more = op.more
BY DEF SwitchTyped, At

LEMMA MessageKnown == SwitchTyped /\ message.secret # 0 => message # None
BY DEF None, SwitchTyped

LEMMA NoMessage == None \in [uuid : Nat, secret : Nat] /\ None.uuid = 0 /\ None.secret = 0
BY DEF None

LEMMA ReadEntriesKeeps == ASSUME BridgeInv, ReadEntries PROVE BridgeInv'
<1> USE DEF BridgeInv
<1>d. /\ op.at = "entries" /\ op'.task = op.task /\ op'.saved = op.saved /\ op'.more \in BOOLEAN
           /\ (op.more => op'.more)
      /\ op'.at = IF op.saved # 0 THEN "drop" ELSE IF op'.more THEN "name" ELSE "list"
      /\ op' \in Ops
      /\ UNCHANGED <<enabled, uuid, secret, up, child, wanted, respawn, procs, folder, backup,
           restores,
                     bootDue, message, entry, heard, lost>>
  <2> DEFINE more == op.more \/ entry # None
  <2>1. more \in BOOLEAN
    OBVIOUS
  <2>2. op' = [op EXCEPT !.more = more,
                         !.at = IF op.saved # 0 THEN "drop" ELSE IF more THEN "name" ELSE "list"]
    BY DEF ReadEntries
  <2>3. op.more => more
    OBVIOUS
  <2> HIDE DEF more
  <2>4. op' \in Ops /\ op'.more = more /\ op'.task = op.task /\ op'.saved = op.saved
        /\ op'.at = IF op.saved # 0 THEN "drop" ELSE IF more THEN "name" ELSE "list"
    BY <2>1, <2>2 DEF SwitchTyped, Pcs
  <2> QED BY <2>1, <2>3, <2>4 DEF ReadEntries, Quiet, files, access, bridge, home, bounds, Smooth
<1>1. SwitchTyped'
  BY <1>d, IdleOp, NoMessage DEF Clearing, SwitchTyped
<1>2. ProcsFit'
  BY <1>d, IdleOp, NoMessage DEF Clearing, ProcsFit
<1>3. TaskFits'
  BY <1>d, IdleOp, NoMessage DEF Clearing, TaskFits, SwitchTyped
<1>4. WantedFits'
  BY <1>d, IdleOp, NoMessage DEF Clearing, WantedFits, TaskFits, SwitchTyped
<1>5. OnIsTold'
  BY <1>d, IdleOp, NoMessage DEF Clearing, OnIsTold, TaskFits, PublishFits, SwitchTyped, None
<1>6. Accounted'
  BY <1>d, IdleOp, NoMessage DEF Clearing, Accounted, Lost, SwitchTyped, ClearingFits, PublishFits,
    OnIsTold, TaskFits
<1>7. ClearingFits'
  BY <1>d, IdleOp, NoMessage DEF Clearing, ClearingFits, TaskFits, Lost, Accounted, SwitchTyped,
    PublishFits, OnIsTold, None
<1>8. PublishFits'
  BY <1>d, IdleOp, NoMessage DEF Clearing, PublishFits, TaskFits, ClearingFits, SwitchTyped,
    OnIsTold
<1> QED
  BY <1>1, <1>2, <1>3, <1>4, <1>5, <1>6, <1>7, <1>8

LEMMA DropMessageKeeps == ASSUME BridgeInv, DropMessage PROVE BridgeInv'
<1> USE DEF BridgeInv
<1>d. /\ op.at = "drop" /\ message' \in {message, None}
           /\ (message' = message => message.uuid # op.saved \/ message = None)
      /\ op' = Idle \/ (op'.at = (IF message.uuid # op.saved /\ op.more THEN "name" ELSE "list")
           /\ op'.task = op.task /\ op'.saved = op.saved /\ op'.more = op.more)
      /\ (message.uuid = op.saved => message' = None)
      /\ op' \in Ops /\ bootDue' \in BOOLEAN
      /\ (message' # None => lost' = lost) /\ lost' \in BOOLEAN
      /\ UNCHANGED <<enabled, uuid, secret, up, child, wanted, respawn, procs, folder, backup,
           restores, entry, heard>>
  <2> DEFINE next == At(IF message.uuid # op.saved /\ op.more THEN "name" ELSE "list")
  <2>1. next \in Ops /\ next.at = (IF message.uuid # op.saved /\ op.more THEN "name" ELSE "list")
          /\ next.task = op.task /\ next.saved = op.saved /\ next.more = op.more
    BY AtFits DEF Pcs
  <2>2. Answered(next)
    BY DEF DropMessage
  <2> HIDE DEF next
  <2>3. op' \in {next, Idle} /\ op' \in Ops /\ bootDue' \in BOOLEAN /\ restores' = restores
    BY <2>1, <2>2, AnsweredFits
  <2>4. lost' = (lost /\ message' # None) /\ message' = IF message.uuid = op.saved THEN None ELSE message
    BY DEF DropMessage
  <2>5. lost' \in BOOLEAN /\ (message' # None => lost' = lost)
    BY <2>4 DEF SwitchTyped
  <2> QED BY <2>1, <2>3, <2>4, <2>5 DEF DropMessage, Quiet, files, access, bridge, home, bounds
<1>1. SwitchTyped'
  BY <1>d, IdleOp, NoMessage DEF Clearing, SwitchTyped
<1>2. ProcsFit'
  BY <1>d, IdleOp, NoMessage DEF Clearing, ProcsFit
<1>3. TaskFits'
  BY <1>d, IdleOp, NoMessage DEF Clearing, TaskFits, SwitchTyped
<1>4. WantedFits'
  BY <1>d, IdleOp, NoMessage DEF Clearing, WantedFits, TaskFits, SwitchTyped
<1>5. OnIsTold'
  BY <1>d, IdleOp, NoMessage DEF Clearing, OnIsTold, TaskFits, PublishFits, SwitchTyped, None
<1>6. Accounted'
  BY <1>d, IdleOp, NoMessage DEF Clearing, Accounted, Lost, SwitchTyped, ClearingFits, PublishFits,
    OnIsTold, TaskFits
<1>7. ClearingFits'
  BY <1>d, IdleOp, NoMessage DEF Clearing, ClearingFits, TaskFits, Lost, Accounted, SwitchTyped,
    PublishFits, OnIsTold, None
<1>8. PublishFits'
  BY <1>d, IdleOp, NoMessage DEF Clearing, PublishFits, TaskFits, ClearingFits, SwitchTyped,
    OnIsTold
<1> QED
  BY <1>1, <1>2, <1>3, <1>4, <1>5, <1>6, <1>7, <1>8

LEMMA NameMessageKeeps == ASSUME BridgeInv, NameMessage PROVE BridgeInv'
<1> USE DEF BridgeInv
<1>d. /\ op.at = "name" /\ message' \in [uuid : Nat, secret : Nat] /\ message'.secret = 0
           /\ message'.uuid # 0
      /\ message'.uuid = message.uuid \/ message = None
      /\ op' = Idle \/ (op'.at = "forget" /\ op'.task = op.task /\ op'.saved = message'.uuid
           /\ op'.more = op.more)
      /\ op' \in Ops /\ bootDue' \in BOOLEAN
      /\ UNCHANGED <<enabled, uuid, secret, up, child, wanted, respawn, procs, folder, backup,
           restores, entry, heard, lost>>
  <2> DEFINE next == [op EXCEPT !.saved = message'.uuid, !.at = "forget"]
  <2>1. /\ message' = [uuid |-> IF message = None THEN NewUuid ELSE message.uuid, secret |-> 0] 
    BY DEF NameMessage
  <2>2. /\ message' \in [uuid : Nat, secret : Nat] /\ message'.secret = 0 /\ message'.uuid # 0
        /\ message'.uuid = message.uuid \/ message = None
    BY <2>1, NewIds DEF SwitchTyped, OnIsTold
  <2>3. next \in Ops /\ next.at = "forget" /\ next.task = op.task /\ next.saved = message'.uuid
          /\ next.more = op.more
    BY <2>2 DEF SwitchTyped, Pcs
  <2>4. Answered(next)
    BY DEF NameMessage
  <2> HIDE DEF next
  <2>5. op' \in {next, Idle} /\ op' \in Ops /\ bootDue' \in BOOLEAN /\ restores' = restores
    BY <2>3, <2>4, AnsweredFits
  <2> QED BY <2>2, <2>3, <2>5 DEF NameMessage, Quiet, files, access, bridge, home, bounds
<1>1. SwitchTyped'
  BY <1>d, IdleOp, NoMessage DEF Clearing, SwitchTyped
<1>2. ProcsFit'
  BY <1>d, IdleOp, NoMessage DEF Clearing, ProcsFit
<1>3. TaskFits'
  BY <1>d, IdleOp, NoMessage DEF Clearing, TaskFits, SwitchTyped
<1>4. WantedFits'
  BY <1>d, IdleOp, NoMessage DEF Clearing, WantedFits, TaskFits, SwitchTyped
<1>5. OnIsTold'
  BY <1>d, IdleOp, NoMessage DEF Clearing, OnIsTold, TaskFits, PublishFits, SwitchTyped, None
<1>6. Accounted'
  BY <1>d, IdleOp, NoMessage DEF Clearing, Accounted, Lost, SwitchTyped, ClearingFits, PublishFits,
    OnIsTold, TaskFits
<1>7. ClearingFits'
  BY <1>d, IdleOp, NoMessage DEF Clearing, ClearingFits, TaskFits, Lost, Accounted, SwitchTyped,
    PublishFits, OnIsTold, None
<1>8. PublishFits'
  BY <1>d, IdleOp, NoMessage DEF Clearing, PublishFits, TaskFits, ClearingFits, SwitchTyped,
    OnIsTold
<1> QED
  BY <1>1, <1>2, <1>3, <1>4, <1>5, <1>6, <1>7, <1>8

LEMMA ForgetMessageKeeps == ASSUME BridgeInv, ForgetMessage PROVE BridgeInv'
<1> USE DEF BridgeInv
<1>d. /\ op.at = "forget" /\ message' = None /\ lost' = FALSE
      /\ op' = Idle \/ (op'.at = "list" /\ op'.task = op.task /\ op'.saved = op.saved
           /\ op'.more = op.more)
      /\ op' \in Ops /\ bootDue' \in BOOLEAN
      /\ UNCHANGED <<enabled, uuid, secret, up, child, wanted, respawn, procs, folder, backup,
           restores, heard, entry>>
  <2>1. Answered(At("list"))
    BY DEF ForgetMessage
  <2>2. /\ At("list") \in Ops /\ At("list").at = "list" /\ At("list").task = op.task
        /\ At("list").saved = op.saved /\ At("list").more = op.more
    BY AtFits DEF Pcs
  <2>3. op' \in {At("list"), Idle} /\ op' \in Ops /\ bootDue' \in BOOLEAN /\ restores' = restores
    BY <2>1, <2>2, AnsweredFits
  <2> QED BY <2>2, <2>3 DEF ForgetMessage, Quiet, files, access, bridge, home, bounds
<1>1. SwitchTyped'
  BY <1>d, IdleOp, NoMessage DEF Clearing, SwitchTyped
<1>2. ProcsFit'
  BY <1>d, IdleOp, NoMessage DEF Clearing, ProcsFit
<1>3. TaskFits'
  BY <1>d, IdleOp, NoMessage DEF Clearing, TaskFits, SwitchTyped
<1>4. WantedFits'
  BY <1>d, IdleOp, NoMessage DEF Clearing, WantedFits, TaskFits, SwitchTyped
<1>5. OnIsTold'
  BY <1>d, IdleOp, NoMessage DEF Clearing, OnIsTold, TaskFits, PublishFits, SwitchTyped, None
<1>6. Accounted'
  BY <1>d, IdleOp, NoMessage DEF Clearing, Accounted, Lost, SwitchTyped, ClearingFits, PublishFits,
    OnIsTold, TaskFits
<1>7. ClearingFits'
  BY <1>d, IdleOp, NoMessage DEF Clearing, ClearingFits, TaskFits, Lost, Accounted, SwitchTyped,
    PublishFits, OnIsTold, None
<1>8. PublishFits'
  BY <1>d, IdleOp, NoMessage DEF Clearing, PublishFits, TaskFits, ClearingFits, SwitchTyped,
    OnIsTold
<1> QED
  BY <1>1, <1>2, <1>3, <1>4, <1>5, <1>6, <1>7, <1>8

LEMMA ListEntriesKeeps == ASSUME BridgeInv, ListEntries PROVE BridgeInv'
<1> USE DEF BridgeInv
<1>1. ProcsFit'
  BY DEF ListEntries, Quiet, files, access, bridge, home, bounds, Answered, GiveUp, Smooth, Fault,
    At, Clearing, None, Idle, ProcsFit
<1>2. SwitchTyped'
  BY NewIds DEF ListEntries, Quiet, files, access, bridge, home, bounds, Answered, GiveUp, Smooth,
    Fault, At, Clearing, None, Idle, SwitchTyped, Pcs, Tasks
<1>3. TaskFits'
  BY NewIds DEF ListEntries, Quiet, files, access, bridge, home, bounds, Answered, GiveUp, Smooth,
    Fault, At, Clearing, None, Idle, TaskFits, SwitchTyped
<1>4. WantedFits'
  BY NewIds DEF ListEntries, Quiet, files, access, bridge, home, bounds, Answered, GiveUp, Smooth,
    Fault, At, Clearing, None, Idle, WantedFits, TaskFits, SwitchTyped
<1>5. OnIsTold'
  BY NewIds DEF ListEntries, Quiet, files, access, bridge, home, bounds, Answered, GiveUp, Smooth,
    Fault, At, Clearing, None, Idle, OnIsTold, TaskFits, PublishFits, SwitchTyped
<1>6. Accounted'
  BY NewIds DEF ListEntries, Quiet, files, access, bridge, home, bounds, Answered, GiveUp, Smooth,
    Fault, At, Clearing, None, Idle, Accounted, Lost, SwitchTyped, ClearingFits, PublishFits,
      OnIsTold
<1>7. ClearingFits'
  BY NewIds DEF ListEntries, Quiet, files, access, bridge, home, bounds, Answered, GiveUp, Smooth,
    Fault, At, Clearing, None, Idle, ClearingFits, TaskFits, Lost, Accounted, SwitchTyped,
      PublishFits
<1>8. PublishFits'
  BY NewIds DEF ListEntries, Quiet, files, access, bridge, home, bounds, Answered, GiveUp, Smooth,
    Fault, At, Clearing, None, Idle, PublishFits, TaskFits, ClearingFits, SwitchTyped
<1> QED
  BY <1>1, <1>2, <1>3, <1>4, <1>5, <1>6, <1>7, <1>8

LEMMA RemoveEntryKeeps == ASSUME BridgeInv, RemoveEntry PROVE BridgeInv'
<1> USE DEF BridgeInv
<1>d. /\ op.at = "remove" /\ entry' = None
      /\ op' = Idle \/ (op'.at = "check" /\ op'.task = op.task /\ op'.saved = op.saved
           /\ op'.more = op.more)
      /\ op' \in Ops /\ bootDue' \in BOOLEAN
      /\ UNCHANGED <<enabled, uuid, secret, up, child, wanted, respawn, procs, folder, backup,
           restores, heard, message, lost>>
  <2>1. Answered(At("check"))
    BY DEF RemoveEntry
  <2>2. /\ At("check") \in Ops /\ At("check").at = "check" /\ At("check").task = op.task
        /\ At("check").saved = op.saved /\ At("check").more = op.more
    BY AtFits DEF Pcs
  <2>3. op' \in {At("check"), Idle} /\ op' \in Ops /\ bootDue' \in BOOLEAN /\ restores' = restores
    BY <2>1, <2>2, AnsweredFits
  <2> QED BY <2>2, <2>3 DEF RemoveEntry, Quiet, files, access, bridge, home, bounds
<1>1. SwitchTyped'
  BY <1>d, IdleOp, NoMessage DEF Clearing, SwitchTyped
<1>2. ProcsFit'
  BY <1>d, IdleOp, NoMessage DEF Clearing, ProcsFit
<1>3. TaskFits'
  BY <1>d, IdleOp, NoMessage DEF Clearing, TaskFits, SwitchTyped
<1>4. WantedFits'
  BY <1>d, IdleOp, NoMessage DEF Clearing, WantedFits, TaskFits, SwitchTyped
<1>5. OnIsTold'
  BY <1>d, IdleOp, NoMessage DEF Clearing, OnIsTold, TaskFits, PublishFits, SwitchTyped, None
<1>6. Accounted'
  BY <1>d, IdleOp, NoMessage DEF Clearing, Accounted, Lost, SwitchTyped, ClearingFits, PublishFits,
    OnIsTold, TaskFits
<1>7. ClearingFits'
  BY <1>d, IdleOp, NoMessage DEF Clearing, ClearingFits, TaskFits, Lost, Accounted, SwitchTyped,
    PublishFits, OnIsTold, None
<1>8. PublishFits'
  BY <1>d, IdleOp, NoMessage DEF Clearing, PublishFits, TaskFits, ClearingFits, SwitchTyped,
    OnIsTold
<1> QED
  BY <1>1, <1>2, <1>3, <1>4, <1>5, <1>6, <1>7, <1>8

LEMMA CheckEntriesKeeps == ASSUME BridgeInv, CheckEntries PROVE BridgeInv'
<1> USE DEF BridgeInv
<1>d. /\ op.at = "check"
      /\ op' = Idle \/ (op'.at = (IF op.task = "on" THEN "up" ELSE "finish") /\ op'.task = op.task
           /\ op'.saved = op.saved /\ op'.more = op.more)
      /\ op' \in Ops /\ bootDue' \in BOOLEAN
      /\ UNCHANGED <<enabled, uuid, secret, up, child, wanted, respawn, procs, folder, backup,
           restores, heard, entry, message, lost>>
  <2> DEFINE pc == IF op.task = "on" THEN "up" ELSE "finish"
  <2>1. pc \in Pcs
    BY DEF Pcs
  <2>2. (op' = At(pc) /\ UNCHANGED bootDue) \/ GiveUp
    BY DEF CheckEntries
  <2> HIDE DEF pc
  <2>3. op' \in {At(pc), Idle} /\ bootDue' \in {bootDue, (bootDue \/ op.task = "boot")}
    BY <2>2 DEF GiveUp
  <2>4. bootDue' \in BOOLEAN
    BY <2>3 DEF SwitchTyped
  <2>5. /\ At(pc) \in Ops /\ At(pc).at = pc /\ At(pc).task = op.task
        /\ At(pc).saved = op.saved /\ At(pc).more = op.more
    BY <2>1, AtFits
  <2> QED BY <2>3, <2>4, <2>5, IdleOp DEF CheckEntries, Quiet, Smooth, files, access, bridge, home,
        bounds, pc
<1>1. SwitchTyped'
  BY <1>d, IdleOp, NoMessage DEF Clearing, SwitchTyped
<1>2. ProcsFit'
  BY <1>d, IdleOp, NoMessage DEF Clearing, ProcsFit
<1>3. TaskFits'
  BY <1>d, IdleOp, NoMessage DEF Clearing, TaskFits, SwitchTyped
<1>4. WantedFits'
  BY <1>d, IdleOp, NoMessage DEF Clearing, WantedFits, TaskFits, SwitchTyped
<1>5. OnIsTold'
  BY <1>d, IdleOp, NoMessage DEF Clearing, OnIsTold, TaskFits, PublishFits, SwitchTyped, None
<1>6. Accounted'
  BY <1>d, IdleOp, NoMessage DEF Clearing, Accounted, Lost, SwitchTyped, ClearingFits, PublishFits,
    OnIsTold, TaskFits
<1>7. ClearingFits'
  BY <1>d, IdleOp, NoMessage DEF Clearing, ClearingFits, TaskFits, Lost, Accounted, SwitchTyped,
    PublishFits, OnIsTold, None
<1>8. PublishFits'
  BY <1>d, IdleOp, NoMessage DEF Clearing, PublishFits, TaskFits, ClearingFits, SwitchTyped,
    OnIsTold
<1> QED
  BY <1>1, <1>2, <1>3, <1>4, <1>5, <1>6, <1>7, <1>8

LEMMA ClearCallFailsKeeps == ASSUME BridgeInv, ClearCallFails PROVE BridgeInv'
<1> USE DEF BridgeInv
<1>1. ProcsFit'
  BY DEF ClearCallFails, Quiet, files, access, bridge, home, bounds, Answered, GiveUp, Smooth,
    Fault, At, Clearing, None, Idle, ProcsFit
<1>2. SwitchTyped'
  BY NewIds DEF ClearCallFails, Quiet, files, access, bridge, home, bounds, Answered, GiveUp,
    Smooth, Fault, At, Clearing, None, Idle, SwitchTyped, Pcs, Tasks
<1>3. TaskFits'
  BY NewIds DEF ClearCallFails, Quiet, files, access, bridge, home, bounds, Answered, GiveUp,
    Smooth, Fault, At, Clearing, None, Idle, TaskFits, SwitchTyped
<1>4. WantedFits'
  BY NewIds DEF ClearCallFails, Quiet, files, access, bridge, home, bounds, Answered, GiveUp,
    Smooth, Fault, At, Clearing, None, Idle, WantedFits, TaskFits, SwitchTyped
<1>5. OnIsTold'
  BY NewIds DEF ClearCallFails, Quiet, files, access, bridge, home, bounds, Answered, GiveUp,
    Smooth, Fault, At, Clearing, None, Idle, OnIsTold, TaskFits, PublishFits, SwitchTyped
<1>6. Accounted'
  BY NewIds DEF ClearCallFails, Quiet, files, access, bridge, home, bounds, Answered, GiveUp,
    Smooth, Fault, At, Clearing, None, Idle, Accounted, Lost, SwitchTyped, ClearingFits,
      PublishFits, OnIsTold
<1>7. ClearingFits'
  BY NewIds DEF ClearCallFails, Quiet, files, access, bridge, home, bounds, Answered, GiveUp,
    Smooth, Fault, At, Clearing, None, Idle, ClearingFits, TaskFits, Lost, Accounted, SwitchTyped,
      PublishFits
<1>8. PublishFits'
  BY NewIds DEF ClearCallFails, Quiet, files, access, bridge, home, bounds, Answered, GiveUp,
    Smooth, Fault, At, Clearing, None, Idle, PublishFits, TaskFits, ClearingFits, SwitchTyped
<1> QED
  BY <1>1, <1>2, <1>3, <1>4, <1>5, <1>6, <1>7, <1>8

LEMMA FinishKeeps == ASSUME BridgeInv, Finish PROVE BridgeInv'
<1> USE DEF BridgeInv
<1>d. /\ op.at = "finish" /\ secret' = 0 /\ op' = Idle /\ bootDue' \in BOOLEAN
      /\ folder' \in {folder, "none"} /\ uuid' \in {uuid, 0} /\ (uuid' # uuid => folder' = "none")
      /\ UNCHANGED <<enabled, up, child, wanted, respawn, procs, backup, restores, heard, entry,
           message, lost>>
  <2>1. op' = Idle /\ bootDue' \in {bootDue, (bootDue \/ op.task = "boot")}
    BY DEF Finish, GiveUp
  <2>2. bootDue' \in BOOLEAN
    BY <2>1 DEF SwitchTyped
  <2> QED BY <2>1, <2>2 DEF Finish, Smooth, Fault, files, access, bridge, home, bounds
<1>1. SwitchTyped'
  BY <1>d, IdleOp, NoMessage DEF Clearing, SwitchTyped
<1>2. ProcsFit'
  BY <1>d, IdleOp, NoMessage DEF Clearing, ProcsFit
<1>3. TaskFits'
  BY <1>d, IdleOp, NoMessage DEF Clearing, TaskFits, SwitchTyped
<1>4. WantedFits'
  BY <1>d, IdleOp, NoMessage DEF Clearing, WantedFits, TaskFits, SwitchTyped
<1>5. OnIsTold'
  BY <1>d, IdleOp, NoMessage DEF Clearing, OnIsTold, TaskFits, PublishFits, SwitchTyped, None
<1>6. Accounted'
  BY <1>d, IdleOp, NoMessage DEF Clearing, Accounted, Lost, SwitchTyped, ClearingFits, PublishFits,
    OnIsTold, TaskFits
<1>7. ClearingFits'
  BY <1>d, IdleOp, NoMessage DEF Clearing, ClearingFits, TaskFits, Lost, Accounted, SwitchTyped,
    PublishFits, OnIsTold, None
<1>8. PublishFits'
  BY <1>d, IdleOp, NoMessage DEF Clearing, PublishFits, TaskFits, ClearingFits, SwitchTyped,
    OnIsTold
<1> QED
  BY <1>1, <1>2, <1>3, <1>4, <1>5, <1>6, <1>7, <1>8

LEMMA HearKeeps == ASSUME BridgeInv, Hear PROVE BridgeInv'
<1> USE DEF BridgeInv
<1>1. ProcsFit'
  BY DEF Hear, World, files, access, bridge, home, bounds, None, Idle, Clearing, ProcsFit
<1>2. SwitchTyped'
  BY NewIds DEF Hear, World, files, access, bridge, home, bounds, None, Idle, Clearing,
    SwitchTyped, Pcs, Tasks
<1>3. TaskFits'
  BY NewIds DEF Hear, World, files, access, bridge, home, bounds, None, Idle, Clearing, TaskFits,
    SwitchTyped
<1>4. WantedFits'
  BY NewIds DEF Hear, World, files, access, bridge, home, bounds, None, Idle, Clearing, WantedFits,
    TaskFits, SwitchTyped
<1>5. OnIsTold'
  BY NewIds DEF Hear, World, files, access, bridge, home, bounds, None, Idle, Clearing, OnIsTold,
    TaskFits, PublishFits, SwitchTyped
<1>6. Accounted'
  BY NewIds DEF Hear, World, files, access, bridge, home, bounds, None, Idle, Clearing, Accounted,
    Lost, SwitchTyped, ClearingFits, PublishFits, OnIsTold
<1>7. ClearingFits'
  BY NewIds DEF Hear, World, files, access, bridge, home, bounds, None, Idle, Clearing,
    ClearingFits, TaskFits, Lost, Accounted, SwitchTyped, PublishFits
<1>8. PublishFits'
  BY NewIds DEF Hear, World, files, access, bridge, home, bounds, None, Idle, Clearing,
    PublishFits, TaskFits, ClearingFits, SwitchTyped
<1> QED
  BY <1>1, <1>2, <1>3, <1>4, <1>5, <1>6, <1>7, <1>8

LEMMA SetUpKeeps == ASSUME BridgeInv, SetUp PROVE BridgeInv'
<1> USE DEF BridgeInv
<1>1. ProcsFit'
  BY DEF SetUp, World, files, access, bridge, home, bounds, None, Idle, Clearing, ProcsFit
<1>2. SwitchTyped'
  BY NewIds DEF SetUp, World, files, access, bridge, home, bounds, None, Idle, Clearing,
    SwitchTyped, Pcs, Tasks
<1>3. TaskFits'
  BY NewIds DEF SetUp, World, files, access, bridge, home, bounds, None, Idle, Clearing, TaskFits,
    SwitchTyped
<1>4. WantedFits'
  BY NewIds DEF SetUp, World, files, access, bridge, home, bounds, None, Idle, Clearing,
    WantedFits, TaskFits, SwitchTyped
<1>5. OnIsTold'
  BY NewIds DEF SetUp, World, files, access, bridge, home, bounds, None, Idle, Clearing, OnIsTold,
    TaskFits, PublishFits, SwitchTyped
<1>6. Accounted'
  BY NewIds DEF SetUp, World, files, access, bridge, home, bounds, None, Idle, Clearing, Accounted,
    Lost, SwitchTyped, ClearingFits, PublishFits, OnIsTold
<1>7. ClearingFits'
  BY NewIds DEF SetUp, World, files, access, bridge, home, bounds, None, Idle, Clearing,
    ClearingFits, TaskFits, Lost, Accounted, SwitchTyped, PublishFits
<1>8. PublishFits'
  BY NewIds DEF SetUp, World, files, access, bridge, home, bounds, None, Idle, Clearing,
    PublishFits, TaskFits, ClearingFits, SwitchTyped
<1> QED
  BY <1>1, <1>2, <1>3, <1>4, <1>5, <1>6, <1>7, <1>8

LEMMA DropEntryKeeps == ASSUME BridgeInv, DropEntry PROVE BridgeInv'
<1> USE DEF BridgeInv
<1>1. ProcsFit'
  BY DEF DropEntry, World, files, access, bridge, home, bounds, None, Idle, Clearing, ProcsFit
<1>2. SwitchTyped'
  BY NewIds DEF DropEntry, World, files, access, bridge, home, bounds, None, Idle, Clearing,
    SwitchTyped, Pcs, Tasks
<1>3. TaskFits'
  BY NewIds DEF DropEntry, World, files, access, bridge, home, bounds, None, Idle, Clearing,
    TaskFits, SwitchTyped
<1>4. WantedFits'
  BY NewIds DEF DropEntry, World, files, access, bridge, home, bounds, None, Idle, Clearing,
    WantedFits, TaskFits, SwitchTyped
<1>5. OnIsTold'
  BY NewIds DEF DropEntry, World, files, access, bridge, home, bounds, None, Idle, Clearing,
    OnIsTold, TaskFits, PublishFits, SwitchTyped
<1>6. Accounted'
  BY NewIds DEF DropEntry, World, files, access, bridge, home, bounds, None, Idle, Clearing,
    Accounted, Lost, SwitchTyped, ClearingFits, PublishFits, OnIsTold
<1>7. ClearingFits'
  BY NewIds DEF DropEntry, World, files, access, bridge, home, bounds, None, Idle, Clearing,
    ClearingFits, TaskFits, Lost, Accounted, SwitchTyped, PublishFits
<1>8. PublishFits'
  BY NewIds DEF DropEntry, World, files, access, bridge, home, bounds, None, Idle, Clearing,
    PublishFits, TaskFits, ClearingFits, SwitchTyped
<1> QED
  BY <1>1, <1>2, <1>3, <1>4, <1>5, <1>6, <1>7, <1>8

LEMMA RestartHomeKeeps == ASSUME BridgeInv, RestartHome PROVE BridgeInv'
<1> USE DEF BridgeInv
<1>1. ProcsFit'
  BY DEF RestartHome, World, files, access, bridge, home, bounds, None, Idle, Clearing, ProcsFit
<1>2. SwitchTyped'
  BY NewIds DEF RestartHome, World, files, access, bridge, home, bounds, None, Idle, Clearing,
    SwitchTyped, Pcs, Tasks
<1>3. TaskFits'
  BY NewIds DEF RestartHome, World, files, access, bridge, home, bounds, None, Idle, Clearing,
    TaskFits, SwitchTyped
<1>4. WantedFits'
  BY NewIds DEF RestartHome, World, files, access, bridge, home, bounds, None, Idle, Clearing,
    WantedFits, TaskFits, SwitchTyped
<1>5. OnIsTold'
  BY NewIds DEF RestartHome, World, files, access, bridge, home, bounds, None, Idle, Clearing,
    OnIsTold, TaskFits, PublishFits, SwitchTyped
<1>6. Accounted'
  BY NewIds DEF RestartHome, World, files, access, bridge, home, bounds, None, Idle, Clearing,
    Accounted, Lost, SwitchTyped, ClearingFits, PublishFits, OnIsTold
<1>7. ClearingFits'
  BY NewIds DEF RestartHome, World, files, access, bridge, home, bounds, None, Idle, Clearing,
    ClearingFits, TaskFits, Lost, Accounted, SwitchTyped, PublishFits
<1>8. PublishFits'
  BY NewIds DEF RestartHome, World, files, access, bridge, home, bounds, None, Idle, Clearing,
    PublishFits, TaskFits, ClearingFits, SwitchTyped
<1> QED
  BY <1>1, <1>2, <1>3, <1>4, <1>5, <1>6, <1>7, <1>8

LEMMA TakeBackupKeeps == ASSUME BridgeInv, TakeBackup PROVE BridgeInv'
<1> USE DEF BridgeInv
<1>1. ProcsFit'
  BY DEF TakeBackup, World, files, access, bridge, home, bounds, None, Idle, Clearing, Free,
    ProcsFit
<1>2. SwitchTyped'
  BY NewIds DEF TakeBackup, World, files, access, bridge, home, bounds, None, Idle, Clearing, Free,
    SwitchTyped, Pcs, Tasks
<1>3. TaskFits'
  BY NewIds DEF TakeBackup, World, files, access, bridge, home, bounds, None, Idle, Clearing, Free,
    TaskFits, SwitchTyped
<1>4. WantedFits'
  BY NewIds DEF TakeBackup, World, files, access, bridge, home, bounds, None, Idle, Clearing, Free,
    WantedFits, TaskFits, SwitchTyped
<1>5. OnIsTold'
  BY NewIds DEF TakeBackup, World, files, access, bridge, home, bounds, None, Idle, Clearing, Free,
    OnIsTold, TaskFits, PublishFits, SwitchTyped
<1>6. Accounted'
  BY NewIds DEF TakeBackup, World, files, access, bridge, home, bounds, None, Idle, Clearing, Free,
    Accounted, Lost, SwitchTyped, ClearingFits, PublishFits, OnIsTold
<1>7. ClearingFits'
  BY NewIds DEF TakeBackup, World, files, access, bridge, home, bounds, None, Idle, Clearing, Free,
    ClearingFits, TaskFits, Lost, Accounted, SwitchTyped, PublishFits
<1>8. PublishFits'
  BY NewIds DEF TakeBackup, World, files, access, bridge, home, bounds, None, Idle, Clearing, Free,
    PublishFits, TaskFits, ClearingFits, SwitchTyped
<1> QED
  BY <1>1, <1>2, <1>3, <1>4, <1>5, <1>6, <1>7, <1>8

LEMMA RestoreDataKeeps == ASSUME BridgeInv, RestoreData PROVE BridgeInv'
<1> USE DEF BridgeInv
<1>d. /\ ~up /\ op = Idle /\ restores' = 1
      /\ enabled' = backup.enabled /\ uuid' = backup.uuid /\ secret' = backup.secret
      /\ lost' \in BOOLEAN /\ (folder # "mine" /\ message.secret # 0 /\ message.uuid # uuid'
           => lost')
      /\ UNCHANGED <<up, child, wanted, respawn, procs, op, bootDue, folder, message, heard, entry,
           backup>>
  <2>1. lost' = (lost \/ (folder # "mine" /\ Untold(backup.uuid)))
    BY DEF RestoreData
  <2>2. lost' \in BOOLEAN /\ (folder # "mine" /\ message.secret # 0 /\ message.uuid # backup.uuid
          => lost')
    BY <2>1, MessageKnown DEF SwitchTyped, Untold
  <2> QED BY <2>2 DEF RestoreData, WantedFits, files, access, bridge, home, bounds
<1>1. SwitchTyped'
  BY <1>d, IdleOp, NoMessage DEF Clearing, SwitchTyped
<1>2. ProcsFit'
  BY <1>d, IdleOp, NoMessage DEF Clearing, ProcsFit
<1>3. TaskFits'
  BY <1>d, IdleOp, NoMessage DEF Clearing, TaskFits, SwitchTyped
<1>4. WantedFits'
  BY <1>d, IdleOp, NoMessage DEF Clearing, WantedFits, TaskFits, SwitchTyped
<1>5. OnIsTold'
  BY <1>d, IdleOp, NoMessage DEF Clearing, OnIsTold, TaskFits, PublishFits, SwitchTyped, None
<1>6. Accounted'
  BY <1>d, IdleOp, NoMessage DEF Clearing, Accounted, Lost, SwitchTyped, ClearingFits, PublishFits,
    OnIsTold, TaskFits
<1>7. ClearingFits'
  BY <1>d, IdleOp, NoMessage DEF Clearing, ClearingFits, TaskFits, Lost, Accounted, SwitchTyped,
    PublishFits, OnIsTold, None
<1>8. PublishFits'
  BY <1>d, IdleOp, NoMessage DEF Clearing, PublishFits, TaskFits, ClearingFits, SwitchTyped,
    OnIsTold
<1> QED
  BY <1>1, <1>2, <1>3, <1>4, <1>5, <1>6, <1>7, <1>8

LEMMA RestoreHomeKeeps == ASSUME BridgeInv, RestoreHome PROVE BridgeInv'
<1> USE DEF BridgeInv
<1>d. /\ op = Idle /\ restores' = 1 /\ folder' = "none" /\ entry' = None /\ heard' = None
      /\ lost' \in BOOLEAN /\ (message.secret # 0 /\ message.uuid # uuid => lost')
      /\ UNCHANGED <<enabled, uuid, secret, up, child, wanted, respawn, procs, op, bootDue,
           message, backup>>
  <2>1. lost' = (lost \/ Untold(uuid))
    BY DEF RestoreHome
  <2>2. lost' \in BOOLEAN /\ (message.secret # 0 /\ message.uuid # uuid => lost')
    BY <2>1, MessageKnown DEF SwitchTyped, Untold
  <2> QED BY <2>2 DEF RestoreHome, files, access, bridge, home, bounds
<1>1. SwitchTyped'
  BY <1>d, IdleOp, NoMessage DEF Clearing, SwitchTyped
<1>2. ProcsFit'
  BY <1>d, IdleOp, NoMessage DEF Clearing, ProcsFit
<1>3. TaskFits'
  BY <1>d, IdleOp, NoMessage DEF Clearing, TaskFits, SwitchTyped
<1>4. WantedFits'
  BY <1>d, IdleOp, NoMessage DEF Clearing, WantedFits, TaskFits, SwitchTyped
<1>5. OnIsTold'
  BY <1>d, IdleOp, NoMessage DEF Clearing, OnIsTold, TaskFits, PublishFits, SwitchTyped, None
<1>6. Accounted'
  BY <1>d, IdleOp, NoMessage DEF Clearing, Accounted, Lost, SwitchTyped, ClearingFits, PublishFits,
    OnIsTold, TaskFits
<1>7. ClearingFits'
  BY <1>d, IdleOp, NoMessage DEF Clearing, ClearingFits, TaskFits, Lost, Accounted, SwitchTyped,
    PublishFits, OnIsTold, None
<1>8. PublishFits'
  BY <1>d, IdleOp, NoMessage DEF Clearing, PublishFits, TaskFits, ClearingFits, SwitchTyped,
    OnIsTold
<1> QED
  BY <1>1, <1>2, <1>3, <1>4, <1>5, <1>6, <1>7, <1>8

LEMMA CrashKeeps == ASSUME BridgeInv, Crash PROVE BridgeInv'
<1> USE DEF BridgeInv
<1>d. /\ up' = FALSE /\ child' = 0 /\ wanted' = FALSE /\ respawn' = FALSE /\ procs' = {}
           /\ IsFiniteSet(procs')
      /\ op' = Idle /\ bootDue' = FALSE
      /\ UNCHANGED <<enabled, uuid, secret, folder, message, heard, entry, backup, lost, restores>>
  BY FS_EmptySet DEF Crash, Fault, files, access, bridge, home, bounds
<1>1. SwitchTyped'
  BY <1>d, IdleOp, NoMessage DEF Clearing, SwitchTyped
<1>2. ProcsFit'
  BY <1>d, IdleOp, NoMessage DEF Clearing, ProcsFit
<1>3. TaskFits'
  BY <1>d, IdleOp, NoMessage DEF Clearing, TaskFits, SwitchTyped
<1>4. WantedFits'
  BY <1>d, IdleOp, NoMessage DEF Clearing, WantedFits, TaskFits, SwitchTyped
<1>5. OnIsTold'
  BY <1>d, IdleOp, NoMessage DEF Clearing, OnIsTold, TaskFits, PublishFits, SwitchTyped, None
<1>6. Accounted'
  BY <1>d, IdleOp, NoMessage DEF Clearing, Accounted, Lost, SwitchTyped, ClearingFits, PublishFits,
    OnIsTold, TaskFits
<1>7. ClearingFits'
  BY <1>d, IdleOp, NoMessage DEF Clearing, ClearingFits, TaskFits, Lost, Accounted, SwitchTyped,
    PublishFits, OnIsTold, None
<1>8. PublishFits'
  BY <1>d, IdleOp, NoMessage DEF Clearing, PublishFits, TaskFits, ClearingFits, SwitchTyped,
    OnIsTold
<1> QED
  BY <1>1, <1>2, <1>3, <1>4, <1>5, <1>6, <1>7, <1>8

LEMMA StartKeeps == ASSUME BridgeInv, Start PROVE BridgeInv'
<1> USE DEF BridgeInv
<1>1. ProcsFit'
  BY DEF Start, World, files, access, bridge, home, bounds, None, Idle, Clearing, Fault, Smooth,
    ProcsFit
<1>2. SwitchTyped'
  BY NewIds DEF Start, World, files, access, bridge, home, bounds, None, Idle, Clearing, Fault,
    Smooth, SwitchTyped, Pcs, Tasks
<1>3. TaskFits'
  BY NewIds DEF Start, World, files, access, bridge, home, bounds, None, Idle, Clearing, Fault,
    Smooth, TaskFits, SwitchTyped
<1>4. WantedFits'
  BY NewIds DEF Start, World, files, access, bridge, home, bounds, None, Idle, Clearing, Fault,
    Smooth, WantedFits, TaskFits, SwitchTyped
<1>5. OnIsTold'
  BY NewIds DEF Start, World, files, access, bridge, home, bounds, None, Idle, Clearing, Fault,
    Smooth, OnIsTold, TaskFits, PublishFits, SwitchTyped
<1>6. Accounted'
  BY NewIds DEF Start, World, files, access, bridge, home, bounds, None, Idle, Clearing, Fault,
    Smooth, Accounted, Lost, SwitchTyped, ClearingFits, PublishFits, OnIsTold
<1>7. ClearingFits'
  BY NewIds DEF Start, World, files, access, bridge, home, bounds, None, Idle, Clearing, Fault,
    Smooth, ClearingFits, TaskFits, Lost, Accounted, SwitchTyped, PublishFits
<1>8. PublishFits'
  BY NewIds DEF Start, World, files, access, bridge, home, bounds, None, Idle, Clearing, Fault,
    Smooth, PublishFits, TaskFits, ClearingFits, SwitchTyped
<1> QED
  BY <1>1, <1>2, <1>3, <1>4, <1>5, <1>6, <1>7, <1>8

LEMMA RespawnKeeps == ASSUME BridgeInv, Respawn PROVE BridgeInv'
<1> USE DEF BridgeInv
<1>d. /\ respawn /\ wanted' = TRUE /\ child' \in Nat /\ respawn' \in BOOLEAN
           /\ restores' = restores /\ ProcsFit' /\ up
      /\ UNCHANGED <<enabled, uuid, secret, up, op, bootDue, folder, message, heard, entry, backup,
           lost>>
  <2>1. respawn /\ up /\ UNCHANGED <<enabled, uuid, secret, up, op, bootDue, folder, message,
          heard, entry, backup, lost>>
    BY DEF Respawn, Awaiting, home
  <2>2. CASE Started /\ Smooth
    BY <2>1, <2>2, StartedFits DEF Smooth, bounds, SwitchTyped
  <2>3. CASE NotStarted(TRUE)
    <3>1. wanted' = TRUE /\ UNCHANGED <<child, procs>> /\ restores' = restores
      BY <2>3 DEF NotStarted, Smooth, Fault, bounds
    <3>2. respawn' = (respawn \/ TRUE)
      BY <2>3 DEF NotStarted, Retry
    <3>3. ProcsFit'
      BY <3>1 DEF ProcsFit
    <3> QED BY <2>1, <3>1, <3>2, <3>3 DEF SwitchTyped
  <2> QED BY <2>2, <2>3 DEF Respawn
<1>1. SwitchTyped'
  BY <1>d, IdleOp, NoMessage DEF Clearing, SwitchTyped
<1>2. TaskFits'
  BY <1>d, IdleOp, NoMessage DEF Clearing, TaskFits, SwitchTyped
<1>3. WantedFits'
  BY <1>d, IdleOp, NoMessage DEF Clearing, WantedFits, TaskFits, SwitchTyped
<1>4. OnIsTold'
  BY <1>d, IdleOp, NoMessage DEF Clearing, OnIsTold, TaskFits, PublishFits, SwitchTyped, None
<1>5. Accounted'
  BY <1>d, IdleOp, NoMessage DEF Clearing, Accounted, Lost, SwitchTyped, ClearingFits, PublishFits,
    OnIsTold, TaskFits
<1>6. ClearingFits'
  BY <1>d, IdleOp, NoMessage DEF Clearing, ClearingFits, TaskFits, Lost, Accounted, SwitchTyped,
    PublishFits, OnIsTold, None
<1>7. PublishFits'
  BY <1>d, IdleOp, NoMessage DEF Clearing, PublishFits, TaskFits, ClearingFits, SwitchTyped,
    OnIsTold
<1> QED
  BY <1>d, <1>1, <1>2, <1>3, <1>4, <1>5, <1>6, <1>7

LEMMA ExitKeeps == ASSUME BridgeInv, NEW p \in procs, Exit(p) PROVE BridgeInv'
<1> USE DEF BridgeInv
<1>d. /\ child' \in {child, 0} /\ respawn' \in BOOLEAN /\ (respawn' => respawn \/ wanted)
           /\ ProcsFit' /\ up
      /\ UNCHANGED <<enabled, uuid, secret, up, wanted, op, bootDue, folder, message, heard, entry,
           backup, lost, restores>>
  <2>1. /\ child' \in {child, 0} /\ respawn' \in {respawn, respawn \/ wanted} /\ ProcsFit'
    BY ExitFits
  <2>2. respawn' \in BOOLEAN /\ (respawn' => respawn \/ wanted)
    BY <2>1 DEF SwitchTyped
  <2> QED BY <2>1, <2>2 DEF Exit, Awaiting, files, access, home, bounds
<1>1. SwitchTyped'
  BY <1>d, IdleOp, NoMessage DEF Clearing, SwitchTyped
<1>2. TaskFits'
  BY <1>d, IdleOp, NoMessage DEF Clearing, TaskFits, SwitchTyped
<1>3. WantedFits'
  BY <1>d, IdleOp, NoMessage DEF Clearing, WantedFits, TaskFits, SwitchTyped
<1>4. OnIsTold'
  BY <1>d, IdleOp, NoMessage DEF Clearing, OnIsTold, TaskFits, PublishFits, SwitchTyped, None
<1>5. Accounted'
  BY <1>d, IdleOp, NoMessage DEF Clearing, Accounted, Lost, SwitchTyped, ClearingFits, PublishFits,
    OnIsTold, TaskFits
<1>6. ClearingFits'
  BY <1>d, IdleOp, NoMessage DEF Clearing, ClearingFits, TaskFits, Lost, Accounted, SwitchTyped,
    PublishFits, OnIsTold, None
<1>7. PublishFits'
  BY <1>d, IdleOp, NoMessage DEF Clearing, PublishFits, TaskFits, ClearingFits, SwitchTyped,
    OnIsTold
<1> QED
  BY <1>d, <1>1, <1>2, <1>3, <1>4, <1>5, <1>6, <1>7

LEMMA ResetKeeps == ASSUME BridgeInv, Reset PROVE BridgeInv'
<1> USE DEF BridgeInv
<1>d. /\ child' = child /\ respawn' \in BOOLEAN /\ (respawn' => respawn \/ wanted) /\ ProcsFit'
           /\ up
      /\ UNCHANGED <<enabled, uuid, secret, up, wanted, op, bootDue, folder, message, heard, entry,
           backup, lost, restores>>
  <2>1. /\ child' = child /\ respawn' \in {respawn, respawn \/ (child = 0 /\ wanted)}
             /\ procs' = Told(child)
    BY DEF Reset
  <2>2. respawn' \in BOOLEAN /\ (respawn' => respawn \/ wanted)
    BY <2>1 DEF SwitchTyped
  <2>3. ProcsFit'
    BY <2>1, ToldFits
  <2> QED BY <2>1, <2>2, <2>3 DEF Reset, Awaiting, files, access, home, bounds
<1>1. SwitchTyped'
  BY <1>d, IdleOp, NoMessage DEF Clearing, SwitchTyped
<1>2. TaskFits'
  BY <1>d, IdleOp, NoMessage DEF Clearing, TaskFits, SwitchTyped
<1>3. WantedFits'
  BY <1>d, IdleOp, NoMessage DEF Clearing, WantedFits, TaskFits, SwitchTyped
<1>4. OnIsTold'
  BY <1>d, IdleOp, NoMessage DEF Clearing, OnIsTold, TaskFits, PublishFits, SwitchTyped, None
<1>5. Accounted'
  BY <1>d, IdleOp, NoMessage DEF Clearing, Accounted, Lost, SwitchTyped, ClearingFits, PublishFits,
    OnIsTold, TaskFits
<1>6. ClearingFits'
  BY <1>d, IdleOp, NoMessage DEF Clearing, ClearingFits, TaskFits, Lost, Accounted, SwitchTyped,
    PublishFits, OnIsTold, None
<1>7. PublishFits'
  BY <1>d, IdleOp, NoMessage DEF Clearing, PublishFits, TaskFits, ClearingFits, SwitchTyped,
    OnIsTold
<1> QED
  BY <1>d, <1>1, <1>2, <1>3, <1>4, <1>5, <1>6, <1>7

LEMMA OffKeeps ==
  ASSUME BridgeInv, up, NEW task \in {"off", "boot", "undo"}, Off(task),
         task # "undo" => op = Idle, task = "undo" => op.at = "undo" /\ ~enabled
  PROVE  BridgeInv'
<1> USE DEF BridgeInv
<1>d. /\ wanted' = FALSE /\ respawn' = FALSE /\ child' = 0 /\ ProcsFit'
      /\ enabled' \in BOOLEAN /\ (enabled' => enabled) /\ bootDue' \in BOOLEAN
      /\ op' = Idle \/ (enabled' = FALSE /\ op'.task = task /\ op'.at = "entries"
           /\ op'.saved = uuid
                        /\ (op'.more <=> task # "undo" /\ folder # "none"))
      /\ op' \in Ops
      /\ UNCHANGED <<uuid, secret, up, folder, message, heard, entry, backup, lost, restores>>
  <2>1. /\ wanted' = FALSE /\ respawn' = FALSE /\ child' = 0 /\ procs' = Told(child)
    BY DEF Off, StopChild, ClearTimer
  <2>2. ProcsFit'
    BY <2>1, ToldFits
  <2>3. /\ enabled' = enabled \/ enabled' = FALSE
        /\ op' = Idle \/ (enabled' = FALSE /\ op' = Clear(task))
    BY DEF Off
  <2>e. enabled' \in BOOLEAN /\ (enabled' => enabled)
    <3>1. enabled \in BOOLEAN
      BY DEF SwitchTyped
    <3>2. CASE enabled' = enabled
      BY <3>1, <3>2
    <3>3. CASE enabled' = FALSE
      BY <3>3
    <3> QED BY <2>3, <3>2, <3>3
  <2>4. bootDue' \in {bootDue /\ task # "boot", bootDue \/ task = "boot"}
    BY DEF Off
  <2>5. bootDue' \in BOOLEAN
    BY <2>4 DEF SwitchTyped
  <2>6. /\ Clear(task).task = task /\ Clear(task).at = "entries" /\ Clear(task).saved = uuid
        /\ (Clear(task).more <=> task # "undo" /\ folder # "none")
        /\ Clear(task) \in Ops
    <3> DEFINE more == task # "undo" /\ folder # "none"
    <3>1. more \in BOOLEAN /\ Clear(task) = [task |-> task, at |-> "entries", saved |-> uuid,
            more |-> more]
      BY DEF Clear
    <3>3. more <=> task # "undo" /\ folder # "none"
      OBVIOUS
    <3> HIDE DEF more
    <3>2. Clear(task) \in Ops /\ Clear(task).more = more
      BY <3>1 DEF SwitchTyped, Tasks, Pcs
    <3> QED BY <3>1, <3>2, <3>3
  <2> QED BY <2>1, <2>2, <2>3, <2>e, <2>5, <2>6, IdleOp DEF Off, home
<1>1. SwitchTyped'
  BY <1>d, IdleOp, NoMessage DEF Clearing, SwitchTyped
<1>2. TaskFits'
  BY <1>d, IdleOp, NoMessage DEF Clearing, TaskFits, SwitchTyped
<1>3. WantedFits'
  BY <1>d, IdleOp, NoMessage DEF Clearing, WantedFits, TaskFits, SwitchTyped
<1>4. OnIsTold'
  BY <1>d, IdleOp, NoMessage DEF Clearing, OnIsTold, TaskFits, PublishFits, SwitchTyped, None
<1>5. Accounted'
  BY <1>d, IdleOp, NoMessage DEF Clearing, Accounted, Lost, SwitchTyped, ClearingFits, PublishFits,
    OnIsTold, TaskFits
<1>6. ClearingFits'
  BY <1>d, IdleOp, NoMessage DEF Clearing, ClearingFits, TaskFits, Lost, Accounted, SwitchTyped,
    PublishFits, OnIsTold, None
<1>7. PublishFits'
  BY <1>d, IdleOp, NoMessage DEF Clearing, PublishFits, TaskFits, ClearingFits, SwitchTyped,
    OnIsTold
<1> QED
  BY <1>d, <1>1, <1>2, <1>3, <1>4, <1>5, <1>6, <1>7

LEMMA TurnOffKeeps == ASSUME BridgeInv, TurnOff PROVE BridgeInv'
BY OffKeeps DEF TurnOff, Free

LEMMA UndoKeeps == ASSUME BridgeInv, Undo PROVE BridgeInv'
BY OffKeeps DEF Undo, BridgeInv, TaskFits

LEMMA TurnOnKeeps == ASSUME BridgeInv, TurnOn PROVE BridgeInv'
<1> USE DEF BridgeInv
<1>d. /\ op = Idle /\ up
      /\ \/ enabled /\ op'.task = "again" /\ op'.at = "up"
         \/ /\ ~enabled /\ op'.task = "on" /\ op'.at = "entries" /\ op'.saved = uuid
            /\ (op'.more <=> folder # "none")
      /\ op' \in Ops
      /\ UNCHANGED <<enabled, uuid, secret, up, child, wanted, respawn, procs, bootDue, folder,
           message, heard, entry, backup, lost, restores>>
      /\ ProcsFit'
  <2>0. op = Idle /\ up /\ UNCHANGED <<enabled, uuid, secret, up, child, wanted, respawn, procs,
          bootDue, folder, message, heard, entry, backup, lost, restores>>
    BY DEF TurnOn, Free, files, access, bridge, home
  <2>1. ProcsFit'
    BY <2>0 DEF ProcsFit
  <2>2. CASE enabled
    BY <2>0, <2>1, <2>2 DEF TurnOn, Idle, Tasks, Pcs
  <2>3. CASE ~enabled
    <3> DEFINE more == "on" # "undo" /\ folder # "none"
    <3>1. more \in BOOLEAN /\ op' = [task |-> "on", at |-> "entries", saved |-> uuid, more |-> more]
      BY <2>3 DEF Clear, TurnOn
    <3>2. more <=> folder # "none"
      OBVIOUS
    <3> HIDE DEF more
    <3> QED BY <2>0, <2>1, <2>3, <3>1, <3>2 DEF SwitchTyped, Tasks, Pcs
  <2> QED BY <2>2, <2>3
<1>1. SwitchTyped'
  BY <1>d, IdleOp, NoMessage DEF Clearing, SwitchTyped
<1>2. TaskFits'
  BY <1>d, IdleOp, NoMessage DEF Clearing, TaskFits, SwitchTyped
<1>3. WantedFits'
  BY <1>d, IdleOp, NoMessage DEF Clearing, WantedFits, TaskFits, SwitchTyped
<1>4. OnIsTold'
  BY <1>d, IdleOp, NoMessage DEF Clearing, OnIsTold, TaskFits, PublishFits, SwitchTyped, None
<1>5. Accounted'
  BY <1>d, IdleOp, NoMessage DEF Clearing, Accounted, Lost, SwitchTyped, ClearingFits, PublishFits,
    OnIsTold, TaskFits
<1>6. ClearingFits'
  BY <1>d, IdleOp, NoMessage DEF Clearing, ClearingFits, TaskFits, Lost, Accounted, SwitchTyped,
    PublishFits, OnIsTold, None
<1>7. PublishFits'
  BY <1>d, IdleOp, NoMessage DEF Clearing, PublishFits, TaskFits, ClearingFits, SwitchTyped,
    OnIsTold
<1> QED
  BY <1>d, <1>1, <1>2, <1>3, <1>4, <1>5, <1>6, <1>7

LEMMA PublishKeeps == ASSUME BridgeInv, Publish PROVE BridgeInv'
<1> USE DEF BridgeInv
<1>d. /\ op.at = "publish" /\ up /\ ProcsFit'
      /\ secret' \in Nat /\ respawn' \in BOOLEAN /\ (respawn' => respawn \/ wanted)
      /\ message' \in [uuid : Nat, secret : Nat]
      /\ \/ /\ op'.task = op.task /\ op'.at = "save" /\ op'.saved = message'.uuid
                 /\ message'.uuid # 0
            /\ (message'.uuid = message.uuid \/ message = None)
         \/ /\ op' = Idle /\ op.task # "on" /\ secret' = secret /\ message' = message
         \/ /\ op'.task = "on" /\ op'.at = "undo" /\ op.task = "on" /\ secret' = secret
                 /\ message' = message
      /\ op' \in Ops
      /\ UNCHANGED <<enabled, uuid, up, child, wanted, procs, bootDue, folder, heard, entry,
           backup, lost, restores>>
  <2>0. /\ op.at = "publish" /\ up
        /\ UNCHANGED <<enabled, uuid, up, child, wanted, procs, bootDue, folder, heard, entry,
             backup, lost, restores>>
    BY DEF Publish, access, Smooth, Fault, bounds
  <2>1. ProcsFit'
    BY <2>0 DEF ProcsFit
  <2>2. CASE /\ EnsureSecret
             /\ message' = [uuid |-> IF message = None THEN NewUuid ELSE message.uuid,
                  secret |-> secret']
             /\ op' = [op EXCEPT !.saved = message'.uuid, !.at = "save"]
             /\ Smooth /\ UNCHANGED respawn
    <3>1. secret' \in Nat
      BY <2>2, SecretIsNew
    <3>2. /\ message' \in [uuid : Nat, secret : Nat] /\ message'.uuid # 0
          /\ (message'.uuid = message.uuid \/ message = None)
      BY <2>2, <3>1, NewIds DEF SwitchTyped, OnIsTold
    <3>3. op' \in Ops /\ op'.task = op.task /\ op'.at = "save" /\ op'.saved = message'.uuid
      BY <2>2, <3>2 DEF SwitchTyped, Pcs
    <3> QED BY <2>0, <2>1, <2>2, <3>1, <3>2, <3>3 DEF SwitchTyped
  <2>3. CASE Fault /\ TryFails(child = 0 /\ wanted) /\ UNCHANGED <<secret, message>>
    <3>1. respawn' = (respawn \/ (op.task # "on" /\ child = 0 /\ wanted))
            /\ op' = IF op.task = "on" THEN At("undo") ELSE Idle
      BY <2>3 DEF TryFails
    <3>2. respawn' \in BOOLEAN /\ (respawn' => respawn \/ wanted)
      BY <3>1
    <3>3. At("undo") \in Ops /\ At("undo").task = op.task /\ At("undo").at = "undo"
      BY AtFits DEF Pcs
    <3> QED BY <2>0, <2>1, <2>3, <3>1, <3>2, <3>3, IdleOp DEF SwitchTyped
  <2> QED BY <2>2, <2>3 DEF Publish
<1>1. SwitchTyped'
  BY <1>d, IdleOp, NoMessage DEF Clearing, SwitchTyped
<1>2. TaskFits'
  BY <1>d, IdleOp, NoMessage DEF Clearing, TaskFits, SwitchTyped
<1>3. WantedFits'
  BY <1>d, IdleOp, NoMessage DEF Clearing, WantedFits, TaskFits, SwitchTyped
<1>4. OnIsTold'
  BY <1>d, IdleOp, NoMessage DEF Clearing, OnIsTold, TaskFits, PublishFits, SwitchTyped, None
<1>5. Accounted'
  BY <1>d, IdleOp, NoMessage DEF Clearing, Accounted, Lost, SwitchTyped, ClearingFits, PublishFits,
    OnIsTold, TaskFits
<1>6. ClearingFits'
  BY <1>d, IdleOp, NoMessage DEF Clearing, ClearingFits, TaskFits, Lost, Accounted, SwitchTyped,
    PublishFits, OnIsTold, None
<1>7. PublishFits'
  BY <1>d, IdleOp, NoMessage DEF Clearing, PublishFits, TaskFits, ClearingFits, SwitchTyped,
    OnIsTold
<1> QED
  BY <1>d, <1>1, <1>2, <1>3, <1>4, <1>5, <1>6, <1>7

LEMMA SavePublishedKeeps == ASSUME BridgeInv, SavePublished PROVE BridgeInv'
<1> USE DEF BridgeInv
<1>d. /\ op.at = "save" /\ up /\ ProcsFit'
      /\ uuid' \in {uuid, op.saved} /\ respawn' \in BOOLEAN /\ (respawn' => respawn \/ wanted)
      /\ enabled' \in BOOLEAN /\ lost' \in BOOLEAN
      /\ \/ /\ op' = Idle /\ uuid' = op.saved /\ (enabled'
                 \/ (op.task = "resume" /\ enabled' = enabled))
         \/ /\ op' = Idle /\ op.task # "on" /\ enabled' = enabled /\ lost' = lost
         \/ /\ op'.task = "on" /\ op'.at = "undo" /\ op.task = "on" /\ enabled' = enabled
            /\ (lost => lost') /\ (uuid' # op.saved => lost')
      /\ op' \in Ops
      /\ UNCHANGED <<secret, up, child, wanted, procs, bootDue, folder, message, heard, entry,
           backup, restores>>
  <2>0. /\ op.at = "save" /\ up
        /\ UNCHANGED <<secret, up, child, wanted, procs, bootDue, folder, message, heard, entry,
             backup, restores>>
    BY DEF SavePublished, access, Smooth, Fault, bounds, home
  <2>1. ProcsFit'
    BY <2>0 DEF ProcsFit
  <2>2. CASE /\ uuid' = op.saved /\ enabled' = (enabled \/ op.task # "resume")
             /\ op' = Idle /\ lost' = FALSE /\ Smooth /\ UNCHANGED respawn
    <3>1. enabled' \in BOOLEAN /\ (enabled' \/ (op.task = "resume" /\ enabled' = enabled))
      BY <2>2 DEF SwitchTyped
    <3>2. respawn' \in BOOLEAN /\ (respawn' => respawn \/ wanted)
      BY <2>2 DEF SwitchTyped
    <3> QED BY <2>0, <2>1, <2>2, <3>1, <3>2, IdleOp
  <2>3. CASE /\ Fault /\ TryFails(child = 0 /\ wanted)
             /\ uuid' \in {uuid, op.saved} /\ UNCHANGED enabled
             /\ lost' = (lost \/ (op.task = "on" /\ uuid' # op.saved))
    <3>1. respawn' = (respawn \/ (op.task # "on" /\ child = 0 /\ wanted))
            /\ op' = IF op.task = "on" THEN At("undo") ELSE Idle
      BY <2>3 DEF TryFails
    <3>2. respawn' \in BOOLEAN /\ (respawn' => respawn \/ wanted)
      BY <3>1
    <3>3. At("undo") \in Ops /\ At("undo").task = op.task /\ At("undo").at = "undo"
      BY AtFits DEF Pcs
    <3>4. lost' \in BOOLEAN /\ (op.task # "on" => lost' = lost)
            /\ (op.task = "on" => (lost => lost') /\ (uuid' # op.saved => lost'))
      BY <2>3 DEF SwitchTyped
    <3> QED BY <2>0, <2>1, <2>3, <3>1, <3>2, <3>3, <3>4, IdleOp DEF SwitchTyped
  <2> QED BY <2>2, <2>3 DEF SavePublished
<1>1. SwitchTyped'
  BY <1>d, IdleOp, NoMessage DEF Clearing, SwitchTyped
<1>2. TaskFits'
  BY <1>d, IdleOp, NoMessage DEF Clearing, TaskFits, SwitchTyped
<1>3. WantedFits'
  BY <1>d, IdleOp, NoMessage DEF Clearing, WantedFits, TaskFits, SwitchTyped
<1>4. OnIsTold'
  BY <1>d, IdleOp, NoMessage DEF Clearing, OnIsTold, TaskFits, PublishFits, SwitchTyped, None
<1>5. Accounted'
  BY <1>d, IdleOp, NoMessage DEF Clearing, Accounted, Lost, SwitchTyped, ClearingFits, PublishFits,
    OnIsTold, TaskFits
<1>6. ClearingFits'
  BY <1>d, IdleOp, NoMessage DEF Clearing, ClearingFits, TaskFits, Lost, Accounted, SwitchTyped,
    PublishFits, OnIsTold, None
<1>7. PublishFits'
  BY <1>d, IdleOp, NoMessage DEF Clearing, PublishFits, TaskFits, ClearingFits, SwitchTyped,
    OnIsTold
<1> QED
  BY <1>d, <1>1, <1>2, <1>3, <1>4, <1>5, <1>6, <1>7

LEMMA BringUpKeeps == ASSUME BridgeInv, BringUp PROVE BridgeInv'
<1> USE DEF BridgeInv
<1>d. /\ op.at = "up" /\ up /\ ProcsFit'
      /\ secret' \in Nat /\ (secret' = secret \/ (secret = 0 /\ secret' # message.secret))
      /\ respawn' \in BOOLEAN /\ wanted' \in BOOLEAN /\ child' \in Nat
      /\ (child' # 0 \/ respawn' => wanted') /\ lost' \in BOOLEAN /\ (lost => lost')
      /\ (folder' = "none" /\ message.secret # 0 /\ message.uuid # uuid => lost')
      /\ \/ op'.task = op.task /\ op'.at = "publish" /\ folder' = "mine"
         \/ op' = Idle /\ op.task # "on"
         \/ op'.task = "on" /\ op'.at = "undo" /\ op.task = "on"
      /\ folder' \in {folder, "none", "unmarked", "mine"}
      /\ op' \in Ops
      /\ UNCHANGED <<enabled, uuid, up, bootDue, message, heard, entry, backup, restores>>
  <2>0. /\ op.at = "up" /\ up
        /\ UNCHANGED <<enabled, uuid, up, bootDue, message, heard, entry, backup>>
    BY DEF BringUp
  <2>1. lost' = (lost \/ (folder' = "none" /\ Untold(uuid)))
    BY DEF BringUp
  <2>2. lost' \in BOOLEAN /\ (lost => lost') /\ (folder' = "none" /\ message.secret # 0
          /\ message.uuid # uuid => lost')
    BY <2>1, MessageKnown DEF SwitchTyped, Untold
  <2>a. /\ At("undo") \in Ops /\ At("undo").task = op.task /\ At("undo").at = "undo"
        /\ At("publish") \in Ops /\ At("publish").task = op.task /\ At("publish").at = "publish"
    BY AtFits DEF Pcs
  <2>3. CASE EnsureSecret /\ folder' = "mine" /\ Started /\ op' = At("publish") /\ Smooth
    <3>1. wanted' = TRUE /\ child' \in Nat /\ child' # 0 /\ respawn' \in {respawn, FALSE}
            /\ ProcsFit'
      BY <2>3, StartedFits
    <3>2. restores' = restores
      BY <2>3 DEF Smooth, bounds
    <3> QED BY <2>0, <2>2, <2>3, <2>a, <3>1, <3>2, SecretIsNew DEF SwitchTyped
  <2>4. CASE /\ \/ UNCHANGED <<secret, folder>>
                \/ EnsureSecret /\ folder' \in {folder, "none", "unmarked"}
             /\ Fault /\ TryFails(child = 0 /\ wanted)
             /\ UNCHANGED <<registry, relay, child, wanted, procs>>
    <3>1. respawn' = (respawn \/ (op.task # "on" /\ child = 0 /\ wanted))
            /\ op' = IF op.task = "on" THEN At("undo") ELSE Idle
      BY <2>4 DEF TryFails
    <3>2. respawn' \in BOOLEAN /\ (child' # 0 \/ respawn' => wanted')
      BY <2>4, <3>1 DEF WantedFits
    <3>3. ProcsFit' /\ restores' = restores
      BY <2>4 DEF ProcsFit, Fault
    <3>4. /\ secret' \in Nat /\ (secret' = secret \/ (secret = 0 /\ secret' # message.secret))
               /\ folder' \in {folder, "none", "unmarked", "mine"}
      BY <2>4, SecretIsNew DEF SwitchTyped
    <3>5. /\ \/ op' = Idle /\ op.task # "on"
             \/ op'.task = "on" /\ op'.at = "undo" /\ op.task = "on"
          /\ op' \in Ops
      BY <3>1, <2>a, IdleOp
    <3>6. UNCHANGED <<wanted, child>> /\ wanted \in BOOLEAN /\ child \in Nat
      BY <2>4 DEF SwitchTyped
    <3> QED BY <2>0, <2>2, <3>2, <3>3, <3>4, <3>5, <3>6
  <2>5. CASE /\ EnsureSecret /\ folder' = "mine" /\ NotStarted(op.task # "on")
             /\ op' = IF op.task = "on" THEN At("undo") ELSE Idle
    <3>1. wanted' = TRUE /\ UNCHANGED <<child, procs>> /\ restores' = restores
      BY <2>5 DEF NotStarted, Smooth, Fault, bounds
    <3>2. respawn' = (respawn \/ (op.task # "on"))
      BY <2>5 DEF NotStarted, Retry
    <3>3. respawn' \in BOOLEAN
      BY <3>2
    <3>4. ProcsFit'
      BY <3>1 DEF ProcsFit
    <3>5. /\ \/ op' = Idle /\ op.task # "on"
             \/ op'.task = "on" /\ op'.at = "undo" /\ op.task = "on"
          /\ op' \in Ops
      BY <2>5, <2>a, IdleOp
    <3>6. child \in Nat
      BY DEF SwitchTyped
    <3>7. secret' \in Nat /\ (secret' = secret \/ (secret = 0 /\ secret' # message.secret))
      BY <2>5, SecretIsNew
    <3> QED BY <2>0, <2>2, <2>5, <3>1, <3>3, <3>4, <3>5, <3>6, <3>7
  <2> QED BY <2>3, <2>4, <2>5 DEF BringUp
<1>1. SwitchTyped'
  BY <1>d, IdleOp, NoMessage DEF Clearing, SwitchTyped
<1>2. TaskFits'
  BY <1>d, IdleOp, NoMessage DEF Clearing, TaskFits, SwitchTyped
<1>3. WantedFits'
  BY <1>d, IdleOp, NoMessage DEF Clearing, WantedFits, TaskFits, SwitchTyped
<1>4. OnIsTold'
  BY <1>d, IdleOp, NoMessage DEF Clearing, OnIsTold, TaskFits, PublishFits, SwitchTyped, None
<1>5. Accounted'
  BY <1>d, IdleOp, NoMessage DEF Clearing, Accounted, Lost, SwitchTyped, ClearingFits, PublishFits,
    OnIsTold, TaskFits
<1>6. ClearingFits'
  BY <1>d, IdleOp, NoMessage DEF Clearing, ClearingFits, TaskFits, Lost, Accounted, SwitchTyped,
    PublishFits, OnIsTold, None
<1>7. PublishFits'
  BY <1>d, IdleOp, NoMessage DEF Clearing, PublishFits, TaskFits, ClearingFits, SwitchTyped,
    OnIsTold
<1> QED
  BY <1>d, <1>1, <1>2, <1>3, <1>4, <1>5, <1>6, <1>7

LEMMA BootOnKeeps ==
  ASSUME BridgeInv, Boot, ~((enabled /\ folder = "none") \/ (~enabled /\ Leftover)) PROVE BridgeInv'
<1> USE DEF BridgeInv
<1>d. /\ op = Idle /\ up /\ ProcsFit' /\ bootDue' = FALSE
      /\ respawn' \in BOOLEAN /\ wanted' \in BOOLEAN /\ child' \in Nat
      /\ (child' # 0 \/ respawn' => wanted') /\ (wanted' => wanted \/ enabled)
      /\ \/ enabled /\ op'.task = "resume" /\ op'.at = "publish" /\ folder # "none"
         \/ op' = Idle
      /\ op' \in Ops
      /\ UNCHANGED <<enabled, uuid, secret, up, folder, message, heard, entry, backup, lost,
           restores>>
  <2>0. /\ op = Idle /\ up /\ bootDue' = FALSE
        /\ UNCHANGED <<enabled, uuid, secret, up, folder, message, heard, entry, backup, lost>>
    BY DEF Boot, Free, home
  <2>1. CASE ~enabled /\ UNCHANGED <<registry, relay, bridge, op, faults, restores>>
    <3>1. UNCHANGED <<child, wanted, respawn, procs, op, restores>>
      BY <2>1 DEF bridge
    <3>2. ProcsFit'
      BY <3>1 DEF ProcsFit
    <3> QED BY <2>0, <3>1, <3>2, IdleOp DEF SwitchTyped, WantedFits
  <2>2. CASE enabled /\ Started /\ op' = [Idle EXCEPT !.task = "resume", !.at = "publish"]
               /\ UNCHANGED <<faults, restores>>
    <3>1. wanted' = TRUE /\ child' \in Nat /\ child' # 0 /\ respawn' \in {respawn, FALSE}
            /\ ProcsFit'
      BY <2>2, StartedFits
    <3>2. op'.task = "resume" /\ op'.at = "publish" /\ op' \in Ops
      BY <2>2 DEF Idle, Tasks, Pcs
    <3>3. folder # "none"
      BY <2>2
    <3> QED BY <2>0, <2>2, <3>1, <3>2, <3>3 DEF SwitchTyped
  <2>3. CASE enabled /\ NotStarted(TRUE) /\ op' = Idle
    <3>1. wanted' = TRUE /\ UNCHANGED <<child, procs>> /\ restores' = restores
      BY <2>3 DEF NotStarted, Smooth, Fault, bounds
    <3>2. respawn' = (respawn \/ TRUE)
      BY <2>3 DEF NotStarted, Retry
    <3>3. ProcsFit'
      BY <3>1 DEF ProcsFit
    <3> QED BY <2>0, <2>3, <3>1, <3>2, <3>3, IdleOp DEF SwitchTyped
  <2> QED BY <2>1, <2>2, <2>3 DEF Boot
<1>1. SwitchTyped'
  BY <1>d, IdleOp, NoMessage DEF Clearing, SwitchTyped
<1>2. TaskFits'
  BY <1>d, IdleOp, NoMessage DEF Clearing, TaskFits, SwitchTyped
<1>3. WantedFits'
  BY <1>d, IdleOp, NoMessage DEF Clearing, WantedFits, TaskFits, SwitchTyped
<1>4. OnIsTold'
  BY <1>d, IdleOp, NoMessage DEF Clearing, OnIsTold, TaskFits, PublishFits, SwitchTyped, None
<1>5. Accounted'
  BY <1>d, IdleOp, NoMessage DEF Clearing, Accounted, Lost, SwitchTyped, ClearingFits, PublishFits,
    OnIsTold, TaskFits
<1>6. ClearingFits'
  BY <1>d, IdleOp, NoMessage DEF Clearing, ClearingFits, TaskFits, Lost, Accounted, SwitchTyped,
    PublishFits, OnIsTold, None
<1>7. PublishFits'
  BY <1>d, IdleOp, NoMessage DEF Clearing, PublishFits, TaskFits, ClearingFits, SwitchTyped,
    OnIsTold
<1> QED
  BY <1>d, <1>1, <1>2, <1>3, <1>4, <1>5, <1>6, <1>7

LEMMA BootKeeps == ASSUME BridgeInv, Boot PROVE BridgeInv'
<1>1. CASE (enabled /\ folder = "none") \/ (~enabled /\ Leftover)
  BY <1>1, OffKeeps DEF Boot, Free
<1> QED BY <1>1, BootOnKeeps

LEMMA BridgeInit == Init => BridgeInv
<1> SUFFICES ASSUME Init PROVE BridgeInv
  OBVIOUS
<1>1. SwitchTyped
  BY IdleOp, NoMessage DEF Init, SwitchTyped
<1>2. ProcsFit
  BY FS_EmptySet DEF Init, ProcsFit
<1>3. TaskFits /\ WantedFits /\ OnIsTold /\ Accounted /\ ClearingFits /\ PublishFits
  BY IdleOp, NoMessage DEF Init, TaskFits, WantedFits, OnIsTold, Accounted, ClearingFits,
    PublishFits, Clearing
<1> QED BY <1>1, <1>2, <1>3 DEF BridgeInv

LEMMA BridgeStays == ASSUME BridgeInv, UNCHANGED vars PROVE BridgeInv'
<1> USE DEF BridgeInv, vars, files, access, bridge, home, bounds
<1>1. SwitchTyped'
  BY DEF SwitchTyped
<1>2. ProcsFit'
  BY DEF ProcsFit
<1>3. TaskFits' /\ WantedFits' /\ OnIsTold'
  BY DEF TaskFits, WantedFits, OnIsTold, Clearing, Idle, None
<1>4. Accounted' /\ ClearingFits' /\ PublishFits'
  BY DEF Accounted, ClearingFits, PublishFits, Lost
<1> QED BY <1>1, <1>2, <1>3, <1>4

LEMMA BridgeNext == ASSUME BridgeInv, [Next]_vars PROVE BridgeInv'
BY ReadEntriesKeeps, DropMessageKeeps, NameMessageKeeps, ForgetMessageKeeps, ListEntriesKeeps,
   RemoveEntryKeeps, CheckEntriesKeeps, ClearCallFailsKeeps, FinishKeeps, HearKeeps, SetUpKeeps,
   DropEntryKeeps, RestartHomeKeeps, TakeBackupKeeps, RestoreDataKeeps, RestoreHomeKeeps,
     CrashKeeps,
   StartKeeps, RespawnKeeps, ExitKeeps, ResetKeeps, TurnOffKeeps, UndoKeeps, TurnOnKeeps,
     PublishKeeps,
   SavePublishedKeeps, BringUpKeeps, BootKeeps, BridgeStays DEF Next, Step

-----------------------------------------------------------------------------
(* The users and their links *)

\* The change that holds the lock is about to write, from the links as they are.
WriterFits ==
  /\ writer # Who!NoWriter =>
       writer.user \in Users /\ jobs[writer.user].at = "write" /\ writer.copy = links
  /\ \A u \in Users : jobs[u].at = "write" => writer.user = u

\* Who left the list with a link has it still.
StaleLinked == \A u \in stale : links[u] # NoOne

\* A save that waits before its write drops the old links of whom it puts back.
WaitsForDrops == \A t \in Tabs : saves[t].at = "before"
  => saves[t].want \cap stale \subseteq saves[t].todo

LinksInv == Who!UsersTypeOK /\ WriterFits /\ StaleLinked

OnePage == \A s, t \in Tabs : s = t

SaveSet == [at : {"idle", "before", "after"}, want : SUBSET Users, linked : SUBSET Users,
                         todo : SUBSET Users, call : Users \cup {NoOne}]

LEMMA Consts ==
  Who!NoJob \in Who!Job /\ Who!NoSave \in SaveSet /\ Who!NoWriter \in [user : Users \cup {NoOne},
    copy : [Users -> Who!Link]]
                /\ Who!NoJob.at = "idle" /\ Who!NoWriter.user = NoOne /\ Who!NoSave.at = "idle"
BY DEF Who!NoJob, Who!Job, Who!NoSave, SaveSet, Who!NoWriter, Who!Link

LEMMA LinksInit ==
  ASSUME Who!UsersAssumption, Who!Init PROVE LinksInv /\ Who!NoOldLink /\ WaitsForDrops
<1>1. Who!UsersTypeOK
  BY Consts DEF Who!Init, Who!UsersTypeOK, SaveSet, Who!Link
<1>2. WriterFits
  BY Consts DEF Who!Init, WriterFits
<1>3. StaleLinked /\ Who!NoOldLink /\ WaitsForDrops
  BY DEF Who!Init, StaleLinked, Who!NoOldLink, WaitsForDrops
<1> QED BY <1>1, <1>2, <1>3 DEF LinksInv

\* What an answer does to the saves.
LEMMA AnswerFits ==
  ASSUME Who!UsersTypeOK, NEW u \in Users, NEW done \in BOOLEAN, Who!Answer(u, done)
  PROVE  /\ saves' \in [Tabs -> SaveSet]
         /\ \A t \in Tabs : saves'[t].at = "before" =>
              /\ saves[t].at = "before" /\ saves'[t].want = saves[t].want
              /\ saves'[t].todo = saves[t].todo \/ (done /\ saves'[t].todo = saves[t].todo \ {u})
<1> DEFINE t == jobs[u].tab
<1>t. t \in Tabs \cup {NoOne} /\ saves \in [Tabs -> SaveSet]
  BY DEF Who!UsersTypeOK, Who!Job, SaveSet
<1>1. CASE t = NoOne \/ saves[t].call # u
  BY <1>1, <1>t DEF Who!Answer
<1>2. CASE ~(t = NoOne \/ saves[t].call # u) /\ (done \/ saves[t].at = "after")
  <2>1. t \in Tabs /\ saves' = [saves EXCEPT ![t].call = NoOne, ![t].todo = @ \ {u}]
    BY <1>2, <1>t DEF Who!Answer
  <2>2. saves[t] \in SaveSet
    BY <1>t, <2>1
  <2>3. [saves[t] EXCEPT !.call = NoOne, !.todo = @ \ {u}] \in SaveSet
    BY <2>2 DEF SaveSet
  <2>4. saves' = [saves EXCEPT ![t] = [saves[t] EXCEPT !.call = NoOne, !.todo = @ \ {u}]]
    BY <1>t, <2>1
  <2> HIDE DEF t
  <2>5. saves' \in [Tabs -> SaveSet] 
    BY <1>t, <2>1, <2>3, <2>4
  <2>6. saves'[t].at = saves[t].at /\ saves'[t].want = saves[t].want
          /\ saves'[t].todo = saves[t].todo \ {u}
    BY <1>t, <2>1, <2>2, <2>4 DEF SaveSet
  <2>7. \A s \in Tabs : s # t => saves'[s] = saves[s]
    BY <1>t, <2>1
  <2> QED BY <2>5, <2>6, <2>7, <1>2
<1>3. CASE ~(t = NoOne \/ saves[t].call # u) /\ ~(done \/ saves[t].at = "after")
  <2>1. t \in Tabs /\ saves' = [saves EXCEPT ![t] = Who!NoSave]
    BY <1>3, <1>t DEF Who!Answer
  <2> HIDE DEF t
  <2> QED BY <2>1, <1>t, Consts
<1> QED BY <1>1, <1>2, <1>3

\* A user's change moves on or ends, the links and the list stay.
LEMMA JobKeeps ==
  ASSUME Who!UsersAssumption, LinksInv, NEW u \in Users, NEW j \in Who!Job, j.at # "write",
           jobs[u].at # "write",
         jobs' = [jobs EXCEPT ![u] = j], UNCHANGED <<allowed, links, gone, writer, stale>>,
         saves' \in [Tabs -> SaveSet]
  PROVE  LinksInv'
<1>1. Who!UsersTypeOK'
  BY DEF LinksInv, Who!UsersTypeOK, SaveSet
<1>2. WriterFits'
  <2>1. \A v \in Users : jobs'[v] = IF v = u THEN j ELSE jobs[v]
    BY DEF LinksInv, Who!UsersTypeOK
  <2>2. Who!NoWriter' = Who!NoWriter
    BY DEF Who!NoWriter
  <2> QED BY <2>1, <2>2 DEF LinksInv, WriterFits
<1> QED BY <1>1, <1>2 DEF LinksInv, StaleLinked

LEMMA BeginKeeps ==
  ASSUME Who!UsersAssumption, LinksInv, NEW u \in Users, NEW do \in {"adopt", "move", "stop"},
         NEW pc \in {"checks", "new", "old"}, NEW new \in Who!Link, Who!Begin(u, do, pc, new)
  PROVE  LinksInv' /\ UNCHANGED <<allowed, links, stale, saves>>
<1> DEFINE j == [do |-> do, at |-> pc, old |-> links[u], new |-> new, tab |-> NoOne]
<1>1. j \in Who!Job /\ j.at # "write"
  BY DEF LinksInv, Who!UsersTypeOK, Who!Job, Who!Link
<1>2. jobs[u].at # "write"
  BY Consts DEF Who!Begin, Who!Running
<1>3. jobs' = [jobs EXCEPT ![u] = j] /\ UNCHANGED <<allowed, links, gone, writer, stale, saves>>
  BY DEF Who!Begin
<1>4. saves' \in [Tabs -> SaveSet]
  BY <1>3 DEF LinksInv, Who!UsersTypeOK, SaveSet
<1> HIDE DEF j
<1> QED BY <1>1, <1>2, <1>3, <1>4, JobKeeps

\* What a job step that writes nothing does.
LEMMA QuietStep ==
  ASSUME Who!UsersAssumption, LinksInv, NEW u \in Users, jobs[u].at # "write",
         NEW pc \in {"again", "new", "checks"},
         Who!To(u, pc) \/ Who!End(u, FALSE), UNCHANGED <<allowed, links, gone, writer, stale>>
  PROVE  /\ LinksInv' 
         /\ \A t \in Tabs : saves'[t].at = "before" =>
              /\ saves[t].at = "before" /\ saves'[t].want = saves[t].want
              /\ saves'[t].todo = saves[t].todo
<1>1. CASE Who!To(u, pc)
  <2> DEFINE j == [jobs[u] EXCEPT !.at = pc]
  <2>1. j \in Who!Job /\ j.at # "write"
    <3>1. jobs[u] \in Who!Job
      BY DEF LinksInv, Who!UsersTypeOK
    <3> QED
      BY <3>1 DEF Who!Job
  <2>2. jobs' = [jobs EXCEPT ![u] = j] /\ UNCHANGED saves
    BY <1>1 DEF Who!To
  <2>3. saves' \in [Tabs -> SaveSet]
    BY <2>2 DEF LinksInv, Who!UsersTypeOK, SaveSet
  <2> HIDE DEF j
  <2> QED BY <2>1, <2>2, <2>3, JobKeeps
<1>2. CASE Who!End(u, FALSE)
  <2>1. jobs' = [jobs EXCEPT ![u] = Who!NoJob] /\ Who!Answer(u, FALSE)
    BY <1>2 DEF Who!End, Who!Over
  <2>2. Who!UsersTypeOK
    BY DEF LinksInv
  <2>3. saves' \in [Tabs -> SaveSet] /\ \A t \in Tabs : saves'[t].at = "before" =>
              /\ saves[t].at = "before" /\ saves'[t].want = saves[t].want
              /\ saves'[t].todo = saves[t].todo
    BY <2>1, <2>2, AnswerFits
  <2> QED BY <2>1, <2>3, Consts, JobKeeps
<1> QED BY <1>1, <1>2

LEMMA CheckLinkKeeps ==
  ASSUME Who!UsersAssumption, LinksInv, NEW u \in Users, Who!CheckLink(u)
  PROVE  /\ LinksInv' /\ UNCHANGED <<allowed, links, stale>>
         /\ \A t \in Tabs : saves'[t].at = "before" =>
              /\ saves[t].at = "before" /\ saves'[t].want = saves[t].want
              /\ saves'[t].todo = saves[t].todo
<1>1. CASE Who!To(u, "write") /\ writer' = [user |-> u, copy |-> links]
  <2> DEFINE j == [jobs[u] EXCEPT !.at = "write"]
  <2>1. j \in Who!Job /\ j.at = "write"
    BY DEF LinksInv, Who!UsersTypeOK, Who!Job
  <2>2. jobs' = [jobs EXCEPT ![u] = j] /\ UNCHANGED <<allowed, links, gone, stale, saves>>
          /\ writer = Who!NoWriter
    BY <1>1 DEF Who!To, Who!CheckLink, Who!Unlocked
  <2> HIDE DEF j
  <2>3. Who!UsersTypeOK'
    BY <1>1, <2>1, <2>2 DEF LinksInv, Who!UsersTypeOK
  <2>4. \A v \in Users : jobs'[v] = IF v = u THEN j ELSE jobs[v]
    BY <2>2 DEF LinksInv, Who!UsersTypeOK
  <2>5. \A v \in Users : jobs[v].at # "write"
    BY <2>2, Consts DEF LinksInv, WriterFits, Who!UsersAssumption
  <2>6. WriterFits'
    BY <1>1, <2>1, <2>2, <2>4, <2>5 DEF WriterFits
  <2> QED BY <2>2, <2>3, <2>6 DEF LinksInv, StaleLinked
<1>2. CASE Who!End(u, FALSE) /\ UNCHANGED writer
  <2>1. jobs[u].at # "write" /\ UNCHANGED <<allowed, links, gone, stale>>
    BY DEF Who!CheckLink
  <2> QED BY <1>2, <2>1, QuietStep
<1> QED BY <1>1, <1>2 DEF Who!CheckLink

LEMMA WriteLinkKeeps ==
  ASSUME Who!UsersAssumption, LinksInv, NEW u \in Users, Who!WriteLink(u)
  PROVE  /\ LinksInv' /\ UNCHANGED allowed /\ jobs[u].at = "write"
         /\ \/ links' = [links EXCEPT ![u] = jobs[u].new] /\ stale' = stale \ {u}
            \/ UNCHANGED <<links, stale>>
         /\ \A t \in Tabs : saves'[t].at = "before" =>
              /\ saves[t].at = "before" /\ saves'[t].want = saves[t].want
              /\ saves[t].todo \cap stale' \subseteq saves'[t].todo
<1>t. Who!UsersTypeOK /\ jobs[u].at = "write"
  BY DEF LinksInv, Who!WriteLink
<1>1. writer.user = u /\ writer.copy = links
  <2>1. writer.user = u
    BY <1>t DEF LinksInv, WriterFits
  <2> QED BY <2>1, Consts DEF LinksInv, WriterFits, Who!UsersAssumption
<1>2. jobs' = [jobs EXCEPT ![u] = Who!NoJob] /\ writer' = Who!NoWriter
        /\ UNCHANGED <<allowed, gone>>
  BY DEF Who!WriteLink, Who!End, Who!Over
<1>3. \/ links' = [links EXCEPT ![u] = jobs[u].new] /\ stale' = stale \ {u} /\ Who!Answer(u, TRUE)
      \/ UNCHANGED <<links, stale>> /\ Who!Answer(u, FALSE)
  BY <1>1 DEF Who!WriteLink, Who!End
<1>4. /\ saves' \in [Tabs -> SaveSet]
      /\ \A t \in Tabs : saves'[t].at = "before" =>
              /\ saves[t].at = "before" /\ saves'[t].want = saves[t].want
              /\ saves[t].todo \cap stale' \subseteq saves'[t].todo
  BY <1>3, <1>t, AnswerFits
<1>5. jobs[u].new \in Who!Link
  BY <1>t DEF Who!UsersTypeOK, Who!Job
<1>6. Who!UsersTypeOK'
  BY <1>t, <1>2, <1>3, <1>4, <1>5, Consts DEF Who!UsersTypeOK, SaveSet
<1>7. WriterFits'
  <2>1. \A v \in Users : jobs'[v] = IF v = u THEN Who!NoJob ELSE jobs[v]
    BY <1>2, <1>t DEF Who!UsersTypeOK
  <2>2. \A v \in Users : v # u => jobs[v].at # "write"
    BY <1>1 DEF LinksInv, WriterFits
  <2>3. Who!NoWriter' = Who!NoWriter
    BY DEF Who!NoWriter
  <2> QED BY <1>2, <2>1, <2>2, <2>3, Consts DEF WriterFits
<1>8. StaleLinked'
  BY <1>3, <1>t DEF LinksInv, StaleLinked, Who!UsersTypeOK
<1> QED BY <1>t, <1>2, <1>3, <1>4, <1>6, <1>7, <1>8 DEF LinksInv

\* The steps of a change, and its start: the list stays, a link that goes takes its history along.
LEMMA JobsKeep ==
  ASSUME Who!UsersAssumption, LinksInv, NEW u \in Users,
         Who!JobStep(u) \/ Who!Stop(u) \/ (\E p \in Phones : Who!Adopt(u, p) \/ Who!Move(u, p))
  PROVE  /\ LinksInv' /\ UNCHANGED allowed
         /\ \/ links' = [links EXCEPT ![u] = jobs[u].new] /\ stale' = stale \ {u}
                 /\ jobs[u].at = "write"
            \/ UNCHANGED <<links, stale>>
         /\ \A t \in Tabs : saves'[t].at = "before" =>
              /\ saves[t].at = "before" /\ saves'[t].want = saves[t].want
              /\ saves[t].todo \cap stale' \subseteq saves'[t].todo
<1>1. CASE Who!Asked(u)
  <2>1. jobs[u].at # "write" /\ UNCHANGED <<allowed, links, gone, writer, stale>>
        /\ (Who!To(u, "again") \/ Who!To(u, "checks") \/ Who!End(u, FALSE))
    BY <1>1 DEF Who!Asked
  <2> QED BY <2>1, QuietStep
<1>2. CASE Who!AskedAgain(u)
  <2>1. jobs[u].at # "write" /\ UNCHANGED <<allowed, links, gone, writer, stale>>
        /\ (Who!To(u, "new") \/ Who!To(u, "checks") \/ Who!End(u, FALSE))
    BY <1>2 DEF Who!AskedAgain
  <2> QED BY <2>1, QuietStep
<1>3. CASE Who!CheckLink(u)
  BY <1>3, CheckLinkKeeps
<1>4. CASE Who!WriteLink(u)
  BY <1>4, WriteLinkKeeps
<1>5. CASE Who!Stop(u)
  BY <1>5, BeginKeeps DEF Who!Stop, Who!Link
<1>6. ASSUME NEW p \in Phones, Who!Adopt(u, p) \/ Who!Move(u, p)
      PROVE LinksInv' /\ UNCHANGED <<allowed, links, stale, saves>>
  BY <1>6, BeginKeeps DEF Who!Adopt, Who!Move, Who!Link
<1> QED BY <1>1, <1>2, <1>3, <1>4, <1>5, <1>6 DEF Who!JobStep

-----------------------------------------------------------------------------

\* A save changes the saves alone.
LEMMA SavesKeep ==
  ASSUME Who!UsersAssumption, LinksInv, saves' \in [Tabs -> SaveSet],
         UNCHANGED <<allowed, links, gone, jobs, writer, stale>>
  PROVE  LinksInv'
<1>1. Who!UsersTypeOK'
  BY DEF LinksInv, Who!UsersTypeOK, SaveSet
<1>2. WriterFits'
  BY DEF LinksInv, WriterFits, Who!NoWriter
<1> QED BY <1>1, <1>2 DEF LinksInv, StaleLinked

LEMMA ListKeeps ==
  ASSUME Who!UsersAssumption, LinksInv, NEW t \in Tabs, NEW want \in SUBSET Users,
           NEW linked \in SUBSET Users,
         Who!WriteList(t, want, linked), UNCHANGED <<links, gone, jobs, writer>>
  PROVE  /\ LinksInv' /\ allowed' = want /\ stale' \cap want = stale \cap want
         /\ saves'[t].at = "after"
         /\ \A s \in Tabs : s # t => saves'[s] = saves[s]
<1> DEFINE s == [Who!NoSave EXCEPT !.at = "after", !.todo = linked \ want]
<1>1. s \in SaveSet /\ s.at = "after"
  BY DEF SaveSet, Who!NoSave
<1>2. saves' = [saves EXCEPT ![t] = s] /\ saves \in [Tabs -> SaveSet]
  BY DEF Who!WriteList, LinksInv, Who!UsersTypeOK, SaveSet
<1> HIDE DEF s
<1>3. /\ saves' \in [Tabs -> SaveSet] /\ saves'[t].at = "after"
      /\ \A x \in Tabs : x # t => saves'[x] = saves[x]
  BY <1>1, <1>2
<1>4. /\ allowed' = want /\ stale' = stale \cup {u \in allowed \ want : links[u] # NoOne}
  BY DEF Who!WriteList
<1>5. Who!UsersTypeOK'
  BY <1>3, <1>4 DEF LinksInv, Who!UsersTypeOK, SaveSet
<1>6. WriterFits'
  BY DEF LinksInv, WriterFits, Who!NoWriter
<1>7. StaleLinked'
  BY <1>4 DEF LinksInv, StaleLinked
<1> QED BY <1>3, <1>4, <1>5, <1>6, <1>7 DEF LinksInv

LEMMA SaveSetFacts ==
  ASSUME LinksInv, NEW t \in Tabs
  PROVE  /\ saves \in [Tabs -> SaveSet] /\ saves[t] \in SaveSet
         /\ saves[t].want \in SUBSET Users /\ saves[t].linked \in SUBSET Users
              /\ saves[t].todo \in SUBSET Users
         /\ Who!NoSave \in SaveSet
         /\ \A u \in Users : [saves[t] EXCEPT !.todo = @ \ {u}] \in SaveSet
         /\ \A c \in Users \cup {NoOne} : [saves[t] EXCEPT !.call = c] \in SaveSet
         /\ \A c \in Users \cup {NoOne}, u \in Users \cup {NoOne} :
              [saves[t] EXCEPT !.call = c, !.todo = @ \ {u}] \in SaveSet
BY Consts DEF LinksInv, Who!UsersTypeOK, SaveSet

\* What a step of the pages does to the saves that wait before their write.
Waits ==
  \A t \in Tabs : saves'[t].at = "before" =>
     saves[t].at = "before" /\ saves'[t].want = saves[t].want /\ saves'[t].todo = saves[t].todo

LEMMA DropKeeps ==
  ASSUME Who!UsersAssumption, LinksInv, NEW t \in Tabs, NEW u \in Users, Who!Drop(t, u)
  PROVE  LinksInv' /\ Waits /\ UNCHANGED <<allowed, links, stale>>
<1>f. /\ saves \in [Tabs -> SaveSet] /\ saves[t] \in SaveSet /\ Who!NoSave \in SaveSet
      /\ [saves[t] EXCEPT !.todo = @ \ {u}] \in SaveSet
      /\ [saves[t] EXCEPT !.call = u] \in SaveSet
  BY SaveSetFacts
<1>1. CASE ~Who!Running(u) /\ u \notin allowed
  <2> DEFINE j == [do |-> "drop", at |-> "checks", old |-> links[u], new |-> NoOne, tab |-> t]
             s == [saves[t] EXCEPT !.call = u]
  <2>1. j \in Who!Job /\ j.at # "write" /\ jobs[u].at # "write"
    BY <1>1, Consts DEF LinksInv, Who!UsersTypeOK, Who!Job, Who!Link, Who!Running
  <2>2. s \in SaveSet /\ s.at = saves[t].at /\ s.want = saves[t].want /\ s.todo = saves[t].todo
    BY <1>f DEF SaveSet
  <2>3. jobs' = [jobs EXCEPT ![u] = j] /\ saves' = [saves EXCEPT ![t] = s]
        /\ UNCHANGED <<allowed, links, gone, writer, stale>>
    BY <1>1, <1>f DEF Who!Drop
  <2> HIDE DEF j, s
  <2>4. saves' \in [Tabs -> SaveSet] /\ Waits
    BY <1>f, <2>2, <2>3 DEF Waits
  <2> QED BY <2>1, <2>3, <2>4, JobKeeps
<1>2. CASE ~(~Who!Running(u) /\ u \notin allowed)
  <2> DEFINE s == [saves[t] EXCEPT !.todo = @ \ {u}]
  <2>1. /\ saves' = IF saves[t].at = "before" THEN [saves EXCEPT ![t] = Who!NoSave] ELSE [saves EXCEPT ![t] = s]
        /\ UNCHANGED <<allowed, links, gone, jobs, writer, stale>>
    BY <1>2, <1>f DEF Who!Drop
  <2>2. s \in SaveSet /\ s.at = saves[t].at
    BY <1>f DEF SaveSet
  <2> HIDE DEF s
  <2>3. saves' \in [Tabs -> SaveSet] /\ Waits
    BY <1>f, <2>1, <2>2, Consts DEF Waits
  <2> QED BY <2>1, <2>3, SavesKeep
<1> QED BY <1>1, <1>2

LEMMA QuietSaves ==
  ASSUME Who!UsersAssumption, LinksInv, NEW t \in Tabs, Who!DropUnanswered(t) \/ Who!SaveDone(t)
  PROVE  LinksInv' /\ Waits /\ UNCHANGED <<allowed, links, stale>>
<1> DEFINE s == [saves[t] EXCEPT !.call = NoOne, !.todo = @ \ {saves[t].call}]
<1>f. /\ saves \in [Tabs -> SaveSet] /\ saves[t] \in SaveSet /\ Who!NoSave \in SaveSet
      /\ saves[t].call \in Users \cup {NoOne} /\ s \in SaveSet /\ s.at = saves[t].at
  <2>1. saves \in [Tabs -> SaveSet] /\ saves[t] \in SaveSet /\ Who!NoSave \in SaveSet
    BY SaveSetFacts
  <2> QED BY <2>1 DEF SaveSet
<1>1. /\ saves' \in {[saves EXCEPT ![t] = Who!NoSave], [saves EXCEPT ![t] = s]}
      /\ saves' = [saves EXCEPT ![t] = Who!NoSave] \/ saves[t].at # "before"
      /\ UNCHANGED <<allowed, links, gone, jobs, writer, stale>>
  BY <1>f DEF Who!DropUnanswered, Who!SaveDone
<1> HIDE DEF s
<1>2. saves' \in [Tabs -> SaveSet] /\ Waits
  BY <1>f, <1>1, Consts DEF Waits
<1> QED BY <1>1, <1>2, SavesKeep

LEMMA EndsKeep ==
  ASSUME Who!UsersAssumption, LinksInv, Who!BridgeEnds \/ Who!AppEnds
  PROVE  LinksInv' /\ Waits /\ UNCHANGED <<allowed, links, stale>>
<1>1. /\ jobs' = [u \in Users |-> Who!NoJob] /\ writer' = Who!NoWriter
           /\ UNCHANGED <<allowed, links, gone, stale>>
  BY DEF Who!BridgeEnds, Who!AppEnds
<1>2. saves' \in [Tabs -> SaveSet] /\ Waits
  <2>1. CASE Who!AppEnds
    BY <2>1, Consts DEF Who!AppEnds, Waits
  <2>2. CASE Who!BridgeEnds
    <3> DEFINE s(t) == [saves[t] EXCEPT !.call = NoOne, !.todo = @ \ {saves[t].call}]
    <3>1. \A t \in Tabs : s(t) \in SaveSet /\ saves[t] \in SaveSet /\ s(t).at = saves[t].at
      <4> SUFFICES ASSUME NEW t \in Tabs
                   PROVE s(t) \in SaveSet /\ saves[t] \in SaveSet /\ s(t).at = saves[t].at
        OBVIOUS
      <4>1. saves[t] \in SaveSet
        BY SaveSetFacts
      <4> QED BY <4>1 DEF SaveSet
    <3>2. saves' = [t \in Tabs |-> IF saves[t].call = NoOne THEN saves[t]
                      ELSE IF saves[t].at = "before" THEN Who!NoSave ELSE s(t)]
      BY <2>2 DEF Who!BridgeEnds
    <3> HIDE DEF s
    <3> QED BY <3>1, <3>2, Consts DEF Waits
  <2> QED BY <2>1, <2>2
<1>3. Who!UsersTypeOK'
  BY <1>1, <1>2, Consts DEF LinksInv, Who!UsersTypeOK, SaveSet
<1>4. WriterFits'
  BY <1>1, Consts DEF WriterFits, Who!NoWriter
<1> QED BY <1>1, <1>2, <1>3, <1>4 DEF LinksInv, StaleLinked

LEMMA PhoneKeeps ==
  ASSUME Who!UsersAssumption, LinksInv, NEW p \in Phones, Who!PhoneChanges(p)
  PROVE  LinksInv' /\ Waits /\ UNCHANGED <<allowed, links, stale>>
<1>1. gone' \in SUBSET Phones /\ UNCHANGED <<allowed, links, jobs, writer, saves, stale>>
  BY DEF Who!PhoneChanges, LinksInv, Who!UsersTypeOK
<1>2. Who!UsersTypeOK'
  BY <1>1 DEF LinksInv, Who!UsersTypeOK
<1>3. WriterFits' /\ StaleLinked'
  BY <1>1 DEF LinksInv, WriterFits, StaleLinked, Who!NoWriter
<1> QED BY <1>1, <1>2, <1>3 DEF LinksInv, Waits

\* A save that begins: it writes at once, or waits for the drops of everybody it puts back.
LEMMA SaveKeeps ==
  ASSUME Who!UsersAssumption, LinksInv, NEW t \in Tabs, NEW want \in SUBSET Users, Who!Save(t, want)
  PROVE  /\ LinksInv' /\ UNCHANGED links
         /\ \A s \in Tabs : s # t => saves'[s] = saves[s]
         /\ \/ /\ allowed' = want /\ stale' \cap want = stale \cap want
               /\ want \cap stale \subseteq allowed /\ saves'[t].at = "after"
            \/ /\ UNCHANGED <<allowed, stale>> /\ saves'[t].want = want 
               /\ want \cap stale \subseteq allowed \cup saves'[t].todo
<1> DEFINE had == {u \in Users : links[u] # NoOne}
<1>1. PICK readable \in BOOLEAN :
        LET readded == Who!Readded(want, IF readable THEN had ELSE Users)
            after   == IF readable THEN had ELSE allowed
        IN  IF readded = {}
              THEN Who!WriteList(t, want, after)
              ELSE /\ saves' = [saves EXCEPT ![t] =
                                   [at |-> "before", want |-> want, linked |-> after,
                                    todo |-> readded, call |-> NoOne]]
                   /\ UNCHANGED <<allowed, stale>>
  BY DEF Who!Save
<1> DEFINE readded == Who!Readded(want, IF readable THEN had ELSE Users)
           after   == IF readable THEN had ELSE allowed
<1>2. /\ UNCHANGED <<links, gone, jobs, writer>> /\ after \in SUBSET Users
           /\ readded \in SUBSET Users
      /\ want \cap stale \subseteq allowed \cup readded
  <2>1. stale \subseteq had /\ stale \subseteq Users /\ allowed \subseteq Users
    BY DEF LinksInv, StaleLinked, Who!UsersTypeOK
  <2> QED BY <2>1 DEF Who!Save, Who!Readded
<1> DEFINE s == [at |-> "before", want |-> want, linked |-> after, todo |-> readded, call |-> NoOne]
<1>3. CASE readded = {}
  <2>1. Who!WriteList(t, want, after)
    BY <1>1, <1>3
  <2> HIDE DEF after, readded
  <2> QED BY <1>2, <1>3, <2>1, ListKeeps
<1>4. CASE readded # {}
  <2>1. saves' = [saves EXCEPT ![t] = s] /\ UNCHANGED <<allowed, stale>>
    BY <1>1, <1>4
  <2> HIDE DEF after, readded
  <2>2. s \in SaveSet /\ s.want = want /\ s.todo = readded
    BY <1>2 DEF SaveSet
  <2> HIDE DEF s
  <2>3. saves \in [Tabs -> SaveSet]
    BY SaveSetFacts
  <2>4. saves' \in [Tabs -> SaveSet] /\ saves'[t] = s /\ \A x \in Tabs : x # t
          => saves'[x] = saves[x]
    BY <2>1, <2>2, <2>3
  <2> QED BY <1>2, <2>1, <2>2, <2>4, SavesKeep
<1> QED BY <1>3, <1>4

LEMMA SaveOnKeeps ==
  ASSUME Who!UsersAssumption, LinksInv, NEW t \in Tabs, Who!SaveOn(t)
  PROVE  /\ LinksInv' /\ UNCHANGED links /\ saves[t].at = "before" /\ saves[t].todo = {}
         /\ allowed' = saves[t].want /\ stale' \cap saves[t].want = stale \cap saves[t].want
         /\ saves'[t].at = "after"
BY ListKeeps, SaveSetFacts DEF Who!SaveOn

LEMMA LinksNext == ASSUME Who!UsersAssumption, LinksInv, [Who!Next]_(Who!vars) PROVE LinksInv'
<1>1. ASSUME NEW u \in Users, Who!JobStep(u) \/ Who!Stop(u)
               \/ (\E p \in Phones : Who!Adopt(u, p) \/ Who!Move(u, p))
      PROVE  LinksInv'
  BY <1>1, JobsKeep
<1>2. ASSUME NEW t \in Tabs,
             Who!SaveStep(t) \/ Who!DropUnanswered(t)
               \/ (\E want \in SUBSET Users : Who!Save(t, want))
      PROVE  LinksInv'
  BY <1>2, DropKeeps, QuietSaves, SaveKeeps, SaveOnKeeps DEF Who!SaveStep
<1>3. CASE UNCHANGED Who!vars
  BY <1>3 DEF Who!vars, LinksInv, Who!UsersTypeOK, WriterFits, StaleLinked, Who!NoWriter
<1> QED BY <1>1, <1>2, <1>3, EndsKeep, PhoneKeeps DEF Who!Next

LEMMA OldLinksNext ==
  ASSUME Who!UsersAssumption, OnePage, LinksInv, Who!NoOldLink, WaitsForDrops, [Who!Next]_(Who!vars)
  PROVE  Who!NoOldLink' /\ WaitsForDrops'
<1>w. ASSUME Waits, UNCHANGED <<allowed, stale>> PROVE Who!NoOldLink' /\ WaitsForDrops'
  BY <1>w DEF Waits, Who!NoOldLink, WaitsForDrops
<1>1. ASSUME NEW u \in Users, Who!JobStep(u) \/ Who!Stop(u)
               \/ (\E p \in Phones : Who!Adopt(u, p) \/ Who!Move(u, p))
      PROVE  Who!NoOldLink' /\ WaitsForDrops'
  <2>1. stale' \subseteq stale /\ UNCHANGED allowed
        /\ \A t \in Tabs : saves'[t].at = "before" =>
              /\ saves[t].at = "before" /\ saves'[t].want = saves[t].want
              /\ saves[t].todo \cap stale' \subseteq saves'[t].todo
    BY <1>1, JobsKeep
  <2> QED BY <2>1 DEF Who!NoOldLink, WaitsForDrops
<1>2. ASSUME NEW t \in Tabs, NEW want \in SUBSET Users, Who!Save(t, want)
      PROVE Who!NoOldLink' /\ WaitsForDrops'
  <2>1. \A s \in Tabs : s = t
    BY DEF OnePage
  <2> QED BY <1>2, <2>1, SaveKeeps DEF Who!NoOldLink, WaitsForDrops
<1>3. ASSUME NEW t \in Tabs, Who!SaveOn(t) PROVE Who!NoOldLink' /\ WaitsForDrops'
  <2>1. \A s \in Tabs : s = t
    BY DEF OnePage
  <2> QED BY <1>3, <2>1, SaveOnKeeps DEF Who!NoOldLink, WaitsForDrops
<1>4. ASSUME NEW t \in Tabs, (\E u \in Users : Who!Drop(t, u)) \/ Who!SaveDone(t)
               \/ Who!DropUnanswered(t)
      PROVE  Who!NoOldLink' /\ WaitsForDrops'
  BY <1>4, <1>w, DropKeeps, QuietSaves
<1>5. CASE UNCHANGED Who!vars
  BY <1>5 DEF Who!vars, Who!NoOldLink, WaitsForDrops
<1> QED BY <1>1, <1>2, <1>3, <1>4, <1>5, <1>w, EndsKeep, PhoneKeeps DEF Who!Next, Who!SaveStep

LEMMA OwnEntries ==
  ASSUME Who!UsersAssumption, LinksInv, Who!Next
  PROVE  \A u \in Users : links'[u] # links[u] => jobs[u].at = "write" /\ links'[u] = jobs[u].new
<1>1. ASSUME NEW u \in Users, Who!JobStep(u) \/ Who!Stop(u)
               \/ (\E p \in Phones : Who!Adopt(u, p) \/ Who!Move(u, p))
      PROVE  \A v \in Users : links'[v] # links[v] => jobs[v].at = "write"
               /\ links'[v] = jobs[v].new
  <2>1. links \in [Users -> Who!Link]
    BY DEF LinksInv, Who!UsersTypeOK
  <2> QED BY <1>1, <2>1, JobsKeep
<1>2. ASSUME NEW t \in Tabs,
             Who!SaveStep(t) \/ Who!DropUnanswered(t)
               \/ (\E want \in SUBSET Users : Who!Save(t, want))
      PROVE  links' = links
  BY <1>2, DropKeeps, QuietSaves, SaveKeeps, SaveOnKeeps DEF Who!SaveStep
<1> QED BY <1>1, <1>2, EndsKeep, PhoneKeeps DEF Who!Next


-----------------------------------------------------------------------------
(* Window and phone *)

Ended(side) == Vote!AnswerOf(side) \in Vote!WindowAnswers \cup Vote!PhoneAnswers

\* The votes cast so far, in their order.
Queues == {<<>>, <<"window">>, <<"phone">>, <<"window", "phone">>, <<"phone", "window">>}

VoteTyped ==
  /\ surfaces \in SUBSET Vote!Surfaces /\ surfaces # {}
  /\ window \in {"off", "open"} \cup Vote!WindowAnswers
  /\ phone \in {"off", "checking", "sending", "listening"} \cup Vote!PhoneAnswers
  /\ votes \in Queues
  /\ main \in {"asking", "withdrawing", "applying", "telling", "stopping", "done", "killed"}
  /\ got \in SUBSET surfaces /\ first \in Vote!Surfaces \cup {"none"}
  /\ ask \in {"unsent", "flying", "landed", "failed"}
  /\ reply \in [say : {"none", "clear", "nothing", "result"},
                at : {"idle", "due", "going", "over"}]
  /\ screen \in {"blank", "question", "done", "nothing"}
  /\ taps \in Seq({"ok", "no", "foreign"})
  /\ applied \in BOOLEAN /\ gaveUp \in BOOLEAN
  /\ verdict \in {"none", "yes", "no"}

Queued(side) == votes \in {<<side>>, <<"window", "phone">>, <<"phone", "window">>}

\* A surface that was surfaces votes once: its vote is in the channel, or was received.
VotesFit ==
  \A side \in Vote!Surfaces :
    /\ side \in surfaces <=> Vote!AnswerOf(side) # "off"
    /\ side \in surfaces => (Ended(side) <=> Queued(side) \/ side \in got)
    /\ Queued(side) => side \in surfaces /\ side \notin got

Worth(side) == IF ~Vote!Decisive(side, Vote!AnswerOf(side)) THEN "none"
              ELSE IF Vote!AnswerOf(side) = "confirmed" THEN "yes" ELSE "no"

\* What the votes in the channel decide.
Waiting == IF votes = <<>> THEN "none"
           ELSE IF Worth(votes[1]) # "none" \/ Len(votes) = 1 THEN Worth(votes[1])
           ELSE Worth(votes[2])

\* The first decisive vote is the first one that is received.
FirstFits ==
  /\ main = "asking" => first = "none" /\ (\A side \in got : Worth(side) = "none")
       /\ verdict = Waiting
  /\ first # "none" => first \in got /\ Worth(first) # "none" /\ verdict = Worth(first)
  /\ main \in {"withdrawing", "applying", "telling", "stopping", "done"} /\ first = "none" =>
       got = surfaces /\ verdict = "none" /\ \A side \in surfaces : Worth(side) = "none"
  /\ main \in {"applying", "telling", "stopping", "done"} => got = surfaces
  /\ main = "applying" => verdict = "yes" /\ window # "stopped"
  /\ applied => verdict = "yes" /\ window # "stopped" /\ main \in {"telling", "done", "killed"}
  /\ applied => got = surfaces

\* What the phone was told and shows.
ReplyFits ==
  /\ ask = "unsent" => screen = "blank" /\ reply.at \in {"idle", "over"}
  /\ phone \in {"off", "checking", "unread"} => ask = "unsent"
  /\ phone = "sending" => ask # "unsent"
  /\ phone \in {"listening", "confirmed", "declined", "rejected"} => ask = "landed"
  /\ main \in {"asking", "withdrawing"} => reply = [say |-> "none", at |-> "idle"]
  /\ main \in {"applying", "telling", "stopping", "done"} => reply.say # "none"
  /\ main = "done" => reply.at = "over"
  /\ reply.at \in {"going", "over"} /\ ~gaveUp => ask # "flying"
  /\ reply.say = "none" => screen \in {"blank", "question"} /\ reply.at = "idle"
  /\ reply.say = "nothing" => ~applied /\ main # "applying"
  /\ reply.say = "result" => first = "phone" /\ ask # "unsent"
  /\ reply.say = "result" /\ main = "applying" => reply.at = "idle"
  /\ reply.at = "idle" => reply.say \in {"none", "result"}
  /\ reply.say = "result" /\ reply.at = "idle" => main \in {"applying", "killed"}
  /\ reply.say # "none" /\ first = "window" => reply.say = "clear"
  /\ reply.at = "over" /\ ~gaveUp => screen # "question"
       /\ (reply.say = "clear" => screen = "blank")
  /\ screen \in {"done", "nothing"} => reply.at = "over" /\ reply.say # "clear"
  /\ screen = "done" => applied
  /\ screen = "nothing" => ~applied

VoteInv == VoteTyped /\ VotesFit /\ FirstFits /\ ReplyFits

\* A second vote joins the first.
LEMMA TwoVotes == ASSUME NEW a, NEW b PROVE Append(<<a>>, b) = <<a, b>>
<1>1. <<a>> \in Seq({a, b}) /\ Len(<<a>>) = 1
  OBVIOUS
<1>2. /\ Append(<<a>>, b) \in Seq({a, b}) /\ Len(Append(<<a>>, b)) = 2
      /\ Append(<<a>>, b)[1] = a /\ Append(<<a>>, b)[2] = b
  BY <1>1, AppendProperties
<1>3. <<a, b>> \in Seq({a, b}) /\ Len(<<a, b>>) = 2 /\ <<a, b>>[1] = a /\ <<a, b>>[2] = b
  OBVIOUS
<1>4. \A i \in 1..2 : i = 1 \/ i = 2
  OBVIOUS
<1> QED
  BY <1>2, <1>3, <1>4, SeqEqual

\* One more vote in the channel, of a surface that has none there.
LEMMA Joining ==
  ASSUME votes \in Queues, NEW side \in Vote!Surfaces, ~Queued(side), Vote!Cast(side)
  PROVE  \/ votes = <<>> /\ votes' = <<side>>
         \/ side = "window" /\ votes = <<"phone">> /\ votes' = <<"phone", "window">>
         \/ side = "phone" /\ votes = <<"window">> /\ votes' = <<"window", "phone">>
<1>1. side = "window" \/ side = "phone"
  BY DEF Vote!Surfaces
<1>2. votes \in {<<>>, <<"window">>, <<"phone">>}
  BY <1>1 DEF Queues, Queued
<1>3. CASE votes = <<>>
  BY <1>3 DEF Vote!Cast
<1>4. CASE votes = <<"window">>
  <2>1. side = "phone"
    BY <1>1, <1>4 DEF Queued
  <2>2. votes' = <<"window", "phone">>
    BY <2>1, <1>4, TwoVotes DEF Vote!Cast
  <2> QED
    BY <2>1, <2>2, <1>4
<1>5. CASE votes = <<"phone">>
  <2>1. side = "window"
    BY <1>1, <1>5 DEF Queued
  <2>2. votes' = <<"phone", "window">>
    BY <2>1, <1>5, TwoVotes DEF Vote!Cast
  <2> QED
    BY <2>1, <2>2, <1>5
<1> QED
  BY <1>2, <1>3, <1>4, <1>5

\* The oldest one leaves it.
LEMMA Leaving ==
  ASSUME votes \in Queues, votes # <<>>, votes' = Tail(votes)
  PROVE  \/ \E side \in Vote!Surfaces : votes = <<side>> /\ Head(votes) = side /\ votes' = <<>>
         \/ votes = <<"phone", "window">> /\ Head(votes) = "phone" /\ votes' = <<"window">>
         \/ votes = <<"window", "phone">> /\ Head(votes) = "window" /\ votes' = <<"phone">>
<1>1. CASE votes = <<"window">>
  BY <1>1 DEF Vote!Surfaces
<1>2. CASE votes = <<"phone">>
  BY <1>2 DEF Vote!Surfaces
<1>3. CASE votes = <<"phone", "window">>
  BY <1>3
<1>4. CASE votes = <<"window", "phone">>
  BY <1>4
<1> QED
  BY <1>1, <1>2, <1>3, <1>4 DEF Queues

LEMMA VoteInit == Vote!Init => VoteInv
<1> SUFFICES ASSUME Vote!Init PROVE VoteInv
  OBVIOUS
<1> USE DEF Vote!Init, Vote!Surfaces
<1>1. VoteTyped
  <2>1. surfaces \in SUBSET Vote!Surfaces /\ surfaces # {} /\ got \in SUBSET surfaces
          /\ votes \in Queues
    BY DEF Queues
  <2>2. /\ window \in {"off", "open"} \cup Vote!WindowAnswers
        /\ phone \in {"off", "checking", "sending", "listening"} \cup Vote!PhoneAnswers
    OBVIOUS
  <2>3. reply \in [say : {"none", "clear", "nothing", "result"},
                  at : {"idle", "due", "going", "over"}]
    OBVIOUS
  <2>4. taps \in Seq({"ok", "no", "foreign"})
    OBVIOUS
  <2> QED
    BY <2>1, <2>2, <2>3, <2>4 DEF VoteTyped
<1>2. ASSUME NEW side PROVE ~Queued(side) /\ ~(side \in Vote!Surfaces /\ Ended(side))
  BY DEF Queued, Ended, Vote!AnswerOf, Vote!WindowAnswers, Vote!PhoneAnswers
<1>3. VotesFit
  BY <1>2 DEF VotesFit, Vote!AnswerOf
<1>4. FirstFits
  BY DEF FirstFits, Waiting
<1>5. ReplyFits
  BY DEF ReplyFits
<1> QED
  BY <1>1, <1>3, <1>4, <1>5 DEF VoteInv

\* A surface votes: the votes of the other one stay what they are worth.
LEMMA VotingKeeps ==
  ASSUME VoteInv, NEW side \in Vote!Surfaces, NEW other \in Vote!Surfaces, other # side,
         NEW answer, Vote!Running, ~Ended(side), Vote!AnswerOf(side) # "off",
         side = "window" => answer \in Vote!WindowAnswers,
         side = "phone" => answer \in Vote!PhoneAnswers,
         Vote!AnswerOf(side)' = answer, Vote!AnswerOf(other)' = Vote!AnswerOf(other),
         Vote!Vote(side, answer),
         window \in {"off", "open"} \cup Vote!WindowAnswers
  PROVE  /\ main \in {"asking", "withdrawing"} /\ ~applied
         /\ votes' \in Queues /\ VotesFit' /\ FirstFits'
<1> USE DEF VoteInv
<1>1. side \in surfaces /\ ~Queued(side) /\ side \notin got
  BY DEF VotesFit, Queued
<1>2. main \in {"asking", "withdrawing"} /\ ~applied
  BY <1>1 DEF FirstFits, Vote!Running, VoteTyped
<1>3. UNCHANGED <<surfaces, main, got, first, applied>>
  BY DEF Vote!Vote, Vote!command
<1>4. \/ votes = <<>> /\ votes' = <<side>>
      \/ side = "window" /\ votes = <<"phone">> /\ votes' = <<"phone", "window">>
      \/ side = "phone" /\ votes = <<"window">> /\ votes' = <<"window", "phone">>
  BY <1>1, Joining DEF Vote!Vote, VoteTyped
<1>5. votes' \in Queues
  BY <1>4 DEF Queues, Vote!Surfaces
<1>6. /\ Queued(side)' /\ (Queued(other)' <=> Queued(other))
      /\ Ended(side)' /\ (Ended(other)' <=> Ended(other)) /\ answer # "off"
  BY <1>4 DEF Queued, Vote!Surfaces, Ended, Vote!WindowAnswers, Vote!PhoneAnswers
<1>7. VotesFit'
  <2>1. \A x \in Vote!Surfaces : x = side \/ x = other
    BY DEF Vote!Surfaces
  <2> QED
    BY <1>1, <1>3, <1>6, <2>1 DEF VotesFit
<1>8. /\ Worth(other)' = Worth(other)
      /\ Worth(side)' = IF Vote!DecisiveNo(side, answer) THEN "no"
                       ELSE IF answer = "confirmed" THEN "yes" ELSE "none"
  BY DEF Worth, Vote!Decisive, Vote!DecisiveNo, Vote!WindowAnswers, Vote!PhoneAnswers, Vote!Surfaces
<1>9. verdict' = IF verdict # "none" THEN verdict ELSE Worth(side)'
  BY <1>8 DEF Vote!Vote
<1>10. FirstFits'
  <2>1. \A x \in got : x = other
    BY <1>1 DEF VoteTyped, Vote!Surfaces
  <2>2. CASE main = "asking"
    <3>1. first = "none" /\ (\A x \in got : Worth(x)' = "none") /\ verdict = Waiting
      BY <1>8, <2>1, <2>2 DEF FirstFits
    <3>2. Waiting' = IF Waiting # "none" THEN Waiting ELSE Worth(side)'
      <4>1. CASE votes = <<>> /\ votes' = <<side>>
        BY <4>1 DEF Waiting
      <4>2. CASE votes = <<other>> /\ votes' = <<other, side>>
        BY <1>8, <4>2 DEF Waiting
      <4> QED
        BY <1>4, <4>1, <4>2 DEF Vote!Surfaces
    <3> QED
      BY <1>2, <1>3, <1>9, <2>2, <3>1, <3>2 DEF FirstFits
  <2>3. CASE main = "withdrawing"
    <3>1. first \in got /\ Worth(first) # "none" /\ verdict = Worth(first)
      BY <1>1, <2>3 DEF FirstFits
    <3>2. first = other /\ Worth(first)' = Worth(first)
      BY <1>3, <1>8, <2>1, <3>1 DEF Worth, Vote!Decisive, Vote!AnswerOf
    <3> QED
      BY <1>2, <1>3, <1>9, <2>3, <3>1, <3>2 DEF FirstFits
  <2> QED
    BY <1>2, <2>2, <2>3
<1> QED
  BY <1>2, <1>5, <1>7, <1>10

LEMMA WindowVotesKeeps ==
  ASSUME VoteInv, NEW answer \in Vote!WindowAnswers, Vote!WindowVotes(answer) PROVE VoteInv'
<1> USE DEF VoteInv
<1>1. /\ main \in {"asking", "withdrawing"} /\ ~applied
      /\ votes' \in Queues /\ VotesFit' /\ FirstFits'
  <2>1. /\ ~Ended("window") /\ Vote!AnswerOf("window") # "off" /\ Vote!AnswerOf("window")' = answer
        /\ Vote!AnswerOf("phone")' = Vote!AnswerOf("phone")
    BY DEF Vote!WindowVotes, Vote!AnswerOf, Ended, Vote!WindowAnswers, Vote!PhoneAnswers
  <2> QED
    BY <2>1, VotingKeeps DEF Vote!WindowVotes, Vote!Surfaces, VoteTyped
<1>2. /\ UNCHANGED <<surfaces, main, got, first, applied, phone, taps, ask, reply, screen, gaveUp>>
      /\ window' = answer /\ verdict' \in {"none", "yes", "no"}
  BY DEF Vote!WindowVotes, Vote!Vote, Vote!command, Vote!toPhone, VoteTyped
<1>3. VoteTyped'
  BY <1>1, <1>2 DEF VoteTyped
<1>4. ReplyFits'
  BY <1>2 DEF ReplyFits
<1> QED
  BY <1>1, <1>3, <1>4

LEMMA PhoneVotesKeeps ==
  ASSUME VoteInv, Vote!Running, NEW answer \in Vote!PhoneAnswers, Vote!PhoneVotes(answer),
         phone \in {"checking", "sending", "listening"},
         taps' \in Seq({"ok", "no", "foreign"}),
         answer = "unread" => phone = "checking",
         answer \in {"confirmed", "declined", "rejected"} => phone = "listening"
  PROVE  VoteInv'
<1> USE DEF VoteInv
<1>1. /\ main \in {"asking", "withdrawing"} /\ ~applied
      /\ votes' \in Queues /\ VotesFit' /\ FirstFits'
  <2>1. /\ ~Ended("phone") /\ Vote!AnswerOf("phone") # "off" /\ Vote!AnswerOf("phone")' = answer
        /\ Vote!AnswerOf("window")' = Vote!AnswerOf("window")
    BY DEF Vote!PhoneVotes, Vote!AnswerOf, Ended, Vote!WindowAnswers, Vote!PhoneAnswers
  <2> QED
    BY <2>1, VotingKeeps DEF Vote!PhoneVotes, Vote!Surfaces, VoteTyped
<1>2. /\ UNCHANGED <<surfaces, main, got, first, applied, window, ask, reply, screen, gaveUp>>
      /\ phone' = answer /\ verdict' \in {"none", "yes", "no"}
  BY DEF Vote!PhoneVotes, Vote!Vote, Vote!command, Vote!toPhone, VoteTyped
<1>3. VoteTyped'
  BY <1>1, <1>2 DEF VoteTyped
<1>4. ReplyFits'
  BY <1>2 DEF ReplyFits, Vote!PhoneAnswers
<1> QED
  BY <1>1, <1>3, <1>4

LEMMA GoroutinesKeep == ASSUME VoteInv, Vote!Goroutines PROVE VoteInv'
<1> USE DEF VoteInv
<1>1. CASE \E answer \in Vote!WindowAnswers : Vote!WindowVotes(answer)
  BY <1>1, WindowVotesKeeps
<1>2. CASE Vote!PhoneGivesUp
  BY <1>2, PhoneVotesKeeps DEF Vote!PhoneGivesUp, Vote!PhoneAnswers, VoteTyped
<1>3. CASE Vote!SendAsk
  <2>1. VotesFit'
    BY <1>3 DEF Vote!SendAsk, Vote!command, VotesFit, Queued, Ended, Vote!AnswerOf,
      Vote!WindowAnswers, Vote!PhoneAnswers, VoteTyped
  <2>2. FirstFits'
    BY <1>3 DEF Vote!SendAsk, Vote!command, FirstFits, VotesFit, Ended, Worth, Waiting,
      Vote!Decisive, Vote!AnswerOf, VoteTyped, Vote!PhoneAnswers, Vote!WindowAnswers, Vote!Surfaces
  <2>3. VoteTyped' /\ ReplyFits'
    <3>1. main \in {"asking", "withdrawing"}
      BY <1>3 DEF Vote!SendAsk, Vote!Running, VoteTyped, FirstFits, VotesFit, Ended, Vote!AnswerOf,
        Vote!Surfaces, Vote!WindowAnswers, Vote!PhoneAnswers
    <3> QED
      BY <1>3, <3>1 DEF Vote!SendAsk, Vote!command, VoteTyped, ReplyFits
  <2> QED
    BY <2>1, <2>2, <2>3
<1>4. CASE Vote!AskSent
  <2>1. VotesFit'
    BY <1>4 DEF Vote!AskSent, Vote!command, VotesFit, Queued, Ended, Vote!AnswerOf,
      Vote!WindowAnswers, Vote!PhoneAnswers
  <2>2. FirstFits'
    BY <1>4 DEF Vote!AskSent, Vote!command, FirstFits, VotesFit, Ended, Worth, Waiting,
      Vote!Decisive, Vote!AnswerOf, VoteTyped, Vote!PhoneAnswers, Vote!WindowAnswers, Vote!Surfaces
  <2>3. VoteTyped' /\ ReplyFits'
    BY <1>4 DEF Vote!AskSent, Vote!command, Vote!toPhone, VoteTyped, ReplyFits
  <2> QED
    BY <2>1, <2>2, <2>3
<1>5. CASE Vote!AskUnsent
  BY <1>5, PhoneVotesKeeps DEF Vote!AskUnsent, Vote!PhoneAnswers, VoteTyped
<1>6. CASE Vote!PhoneHears
  <2>1. Head(taps) \in {"ok", "no", "foreign"} /\ taps' \in Seq({"ok", "no", "foreign"})
    BY <1>6 DEF Vote!PhoneHears, VoteTyped
  <2>2. Vote!Judged(Head(taps)) \in {"confirmed", "declined", "rejected"}
    BY <2>1 DEF Vote!Judged
  <2> QED
    BY <1>6, <2>1, <2>2, PhoneVotesKeeps DEF Vote!PhoneHears, Vote!PhoneAnswers
<1>7. CASE Vote!PhoneEnds
  BY <1>7, PhoneVotesKeeps DEF Vote!PhoneEnds, Vote!PhoneAnswers, VoteTyped
<1> QED
  BY <1>1, <1>2, <1>3, <1>4, <1>5, <1>6, <1>7 DEF Vote!Goroutines

\* Where no vote is cast or received.
LEMMA VotesStay ==
  ASSUME VoteInv, UNCHANGED <<surfaces, window, phone, votes, got>>
  PROVE  /\ VotesFit' /\ (\A side \in Vote!Surfaces : Worth(side)' = Worth(side)
              /\ (Ended(side)' <=> Ended(side)))
         /\ Waiting' = Waiting
BY DEF VoteInv, VotesFit, Queued, Ended, Vote!AnswerOf, Worth, Waiting, Vote!Decisive

LEMMA CallsKeep ==
  ASSUME VoteInv, Vote!AskLands \/ Vote!AskFails \/ (\E button \in {"ok", "no",
           "foreign"} : Vote!Tap(button))
                  \/ Vote!ReplyGoes \/ Vote!ReplyEnds \/ Vote!End \/ Vote!Kill \/ Vote!Apply
                       \/ UNCHANGED Vote!vars
  PROVE  VoteInv'
<1> USE DEF VoteInv
<1>1. UNCHANGED <<surfaces, window, phone, votes, got, first, verdict>>
  BY DEF Vote!AskLands, Vote!AskFails, Vote!Tap, Vote!ReplyGoes, Vote!ReplyEnds, Vote!End,
    Vote!Kill, Vote!Apply, Vote!vars, Vote!goroutines, Vote!command, Vote!toPhone
<1>2. VotesFit' /\ \A side \in Vote!Surfaces : Worth(side)' = Worth(side)
  BY <1>1, VotesStay
<1>3. \A side \in got : Worth(side)' = Worth(side)
  BY <1>2 DEF VoteTyped
<1>4. Waiting' = Waiting /\ (first # "none" => Worth(first)' = Worth(first))
  BY <1>1, VotesStay DEF Worth, Vote!Decisive, Vote!AnswerOf
<1>5. ASSUME UNCHANGED <<main, applied>> PROVE FirstFits'
  BY <1>1, <1>2, <1>3, <1>4, <1>5 DEF FirstFits, VoteTyped
<1>6. CASE Vote!AskLands \/ Vote!AskFails
  <2>1. VoteTyped' /\ ReplyFits' /\ UNCHANGED <<main, applied>>
    BY <1>6 DEF Vote!AskLands, Vote!AskFails, VoteTyped, ReplyFits, Vote!goroutines, Vote!command
  <2> QED
    BY <1>2, <1>5, <2>1
<1>7. CASE \E button \in {"ok", "no", "foreign"} : Vote!Tap(button)
  <2>1. VoteTyped' /\ ReplyFits' /\ UNCHANGED <<main, applied>>
    BY <1>7 DEF Vote!Tap, VoteTyped, ReplyFits, Vote!command, Vote!toPhone
  <2> QED
    BY <1>2, <1>5, <2>1
<1>8. CASE Vote!ReplyGoes \/ Vote!ReplyEnds
  <2>3. /\ reply' \in [say : {"none", "clear", "nothing", "result"},
                       at : {"idle", "due", "going", "over"}]
        /\ reply'.say = reply.say
    BY <1>8 DEF Vote!ReplyGoes, Vote!ReplyEnds, VoteTyped
  <2>4. Vote!Told \in {"blank", "done", "nothing"}
    BY DEF Vote!Told
  <2>5. gaveUp' \in BOOLEAN
    BY <1>8 DEF Vote!ReplyGoes, Vote!ReplyEnds, VoteTyped
  <2>6. UNCHANGED <<main, applied, ask, taps>> /\ screen' \in {"blank", "question", "done",
          "nothing"}
    BY <1>8, <2>4 DEF Vote!ReplyGoes, Vote!ReplyEnds, VoteTyped, Vote!goroutines, Vote!command
  <2>1. VoteTyped' /\ UNCHANGED <<main, applied>>
    BY <1>1, <2>3, <2>5, <2>6 DEF VoteTyped
  <2>2. ReplyFits'
    BY <1>8 DEF Vote!ReplyGoes, Vote!ReplyEnds, VoteTyped, ReplyFits, FirstFits, Vote!Running,
      Vote!goroutines, Vote!command, Vote!Told, Vote!AskSettled
  <2> QED
    BY <1>2, <1>5, <2>1, <2>2
<1>9. CASE Vote!End \/ Vote!Kill
  <2>1. VoteTyped' /\ ReplyFits' /\ UNCHANGED applied
    BY <1>9 DEF Vote!End, Vote!Kill, VoteTyped, ReplyFits, FirstFits, Vote!goroutines,
      Vote!toPhone, Vote!Running
  <2>2. FirstFits'
    BY <1>1, <1>2, <1>3, <1>4, <1>9 DEF Vote!End, Vote!Kill, FirstFits, VoteTyped, Vote!Running
  <2> QED
    BY <1>2, <2>1, <2>2
<1>10. CASE Vote!Apply
  <2>1. /\ reply' \in [say : {"none", "clear", "nothing", "result"},
                       at : {"idle", "due", "going", "over"}]
        /\ reply'.say = reply.say /\ reply'.at = IF reply.at = "idle" THEN "due" ELSE reply.at
    BY <1>10 DEF Vote!Apply, VoteTyped
  <2>3. VoteTyped'
    BY <1>10, <2>1 DEF Vote!Apply, VoteTyped, Vote!goroutines
  <2>4. ReplyFits'
    <3>1. main = "applying" /\ main' = "telling" /\ screen \notin {"done", "nothing"}
      BY <1>10 DEF Vote!Apply, ReplyFits, VoteTyped
    <3>2. UNCHANGED <<surfaces, phone, first, ask, screen, gaveUp>>
      BY <1>10 DEF Vote!Apply, Vote!goroutines
    <3>3. reply.say \in {"clear", "result"} /\ (ask = "unsent" => reply.at = "over")
      BY <1>10, <3>1 DEF ReplyFits, VoteTyped
    <3> QED
      BY <2>1, <3>1, <3>2, <3>3 DEF ReplyFits
  <2>2. FirstFits'
    BY <1>1, <1>2, <1>3, <1>4, <1>10 DEF Vote!Apply, FirstFits, VoteTyped
  <2> QED
    BY <1>2, <2>2, <2>3, <2>4
<1>11. CASE UNCHANGED Vote!vars
  <2>1. VoteTyped' /\ ReplyFits' /\ UNCHANGED <<main, applied>>
    BY <1>11 DEF Vote!vars, Vote!goroutines, Vote!command, Vote!toPhone, VoteTyped, ReplyFits
  <2> QED
    BY <1>2, <1>5, <2>1
<1> QED
  BY <1>6, <1>7, <1>8, <1>9, <1>10, <1>11

\* A vote is received: which one it is, the channel told already.
LEMMA ReceivingKeeps == ASSUME VoteInv, Vote!Receive \/ Vote!Drain PROVE VoteInv'
<1> USE DEF VoteInv
<1>1. /\ votes # <<>> /\ votes' = Tail(votes) /\ got' = got \cup {Head(votes)} /\ votes \in Queues
      /\ UNCHANGED <<surfaces, window, phone, taps, applied, Vote!toPhone, verdict>>
  BY DEF Vote!Receive, Vote!Drain, VoteTyped
<1>2. \/ \E side \in Vote!Surfaces : votes = <<side>> /\ Head(votes) = side /\ votes' = <<>>
      \/ votes = <<"phone", "window">> /\ Head(votes) = "phone" /\ votes' = <<"window">>
      \/ votes = <<"window", "phone">> /\ Head(votes) = "window" /\ votes' = <<"phone">>
  BY <1>1, Leaving
<1>3. Head(votes) \in Vote!Surfaces /\ Queued(Head(votes))
  BY <1>2 DEF Queued, Vote!Surfaces
<1>4. PICK side \in Vote!Surfaces : side = Head(votes)
  BY <1>3
<1>5. side \in surfaces /\ side \notin got
  BY <1>3, <1>4 DEF VotesFit
<1>6. /\ votes' \in Queues /\ ~Queued(side)'
      /\ \A x \in Vote!Surfaces \ {side} : Queued(x)' <=> Queued(x)
  BY <1>2, <1>4 DEF Queues, Queued, Vote!Surfaces
<1>7. \A x \in Vote!Surfaces : Vote!AnswerOf(x)' = Vote!AnswerOf(x) /\ (Ended(x)' <=> Ended(x))
        /\ Worth(x)' = Worth(x)
  BY <1>1 DEF Vote!AnswerOf, Ended, Worth, Vote!Decisive
<1>8. VotesFit'
  BY <1>1, <1>3, <1>4, <1>5, <1>6, <1>7 DEF VotesFit
<1>9. /\ main' \in {"asking", "withdrawing"} /\ (main' = "asking" => main = "asking")
      /\ first' \in Vote!Surfaces \cup {"none"} /\ main \in {"asking", "withdrawing"}
      /\ got' \in SUBSET surfaces
  BY <1>1, <1>4, <1>5 DEF Vote!Receive, Vote!Drain, VoteTyped
<1>10. VoteTyped' /\ ReplyFits' /\ ~applied
  BY <1>1, <1>6, <1>9 DEF VoteTyped, ReplyFits, Vote!toPhone, FirstFits
<1>11. FirstFits'
  <2>1. CASE Vote!Drain
    BY <1>1, <1>4, <1>5, <1>7, <1>9, <1>10, <2>1 DEF Vote!Drain, FirstFits, VoteTyped
  <2>2. CASE Vote!Receive
    <3>1. first = "none" /\ (\A x \in got : Worth(x) = "none") /\ verdict = Waiting
      BY <2>2 DEF Vote!Receive, FirstFits
    <3>2. Waiting = IF Worth(side) # "none" THEN Worth(side) ELSE Waiting'
      <4>1. CASE votes = <<side>> /\ votes' = <<>>
        BY <4>1 DEF Waiting
      <4>2. ASSUME NEW x \in Vote!Surfaces, votes = <<side, x>>, votes' = <<x>>
            PROVE Waiting = IF Worth(side) # "none" THEN Worth(side) ELSE Waiting'
        BY <1>7, <4>2 DEF Waiting
      <4> QED
        BY <1>2, <1>4, <4>1, <4>2 DEF Vote!Surfaces
    <3>3. Vote!Decisive(side, Vote!AnswerOf(side)) <=> Worth(side) # "none"
      BY DEF Worth
    <3>4. CASE Worth(side) # "none"
      <4>1. first' = side /\ main' = "withdrawing" /\ verdict' = Worth(side) /\ side # "none"
        BY <1>1, <1>4, <2>2, <3>1, <3>2, <3>3, <3>4 DEF Vote!Receive, Vote!Surfaces
      <4>2. Worth(first)' = Worth(side)
        BY <1>1, <4>1 DEF Worth, Vote!Decisive, Vote!AnswerOf
      <4> QED
        BY <1>1, <1>4, <1>10, <3>4, <4>1, <4>2 DEF FirstFits
    <3>5. CASE Worth(side) = "none"
      <4>1. /\ first' = "none" /\ verdict' = Waiting'
            /\ main' = IF Vote!AllIn(got') THEN "withdrawing" ELSE "asking"
        BY <1>1, <1>4, <2>2, <3>1, <3>2, <3>3, <3>5 DEF Vote!Receive
      <4>2. \A x \in got' : Worth(x)' = "none"
        BY <1>1, <1>4, <1>7, <1>9, <3>1, <3>5 DEF VoteTyped
      <4>3. got' = surfaces => Waiting' = "none"
        <5>1. got' = surfaces => votes' = <<>>
          BY <1>2, <1>5, <1>6, <1>8, <1>9 DEF VotesFit, Queued, Vote!Surfaces, Queues
        <5> QED
          BY <5>1 DEF Waiting
      <4> QED
        BY <1>1, <1>10, <4>1, <4>2, <4>3 DEF FirstFits, Vote!AllIn
    <3> QED
      BY <3>4, <3>5
  <2> QED
    BY <2>1, <2>2
<1> QED
  BY <1>8, <1>10, <1>11

LEMMA ConcludeKeeps == ASSUME VoteInv, Vote!Conclude PROVE VoteInv'
<1> USE DEF VoteInv
<1>1. UNCHANGED <<surfaces, window, phone, votes, taps, got, first, applied, ask, screen, gaveUp,
        verdict>>
  BY DEF Vote!Conclude, Vote!goroutines
<1>2. VotesFit' /\ (\A side \in Vote!Surfaces : Worth(side)' = Worth(side)) /\ Waiting' = Waiting
  BY <1>1, VotesStay
<1>3. /\ main = "withdrawing" /\ got = surfaces /\ ~applied
      /\ reply = [say |-> "none", at |-> "idle"]
  BY DEF Vote!Conclude, Vote!BothEnded, Vote!AllIn, FirstFits, ReplyFits
<1>4. first # "none" => Worth(first) # "none" /\ verdict = Worth(first)
  BY DEF FirstFits
<1>5. window = "stopped" => first # "none"
  BY <1>3 DEF FirstFits, VotesFit, Worth, Vote!Decisive, Vote!AnswerOf, Vote!Surfaces, VoteTyped
<1>6. /\ reply' \in [say : {"none", "clear", "nothing", "result"},
                     at : {"idle", "due", "going", "over"}]
      /\ main' \in {"applying", "telling", "stopping"}
      /\ reply'.say # "none" /\ reply'.at \in {"idle", "due", "over"}
      /\ ask = "unsent" <=> reply'.at = "over"
      /\ reply'.at = "idle" => reply'.say = "result"
      /\ first = "window" => reply'.say = "clear"
      /\ reply'.say = "nothing" => main' # "applying"
      /\ reply'.say = "result" => /\ first = "phone" /\ main' = "applying" /\ phone = "confirmed"
                                  /\ reply'.at \in {"idle", "over"}
      /\ main' = "applying" => /\ first # "none" /\ Vote!AnswerOf(first) = "confirmed"
                               /\ window # "stopped"
  BY <1>1, <1>3 DEF Vote!Conclude, Vote!Stop, Vote!WindowDecides, Vote!NobodyDecides,
    Vote!PhoneDecides, Vote!Reply, Vote!Stopped, Vote!AnswerOf, VoteTyped, Vote!Surfaces
<1>7. VoteTyped'
  BY <1>1, <1>6 DEF VoteTyped
<1>8. FirstFits'
  <2>1. main' = "applying" => verdict = "yes"
    BY <1>4, <1>6 DEF Worth, Vote!Decisive, Vote!AnswerOf, VoteTyped, Vote!Surfaces
  <2>2. first # "none" => Worth(first)' = Worth(first)
    BY <1>1 DEF Worth, Vote!Decisive, Vote!AnswerOf
  <2> QED
    BY <1>1, <1>2, <1>3, <1>6, <2>1, <2>2 DEF FirstFits, VoteTyped
<1>9. ReplyFits'
  <2>1. phone = "confirmed" => ask = "landed"
    BY DEF ReplyFits
  <2> QED
    BY <1>1, <1>3, <1>6, <2>1 DEF ReplyFits, VoteTyped
<1> QED
  BY <1>2, <1>7, <1>8, <1>9

LEMMA VoteNext == ASSUME VoteInv, [Vote!Next]_(Vote!vars) PROVE VoteInv'
BY GoroutinesKeep, CallsKeep, ReceivingKeeps, ConcludeKeeps DEF Vote!Next, Vote!Command

LEMMA VoteHolds == VoteInv => Vote!FirstAnswerSettles
<1> SUFFICES ASSUME VoteInv PROVE Vote!FirstAnswerSettles
  OBVIOUS
<1> USE DEF VoteInv
<1>1. Vote!FirstAnswerDecides
  BY DEF FirstFits, Vote!FirstAnswerDecides
<1>2. Vote!NoAskLeft
  BY DEF FirstFits, VotesFit, Ended, Vote!AnswerOf, Vote!Surfaces, Vote!WindowAnswers,
    Vote!PhoneAnswers, Vote!NoAskLeft, VoteTyped
<1>3. Vote!PhoneKnows
  BY DEF ReplyFits, VoteTyped, Vote!PhoneKnows
<1> QED
  BY <1>1, <1>2, <1>3 DEF Vote!FirstAnswerSettles


-----------------------------------------------------------------------------
(* What holds of every behaviour *)

\* For any number of requests, faults and processes: no two bridges run that were
\* not told to stop; and when the switch is off with nothing left to finish, no
\* bridge is wanted or can reach the Relay, and no message that Home Assistant
\* would accept is left unless nothing the App keeps tells of it (chat-apps.ts).
THEOREM BridgeIsAsSwitched == PartsSpec => []BridgeAsSwitched
<1> QED
  BY BridgeInit, BridgeNext, BridgeHolds, BridgeRuns, PTL

\* No write of the links changes the entry of anybody but the change's own user,
\* for any number of users, pages and changes (setLink under linksMu).
THEOREM OnlyOwnEntries == PartsSpec => OwnEntryOnly
<1>1. Who!Init => LinksInv
  BY PeopleAssumption, LinksInit
<1>2. LinksInv /\ [Who!Next]_(Who!vars) => LinksInv'
  BY PeopleAssumption, LinksNext
<1>3. LinksInv /\ [Who!Next]_(Who!vars) =>
        [\A u \in Users : links'[u] # links[u] => jobs[u].at = "write"
          /\ links'[u] = jobs[u].new]_(Who!vars)
  BY PeopleAssumption, OwnEntries
<1> QED
  BY <1>1, <1>2, <1>3, UsersRun, PTL DEF Who!Spec, OwnEntryOnly, Who!OwnEntryOnly

\* Saved from one page, the list never puts a user back who still has the link they
\* left with, whatever fails or ends in between (setUsers drops before it writes).
\* Two pages can: Relisted.cfg.
THEOREM OldLinksAreDropped == OnePage => (PartsSpec => []NoOldLink)
<1> SUFFICES ASSUME OnePage PROVE PartsSpec => []NoOldLink
  OBVIOUS
<1>1. Who!Init => LinksInv /\ Who!NoOldLink /\ WaitsForDrops
  BY PeopleAssumption, LinksInit
<1>2. LinksInv /\ Who!NoOldLink /\ WaitsForDrops /\ [Who!Next]_(Who!vars) =>
        (LinksInv /\ Who!NoOldLink /\ WaitsForDrops)'
  BY PeopleAssumption, LinksNext, OldLinksNext
<1>3. Who!NoOldLink => NoOldLink
  BY DEF NoOldLink
<1> QED
  BY <1>1, <1>2, <1>3, UsersRun, PTL DEF Who!Spec

\* The first surface that decides settles the question: the write goes out only on
\* its yes, no ask stays open on the other one, and the phone is told what came of
\* it, whatever number of taps reach it (awaitVotes, withdraw, the phone's reply).
THEOREM FirstAnswerDoesSettle == PartsSpec => []FirstAnswerSettles
<1>1. VoteInv => FirstAnswerSettles
  BY VoteHolds DEF FirstAnswerSettles
<1> QED
  BY <1>1, VoteInit, VoteNext, VoteRuns, PTL
=============================================================================
