-------------------------- MODULE CloudLinkProofs --------------------------
(***************************************************************************)
(* Proofs about Home Assistant Link for every number of terminals, people  *)
(* and sign-ins.                                                           *)
(*                                                                         *)
(* Three places are to agree after any kill: the lifecycle, the slots and  *)
(* what Home Assistant accepts.  The lifecycle names what the slots hold   *)
(* (Names, InSlots, Intact), for each of its states and each step of a     *)
(* command (InStep); what it builds on is accepted (Alive), and what was   *)
(* dropped is not (Gone).  A terminal waits for its browser without the    *)
(* lock: what it waits for is nowhere else (Waiting), and what replaces a  *)
(* sign-in is of another generation (Generations), which is how the code   *)
(* tells whether a promotion was done.  Accounted is SignInsAccountedFor   *)
(* as the lifecycle tells it.                                              *)
(***************************************************************************)
EXTENDS CloudLink, TLAPS

-----------------------------------------------------------------------------
(* The inductive invariant *)

Steps == {"idle", "retire", "drop retiring", "begin", "authorize", "save", "exchange", "create",
          "unmint", "drop", "forget", "note", "verify", "bind", "bound", "promote", "commit",
          "settle", "finish", "roll back", "drop pending", "restore", "revoke", "erase"}
Unfinished == {"authorizing", "token_stored", "cloud_verified", "device_bound_or_paired"}
Starting   == {"retire", "drop retiring", "begin", "authorize"}
Asking     == {"save", "exchange", "create", "unmint", "drop", "forget"}
Building   == {"note", "verify", "bind", "bound", "promote", "commit"}
BoundState == cloud.state = "device_bound_or_paired"

LinkTyped == CloudTypeOK /\ at \in Steps

\* A sign-in that is numbered next is in no place yet, and its generation is new.
Numbered ==
  /\ live \subseteq 1..signIns
  /\ cloud.current <= signIns /\ cloud.pending <= signIns
  /\ \A s \in Slots : slot[s] <= signIns
  /\ env <= signIns
  /\ \A n \in 1..signIns : gen[n] <= n
  /\ \A t \in Terminals : waits[t].n <= signIns /\ waits[t].cloud.current <= signIns

\* What each state of the lifecycle names.
Names ==
  /\ cloud.state = "none" => cloud = NoCloud /\ \A s \in Slots : slot[s] = None
  /\ cloud.state \in {"token_stored", "cloud_verified", "device_bound_or_paired",
                      "rolling_back", "committed"} => cloud.pending # None
  /\ cloud.state \in {"rolling_back", "committed", "retiring_previous", "ready"} => Configured
  /\ cloud.state \in {"retiring_previous", "ready"} => cloud.pending = None
  /\ cloud.state = "committed" => cloud.pending = cloud.current

\* In which states a step is reached, and with which sign-in.
InStep ==
  /\ at \in {"retire", "drop retiring"} => cloud.state \notin {"rolling_back", "committed"}
  /\ at = "drop retiring" => cloud.state # "none"
  /\ at = "begin" => cloud.state \in Unfinished \cup {"none", "ready"}
  /\ at \in Starting /\ cloud.state = "ready" => cmd = "reconnect"
  /\ at = "authorize" => cloud.state \in Unfinished
  /\ at \in Starting \cup Asking \cup Building /\ cmd = "reconnect" => Configured
  /\ at \in Asking => cloud.state = "authorizing"
  /\ at \in Building => cloud.state \in Unfinished
  /\ at \in {"promote", "commit"} => BoundState
  /\ at = "settle" => cloud.state = "committed"
  /\ at = "finish" => cloud.state = "retiring_previous"
  /\ at \in {"roll back", "drop pending", "restore"} => cloud.state = "rolling_back"
  /\ at \in (Asking \ {"save"}) \cup Building => env = cloud.pending /\ env # None
  /\ at = "save" => env # None /\ cloud.pending \in {None, env}
  /\ at \in {"revoke", "erase"} => removing
  /\ cloud.done # NotDone => removing /\ at \in {"idle", "erase"}

\* What replaces a sign-in is of another generation.
Generations ==
  /\ cloud.pending # None /\ Configured /\ cloud.state # "committed" =>
       gen[cloud.pending] # gen[cloud.current]
  /\ at = "save" /\ Configured => gen[env] # gen[cloud.current]

\* A sign-in that a terminal waits for is nowhere yet, and only this terminal has it.
Waiting ==
  /\ \A t \in Terminals : waits[t].n = None => waits[t] = NoWait
  /\ \A t \in Terminals : waits[t].n # None =>
    /\ ~Stored(waits[t].n)
    /\ at \in Asking \cup Building => waits[t].n # env
    /\ waits[t].cloud.state = "authorizing" /\ waits[t].cloud.done = NotDone
    /\ waits[t].cmd = "reconnect" => waits[t].cloud.current # None
    /\ waits[t].cloud.pending \in {None, waits[t].n}
    /\ waits[t].cloud.current # None => gen[waits[t].n] # gen[waits[t].cloud.current]
    /\ \A u \in Terminals : waits[u].n = waits[t].n => u = t

\* What the slots may hold ...
InSlots ==
  /\ slot["pending"] \in {None, cloud.pending}
  /\ slot["current"] \in {None, cloud.current} \/ (BoundState /\ slot["current"] = cloud.pending)
  /\ cloud.state \notin {"device_bound_or_paired", "committed", "retiring_previous"} =>
       slot["retiring"] = None
  /\ BoundState => slot["retiring"] \in {None, cloud.current}
  /\ ~BoundState => slot["retiring"] = None \/ slot["retiring"] # cloud.current
  /\ at \in {"save", "exchange", "create", "forget", "commit", "restore"} => slot["pending"] = None
  /\ cloud.state = "committed" => slot["pending"] = None
  /\ at \in Building => env \in {slot["pending"], slot["current"]}
  /\ at = "finish" => slot["retiring"] = None

\* ... and, unless a removal erases them, what they do hold.
Intact ==
  cloud.done = NotDone =>
  /\ Configured => slot["current"] = cloud.current \/ (BoundState
       /\ slot["current"] = cloud.pending)
  /\ BoundState => cloud.pending \in {slot["pending"], slot["current"]}
  /\ cloud.state \in {"token_stored", "cloud_verified"} => slot["pending"] = cloud.pending
  /\ at = "erase" => \A s \in Slots : slot[s] = None

SlotsListed == cloud.done # NotDone => \A s \in Slots : slot[s] \in {None, cloud.done[s]}

\* From its binding to its commit a sign-in is the same person's as the one it replaces.
OnePerson ==
  BoundState \/ at = "bound" =>
    /\ device = user[cloud.pending]
    /\ Configured => user[cloud.current] = user[cloud.pending]

Alive ==
  /\ at \in Building \cup {"create"} => env \in live
  /\ ~removing /\ cloud.state \in Unfinished \ {"authorizing"} => cloud.pending \in live

Gone ==
  /\ at \in {"drop", "forget"} => env \notin live
  /\ at = "drop retiring" => slot["retiring"] \notin live
  /\ at = "drop pending" => slot["pending"] \notin live
  /\ cloud.done # NotDone \/ at = "erase" => live \subseteq orphans
  /\ at = "revoke" => \A n \in {cloud.current, cloud.pending} \ {None} : Stored(n)

\* Where a sign-in is that Home Assistant accepts; the last place is that of one whose
\* exchange was cut off, or whose storage failed: its generation is still asked for.
Placed(n) ==
  \/ Stored(n) \/ n \in orphans
  \/ env = n /\ at \in {"create", "unmint"}
  \/ /\ cloud.state = "authorizing" /\ cloud.pending # None /\ slot["pending"] = None
     /\ gen[n] = gen[cloud.pending]

Accounted == \A n \in live : Placed(n)

\* All of it, with the property that Link keeps working.
LinkInv ==
  /\ LinkTyped /\ Numbered /\ Names /\ InStep /\ Generations /\ Waiting /\ InSlots /\ Intact
  /\ SlotsListed /\ OnePerson /\ Alive /\ Gone /\ Accounted /\ LinkKeepsWorking

-----------------------------------------------------------------------------
(* Types *)

\* The types that the steps below need.
LEMMA LinkFacts ==
  ASSUME CloudAssumption, LinkTyped
  PROVE  /\ cloud \in Lifecycles /\ slot \in [Slots -> Maybe] /\ late \in {"none", "storage"}
         /\ env \in Maybe /\ signIns \in Maybe /\ cmd \in {"add", "reconnect"}
         /\ live \subseteq SignIns /\ gen \in [SignIns -> Maybe]
         /\ user \in [SignIns -> Users \cup {None}]
         /\ waits \in [Terminals -> [n : Maybe, cmd : {"add", "reconnect"}, cloud : Lifecycles]]
         /\ Maybe \subseteq Nat /\ SignIns \subseteq Maybe
         /\ cloud.current \in Maybe /\ cloud.pending \in Maybe
         /\ \A n \in Maybe : n # None <=> n \in SignIns
<1>1. MaxSignIns \in Nat
  BY DEF CloudAssumption
<1>2. Maybe \subseteq Nat /\ SignIns \subseteq Maybe /\ \A n \in Maybe : n # None <=> n \in SignIns
  BY <1>1 DEF Maybe, SignIns, None
<1>3. cloud.current \in Maybe /\ cloud.pending \in Maybe
  BY DEF LinkTyped, CloudTypeOK, Lifecycles
<1> QED
  BY <1>2, <1>3 DEF LinkTyped, CloudTypeOK

\* Each way a lifecycle is written gives a lifecycle.
LEMMA CloudTyped ==
  ASSUME CloudAssumption, cloud \in Lifecycles, slot \in [Slots -> Maybe],
           late \in {"none", "storage"}
  PROVE  /\ \A h \in {"none", "authorization", "identity", "storage",
              "outcome"} : Held(h) \in Lifecycles
         /\ \A s \in States : [cloud EXCEPT !.state = s] \in Lifecycles
         /\ \A n \in Maybe : /\ [cloud EXCEPT !.pending = n] \in Lifecycles
                             /\ [Held(late) EXCEPT !.pending = n] \in Lifecycles
         /\ \A s \in States, n \in Maybe : /\ [cloud EXCEPT !.pending = n,
                                                !.state = s] \in Lifecycles
                                          /\ [cloud EXCEPT !.current = n,
                                               !.state = s] \in Lifecycles
         /\ [cloud EXCEPT !.done = slot] \in Lifecycles
         /\ NoCloud \in Lifecycles
<1>1. \A h \in {"none", "authorization", "identity", "storage", "outcome"} : Held(h) \in Lifecycles
  BY DEF Held, Lifecycles
<1>2. \A c \in Lifecycles, n \in Maybe : [c EXCEPT !.pending = n] \in Lifecycles
  BY DEF Lifecycles
<1>3. NoCloud \in Lifecycles
  BY DEF Lifecycles, NoCloud, States, Maybe, None
<1>4. \A s \in States, n \in Maybe : /\ [cloud EXCEPT !.pending = n, !.state = s] \in Lifecycles
                                  /\ [cloud EXCEPT !.current = n, !.state = s] \in Lifecycles
  BY DEF Lifecycles
<1>5. \A s \in States : [cloud EXCEPT !.state = s] \in Lifecycles
  BY DEF Lifecycles
<1>6. [cloud EXCEPT !.done = slot] \in Lifecycles
  BY DEF Lifecycles
<1> QED
  BY <1>1, <1>2, <1>3, <1>4, <1>5, <1>6

\* The types of the variables, a few at a time.
LEMMA CloudType ==
  ASSUME CloudAssumption, LinkTyped, [Next]_vars
  PROVE  cloud' \in Lifecycles
<1>1. CASE (\E c \in {"add", "reconnect"} : Start(c)) \/ Retire \/ DropRetiring \/ Begin
  BY <1>1, LinkFacts, CloudTyped DEF Start, To, Retire, DropRetiring, Begin, command, people,
     history, Write, EndWith, Advanced, States, None, Maybe
<1>2. CASE GoOn
  BY <1>2, LinkFacts, CloudTyped DEF GoOn, To, command, people, history, Write, EndWith,
     Advanced, States, None, Maybe
<1>3. CASE \E t \in Terminals : OpenBrowser(t)
  <2>1. PICK t \in Terminals : OpenBrowser(t)
    BY <1>3
  <2> QED
    BY <2>1, LinkFacts, CloudTyped DEF OpenBrowser, To, command, people, history, Write,
       EndWith, Advanced, States, None, Maybe, SignIns
<1>4. CASE \E t \in Terminals : LeaveBrowser(t)
  <2>1. PICK t \in Terminals : LeaveBrowser(t)
    BY <1>4
  <2> QED
    BY <2>1, LinkFacts, CloudTyped DEF LeaveBrowser, To, command, people, history, Write,
       EndWith, Advanced, States, None, Maybe
<1>5. CASE \E t \in Terminals : ComeBack(t)
  <2>1. PICK t \in Terminals : ComeBack(t)
    BY <1>5
  <2> QED
    BY <2>1, LinkFacts, CloudTyped DEF ComeBack, To, command, people, history, Write, EndWith,
       Advanced, States, None, Maybe
<1>6. CASE Save \/ Exchange \/ Create
  BY <1>6, LinkFacts, CloudTyped DEF Save, To, Exchange, Create, command, people, history,
     Write, EndWith, Advanced, States, None, Maybe
<1>7. CASE Unmint
  BY <1>7, LinkFacts, CloudTyped DEF Unmint, To, command, people, history, Write, EndWith,
     Advanced, States, None, Maybe
<1>8. CASE Drop
  BY <1>8, LinkFacts, CloudTyped DEF Drop, To, command, people, history, Write, EndWith,
     Advanced, States, None, Maybe
<1>9. CASE Forget
  BY <1>9, LinkFacts, CloudTyped DEF Forget, To, command, people, history, Write, EndWith,
     Advanced, States, None, Maybe
<1>10. CASE Note \/ Verify \/ Bind \/ Conflict
  BY <1>10, LinkFacts, CloudTyped DEF Note, To, Verify, Bind, Conflict, command, people,
     history, Write, EndWith, Advanced, States, None, Maybe
<1>11. CASE Bound
  BY <1>11, LinkFacts, CloudTyped DEF Bound, To, command, people, history, Write, EndWith,
     Advanced, States, None, Maybe
<1>12. CASE Promote
  BY <1>12, LinkFacts, CloudTyped DEF Promote, To, command, people, history, Write, EndWith,
     Advanced, States, None, Maybe
<1>13. CASE Commit
  BY <1>13, LinkFacts, CloudTyped DEF Commit, To, command, people, history, Write, EndWith,
     Advanced, States, None, Maybe
<1>14. CASE Settle
  BY <1>14, LinkFacts, CloudTyped DEF Settle, To, command, people, history, Write, EndWith,
     Advanced, States, None, Maybe
<1>15. CASE Finish
  BY <1>15, LinkFacts, CloudTyped DEF Finish, To, command, people, history, Write, EndWith,
     Advanced, States, None, Maybe
<1>16. CASE RollBack
  BY <1>16, LinkFacts, CloudTyped DEF RollBack, To, command, people, history, Write, EndWith,
     Advanced, States, None, Maybe
<1>17. CASE DropPending
  BY <1>17, LinkFacts, CloudTyped DEF DropPending, To, command, people, history, Write,
     EndWith, Advanced, States, None, Maybe
<1>18. CASE Restore
  BY <1>18, LinkFacts, CloudTyped DEF Restore, To, command, people, history, Write, EndWith,
     Advanced, States, None, Maybe
<1>19. CASE Remove \/ RemoveConfirmed \/ Revoke \/ Attest
  BY <1>19, LinkFacts, CloudTyped DEF Remove, To, RemoveConfirmed, Revoke, Attest, command,
     people, history, Write, EndWith, Advanced, States, None, Maybe
<1>20. CASE Erase \/ Removed \/ Stop \/ UNCHANGED vars
  BY <1>20, LinkFacts, CloudTyped DEF Erase, To, Removed, Stop, vars, command, people, history,
     Write, EndWith, Advanced, States, None, Maybe
<1> QED
  BY <1>1, <1>2, <1>3, <1>4, <1>5, <1>6, <1>7, <1>8, <1>9, <1>10, <1>11, <1>12, <1>13, <1>14,
     <1>15, <1>16, <1>17, <1>18, <1>19, <1>20 DEF Next

LEMMA SlotType ==
  ASSUME CloudAssumption, LinkTyped, [Next]_vars
  PROVE  slot' \in [Slots -> Maybe]
<1>1. CASE (\E c \in {"add", "reconnect"} : Start(c)) \/ Retire \/ DropRetiring \/ Begin
  BY <1>1, LinkFacts DEF Start, To, Retire, DropRetiring, Begin, command, people, history,
     Write, EndWith, Slots, None, Maybe
<1>2. CASE GoOn
  BY <1>2, LinkFacts DEF GoOn, To, command, people, history, Write, EndWith, Slots, None, Maybe
<1>3. CASE \E t \in Terminals : OpenBrowser(t)
  <2>1. PICK t \in Terminals : OpenBrowser(t)
    BY <1>3
  <2> QED
    BY <2>1, LinkFacts DEF OpenBrowser, To, command, people, history, Write, EndWith, Slots,
       None, Maybe
<1>4. CASE \E t \in Terminals : LeaveBrowser(t)
  <2>1. PICK t \in Terminals : LeaveBrowser(t)
    BY <1>4
  <2> QED
    BY <2>1, LinkFacts DEF LeaveBrowser, To, command, people, history, Write, EndWith, Slots,
       None, Maybe
<1>5. CASE \E t \in Terminals : ComeBack(t)
  <2>1. PICK t \in Terminals : ComeBack(t)
    BY <1>5
  <2> QED
    BY <2>1, LinkFacts DEF ComeBack, To, command, people, history, Write, EndWith, Slots, None,
       Maybe
<1>6. CASE Save \/ Exchange \/ Create
  BY <1>6, LinkFacts DEF Save, To, Exchange, Create, command, people, history, Write, EndWith,
     Slots, None, Maybe
<1>7. CASE Unmint \/ Drop \/ Forget
  BY <1>7, LinkFacts DEF Unmint, To, Drop, Forget, command, people, history, Write, EndWith,
     Slots, None, Maybe
<1>8. CASE Note \/ Verify \/ Bind \/ Conflict
  BY <1>8, LinkFacts DEF Note, To, Verify, Bind, Conflict, command, people, history, Write,
     EndWith, Slots, None, Maybe
<1>9. CASE Bound \/ Promote \/ Commit
  BY <1>9, LinkFacts DEF Bound, To, Promote, Commit, command, people, history, Write, EndWith,
     Slots, None, Maybe
<1>10. CASE Settle \/ Finish \/ RollBack \/ DropPending \/ Restore
  BY <1>10, LinkFacts DEF Settle, To, Finish, RollBack, DropPending, Restore, command, people,
     history, Write, EndWith, Slots, None, Maybe
<1>11. CASE Remove \/ RemoveConfirmed \/ Revoke \/ Attest
  BY <1>11, LinkFacts DEF Remove, To, RemoveConfirmed, Revoke, Attest, command, people,
     history, Write, EndWith, Slots, None, Maybe
<1>12. CASE Erase \/ Removed \/ Stop \/ UNCHANGED vars
  BY <1>12, LinkFacts DEF Erase, To, Removed, Stop, vars, command, people, history, Write,
     EndWith, Slots, None, Maybe, NextToErase
<1> QED
  BY <1>1, <1>2, <1>3, <1>4, <1>5, <1>6, <1>7, <1>8, <1>9, <1>10, <1>11, <1>12 DEF Next

LEMMA RestType ==
  ASSUME CloudAssumption, LinkTyped, InStep, [Next]_vars
  PROVE  /\ live' \subseteq SignIns /\ orphans' \subseteq SignIns /\ removing' \in BOOLEAN
         /\ env' \in Maybe /\ cmd' \in {"add", "reconnect"} /\ late' \in {"none", "storage"}
         /\ device' \in Users \cup {None} /\ at' \in Steps
<1>t. /\ orphans \subseteq SignIns /\ removing \in BOOLEAN
      /\ device \in Users \cup {None} /\ at \in Steps /\ None \in Maybe
  BY DEF LinkTyped, CloudTypeOK, Maybe
<1>e. at \in {"exchange", "bind"} => env \in SignIns
  BY LinkFacts DEF InStep, Asking, Building
<1>1. CASE (\E c \in {"add", "reconnect"} : Start(c)) \/ Retire \/ DropRetiring \/ Begin
  BY <1>1, LinkFacts, <1>t, <1>e DEF Start, To, Retire, DropRetiring, Begin, command, people,
     history, Write, EndWith, Steps, Unnoticed, None
<1>2. CASE GoOn
  <2>1. Resumable \in Maybe
    BY <1>t, LinkFacts DEF Resumable, Slots
  <2> QED
    BY <1>2, <2>1, <1>t, LinkFacts DEF GoOn, people, history, Steps
<1>3. CASE \E t \in Terminals : OpenBrowser(t)
  <2>1. PICK t \in Terminals : OpenBrowser(t)
    BY <1>3
  <2> QED
    BY <2>1, LinkFacts, <1>t, <1>e DEF OpenBrowser, To, command, people, history, Write,
       EndWith, Steps, Unnoticed, None
<1>4. CASE \E t \in Terminals : LeaveBrowser(t)
  <2>1. PICK t \in Terminals : LeaveBrowser(t)
    BY <1>4
  <2> QED
    BY <2>1, LinkFacts, <1>t, <1>e DEF LeaveBrowser, To, command, people, history, Write,
       EndWith, Steps, Unnoticed, None
<1>5. CASE \E t \in Terminals : ComeBack(t)
  <2>1. PICK t \in Terminals : ComeBack(t)
    BY <1>5
  <2> QED
    BY <2>1, LinkFacts, <1>t, <1>e DEF ComeBack, To, command, people, history, Write, EndWith,
       Steps, Unnoticed, None
<1>6. CASE Save \/ Exchange \/ Create
  BY <1>6, LinkFacts, <1>t, <1>e DEF Save, To, Exchange, Create, command, people, history,
     Write, EndWith, Steps, Unnoticed, None
<1>7. CASE Unmint \/ Drop \/ Forget
  BY <1>7, LinkFacts, <1>t, <1>e DEF Unmint, To, Drop, Forget, command, people, history, Write,
     EndWith, Steps, Unnoticed, None
<1>8. CASE Note \/ Verify \/ Bind \/ Conflict
  BY <1>8, LinkFacts, <1>t, <1>e DEF Note, To, Verify, Bind, Conflict, command, people,
     history, Write, EndWith, Steps, Unnoticed, None
<1>9. CASE Bound \/ Promote \/ Commit
  BY <1>9, LinkFacts, <1>t, <1>e DEF Bound, To, Promote, Commit, command, people, history,
     Write, EndWith, Steps, Unnoticed, None
<1>10. CASE Settle \/ Finish \/ RollBack \/ DropPending \/ Restore
  BY <1>10, LinkFacts, <1>t, <1>e DEF Settle, To, Finish, RollBack, DropPending, Restore,
     command, people, history, Write, EndWith, Steps, Unnoticed, None
<1>11. CASE Remove \/ RemoveConfirmed \/ Revoke \/ Attest
  BY <1>11, LinkFacts, <1>t, <1>e DEF Remove, To, RemoveConfirmed, Revoke, Attest, command,
     people, history, Write, EndWith, Steps, Unnoticed, None
<1>12. CASE Erase \/ Removed \/ Stop \/ UNCHANGED vars
  BY <1>12, LinkFacts, <1>t, <1>e DEF Erase, To, Removed, Stop, vars, command, people, history,
     Write, EndWith, Steps, Unnoticed, None
<1> QED
  BY <1>1, <1>2, <1>3, <1>4, <1>5, <1>6, <1>7, <1>8, <1>9, <1>10, <1>11, <1>12 DEF Next

LEMMA PeopleType ==
  ASSUME CloudAssumption, LinkTyped, [Next]_vars
  PROVE  /\ waits' \in [Terminals -> [n : Maybe, cmd : {"add", "reconnect"}, cloud : Lifecycles]]
         /\ signIns' \in Maybe
         /\ gen' \in [SignIns -> Maybe] /\ user' \in [SignIns -> Users \cup {None}]
<1>1. CASE (\E c \in {"add", "reconnect"} : Start(c)) \/ Retire \/ DropRetiring \/ Begin
  BY <1>1, LinkFacts DEF Start, To, Retire, DropRetiring, Begin, people
<1>2. CASE GoOn
  BY <1>2, LinkFacts DEF GoOn, To, people
<1>3. CASE \E t \in Terminals : OpenBrowser(t)
  <2>1. PICK t \in Terminals : OpenBrowser(t)
    BY <1>3
  <2>2. /\ signIns' = signIns + 1 /\ signIns' \in SignIns /\ signIns' \in Maybe
        /\ gen' = [gen EXCEPT ![signIns'] = Generation(signIns')]
        /\ \E u \in Users : user' = [user EXCEPT ![signIns'] = u]
    BY <2>1 DEF OpenBrowser, Maybe
  <2>3. Generation(signIns') \in Maybe
    BY <2>2, LinkFacts DEF Generation
  <2>4. \E c \in Lifecycles :
          waits' = [waits EXCEPT ![t] = [n |-> signIns', cmd |-> cmd, cloud |-> c]]
    <3>1. [cloud EXCEPT !.pending = signIns'] \in Lifecycles
      BY <2>2, LinkFacts, CloudTyped
    <3> QED
      BY <2>1, <3>1, LinkFacts DEF OpenBrowser
  <2>5. waits' \in [Terminals -> [n : Maybe, cmd : {"add", "reconnect"}, cloud : Lifecycles]]
    BY <2>2, <2>4, LinkFacts
  <2> QED
    BY <2>2, <2>3, <2>5, LinkFacts
<1>4. CASE \E t \in Terminals : LeaveBrowser(t)
  <2>1. NoWait \in [n : Maybe, cmd : {"add", "reconnect"}, cloud : Lifecycles]
    BY LinkFacts, CloudTyped DEF None, NoWait, Maybe
  <2> QED
    BY <1>4, LinkFacts, <2>1 DEF LeaveBrowser, people
<1>5. CASE \E t \in Terminals : ComeBack(t)
  <2>1. NoWait \in [n : Maybe, cmd : {"add", "reconnect"}, cloud : Lifecycles]
    BY LinkFacts, CloudTyped DEF None, NoWait, Maybe
  <2> QED
    BY <1>5, LinkFacts, <2>1 DEF ComeBack, people
<1>6. CASE Save \/ Exchange \/ Create
  BY <1>6, LinkFacts DEF Save, To, Exchange, Create, people
<1>7. CASE Unmint \/ Drop \/ Forget
  BY <1>7, LinkFacts DEF Unmint, To, Drop, Forget, people
<1>8. CASE Note \/ Verify \/ Bind \/ Conflict
  BY <1>8, LinkFacts DEF Note, To, Verify, Bind, Conflict, people
<1>9. CASE Bound \/ Promote \/ Commit
  BY <1>9, LinkFacts DEF Bound, To, Promote, Commit, people
<1>10. CASE Settle \/ Finish \/ RollBack \/ DropPending \/ Restore
  BY <1>10, LinkFacts DEF Settle, To, Finish, RollBack, DropPending, Restore, people
<1>11. CASE Remove \/ RemoveConfirmed \/ Revoke \/ Attest
  BY <1>11, LinkFacts DEF Remove, To, RemoveConfirmed, Revoke, Attest, people
<1>12. CASE Erase \/ Removed \/ Stop \/ UNCHANGED vars
  BY <1>12, LinkFacts DEF Erase, To, Removed, Stop, vars, people
<1> QED
  BY <1>1, <1>2, <1>3, <1>4, <1>5, <1>6, <1>7, <1>8, <1>9, <1>10, <1>11, <1>12 DEF Next

LEMMA LinkTypeInit == ASSUME CloudAssumption, Init PROVE LinkTyped
<1>1. None \in Maybe /\ 0 \in Maybe
  BY DEF None, Maybe
<1>2. NoCloud \in Lifecycles
  BY <1>1 DEF NoCloud, Lifecycles, States
<1>3. NoWait \in [n : Maybe, cmd : {"add", "reconnect"}, cloud : Lifecycles]
  BY <1>1, <1>2 DEF NoWait
<1> QED
  BY <1>1, <1>2, <1>3 DEF Init, LinkTyped, CloudTypeOK, Steps

LEMMA LinkTypeNext ==
  ASSUME CloudAssumption, LinkTyped, InStep, [Next]_vars PROVE LinkTyped'
BY CloudType, SlotType, RestType, PeopleType DEF LinkTyped, CloudTypeOK

-----------------------------------------------------------------------------
(* What the steps do, field by field *)

\* The lifecycle after a step, whatever hold it has.
Becomes(state, current, pending, done) ==
  /\ cloud'.state = state /\ cloud'.current = current
  /\ cloud'.pending = pending /\ cloud'.done = done
StaysAsIs == Becomes(cloud.state, cloud.current, cloud.pending, cloud.done)

LEMMA HeldFacts ==
  ASSUME CloudAssumption, LinkTyped, NEW h
  PROVE  /\ Held(h).state = cloud.state /\ Held(h).current = cloud.current
         /\ Held(h).pending = cloud.pending /\ Held(h).done = cloud.done
BY LinkFacts DEF Held, Lifecycles

\* Each field of a lifecycle that is written.
LEMMA StateFacts ==
  ASSUME CloudAssumption, LinkTyped, NEW s, NEW n, NEW d
  PROVE  /\ cloud' = [cloud EXCEPT !.state = s] =>
              Becomes(s, cloud.current, cloud.pending, cloud.done)
         /\ cloud' = [cloud EXCEPT !.pending = n] =>
              Becomes(cloud.state, cloud.current, n, cloud.done)
         /\ cloud' = [cloud EXCEPT !.done = d] =>
              Becomes(cloud.state, cloud.current, cloud.pending, d)
         /\ cloud' = [cloud EXCEPT !.pending = n, !.state = s] =>
              Becomes(s, cloud.current, n, cloud.done)
         /\ cloud' = [cloud EXCEPT !.current = n, !.state = s] =>
              Becomes(s, n, cloud.pending, cloud.done)
BY LinkFacts DEF Lifecycles, Becomes

\* A write of the keyring empties the one slot or it does not.
LEMMA SlotFacts ==
  ASSUME CloudAssumption, LinkTyped, NEW s \in Slots, NEW n
  PROVE  /\ [slot EXCEPT ![s] = n][s] = n
         /\ \A r \in Slots \ {s} : [slot EXCEPT ![s] = n][r] = slot[r]
BY LinkFacts

\* A write is done, or its outcome is in doubt and the command ends.
LEMMA WriteFacts ==
  ASSUME CloudAssumption, LinkTyped, NEW new, NEW next, NEW h, Write(new, next, h)
  PROVE  /\ (slot' = new /\ at' = next) \/ (slot' \in {slot, new} /\ at' = "idle")
         /\ StaysAsIs /\ UNCHANGED <<cmd, env, late>>
BY HeldFacts DEF Write, EndWith, StaysAsIs, Becomes

\* What each step does, field by field.
LEMMA DropRetiringFacts ==
  ASSUME CloudAssumption, LinkTyped, DropRetiring
  PROVE  /\ at = "drop retiring" /\ slot'["pending"] = slot["pending"]
         /\ slot'["current"] = slot["current"] /\ slot'["retiring"] \in {slot["retiring"], None}
         /\ (at' = "retire" /\ slot'["retiring"] = None) \/ at' = "idle"
         /\ StaysAsIs /\ UNCHANGED <<live, device, people, waits, cmd, env, late, history>>
<1> DEFINE new == [slot EXCEPT !["retiring"] = None]
<1>1. at = "drop retiring" /\ Write(new, "retire", "storage")
      /\ UNCHANGED <<live, device, people, waits, history>>
  BY DEF DropRetiring
<1>2. new["retiring"] = None /\ new["pending"] = slot["pending"] /\ new["current"] = slot["current"]
  BY LinkFacts DEF Slots
<1> HIDE DEF new
<1> QED
  BY <1>1, <1>2, WriteFacts

LEMMA DropFacts ==
  ASSUME CloudAssumption, LinkTyped, Drop
  PROVE  /\ at = "drop" /\ slot["pending"] \in {None, env} /\ slot'["current"] = slot["current"]
         /\ slot'["retiring"] = slot["retiring"] /\ slot'["pending"] \in {slot["pending"], None}
         /\ (at' = "forget" /\ slot'["pending"] = None) \/ at' = "idle"
         /\ StaysAsIs /\ UNCHANGED <<live, device, people, waits, cmd, env, late, history>>
<1> DEFINE new == [slot EXCEPT !["pending"] = None]
<1>1. /\ at = "drop" /\ slot["pending"] \in {None, env} /\ Write(new, "forget", "authorization")
      /\ UNCHANGED <<live, device, people, waits, history>>
  BY DEF Drop
<1>2. new["pending"] = None /\ new["retiring"] = slot["retiring"]
        /\ new["current"] = slot["current"]
  BY LinkFacts DEF Slots
<1> HIDE DEF new
<1> QED
  BY <1>1, <1>2, WriteFacts

LEMMA DropPendingFacts ==
  ASSUME CloudAssumption, LinkTyped, DropPending
  PROVE  /\ at = "drop pending" /\ slot'["current"] = slot["current"]
         /\ slot'["retiring"] = slot["retiring"] /\ slot'["pending"] \in {slot["pending"], None}
         /\ (at' = "restore" /\ slot'["pending"] = None) \/ at' = "idle"
         /\ StaysAsIs /\ UNCHANGED <<live, device, people, waits, cmd, env, late, history>>
<1> DEFINE new == [slot EXCEPT !["pending"] = None]
<1>1. /\ at = "drop pending" /\ Write(new, "restore", "authorization")
      /\ UNCHANGED <<live, device, people, waits, history>>
  BY DEF DropPending
<1>2. new["pending"] = None /\ new["retiring"] = slot["retiring"]
        /\ new["current"] = slot["current"]
  BY LinkFacts DEF Slots
<1> HIDE DEF new
<1> QED
  BY <1>1, <1>2, WriteFacts

LEMMA EraseFacts ==
  ASSUME CloudAssumption, LinkTyped, Erase
  PROVE  /\ at = "erase" /\ at' \in {"erase", "idle"} /\ \E s \in Slots : slot[s] # None
         /\ \A s \in Slots : slot'[s] \in {slot[s], None}
         /\ StaysAsIs /\ UNCHANGED <<live, device, people, waits, cmd, env, late, history>>
<1> DEFINE new == [slot EXCEPT ![NextToErase] = None]
<1>1. /\ at = "erase" /\ slot[NextToErase] # None /\ Write(new, "erase", "storage")
      /\ UNCHANGED <<live, device, people, waits, history>>
  BY DEF Erase
<1>2. NextToErase \in Slots
  BY DEF NextToErase, Slots
<1>3. \A s \in Slots : new[s] \in {slot[s], None}
  BY <1>2, LinkFacts
<1> HIDE DEF new
<1> QED
  BY <1>1, <1>2, <1>3, WriteFacts

\* One write of the promotion: the pending slot emptied, the previous sign-in kept, or
\* the current one replaced.
LEMMA PromoteFacts ==
  ASSUME CloudAssumption, LinkTyped, Promote
  PROVE  /\ at = "promote" /\ at' \in {"promote", "commit", "idle"}
         /\ at' = "commit" => InPlace /\ slot'["pending"] = None
         /\ \/ /\ InPlace
               /\ slot'["current"] = slot["current"] /\ slot'["retiring"] = slot["retiring"]
               /\ slot'["pending"] \in {slot["pending"], None}
            \/ /\ ~InPlace /\ ToKeep
               /\ slot'["current"] = slot["current"] /\ slot'["pending"] = slot["pending"]
               /\ slot'["retiring"] \in {None, slot["current"]}
            \/ /\ ~InPlace /\ ~ToKeep
               /\ slot["retiring"] # None => SameGeneration(slot["retiring"], slot["current"])
               /\ slot'["retiring"] = slot["retiring"] /\ slot'["pending"] = slot["pending"]
               /\ slot'["current"] \in {slot["current"], slot["pending"]}
         /\ StaysAsIs /\ UNCHANGED <<live, device, people, waits, cmd, env, late, history>>
<1> DEFINE kept == [slot EXCEPT !["retiring"] = slot["current"]]
           replaced == [slot EXCEPT !["current"] = slot["pending"]]
           cleared == [slot EXCEPT !["pending"] = None]
<1>1. at = "promote" /\ UNCHANGED <<live, device, people, waits, history>>
  BY DEF Promote
<1>2. kept["retiring"] = slot["current"] /\ kept["current"] = slot["current"]
      /\ kept["pending"] = slot["pending"]
  BY LinkFacts DEF Slots
<1>3. replaced["retiring"] = slot["retiring"] /\ replaced["current"] = slot["pending"]
      /\ replaced["pending"] = slot["pending"]
  BY LinkFacts DEF Slots
<1>4. cleared["retiring"] = slot["retiring"] /\ cleared["current"] = slot["current"]
      /\ cleared["pending"] = None
  BY LinkFacts DEF Slots
<1>5. \/ InPlace /\ Write(cleared, "commit", "storage")
      \/ ~InPlace /\ ToKeep /\ Write(kept, "promote", "storage")
      \/ /\ ~InPlace /\ ~ToKeep /\ Write(replaced, "promote", "storage")
         /\ slot["retiring"] # None => SameGeneration(slot["retiring"], slot["current"])
  BY DEF Promote
<1> HIDE DEF kept, replaced, cleared
<1>6. CASE InPlace /\ Write(cleared, "commit", "storage")
  <2>1. /\ (slot' = cleared /\ at' = "commit") \/ (slot' \in {slot, cleared} /\ at' = "idle")
        /\ StaysAsIs /\ UNCHANGED <<cmd, env, late>>
    BY <1>6, WriteFacts
  <2> QED
    BY <1>1, <1>4, <1>6, <2>1
<1>7. CASE ~InPlace /\ ToKeep /\ Write(kept, "promote", "storage")
  <2>1. /\ (slot' = kept /\ at' = "promote") \/ (slot' \in {slot, kept} /\ at' = "idle")
        /\ StaysAsIs /\ UNCHANGED <<cmd, env, late>>
    BY <1>7, WriteFacts
  <2> QED
    BY <1>1, <1>2, <1>7, <2>1 DEF ToKeep
<1>8. CASE /\ ~InPlace /\ ~ToKeep /\ Write(replaced, "promote", "storage")
           /\ slot["retiring"] # None => SameGeneration(slot["retiring"], slot["current"])
  <2>1. /\ (slot' = replaced /\ at' = "promote") \/ (slot' \in {slot, replaced} /\ at' = "idle")
        /\ StaysAsIs /\ UNCHANGED <<cmd, env, late>>
    BY <1>8, WriteFacts
  <2> QED
    BY <1>1, <1>3, <1>8, <2>1
<1> QED
  BY <1>5, <1>6, <1>7, <1>8

\* A token that was stored, or is to be revoked.
LEMMA CreateFacts ==
  ASSUME CloudAssumption, LinkTyped, Create
  PROVE  /\ at = "create" /\ at' \in {"note", "unmint"}
         /\ slot'["current"] = slot["current"] /\ slot'["retiring"] = slot["retiring"]
         /\ \/ slot'["pending"] = env /\ orphans' = orphans \cup Unnoticed
            \/ /\ at' = "unmint" /\ slot' = slot /\ orphans' = orphans
         /\ UNCHANGED <<cloud, live, device, people, waits, removing, cmd, env>>
<1> DEFINE new == [slot EXCEPT !["pending"] = env]
<1>1. /\ at = "create" /\ UNCHANGED <<cloud, live, device, people, waits, removing, cmd, env>>
      /\ \/ /\ slot' = new /\ at' = "note" /\ orphans' = orphans \cup Unnoticed
         \/ slot' = slot /\ at' = "unmint" /\ orphans' = orphans
         \/ /\ slot' \in {slot, new} /\ at' = "unmint"
            /\ orphans' = IF slot' = new THEN orphans \cup Unnoticed ELSE orphans
  BY DEF Create
<1>2. new["pending"] = env /\ new["retiring"] = slot["retiring"] /\ new["current"] = slot["current"]
  BY LinkFacts DEF Slots
<1> HIDE DEF new
<1> QED
  BY <1>1, <1>2

\* A lifecycle never falls back from where it is.
LEMMA AdvancedFacts ==
  ASSUME CloudAssumption, LinkTyped, InStep, at \in Building, NEW state,
         state \in {"token_stored", "cloud_verified", "device_bound_or_paired"},
         cloud' = Advanced(state)
  PROVE  /\ Becomes(cloud'.state, cloud.current, cloud.pending, cloud.done)
         /\ cloud'.state \in {cloud.state, state}
         /\ cloud.state = "authorizing" => cloud'.state = state
         /\ BoundState => cloud'.state = cloud.state
         /\ state = "device_bound_or_paired" => cloud'.state = state
<1>1. cloud.state \in {"authorizing", "token_stored", "cloud_verified", "device_bound_or_paired"}
  BY DEF InStep, Unfinished
<1>2. CASE cloud' = [cloud EXCEPT !.state = state] /\ Rank(cloud.state) < Rank(state)
  <2>1. Becomes(state, cloud.current, cloud.pending, cloud.done)
    BY <1>2, StateFacts
  <2>2. cloud'.state = state
    BY <2>1 DEF Becomes
  <2>3. ~BoundState \/ cloud.state = state
    BY <1>1, <1>2 DEF Rank, BoundState
  <2> QED
    BY <2>1, <2>2, <2>3
<1>3. CASE cloud' = cloud /\ ~(Rank(cloud.state) < Rank(state))
  BY <1>1, <1>3 DEF Rank, BoundState, Becomes
<1> QED
  BY <1>2, <1>3 DEF Advanced

\* The steps that leave the slots alone.
LEMMA BeginFacts ==
  ASSUME CloudAssumption, LinkTyped, Begin
  PROVE  /\ at = "begin" /\ at' = "authorize"
         /\ \/ cloud' = cloud /\ cloud # NoCloud /\ ~(cmd = "reconnect" /\ Ready)
            \/ /\ cloud = NoCloud \/ (cmd = "reconnect" /\ Ready)
               /\ Becomes("authorizing", cloud.current, cloud.pending, cloud.done)
         /\ UNCHANGED <<slot, live, device, people, waits, cmd, env, late, history>>
BY StateFacts DEF Begin, To

LEMMA LeaveFacts ==
  ASSUME CloudAssumption, LinkTyped, NEW t \in Terminals, LeaveBrowser(t)
  PROVE  /\ waits'[t] = NoWait /\ \A u \in Terminals \ {t} : waits'[u] = waits[u]
         /\ UNCHANGED <<cloud, slot, live, device, people, command, history>>
BY LinkFacts DEF LeaveBrowser

LEMMA ComeBackFacts ==
  ASSUME CloudAssumption, LinkTyped, NEW t \in Terminals, ComeBack(t)
  PROVE  /\ at = "idle" /\ at' = "save" /\ waits[t] # NoWait /\ waits[t].cloud = cloud
         /\ cmd' = waits[t].cmd /\ env' = waits[t].n
         /\ waits'[t] = NoWait /\ \A u \in Terminals \ {t} : waits'[u] = waits[u]
         /\ UNCHANGED <<cloud, slot, live, device, people, history>>
BY LinkFacts DEF ComeBack, ConfigAsLeft

LEMMA SaveFacts ==
  ASSUME CloudAssumption, LinkTyped, Save
  PROVE  /\ at = "save" /\ at' = "exchange"
         /\ Becomes(cloud.state, cloud.current, env, cloud.done)
         /\ UNCHANGED <<slot, live, device, people, waits, cmd, env, late, history>>
BY StateFacts DEF Save, To

LEMMA ExchangeFacts ==
  ASSUME CloudAssumption, LinkTyped, Exchange
  PROVE  /\ at = "exchange" /\ at' \in {"create", "idle"} /\ live' \in {live, live \cup {env}}
         /\ at' = "create" => env \in live'
         /\ StaysAsIs /\ UNCHANGED <<slot, device, people, waits, cmd, env, late, history>>
BY HeldFacts DEF Exchange, EndWith, StaysAsIs, Becomes

LEMMA UnmintFacts ==
  ASSUME CloudAssumption, LinkTyped, Unmint
  PROVE  /\ at = "unmint" /\ at' \in {"drop", "idle"} /\ live' \in {live, live \ {env}}
         /\ at' = "drop" => live' = live \ {env}
         /\ StaysAsIs /\ UNCHANGED <<slot, device, people, waits, cmd, env, late, history>>
BY HeldFacts DEF Unmint, EndWith, StaysAsIs, Becomes

LEMMA ForgetFacts ==
  ASSUME CloudAssumption, LinkTyped, Forget
  PROVE  /\ at = "forget" /\ at' = "idle" /\ orphans' = orphans \cup Unnoticed
         /\ Becomes(cloud.state, cloud.current, None, cloud.done)
         /\ UNCHANGED <<slot, live, device, people, waits, cmd, env, late, removing>>
<1>1. Held(late) \in Lifecycles
  BY LinkFacts DEF Held, Lifecycles
<1> QED
  BY <1>1, HeldFacts DEF Forget, To, Becomes, Lifecycles

LEMMA NoteFacts ==
  ASSUME CloudAssumption, LinkTyped, InStep, Note
  PROVE  /\ at = "note" /\ at' = "verify"
         /\ Becomes(cloud'.state, cloud.current, cloud.pending, cloud.done)
         /\ cloud'.state \in {cloud.state, "token_stored"} /\ cloud'.state # "authorizing"
         /\ BoundState => cloud'.state = cloud.state
         /\ UNCHANGED <<slot, live, device, people, waits, cmd, env, late, history>>
<1>1. at = "note" /\ cloud' = Advanced("token_stored") /\ at' = "verify"
      /\ UNCHANGED <<slot, live, device, people, waits, cmd, env, late, history>>
  BY DEF Note, To
<1> QED
  BY <1>1, AdvancedFacts DEF Building

LEMMA VerifyFacts ==
  ASSUME CloudAssumption, LinkTyped, InStep, Verify
  PROVE  /\ at = "verify" /\ at' \in {"bind", "idle"}
         /\ Becomes(cloud'.state, cloud.current, cloud.pending, cloud.done)
         /\ cloud'.state \in {cloud.state, "cloud_verified"}
         /\ at' = "bind" => cloud'.state # "authorizing"
         /\ at' = "idle" => cloud'.state = cloud.state
         /\ BoundState => cloud'.state = cloud.state
         /\ UNCHANGED <<slot, live, device, people, waits, cmd, env, late, history>>
<1>1. /\ at = "verify" /\ UNCHANGED <<slot, live, device, people, waits, cmd, env, late, history>>
      /\ \/ at' = "bind" /\ cloud' = Advanced("cloud_verified")
         \/ at' = "idle" /\ \E h \in {"identity", "storage"} : cloud' = Held(h)
  BY DEF Verify, EndWith
<1>2. CASE at' = "bind" /\ cloud' = Advanced("cloud_verified")
  BY <1>1, <1>2, AdvancedFacts DEF Building
<1>3. CASE at' = "idle" /\ \E h \in {"identity", "storage"} : cloud' = Held(h)
  BY <1>1, <1>3, HeldFacts DEF Becomes
<1> QED
  BY <1>1, <1>2, <1>3

LEMMA BindFacts ==
  ASSUME CloudAssumption, LinkTyped, Bind
  PROVE  /\ at = "bind" /\ at' \in {"bound", "idle"} /\ ~OtherPerson
         /\ device' \in {device, user[env]}
         /\ at' = "bound" => device' = user[env]
         /\ StaysAsIs /\ UNCHANGED <<slot, live, people, waits, cmd, env, late, history>>
BY HeldFacts DEF Bind, EndWith, StaysAsIs, Becomes

LEMMA ConflictFacts ==
  ASSUME CloudAssumption, LinkTyped, Conflict
  PROVE  /\ at = "bind" /\ OtherPerson
         /\ \/ /\ cmd = "reconnect" /\ at' = "roll back"
               /\ Becomes("rolling_back", cloud.current, cloud.pending, cloud.done)
            \/ cmd = "add" /\ at' = "idle" /\ StaysAsIs
         /\ UNCHANGED <<slot, live, device, people, waits, cmd, env, late, history>>
<1>1. CASE cmd = "reconnect" /\ cloud' = [cloud EXCEPT !.state = "rolling_back"]
  BY <1>1, StateFacts DEF Conflict, EndWith
<1>2. CASE cmd = "add" /\ EndWith("identity")
  BY <1>2, HeldFacts DEF Conflict, EndWith, StaysAsIs, Becomes
<1> QED
  BY <1>1, <1>2 DEF Conflict

LEMMA BoundFacts ==
  ASSUME CloudAssumption, LinkTyped, InStep, Bound
  PROVE  /\ at = "bound" /\ at' = "promote"
         /\ Becomes("device_bound_or_paired", cloud.current, cloud.pending, cloud.done)
         /\ UNCHANGED <<slot, live, device, people, waits, cmd, env, late, history>>
<1>1. at = "bound" /\ cloud' = Advanced("device_bound_or_paired") /\ at' = "promote"
      /\ UNCHANGED <<slot, live, device, people, waits, cmd, env, late, history>>
  BY DEF Bound, To
<1>2. /\ Becomes(cloud'.state, cloud.current, cloud.pending, cloud.done)
      /\ cloud'.state = "device_bound_or_paired"
  BY <1>1, AdvancedFacts DEF Building
<1> QED
  BY <1>1, <1>2

LEMMA CommitFacts ==
  ASSUME CloudAssumption, LinkTyped, Commit
  PROVE  /\ at = "commit" /\ at' = "settle" /\ removing' = FALSE
         /\ Becomes("committed", env, cloud.pending, cloud.done)
         /\ UNCHANGED <<slot, live, device, people, waits, cmd, env, late, orphans>>
BY StateFacts DEF Commit, To

LEMMA SettleFacts ==
  ASSUME CloudAssumption, LinkTyped, Settle
  PROVE  /\ at = "settle" /\ at' = "retire"
         /\ Becomes("retiring_previous", cloud.current, None, cloud.done)
         /\ UNCHANGED <<slot, live, device, people, waits, cmd, env, late, history>>
BY StateFacts DEF Settle, To

LEMMA FinishFacts ==
  ASSUME CloudAssumption, LinkTyped, Finish
  PROVE  /\ at = "finish" /\ at' = "idle"
         /\ Becomes("ready", cloud.current, cloud.pending, cloud.done)
         /\ UNCHANGED <<slot, live, device, people, waits, cmd, env, late, history>>
BY StateFacts DEF Finish, To

LEMMA RollBackFacts ==
  ASSUME CloudAssumption, LinkTyped, RollBack
  PROVE  /\ at = "roll back" /\ at' \in {"restore", "drop pending", "idle"}
         /\ live' \in {live, live \ {slot["pending"]}}
         /\ at' = "restore" => slot["pending"] = None
         /\ at' = "drop pending" => live' = live \ {slot["pending"]}
         /\ StaysAsIs /\ UNCHANGED <<slot, device, people, waits, cmd, env, late, history>>
BY HeldFacts DEF RollBack, EndWith, StaysAsIs, Becomes

LEMMA RestoreFacts ==
  ASSUME CloudAssumption, LinkTyped, Restore
  PROVE  /\ at = "restore" /\ at' = "idle"
         /\ Becomes("ready", cloud.current, None, cloud.done)
         /\ UNCHANGED <<slot, live, device, people, waits, cmd, env, late, history>>
BY StateFacts DEF Restore, To

LEMMA RemoveFacts ==
  ASSUME CloudAssumption, LinkTyped, Remove
  PROVE  /\ at = "idle" /\ cloud # NoCloud
         /\ \/ cloud.done = NotDone /\ Unverifiable /\ at' = "idle" /\ removing' = removing
            \/ cloud.done = NotDone /\ ~Unverifiable /\ at' = "revoke" /\ removing' = TRUE
            \/ cloud.done # NotDone /\ at' = "erase" /\ removing' = TRUE
         /\ StaysAsIs
         /\ UNCHANGED <<slot, live, device, people, waits, cmd, env, late, orphans>>
BY HeldFacts DEF Remove, EndWith, StaysAsIs, Becomes

LEMMA RemoveConfirmedFacts ==
  ASSUME CloudAssumption, LinkTyped, RemoveConfirmed
  PROVE  /\ at = "idle" /\ cloud.done = NotDone /\ Unverifiable /\ live' = live \ ToDelete
         /\ at' = "erase" /\ removing' = TRUE
         /\ Becomes(cloud.state, cloud.current, cloud.pending, slot)
         /\ UNCHANGED <<slot, device, people, waits, cmd, env, late, orphans>>
BY StateFacts DEF RemoveConfirmed, To

LEMMA AttestFacts ==
  ASSUME CloudAssumption, LinkTyped, Attest
  PROVE  /\ at = "revoke" /\ at' = "erase" /\ ToRevoke = {}
         /\ \/ /\ \E s \in Slots : slot[s] # None
               /\ Becomes(cloud.state, cloud.current, cloud.pending, slot)
            \/ (\A s \in Slots : slot[s] = None) /\ cloud' = cloud
         /\ UNCHANGED <<slot, live, device, people, waits, cmd, env, late, history>>
BY StateFacts DEF Attest, To, StaysAsIs, Becomes

LEMMA RemovedFacts ==
  ASSUME CloudAssumption, LinkTyped, Removed
  PROVE  /\ at = "erase" /\ at' = "idle" /\ cloud' = NoCloud /\ removing' = FALSE
         /\ \A s \in Slots : slot[s] = None
         /\ Becomes("none", None, None, NotDone)
         /\ UNCHANGED <<slot, live, device, people, waits, cmd, env, late, orphans>>
BY DEF Removed, To, NextToErase, Becomes, NoCloud, Slots

\* What opening a browser does.
LEMMA OpenFacts ==
  ASSUME CloudAssumption, LinkTyped, Numbered, Names, InStep, NEW t \in Terminals, OpenBrowser(t)
  PROVE  /\ at = "authorize" /\ at' = "idle" /\ cloud.state = "authorizing"
         /\ slot["pending"] = None /\ cloud.done = NotDone
         /\ signIns' = signIns + 1 /\ signIns' \in SignIns /\ signIns' # None /\ signIns \in Nat
         /\ \A n \in 1..signIns : gen'[n] = gen[n] /\ user'[n] = user[n]
         /\ cloud.pending = None => cloud'.pending = None /\ gen'[signIns'] = signIns'
         /\ cloud.pending # None => /\ cloud.pending \in 1..signIns /\ cloud'.pending = signIns'
                                   /\ gen'[signIns'] = gen[cloud.pending]
         /\ cloud'.state = "authorizing" /\ cloud'.current = cloud.current
         /\ cloud'.done = NotDone /\ cloud'.hold = cloud.hold
         /\ UNCHANGED <<slot, live, device, cmd, env, late, removing, orphans>>
<1>1. /\ at = "authorize" /\ at' = "idle" /\ Resumable = None /\ Fits
      /\ signIns' = signIns + 1 /\ signIns' \in SignIns
      /\ gen' = [gen EXCEPT ![signIns'] = Generation(signIns')]
      /\ \E u \in Users : user' = [user EXCEPT ![signIns'] = u]
      /\ cloud' = (IF cloud.pending # None THEN [cloud EXCEPT !.pending = signIns'] ELSE cloud)
      /\ UNCHANGED <<slot, live, device, cmd, env, late, removing, orphans>>
  BY DEF OpenBrowser, To, history
<1>2. signIns \in Nat /\ signIns' # None /\ \A n \in 1..signIns : n # signIns' /\ n \in SignIns
  BY <1>1, LinkFacts DEF SignIns, CloudAssumption
<1>3. \A n \in 1..signIns : gen'[n] = gen[n] /\ user'[n] = user[n]
  BY <1>1, <1>2, LinkFacts
<1>4. cloud.state = "authorizing" /\ slot["pending"] = None /\ cloud.done = NotDone
  BY <1>1 DEF Resumable, Fits, InStep, Unfinished, Names
<1>5. cloud.pending # None => cloud.pending \in 1..signIns
  BY LinkFacts DEF Numbered, SignIns
<1>6. gen'[signIns'] = Generation(signIns')
  BY <1>1, LinkFacts
<1>7. /\ cloud'.state = cloud.state /\ cloud'.current = cloud.current
      /\ cloud'.done = cloud.done /\ cloud'.hold = cloud.hold
      /\ cloud'.pending = IF cloud.pending # None THEN signIns' ELSE None
  <2>2. cloud \in [state : States, current : Maybe, pending : Maybe,
                   hold : {"none", "authorization", "identity", "storage", "outcome"},
                   done : [Slots -> Maybe] \cup {NotDone}]
    BY LinkFacts DEF Lifecycles
  <2> QED
    BY <1>1, <2>2
<1> QED
  BY <1>1, <1>2, <1>3, <1>4, <1>5, <1>6, <1>7 DEF Generation

LEMMA OpenWaits ==
  ASSUME NEW t \in Terminals, CloudAssumption, LinkTyped, OpenBrowser(t)
  PROVE  /\ waits[t] = NoWait /\ waits'[t] = [n |-> signIns', cmd |-> cmd, cloud |-> cloud']
         /\ \A u \in Terminals \ {t} : waits'[u] = waits[u]
BY LinkFacts DEF OpenBrowser, To

\* A terminal that does not wait remembers nothing.
LEMMA NoWaitFacts ==
  /\ NoWait.n = None /\ NoWait.cmd = "add" /\ NoWait.cloud = NoCloud
  /\ NoCloud.state = "none" /\ NoCloud.current = None /\ NoCloud.pending = None
  /\ NoCloud.done = NotDone
BY DEF NoWait, NoCloud

\* What a removal lists is a list.
LEMMA ListedFacts == ASSUME CloudAssumption, LinkTyped PROVE slot # NotDone
<1>1. MaxSignIns + 1 \notin Maybe
  BY DEF CloudAssumption, Maybe, SignIns, None
<1>2. NotDone["current"] = MaxSignIns + 1 /\ slot["current"] \in Maybe
  BY LinkFacts DEF NotDone, Slots
<1> QED
  BY <1>1, <1>2

-----------------------------------------------------------------------------
(* Each part of the invariant is kept *)

\* A state that needs a sign-in is only reached with one.
LEMMA NamesNext ==
  ASSUME CloudAssumption, LinkTyped, Numbered, Names, InStep, [Next]_vars
  PROVE  Names'
<1>1. CASE (\E c \in {"add", "reconnect"} : Start(c)) \/ Retire \/ DropRetiring \/ Begin
  BY <1>1, LinkFacts, DropRetiringFacts, BeginFacts DEF Start, To, Retire, Becomes, StaysAsIs,
     command, people, history, Names, InStep, None, Configured, Unfinished, Starting, Asking,
     Building, BoundState, NoCloud, Ready
<1>2. CASE GoOn
  BY <1>2, LinkFacts DEF GoOn, To, Becomes, StaysAsIs, command, people, history, Names, InStep,
     None, Configured, Unfinished, Starting, Asking, Building, BoundState
<1>3. CASE \E t \in Terminals : OpenBrowser(t)
  <2>1. PICK t \in Terminals : OpenBrowser(t)
    BY <1>3
  <2> QED
    BY <2>1, LinkFacts, OpenFacts, OpenWaits DEF Becomes, StaysAsIs, command, people, history,
       Names, InStep, None, Configured, Unfinished, Starting, Asking, Building, BoundState
<1>4. CASE \E t \in Terminals : LeaveBrowser(t)
  <2>1. PICK t \in Terminals : LeaveBrowser(t)
    BY <1>4
  <2> QED
    BY <2>1, LinkFacts, LeaveFacts DEF Becomes, StaysAsIs, command, people, history, Names,
       InStep, None, Configured, Unfinished, Starting, Asking, Building, BoundState
<1>5. CASE \E t \in Terminals : ComeBack(t)
  <2>1. PICK t \in Terminals : ComeBack(t)
    BY <1>5
  <2> QED
    BY <2>1, LinkFacts, ComeBackFacts DEF Becomes, StaysAsIs, command, people, history, Names,
       InStep, None, Configured, Unfinished, Starting, Asking, Building, BoundState
<1>6. CASE Save \/ Exchange \/ Create
  BY <1>6, LinkFacts, SaveFacts, ExchangeFacts, CreateFacts DEF Becomes, StaysAsIs, command,
     people, history, Names, InStep, None, Configured, Unfinished, Starting, Asking, Building,
     BoundState
<1>7. CASE Unmint \/ Drop \/ Forget
  BY <1>7, LinkFacts, UnmintFacts, DropFacts, ForgetFacts DEF Becomes, StaysAsIs, command,
     people, history, Names, InStep, None, Configured, Unfinished, Starting, Asking, Building,
     BoundState
<1>8. CASE Note \/ Verify \/ Bind \/ Conflict
  BY <1>8, LinkFacts, NoteFacts, VerifyFacts, BindFacts, ConflictFacts DEF Becomes, StaysAsIs,
     command, people, history, Names, InStep, None, Configured, Unfinished, Starting, Asking,
     Building, BoundState
<1>9. CASE Bound \/ Promote \/ Commit
  BY <1>9, LinkFacts, BoundFacts, PromoteFacts, CommitFacts DEF Becomes, StaysAsIs, command,
     people, history, Names, InStep, None, Configured, Unfinished, Starting, Asking, Building,
     BoundState
<1>10. CASE Settle \/ Finish \/ RollBack \/ DropPending \/ Restore
  BY <1>10, LinkFacts, SettleFacts, FinishFacts, RollBackFacts, DropPendingFacts, RestoreFacts
     DEF Becomes, StaysAsIs, command, people, history, Names, InStep, None, Configured,
     Unfinished, Starting, Asking, Building, BoundState
<1>11. CASE Remove
  BY <1>11, LinkFacts, RemoveFacts DEF Becomes, StaysAsIs, command, people, history, Names,
     InStep, None, Configured, Unfinished, Starting, Asking, Building, BoundState
<1>12. CASE RemoveConfirmed
  BY <1>12, LinkFacts, RemoveConfirmedFacts DEF Becomes, StaysAsIs, command, people, history,
     Names, InStep, None, Configured, Unfinished, Starting, Asking, Building, BoundState,
     NoCloud, Unverifiable
<1>13. CASE Revoke \/ Attest
  BY <1>13, LinkFacts, AttestFacts DEF Revoke, To, Becomes, StaysAsIs, command, people,
     history, Names, InStep, None, Configured, Unfinished, Starting, Asking, Building,
     BoundState
<1>14. CASE Erase \/ Removed \/ Stop \/ UNCHANGED vars
  BY <1>14, LinkFacts, EraseFacts, RemovedFacts DEF Stop, To, vars, Becomes, StaysAsIs,
     command, people, history, Names, InStep, None, Configured, Unfinished, Starting, Asking,
     Building, BoundState, NoCloud
<1> QED
  BY <1>1, <1>2, <1>3, <1>4, <1>5, <1>6, <1>7, <1>8, <1>9, <1>10, <1>11, <1>12, <1>13, <1>14
     DEF Next

\* Each step is reached in the states it expects.
LEMMA InStepNext ==
  ASSUME CloudAssumption, LinkTyped, Numbered, Names, InStep, InSlots, Waiting, [Next]_vars
  PROVE  InStep'
<1>1. CASE (\E c \in {"add", "reconnect"} : Start(c)) \/ Retire \/ DropRetiring \/ Begin
  <2>1. CASE \E c \in {"add", "reconnect"} : Start(c)
    BY <2>1, LinkFacts DEF Start, To, Becomes, StaysAsIs, command, people, history, Names,
       InStep, None, Configured, Unfinished, Starting, Asking, Building, BoundState, Intent,
       InSlots, States, Lifecycles, NoCloud, Ready
  <2>2. CASE Retire
    BY <2>2, LinkFacts DEF To, Retire, Becomes, StaysAsIs, command, people, history, Names,
       InStep, None, Configured, Unfinished, Starting, Asking, Building, BoundState, InSlots,
       States, Lifecycles, NoCloud
  <2>3. CASE DropRetiring
    BY <2>3, LinkFacts, DropRetiringFacts DEF To, Becomes, StaysAsIs, command, people, history,
       Names, InStep, None, Configured, Unfinished, Starting, Asking, Building, BoundState,
       InSlots, States, Lifecycles, NoCloud
  <2>4. CASE Begin
    <3>1. /\ at = "begin" /\ at' = "authorize" /\ UNCHANGED <<cmd, env, removing>>
          /\ \/ cloud' = cloud /\ cloud # NoCloud /\ ~(cmd = "reconnect" /\ Ready)
             \/ /\ cloud = NoCloud \/ (cmd = "reconnect" /\ Ready)
                /\ Becomes("authorizing", cloud.current, cloud.pending, cloud.done)
      BY <2>4, BeginFacts DEF history
    <3>2. /\ cloud.state \in Unfinished \cup {"none", "ready"} /\ cloud.done = NotDone
          /\ cloud.state = "ready" => cmd = "reconnect" /\ Ready
          /\ cloud.state = "none" => cloud = NoCloud
          /\ cmd = "reconnect" => Configured
      BY <3>1 DEF InStep, Names, Starting, Ready
    <3>3. /\ cloud'.state \in Unfinished /\ cloud'.current = cloud.current
          /\ cloud'.done = NotDone
      BY <3>1, <3>2 DEF Becomes, Unfinished
    <3> QED
      BY <3>1, <3>2, <3>3 DEF InStep, Unfinished, Starting, Asking, Building, Configured
  <2> QED
    BY <1>1, <2>1, <2>2, <2>3, <2>4
<1>2. CASE GoOn
  BY <1>2, LinkFacts DEF GoOn, To, Becomes, StaysAsIs, command, people, history, Names, InStep,
     None, Configured, Unfinished, Starting, Asking, Building, BoundState, Fits, Resumable,
     InSlots
<1>3. CASE \E t \in Terminals : OpenBrowser(t)
  <2>1. PICK t \in Terminals : OpenBrowser(t)
    BY <1>3
  <2> QED
    BY <2>1, LinkFacts, OpenFacts, OpenWaits DEF Becomes, StaysAsIs, command, people, history,
       Names, InStep, None, Configured, Unfinished, Starting, Asking, Building, BoundState
<1>4. CASE \E t \in Terminals : LeaveBrowser(t)
  <2>1. PICK t \in Terminals : LeaveBrowser(t)
    BY <1>4
  <2> QED
    BY <2>1, LinkFacts DEF LeaveBrowser, To, Becomes, StaysAsIs, command, people, history,
       Names, InStep, None, Configured, Unfinished, Starting, Asking, Building, BoundState
<1>5. CASE \E t \in Terminals : ComeBack(t)
  <2>1. PICK t \in Terminals : ComeBack(t)
    BY <1>5
  <2>2. /\ waits[t].cloud = cloud /\ waits[t].n # None
        /\ at = "idle" /\ at' = "save" /\ cmd' = waits[t].cmd /\ env' = waits[t].n
        /\ UNCHANGED <<cloud, slot, live, device, people, history>>
    BY <2>1, ComeBackFacts DEF Waiting
  <2>3. /\ cloud.state = "authorizing" /\ cloud.done = NotDone
        /\ cloud.pending \in {None, env'}
        /\ cmd' = "reconnect" => Configured
    BY <2>2 DEF Waiting, Configured
  <2> QED
    BY <2>2, <2>3 DEF InStep, Starting, Asking, Building, Configured, BoundState, Unfinished,
      history
<1>6. CASE Save \/ Exchange \/ Create
  BY <1>6, LinkFacts, SaveFacts, ExchangeFacts, CreateFacts DEF Becomes, StaysAsIs, command,
     people, history, Names, InStep, None, Configured, Unfinished, Starting, Asking, Building,
     BoundState
<1>7. CASE Unmint \/ Drop \/ Forget
  BY <1>7, LinkFacts, UnmintFacts, DropFacts, ForgetFacts DEF Becomes, StaysAsIs, command,
     people, history, Names, InStep, None, Configured, Unfinished, Starting, Asking, Building,
     BoundState
<1>8. CASE Note \/ Verify \/ Bind \/ Conflict
  BY <1>8, LinkFacts, NoteFacts, VerifyFacts, BindFacts, ConflictFacts DEF Becomes, StaysAsIs,
     command, people, history, Names, InStep, None, Configured, Unfinished, Starting, Asking,
     Building, BoundState
<1>9. CASE Bound \/ Promote \/ Commit
  BY <1>9, LinkFacts, BoundFacts, PromoteFacts, CommitFacts DEF Becomes, StaysAsIs, command,
     people, history, Names, InStep, None, Configured, Unfinished, Starting, Asking, Building,
     BoundState
<1>10. CASE Settle \/ Finish \/ RollBack \/ DropPending \/ Restore
  BY <1>10, LinkFacts, SettleFacts, FinishFacts, RollBackFacts, DropPendingFacts, RestoreFacts
     DEF Becomes, StaysAsIs, command, people, history, Names, InStep, None, Configured,
     Unfinished, Starting, Asking, Building, BoundState
<1>11. CASE Remove \/ RemoveConfirmed \/ Revoke \/ Attest
  BY <1>11, LinkFacts, RemoveFacts, RemoveConfirmedFacts, AttestFacts DEF Revoke, To, Becomes,
     StaysAsIs, command, people, history, Names, InStep, None, Configured, Unfinished,
     Starting, Asking, Building, BoundState
<1>12. CASE Erase \/ Removed
  BY <1>12, LinkFacts, EraseFacts, RemovedFacts DEF Becomes, StaysAsIs, command, people,
     history, Names, InStep, None, Configured, Unfinished, Starting, Asking, Building,
     BoundState, NoCloud
<1>13. CASE Stop
  BY <1>13, LinkFacts DEF Stop, To, Becomes, StaysAsIs, command, people, history, Names,
     InStep, None, Configured, Unfinished, Starting, Asking, Building, BoundState
<1>14. CASE UNCHANGED vars
  BY <1>14, LinkFacts DEF vars, To, Becomes, StaysAsIs, command, people, history, Names,
     InStep, None, Configured, Unfinished, Starting, Asking, Building, BoundState
<1> QED
  BY <1>1, <1>2, <1>3, <1>4, <1>5, <1>6, <1>7, <1>8, <1>9, <1>10, <1>11, <1>12, <1>13, <1>14
     DEF Next

\* Only the browser that opens takes a number, and it takes the next one.
LEMMA NumberedNext ==
  ASSUME CloudAssumption, LinkTyped, Numbered, Names, InStep, Waiting, [Next]_vars
  PROVE  Numbered'
<1>0. None <= signIns /\ signIns \in Nat
  BY LinkFacts DEF None
<1>1. CASE (\E c \in {"add", "reconnect"} : Start(c)) \/ Retire \/ DropRetiring \/ Begin
  BY <1>1, LinkFacts, <1>0, DropRetiringFacts, BeginFacts DEF Start, To, Retire, Becomes,
     StaysAsIs, command, people, history, Numbered, SignIns, Slots, Configured
<1>2. CASE GoOn
  BY <1>2, LinkFacts, <1>0 DEF GoOn, To, Becomes, StaysAsIs, command, people, history,
     Numbered, SignIns, Slots, Configured, Resumable, Fits
<1>3. CASE \E t \in Terminals : OpenBrowser(t)
  <2>1. PICK t \in Terminals : OpenBrowser(t)
    BY <1>3
  <2>2. signIns' = signIns + 1 /\ \A n \in Nat : n <= signIns => n <= signIns'
    BY <2>1, <1>0, OpenFacts
  <2>3. waits'[t].n = signIns' /\ waits'[t].cloud = cloud'
    BY <2>1, OpenWaits
  <2>4. /\ cloud'.current <= signIns' /\ cloud'.pending <= signIns'
        /\ \A s \in Slots : slot'[s] <= signIns'
        /\ env' <= signIns'
    BY <2>1, <1>0, LinkFacts, OpenFacts DEF Numbered
  <2>5. \A u \in Terminals : waits'[u].n <= signIns' /\ waits'[u].cloud.current <= signIns'
    <3> TAKE u \in Terminals
    <3>1. waits[u].n \in Nat /\ waits[u].cloud.current \in Nat
      BY LinkFacts DEF Lifecycles
    <3>2. CASE u # t
      BY <2>1, <2>2, <3>1, <3>2, OpenWaits DEF Numbered
    <3>3. CASE u = t
      BY <2>2, <2>3, <2>4, <3>3, <1>0
    <3> QED
      BY <3>2, <3>3
  <2>6. \A n \in 1..signIns' : gen'[n] <= n
    <3>1. \A n \in 1..signIns' : n \in 1..signIns \/ n = signIns'
      BY <2>2, <1>0
    <3>2. \A n \in 1..signIns : gen'[n] <= n
      BY <2>1, OpenFacts DEF Numbered
    <3>3. gen'[signIns'] <= signIns'
      <4>1. CASE cloud.pending = None
        BY <2>1, <2>2, <1>0, <4>1, OpenFacts
      <4>2. CASE cloud.pending # None
        <5>1. /\ cloud.pending \in 1..signIns /\ gen'[signIns'] = gen[cloud.pending]
              /\ gen[cloud.pending] <= cloud.pending /\ gen[cloud.pending] \in Nat
          BY <2>1, <4>2, OpenFacts, LinkFacts DEF Numbered
        <5> QED
          BY <5>1, <2>2, <1>0
      <4> QED
        BY <4>1, <4>2
    <3> QED
      BY <3>1, <3>2, <3>3
  <2>7. live' \subseteq 1..signIns'
    <3>1. live' = live /\ 1..signIns \subseteq 1..signIns'
      BY <2>1, <2>2, <1>0, OpenFacts
    <3> QED
      BY <3>1 DEF Numbered
  <2> QED
    BY <2>4, <2>5, <2>6, <2>7 DEF Numbered
<1>4. CASE \E t \in Terminals : LeaveBrowser(t)
  <2>1. PICK t \in Terminals : LeaveBrowser(t)
    BY <1>4
  <2>2. \A u \in Terminals : waits'[u].n <= signIns /\ waits'[u].cloud.current <= signIns
    BY <2>1, <1>0, LeaveFacts, NoWaitFacts DEF Numbered
  <2> QED
    BY <2>2, <2>1, LeaveFacts DEF command, people, Numbered
<1>5. CASE \E t \in Terminals : ComeBack(t)
  <2>1. PICK t \in Terminals : ComeBack(t)
    BY <1>5
  <2>2. \A u \in Terminals : waits'[u].n <= signIns /\ waits'[u].cloud.current <= signIns
    BY <2>1, <1>0, ComeBackFacts, NoWaitFacts DEF Numbered
  <2> QED
    BY <2>2, <2>1, ComeBackFacts DEF people, Numbered
<1>6. CASE Save
  BY <1>6, LinkFacts, <1>0, SaveFacts DEF Becomes, StaysAsIs, command, people, history,
     Numbered, SignIns, Slots, Configured
<1>7. CASE Exchange
  <2>1. env \in 1..signIns
    BY <1>7, <1>0, LinkFacts, ExchangeFacts DEF Numbered, InStep, Asking, SignIns
  <2> QED
    BY <1>7, <2>1, LinkFacts, ExchangeFacts DEF StaysAsIs, Becomes, people, Numbered
<1>8. CASE Create
  BY <1>8, LinkFacts, <1>0, CreateFacts DEF Becomes, StaysAsIs, command, people, history,
     Numbered, SignIns, Slots, Configured
<1>9. CASE Unmint \/ Drop \/ Forget
  <2>1. CASE Unmint
    BY <2>1, LinkFacts, <1>0, UnmintFacts DEF Becomes, StaysAsIs, command, people, history,
       Numbered, SignIns, Slots, Configured
  <2>2. CASE Drop
    BY <2>2, LinkFacts, <1>0, DropFacts DEF Becomes, StaysAsIs, command, people, history,
       Numbered, SignIns, Slots, Configured
  <2>3. CASE Forget
    BY <2>3, LinkFacts, <1>0, ForgetFacts DEF Becomes, StaysAsIs, command, people, history,
       Numbered, SignIns, Slots, Configured
  <2> QED
    BY <1>9, <2>1, <2>2, <2>3
<1>10. CASE Note \/ Verify \/ Bind \/ Conflict
  BY <1>10, LinkFacts, <1>0, NoteFacts, VerifyFacts, BindFacts, ConflictFacts DEF Becomes,
     StaysAsIs, command, people, history, Numbered, SignIns, Slots, Configured
<1>11. CASE Bound \/ Promote \/ Commit
  BY <1>11, LinkFacts, <1>0, BoundFacts, PromoteFacts, CommitFacts DEF Becomes, StaysAsIs,
     command, people, history, Numbered, SignIns, Slots, Configured
<1>12. CASE Settle \/ Finish \/ RollBack \/ DropPending \/ Restore
  BY <1>12, LinkFacts, <1>0, SettleFacts, FinishFacts, RollBackFacts, DropPendingFacts,
     RestoreFacts DEF Becomes, StaysAsIs, command, people, history, Numbered, SignIns, Slots,
     Configured
<1>13. CASE Remove \/ RemoveConfirmed \/ Revoke \/ Attest
  BY <1>13, LinkFacts, <1>0, RemoveFacts, RemoveConfirmedFacts, AttestFacts DEF Revoke, To,
     Becomes, StaysAsIs, command, people, history, Numbered, SignIns, Slots, Configured
<1>14. CASE Erase \/ Removed \/ Stop \/ UNCHANGED vars
  BY <1>14, LinkFacts, <1>0, EraseFacts, RemovedFacts DEF Stop, To, vars, Becomes, StaysAsIs,
     command, people, history, Numbered, SignIns, Slots, Configured
<1> QED
  BY <1>1, <1>2, <1>3, <1>4, <1>5, <1>6, <1>7, <1>8, <1>9, <1>10, <1>11, <1>12, <1>13, <1>14
     DEF Next

\* A generation is passed on only before the sign-in is committed.
LEMMA GenerationsNext ==
  ASSUME CloudAssumption, LinkTyped, Numbered, Names, InStep, Generations, Waiting, [Next]_vars
  PROVE  Generations'
<1>1. CASE \E c \in {"add", "reconnect"} : Start(c)
  <2>1. PICK c \in {"add", "reconnect"} : Start(c)
    BY <1>1
  <2> QED
    BY <2>1, LinkFacts DEF Start, To, Becomes, StaysAsIs, command, people, history, Numbered,
       SignIns, Generations, Names, InStep, None, Configured, Unfinished, Starting, Asking,
       Building, BoundState, Intent
<1>2. CASE Retire
  BY <1>2, LinkFacts DEF Retire, To, Becomes, StaysAsIs, command, people, history, Numbered,
     SignIns, Generations, Names, InStep, None, Configured, Unfinished, Starting, Asking,
     Building, BoundState
<1>3. CASE DropRetiring
  BY <1>3, LinkFacts, DropRetiringFacts DEF Becomes, StaysAsIs, command, people, history,
     Numbered, SignIns, Generations, Names, InStep, None, Configured, Unfinished, Starting,
     Asking, Building, BoundState
<1>4. CASE Begin
  BY <1>4, LinkFacts, BeginFacts DEF Becomes, StaysAsIs, command, people, history, Numbered,
     SignIns, Generations, Names, InStep, None, Configured, Unfinished, Starting, Asking,
     Building, BoundState
<1>5. CASE GoOn
  BY <1>5, LinkFacts DEF GoOn, To, Becomes, StaysAsIs, command, people, history, Numbered,
     SignIns, Generations, Names, InStep, None, Configured, Unfinished, Starting, Asking,
     Building, BoundState
<1>6. CASE \E t \in Terminals : OpenBrowser(t)
  <2>1. PICK t \in Terminals : OpenBrowser(t)
    BY <1>6
  <2>2. Configured => cloud.current \in 1..signIns /\ gen'[cloud.current] = gen[cloud.current]
    BY <2>1, LinkFacts, OpenFacts DEF Numbered, Configured, SignIns
  <2>3. /\ cloud'.current = cloud.current /\ at' = "idle" /\ cloud.state = "authorizing"
        /\ cloud'.pending # None => cloud.pending # None
             /\ gen'[cloud'.pending] = gen[cloud.pending]
    BY <2>1, OpenFacts
  <2> QED
    BY <2>2, <2>3 DEF Generations, Configured
<1>7. CASE \E t \in Terminals : LeaveBrowser(t)
  <2>1. PICK t \in Terminals : LeaveBrowser(t)
    BY <1>7
  <2> QED
    BY <2>1, LinkFacts DEF LeaveBrowser, To, Becomes, StaysAsIs, command, people, history,
       Numbered, SignIns, Generations, Names, InStep, None, Configured, Unfinished, Starting,
       Asking, Building, BoundState
<1>8. CASE \E t \in Terminals : ComeBack(t)
  <2>1. PICK t \in Terminals : ComeBack(t)
    BY <1>8
  <2>2. /\ waits[t].cloud = cloud /\ waits[t].n # None /\ env' = waits[t].n
        /\ cloud' = cloud /\ gen' = gen
    BY <2>1, ComeBackFacts DEF Waiting, people
  <2>3. Configured => gen[env'] # gen[cloud.current]
    BY <2>2 DEF Waiting, Configured
  <2> QED
    BY <2>2, <2>3 DEF Generations, Configured
<1>9. CASE Save \/ Exchange \/ Create
  BY <1>9, LinkFacts, SaveFacts, ExchangeFacts, CreateFacts DEF Becomes, StaysAsIs, command,
     people, history, Numbered, SignIns, Generations, Names, InStep, None, Configured,
     Unfinished, Starting, Asking, Building, BoundState
<1>10. CASE Unmint \/ Drop \/ Forget
  BY <1>10, LinkFacts, UnmintFacts, DropFacts, ForgetFacts DEF Becomes, StaysAsIs, command,
     people, history, Numbered, SignIns, Generations, Names, InStep, None, Configured,
     Unfinished, Starting, Asking, Building, BoundState
<1>11. CASE Note \/ Verify \/ Bind \/ Conflict
  BY <1>11, LinkFacts, NoteFacts, VerifyFacts, BindFacts, ConflictFacts DEF Becomes, StaysAsIs,
     command, people, history, Numbered, SignIns, Generations, Names, InStep, None, Configured,
     Unfinished, Starting, Asking, Building, BoundState
<1>12. CASE Bound \/ Promote \/ Commit
  BY <1>12, LinkFacts, BoundFacts, PromoteFacts, CommitFacts DEF Becomes, StaysAsIs, command,
     people, history, Numbered, SignIns, Generations, Names, InStep, None, Configured,
     Unfinished, Starting, Asking, Building, BoundState
<1>13. CASE Settle \/ Finish \/ RollBack \/ DropPending \/ Restore
  BY <1>13, LinkFacts, SettleFacts, FinishFacts, RollBackFacts, DropPendingFacts, RestoreFacts
     DEF Becomes, StaysAsIs, command, people, history, Numbered, SignIns, Generations, Names,
     InStep, None, Configured, Unfinished, Starting, Asking, Building, BoundState
<1>14. CASE Remove \/ RemoveConfirmed
  BY <1>14, LinkFacts, RemoveFacts, RemoveConfirmedFacts DEF Becomes, StaysAsIs, command,
     people, history, Numbered, SignIns, Generations, Names, InStep, None, Configured,
     Unfinished, Starting, Asking, Building, BoundState
<1>15. CASE Revoke
  BY <1>15, LinkFacts DEF Revoke, To, Becomes, StaysAsIs, command, people, history, Numbered,
     SignIns, Generations, Names, InStep, None, Configured, Unfinished, Starting, Asking,
     Building, BoundState
<1>16. CASE Attest
  BY <1>16, LinkFacts, AttestFacts DEF Becomes, StaysAsIs, command, people, history, Numbered,
     SignIns, Generations, Names, InStep, None, Configured, Unfinished, Starting, Asking,
     Building, BoundState
<1>17. CASE Erase \/ Removed \/ Stop \/ UNCHANGED vars
  BY <1>17, LinkFacts, EraseFacts, RemovedFacts DEF Stop, To, vars, Becomes, StaysAsIs,
     command, people, history, Numbered, SignIns, Generations, Names, InStep, None, Configured,
     Unfinished, Starting, Asking, Building, BoundState, NoCloud
<1> QED
  BY <1>1, <1>2, <1>3, <1>4, <1>5, <1>6, <1>7, <1>8, <1>9, <1>10, <1>11, <1>12, <1>13, <1>14,
     <1>15, <1>16, <1>17 DEF Next

\* The steps that neither open, leave nor answer a browser, nor go on with a stored sign-in,
\* store nothing but what the command has in hand.
LEMMA OtherSteps ==
  ASSUME CloudAssumption, LinkTyped, ~GoOn, InStep,
         ~(\E t \in Terminals : OpenBrowser(t) \/ LeaveBrowser(t) \/ ComeBack(t)), [Next]_vars
  PROVE  /\ UNCHANGED <<waits, people>>
         /\ at' \in Asking \cup Building => env' = env /\ at \in Asking \cup Building
         /\ \A s \in Slots : \/ slot'[s] = None \/ Stored(slot'[s])
                            \/ (at = "create" /\ slot'[s] = env)
<1>1. CASE (\E c \in {"add", "reconnect"} : Start(c)) \/ Retire \/ DropRetiring \/ Begin
  BY <1>1, LinkFacts, DropRetiringFacts, BeginFacts DEF Start, To, Retire, Becomes, StaysAsIs,
     command, people, history, Asking, Building, Stored, Slots
<1>2. CASE Save \/ Exchange \/ Create
  BY <1>2, LinkFacts, SaveFacts, ExchangeFacts, CreateFacts DEF Becomes, StaysAsIs, command,
     people, history, Asking, Building, Stored, Slots
<1>3. CASE Unmint \/ Drop \/ Forget
  BY <1>3, LinkFacts, UnmintFacts, DropFacts, ForgetFacts DEF Becomes, StaysAsIs, command,
     people, history, Asking, Building, Stored, Slots
<1>4. CASE Note \/ Verify \/ Bind \/ Conflict
  BY <1>4, LinkFacts, NoteFacts, VerifyFacts, BindFacts, ConflictFacts DEF Becomes, StaysAsIs,
     command, people, history, Asking, Building, Stored, Slots
<1>5. CASE Bound \/ Promote \/ Commit
  BY <1>5, LinkFacts, BoundFacts, PromoteFacts, CommitFacts DEF Becomes, StaysAsIs, command,
     people, history, Asking, Building, Stored, Slots
<1>6. CASE Settle \/ Finish \/ RollBack \/ DropPending \/ Restore
  BY <1>6, LinkFacts, SettleFacts, FinishFacts, RollBackFacts, DropPendingFacts, RestoreFacts
     DEF Becomes, StaysAsIs, command, people, history, Asking, Building, Stored, Slots
<1>7. CASE Remove \/ RemoveConfirmed \/ Revoke \/ Attest
  BY <1>7, LinkFacts, RemoveFacts, RemoveConfirmedFacts, AttestFacts DEF Revoke, To, Becomes,
     StaysAsIs, command, people, history, Asking, Building, Stored, Slots
<1>8. CASE Erase \/ Removed \/ Stop \/ UNCHANGED vars
  BY <1>8, LinkFacts, EraseFacts, RemovedFacts DEF Stop, To, vars, Becomes, StaysAsIs, command,
     people, history, Asking, Building, Stored, Slots
<1> QED
  BY <1>1, <1>2, <1>3, <1>4, <1>5, <1>6, <1>7, <1>8 DEF Next

\* So nothing but the terminal itself gets hold of what it waits for.
LEMMA WaitingNext ==
  ASSUME CloudAssumption, LinkTyped, Numbered, Names, InStep, Generations, Waiting, [Next]_vars
  PROVE  Waiting'
<1>1. CASE \E t \in Terminals : OpenBrowser(t)
  <2>1. PICK t \in Terminals : OpenBrowser(t)
    BY <1>1
  <2>2. /\ waits'[t].n = signIns' /\ waits'[t].cloud = cloud' /\ waits'[t].cmd = cmd
        /\ \A u \in Terminals \ {t} : waits'[u] = waits[u]
    BY <2>1, OpenWaits
  <2>3. /\ signIns' = signIns + 1 /\ signIns \in Nat /\ signIns' # None
        /\ slot' = slot /\ at' = "idle"
    BY <2>1, OpenFacts
  <2>4. ~Stored(signIns')
    BY <2>3, LinkFacts DEF Numbered, Stored
  <2>5. \A u \in Terminals \ {t} : /\ waits[u].n \in Nat /\ waits[u].n # signIns'
                                   /\ waits[u].cloud.current \in Nat
                                   /\ waits[u].cloud.current <= signIns
    BY <2>3, LinkFacts DEF Numbered, Lifecycles
  <2>6. /\ cloud'.state = "authorizing" /\ cloud'.done = NotDone
             /\ cloud'.pending \in {None, signIns'}
        /\ cloud'.current = cloud.current /\ (cmd = "reconnect" => cloud.current # None)
    BY <2>1, OpenFacts DEF InStep, Starting, Configured
  <2>7. cloud'.current # None => gen'[signIns'] # gen'[cloud.current]
    <3> SUFFICES ASSUME cloud.current # None PROVE gen'[signIns'] # gen'[cloud.current]
      BY <2>6
    <3>1. cloud.current \in 1..signIns
      BY LinkFacts DEF Numbered, SignIns
    <3>2. gen'[cloud.current] = gen[cloud.current] /\ gen[cloud.current] <= cloud.current
          /\ gen[cloud.current] \in Nat
      BY <2>1, <3>1, OpenFacts, LinkFacts DEF Numbered
    <3>3. CASE cloud.pending = None
      BY <2>1, <2>3, <3>1, <3>2, <3>3, OpenFacts
    <3>4. CASE cloud.pending # None
      BY <2>1, <3>2, <3>4, OpenFacts DEF Generations, Configured
    <3> QED
      BY <3>3, <3>4
  <2>8. \A u \in Terminals : waits'[u].n # None => ~Stored(waits'[u].n)
    BY <2>2, <2>4 DEF Waiting
  <2>9. \A u \in Terminals \ {t} : waits[u].cloud.current # None /\ waits[u].n # None =>
          gen'[waits[u].n] # gen'[waits[u].cloud.current]
    <3> TAKE u \in Terminals \ {t}
    <3> HAVE waits[u].cloud.current # None /\ waits[u].n # None
    <3>1. waits[u].n \in 1..signIns /\ waits[u].cloud.current \in 1..signIns
      BY <2>3, LinkFacts DEF Numbered, Lifecycles, Maybe, SignIns, None
    <3> QED
      BY <2>1, <3>1, OpenFacts DEF Waiting
  <2> QED
    BY <2>2, <2>3, <2>5, <2>6, <2>7, <2>8, <2>9 DEF Waiting, Stored, Asking, Building
<1>2. CASE \E t \in Terminals : LeaveBrowser(t) \/ ComeBack(t)
  <2>1. PICK t \in Terminals : LeaveBrowser(t) \/ ComeBack(t)
    BY <1>2
  <2>2. /\ waits'[t] = NoWait /\ \A u \in Terminals \ {t} : waits'[u] = waits[u]
        /\ UNCHANGED <<slot, gen>>
        /\ (UNCHANGED <<at, env>>) \/ (env' = waits[t].n /\ env' # None)
    BY <2>1, LeaveFacts, ComeBackFacts DEF command, people, Waiting
  <2> QED
    BY <2>2, NoWaitFacts DEF Waiting, Stored
<1>3. CASE GoOn
  <2>1. UNCHANGED <<slot, waits, gen>> /\ Stored(env')
    BY <1>3 DEF GoOn, people, Resumable, Stored, Slots
  <2> QED
    BY <2>1 DEF Waiting, Stored
<1>4. CASE ~GoOn /\ ~(\E t \in Terminals : OpenBrowser(t) \/ LeaveBrowser(t) \/ ComeBack(t))
  <2>1. /\ UNCHANGED <<waits, gen>>
        /\ at' \in Asking \cup Building => env' = env /\ at \in Asking \cup Building
        /\ \A s \in Slots : \/ slot'[s] = None \/ Stored(slot'[s])
                            \/ (at \in Asking \cup Building /\ slot'[s] = env)
    BY <1>4, OtherSteps DEF Asking, people
  <2> QED
    BY <2>1 DEF Waiting, Stored
<1> QED
  BY <1>1, <1>2, <1>3, <1>4

\* A slot gets what the lifecycle names, and the previous sign-in is retired.
LEMMA InSlotsNext ==
  ASSUME CloudAssumption, LinkTyped, Numbered, Names, InStep, Generations, Waiting, InSlots,
           OnePerson, [Next]_vars
  PROVE  InSlots'
<1>1. CASE (\E c \in {"add", "reconnect"} : Start(c)) \/ Retire
  BY <1>1, LinkFacts DEF Start, To, Retire, Becomes, StaysAsIs, command, people, history,
     InSlots, Names, InStep, None, Configured, Unfinished, Starting, Asking, Building,
     BoundState, Intent, Preflight, States
<1>2. CASE DropRetiring
  BY <1>2, LinkFacts, DropRetiringFacts DEF Becomes, StaysAsIs, command, people, history,
     InSlots, Names, InStep, None, Configured, Unfinished, Starting, Asking, Building,
     BoundState
<1>3. CASE Begin
  BY <1>3, LinkFacts, BeginFacts DEF Becomes, StaysAsIs, command, people, history, InSlots,
     Names, InStep, None, Configured, Unfinished, Starting, Asking, Building, BoundState,
     NoCloud, Ready, Slots
<1>4. CASE GoOn
  BY <1>4, LinkFacts DEF GoOn, To, Becomes, StaysAsIs, command, people, history, InSlots,
     Names, InStep, None, Configured, Unfinished, Starting, Asking, Building, BoundState,
     Resumable, Fits
<1>5. CASE \E t \in Terminals : OpenBrowser(t)
  <2>1. PICK t \in Terminals : OpenBrowser(t)
    BY <1>5
  <2> QED
    BY <2>1, LinkFacts, OpenFacts, OpenWaits DEF Becomes, StaysAsIs, command, people, history,
       InSlots, Names, InStep, None, Configured, Unfinished, Starting, Asking, Building,
       BoundState
<1>6. CASE \E t \in Terminals : LeaveBrowser(t)
  <2>1. PICK t \in Terminals : LeaveBrowser(t)
    BY <1>6
  <2> QED
    BY <2>1, LinkFacts DEF LeaveBrowser, To, Becomes, StaysAsIs, command, people, history,
       InSlots, Names, InStep, None, Configured, Unfinished, Starting, Asking, Building,
       BoundState
<1>7. CASE \E t \in Terminals : ComeBack(t)
  <2>1. PICK t \in Terminals : ComeBack(t)
    BY <1>7
  <2>2. /\ waits[t].cloud = cloud /\ waits[t].n # None /\ env' = waits[t].n /\ at' = "save"
        /\ UNCHANGED <<cloud, slot>>
    BY <2>1, ComeBackFacts DEF Waiting
  <2>3. slot["pending"] = None
    BY <2>2 DEF Waiting, InSlots, Stored, Slots
  <2>4. ~BoundState
    BY <2>2 DEF Waiting, BoundState
  <2> QED
    BY <2>2, <2>3, <2>4 DEF InSlots, BoundState, Building
<1>8. CASE Save \/ Exchange \/ Create
  BY <1>8, LinkFacts, SaveFacts, ExchangeFacts, CreateFacts DEF Becomes, StaysAsIs, command,
     people, history, InSlots, Names, InStep, None, Configured, Unfinished, Starting, Asking,
     Building, BoundState
<1>9. CASE Unmint \/ Drop \/ Forget
  BY <1>9, LinkFacts, UnmintFacts, DropFacts, ForgetFacts DEF Becomes, StaysAsIs, command,
     people, history, InSlots, Names, InStep, None, Configured, Unfinished, Starting, Asking,
     Building, BoundState
<1>10. CASE Note \/ Verify \/ Bind \/ Conflict
  BY <1>10, LinkFacts, NoteFacts, VerifyFacts, BindFacts, ConflictFacts DEF Becomes, StaysAsIs,
     command, people, history, InSlots, Names, InStep, None, Configured, Unfinished, Starting,
     Asking, Building, BoundState, OtherPerson, OnePerson
<1>11. CASE Bound \/ Promote \/ Commit
  <2>1. CASE Bound
    BY <2>1, LinkFacts, BoundFacts DEF Becomes, StaysAsIs, command, people, history,
       InSlots, Names, InStep, None, Configured, Unfinished, Starting, Asking, Building,
       BoundState, InPlace, ToKeep, SameGeneration, Generations
  <2>2. CASE Promote
    BY <2>2, LinkFacts, PromoteFacts DEF Becomes, StaysAsIs, command, people, history,
       InSlots, Names, InStep, None, Configured, Unfinished, Starting, Asking, Building,
       BoundState, InPlace, ToKeep, SameGeneration, Generations
  <2>3. CASE Commit
    BY <2>3, LinkFacts, CommitFacts DEF Becomes, StaysAsIs, command, people, history,
       InSlots, Names, InStep, None, Configured, Unfinished, Starting, Asking, Building,
       BoundState, InPlace, ToKeep, SameGeneration, Generations
  <2> QED
    BY <1>11, <2>1, <2>2, <2>3
<1>12. CASE Settle \/ Finish \/ RollBack \/ DropPending \/ Restore
  BY <1>12, LinkFacts, SettleFacts, FinishFacts, RollBackFacts, DropPendingFacts, RestoreFacts
     DEF Becomes, StaysAsIs, command, people, history, InSlots, Names, InStep, None,
     Configured, Unfinished, Starting, Asking, Building, BoundState, States
<1>13. CASE Remove \/ RemoveConfirmed \/ Revoke \/ Attest
  BY <1>13, LinkFacts, RemoveFacts, RemoveConfirmedFacts, AttestFacts DEF Revoke, To, Becomes,
     StaysAsIs, command, people, history, InSlots, Names, InStep, None, Configured, Unfinished,
     Starting, Asking, Building, BoundState
<1>14. CASE Erase \/ Removed \/ Stop \/ UNCHANGED vars
  BY <1>14, LinkFacts, EraseFacts, RemovedFacts DEF Stop, To, vars, Becomes, StaysAsIs,
     command, people, history, InSlots, Names, InStep, None, Configured, Unfinished, Starting,
     Asking, Building, BoundState, Slots, NoCloud
<1> QED
  BY <1>1, <1>2, <1>3, <1>4, <1>5, <1>6, <1>7, <1>8, <1>9, <1>10, <1>11, <1>12, <1>13, <1>14
     DEF Next

\* Only a removal empties a slot that the lifecycle still needs.
LEMMA IntactNext ==
  ASSUME CloudAssumption, LinkTyped, Numbered, Names, InStep, Generations, Waiting, InSlots,
           OnePerson, Intact, [Next]_vars
  PROVE  Intact'
<1>1. CASE \E c \in {"add", "reconnect"} : Start(c)
  <2>1. PICK c \in {"add", "reconnect"} : Start(c)
    BY <1>1
  <2> QED
    BY <2>1, LinkFacts, ListedFacts DEF Start, To, Becomes, StaysAsIs, command, people,
       history, Intact, Names, InStep, None, Configured, Unfinished, Starting, Asking,
       Building, BoundState
<1>2. CASE Retire
  BY <1>2, LinkFacts, ListedFacts DEF Retire, To, Becomes, StaysAsIs, command, people, history,
     Intact, Names, InStep, None, Configured, Unfinished, Starting, Asking, Building,
     BoundState
<1>3. CASE DropRetiring
  BY <1>3, LinkFacts, ListedFacts, DropRetiringFacts DEF Becomes, StaysAsIs, command, people,
     history, Intact, Names, InStep, None, Configured, Unfinished, Starting, Asking, Building,
     BoundState
<1>4. CASE Begin
  BY <1>4, LinkFacts, ListedFacts, BeginFacts DEF Becomes, StaysAsIs, command, people, history,
     Intact, Names, InStep, None, Configured, Unfinished, Starting, Asking, Building,
     BoundState, NoCloud, Ready, Slots
<1>5. CASE GoOn
  BY <1>5, LinkFacts, ListedFacts DEF GoOn, To, Becomes, StaysAsIs, command, people, history,
     Intact, Names, InStep, None, Configured, Unfinished, Starting, Asking, Building,
     BoundState, Resumable, Fits
<1>6. CASE \E t \in Terminals : OpenBrowser(t)
  <2>1. PICK t \in Terminals : OpenBrowser(t)
    BY <1>6
  <2> QED
    BY <2>1, LinkFacts, ListedFacts, OpenFacts, OpenWaits DEF Becomes, StaysAsIs, command,
       people, history, Intact, Names, InStep, None, Configured, Unfinished, Starting, Asking,
       Building, BoundState
<1>7. CASE \E t \in Terminals : LeaveBrowser(t)
  <2>1. PICK t \in Terminals : LeaveBrowser(t)
    BY <1>7
  <2> QED
    BY <2>1, LinkFacts, ListedFacts DEF LeaveBrowser, To, Becomes, StaysAsIs, command, people,
       history, Intact, Names, InStep, None, Configured, Unfinished, Starting, Asking,
       Building, BoundState
<1>8. CASE \E t \in Terminals : ComeBack(t)
  <2>1. PICK t \in Terminals : ComeBack(t)
    BY <1>8
  <2> QED
    BY <2>1, LinkFacts, ListedFacts, ComeBackFacts DEF Becomes, StaysAsIs, command, people,
       history, Intact, Names, InStep, None, Configured, Unfinished, Starting, Asking,
       Building, BoundState, Waiting
<1>9. CASE Save \/ Exchange \/ Create
  BY <1>9, LinkFacts, ListedFacts, SaveFacts, ExchangeFacts, CreateFacts DEF Becomes,
     StaysAsIs, command, people, history, Intact, Names, InStep, None, Configured, Unfinished,
     Starting, Asking, Building, BoundState
<1>10. CASE Unmint \/ Drop \/ Forget
  BY <1>10, LinkFacts, ListedFacts, UnmintFacts, DropFacts, ForgetFacts DEF Becomes, StaysAsIs,
     command, people, history, Intact, Names, InStep, None, Configured, Unfinished, Starting,
     Asking, Building, BoundState
<1>11. CASE Note \/ Verify \/ Bind \/ Conflict
  BY <1>11, LinkFacts, ListedFacts, NoteFacts, VerifyFacts, BindFacts, ConflictFacts DEF
     Becomes, StaysAsIs, command, people, history, Intact, Names, InStep, None, Configured,
     Unfinished, Starting, Asking, Building, BoundState, InSlots, Generations, OnePerson,
     OtherPerson
<1>12. CASE Bound \/ Promote \/ Commit
  BY <1>12, LinkFacts, ListedFacts, BoundFacts, PromoteFacts, CommitFacts DEF Becomes,
     StaysAsIs, command, people, history, Intact, Names, InStep, None, Configured, Unfinished,
     Starting, Asking, Building, BoundState, InSlots, InPlace, ToKeep, SameGeneration,
     Generations
<1>13. CASE Settle \/ Finish \/ RollBack \/ DropPending \/ Restore
  BY <1>13, LinkFacts, ListedFacts, SettleFacts, FinishFacts, RollBackFacts, DropPendingFacts,
     RestoreFacts DEF Becomes, StaysAsIs, command, people, history, Intact, Names, InStep,
     None, Configured, Unfinished, Starting, Asking, Building, BoundState
<1>14. CASE Remove \/ RemoveConfirmed
  BY <1>14, LinkFacts, ListedFacts, RemoveFacts, RemoveConfirmedFacts DEF Becomes, StaysAsIs,
     command, people, history, Intact, Names, InStep, None, Configured, Unfinished, Starting,
     Asking, Building, BoundState
<1>15. CASE Revoke
  BY <1>15, LinkFacts, ListedFacts DEF Revoke, To, Becomes, StaysAsIs, command, people,
     history, Intact, Names, InStep, None, Configured, Unfinished, Starting, Asking, Building,
     BoundState
<1>16. CASE Attest
  BY <1>16, LinkFacts, ListedFacts, AttestFacts DEF Becomes, StaysAsIs, command, people,
     history, Intact, Names, InStep, None, Configured, Unfinished, Starting, Asking, Building,
     BoundState
<1>17. CASE Erase \/ Removed
  BY <1>17, LinkFacts, ListedFacts, EraseFacts, RemovedFacts DEF Becomes, StaysAsIs, command,
     people, history, Intact, Names, InStep, None, Configured, Unfinished, Starting, Asking,
     Building, BoundState, NoCloud, Slots
<1>18. CASE Stop
  BY <1>18, LinkFacts, ListedFacts DEF Stop, To, Becomes, StaysAsIs, command, people, history,
     Intact, Names, InStep, None, Configured, Unfinished, Starting, Asking, Building,
     BoundState
<1>19. CASE UNCHANGED vars
  BY <1>19, LinkFacts, ListedFacts DEF vars, To, Becomes, StaysAsIs, command, people, history,
     Intact, Names, InStep, None, Configured, Unfinished, Starting, Asking, Building,
     BoundState
<1> QED
  BY <1>1, <1>2, <1>3, <1>4, <1>5, <1>6, <1>7, <1>8, <1>9, <1>10, <1>11, <1>12, <1>13, <1>14,
     <1>15, <1>16, <1>17, <1>18, <1>19 DEF Next

\* From its list on a removal only empties slots.
LEMMA SlotsListedNext ==
  ASSUME CloudAssumption, LinkTyped, Numbered, Names, InStep, Generations, Waiting, InSlots,
           OnePerson, SlotsListed, [Next]_vars
  PROVE  SlotsListed'
<1>1. CASE (\E c \in {"add", "reconnect"} : Start(c)) \/ Retire \/ DropRetiring \/ Begin
  BY <1>1, LinkFacts, DropRetiringFacts, BeginFacts DEF Start, To, Retire, Becomes, StaysAsIs,
     command, people, history, SlotsListed, Names, InStep, None, Configured, Unfinished,
     Starting, Asking, Building, BoundState
<1>2. CASE GoOn
  BY <1>2, LinkFacts DEF GoOn, To, Becomes, StaysAsIs, command, people, history, SlotsListed,
     Names, InStep, None, Configured, Unfinished, Starting, Asking, Building, BoundState
<1>3. CASE \E t \in Terminals : OpenBrowser(t)
  <2>1. PICK t \in Terminals : OpenBrowser(t)
    BY <1>3
  <2> QED
    BY <2>1, LinkFacts, OpenFacts, OpenWaits DEF Becomes, StaysAsIs, command, people, history,
       SlotsListed, Names, InStep, None, Configured, Unfinished, Starting, Asking, Building,
       BoundState
<1>4. CASE \E t \in Terminals : LeaveBrowser(t)
  <2>1. PICK t \in Terminals : LeaveBrowser(t)
    BY <1>4
  <2> QED
    BY <2>1, LinkFacts, LeaveFacts DEF Becomes, StaysAsIs, command, people, history,
       SlotsListed, Names, InStep, None, Configured, Unfinished, Starting, Asking, Building,
       BoundState
<1>5. CASE \E t \in Terminals : ComeBack(t)
  <2>1. PICK t \in Terminals : ComeBack(t)
    BY <1>5
  <2> QED
    BY <2>1, LinkFacts, ComeBackFacts DEF Becomes, StaysAsIs, command, people, history,
       SlotsListed, Names, InStep, None, Configured, Unfinished, Starting, Asking, Building,
       BoundState, Waiting
<1>6. CASE Save \/ Exchange \/ Create
  BY <1>6, LinkFacts, SaveFacts, ExchangeFacts, CreateFacts DEF Becomes, StaysAsIs, command,
     people, history, SlotsListed, Names, InStep, None, Configured, Unfinished, Starting,
     Asking, Building, BoundState
<1>7. CASE Unmint \/ Drop \/ Forget
  BY <1>7, LinkFacts, UnmintFacts, DropFacts, ForgetFacts DEF Becomes, StaysAsIs, command,
     people, history, SlotsListed, Names, InStep, None, Configured, Unfinished, Starting,
     Asking, Building, BoundState
<1>8. CASE Note \/ Verify \/ Bind \/ Conflict
  BY <1>8, LinkFacts, NoteFacts, VerifyFacts, BindFacts, ConflictFacts DEF Becomes, StaysAsIs,
     command, people, history, SlotsListed, Names, InStep, None, Configured, Unfinished,
     Starting, Asking, Building, BoundState
<1>9. CASE Bound \/ Promote \/ Commit
  BY <1>9, LinkFacts, BoundFacts, PromoteFacts, CommitFacts DEF Becomes, StaysAsIs, command,
     people, history, SlotsListed, Names, InStep, None, Configured, Unfinished, Starting,
     Asking, Building, BoundState
<1>10. CASE Settle \/ Finish \/ RollBack \/ DropPending \/ Restore
  BY <1>10, LinkFacts, SettleFacts, FinishFacts, RollBackFacts, DropPendingFacts, RestoreFacts
     DEF Becomes, StaysAsIs, command, people, history, SlotsListed, Names, InStep, None,
     Configured, Unfinished, Starting, Asking, Building, BoundState
<1>11. CASE Remove \/ RemoveConfirmed \/ Revoke \/ Attest
  BY <1>11, LinkFacts, RemoveFacts, RemoveConfirmedFacts, AttestFacts DEF Revoke, To, Becomes,
     StaysAsIs, command, people, history, SlotsListed, Names, InStep, None, Configured,
     Unfinished, Starting, Asking, Building, BoundState
<1>12. CASE Erase \/ Removed \/ Stop \/ UNCHANGED vars
  BY <1>12, LinkFacts, EraseFacts, RemovedFacts DEF Stop, To, vars, Becomes, StaysAsIs,
     command, people, history, SlotsListed, Names, InStep, None, Configured, Unfinished,
     Starting, Asking, Building, BoundState, NoCloud, Slots
<1> QED
  BY <1>1, <1>2, <1>3, <1>4, <1>5, <1>6, <1>7, <1>8, <1>9, <1>10, <1>11, <1>12 DEF Next

\* Binding compares the person with the device and with the previous sign-in.
LEMMA OnePersonNext ==
  ASSUME CloudAssumption, LinkTyped, Numbered, Names, InStep, Generations, Waiting, InSlots,
           OnePerson, OnePerson, [Next]_vars
  PROVE  OnePerson'
<1>1. CASE \E c \in {"add", "reconnect"} : Start(c)
  <2>1. PICK c \in {"add", "reconnect"} : Start(c)
    BY <1>1
  <2> QED
    BY <2>1, LinkFacts DEF Start, To, Becomes, StaysAsIs, command, people, history, OnePerson,
       Names, InStep, None, Configured, Unfinished, Starting, Asking, Building, BoundState
<1>2. CASE Retire
  BY <1>2, LinkFacts DEF Retire, To, Becomes, StaysAsIs, command, people, history, OnePerson,
     Names, InStep, None, Configured, Unfinished, Starting, Asking, Building, BoundState
<1>3. CASE DropRetiring \/ Begin
  BY <1>3, LinkFacts, DropRetiringFacts, BeginFacts DEF Becomes, StaysAsIs, command, people,
     history, OnePerson, Names, InStep, None, Configured, Unfinished, Starting, Asking,
     Building, BoundState
<1>4. CASE GoOn
  BY <1>4, LinkFacts DEF GoOn, To, Becomes, StaysAsIs, command, people, history, OnePerson,
     Names, InStep, None, Configured, Unfinished, Starting, Asking, Building, BoundState
<1>5. CASE \E t \in Terminals : OpenBrowser(t)
  <2>1. PICK t \in Terminals : OpenBrowser(t)
    BY <1>5
  <2> QED
    BY <2>1, LinkFacts, OpenFacts, OpenWaits DEF Becomes, StaysAsIs, command, people, history,
       OnePerson, Names, InStep, None, Configured, Unfinished, Starting, Asking, Building,
       BoundState
<1>6. CASE \E t \in Terminals : LeaveBrowser(t)
  <2>1. PICK t \in Terminals : LeaveBrowser(t)
    BY <1>6
  <2> QED
    BY <2>1, LinkFacts DEF LeaveBrowser, To, Becomes, StaysAsIs, command, people, history,
       OnePerson, Names, InStep, None, Configured, Unfinished, Starting, Asking, Building,
       BoundState
<1>7. CASE \E t \in Terminals : ComeBack(t)
  <2>1. PICK t \in Terminals : ComeBack(t)
    BY <1>7
  <2> QED
    BY <2>1, LinkFacts, ComeBackFacts DEF Becomes, StaysAsIs, command, people, history,
       OnePerson, Names, InStep, None, Configured, Unfinished, Starting, Asking, Building,
       BoundState, Waiting
<1>8. CASE Save \/ Exchange \/ Create
  BY <1>8, LinkFacts, SaveFacts, ExchangeFacts, CreateFacts DEF Becomes, StaysAsIs, command,
     people, history, OnePerson, Names, InStep, None, Configured, Unfinished, Starting, Asking,
     Building, BoundState
<1>9. CASE Unmint \/ Drop \/ Forget
  BY <1>9, LinkFacts, UnmintFacts, DropFacts, ForgetFacts DEF Becomes, StaysAsIs, command,
     people, history, OnePerson, Names, InStep, None, Configured, Unfinished, Starting, Asking,
     Building, BoundState
<1>10. CASE Note \/ Verify
  BY <1>10, LinkFacts, NoteFacts, VerifyFacts DEF Becomes, StaysAsIs, command, people, history,
     OnePerson, Names, InStep, None, Configured, Unfinished, Starting, Asking, Building,
     BoundState
<1>11. CASE Bind
  <2>1. /\ at = "bind" /\ ~OtherPerson /\ UNCHANGED <<user, env>> /\ env = cloud.pending
        /\ at' \in {"bound", "idle"} /\ device' \in {device, user[env]}
        /\ at' = "bound" => device' = user[env]
        /\ cloud'.state = cloud.state /\ cloud'.current = cloud.current
        /\ cloud'.pending = cloud.pending
    BY <1>11, LinkFacts, BindFacts DEF StaysAsIs, Becomes, people, InStep, Asking, Building
  <2>2. Configured => user[cloud.current] = user[env]
    BY <2>1 DEF OtherPerson
  <2> QED
    BY <2>1, <2>2 DEF OnePerson, Configured, BoundState
<1>12. CASE Conflict
  BY <1>12, LinkFacts, ConflictFacts DEF Becomes, StaysAsIs, command, people, history,
     OnePerson, Names, InStep, None, Configured, Unfinished, Starting, Asking, Building,
     BoundState
<1>13. CASE Bound \/ Promote \/ Commit
  BY <1>13, LinkFacts, BoundFacts, PromoteFacts, CommitFacts DEF Becomes, StaysAsIs, command,
     people, history, OnePerson, Names, InStep, None, Configured, Unfinished, Starting, Asking,
     Building, BoundState
<1>14. CASE Settle \/ Finish \/ RollBack \/ DropPending \/ Restore
  BY <1>14, LinkFacts, SettleFacts, FinishFacts, RollBackFacts, DropPendingFacts, RestoreFacts
     DEF Becomes, StaysAsIs, command, people, history, OnePerson, Names, InStep, None,
     Configured, Unfinished, Starting, Asking, Building, BoundState
<1>15. CASE Remove \/ RemoveConfirmed
  BY <1>15, LinkFacts, RemoveFacts, RemoveConfirmedFacts DEF Becomes, StaysAsIs, command,
     people, history, OnePerson, Names, InStep, None, Configured, Unfinished, Starting, Asking,
     Building, BoundState
<1>16. CASE Revoke
  BY <1>16, LinkFacts DEF Revoke, To, Becomes, StaysAsIs, command, people, history, OnePerson,
     Names, InStep, None, Configured, Unfinished, Starting, Asking, Building, BoundState
<1>17. CASE Attest
  BY <1>17, LinkFacts, AttestFacts DEF Becomes, StaysAsIs, command, people, history, OnePerson,
     Names, InStep, None, Configured, Unfinished, Starting, Asking, Building, BoundState
<1>18. CASE Erase \/ Removed
  BY <1>18, LinkFacts, EraseFacts, RemovedFacts DEF Becomes, StaysAsIs, command, people,
     history, OnePerson, Names, InStep, None, Configured, Unfinished, Starting, Asking,
     Building, BoundState, NoCloud
<1>19. CASE Stop
  BY <1>19, LinkFacts DEF Stop, To, Becomes, StaysAsIs, command, people, history, OnePerson,
     Names, InStep, None, Configured, Unfinished, Starting, Asking, Building, BoundState
<1>20. CASE UNCHANGED vars
  BY <1>20, LinkFacts DEF vars, To, Becomes, StaysAsIs, command, people, history, OnePerson,
     Names, InStep, None, Configured, Unfinished, Starting, Asking, Building, BoundState
<1> QED
  BY <1>1, <1>2, <1>3, <1>4, <1>5, <1>6, <1>7, <1>8, <1>9, <1>10, <1>11, <1>12, <1>13, <1>14,
     <1>15, <1>16, <1>17, <1>18, <1>19, <1>20 DEF Next

\* What is revoked is never what the command builds on.
LEMMA AliveNext ==
  ASSUME CloudAssumption, LinkTyped, Numbered, Names, InStep, Generations, Waiting, InSlots,
           Intact, OnePerson, Alive, [Next]_vars
  PROVE  Alive'
<1>1. CASE (\E c \in {"add", "reconnect"} : Start(c)) \/ Retire \/ DropRetiring \/ Begin
  BY <1>1, LinkFacts, DropRetiringFacts, BeginFacts DEF Start, To, Retire, Becomes, StaysAsIs,
     command, people, history, Alive, Names, InStep, None, Configured, Unfinished, Starting,
     Asking, Building, BoundState, InSlots, Generations, NoCloud, Ready
<1>2. CASE GoOn
  BY <1>2, LinkFacts DEF GoOn, To, Becomes, StaysAsIs, command, people, history, Alive, Names,
     InStep, None, Configured, Unfinished, Starting, Asking, Building, BoundState, Fits,
     Resumable
<1>3. CASE \E t \in Terminals : OpenBrowser(t)
  <2>1. PICK t \in Terminals : OpenBrowser(t)
    BY <1>3
  <2> QED
    BY <2>1, LinkFacts, OpenFacts, OpenWaits DEF Becomes, StaysAsIs, command, people, history,
       Alive, Names, InStep, None, Configured, Unfinished, Starting, Asking, Building,
       BoundState
<1>4. CASE \E t \in Terminals : LeaveBrowser(t)
  <2>1. PICK t \in Terminals : LeaveBrowser(t)
    BY <1>4
  <2> QED
    BY <2>1, LinkFacts DEF LeaveBrowser, To, Becomes, StaysAsIs, command, people, history,
       Alive, Names, InStep, None, Configured, Unfinished, Starting, Asking, Building,
       BoundState
<1>5. CASE \E t \in Terminals : ComeBack(t)
  <2>1. PICK t \in Terminals : ComeBack(t)
    BY <1>5
  <2> QED
    BY <2>1, LinkFacts, ComeBackFacts DEF Becomes, StaysAsIs, command, people, history, Alive,
       Names, InStep, None, Configured, Unfinished, Starting, Asking, Building, BoundState,
       Waiting
<1>6. CASE Save \/ Exchange \/ Create
  BY <1>6, LinkFacts, SaveFacts, ExchangeFacts, CreateFacts DEF Becomes, StaysAsIs, command,
     people, history, Alive, Names, InStep, None, Configured, Unfinished, Starting, Asking,
     Building, BoundState
<1>7. CASE Unmint \/ Drop \/ Forget
  BY <1>7, LinkFacts, UnmintFacts, DropFacts, ForgetFacts DEF Becomes, StaysAsIs, command,
     people, history, Alive, Names, InStep, None, Configured, Unfinished, Starting, Asking,
     Building, BoundState
<1>8. CASE Note \/ Verify \/ Bind \/ Conflict
  BY <1>8, LinkFacts, NoteFacts, VerifyFacts, BindFacts, ConflictFacts DEF Becomes, StaysAsIs,
     command, people, history, Alive, Names, InStep, None, Configured, Unfinished, Starting,
     Asking, Building, BoundState
<1>9. CASE Bound \/ Promote \/ Commit
  BY <1>9, LinkFacts, BoundFacts, PromoteFacts, CommitFacts DEF Becomes, StaysAsIs, command,
     people, history, Alive, Names, InStep, None, Configured, Unfinished, Starting, Asking,
     Building, BoundState
<1>10. CASE Settle \/ Finish \/ RollBack \/ DropPending \/ Restore
  BY <1>10, LinkFacts, SettleFacts, FinishFacts, RollBackFacts, DropPendingFacts, RestoreFacts
     DEF Becomes, StaysAsIs, command, people, history, Alive, Names, InStep, None, Configured,
     Unfinished, Starting, Asking, Building, BoundState
<1>11. CASE Remove \/ RemoveConfirmed \/ Revoke \/ Attest
  BY <1>11, LinkFacts, RemoveFacts, RemoveConfirmedFacts, AttestFacts DEF Revoke, To, Becomes,
     StaysAsIs, command, people, history, Alive, Names, InStep, None, Configured, Unfinished,
     Starting, Asking, Building, BoundState
<1>12. CASE Erase \/ Removed \/ Stop \/ UNCHANGED vars
  BY <1>12, LinkFacts, EraseFacts, RemovedFacts DEF Stop, To, vars, Becomes, StaysAsIs,
     command, people, history, Alive, Names, InStep, None, Configured, Unfinished, Starting,
     Asking, Building, BoundState, NoCloud
<1> QED
  BY <1>1, <1>2, <1>3, <1>4, <1>5, <1>6, <1>7, <1>8, <1>9, <1>10, <1>11, <1>12 DEF Next

\* What is dropped was revoked before.
LEMMA GoneNext ==
  ASSUME CloudAssumption, LinkTyped, Numbered, Names, InStep, Generations, Waiting, InSlots,
           Intact, OnePerson, Alive, Gone, Accounted, [Next]_vars
  PROVE  Gone'
<1>1. CASE (\E c \in {"add", "reconnect"} : Start(c)) \/ Retire \/ DropRetiring \/ Begin
  BY <1>1, LinkFacts, DropRetiringFacts, BeginFacts DEF Start, To, Retire, Becomes, StaysAsIs,
     command, people, history, Gone, Names, InStep, Stored, None, Configured, Unfinished,
     Starting, Asking, Building, BoundState, NoCloud
<1>2. CASE GoOn
  BY <1>2, LinkFacts DEF GoOn, To, Becomes, StaysAsIs, command, people, history, Gone, Names,
     InStep, Stored, None, Configured, Unfinished, Starting, Asking, Building, BoundState,
     Fits, Resumable
<1>3. CASE \E t \in Terminals : OpenBrowser(t)
  <2>1. PICK t \in Terminals : OpenBrowser(t)
    BY <1>3
  <2> QED
    BY <2>1, LinkFacts, OpenFacts, OpenWaits DEF Becomes, StaysAsIs, command, people, history,
       Gone, Names, InStep, Stored, None, Configured, Unfinished, Starting, Asking, Building,
       BoundState
<1>4. CASE \E t \in Terminals : LeaveBrowser(t)
  <2>1. PICK t \in Terminals : LeaveBrowser(t)
    BY <1>4
  <2> QED
    BY <2>1, LinkFacts DEF LeaveBrowser, To, Becomes, StaysAsIs, command, people, history,
       Gone, Names, InStep, Stored, None, Configured, Unfinished, Starting, Asking, Building,
       BoundState
<1>5. CASE \E t \in Terminals : ComeBack(t)
  <2>1. PICK t \in Terminals : ComeBack(t)
    BY <1>5
  <2> QED
    BY <2>1, LinkFacts, ComeBackFacts DEF Becomes, StaysAsIs, command, people, history, Gone,
       Names, InStep, Stored, None, Configured, Unfinished, Starting, Asking, Building,
       BoundState
<1>6. CASE Save \/ Exchange \/ Create
  BY <1>6, LinkFacts, SaveFacts, ExchangeFacts, CreateFacts DEF Becomes, StaysAsIs, command,
     people, history, Gone, Names, InStep, Stored, None, Configured, Unfinished, Starting,
     Asking, Building, BoundState
<1>7. CASE Unmint \/ Drop \/ Forget
  BY <1>7, LinkFacts, UnmintFacts, DropFacts, ForgetFacts DEF Becomes, StaysAsIs, command,
     people, history, Gone, Names, InStep, Stored, None, Configured, Unfinished, Starting,
     Asking, Building, BoundState
<1>8. CASE Note \/ Verify \/ Bind \/ Conflict
  BY <1>8, LinkFacts, NoteFacts, VerifyFacts, BindFacts, ConflictFacts DEF Becomes, StaysAsIs,
     command, people, history, Gone, Names, InStep, Stored, None, Configured, Unfinished,
     Starting, Asking, Building, BoundState
<1>9. CASE Bound \/ Promote \/ Commit
  BY <1>9, LinkFacts, BoundFacts, PromoteFacts, CommitFacts DEF Becomes, StaysAsIs, command,
     people, history, Gone, Names, InStep, Stored, None, Configured, Unfinished, Starting,
     Asking, Building, BoundState
<1>10. CASE Settle \/ Finish \/ RollBack \/ DropPending \/ Restore
  BY <1>10, LinkFacts, SettleFacts, FinishFacts, RollBackFacts, DropPendingFacts, RestoreFacts
     DEF Becomes, StaysAsIs, command, people, history, Gone, Names, InStep, Stored, None,
     Configured, Unfinished, Starting, Asking, Building, BoundState
<1>11. CASE Remove
  <2>1. /\ at = "idle" /\ slot' = slot /\ live' = live /\ orphans' = orphans
        /\ at' = "erase" => cloud.done # NotDone
        /\ at' = "revoke" => ~Unverifiable
        /\ at' \in {"idle", "revoke", "erase"} /\ StaysAsIs
    BY <1>11, RemoveFacts
  <2>2. at' = "revoke" => \A n \in {cloud.current, cloud.pending} \ {None} : Stored(n)
    BY <2>1 DEF Unverifiable
  <2>3. cloud'.current = cloud.current /\ cloud'.pending = cloud.pending /\ cloud'.done = cloud.done
    BY <2>1 DEF StaysAsIs, Becomes
  <2> QED
    BY <2>1, <2>2, <2>3 DEF Gone, Stored
<1>12. CASE RemoveConfirmed
  <2>1. /\ at = "idle" /\ slot' = slot /\ live' = live \ ToDelete /\ orphans' = orphans
        /\ at' = "erase" /\ Becomes(cloud.state, cloud.current, cloud.pending, slot)
    BY <1>12, RemoveConfirmedFacts
  <2>2. ASSUME NEW n \in live' PROVE n \in orphans
    <3>1. n \in live /\ n \notin ToDelete /\ n \in SignIns /\ n # None
      BY <2>1, <2>2, LinkFacts DEF SignIns, None
    <3>2. /\ ~(cloud.pending # None /\ \A s \in Slots : ~SameGeneration(slot[s], cloud.pending))
          /\ n \notin {slot["current"], slot["pending"], slot["retiring"]}
      BY <3>1 DEF ToDelete
    <3>3. ~Stored(n)
      BY <3>2 DEF Stored, Slots
    <3>4. CASE /\ cloud.state = "authorizing" /\ cloud.pending # None
               /\ slot["pending"] = None
      <4>1. PICK s \in Slots : SameGeneration(slot[s], cloud.pending)
        BY <3>2, <3>4
      <4>2. slot[s] = cloud.current /\ cloud.current # None
        BY <3>4, <4>1 DEF InSlots, BoundState, SameGeneration, Slots
      <4> QED
        BY <3>4, <4>1, <4>2 DEF Generations, SameGeneration, Configured
    <3> QED
      BY <2>1, <3>1, <3>3, <3>4 DEF Accounted, Placed
  <2> QED
    BY <2>1, <2>2 DEF Gone
<1>13. CASE Revoke
  BY <1>13, LinkFacts DEF Revoke, To, Becomes, StaysAsIs, command, people, history, Gone,
     Names, InStep, Stored, None, Configured, Unfinished, Starting, Asking, Building,
     BoundState
<1>14. CASE Attest
  <2>1. /\ at = "revoke" /\ slot' = slot /\ live' = live /\ orphans' = orphans
        /\ at' = "erase" /\ ToRevoke = {}
    BY <1>14, AttestFacts DEF history
  <2>2. ASSUME NEW n \in live PROVE n \in orphans
    <3>1. ~Stored(n)
      BY <2>1 DEF ToRevoke, Stored
    <3>2. CASE cloud.state = "authorizing" /\ cloud.pending # None /\ slot["pending"] = None
      <4>1. PICK s \in Slots : slot[s] = cloud.pending
        BY <2>1, <3>2 DEF Gone, Stored
      <4>2. slot[s] = cloud.current /\ cloud.current # None
        BY <3>2, <4>1 DEF InSlots, BoundState, Slots
      <4> QED
        BY <3>2, <4>1, <4>2 DEF Generations, Configured
    <3> QED
      BY <2>1, <3>1, <3>2 DEF Accounted, Placed
  <2> QED
    BY <2>1, <2>2 DEF Gone
<1>15. CASE Erase \/ Removed
  BY <1>15, LinkFacts, EraseFacts, RemovedFacts DEF Becomes, StaysAsIs, command, people,
     history, Gone, Names, InStep, Stored, None, Configured, Unfinished, Starting, Asking,
     Building, BoundState, NoCloud
<1>16. CASE Stop
  BY <1>16, LinkFacts DEF Stop, To, Becomes, StaysAsIs, command, people, history, Gone, Names,
     InStep, Stored, None, Configured, Unfinished, Starting, Asking, Building, BoundState
<1>17. CASE UNCHANGED vars
  BY <1>17, LinkFacts DEF vars, To, Becomes, StaysAsIs, command, people, history, Gone, Names,
     InStep, Stored, None, Configured, Unfinished, Starting, Asking, Building, BoundState
<1> QED
  BY <1>1, <1>2, <1>3, <1>4, <1>5, <1>6, <1>7, <1>8, <1>9, <1>10, <1>11, <1>12, <1>13, <1>14,
     <1>15, <1>16, <1>17 DEF Next

\* Whoever builds on a sign-in has it in a slot.
LEMMA NotNoted ==
  ASSUME InStep, Generations, InSlots, at \in Building
  PROVE  ~(cloud.state = "authorizing" /\ slot["pending"] = None)
BY DEF InStep, Generations, InSlots, Building, BoundState, Configured

\* A sign-in leaves its slot only when it is revoked, and is never overwritten unnoticed.
LEMMA AccountedNext ==
  ASSUME CloudAssumption, LinkTyped, Numbered, Names, InStep, Generations, Waiting, InSlots,
           Intact, OnePerson, Alive, Gone, Accounted, [Next]_vars
  PROVE  Accounted'
<1>1. CASE (\E c \in {"add", "reconnect"} : Start(c)) \/ Retire
  BY <1>1, LinkFacts DEF Start, To, Retire, Becomes, StaysAsIs, command, people, history,
     Accounted, Placed, Names, InStep, Stored, None, Configured, Unfinished, Starting, Asking,
     Building, BoundState
<1>2. CASE DropRetiring
  <2> SUFFICES ASSUME NEW n \in live' PROVE Placed(n)'
    BY DEF Accounted
  <2>1. at = "drop retiring" /\ n \in live
    BY <1>2, DropRetiringFacts
  <2>2. Placed(n) /\ n # slot["retiring"]
    BY <2>1 DEF Accounted, Gone
  <2> QED
    BY <1>2, <2>1, <2>2, DropRetiringFacts DEF StaysAsIs, Becomes, Placed, Stored, Slots, people,
      history
<1>3. CASE Begin
  BY <1>3, LinkFacts, BeginFacts DEF Becomes, StaysAsIs, command, people, history, Accounted,
     Placed, Names, InStep, Stored, None, Configured, Unfinished, Starting, Asking, Building,
     BoundState
<1>4. CASE GoOn
  BY <1>4, LinkFacts DEF GoOn, To, Becomes, StaysAsIs, command, people, history, Accounted,
     Placed, Names, InStep, Stored, None, Configured, Unfinished, Starting, Asking, Building,
     BoundState
<1>5. CASE \E t \in Terminals : OpenBrowser(t)
  <2> SUFFICES ASSUME NEW n \in live' PROVE Placed(n)'
    BY DEF Accounted
  <2>1. PICK t \in Terminals : OpenBrowser(t)
    BY <1>5
  <2>2. n \in live /\ Placed(n) /\ at = "authorize" /\ gen'[n] = gen[n]
    BY <2>1, OpenFacts DEF Accounted, Numbered
  <2> QED
    BY <2>1, <2>2, OpenFacts DEF Placed, Stored
<1>6. CASE \E t \in Terminals : LeaveBrowser(t)
  <2>1. PICK t \in Terminals : LeaveBrowser(t)
    BY <1>6
  <2> QED
    BY <2>1, LinkFacts DEF LeaveBrowser, To, Becomes, StaysAsIs, command, people, history,
       Accounted, Placed, Names, InStep, Stored, None, Configured, Unfinished, Starting,
       Asking, Building, BoundState
<1>7. CASE \E t \in Terminals : ComeBack(t)
  <2>1. PICK t \in Terminals : ComeBack(t)
    BY <1>7
  <2> QED
    BY <2>1, LinkFacts, ComeBackFacts DEF Becomes, StaysAsIs, command, people, history,
       Accounted, Placed, Names, InStep, Stored, None, Configured, Unfinished, Starting,
       Asking, Building, BoundState
<1>8. CASE Save
  BY <1>8, LinkFacts, SaveFacts DEF Becomes, StaysAsIs, command, people, history, Accounted,
     Placed, Names, InStep, Stored, None, Configured, Unfinished, Starting, Asking, Building,
     BoundState
<1>9. CASE Exchange
  <2> SUFFICES ASSUME NEW n \in live' PROVE Placed(n)'
    BY DEF Accounted
  <2>1. /\ at = "exchange" /\ slot["pending"] = None /\ cloud.state = "authorizing"
        /\ cloud.pending = env /\ env # None
        /\ UNCHANGED <<slot, gen, env, orphans>>
        /\ cloud'.state = "authorizing" /\ cloud'.pending = env
    BY <1>9, ExchangeFacts DEF InStep, InSlots, Asking, StaysAsIs, Becomes, people, history
  <2>2. n = env \/ (n \in live /\ Placed(n))
    BY <1>9, ExchangeFacts DEF Accounted
  <2> QED
    BY <2>1, <2>2 DEF Placed, Stored
<1>10. CASE Create
  <2> SUFFICES ASSUME NEW n \in live' PROVE Placed(n)'
    BY DEF Accounted
  <2>1. /\ at = "create" /\ slot["pending"] = None /\ env = cloud.pending
        /\ n \in live /\ n # None /\ env # None /\ Placed(n)
    BY <1>10, CreateFacts, LinkFacts DEF InSlots, InStep, Asking, Accounted
  <2>2. CASE slot'["pending"] = env /\ orphans' = orphans \cup Unnoticed
    <3>1. Stored(n) => Stored(n)'
      BY <1>10, <2>1, CreateFacts DEF Stored, Slots
    <3>2. n = env => Stored(n)'
      BY <2>2 DEF Stored, Slots
    <3>3. CASE gen[n] = gen[cloud.pending] /\ n # env /\ ~Stored(n)
      BY <2>1, <2>2, <3>3 DEF Unnoticed, SameGeneration, Placed
    <3> QED
      BY <2>1, <2>2, <3>1, <3>2, <3>3 DEF Placed
  <2>3. CASE at' = "unmint" /\ slot' = slot /\ orphans' = orphans
    BY <1>10, <2>1, <2>3, CreateFacts DEF Placed, Stored, people
  <2> QED
    BY <1>10, <2>2, <2>3, CreateFacts
<1>11. CASE Unmint
  <2> SUFFICES ASSUME NEW n \in live' PROVE Placed(n)'
    BY DEF Accounted
  <2>1. /\ at = "unmint" /\ env = cloud.pending /\ env # None /\ cloud.state = "authorizing"
        /\ slot["pending"] \in {None, env} /\ n \in live /\ Placed(n)
    BY <1>11, UnmintFacts DEF InSlots, InStep, Asking, Accounted
  <2>2. n = env => at' = "idle"
    BY <1>11, UnmintFacts
  <2> QED
    BY <1>11, <2>1, <2>2, UnmintFacts DEF StaysAsIs, Becomes, Placed, Stored, Slots, people, history
<1>12. CASE Drop
  <2> SUFFICES ASSUME NEW n \in live' PROVE Placed(n)'
    BY DEF Accounted
  <2>1. n \in live /\ Placed(n) /\ n # env /\ n # None
    BY <1>12, DropFacts, LinkFacts DEF Accounted, Gone
  <2> QED
    BY <1>12, <2>1, DropFacts DEF StaysAsIs, Becomes, Placed, Stored, Slots, people, history
<1>13. CASE Forget
  <2> SUFFICES ASSUME NEW n \in live' PROVE Placed(n)'
    BY DEF Accounted
  <2>1. /\ n \in live /\ Placed(n) /\ n # env /\ n # None /\ at = "forget"
        /\ env = cloud.pending /\ env # None
    BY <1>13, ForgetFacts, LinkFacts DEF Accounted, Gone, InStep, Asking
  <2>2. orphans' = orphans \cup Unnoticed /\ slot' = slot
    BY <1>13, ForgetFacts
  <2> QED
    BY <2>1, <2>2 DEF Placed, Stored, Unnoticed, SameGeneration
<1>14. CASE Note
  <2> SUFFICES ASSUME NEW n \in live' PROVE Placed(n)'
    BY DEF Accounted
  <2>1. n \in live /\ Placed(n) /\ at \in Building
    BY <1>14, NoteFacts DEF Accounted, Building
  <2>2. ~(cloud.state = "authorizing" /\ slot["pending"] = None)
    BY <2>1, NotNoted
  <2> QED
    BY <1>14, <2>1, <2>2, NoteFacts DEF StaysAsIs, Becomes, Placed, Stored, Building, people,
      history
<1>15. CASE Verify
  <2> SUFFICES ASSUME NEW n \in live' PROVE Placed(n)'
    BY DEF Accounted
  <2>1. n \in live /\ Placed(n) /\ at \in Building
    BY <1>15, VerifyFacts DEF Accounted, Building
  <2>2. ~(cloud.state = "authorizing" /\ slot["pending"] = None)
    BY <2>1, NotNoted
  <2> QED
    BY <1>15, <2>1, <2>2, VerifyFacts DEF StaysAsIs, Becomes, Placed, Stored, Building, people,
      history
<1>16. CASE Bind
  BY <1>16, LinkFacts, BindFacts DEF Becomes, StaysAsIs, command, people, history, Accounted,
     Placed, Names, InStep, Stored, None, Configured, Unfinished, Starting, Asking, Building,
     BoundState
<1>17. CASE Conflict
  <2> SUFFICES ASSUME NEW n \in live' PROVE Placed(n)'
    BY DEF Accounted
  <2>1. n \in live /\ Placed(n) /\ at \in Building
    BY <1>17, ConflictFacts DEF Accounted, Building
  <2>2. ~(cloud.state = "authorizing" /\ slot["pending"] = None)
    BY <2>1, NotNoted
  <2> QED
    BY <1>17, <2>1, <2>2, ConflictFacts DEF StaysAsIs, Becomes, Placed, Stored, Building, people,
      history
<1>18. CASE Bound
  <2> SUFFICES ASSUME NEW n \in live' PROVE Placed(n)'
    BY DEF Accounted
  <2>1. n \in live /\ Placed(n) /\ at \in Building
    BY <1>18, BoundFacts DEF Accounted, Building
  <2>2. ~(cloud.state = "authorizing" /\ slot["pending"] = None)
    BY <2>1, NotNoted
  <2> QED
    BY <1>18, <2>1, <2>2, BoundFacts DEF StaysAsIs, Becomes, Placed, Stored, Building, people,
      history
<1>19. CASE Promote
  <2> SUFFICES ASSUME NEW n \in live' PROVE Placed(n)'
    BY DEF Accounted
  <2>1. /\ n \in live /\ Placed(n) /\ n # None /\ at = "promote" /\ BoundState
        /\ env = cloud.pending /\ env # None
    BY <1>19, PromoteFacts, LinkFacts DEF Accounted, InStep, Building
  <2>2. /\ slot["pending"] \in {None, env} /\ slot["current"] \in {None, cloud.current, env}
        /\ slot["retiring"] \in {None, cloud.current}
        /\ Configured => gen[env] # gen[cloud.current]
    BY <2>1 DEF InSlots, Generations, BoundState
  <2>3. InPlace => slot["current"] = env
    BY <2>2 DEF InPlace, SameGeneration, Configured
  <2>4. SameGeneration(slot["retiring"], slot["current"]) => slot["current"] = slot["retiring"]
    BY <2>2 DEF SameGeneration, Configured
  <2>5. Stored(n) => Stored(n)'
    BY <1>19, <2>1, <2>2, <2>3, <2>4, PromoteFacts DEF Stored, Slots, ToKeep
  <2> QED
    BY <1>19, <2>1, <2>5, PromoteFacts DEF Placed, BoundState, history
<1>20. CASE Commit
  BY <1>20, LinkFacts, CommitFacts DEF Becomes, StaysAsIs, command, people, history, Accounted,
     Placed, Names, InStep, Stored, None, Configured, Unfinished, Starting, Asking, Building,
     BoundState
<1>21. CASE Settle \/ Finish \/ RollBack
  BY <1>21, LinkFacts, SettleFacts, FinishFacts, RollBackFacts DEF Becomes, StaysAsIs, command,
     people, history, Accounted, Placed, Names, InStep, Stored, None, Configured, Unfinished,
     Starting, Asking, Building, BoundState
<1>22. CASE DropPending
  <2> SUFFICES ASSUME NEW n \in live' PROVE Placed(n)'
    BY DEF Accounted
  <2>1. at = "drop pending" /\ n \in live
    BY <1>22, DropPendingFacts
  <2>2. Placed(n) /\ n # slot["pending"] /\ cloud.state = "rolling_back"
    BY <2>1 DEF Accounted, Gone, InStep
  <2> QED
    BY <1>22, <2>1, <2>2, DropPendingFacts DEF StaysAsIs, Becomes, Placed, Stored, Slots, people,
      history
<1>23. CASE Restore
  BY <1>23, LinkFacts, RestoreFacts DEF Becomes, StaysAsIs, command, people, history,
     Accounted, Placed, Names, InStep, Stored, None, Configured, Unfinished, Starting, Asking,
     Building, BoundState
<1>24. CASE Remove \/ RemoveConfirmed \/ Revoke \/ Attest
  BY <1>24, LinkFacts, RemoveFacts, RemoveConfirmedFacts, AttestFacts DEF Revoke, To, Becomes,
     StaysAsIs, command, people, history, Accounted, Placed, Names, InStep, Stored, None,
     Configured, Unfinished, Starting, Asking, Building, BoundState
<1>25. CASE Erase
  <2> SUFFICES ASSUME NEW n \in live' PROVE Placed(n)'
    BY DEF Accounted
  <2> QED
    BY <1>25, EraseFacts DEF Gone, Placed, history
<1>26. CASE Removed
  <2> SUFFICES ASSUME NEW n \in live' PROVE Placed(n)'
    BY DEF Accounted
  <2> QED
    BY <1>26, RemovedFacts DEF Gone, Placed
<1>27. CASE Stop
  <2> SUFFICES ASSUME NEW n \in live' PROVE Placed(n)'
    BY DEF Accounted
  <2>1. n \in live /\ Placed(n) /\ UNCHANGED <<cloud, slot, gen, orphans>>
    BY <1>27 DEF Stop, Accounted, people, history
  <2>2. CASE env = n /\ at \in {"create", "unmint"}
    <3>1. /\ env = cloud.pending /\ env # None /\ cloud.state = "authorizing"
          /\ slot["pending"] \in {None, env}
      BY <2>2 DEF InStep, InSlots, Asking
    <3> QED
      BY <2>1, <2>2, <3>1 DEF Placed, Stored, Slots
  <2> QED
    BY <2>1, <2>2 DEF Placed, Stored
<1>28. CASE UNCHANGED vars
  BY <1>28, LinkFacts DEF vars, To, Becomes, StaysAsIs, command, people, history, Accounted,
     Placed, Names, InStep, Stored, None, Configured, Unfinished, Starting, Asking, Building,
     BoundState
<1> QED
  BY <1>1, <1>2, <1>3, <1>4, <1>5, <1>6, <1>7, <1>8, <1>9, <1>10, <1>11, <1>12, <1>13, <1>14,
     <1>15, <1>16, <1>17, <1>18, <1>19, <1>20, <1>21, <1>22, <1>23, <1>24, <1>25, <1>26, <1>27,
     <1>28 DEF Next

\* Link still works when its sign-in, its slot and the device's person are as before.
LEMMA StillWorks ==
  ASSUME LinkKeepsWorking, device' = device, user' = user, cloud'.current = cloud.current,
         slot'["current"] = slot["current"],
         cloud.current \in live /\ cloud.current # None => cloud.current \in live',
         cloud'.state # "device_bound_or_paired" /\ ~removing' =>
           cloud.state # "device_bound_or_paired" /\ ~removing
  PROVE  LinkKeepsWorking'
BY DEF LinkKeepsWorking, Configured

\* Link keeps working in every step that is not a removal.
LEMMA WorksNext ==
  ASSUME CloudAssumption, LinkTyped, Numbered, Names, InStep, Generations, InSlots, Intact,
           OnePerson, Alive, LinkKeepsWorking, Intact', [Next]_vars
  PROVE  LinkKeepsWorking'
<1>1. CASE \E c \in {"add", "reconnect"} : Start(c)
  <2>1. PICK c \in {"add", "reconnect"} : Start(c)
    BY <1>1
  <2> QED
    BY <2>1, LinkFacts DEF Start, To, Becomes, StaysAsIs, command, people, history,
       LinkKeepsWorking, Names, InStep, None, Configured, Unfinished, Building, BoundState,
       Intent
<1>2. CASE Retire
  BY <1>2, LinkFacts DEF Retire, To, Becomes, StaysAsIs, command, people, history,
     LinkKeepsWorking, Names, InStep, None, Configured, Unfinished, Building, BoundState,
     InSlots
<1>3. CASE DropRetiring
  <2>1. device' = device /\ user' = user
    BY <1>3, DropRetiringFacts DEF people
  <2>2. cloud'.current = cloud.current /\ cloud'.state = cloud.state
    BY <1>3, DropRetiringFacts DEF StaysAsIs, Becomes
  <2>3. slot'["current"] = slot["current"] /\ live' = live
    BY <1>3, DropRetiringFacts
  <2>4. ~removing' => ~removing
    BY <1>3, DropRetiringFacts DEF history
  <2> QED
    BY <2>1, <2>2, <2>3, <2>4, StillWorks
<1>4. CASE Begin
  BY <1>4, LinkFacts, BeginFacts DEF Becomes, StaysAsIs, command, people, history,
     LinkKeepsWorking, Names, InStep, None, Configured, Unfinished, Building, BoundState,
     NoCloud, Ready
<1>5. CASE GoOn
  BY <1>5, LinkFacts DEF GoOn, To, Becomes, StaysAsIs, command, people, history,
     LinkKeepsWorking, Names, InStep, None, Configured, Unfinished, Building, BoundState
<1>6. CASE \E t \in Terminals : OpenBrowser(t)
  <2>1. PICK t \in Terminals : OpenBrowser(t)
    BY <1>6
  <2>2. /\ cloud.state = "authorizing" /\ cloud'.current = cloud.current /\ cloud.current \in Nat
        /\ cloud.current # None => cloud.current \in 1..signIns
        /\ UNCHANGED <<slot, live, device, removing>>
    BY <2>1, LinkFacts, OpenFacts DEF Numbered, SignIns
  <2>3. Configured => user'[cloud.current] = user[cloud.current]
    BY <2>1, <2>2, OpenFacts DEF Configured
  <2> QED
    BY <2>2, <2>3 DEF LinkKeepsWorking, Configured
<1>7. CASE \E t \in Terminals : LeaveBrowser(t)
  <2>1. PICK t \in Terminals : LeaveBrowser(t)
    BY <1>7
  <2> QED
    BY <2>1, LinkFacts DEF LeaveBrowser, To, Becomes, StaysAsIs, command, people, history,
       LinkKeepsWorking, Names, InStep, None, Configured, Unfinished, Building, BoundState
<1>8. CASE \E t \in Terminals : ComeBack(t)
  <2>1. PICK t \in Terminals : ComeBack(t)
    BY <1>8
  <2>2. /\ device' = device /\ user' = user /\ cloud'.current = cloud.current
        /\ slot'["current"] = slot["current"]
        /\ cloud.current \in live /\ cloud.current # None => cloud.current \in live'
        /\ cloud'.state # "device_bound_or_paired" /\ ~removing' =>
             cloud.state # "device_bound_or_paired" /\ ~removing
    BY <2>1, LinkFacts, ComeBackFacts DEF StaysAsIs, Becomes, people, history
  <2> QED
    BY <2>2, StillWorks
<1>9. CASE Save
  BY <1>9, LinkFacts, SaveFacts DEF Becomes, StaysAsIs, command, people, history,
     LinkKeepsWorking, Names, InStep, None, Configured, Unfinished, Building, BoundState
<1>10. CASE Exchange
  BY <1>10, LinkFacts, ExchangeFacts DEF Becomes, StaysAsIs, command, people, history,
     LinkKeepsWorking, Names, InStep, None, Configured, Unfinished, Building, BoundState
<1>11. CASE Create
  BY <1>11, LinkFacts, CreateFacts DEF Becomes, StaysAsIs, command, people, history,
     LinkKeepsWorking, Names, InStep, None, Configured, Unfinished, Building, BoundState
<1>12. CASE Unmint
  <2>2. /\ device' = device /\ user' = user /\ cloud'.current = cloud.current
        /\ slot'["current"] = slot["current"]
        /\ cloud.current \in live /\ cloud.current # None => cloud.current \in live'
        /\ cloud'.state # "device_bound_or_paired" /\ ~removing' =>
             cloud.state # "device_bound_or_paired" /\ ~removing
    BY <1>12, LinkFacts, UnmintFacts DEF StaysAsIs, Becomes, people, history, Generations, InStep,
       Asking, Configured
  <2> QED
    BY <2>2, StillWorks
<1>13. CASE Drop
  BY <1>13, LinkFacts, DropFacts DEF Becomes, StaysAsIs, command, people, history,
     LinkKeepsWorking, Names, InStep, None, Configured, Unfinished, Building, BoundState
<1>14. CASE Forget
  BY <1>14, LinkFacts, ForgetFacts DEF Becomes, StaysAsIs, command, people, history,
     LinkKeepsWorking, Names, InStep, None, Configured, Unfinished, Building, BoundState
<1>15. CASE Note
  <2>2. /\ device' = device /\ user' = user /\ cloud'.current = cloud.current
        /\ slot'["current"] = slot["current"]
        /\ cloud.current \in live /\ cloud.current # None => cloud.current \in live'
        /\ cloud'.state # "device_bound_or_paired" /\ ~removing' =>
             cloud.state # "device_bound_or_paired" /\ ~removing
    BY <1>15, LinkFacts, NoteFacts DEF StaysAsIs, Becomes, people, history, BoundState
  <2> QED
    BY <2>2, StillWorks
<1>16. CASE Verify
  <2>2. /\ device' = device /\ user' = user /\ cloud'.current = cloud.current
        /\ slot'["current"] = slot["current"]
        /\ cloud.current \in live /\ cloud.current # None => cloud.current \in live'
        /\ cloud'.state # "device_bound_or_paired" /\ ~removing' =>
             cloud.state # "device_bound_or_paired" /\ ~removing
    BY <1>16, LinkFacts, VerifyFacts DEF StaysAsIs, Becomes, people, history, BoundState
  <2> QED
    BY <2>2, StillWorks
<1>17. CASE Bind
  BY <1>17, LinkFacts, BindFacts DEF Becomes, StaysAsIs, command, people, history,
     LinkKeepsWorking, Names, InStep, None, Configured, Unfinished, Building, BoundState,
     OtherPerson
<1>18. CASE Conflict
  <2>2. /\ device' = device /\ user' = user /\ cloud'.current = cloud.current
        /\ slot'["current"] = slot["current"]
        /\ cloud.current \in live /\ cloud.current # None => cloud.current \in live'
        /\ cloud'.state # "device_bound_or_paired" /\ ~removing' =>
             cloud.state # "device_bound_or_paired" /\ ~removing
    BY <1>18, LinkFacts, ConflictFacts DEF StaysAsIs, Becomes, people, history, BoundState,
       OnePerson, OtherPerson, InStep, Building, Configured
  <2> QED
    BY <2>2, StillWorks
<1>19. CASE Bound
  BY <1>19, LinkFacts, BoundFacts DEF Becomes, StaysAsIs, command, people, history,
     LinkKeepsWorking, Names, InStep, None, Configured, Unfinished, Building, BoundState
<1>20. CASE Promote
  BY <1>20, LinkFacts, PromoteFacts DEF Becomes, StaysAsIs, command, people, history,
     LinkKeepsWorking, Names, InStep, None, Configured, Unfinished, Building, BoundState,
     Intact, InSlots
<1>21. CASE Commit
  BY <1>21, LinkFacts, CommitFacts DEF Becomes, StaysAsIs, command, people, history,
     LinkKeepsWorking, Names, InStep, None, Configured, Unfinished, Building, BoundState,
     Alive, OnePerson, InSlots, Intact
<1>22. CASE Settle
  BY <1>22, LinkFacts, SettleFacts DEF Becomes, StaysAsIs, command, people, history,
     LinkKeepsWorking, Names, InStep, None, Configured, Unfinished, Building, BoundState
<1>23. CASE Finish
  BY <1>23, LinkFacts, FinishFacts DEF Becomes, StaysAsIs, command, people, history,
     LinkKeepsWorking, Names, InStep, None, Configured, Unfinished, Building, BoundState
<1>24. CASE RollBack
  <2>2. /\ device' = device /\ user' = user /\ cloud'.current = cloud.current
        /\ slot'["current"] = slot["current"]
        /\ cloud.current \in live /\ cloud.current # None => cloud.current \in live'
        /\ cloud'.state # "device_bound_or_paired" /\ ~removing' =>
             cloud.state # "device_bound_or_paired" /\ ~removing
    BY <1>24, LinkFacts, RollBackFacts DEF StaysAsIs, Becomes, people, history, InSlots, InStep,
       Names, Generations, Configured
  <2> QED
    BY <2>2, StillWorks
<1>25. CASE DropPending
  <2>1. device' = device /\ user' = user
    BY <1>25, DropPendingFacts DEF people
  <2>2. cloud'.current = cloud.current /\ cloud'.state = cloud.state
    BY <1>25, DropPendingFacts DEF StaysAsIs, Becomes
  <2>3. slot'["current"] = slot["current"] /\ live' = live
    BY <1>25, DropPendingFacts
  <2>4. ~removing' => ~removing
    BY <1>25, DropPendingFacts DEF history
  <2> QED
    BY <2>1, <2>2, <2>3, <2>4, StillWorks
<1>26. CASE Restore
  BY <1>26, LinkFacts, RestoreFacts DEF Becomes, StaysAsIs, command, people, history,
     LinkKeepsWorking, Names, InStep, None, Configured, Unfinished, Building, BoundState
<1>27. CASE Remove
  <2>1. device' = device /\ user' = user
    BY <1>27, RemoveFacts DEF people
  <2>2. cloud'.current = cloud.current /\ cloud'.state = cloud.state
    BY <1>27, RemoveFacts DEF StaysAsIs, Becomes
  <2>3. slot'["current"] = slot["current"] /\ live' = live
    BY <1>27, RemoveFacts
  <2>4. ~removing' => ~removing
    BY <1>27, RemoveFacts DEF history
  <2> QED
    BY <2>1, <2>2, <2>3, <2>4, StillWorks
<1>28. CASE RemoveConfirmed \/ Revoke \/ Attest
  BY <1>28, LinkFacts, RemoveConfirmedFacts, AttestFacts DEF Revoke, To, Becomes, StaysAsIs,
     command, people, history, LinkKeepsWorking, Names, InStep, None, Configured, Unfinished,
     Building, BoundState
<1>29. CASE Erase \/ Removed
  BY <1>29, LinkFacts, EraseFacts, RemovedFacts DEF Becomes, StaysAsIs, command, people,
     history, LinkKeepsWorking, Names, InStep, None, Configured, Unfinished, Building,
     BoundState, NoCloud
<1>30. CASE Stop
  BY <1>30, LinkFacts DEF Stop, To, Becomes, StaysAsIs, command, people, history,
     LinkKeepsWorking, Names, InStep, None, Configured, Unfinished, Building, BoundState
<1>31. CASE UNCHANGED vars
  BY <1>31, LinkFacts DEF vars, To, Becomes, StaysAsIs, command, people, history,
     LinkKeepsWorking, Names, InStep, None, Configured, Unfinished, Building, BoundState
<1> QED
  BY <1>1, <1>2, <1>3, <1>4, <1>5, <1>6, <1>7, <1>8, <1>9, <1>10, <1>11, <1>12, <1>13, <1>14,
     <1>15, <1>16, <1>17, <1>18, <1>19, <1>20, <1>21, <1>22, <1>23, <1>24, <1>25, <1>26, <1>27,
     <1>28, <1>29, <1>30, <1>31 DEF Next

-----------------------------------------------------------------------------
(* The invariant, and what follows from it *)

\* The invariant holds at the start, and every step keeps it.
LEMMA LinkInit == ASSUME CloudAssumption, Init PROVE LinkInv
<1>1. LinkTyped
  BY LinkTypeInit
<1>2. /\ cloud.state = "none" /\ cloud.current = None /\ cloud.pending = None
      /\ cloud.done = NotDone /\ cloud = NoCloud /\ signIns = None /\ env = None /\ live = {}
      /\ \A s \in Slots : slot[s] = None
      /\ \A t \in Terminals : waits[t] = NoWait
      /\ at = "idle" /\ "current" \in Slots /\ "pending" \in Slots /\ "retiring" \in Slots
  BY NoWaitFacts DEF Init, Slots, None
<1>3. Numbered
  BY <1>2, NoWaitFacts DEF Numbered, None
<1>4. Names /\ Generations /\ SlotsListed /\ OnePerson /\ Alive /\ Accounted
  BY <1>2 DEF Names, Generations, SlotsListed, OnePerson, Alive, Accounted, BoundState, Configured,
              Unfinished, Building
<1>5. InStep /\ Intact /\ InSlots
  BY <1>2 DEF InStep, Intact, InSlots, BoundState, Configured, Starting, Asking, Building
<1>6. Waiting
  BY <1>2, NoWaitFacts DEF Waiting
<1>7. Gone /\ LinkKeepsWorking
  BY <1>2 DEF Gone, LinkKeepsWorking, Configured
<1> QED
  BY <1>1, <1>3, <1>4, <1>5, <1>6, <1>7 DEF LinkInv

LEMMA LinkNext == ASSUME CloudAssumption, LinkInv, [Next]_vars PROVE LinkInv'
<1>1. /\ LinkTyped /\ Numbered /\ Names /\ InStep /\ Generations /\ Waiting /\ InSlots /\ Intact
      /\ SlotsListed /\ OnePerson /\ Alive /\ Gone /\ Accounted /\ LinkKeepsWorking
  BY DEF LinkInv
<1>2. LinkTyped'
  BY <1>1, LinkTypeNext
<1>3. Numbered'
  BY <1>1, NumberedNext
<1>4. Names'
  BY <1>1, NamesNext
<1>5. InStep'
  BY <1>1, InStepNext
<1>6. Generations'
  BY <1>1, GenerationsNext
<1>7. Waiting'
  BY <1>1, WaitingNext
<1>8. InSlots'
  BY <1>1, InSlotsNext
<1>9. Intact'
  BY <1>1, IntactNext
<1>10. SlotsListed'
  BY <1>1, SlotsListedNext
<1>11. OnePerson'
  BY <1>1, OnePersonNext
<1>12. Alive'
  BY <1>1, AliveNext
<1>13. Gone'
  BY <1>1, GoneNext
<1>14. Accounted'
  BY <1>1, AccountedNext
<1>15. LinkKeepsWorking'
  BY <1>1, <1>9, WorksNext
<1> QED
  BY <1>2, <1>3, <1>4, <1>5, <1>6, <1>7, <1>8, <1>9, <1>10, <1>11, <1>12, <1>13, <1>14, <1>15
     DEF LinkInv

\* The invariant of Home Assistant Link, from which its three properties follow.
THEOREM LinkInvariant == ASSUME CloudAssumption PROVE Spec => []LinkInv
BY LinkInit, LinkNext, PTL DEF Spec

\* Where the next command can go on: its slots fit, and so does what it resumes.
LEMMA GoesOn == ASSUME CloudAssumption, LinkInv PROVE NeverStuck
<1> SUFFICES ASSUME at = "idle", cloud # NoCloud, cloud.done = NotDone, cloud.hold = "none"
             PROVE  /\ \E c \in {"add", "reconnect"} : Intent(c)
                    /\ Preflight
                    /\ \/ cloud.state \in {"committed", "retiring_previous", "rolling_back"}
                       \/ /\ Fits
                          /\ \/ Resumable \in live \cup {None} \/ cloud.state = "authorizing"
                             \/ removing
  BY DEF NeverStuck, LinkInv, SlotsListed
<1>1. \E c \in {"add", "reconnect"} : Intent(c)
  BY DEF Intent
<1>2. /\ Names /\ InSlots /\ Intact /\ Alive /\ cloud.state # "none" /\ cloud.state \in States
  BY LinkFacts DEF LinkInv, Names, Lifecycles
<1>3. Preflight
  BY <1>2 DEF Preflight, Names, InSlots, Intact, BoundState, Configured
<1>4. ASSUME cloud.state \notin {"committed", "retiring_previous", "rolling_back"}
      PROVE  /\ Resumable \in {None, cloud.pending}
             /\ Resumable = None /\ cloud.pending # None => cloud.state = "authorizing"
  BY <1>2, <1>4 DEF Resumable, Names, InSlots, Intact, BoundState, States
<1>5. ASSUME cloud.state \notin {"committed", "retiring_previous", "rolling_back", "authorizing"},
             ~removing
      PROVE  Resumable \in live \cup {None}
  BY <1>2, <1>4, <1>5 DEF Names, Alive, Unfinished, States
<1> QED
  BY <1>1, <1>3, <1>4, <1>5 DEF Fits

\* A removal asks for every sign-in whose place is in doubt.
LEMMA AllAccounted == ASSUME CloudAssumption, LinkInv PROVE SignInsAccountedFor
<1> SUFFICES ASSUME NEW n \in live, cloud.state = "authorizing", cloud.pending # None,
                    slot["pending"] = None
             PROVE  Unverifiable /\ n \in ToDelete
  BY DEF LinkInv, Accounted, Placed, SignInsAccountedFor
<1>1. /\ slot["current"] \in {None, cloud.current} /\ slot["retiring"] = None
      /\ Configured => gen[cloud.pending] # gen[cloud.current]
  BY DEF LinkInv, InSlots, Generations, BoundState
<1>2. \A s \in Slots : slot[s] # cloud.pending /\ ~SameGeneration(slot[s], cloud.pending)
  BY <1>1 DEF Slots, SameGeneration, Configured
<1>3. Unverifiable
  BY <1>2 DEF Unverifiable, Stored
<1>4. ToDelete = SignIns
  BY <1>2 DEF ToDelete
<1> QED
  BY <1>3, <1>4, LinkFacts DEF LinkInv
=============================================================================
