-------------------------- MODULE AccessLifecycle --------------------------
(***************************************************************************)
(* What the NOVA Relay promises about a device credential, independently   *)
(* of how it is stored: a credential is issued once, for one client        *)
(* install; it is provisional until it is promoted; promoting it retires   *)
(* everything else of that install; withdrawing one also retires every     *)
(* provisional credential of its install; and what is gone stays gone.     *)
(* DeviceRegistry is shown to implement this.                              *)
(***************************************************************************)
EXTENDS Naturals

CONSTANTS Credentials,  \* every credential that can ever be issued
          Installs,     \* the client installs credentials are issued to
          NoInstall

VARIABLES life,    \* where each credential is in its life
          holder   \* the install each issued credential was issued to

vars == <<life, holder>>

Stages == {"unissued", "provisional", "usable", "gone"}

Provisional == {c \in Credentials : life[c] = "provisional"}

SameInstall(c) == {x \in Credentials : holder[x] = holder[c]}

LifeTypeOK == /\ life \in [Credentials -> Stages]
              /\ holder \in [Credentials -> Installs \cup {NoInstall}]
              /\ \A c \in Credentials : life[c] # "unissued" => holder[c] \in Installs

Init == /\ life = [c \in Credentials |-> "unissued"]
        /\ holder = [c \in Credentials |-> NoInstall]

\* Provisional credentials whose time has run out may lapse with any change.
Issue(c, i) ==
  /\ life[c] = "unissued"
  /\ \E lapsed \in SUBSET Provisional :
       life' = [x \in Credentials |-> IF x = c THEN "provisional"
                                      ELSE IF x \in lapsed THEN "gone" ELSE life[x]]
  /\ holder' = [holder EXCEPT ![c] = i]

\* A component of the Relay itself is issued a credential that is usable at once.
IssueUsable(c, i) ==
  /\ life[c] = "unissued"
  /\ \E lapsed \in SUBSET Provisional :
       life' = [x \in Credentials |->
                  IF x = c THEN "usable"
                  ELSE IF x \in lapsed \cup {y \in Credentials : holder[y] = i} THEN "gone"
                  ELSE life[x]]
  /\ holder' = [holder EXCEPT ![c] = i]

Promote(c) ==
  /\ life[c] = "provisional"
  /\ \E lapsed \in SUBSET (Provisional \ {c}) :
       life' = [x \in Credentials |->
                  IF x = c THEN "usable"
                  ELSE IF x \in lapsed \cup SameInstall(c) THEN "gone"
                  ELSE life[x]]
  /\ UNCHANGED holder

Withdraw(c) ==
  /\ life[c] \in {"provisional", "usable"}
  /\ life' = [x \in Credentials |->
                IF x = c \/ x \in Provisional \cap SameInstall(c) THEN "gone" ELSE life[x]]
  /\ UNCHANGED holder

Next == \E c \in Credentials :
          \/ \E i \in Installs : Issue(c, i) \/ IssueUsable(c, i)
          \/ Promote(c)
          \/ Withdraw(c)

Spec == Init /\ [][Next]_vars

-----------------------------------------------------------------------------

\* An install never has two usable credentials: the owner who revokes the one
\* they see has revoked all of that computer's access.
OneUsablePerInstall ==
  \A c, x \in Credentials :
    (life[c] = "usable" /\ life[x] = "usable" /\ holder[c] = holder[x]) => c = x

\* A credential that is gone is never accepted again.
GoneForever == [][\A c \in Credentials : life[c] = "gone" => life'[c] = "gone"]_vars
=============================================================================
