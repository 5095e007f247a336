-------------------------- MODULE PairingRateLimit --------------------------
(***************************************************************************)
(* The limiter of pairing starts (createPairingRateLimiter): a fixed       *)
(* window of attempts for each peer and one for all of them together.  At  *)
(* most MaxTracked peers are remembered; the one not seen for longest is   *)
(* forgotten.  Pairing keeps one limiter for the LAN's codes and one for   *)
(* codes armed in the Cloud.  The clock does not run backwards here.       *)
(***************************************************************************)
EXTENDS Integers, FiniteSets, Sequences

CONSTANTS Peers, PeerLimit, GlobalLimit, PeerWindow, GlobalWindow, MaxTracked,
          MaxNow  \* bound of the clock

RateAssumption ==
  /\ PeerLimit \in Nat \ {0} /\ GlobalLimit \in Nat \ {0}
  /\ PeerWindow \in Nat \ {0} /\ GlobalWindow \in Nat \ {0}
  /\ MaxTracked \in Nat \ {0} /\ MaxNow \in Nat

VARIABLES now,
          peers,    \* the tracked peers' windows
          global,
          allowed,  \* history: when each allowed attempt was
          told      \* history: since when a peer blocked by its budget may retry

vars == <<now, peers, global, allowed, told>>

Window == [started : Int, count : Nat, seen : Int]

\* A window that is not there is one that ended before the first attempt.
NoWindow(length) == [started |-> -length, count |-> 0, seen |-> -1]

Times == 0..MaxNow

RateTypeOK ==
  /\ now \in Times
  /\ DOMAIN peers \subseteq Peers /\ peers \in [DOMAIN peers -> Window]
  /\ Cardinality(DOMAIN peers) <= MaxTracked
  /\ global \in Window
  /\ allowed \in Seq(Times)
  /\ told \in [Peers -> Int]

Init ==
  /\ now = 0
  /\ peers = [p \in {} |-> NoWindow(PeerWindow)]
  /\ global = NoWindow(GlobalWindow)
  /\ allowed = <<>>
  /\ told = [p \in Peers |-> -1]

-----------------------------------------------------------------------------

\* roll, and lastSeenAtMs
Roll(window, length) ==
  IF now >= window.started + length
  THEN [started |-> now, count |-> 0, seen |-> now] ELSE [window EXCEPT !.seen = now]

PeerWindowOf(p) ==
  Roll(IF p \in DOMAIN peers THEN peers[p] ELSE NoWindow(PeerWindow), PeerWindow)

\* evictOldest
Evicted(p) ==
  IF p \in DOMAIN peers \/ Cardinality(DOMAIN peers) < MaxTracked THEN {{}}
  ELSE {{old} : old \in {x \in DOMAIN peers :
                           \A y \in DOMAIN peers : peers[x].seen <= peers[y].seen}}

Track(p, window, gone) ==
  peers' = [x \in (DOMAIN peers \ gone) \cup {p} |-> IF x = p THEN window ELSE peers[x]]

Counted(window) == [window EXCEPT !.count = @ + 1]

FullLater(window, limit) == window.count > limit

Full(window, limit) == window.count >= limit

\* attempt, allowed: both windows count it.
Allow(p, mine, all, gone) ==
  /\ ~Full(mine, PeerLimit) /\ ~Full(all, GlobalLimit)
  /\ Track(p, Counted(mine), gone) /\ global' = Counted(all)
  /\ allowed' = Append(allowed, now)
  /\ told' = [told EXCEPT ![p] = -1]

\* attempt, blocked: neither window counts it, but both may have rolled.
Block(p, mine, all, gone) ==
  /\ Full(mine, PeerLimit) \/ Full(all, GlobalLimit)
  /\ Track(p, mine, gone) /\ global' = all
  /\ told' = [told EXCEPT ![p] = IF Full(mine, PeerLimit) THEN mine.started + PeerWindow ELSE -1]
  /\ UNCHANGED allowed

Attempt(p) ==
  \E gone \in Evicted(p) :
    LET mine == PeerWindowOf(p)
        all  == Roll(global, GlobalWindow)
    IN  /\ Allow(p, mine, all, gone) \/ Block(p, mine, all, gone)
        /\ UNCHANGED now

Tick ==
  /\ now < MaxNow /\ now' = now + 1
  /\ UNCHANGED <<peers, global, allowed, told>>

Next == Tick \/ \E p \in Peers : Attempt(p)

Spec == Init /\ [][Next]_vars

-----------------------------------------------------------------------------
(* Properties *)

AllowedIn(from, to) == {n \in DOMAIN allowed : allowed[n] \in from..to}

\* "A peer already blocked by its own budget cannot consume the global budget":
\* the global window counts the allowed attempts and nothing else.
OnlyAllowedCount == global.count = Cardinality(AllowedIn(global.started, now))

\* However many peers come, and however often one is forgotten, all of them
\* together get two global budgets at most in any span of one window's length.
GlobalBudget ==
  \A t \in Times : Cardinality(AllowedIn(t, t + GlobalWindow - 1)) <= 2 * GlobalLimit

\* A peer told to come back at a time has its own budget again by then, also
\* when it tried in between or was forgotten.
RetryAfterIsTrue ==
  \A p \in Peers :
    told[p] >= 0 /\ now >= told[p] => ~Full(PeerWindowOf(p), PeerLimit)

\* The limiter's promises hold together, over any order of attempts and ticks.
BudgetsHold == OnlyAllowedCount /\ GlobalBudget /\ RetryAfterIsTrue
=============================================================================
