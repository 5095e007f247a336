----------------------------- MODULE HumanVote -----------------------------
(***************************************************************************)
(* How a human answers a typed plan (confirm_both.go, confirm_window.go,   *)
(* confirm_phone.go): a window on this computer, the linked phone, or both *)
(* at once, each in its own goroutine.  The first decisive vote wins, the  *)
(* other is withdrawn, apply runs after a Confirm, and the phone is told   *)
(* how it ended.  This is the step Ask of module PlanApply in detail.      *)
(*                                                                         *)
(* Time is left out: what may time out may do so at any step.  The phone   *)
(* is one phone, its notification service external.                        *)
(***************************************************************************)
EXTENDS Naturals, Sequences

CONSTANTS MaxTaps  \* bound: taps on the phone's buttons

VoteAssumption == MaxTaps \in Nat

VARIABLES asked,   \* where the human is asked
          window,  \* the window's goroutine: open, or its answer
          phone,   \* the phone's goroutine: where it is, or its answer
          votes,   \* the channel of votes
          main,    \* the command
          got,     \* whose votes it received
          first,   \* whose vote decided
          ask,     \* the call that sends the question
          reply,   \* phoneReply: what the phone is told, and how far that is
          screen,  \* the phone's screen
          taps,    \* the taps a listening lane heard, not judged yet
          applied, \* history: the plan ran
          verdict, \* history: the first decisive vote cast
          gaveUp   \* history: a call to the phone failed or was not waited for

goroutines == <<window, phone, votes, taps>>
command    == <<main, got, first, applied>>
toPhone    == <<ask, reply, screen, gaveUp>>
vars == <<asked, goroutines, command, toPhone, verdict>>

Surfaces == {"window", "phone"}

WindowAnswers == {"confirmed", "cancelled", "noAnswer", "closed", "failed", "stopped"}
PhoneAnswers  == {"confirmed", "declined", "rejected", "noAnswer", "failed", "unread"}

VoteTypeOK ==
  /\ asked \in SUBSET Surfaces /\ asked # {}
  /\ window \in {"off", "open"} \cup WindowAnswers
  /\ phone \in {"off", "checking", "sending", "listening"} \cup PhoneAnswers
  /\ votes \in Seq(Surfaces) /\ Len(votes) <= 2
  /\ main \in {"asking", "withdrawing", "applying", "telling", "stopping", "done", "killed"}
  /\ got \in SUBSET asked /\ first \in Surfaces \cup {"none"}
  /\ ask \in {"unsent", "flying", "landed", "failed"}
  /\ reply \in [say : {"none", "clear", "nothing", "result"},
                at : {"idle", "due", "going", "over"}]
  /\ screen \in {"blank", "question", "done", "nothing"}
  /\ taps \in Seq({"ok", "no", "foreign"}) /\ Len(taps) <= MaxTaps
  /\ applied \in BOOLEAN /\ gaveUp \in BOOLEAN
  /\ verdict \in {"none", "yes", "no"}

Init ==
  /\ asked \in (SUBSET Surfaces) \ {{}}
  /\ window = (IF "window" \in asked THEN "open" ELSE "off")
  /\ phone = (IF "phone" \in asked THEN "checking" ELSE "off")
  /\ votes = <<>> /\ taps = <<>>
  /\ main = "asking" /\ got = {} /\ first = "none" /\ applied = FALSE
  /\ ask = "unsent" /\ reply = [say |-> "none", at |-> "idle"] /\ screen = "blank"
  /\ verdict = "none" /\ gaveUp = FALSE

Running == main \notin {"done", "killed"}

-----------------------------------------------------------------------------
(* The two goroutines and their votes *)

\* humanVote.decisive
Decisive(who, answer) ==
  \/ who = "window" /\ answer \in {"confirmed", "cancelled", "stopped"}
  \/ who = "phone" /\ answer \in {"confirmed", "declined", "rejected"}

DecisiveNo(who, answer) ==
  answer \in {"cancelled", "stopped", "declined", "rejected"}

Cast(who) == votes' = Append(votes, who)

Vote(who, answer) ==
  /\ Cast(who)
  /\ verdict' = IF verdict # "none" THEN verdict
                ELSE IF DecisiveNo(who, answer) THEN "no"
                ELSE IF answer = "confirmed" THEN "yes" ELSE "none"
  /\ UNCHANGED <<asked, command>>

\* askWindowUntilSignal.  The click may come while the window is withdrawn; a
\* signal that arrived before the answer wins.
WindowVotes(answer) ==
  /\ Running /\ window = "open"
  /\ window' = answer
  /\ Vote("window", answer)
  /\ UNCHANGED <<phone, taps, toPhone>>

PhoneVotes(answer) ==
  /\ phone' = answer
  /\ Vote("phone", answer)
  /\ UNCHANGED <<window, toPhone>>

\* phoneCanListen, phoneListens, phoneSettled: nothing was sent.
PhoneGivesUp ==
  /\ Running /\ phone = "checking"
  /\ \E answer \in {"noAnswer", "failed", "unread"} : PhoneVotes(answer)
  /\ UNCHANGED taps

\* sendPhones starts; the lanes listen from here.
SendAsk ==
  /\ Running /\ phone = "checking"
  /\ phone' = "sending" /\ ask' = "flying"
  /\ UNCHANGED <<asked, window, votes, taps, command, reply, screen, gaveUp, verdict>>

\* The question is on the phone, whoever still waits for it.
AskLands ==
  /\ ask = "flying"
  /\ ask' = "landed" /\ screen' = "question"
  /\ UNCHANGED <<asked, goroutines, command, reply, gaveUp, verdict>>

AskFails ==
  /\ ask = "flying"
  /\ ask' = "failed"
  /\ UNCHANGED <<asked, goroutines, command, reply, screen, gaveUp, verdict>>

AskSent ==
  /\ Running /\ phone = "sending" /\ ask = "landed"
  /\ phone' = "listening"
  /\ UNCHANGED <<asked, window, votes, taps, command, toPhone, verdict>>

\* No phone accepted it before the deadline, or before the ask was withdrawn.
AskUnsent ==
  /\ Running /\ phone = "sending" /\ ask # "landed"
  /\ PhoneVotes("failed")
  /\ UNCHANGED taps

\* A tap, and a lane that listens.  Both lanes hear it; the second is dropped.
Tap(button) ==
  /\ Running /\ screen = "question" /\ phone \in {"sending", "listening"}
  /\ Len(taps) < MaxTaps
  /\ taps' = Append(taps, button)
  /\ UNCHANGED <<asked, window, phone, votes, command, toPhone, verdict>>

\* judgePhoneEvent: foreign is a tap from anyone but the linked user's own app.
Judged(button) ==
  CASE button = "ok" -> "confirmed" [] button = "no" -> "declined"
    [] button = "foreign" -> "rejected"

PhoneHears ==
  /\ Running /\ phone = "listening" /\ taps # <<>>
  /\ PhoneVotes(Judged(Head(taps)))
  /\ taps' = Tail(taps)

\* ctx is done: the deadline, or withdrawn.
PhoneEnds ==
  /\ Running /\ phone = "listening"
  /\ PhoneVotes("noAnswer")
  /\ UNCHANGED taps

-----------------------------------------------------------------------------
(* confirmBoth; confirmByWindow and confirmByPhone where one surface is asked *)

Both(in) == in = Surfaces

AllIn(in) == in = asked

AnswerOf(who) == IF who = "window" THEN window ELSE phone

Receive ==
  /\ main = "asking" /\ votes # <<>>
  /\ LET who == Head(votes)
         decided == Decisive(who, AnswerOf(who))
     IN  /\ got' = got \cup {who}
         /\ first' = IF decided THEN who ELSE "none"
         /\ main' = IF decided \/ AllIn(got') THEN "withdrawing" ELSE "asking"
  /\ votes' = Tail(votes)
  /\ UNCHANGED <<asked, window, phone, taps, applied, toPhone, verdict>>

\* After cancel(): the other's vote, if it still comes, is dropped.
Drain ==
  /\ main = "withdrawing" /\ votes # <<>>
  /\ got' = got \cup {Head(votes)}
  /\ votes' = Tail(votes)
  /\ UNCHANGED <<asked, window, phone, taps, main, first, applied, toPhone, verdict>>

BothEnded == main = "withdrawing" /\ AllIn(got)

\* The zero phoneReply, where no question was sent, says nothing.
Reply(say, at) == reply' = [say |-> say, at |-> IF ask = "unsent" THEN "over" ELSE at]

Stopped == window = "stopped"

\* A stop on this computer wins over a Confirm on the phone.
Stop ==
  /\ Stopped
  /\ main' = "stopping"
  /\ Reply(IF first = "phone" THEN "nothing" ELSE "clear", "due")

\* phoneAsking.finish, with its second look at the link (phoneStillLinked).
PhoneDecides(stillLinked) ==
  /\ ~Stopped /\ first = "phone"
  /\ IF phone = "confirmed" /\ stillLinked
     THEN main' = "applying" /\ Reply("result", "idle")
     ELSE main' = "telling" /\ Reply("nothing", "due")

\* The question is taken off the phone while apply runs.
WindowDecides ==
  /\ ~Stopped /\ first = "window"
  /\ main' = IF window = "confirmed" THEN "applying" ELSE "telling"
  /\ Reply("clear", "due")

NobodyDecides ==
  /\ ~Stopped /\ first = "none"
  /\ main' = "telling" /\ Reply("nothing", "due")

Conclude ==
  /\ BothEnded
  /\ \/ Stop \/ WindowDecides \/ NobodyDecides
     \/ \E stillLinked \in BOOLEAN : PhoneDecides(stillLinked)
  /\ UNCHANGED <<asked, goroutines, got, first, applied, ask, screen, gaveUp, verdict>>

-----------------------------------------------------------------------------
(* finishApply, and what the phone is told *)

\* applyPlan runs the change, or refuses it after all.
Apply ==
  /\ main = "applying"
  /\ applied' \in BOOLEAN
  /\ main' = "telling"
  /\ reply' = IF reply.at = "idle" THEN [reply EXCEPT !.at = "due"] ELSE reply
  /\ UNCHANGED <<asked, goroutines, got, first, ask, screen, gaveUp, verdict>>

NoWait == ask \in {"flying", "landed", "failed"}

AskSettled == ask \in {"landed", "failed"}

\* A question still in flight would land after its own end: it is waited for,
\* for phoneTellSpan at most.
ReplyGoes ==
  /\ Running /\ reply.at = "due"
  /\ reply' = [reply EXCEPT !.at = "going"]
  /\ \/ AskSettled /\ UNCHANGED gaveUp
     \/ ask = "flying" /\ gaveUp' = TRUE
  /\ UNCHANGED <<asked, goroutines, command, ask, screen, verdict>>

Told == CASE reply.say = "clear" -> "blank"
          [] reply.say = "result" /\ applied -> "done"
          [] OTHER -> "nothing"

\* tellPhones, best effort.
ReplyEnds ==
  /\ Running /\ reply.at = "going"
  /\ reply' = [reply EXCEPT !.at = "over"]
  /\ \/ screen' = Told /\ UNCHANGED gaveUp
     \/ gaveUp' = TRUE /\ UNCHANGED screen
  /\ UNCHANGED <<asked, goroutines, command, ask, verdict>>

\* The command ends; after a stop, by the signal (endBySignal).
End ==
  /\ main \in {"telling", "stopping"} /\ reply.at = "over"
  /\ main' = IF main = "stopping" THEN "killed" ELSE "done"
  /\ UNCHANGED <<asked, goroutines, got, first, applied, toPhone, verdict>>

\* SIGKILL, or a signal while no window is open.
Kill ==
  /\ Running
  /\ main' = "killed"
  /\ UNCHANGED <<asked, goroutines, got, first, applied, toPhone, verdict>>

-----------------------------------------------------------------------------

Goroutines ==
  \/ \E answer \in WindowAnswers : WindowVotes(answer)
  \/ PhoneGivesUp \/ SendAsk \/ AskSent \/ AskUnsent \/ PhoneHears \/ PhoneEnds

Command ==
  Receive \/ Drain \/ Conclude \/ Apply \/ ReplyGoes \/ ReplyEnds \/ End

Next == \/ Goroutines \/ Command
        \/ AskLands \/ AskFails \/ Kill
        \/ \E button \in {"ok", "no", "foreign"} : Tap(button)

Fairness == WF_vars(Goroutines) /\ WF_vars(Command)

Spec == Init /\ [][Next]_vars /\ Fairness

-----------------------------------------------------------------------------
(* Properties *)

\* A plan runs only if the first decisive vote cast anywhere was a Confirm and
\* nobody stopped the command at its window: a second thought on the other
\* surface changes nothing, in neither direction (confirmBoth).
FirstAnswerDecides == applied => verdict = "yes" /\ window # "stopped"

\* When the change runs, no one is asked any more: a window left open or a lane
\* that listens would take an answer that nothing reads.
NoAskLeft ==
  main \in {"applying", "telling", "done"} =>
    window # "open" /\ phone \notin {"checking", "sending", "listening"}

\* Every path tells the phone: a command that ended by itself, and whose calls
\* to the phone went through, leaves no question there, and after an answer at
\* the window nothing at all; and the phone never shows "done" for a change
\* that did not run, nor "nothing changed" for one that did.
PhoneKnows ==
  /\ main = "done" /\ ~gaveUp =>
       /\ screen # "question"
       /\ first = "window" => screen = "blank"
  /\ screen = "done" => applied
  /\ screen = "nothing" => ~applied

\* All three: one answer decides, no surface still asks for what is decided, and none
\* tells what is not so.
FirstAnswerSettles == FirstAnswerDecides /\ NoAskLeft /\ PhoneKnows

\* The command ends, whoever answers or does not.
AskEnds == <>(main \in {"done", "killed"})
=============================================================================
