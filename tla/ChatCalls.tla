----------------------------- MODULE ChatCalls ------------------------------
(***************************************************************************)
(* ha_apply in a chat app (cli/mcp_serve_apply.go, mcp_serve_phone.go).  A *)
(* chat app gives up on a call after about a minute, so an apply runs as a *)
(* job and a call waits on it for a while: it answers with the outcome, or *)
(* that the change is being made, or that the phone was not tapped yet.    *)
(* One lock holds every request that uses the Relay; a request in line     *)
(* gives up after a while and answers BUSY, what follows a tap does not.   *)
(* While the phone asks nobody holds the lock.                             *)
(*                                                                         *)
(* What a plan's apply does is PlanApply's; here it sends or it does not.  *)
(* Time is left out: whatever waits may time out at once.                  *)
(***************************************************************************)
EXTENDS Naturals, FiniteSets

CONSTANTS Plans, PhonePlans,  \* plans, and those a phone confirms
          Users, UserOf,      \* whose plans they are
          Calls,
          MaxJobs,            \* bound: jobs ever started
          MaxChanges          \* bound: changes of the owner's list

ASSUME CallsAssumption ==
  /\ PhonePlans \subseteq Plans /\ UserOf \in [Plans -> Users]
  /\ MaxJobs \in Nat /\ MaxChanges \in Nat

VARIABLES other,    \* another request holds the lock
          allowed,  \* the users on the owner's list
          jobs,     \* every job ever started
          current,  \* bridge.jobs: each plan's job, or 0
          calls,    \* each call and the job it waits on
          spent,    \* the plans that can't be applied any more
          sent,     \* history: the plans Home Assistant was sent
          changes

vars == <<other, allowed, jobs, current, calls, spent, sent, changes>>

Jobs == 1..MaxJobs

\* answer: the phone's.  ok: the access as read after the tap.  seen: history,
\* the user was on the list since the job took the lock to apply.
Job == [plan : Plans, at : {"line", "starts", "asking", "heard", "users", "again", "rereads", "sends", "ended"},
        answer : {"none", "yes", "no"}, ok : BOOLEAN, seen : BOOLEAN,
        result : {"none", "busy", "refused", "applied"}]

Idle == [at |-> "idle", job |-> 0]

CallsTypeOK ==
  /\ other \in BOOLEAN /\ allowed \in SUBSET Users
  /\ DOMAIN jobs \subseteq Jobs /\ jobs \in [DOMAIN jobs -> Job]
  /\ current \in [Plans -> {0} \cup DOMAIN jobs]
  /\ calls \in [Calls -> [at : {"idle", "waits", "late", "over"}, job : {0} \cup DOMAIN jobs]]
  /\ sent \in SUBSET spent /\ spent \in SUBSET Plans

Init ==
  /\ other = FALSE /\ allowed = Users
  /\ jobs = [j \in {} |-> Idle] /\ current = [p \in Plans |-> 0]
  /\ calls = [c \in Calls |-> Idle]
  /\ spent = {} /\ sent = {} /\ changes = 0

-----------------------------------------------------------------------------
(* The lock: mcpVerbLock *)

Holds(j) == jobs[j].at \in {"starts", "rereads", "sends"}

LockFree == ~other /\ \A j \in DOMAIN jobs : ~Holds(j)

OtherLocks ==
  /\ LockFree /\ other' = TRUE
  /\ UNCHANGED <<allowed, jobs, current, calls, spent, sent, changes>>

OtherUnlocks ==
  /\ other /\ other' = FALSE
  /\ UNCHANGED <<allowed, jobs, current, calls, spent, sent, changes>>

-----------------------------------------------------------------------------
(* The jobs: applyJob and phoneJob *)

Phone(j) == jobs[j].plan \in PhonePlans
User(j) == UserOf[jobs[j].plan]
Open(j) == jobs[j].at # "ended"

Goto(j, pc) == jobs' = [jobs EXCEPT ![j].at = pc]
Ends(j, result) ==
  jobs' = [jobs EXCEPT ![j] = [@ EXCEPT !.at = "ended", !.result = result, !.ok = FALSE, !.seen = FALSE]]

\* The lock an apply runs under.
Locks(j) == jobs' = [jobs EXCEPT ![j].at = "rereads", ![j].seen = User(j) \in allowed]

JobOnly == UNCHANGED <<other, allowed, current, calls, changes>>

\* lockVerb, and chatBusy when the job gave up on it.
TakeLock(j) ==
  /\ jobs[j].at = "line" /\ LockFree
  /\ IF Phone(j) THEN Goto(j, "starts") ELSE Locks(j)
  /\ JobOnly /\ UNCHANGED <<spent, sent>>

WaitForEver(j) == FALSE

GiveUp(j) ==
  /\ jobs[j].at = "line" /\ ~LockFree
  /\ Ends(j, "busy")
  /\ JobOnly /\ UNCHANGED <<spent, sent>>

\* startPhoneAsk: the question goes out, or apply says why not.
StartAsk(j) ==
  /\ jobs[j].at = "starts"
  /\ \/ Goto(j, "asking") /\ UNCHANGED spent
     \/ Ends(j, "refused") /\ (UNCHANGED spent \/ spent' = spent \cup {jobs[j].plan})
  /\ JobOnly /\ UNCHANGED sent

\* The phone answers, or nobody does in time.
Hear(j, answer) ==
  /\ jobs[j].at = "asking"
  /\ jobs' = [jobs EXCEPT ![j].answer = answer, ![j].at = IF answer = "yes" THEN "heard" ELSE "again"]
  /\ JobOnly /\ UNCHANGED <<spent, sent>>

\* policyNow: the owner's list, then Home Assistant's users under the lock;
\* the list again whenever the wait for the lock gave up.
ReadList(j) ==
  /\ jobs[j].at = "heard" \/ (jobs[j].at = "users" /\ ~LockFree)
  /\ jobs' = [jobs EXCEPT ![j].ok = User(j) \in allowed,
                          ![j].at = IF User(j) \in allowed THEN "users" ELSE "again"]
  /\ JobOnly /\ UNCHANGED <<spent, sent>>

ReadUsers(j) ==
  /\ jobs[j].at = "users" /\ LockFree
  /\ \E read \in BOOLEAN : jobs' = [jobs EXCEPT ![j].ok = read, ![j].at = "again"]
  /\ JobOnly /\ UNCHANGED <<spent, sent>>

\* mcpVerbLock.Lock: as long as it takes.
LockAgain(j) ==
  /\ jobs[j].at = "again" /\ LockFree
  /\ Locks(j)
  /\ JobOnly /\ UNCHANGED <<spent, sent>>

MayApplyAsHeard(j) == Phone(j) => jobs[j].answer = "yes" /\ jobs[j].ok

\* Under the lock the owner's list as it is now decides (reread).
MayApply(j) ==
  /\ User(j) \in allowed
  /\ Phone(j) => jobs[j].answer = "yes" /\ jobs[j].ok

\* Nothing is sent either where apply itself refuses the plan.
Reread(j) ==
  /\ jobs[j].at = "rereads"
  /\ \/ MayApply(j) /\ jobs[j].plan \notin spent /\ Goto(j, "sends") /\ UNCHANGED spent
     \/ Ends(j, "refused") /\ (UNCHANGED spent \/ spent' = spent \cup {jobs[j].plan})
  /\ JobOnly /\ UNCHANGED sent

Send(j) ==
  /\ jobs[j].at = "sends"
  /\ Ends(j, "applied")
  /\ spent' = spent \cup {jobs[j].plan} /\ sent' = sent \cup {jobs[j].plan}
  /\ JobOnly

-----------------------------------------------------------------------------
(* The calls: chatJoin, chatApply and awaitJob *)

\* Results nobody came back for may go.
Without(old) == [p \in Plans |-> IF p \in old THEN 0 ELSE current[p]]

PendingIfAsked(p) ==
  \E q \in Plans \ {p} :
    /\ {p, q} \subseteq PhonePlans /\ UserOf[q] = UserOf[p]
    /\ current[q] # 0 /\ jobs[current[q]].at = "asking"

\* The user's phone has a question open, or one on its way.
Pending(p) ==
  \E q \in Plans \ {p} :
    /\ {p, q} \subseteq PhonePlans /\ UserOf[q] = UserOf[p]
    /\ current[q] # 0 /\ Open(current[q])

NewJob(p) == [plan |-> p, at |-> "line", answer |-> "none", ok |-> FALSE, seen |-> FALSE, result |-> "none"]

Wait(c, j) == calls' = [calls EXCEPT ![c] = [at |-> "waits", job |-> j]]

Join(c, p) ==
  /\ calls[c].at = "idle" /\ current[p] # 0
  /\ Wait(c, current[p])
  /\ UNCHANGED <<other, allowed, jobs, current, spent, sent, changes>>

\* Refused while another change of the user waits for a tap.
Start(c, p) ==
  /\ calls[c].at = "idle" /\ current[p] = 0 /\ p \notin spent /\ UserOf[p] \in allowed
  /\ Cardinality(DOMAIN jobs) < MaxJobs
  /\ \E old \in SUBSET {q \in Plans : current[q] # 0 /\ ~Open(current[q])} :
       IF Pending(p)
       THEN current' = Without(old) /\ UNCHANGED <<jobs, calls>>
       ELSE LET j == Cardinality(DOMAIN jobs) + 1
            IN  /\ jobs' = [i \in 1..j |-> IF i = j THEN NewJob(p) ELSE jobs[i]]
                /\ current' = [Without(old) EXCEPT ![p] = j]
                /\ Wait(c, j)
  /\ UNCHANGED <<other, allowed, spent, sent, changes>>

Woken(c) ==
  /\ calls[c].at = "waits" /\ ~Open(calls[c].job)
  /\ calls' = [calls EXCEPT ![c].at = "over"]
  /\ UNCHANGED <<other, allowed, jobs, current, spent, sent, changes>>

Anywhere(j) == FALSE

\* The wait is over before the job, which is not in line any more.
InLine(j) == jobs[j].at = "line"

TimesOut(c) ==
  /\ calls[c].at = "waits" /\ Open(calls[c].job) /\ ~InLine(calls[c].job)
  /\ calls' = [calls EXCEPT ![c].at = "late"]
  /\ UNCHANGED <<other, allowed, jobs, current, spent, sent, changes>>

Answered(c) == calls' = [calls EXCEPT ![c] = Idle]

\* What it says then: to a user not on the list, nothing.
Says(c) ==
  LET j == calls[c].job
  IN  IF User(j) \notin allowed THEN "nothing"
      ELSE IF calls[c].at = "over" THEN jobs[j].result
      ELSE IF Phone(j) /\ jobs[j].answer = "none" THEN "waiting_for_phone" ELSE "applying"

AnswerLate(c) ==
  /\ calls[c].at = "late"
  /\ Answered(c)
  /\ UNCHANGED <<other, allowed, jobs, current, spent, sent, changes>>

\* Only a user still on the list gets the outcome, and then it is gone.
AnswerOutcome(c) ==
  LET j == calls[c].job IN
  /\ calls[c].at = "over"
  /\ \/ User(j) \in allowed /\ current' = [p \in Plans |-> IF current[p] = j THEN 0 ELSE current[p]]
     \/ UNCHANGED current
  /\ Answered(c)
  /\ UNCHANGED <<other, allowed, jobs, spent, sent, changes>>

-----------------------------------------------------------------------------

OwnerChanges(u) ==
  /\ changes < MaxChanges /\ changes' = changes + 1
  /\ IF u \in allowed
     THEN allowed' = allowed \ {u} /\ UNCHANGED jobs
     ELSE /\ allowed' = allowed \cup {u}
          /\ jobs' = [j \in DOMAIN jobs |-> [jobs[j] EXCEPT !.seen = @ \/ (User(j) = u /\ Holds(j))]]
  /\ UNCHANGED <<other, current, calls, spent, sent>>

Runs(j) ==
  \/ StartAsk(j) \/ (\E answer \in {"none", "yes", "no"} : Hear(j, answer))
  \/ ReadList(j) \/ Reread(j) \/ Send(j)

Answers(c) == Woken(c) \/ AnswerLate(c) \/ AnswerOutcome(c)

Next ==
  \/ OtherLocks \/ OtherUnlocks
  \/ \E j \in DOMAIN jobs :
       Runs(j) \/ TakeLock(j) \/ GiveUp(j) \/ ReadUsers(j) \/ LockAgain(j)
  \/ \E c \in Calls : Answers(c) \/ TimesOut(c) \/ (\E p \in Plans : Join(c, p) \/ Start(c, p))
  \/ \E u \in Users : OwnerChanges(u)

\* Every request lets go of the lock.  A wait in line ends, with or without it.
\* Waits on the lock are served in order, so one that does not give up gets it;
\* policyNow's waits do, each at the back of the line, but not for ever.
Fairness ==
  /\ WF_vars(OtherUnlocks)
  /\ \A j \in Jobs :
       LET started == j \in DOMAIN jobs
       IN  /\ WF_vars(started /\ (Runs(j) \/ TakeLock(j) \/ GiveUp(j)))
           /\ SF_vars(started /\ ReadUsers(j)) /\ SF_vars(started /\ LockAgain(j))
  /\ \A c \in Calls : WF_vars(Answers(c)) /\ WF_vars(TimesOut(c))

Spec == Init /\ [][Next]_vars /\ Fairness

-----------------------------------------------------------------------------
(* What makes it correct *)

\* What a call says of its job is true as it says it: nothing ran while the
\* phone is waited for, and a change said to be made is not one that gave up on
\* the lock.
SaysWhatIs ==
  \A c \in Calls :
    LET j == calls[c].job IN
    calls[c].at = "late" =>
      /\ Says(c) = "waiting_for_phone" => jobs[j].result # "applied"
      /\ Says(c) = "applying" => jobs[j].result # "busy" /\ ~InLine(j)

\* A user's phone never has two questions open: not by two calls of one plan,
\* two plans, or a call after an answer that was not the last one.
OneOpenAsk ==
  \A i, j \in DOMAIN jobs :
    i # j /\ User(i) = User(j) /\ jobs[i].at = "asking" => jobs[j].at # "asking"

\* Nothing is sent for a user the owner took off the list before the change
\* took the lock, however long ago they confirmed it.
NothingAfterRemoval == \A j \in DOMAIN jobs : jobs[j].at = "sends" => jobs[j].seen

\* A call is answered, whatever holds the lock.
CallsEnd == \A c \in Calls : calls[c].at # "idle" ~> calls[c].at = "idle"
=============================================================================
