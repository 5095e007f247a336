--------------------------- MODULE ChatCallsProofs ---------------------------
(***************************************************************************)
(* The calls of a chat app, for any number of plans, users, calls and      *)
(* jobs: one question at a time, nothing for a user who was removed, and   *)
(* no answer that is untrue as it is given.                                *)
(*                                                                         *)
(* A plan's entry in bridge.jobs is what the three hang on.  An open job   *)
(* is always its plan's entry (CurrentJobs), so who looks there before     *)
(* starting another one sees every question of the user (OneAtATime); and  *)
(* a call holds the number of a job that is never used again (CallFits).   *)
(***************************************************************************)
EXTENDS ChatCalls, FiniteSetTheorems, TLAPS

ByPhone == {"starts", "asking", "heard", "users", "again"}

\* The jobs are numbered as they start.
Numbered == \E n \in Nat : DOMAIN jobs = 1..n

CurrentJobs ==
  /\ \A p \in Plans : current[p] # 0 => jobs[current[p]].plan = p
  /\ \A j \in DOMAIN jobs : Open(j) => current[jobs[j].plan] = j

\* A user has one job at a time that a phone confirms.
OneAtATime ==
  \A i, j \in DOMAIN jobs :
    Open(i) /\ Open(j) /\ Phone(i) /\ Phone(j) /\ User(i) = User(j) => i = j

\* A job under the lock of an apply has seen its user listed, or the user is not; one
\* that a phone confirms goes no further than the answer it got.
JobFits(j) ==
  /\ jobs[j].at \in ByPhone => Phone(j)
  /\ jobs[j].at = "rereads" /\ User(j) \in allowed => jobs[j].seen
  /\ jobs[j].at = "sends" => jobs[j].seen
  /\ Open(j) => jobs[j].result = "none"
  /\ Phone(j) /\ (jobs[j].at = "sends" \/ jobs[j].result = "applied") => jobs[j].answer = "yes"

\* A call that was woken has a job that is over; one that stopped waiting did so once its
\* job was past the line.
CallFits(c) ==
  /\ calls[c].at # "idle" => calls[c].job # 0
  /\ calls[c].at = "over" => ~Open(calls[c].job)
  /\ calls[c].at = "late" => ~InLine(calls[c].job) /\ jobs[calls[c].job].result # "busy"

CallsInv ==
  /\ CallsTypeOK /\ Numbered /\ CurrentJobs /\ OneAtATime
  /\ \A j \in DOMAIN jobs : JobFits(j)
  /\ \A c \in Calls : CallFits(c)

-----------------------------------------------------------------------------
(* Steps of a job *)

\* What the step of one job may do to it.
Advances(j) ==
  LET new == jobs'[j] IN
  /\ new \in Job /\ new.plan = jobs[j].plan /\ new.at # "line"
  /\ new.at \in ByPhone => Phone(j)
  /\ new.at = "rereads" /\ User(j) \in allowed => new.seen
  /\ new.at = "sends" => new.seen
  /\ new.at # "ended" => new.result = "none"
  /\ new.result = "busy" => InLine(j)
  /\ Phone(j) /\ (new.at = "sends" \/ new.result = "applied") => new.answer = "yes"

\* Such a step keeps the invariant.
LEMMA JobAdvances ==
  ASSUME CallsAssumption, CallsInv, NEW j \in DOMAIN jobs, Open(j),
         DOMAIN jobs' = DOMAIN jobs, jobs' = [i \in DOMAIN jobs |-> jobs'[i]],
         \A i \in DOMAIN jobs \ {j} : jobs'[i] = jobs[i],
         Advances(j), JobOnly, spent' \in SUBSET Plans, sent' \in SUBSET spent'
  PROVE  CallsInv'
<1> USE DEF JobOnly
<1>1. \A i \in DOMAIN jobs : jobs'[i] \in Job /\ jobs'[i].plan = jobs[i].plan
  BY DEF CallsInv, CallsTypeOK, Advances
<1>2. CallsTypeOK'
  BY <1>1 DEF CallsInv, CallsTypeOK
<1>3. Numbered'
  BY DEF CallsInv, Numbered
<1>4. \A i \in DOMAIN jobs : /\ Open(i)' => Open(i)
                             /\ Phone(i)' <=> Phone(i)
                             /\ User(i)' = User(i)
  BY <1>1 DEF Open, Phone, User
<1>5. CurrentJobs'
  <2>1. \A p \in Plans : current[p] # 0 => current[p] \in DOMAIN jobs
    BY DEF CallsInv, CallsTypeOK
  <2> QED
    BY <1>1, <1>4, <2>1 DEF CallsInv, CurrentJobs
<1>6. OneAtATime'
  BY <1>4 DEF CallsInv, OneAtATime
<1>7. ASSUME NEW i \in DOMAIN jobs
      PROVE  JobFits(i)'
  <2>1. CASE i = j
    BY <1>4, <2>1 DEF Advances, JobFits, Open
  <2>2. CASE i # j
    BY <1>4, <2>2 DEF CallsInv, JobFits, Open
  <2> QED
    BY <2>1, <2>2
<1>8. ASSUME NEW c \in Calls
      PROVE  CallFits(c)'
  <2>1. calls[c].at # "idle" => calls[c].job \in DOMAIN jobs
    BY DEF CallsInv, CallsTypeOK, CallFits
  <2>2. ASSUME calls[c].at = "late"
        PROVE  ~InLine(calls[c].job)' /\ jobs'[calls[c].job].result # "busy"
    <3>1. calls[c].job \in DOMAIN jobs /\ ~InLine(calls[c].job)
          /\ jobs[calls[c].job].result # "busy"
      BY <2>1, <2>2 DEF CallsInv, CallFits
    <3>2. CASE calls[c].job = j
      BY <3>1, <3>2 DEF Advances, InLine
    <3>3. CASE calls[c].job # j
      BY <3>1, <3>3 DEF InLine
    <3> QED
      BY <3>2, <3>3
  <2>3. calls[c].at = "over" => ~Open(calls[c].job)'
    BY <1>4, <2>1 DEF CallsInv, CallFits
  <2> QED
    BY <2>2, <2>3 DEF CallsInv, CallFits
<1> QED
  BY <1>2, <1>3, <1>5, <1>6, <1>7, <1>8 DEF CallsInv

\* A job takes the lock, asks, hears, reads what the owner allows, and sends or not.
LEMMA JobSteps ==
  ASSUME CallsAssumption, CallsInv, NEW j \in DOMAIN jobs,
         \/ Runs(j) \/ TakeLock(j) \/ GiveUp(j) \/ ReadUsers(j) \/ LockAgain(j)
  PROVE  CallsInv'
<1>1. /\ jobs \in [DOMAIN jobs -> Job] /\ jobs[j] \in Job /\ JobFits(j)
      /\ spent \in SUBSET Plans /\ sent \in SUBSET spent /\ jobs[j].plan \in Plans
  BY DEF CallsInv, CallsTypeOK, Job
<1>2. ASSUME NEW new \in Job, jobs' = [jobs EXCEPT ![j] = new], Open(j),
             new.plan = jobs[j].plan, new.at # "line",
             new.at \in ByPhone => Phone(j),
             new.at = "rereads" /\ User(j) \in allowed => new.seen,
             new.at = "sends" => new.seen,
             new.at # "ended" => new.result = "none",
             new.result = "busy" => InLine(j),
             Phone(j) /\ (new.at = "sends" \/ new.result = "applied") => new.answer = "yes",
             JobOnly, spent' \in SUBSET Plans, sent' \in SUBSET spent'
      PROVE  CallsInv'
  <2>1. /\ DOMAIN jobs' = DOMAIN jobs /\ jobs' = [i \in DOMAIN jobs |-> jobs'[i]]
        /\ jobs'[j] = new /\ \A i \in DOMAIN jobs \ {j} : jobs'[i] = jobs[i]
    BY <1>1, <1>2
  <2>2. Advances(j)
    BY <1>2, <2>1 DEF Advances
  <2> QED
    BY <1>2, <2>1, <2>2, JobAdvances
<1>3. Open(j) => jobs[j].result = "none"
  BY <1>1 DEF JobFits
<1>listed. \E b \in BOOLEAN : b = (User(j) \in allowed)
  <2>1. CASE User(j) \in allowed
    <3>1. TRUE = (User(j) \in allowed)
      BY <2>1
    <3> QED
      BY <3>1, Zenon
  <2>2. CASE User(j) \notin allowed
    <3>1. FALSE = (User(j) \in allowed)
      BY <2>2
    <3> QED
      BY <3>1, Zenon
  <2> QED
    BY <2>1, <2>2
<1>locks. ASSUME Locks(j), Open(j), JobOnly, UNCHANGED <<spent, sent>>
      PROVE  CallsInv'
  <2>1. PICK seen \in BOOLEAN : seen = (User(j) \in allowed)
    BY <1>listed
  <2> DEFINE new == [jobs[j] EXCEPT !.at = "rereads", !.seen = seen]
  <2>2. jobs' = [jobs EXCEPT ![j].at = "rereads", ![j].seen = seen]
    BY <1>locks, <2>1, Zenon DEF Locks
  <2>3. jobs' = [jobs EXCEPT ![j] = new]
    BY <1>1, <2>2
  <2>4. /\ new \in Job /\ new.plan = jobs[j].plan /\ new.at = "rereads" /\ new.result = "none"
        /\ new.seen = seen
    BY <1>locks, <1>1, <1>3 DEF Job
  <2> HIDE DEF new
  <2>5. new.at \notin ByPhone /\ (User(j) \in allowed => new.seen)
    BY <2>1, <2>4 DEF ByPhone
  <2> QED
    BY <1>locks, <1>1, <1>2, <2>3, <2>4, <2>5
<1>4. CASE TakeLock(j)
  <2>1. /\ Open(j) /\ JobOnly /\ UNCHANGED <<spent, sent>>
    BY <1>4 DEF TakeLock, Open
  <2>2. CASE Phone(j) /\ Goto(j, "starts")
    <3> DEFINE new == [jobs[j] EXCEPT !.at = "starts"]
    <3>1. new \in Job /\ new.plan = jobs[j].plan /\ new.at = "starts" /\ new.result = "none"
      BY <1>1, <1>3, <2>1 DEF Job
    <3>2. jobs' = [jobs EXCEPT ![j] = new]
      BY <2>2 DEF Goto
    <3> QED
      BY <1>1, <1>2, <2>1, <2>2, <3>1, <3>2 DEF ByPhone
  <2>3. CASE ~Phone(j) /\ Locks(j)
    BY <1>locks, <2>1, <2>3
  <2> QED
    BY <1>4, <2>2, <2>3 DEF TakeLock
<1>5. ASSUME NEW result \in {"busy", "refused", "applied"}, Ends(j, result), Open(j), JobOnly,
             result = "busy" => InLine(j),
             result = "applied" /\ Phone(j) => jobs[j].answer = "yes",
             spent' \in SUBSET Plans, sent' \in SUBSET spent'
      PROVE  CallsInv'
  <2> DEFINE new == [jobs[j] EXCEPT !.at = "ended", !.result = result, !.ok = FALSE,
                                    !.seen = FALSE]
  <2>1. /\ new \in Job /\ new.plan = jobs[j].plan /\ new.at = "ended" /\ new.result = result
        /\ new.answer = jobs[j].answer
    BY <1>1 DEF Job
  <2>2. jobs' = [jobs EXCEPT ![j] = new]
    BY <1>1, <1>5 DEF Ends
  <2> QED
    BY <1>2, <1>5, <2>1, <2>2 DEF ByPhone
<1>6. CASE GiveUp(j)
  BY <1>1, <1>5, <1>6 DEF GiveUp, Open, InLine
<1>7. CASE StartAsk(j)
  <2>1. Open(j) /\ JobOnly /\ spent' \in SUBSET Plans /\ sent' \in SUBSET spent' /\ Phone(j)
    BY <1>1, <1>7 DEF StartAsk, Open, JobFits, ByPhone
  <2>2. CASE Goto(j, "asking")
    <3> DEFINE new == [jobs[j] EXCEPT !.at = "asking"]
    <3>1. new \in Job /\ new.plan = jobs[j].plan /\ new.at = "asking" /\ new.result = "none"
      BY <1>1, <1>3, <2>1 DEF Job
    <3>2. jobs' = [jobs EXCEPT ![j] = new]
      BY <2>2 DEF Goto
    <3> QED
      BY <1>2, <2>1, <3>1, <3>2 DEF ByPhone
  <2> QED
    BY <1>5, <1>7, <2>1, <2>2 DEF StartAsk
<1>8. ASSUME NEW answer \in {"none", "yes", "no"}, Hear(j, answer)
      PROVE  CallsInv'
  <2> DEFINE at == IF answer = "yes" THEN "heard" ELSE "again"
             new == [jobs[j] EXCEPT !.answer = answer, !.at = at]
  <2>1. /\ Open(j) /\ JobOnly /\ Phone(j) /\ UNCHANGED <<spent, sent>>
    BY <1>1, <1>8 DEF Hear, Open, JobFits, ByPhone
  <2>2. new \in Job /\ new.plan = jobs[j].plan /\ new.at \in {"heard", "again"}
        /\ new.result = "none"
    BY <1>1, <1>3, <2>1 DEF Job
  <2>3. jobs' = [jobs EXCEPT ![j] = new]
    BY <1>1, <1>8 DEF Hear
  <2> HIDE DEF new
  <2> QED
    BY <1>1, <1>2, <2>1, <2>2, <2>3
<1>9. ASSUME NEW ok \in BOOLEAN, NEW at \in {"users", "again"}, jobs[j].at \in {"heard", "users"},
             jobs' = [jobs EXCEPT ![j].ok = ok, ![j].at = at], JobOnly, UNCHANGED <<spent, sent>>
      PROVE  CallsInv'
  <2> DEFINE new == [jobs[j] EXCEPT !.ok = ok, !.at = at]
  <2>1. Open(j) /\ Phone(j)
    BY <1>1, <1>9 DEF Open, JobFits, ByPhone
  <2>2. new \in Job /\ new.plan = jobs[j].plan /\ new.at \in {"users", "again"}
        /\ new.result = "none"
    BY <1>1, <1>3, <1>9, <2>1 DEF Job
  <2>3. jobs' = [jobs EXCEPT ![j] = new]
    BY <1>1, <1>9
  <2> HIDE DEF new
  <2> QED
    BY <1>1, <1>2, <1>9, <2>1, <2>2, <2>3
<1>10. CASE ReadList(j)
  <2>1. PICK ok \in BOOLEAN : ok = (User(j) \in allowed)
    BY <1>listed
  <2>2. PICK at \in {"users", "again"} : at = IF User(j) \in allowed THEN "users" ELSE "again"
    OBVIOUS
  <2>3. jobs' = [jobs EXCEPT ![j].ok = ok, ![j].at = at]
    BY <1>10, <2>1, <2>2, Zenon DEF ReadList
  <2>4. jobs[j].at \in {"heard", "users"} /\ JobOnly /\ UNCHANGED <<spent, sent>>
    BY <1>10 DEF ReadList
  <2> QED
    BY <1>9, <2>3, <2>4
<1>11. CASE ReadUsers(j)
  BY <1>9, <1>11 DEF ReadUsers
<1>12. CASE LockAgain(j)
  <2>1. Open(j) /\ JobOnly /\ UNCHANGED <<spent, sent>> /\ Locks(j)
    BY <1>12 DEF LockAgain, Open
  <2> QED
    BY <1>locks, <2>1
<1>13. CASE Reread(j)
  <2>1. Open(j) /\ JobOnly /\ spent' \in SUBSET Plans /\ sent' \in SUBSET spent'
    BY <1>1, <1>13 DEF Reread, Open
  <2>2. CASE MayApply(j) /\ Goto(j, "sends")
    <3> DEFINE new == [jobs[j] EXCEPT !.at = "sends"]
    <3>1. jobs[j].seen /\ (Phone(j) => jobs[j].answer = "yes")
      BY <1>1, <1>13, <2>2 DEF Reread, MayApply, JobFits
    <3>2. new \in Job /\ new.plan = jobs[j].plan /\ new.at = "sends" /\ new.result = "none"
          /\ new.seen = jobs[j].seen /\ new.answer = jobs[j].answer
      BY <1>1, <1>3, <2>1 DEF Job
    <3>3. jobs' = [jobs EXCEPT ![j] = new]
      BY <2>2 DEF Goto
    <3> QED
      BY <1>2, <2>1, <3>1, <3>2, <3>3 DEF ByPhone
  <2> QED
    BY <1>5, <1>13, <2>1, <2>2 DEF Reread
<1>14. CASE Send(j)
  BY <1>1, <1>5, <1>14 DEF Send, Open, JobFits
<1> QED
  BY <1>4, <1>6, <1>7, <1>8, <1>10, <1>11, <1>12, <1>13, <1>14 DEF Runs

-----------------------------------------------------------------------------
(* Steps of a call, and what comes from outside *)

\* A call starts a job only where the user's phone has no question open.
LEMMA Starting ==
  ASSUME CallsAssumption, CallsInv, NEW c \in Calls, NEW p \in Plans, Start(c, p)
  PROVE  CallsInv'
<1>1. PICK n \in Nat : DOMAIN jobs = 1..n
  BY DEF CallsInv, Numbered
<1>2. Cardinality(DOMAIN jobs) = n
  BY <1>1, FS_Interval
<1>3. /\ current \in [Plans -> {0} \cup DOMAIN jobs] /\ jobs \in [1..n -> Job]
      /\ calls \in [Calls -> [at : {"idle", "waits", "late", "over"}, job : {0} \cup DOMAIN jobs]]
      /\ current[p] = 0 /\ n < MaxJobs /\ MaxJobs \in Nat /\ calls[c].at = "idle"
      /\ UNCHANGED <<other, allowed, spent, sent>>
  BY <1>1, <1>2 DEF CallsInv, CallsTypeOK, Start, CallsAssumption
<1>4. PICK old \in SUBSET {q \in Plans : current[q] # 0 /\ ~Open(current[q])} :
        \/ Pending(p) /\ current' = Without(old) /\ UNCHANGED <<jobs, calls>>
        \/ /\ ~Pending(p)
           /\ jobs' = [i \in 1..(n + 1) |-> IF i = n + 1 THEN NewJob(p) ELSE jobs[i]]
           /\ current' = [Without(old) EXCEPT ![p] = n + 1]
           /\ Wait(c, n + 1)
  BY <1>2 DEF Start
<1>5. /\ Without(old) \in [Plans -> {0} \cup DOMAIN jobs]
      /\ \A q \in Plans : Without(old)[q] # 0 => Without(old)[q] = current[q]
      /\ \A q \in Plans : current[q] # 0 /\ Open(current[q]) => Without(old)[q] = current[q]
  BY <1>3, <1>4 DEF Without
<1>6. \A i \in 1..n : Open(i) => /\ jobs[i].plan \in Plans /\ current[jobs[i].plan] = i
                                 /\ Without(old)[jobs[i].plan] = i
  BY <1>1, <1>3, <1>5 DEF CallsInv, CurrentJobs, Job
<1>7. CASE current' = Without(old) /\ UNCHANGED <<jobs, calls>>
  <2>1. CallsTypeOK' /\ Numbered'
    BY <1>3, <1>5, <1>7 DEF CallsInv, CallsTypeOK, Numbered
  <2>2. CurrentJobs'
    BY <1>1, <1>5, <1>6, <1>7 DEF CallsInv, CurrentJobs, Open
  <2>3. OneAtATime' /\ (\A j \in DOMAIN jobs : JobFits(j))' /\ (\A d \in Calls : CallFits(d))'
    BY <1>3, <1>7 DEF CallsInv, OneAtATime, JobFits, CallFits, Open, Phone, User, InLine
  <2> QED
    BY <2>1, <2>2, <2>3 DEF CallsInv
<1>8. CASE /\ ~Pending(p)
           /\ jobs' = [i \in 1..(n + 1) |-> IF i = n + 1 THEN NewJob(p) ELSE jobs[i]]
           /\ current' = [Without(old) EXCEPT ![p] = n + 1]
           /\ Wait(c, n + 1)
  <2>1. NewJob(p) \in Job /\ NewJob(p).plan = p /\ NewJob(p).at = "line"
        /\ NewJob(p).result = "none"
    BY DEF NewJob, Job
  <2>2. /\ DOMAIN jobs' = 1..(n + 1) /\ jobs'[n + 1] = NewJob(p)
        /\ \A i \in 1..n : jobs'[i] = jobs[i]
    BY <1>8
  <2>3. /\ current'[p] = n + 1
        /\ \A q \in Plans \ {p} : current'[q] = Without(old)[q]
        /\ current' \in [Plans -> {0} \cup 1..(n + 1)]
    BY <1>1, <1>5, <1>8
  <2>4. /\ \A d \in Calls \ {c} : calls'[d] = calls[d]
        /\ calls'[c] = [at |-> "waits", job |-> n + 1]
        /\ calls' \in [Calls -> [at : {"idle", "waits", "late", "over"}, job : {0} \cup 1..(n + 1)]]
    BY <1>1, <1>3, <1>8 DEF Wait
  <2>5. CallsTypeOK'
    <3>1. jobs' \in [1..(n + 1) -> Job]
      BY <1>3, <1>8, <2>1
    <3>2. 1..(n + 1) \subseteq Jobs
      BY <1>3 DEF Jobs
    <3> QED
      BY <1>3, <2>2, <2>3, <2>4, <3>1, <3>2 DEF CallsInv, CallsTypeOK
  <2>6. Numbered'
    BY <2>2 DEF Numbered
  <2>7. \A i \in 1..n : /\ Open(i)' <=> Open(i)
                        /\ Phone(i)' <=> Phone(i)
                        /\ User(i)' = User(i)
    BY <2>2 DEF Open, Phone, User
  <2>8. CurrentJobs'
    <3>1. ASSUME NEW q \in Plans, current'[q] # 0
          PROVE  jobs'[current'[q]].plan = q
      BY <1>1, <1>3, <1>5, <2>1, <2>2, <2>3, <3>1 DEF CallsInv, CurrentJobs
    <3>2. ASSUME NEW i \in 1..(n + 1), Open(i)'
          PROVE  current'[jobs'[i].plan] = i
      <4>1. CASE i = n + 1
        BY <2>1, <2>2, <2>3, <4>1
      <4>2. CASE i \in 1..n
        <5>1. /\ Open(i) /\ jobs[i].plan \in Plans /\ current[jobs[i].plan] = i
              /\ Without(old)[jobs[i].plan] = i
          BY <1>6, <2>7, <3>2, <4>2
        <5>2. jobs[i].plan # p
          BY <1>3, <4>2, <5>1
        <5> QED
          BY <2>2, <2>3, <4>2, <5>1, <5>2
      <4> QED
        BY <4>1, <4>2
    <3> QED
      BY <2>2, <3>1, <3>2 DEF CurrentJobs
  <2>9. OneAtATime'
    <3>1. ASSUME NEW i \in 1..n, Open(i), Phone(i), p \in PhonePlans, User(i) = UserOf[p]
          PROVE  FALSE
      <4>1. jobs[i].plan \in Plans /\ current[jobs[i].plan] = i /\ i # 0
        BY <1>6, <3>1
      <4>2. jobs[i].plan # p
        BY <1>3, <4>1
      <4> QED
        BY <1>8, <3>1, <4>1, <4>2 DEF Pending, Phone, User
    <3>2. /\ Phone(n + 1)' <=> p \in PhonePlans
          /\ User(n + 1)' = UserOf[p]
      BY <2>1, <2>2 DEF Phone, User
    <3>3. ASSUME NEW i \in 1..(n + 1), NEW j \in 1..(n + 1), Open(i)', Open(j)', Phone(i)',
                 Phone(j)', User(i)' = User(j)'
          PROVE  i = j
      <4>1. CASE i \in 1..n /\ j \in 1..n
        BY <1>1, <2>7, <3>3, <4>1 DEF CallsInv, OneAtATime
      <4>2. CASE i = n + 1 /\ j \in 1..n
        BY <2>7, <3>1, <3>2, <3>3, <4>2
      <4>3. CASE i \in 1..n /\ j = n + 1
        BY <2>7, <3>1, <3>2, <3>3, <4>3
      <4> QED
        BY <4>1, <4>2, <4>3
    <3> QED
      BY <2>2, <3>3 DEF OneAtATime
  <2>10. ASSUME NEW i \in 1..(n + 1)
         PROVE  JobFits(i)'
    <3>1. CASE i = n + 1
      BY <2>1, <2>2, <3>1 DEF JobFits, ByPhone, Open
    <3>2. CASE i \in 1..n
      BY <1>1, <1>3, <2>2, <2>7, <3>2 DEF CallsInv, JobFits
    <3> QED
      BY <3>1, <3>2
  <2>11. ASSUME NEW d \in Calls
         PROVE  CallFits(d)'
    <3>1. CASE d = c
      BY <2>4, <3>1 DEF CallFits
    <3>2. CASE d # c
      <4>1. calls'[d] = calls[d] /\ CallFits(d)
        BY <2>4, <3>2 DEF CallsInv
      <4>2. calls[d].at # "idle" => calls[d].job \in 1..n
        BY <1>1, <1>3, <4>1 DEF CallFits
      <4> QED
        BY <2>2, <4>1, <4>2 DEF CallFits, InLine, Open
    <3> QED
      BY <3>1, <3>2
  <2> QED
    BY <2>2, <2>5, <2>6, <2>8, <2>9, <2>10, <2>11 DEF CallsInv
<1> QED
  BY <1>4, <1>7, <1>8

\* A call joins its plan's job, waits, and answers; an answer may forget the job's entry,
\* which is over then.
LEMMA CallSteps ==
  ASSUME CallsInv, NEW c \in Calls,
         Answers(c) \/ TimesOut(c) \/ \E p \in Plans : Join(c, p)
  PROVE  CallsInv'
<1>1. UNCHANGED <<other, allowed, jobs, spent, sent>>
  BY DEF Answers, Woken, AnswerLate, AnswerOutcome, TimesOut, Join
<1>2. /\ current \in [Plans -> {0} \cup DOMAIN jobs]
      /\ calls \in [Calls -> [at : {"idle", "waits", "late", "over"}, job : {0} \cup DOMAIN jobs]]
      /\ calls[c].at # "idle" => calls[c].job \in DOMAIN jobs
  BY DEF CallsInv, CallsTypeOK, CallFits
<1>3. Numbered' /\ OneAtATime' /\ (\A j \in DOMAIN jobs : JobFits(j))'
  BY <1>1 DEF CallsInv, Numbered, OneAtATime, JobFits, Open, Phone, User
<1>4. ASSUME NEW call \in [at : {"idle", "waits", "late", "over"}, job : {0} \cup DOMAIN jobs],
             calls' = [calls EXCEPT ![c] = call],
             call.at # "idle" => call.job # 0, call.at = "over" => ~Open(call.job),
             call.at = "late" => ~InLine(call.job) /\ jobs[call.job].result # "busy",
             current' \in [Plans -> {0} \cup DOMAIN jobs], CurrentJobs'
      PROVE  CallsInv'
  <2>1. CallsTypeOK'
    BY <1>1, <1>2, <1>4 DEF CallsInv, CallsTypeOK
  <2>2. ASSUME NEW d \in Calls
        PROVE  CallFits(d)'
    BY <1>1, <1>2, <1>4 DEF CallsInv, CallFits, InLine, Open
  <2> QED
    BY <1>1, <1>3, <1>4, <2>1, <2>2 DEF CallsInv
<1>5. ASSUME UNCHANGED current
      PROVE  current' \in [Plans -> {0} \cup DOMAIN jobs] /\ CurrentJobs'
  BY <1>1, <1>2, <1>5 DEF CallsInv, CurrentJobs, Open
<1>6. CASE Woken(c)
  <2> DEFINE call == [calls[c] EXCEPT !.at = "over"]
  <2>1. /\ calls' = [calls EXCEPT ![c] = call] /\ UNCHANGED current
        /\ call \in [at : {"idle", "waits", "late", "over"}, job : {0} \cup DOMAIN jobs]
        /\ call.at = "over" /\ call.job # 0 /\ ~Open(call.job)
    BY <1>2, <1>6 DEF Woken, CallsInv, CallFits
  <2> QED
    BY <1>4, <1>5, <2>1
<1>7. CASE TimesOut(c)
  <2> DEFINE call == [calls[c] EXCEPT !.at = "late"]
  <2>1. /\ calls' = [calls EXCEPT ![c] = call] /\ UNCHANGED current
        /\ call \in [at : {"idle", "waits", "late", "over"}, job : {0} \cup DOMAIN jobs]
        /\ call.at = "late" /\ call.job = calls[c].job /\ call.job # 0
    BY <1>2, <1>7 DEF TimesOut, CallsInv, CallFits
  <2>2. calls[c].job \in DOMAIN jobs /\ Open(calls[c].job) /\ ~InLine(calls[c].job)
    BY <1>2, <1>7 DEF TimesOut
  <2>3. jobs[calls[c].job].result = "none"
    BY <2>2 DEF CallsInv, JobFits
  <2> QED
    BY <1>4, <1>5, <2>1, <2>2, <2>3
<1>8. ASSUME NEW p \in Plans, Join(c, p)
      PROVE  CallsInv'
  <2> DEFINE call == [at |-> "waits", job |-> current[p]]
  <2>1. /\ calls' = [calls EXCEPT ![c] = call] /\ UNCHANGED current
        /\ call \in [at : {"idle", "waits", "late", "over"}, job : {0} \cup DOMAIN jobs]
        /\ call.at = "waits" /\ call.job # 0
    BY <1>2, <1>8 DEF Join, Wait
  <2> QED
    BY <1>4, <1>5, <2>1
<1>9. CASE AnswerLate(c) \/ AnswerOutcome(c)
  <2>1. /\ calls' = [calls EXCEPT ![c] = Idle] /\ Idle.at = "idle"
        /\ Idle \in [at : {"idle", "waits", "late", "over"}, job : {0} \cup DOMAIN jobs]
    BY <1>9 DEF AnswerLate, AnswerOutcome, Answered, Idle
  <2>2. current' \in [Plans -> {0} \cup DOMAIN jobs] /\ CurrentJobs'
    <3>1. CASE UNCHANGED current
      BY <1>5, <3>1
    <3>2. CASE /\ AnswerOutcome(c)
               /\ current' = [p \in Plans |-> IF current[p] = calls[c].job THEN 0 ELSE current[p]]
      <4>1. ~Open(calls[c].job)
        BY <3>2 DEF CallsInv, CallFits, AnswerOutcome
      <4>2. \A p \in Plans : current'[p] # 0 => current'[p] = current[p]
        BY <3>2
      <4>3. \A j \in DOMAIN jobs : Open(j) => jobs[j].plan \in Plans /\ current[jobs[j].plan] = j
        BY DEF CallsInv, CallsTypeOK, CurrentJobs, Job
      <4>4. \A j \in DOMAIN jobs : Open(j) => current'[jobs[j].plan] = j
        BY <3>2, <4>1, <4>3
      <4>5. current' \in [Plans -> {0} \cup DOMAIN jobs]
        BY <1>2, <3>2
      <4> QED
        BY <1>1, <4>2, <4>4, <4>5 DEF CallsInv, CurrentJobs, Open
    <3> QED
      BY <1>9, <3>1, <3>2 DEF AnswerLate, AnswerOutcome
  <2> QED
    BY <1>4, <2>1, <2>2
<1> QED
  BY <1>6, <1>7, <1>8, <1>9 DEF Answers

\* The lock of other requests, and the owner's list.
LEMMA Around ==
  ASSUME CallsAssumption, CallsInv,
         OtherLocks \/ OtherUnlocks \/ (\E u \in Users : OwnerChanges(u)) \/ UNCHANGED vars
  PROVE  CallsInv'
<1>1. UNCHANGED <<current, calls, spent, sent>>
  BY DEF OtherLocks, OtherUnlocks, OwnerChanges, vars
<1>2. ASSUME UNCHANGED jobs, allowed' \in SUBSET allowed, other' \in BOOLEAN
      PROVE  CallsInv'
  <2>1. CallsTypeOK' /\ Numbered' /\ CurrentJobs' /\ OneAtATime'
    BY <1>1, <1>2 DEF CallsInv, CallsTypeOK, Numbered, CurrentJobs, OneAtATime, Open, Phone, User
  <2>2. (\A j \in DOMAIN jobs : JobFits(j))' /\ (\A c \in Calls : CallFits(c))'
    BY <1>1, <1>2 DEF CallsInv, JobFits, CallFits, Open, Phone, User, InLine
  <2> QED
    BY <2>1, <2>2 DEF CallsInv
<1>3. CASE OtherLocks \/ OtherUnlocks \/ UNCHANGED vars
  BY <1>2, <1>3 DEF OtherLocks, OtherUnlocks, vars, CallsInv, CallsTypeOK
<1>4. ASSUME NEW u \in Users, OwnerChanges(u)
      PROVE  CallsInv'
  <2>1. CASE u \in allowed
    BY <1>2, <1>4, <2>1 DEF OwnerChanges, CallsInv, CallsTypeOK
  <2>2. CASE u \notin allowed
    <3>1. /\ allowed' = allowed \cup {u} /\ UNCHANGED other
          /\ jobs' = [j \in DOMAIN jobs |->
                        [jobs[j] EXCEPT !.seen = @ \/ (User(j) = u /\ Holds(j))]]
      BY <1>4, <2>2 DEF OwnerChanges
    <3>2. ASSUME NEW j \in DOMAIN jobs
          PROVE  /\ jobs'[j] \in Job /\ jobs'[j].plan = jobs[j].plan /\ jobs'[j].at = jobs[j].at
                 /\ jobs'[j].answer = jobs[j].answer /\ jobs'[j].result = jobs[j].result
                 /\ jobs'[j].seen <=> jobs[j].seen \/ (User(j) = u /\ Holds(j))
      <4>1. jobs[j] \in Job /\ jobs'[j] = [jobs[j] EXCEPT !.seen = @ \/ (User(j) = u /\ Holds(j))]
        BY <3>1 DEF CallsInv, CallsTypeOK
      <4>2. \E b \in BOOLEAN : b = (jobs[j].seen \/ (User(j) = u /\ Holds(j)))
        BY Zenon
      <4>3. PICK b \in BOOLEAN : b = (jobs[j].seen \/ (User(j) = u /\ Holds(j)))
        BY <4>2
      <4>4. jobs'[j] = [jobs[j] EXCEPT !.seen = b]
        BY <4>1, <4>3, Zenon
      <4>5. b <=> jobs[j].seen \/ (User(j) = u /\ Holds(j))
        BY <4>3, Zenon
      <4> QED
        BY <4>1, <4>4, <4>5 DEF Job
    <3>3. DOMAIN jobs' = DOMAIN jobs /\ jobs' \in [DOMAIN jobs -> Job]
      BY <3>1, <3>2
    <3>4. CallsTypeOK' /\ Numbered'
      BY <1>1, <3>1, <3>3 DEF CallsInv, CallsTypeOK, Numbered
    <3>5. \A j \in DOMAIN jobs : (Open(j)' <=> Open(j)) /\ (Phone(j)' <=> Phone(j))
                                 /\ User(j)' = User(j) /\ (InLine(j)' <=> InLine(j))
      BY <3>2 DEF Open, Phone, User, InLine
    <3>6. CurrentJobs' /\ OneAtATime'
      <4>1. \A p \in Plans : current[p] # 0 => current[p] \in DOMAIN jobs
        BY DEF CallsInv, CallsTypeOK
      <4> QED
        BY <1>1, <3>2, <3>3, <3>5, <4>1 DEF CallsInv, CurrentJobs, OneAtATime
    <3>7. ASSUME NEW j \in DOMAIN jobs
          PROVE  JobFits(j)'
      <4>1. JobFits(j)
        BY DEF CallsInv
      <4> QED
        BY <3>1, <3>2, <3>5, <4>1 DEF JobFits, Holds
    <3>8. ASSUME NEW c \in Calls
          PROVE  CallFits(c)'
      <4>1. calls[c].at # "idle" => calls[c].job \in DOMAIN jobs
        BY DEF CallsInv, CallsTypeOK, CallFits
      <4> QED
        BY <1>1, <3>2, <3>5, <4>1 DEF CallsInv, CallFits
    <3> QED
      BY <3>3, <3>4, <3>6, <3>7, <3>8 DEF CallsInv
  <2> QED
    BY <2>1, <2>2
<1> QED
  BY <1>3, <1>4

-----------------------------------------------------------------------------
(* The promises *)

\* At first there are no jobs.
LEMMA CallsInit == CallsAssumption /\ Init => CallsInv
<1> SUFFICES ASSUME CallsAssumption, Init
             PROVE  CallsInv
  OBVIOUS
<1>1. DOMAIN jobs = {} /\ jobs = [j \in {} |-> Idle]
  BY DEF Init
<1>2. Numbered
  BY <1>1 DEF Numbered
<1>3. CallsTypeOK
  BY <1>1 DEF Init, CallsTypeOK, Idle
<1>4. CurrentJobs /\ OneAtATime
  BY <1>1 DEF Init, CurrentJobs, OneAtATime
<1>5. \A c \in Calls : CallFits(c)
  BY DEF Init, CallFits, Idle
<1> QED
  BY <1>1, <1>2, <1>3, <1>4, <1>5 DEF CallsInv

\* And every step keeps the invariant.
LEMMA CallsNext == CallsAssumption /\ CallsInv /\ [Next]_vars => CallsInv'
BY JobSteps, CallSteps, Starting, Around DEF Next

\* What is said of plans, jobs and calls holds of every reachable state (mcp_serve_apply.go).
LEMMA CallsInvariant == Spec => []CallsInv
BY CallsAssumption, CallsInit, CallsNext, PTL DEF Spec

\* A user's phone never has two questions open (mcp_serve_phone.go), whatever calls join,
\* come back or start next to each other.
THEOREM OneQuestion == Spec => []OneOpenAsk
<1>1. CallsInv => OneOpenAsk
  BY DEF CallsInv, OneAtATime, OneOpenAsk, JobFits, ByPhone, Open
<1> QED
  BY <1>1, CallsInvariant, PTL

\* Nothing is sent for a user who was off the owner's list since the change took the lock
\* (mcp_serve_apply.go), however late the answer of the phone came.
THEOREM RemovedUsersSendNothing == Spec => []NothingAfterRemoval
<1>1. CallsInv => NothingAfterRemoval
  BY DEF CallsInv, NothingAfterRemoval, JobFits
<1> QED
  BY <1>1, CallsInvariant, PTL

\* What a call says when its wait is over is so: nothing was sent while the phone is waited
\* for, and a change that is being made is past the line (mcp_serve_apply.go, awaitJob).
THEOREM AnswersAreTrue == Spec => []SaysWhatIs
<1>1. CallsInv => SaysWhatIs
  <2> SUFFICES ASSUME CallsInv, NEW c \in Calls, calls[c].at = "late"
               PROVE  LET j == calls[c].job
                      IN  /\ Says(c) = "waiting_for_phone" => jobs[j].result # "applied"
                          /\ Says(c) = "applying" => jobs[j].result # "busy" /\ ~InLine(j)
    BY DEF SaysWhatIs
  <2>1. calls[c].job \in DOMAIN jobs
    BY DEF CallsInv, CallsTypeOK, CallFits
  <2>2. ~InLine(calls[c].job) /\ jobs[calls[c].job].result # "busy"
    BY DEF CallsInv, CallFits
  <2>3. Says(c) = "waiting_for_phone" => Phone(calls[c].job) /\ jobs[calls[c].job].answer = "none"
    BY DEF Says
  <2>4. Says(c) = "waiting_for_phone" => jobs[calls[c].job].result # "applied"
    BY <2>1, <2>3 DEF CallsInv, JobFits
  <2> QED
    BY <2>2, <2>4
<1> QED
  BY <1>1, CallsInvariant, PTL
=============================================================================
