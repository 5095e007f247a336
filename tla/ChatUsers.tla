------------------------------ MODULE ChatUsers -----------------------------
(***************************************************************************)
(* Who may use chat apps and whose phone confirms for them: the owner's    *)
(* list, which the NOVA App writes (runtime/chat-apps-files.ts), and each  *)
(* user's phone link, which only the bridge writes (cli/mcp_serve_         *)
(* control.go, mcp_serve_control_job.go).  Two processes, two files and no *)
(* lock between them: a saved list drops links through the bridge's        *)
(* control channel, and the bridge reads the list again before it writes a *)
(* link.                                                                   *)
(*                                                                         *)
(* Users are the ones beside the owner, listed at a level with a phone or  *)
(* not at all.  A link is the phone's name.  What a request only refuses   *)
(* changes nothing and is left out.                                        *)
(***************************************************************************)
EXTENDS Naturals, FiniteSets

CONSTANTS Users, Phones, None,
          Tabs,      \* the pages the owner saves the list from
          MaxSaves,  \* bound: saves of the list
          MaxFaults  \* bound: unread files, lost answers, ends of a process

VARIABLES allowed,  \* chat-apps.json: the listed users
          links,    \* phone-links.json: each user's phone, or None
          gone,     \* phones that can never answer again
          jobs,     \* the bridge: each user's one change
          writer,   \* linksMu: the user whose change holds it, and its copy of the links
          saves,    \* the App: each page's save
          stale,    \* history: users whose link is from before they left the list
          saved, faults

vars == <<allowed, links, gone, jobs, writer, saves, stale, saved, faults>>

\* No user and no page is called None.
UsersAssumption == None \notin Users \cup Tabs

Link == Phones \cup {None}
NoJob == [do |-> "none", at |-> "idle", old |-> None, new |-> None, tab |-> None]
NoSave == [at |-> "idle", want |-> {}, linked |-> {}, todo |-> {}, call |-> None]
NoWriter == [user |-> None, copy |-> [u \in Users |-> None]]

Job == [do : {"none", "adopt", "move", "stop", "drop"}, at : {"idle", "old", "again", "new", "checks", "write"},
        old : Link, new : Link, tab : Tabs \cup {None}]

UsersTypeOK ==
  /\ allowed \in SUBSET Users /\ links \in [Users -> Link] /\ gone \in SUBSET Phones
  /\ jobs \in [Users -> Job]
  /\ writer \in [user : Users \cup {None}, copy : [Users -> Link]]
  /\ saves \in [Tabs -> [at : {"idle", "before", "after"}, want : SUBSET Users, linked : SUBSET Users,
                         todo : SUBSET Users, call : Users \cup {None}]]
  /\ stale \in SUBSET Users

Init ==
  /\ allowed = {} /\ links = [u \in Users |-> None] /\ gone = {}
  /\ jobs = [u \in Users |-> NoJob] /\ writer = NoWriter
  /\ saves = [t \in Tabs |-> NoSave] /\ stale = {} /\ saved = 0 /\ faults = 0

Fault == faults < MaxFaults /\ faults' = faults + 1

-----------------------------------------------------------------------------
(* The bridge: one change of a user's link at a time *)

\* reserveJob
Running(u) == jobs[u] # NoJob

Begin(u, do, at, new) ==
  /\ ~Running(u)
  /\ jobs' = [jobs EXCEPT ![u] = [do |-> do, at |-> at, old |-> links[u], new |-> new, tab |-> None]]
  /\ UNCHANGED <<allowed, links, gone, writer, saves, stale, saved, faults>>

\* controlStart: the first phone, from a computer link.
Adopt(u, p) == u \in allowed /\ links[u] = None /\ p \notin gone /\ Begin(u, "adopt", "checks", p)

\* The phone linked now is asked first, unless it can never answer and the
\* owner's page overrides it.
Move(u, p) ==
  /\ u \in allowed /\ p \notin gone \cup {links[u]}
  /\ Begin(u, "move", IF links[u] = None \/ links[u] \in gone THEN "new" ELSE "old", p)

Stop(u) ==
  /\ u \in allowed /\ links[u] # None
  /\ Begin(u, "stop", IF links[u] \in gone THEN "checks" ELSE "old", None)

\* The answer goes to the save that waits for it.
Over(u) == jobs' = [jobs EXCEPT ![u] = NoJob]
Answer(u, done) ==
  LET t == jobs[u].tab
  IN  saves' = IF t = None \/ saves[t].call # u THEN saves
               ELSE IF done \/ saves[t].at = "after"
                    THEN [saves EXCEPT ![t].call = None, ![t].todo = @ \ {u}]
               ELSE [saves EXCEPT ![t] = NoSave]

End(u, done) == Over(u) /\ Answer(u, done)

To(u, pc) == jobs' = [jobs EXCEPT ![u].at = pc] /\ UNCHANGED saves

\* The phone asked says yes, or no, or nothing for 90 s.
Asked(u) ==
  /\ jobs[u].at \in {"old", "new"}
  /\ \/ (IF jobs[u].at = "old" THEN jobs[u].old ELSE jobs[u].new) \notin gone
        /\ To(u, IF jobs[u].at = "old" THEN "again" ELSE "checks")
     \/ End(u, FALSE)
  /\ UNCHANGED <<allowed, links, gone, writer, stale, saved, faults>>

\* After the first phone's yes: still allowed, still this phone.
AskedAgain(u) ==
  /\ jobs[u].at = "again"
  /\ IF u \in allowed /\ links[u] = jobs[u].old /\ links[u] \notin gone
     THEN To(u, IF jobs[u].do = "move" THEN "new" ELSE "checks")
     ELSE End(u, FALSE)
  /\ UNCHANGED <<allowed, links, gone, writer, stale, saved, faults>>

\* What the write still needs: adopt, move, stop: allowed; drop: not any more.
Wanted(u) == (u \in allowed) = (jobs[u].do # "drop")

Unguarded == TRUE

Unlocked == writer = NoWriter

\* setLink up to its write: linksMu, the whole file, the entry unchanged, and
\* the list as it is now.
CheckLink(u) ==
  /\ jobs[u].at = "checks" /\ Unlocked
  /\ IF links[u] = jobs[u].old /\ Wanted(u) /\ jobs[u].new \notin gone
     THEN To(u, "write") /\ writer' = [user |-> u, copy |-> links]
     ELSE End(u, FALSE) /\ UNCHANGED writer
  /\ UNCHANGED <<allowed, links, gone, stale, saved, faults>>

WriteLink(u) ==
  /\ jobs[u].at = "write"
  /\ \/ /\ links' = [writer.copy EXCEPT ![u] = jobs[u].new]
        /\ stale' = stale \ {u}
        /\ End(u, TRUE) /\ UNCHANGED faults
     \/ Fault /\ End(u, FALSE) /\ UNCHANGED <<links, stale>>
  /\ writer' = NoWriter
  /\ UNCHANGED <<allowed, gone, saved>>

-----------------------------------------------------------------------------
(* The App: setUsers *)

\* The write of chat-apps.json; a link a user has as they leave is an old one.
WriteList(t, want, linked) ==
  /\ allowed' = want
  /\ stale' = stale \cup {u \in allowed \ want : links[u] # None}
  /\ saves' = [saves EXCEPT ![t] = [NoSave EXCEPT !.at = "after", !.todo = linked \ want]]

NoneFirst(want, linked) == {}

\* Whoever comes back onto the list and may still have a link.
Readded(want, linked) == (want \ allowed) \cap linked

\* With nobody to drop first there is no await before the write.  Links that
\* can't be read count as everybody's before, and as the listed ones' after.
Save(t, want) ==
  /\ saves[t] = NoSave /\ saved < MaxSaves /\ saved' = saved + 1
  /\ \E readable \in BOOLEAN :
       LET linked  == {u \in Users : links[u] # None}
           readded == Readded(want, IF readable THEN linked ELSE Users)
           after   == IF readable THEN linked ELSE allowed
       IN  /\ IF readable THEN UNCHANGED faults ELSE Fault
           /\ IF readded = {}
              THEN WriteList(t, want, after)
              ELSE /\ saves' = [saves EXCEPT ![t] = [at |-> "before", want |-> want, linked |-> after,
                                                     todo |-> readded, call |-> None]]
                   /\ UNCHANGED <<allowed, stale>>
  /\ UNCHANGED <<links, gone, jobs, writer>>

\* The next drop: refused while a change of the user runs or the list still
\* (or again) names them.
Drop(t, u) ==
  /\ saves[t].at # "idle" /\ saves[t].call = None /\ u \in saves[t].todo
  /\ IF ~Running(u) /\ u \notin allowed
     THEN /\ jobs' = [jobs EXCEPT ![u] = [do |-> "drop", at |-> "checks", old |-> links[u], new |-> None, tab |-> t]]
          /\ saves' = [saves EXCEPT ![t].call = u]
     ELSE /\ saves' = IF saves[t].at = "before" THEN [saves EXCEPT ![t] = NoSave]
                      ELSE [saves EXCEPT ![t].todo = @ \ {u}]
          /\ UNCHANGED jobs
  /\ UNCHANGED <<allowed, links, gone, writer, stale, saved, faults>>

\* The answer does not come: the save stops before its write, or goes on.
DropUnanswered(t) ==
  /\ saves[t].call # None /\ Fault
  /\ saves' = IF saves[t].at = "before" THEN [saves EXCEPT ![t] = NoSave]
              ELSE [saves EXCEPT ![t].call = None, ![t].todo = @ \ {saves[t].call}]
  /\ UNCHANGED <<allowed, links, gone, jobs, writer, stale, saved>>

\* Everyone re-added lost the old link: the list is written.
SaveOn(t) ==
  /\ saves[t].at = "before" /\ saves[t].todo = {}
  /\ WriteList(t, saves[t].want, saves[t].linked)
  /\ UNCHANGED <<links, gone, jobs, writer, saved, faults>>

SaveDone(t) ==
  /\ saves[t].at = "after" /\ saves[t].todo = {}
  /\ saves' = [saves EXCEPT ![t] = NoSave]
  /\ UNCHANGED <<allowed, links, gone, jobs, writer, stale, saved, faults>>

-----------------------------------------------------------------------------
\* The bridge ends: jobs live in memory only, a file is written whole or not.
BridgeEnds ==
  /\ Fault
  /\ jobs' = [u \in Users |-> NoJob] /\ writer' = NoWriter
  /\ saves' = [t \in Tabs |->
       IF saves[t].call = None THEN saves[t]
       ELSE IF saves[t].at = "before" THEN NoSave
       ELSE [saves[t] EXCEPT !.call = None, !.todo = @ \ {saves[t].call}]]
  /\ UNCHANGED <<allowed, links, gone, stale, saved>>

\* The App ends, and with it its child, the bridge.
AppEnds ==
  /\ Fault
  /\ jobs' = [u \in Users |-> NoJob] /\ writer' = NoWriter
  /\ saves' = [t \in Tabs |-> NoSave]
  /\ UNCHANGED <<allowed, links, gone, stale, saved>>

\* A phone leaves Home Assistant, or comes back.
PhoneChanges(p) ==
  /\ gone' = IF p \in gone THEN gone \ {p} ELSE gone \cup {p}
  /\ UNCHANGED <<allowed, links, jobs, writer, saves, stale, saved, faults>>

JobStep(u) == Asked(u) \/ AskedAgain(u) \/ CheckLink(u) \/ WriteLink(u)
SaveStep(t) == (\E u \in Users : Drop(t, u)) \/ SaveOn(t) \/ SaveDone(t)

Next ==
  \/ \E u \in Users :
       JobStep(u) \/ Stop(u) \/ (\E p \in Phones : Adopt(u, p) \/ Move(u, p))
  \/ \E t \in Tabs :
       SaveStep(t) \/ DropUnanswered(t) \/ (\E want \in SUBSET Users : Save(t, want))
  \/ BridgeEnds \/ AppEnds
  \/ \E p \in Phones : PhoneChanges(p)

Spec == Init /\ [][Next]_vars

-----------------------------------------------------------------------------
(* What makes it correct *)

\* A user put on the list again has lost the link they had when they left it:
\* the old phone does not confirm again without a new tap.
NoOldLink == allowed \cap stale = {}

\* A write of the links changes the entry of the change's own user only: a
\* dropped link never comes back with another user's.
OwnEntryOnly ==
  [][\A u \in Users : links'[u] # links[u] => jobs[u].at = "write" /\ links'[u] = jobs[u].new]_vars
=============================================================================
