-------------------------------- MODULE Chat --------------------------------
(***************************************************************************)
(* The parts with a phone at one end, side by side: ChatApps (bridge),     *)
(* ChatUsers (users) and HumanVote (vote).  They share no state, so a      *)
(* behaviour moves one of them only (`part`).                              *)
(***************************************************************************)
EXTENDS ChatApps

CONSTANTS Users, Phones, NoOne, Tabs, MaxSaves, MaxUserFaults, MaxTaps

VARIABLES part,
          allowed, links, gone, jobs, writer, saves, stale, saved, userFaults,
          surfaces, window, phone, votes, main, got, first, ask, reply, screen, taps,
          applied, verdict, gaveUp

who  == <<allowed, links, gone, jobs, writer, saves, stale, saved, userFaults>>
vote == <<surfaces, window, phone, votes, main, got, first, ask, reply, screen, taps,
          applied, verdict, gaveUp>>

Who  == INSTANCE ChatUsers WITH None <- NoOne, MaxFaults <- MaxUserFaults, faults <- userFaults
Vote == INSTANCE HumanVote WITH asked <- surfaces

ASSUME PeopleAssumption == Who!UsersAssumption /\ Vote!VoteAssumption

PartsInit ==
  /\ part \in {"bridge", "users", "vote"}
  /\ Init /\ Who!Init /\ Vote!Init
  /\ part # "vote" => surfaces = {"window"}

PartsNext ==
  \/ part = "bridge" /\ Next /\ UNCHANGED <<part, who, vote>>
  \/ part = "users" /\ Who!Next /\ UNCHANGED <<part, vars, vote>>
  \/ part = "vote" /\ Vote!Next /\ UNCHANGED <<part, vars, who>>

\* Fairness and Vote!Fairness, each of the behaviours that move its part.
Of(p, Action) == part = p /\ Action

PartsFairness ==
  /\ WF_vars(Of("bridge", Step)) /\ WF_vars(Of("bridge", Boot))
  /\ WF_vars(Of("bridge", Respawn)) /\ WF_vars(Of("bridge", Start))
  /\ WF_vars(Of("bridge", \E p \in procs : p.told /\ Exit(p)))
  /\ WF_vars(Of("bridge", DropEntry))
  /\ WF_vote(Of("vote", Vote!Goroutines)) /\ WF_vote(Of("vote", Vote!Command))

PartsSpec ==
  PartsInit /\ [][PartsNext]_<<part, vars, who, vote>> /\ PartsFairness

NoOldLink    == Who!NoOldLink
OwnEntryOnly == Who!OwnEntryOnly

FirstAnswerSettles == Vote!FirstAnswerSettles

\* The command of a behaviour that has one.
VoteEnds == part = "vote" => Vote!AskEnds
=============================================================================
