------------------------------- MODULE Client -------------------------------
(***************************************************************************)
(* The client's own parts, side by side: CredentialMigration (Store),      *)
(* ServerRemoval (Server), CloudLink (Link), McpForms (Forms) and          *)
(* InstallLifecycle.  They share no state, so a behaviour moves one of them *)
(* only (`part`).                                                          *)
(***************************************************************************)
EXTENDS InstallLifecycle

CONSTANTS Profile, Default, MaxCred, Faults, Removals,
          Askers, MaxKills, MaxWrites, Terminals, Users, MaxSignIns, MaxCalls

VARIABLES part,
          keyring, file, backend, cleanup, endpoint, mode, pc, todo, found, after, who, cred,
          toFile, minted, works, retired, paired, hidden, gap,
          present, urls, checkpoint, slot, asked, at, this, held, outcome, notes, active,
          issued, fresh, kills, writes, foreign, confirmed, deleted, told, blind,
          cloud, tokens, live, bound, signIns, nonces, user, waits, step, cmd, env, late,
          removing, orphans,
          wire, open, queued, form, shown, asks, answers, cancelled, dropped, ran

store  == <<keyring, file, backend, cleanup, endpoint, mode, pc, todo, found, after, who, cred,
            toFile, minted, works, retired, paired, hidden, gap>>
server == <<present, urls, checkpoint, slot, asked, at, this, held, outcome, notes, active,
            issued, fresh, kills, writes, foreign, confirmed, deleted, told, blind>>
link   == <<cloud, tokens, live, bound, signIns, nonces, user, waits, step, cmd, env, late,
            removing, orphans>>
forms  == <<wire, open, queued, form, shown, asks, answers, cancelled, dropped, ran>>

Store  == INSTANCE CredentialMigration WITH marker <- backend, plan <- found
Server == INSTANCE ServerRemoval
Link   == INSTANCE CloudLink WITH slot <- tokens, device <- bound, at <- step,
                                 gen <- nonces
Forms  == INSTANCE McpForms

ASSUME PartsAssumption ==
  /\ Store!StoreAssumption /\ Server!RemovalAssumption /\ Link!CloudAssumption
  /\ Forms!FormsAssumption

PartsInit ==
  /\ part \in {"store", "server", "link", "forms", "install"}
  /\ Init /\ Store!Init /\ Server!Init /\ Link!Init /\ Forms!Init
  /\ part # "install" => opened

\* The store claims nothing any more after a gap, so behaviours end there.
PartsNext ==
  \/ part = "store" /\ ~gap /\ Store!Next /\ UNCHANGED <<part, vars, server, link, forms>>
  \/ part = "server" /\ Server!Next /\ UNCHANGED <<part, vars, store, link, forms>>
  \/ part = "link" /\ Link!Next /\ UNCHANGED <<part, vars, store, server, forms>>
  \/ part = "forms" /\ Forms!Next /\ UNCHANGED <<part, vars, store, server, link>>
  \/ part = "install" /\ Next /\ UNCHANGED <<part, store, server, link, forms>>

PartsSpec == PartsInit /\ [][PartsNext]_<<part, vars, store, server, link, forms>>

\* Each is evaluated where its part moves.
In(name, property) == part = name => property

NothingLost == In("store", Store!NothingLost)

ResumeSucceeds    == In("server", Server!ResumeSucceeds)
OnlyConfirmedGoes == In("server", Server!OnlyConfirmedGoes)
NoneLeftUntold    == In("server", Server!NoneLeftUntold)

SignInsAccountedFor == In("link", Link!SignInsAccountedFor)
LinkKeepsWorking    == In("link", Link!LinkKeepsWorking)
NeverStuck          == In("link", Link!NeverStuck)

RunsAsAnswered == In("forms", Forms!RunsAsAnswered)
=============================================================================
