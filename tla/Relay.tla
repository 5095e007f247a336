------------------------------- MODULE Relay -------------------------------
(***************************************************************************)
(* Four parts of the App side by side: Pairing with its registry,          *)
(* LegacyMigration (Legacy), WsClient (Ws) and PairingRateLimit (Rate).    *)
(* They share no state, so a behaviour moves one of them only (`part`).    *)
(***************************************************************************)
EXTENDS Pairing

CONSTANTS Tokens, None, MaxBoots, MaxCorruptions,
          Sends, Collects, Conns, NoConn, MaxEvents,
          RatePeers, PeerLimit, GlobalLimit, PeerWindow, GlobalWindow, MaxTracked, RateMaxNow

VARIABLES part,
          option, plain, status, file, snapshot, memory, damaged, pc, boots, corruptions,
          cut, resetting, lost, token,
          current, connecting, connected, everConnected, failure, link, send, collect, broken,
          instant, peers, global, allowed, told

legacy == <<option, plain, status, file, snapshot, memory, damaged, pc, boots, corruptions,
            cut, resetting, lost, token>>
ws     == <<current, connecting, connected, everConnected, failure, link, send, collect, broken>>
rate   == <<instant, peers, global, allowed, told>>

Legacy == INSTANCE LegacyMigration
Ws     == INSTANCE WsClient
Rate   == INSTANCE PairingRateLimit WITH now <- instant, Peers <- RatePeers,
                                         MaxNow <- RateMaxNow

ASSUME PartsAssumption ==
  /\ PairingAssumption /\ Registry!RegistryAssumption
  /\ Legacy!LegacyAssumption /\ Ws!WsAssumption /\ Rate!RateAssumption

PartsInit ==
  /\ part \in {"pairing", "legacy", "ws", "rate"}
  /\ Init /\ Legacy!Init /\ Ws!Init /\ Rate!Init
  /\ part # "legacy" => option = None /\ plain = None
  /\ part # "pairing" => ~port /\ ~cloud

PartsNext ==
  \/ part = "pairing" /\ Next /\ UNCHANGED <<part, legacy, ws, rate>>
  \/ part = "legacy" /\ Legacy!Next /\ UNCHANGED <<part, vars, ws, rate>>
  \/ part = "ws" /\ Ws!Next /\ UNCHANGED <<part, vars, legacy, rate>>
  \/ part = "rate" /\ Rate!Next /\ UNCHANGED <<part, vars, legacy, ws>>

PartsSpec == PartsInit /\ [][PartsNext]_<<part, vars, legacy, ws, rate>>

CutStays          == Legacy!CutStays
TokenNeverLost    == Legacy!TokenNeverLost
OneTrueConnection == Ws!OneTrueConnection
BudgetsHold       == Rate!BudgetsHold
=============================================================================
