------------------------------ MODULE MCRelay ------------------------------
(* A small instance of Relay for TLC. *)
EXTENDS Relay, TLC

\* DeviceIds, Users and Handshakes are given the values of Sends, Collects and
\* Conns, and RatePeers contains Sends: the parts never meet.
Symmetry == Permutations(Sends) \cup Permutations(Collects) \cup Permutations(Conns)
=============================================================================
