----------------------------- MODULE MCChatUsers ----------------------------
(* A small instance of ChatUsers for TLC. *)
EXTENDS ChatUsers
=============================================================================
