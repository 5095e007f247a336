----------------------------- MODULE MCChatCalls ----------------------------
(* A small instance of ChatCalls for TLC: two phone plans and a chat plan. *)
EXTENDS ChatCalls

CONSTANTS a1, a2, a3, ana, c1, c2

Owners == [p \in {a1, a2, a3} |-> ana]
=============================================================================
