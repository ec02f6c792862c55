------------------------------ MODULE MCChatTurn ------------------------------
(* Instances of ChatTurn for TLC. *)
EXTENDS ChatTurn, TLC

\* Requests are interchangeable (safety runs only).
MCSymmetry == Permutations(Turns)
=============================================================================
