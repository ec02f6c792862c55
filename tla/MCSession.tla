------------------------------ MODULE MCSession ------------------------------
(* Instances of Session for TLC: tab a makes all the API requests, the other *)
(* one races it with the refresh it starts with.                             *)
EXTENDS Session

CONSTANT a

MCTabOf == [c \in Calls |-> a]
=============================================================================
