----------------------------- MODULE TurnProtocol -----------------------------
(***************************************************************************)
(* What POST /conversations/{id}/messages promises its client: after       *)
(* message_start at most one citations event, then deltas, then exactly    *)
(* one terminal event, done or error.  Only a client that goes away (or a  *)
(* server that stops) sees a stream without the terminal event.            *)
(***************************************************************************)
EXTENDS Sequences
CONSTANT Turns
VARIABLES stream,   \* the events of each turn so far
          stage     \* "new", "open", "finished" or "left"

vars == <<stream, stage>>

Terminal == {"done", "error"}

Init == stream = [t \in Turns |-> <<>>] /\ stage = [t \in Turns |-> "new"]

Emit(t, from, to, ev) ==
    /\ stage[t] = from
    /\ stage' = [stage EXCEPT ![t] = to]
    /\ stream' = [stream EXCEPT ![t] = Append(@, ev)]

Start(t)  == Emit(t, "new", "open", "message_start")
Cite(t)   == stream[t] = <<"message_start">> /\ Emit(t, "open", "open", "citations")
Delta(t)  == Emit(t, "open", "open", "delta")
Finish(t) == \E ev \in Terminal : Emit(t, "open", "finished", ev)

\* Clients go away, one or, when the server stops, all of them.
Leave(S) == /\ S # {} /\ \A t \in S : stage[t] = "open"
            /\ stage' = [t \in Turns |-> IF t \in S THEN "left" ELSE stage[t]]
            /\ UNCHANGED stream

Next == \/ \E t \in Turns : Start(t) \/ Cite(t) \/ Delta(t) \/ Finish(t)
        \/ \E S \in SUBSET Turns : Leave(S)

Spec == Init /\ [][Next]_vars

\* A stream the client stays on comes to its terminal event.
FairSpec ==
    Spec /\ \A t \in Turns : WF_vars(Finish(t) \/ \E S \in SUBSET Turns : t \in S /\ Leave(S))
=============================================================================
