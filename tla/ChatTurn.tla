------------------------------- MODULE ChatTurn -------------------------------
(***************************************************************************)
(* A question and its streamed answer (ChatOrchestrator.stream_reply behind *)
(* the SSE router), the conversation it belongs to, and the title task.    *)
(* One action per stretch of code between two awaits.  The queue between   *)
(* the producer task and the response is unbounded and FIFO, so a turn's   *)
(* `out` is what the client reads, sooner or later, if it stays.           *)
(***************************************************************************)
EXTENDS Naturals, Sequences, FiniteSets

CONSTANTS
    Turns,      \* POST /conversations/{id}/messages requests
    Convs,      \* conversation ids
    Keys,       \* client_message_id values
    None,       \* no client_message_id, no conversation
    MaxDeltas,  \* bound: text pieces of one answer
    FaultKinds, \* the failures that may happen, a subset of AllFaults
    MaxFaults   \* bound: how many of them

AllFaults == {"db",       \* a transaction fails and is rolled back
              "commit",   \* the commit takes effect and its answer is lost
              "broker",   \* the publish of a title task raises
              "stop"}     \* the API process stops

ASSUME ConstantsAssumption ==
    /\ None \notin Keys \cup Convs
    /\ MaxDeltas \in Nat
    /\ FaultKinds \subseteq AllFaults
    /\ MaxFaults \in Nat

VARIABLES
    title,       \* conversations.title: "null", "user", "generated"; or no row
    question,    \* the turns whose user message is stored
    answer,      \* the stored assistant message of each turn, with its citations
    usage,       \* statuses of the model_usage_logs rows of each turn
    turn,        \* the request: orchestrator, producer and response
    out,         \* the events yielded so far
    background,  \* turns whose partial answer a detached task is to store
    titleQueue,  \* generate_title messages per conversation
    titling,     \* generate_title tasks waiting for the model, per conversation
    faults       \* failures so far (for the bound MaxFaults)

dbVars    == <<title, question, answer, usage>>
titleVars == <<titleQueue, titling>>
vars      == <<title, question, answer, usage, turn, out, background,
               titleQueue, titling, faults>>

Titles    == {"absent", "null", "user", "generated", "deleted"}
Event     == {"message_start", "citations", "delta", "done", "error"}
NoAnswer  == [kind |-> "none", text |-> 0, cites |-> FALSE]
AnswerRow == [kind : {"none", "full", "partial"}, text : 0 .. MaxDeltas, cites : BOOLEAN]

PreparePC == {"load", "insert", "commit"}
PersistPC == {"persist_retrieval", "persist_error", "persist_success"}
StreamPC  == {"started", "retrieve", "stream"} \cup PersistPC
PC        == {"idle", "ended"} \cup PreparePC \cup StreamPC
Reply     == {"none", "not_found", "duplicate", "failed"}

IdleTurn == [pc |-> "idle", conv |-> None, key |-> None, rag |-> FALSE,
             untitled |-> FALSE, cites |-> FALSE, text |-> 0,
             reply |-> "none", left |-> "no", logged |-> FALSE]
TurnRecord == [pc : PC, conv : Convs \cup {None}, key : Keys \cup {None}, rag : BOOLEAN,
               untitled : BOOLEAN,  \* title_is_none, read by TXN A
               cites : BOOLEAN,     \* turn.citations is not empty
               text : 0 .. MaxDeltas,            \* pieces in the buffer
               reply : Reply,                    \* the JSON error, if that is the answer
               left : StreamPC \cup {"no", "stop"},  \* where the client left it
               logged : BOOLEAN]                 \* chat_persist_failed was logged

TypeOK ==
    /\ title \in [Convs -> Titles]
    /\ question \in SUBSET Turns
    /\ answer \in [Turns -> AnswerRow]
    /\ usage \in [Turns -> Seq({"ok", "error"})]
    /\ turn \in [Turns -> TurnRecord]
    /\ out \in [Turns -> Seq(Event)]
    /\ background \in SUBSET Turns
    /\ titleQueue \in [Convs -> Nat]
    /\ titling \in [Convs -> Nat]
    /\ faults \in Nat

Init ==
    /\ title = [c \in Convs |-> "absent"]
    /\ question = {}
    /\ answer = [t \in Turns |-> NoAnswer]
    /\ usage = [t \in Turns |-> <<>>]
    /\ turn = [t \in Turns |-> IdleTurn]
    /\ out = [t \in Turns |-> <<>>]
    /\ background = {}
    /\ titleQueue = [c \in Convs |-> 0]
    /\ titling = [c \in Convs |-> 0]
    /\ faults = 0

Exists(c) == title[c] \notin {"absent", "deleted"}
At(t, pc) == turn[t].pc = pc
In(c)     == {t \in Turns : turn[t].conv = c}

Goto(t, pc)       == turn' = [turn EXCEPT ![t].pc = pc]
Yield(t, ev)      == out' = [out EXCEPT ![t] = Append(@, ev)]
\* Mutant: the code of the reply is taken for the state of the request.
RejectedMixedUp(t, code) == turn' = [turn EXCEPT ![t].pc = code]
Rejected(t, code) == turn' = [turn EXCEPT ![t].pc = "ended", ![t].reply = code]

Fault(kind) ==
    /\ kind \in FaultKinds
    /\ faults < MaxFaults
    /\ faults' = faults + 1

(***************************************************************************)
(* Conversations                                                           *)
(***************************************************************************)
Create(c) ==
    /\ title[c] = "absent"
    /\ \E new \in {"null", "user"} : title' = [title EXCEPT ![c] = new]
    /\ UNCHANGED <<question, answer, usage, turn, out, background, titleVars, faults>>

\* The UPDATE does not depend on the row read before it; of a deleted row it raises.
Rename(c) ==
    /\ Exists(c)
    /\ title' = [title EXCEPT ![c] = "user"]
    /\ UNCHANGED <<question, answer, usage, turn, out, background, titleVars, faults>>

\* The foreign key of an inserted, uncommitted message holds the row: DELETE
\* waits for it.  Messages and citations go by ON DELETE CASCADE, usage logs stay.
Delete(c) ==
    /\ Exists(c)
    /\ \A t \in In(c) : ~ At(t, "commit")
    /\ title' = [title EXCEPT ![c] = "deleted"]
    /\ question' = question \ In(c)
    /\ answer' = [t \in Turns |-> IF t \in In(c) THEN NoAnswer ELSE answer[t]]
    /\ UNCHANGED <<usage, turn, out, background, titleVars, faults>>

(***************************************************************************)
(* TXN A (_prepare_turn), before any event: errors are plain JSON replies  *)
(***************************************************************************)
Send(t, c) ==
    /\ turn[t] = IdleTurn
    /\ title[c] # "absent"
    /\ \E k \in Keys \cup {None}, rag \in BOOLEAN :
          turn' = [turn EXCEPT ![t] = [IdleTurn EXCEPT !.pc = "load", !.conv = c,
                                                       !.key = k, !.rag = rag]]
    /\ UNCHANGED <<dbVars, out, background, titleVars, faults>>

Load(t) ==
    /\ At(t, "load")
    /\ Exists(turn[t].conv)
    /\ turn' = [turn EXCEPT ![t].pc = "insert",
                            ![t].untitled = title[turn[t].conv] = "null"]
    /\ UNCHANGED <<dbVars, out, background, titleVars, faults>>

\* No such conversation, or a source of the request that is not the user's.
LoadRejects(t) ==
    /\ At(t, "load")
    /\ ~ Exists(turn[t].conv) \/ turn[t].rag
    /\ Rejected(t, "not_found")
    /\ UNCHANGED <<dbVars, out, background, titleVars, faults>>

\* ux_messages_client_id: an insert waits for the transaction that holds the key.
SameKey(t, u) ==
    u # t /\ turn[t].key # None /\ turn[u].key = turn[t].key /\ turn[u].conv = turn[t].conv
KeyStored(t) == \E u \in question : SameKey(t, u)
\* Mutant: the key is looked up and the insert does not wait.
KeyFreeUnlocked(t) == TRUE
KeyFree(t)   == \A u \in Turns : SameKey(t, u) => ~ At(u, "commit")

Insert(t) ==
    /\ At(t, "insert")
    /\ KeyFree(t) /\ ~ KeyStored(t) /\ Exists(turn[t].conv)
    /\ Goto(t, "commit")
    /\ UNCHANGED <<dbVars, out, background, titleVars, faults>>

\* Every IntegrityError of the insert, that of the foreign key included, is 409.
InsertRejects(t) ==
    /\ At(t, "insert")
    /\ KeyFree(t) /\ (KeyStored(t) \/ ~ Exists(turn[t].conv))
    /\ Rejected(t, "duplicate")
    /\ UNCHANGED <<dbVars, out, background, titleVars, faults>>

\* list_recent, the commit, and the first event.
Commit(t) ==
    /\ At(t, "commit")
    /\ question' = question \cup {t}
    /\ Goto(t, "started")
    /\ Yield(t, "message_start")
    /\ UNCHANGED <<title, answer, usage, background, titleVars, faults>>

PrepareFails(t) ==
    /\ turn[t].pc \in PreparePC
    /\ \/ Fault("db") /\ UNCHANGED question
       \/ At(t, "commit") /\ Fault("commit") /\ question' = question \cup {t}
    /\ Rejected(t, "failed")
    /\ UNCHANGED <<title, answer, usage, out, background, titleVars>>

(***************************************************************************)
(* The stream                                                              *)
(***************************************************************************)
\* The response begins: the producer task takes the generator past message_start.
Serve(t) ==
    /\ At(t, "started")
    /\ Goto(t, IF turn[t].rag THEN "retrieve" ELSE "stream")
    /\ UNCHANGED <<dbVars, out, background, titleVars, faults>>

\* No citations event for an empty result.
Retrieve(t) ==
    /\ At(t, "retrieve")
    /\ \/ turn' = [turn EXCEPT ![t].pc = "stream", ![t].cites = TRUE] /\ Yield(t, "citations")
       \/ Goto(t, "stream") /\ UNCHANGED out
    /\ UNCHANGED <<dbVars, background, titleVars, faults>>

RetrieveFails(t) ==
    /\ At(t, "retrieve")
    /\ Goto(t, "persist_retrieval")
    /\ UNCHANGED <<dbVars, out, background, titleVars, faults>>

\* The provider: text pieces, then stop or one error (timeouts and broken
\* connections are mapped to an error).
TextDelta(t) ==
    /\ At(t, "stream")
    /\ turn[t].text < MaxDeltas
    /\ turn' = [turn EXCEPT ![t].text = @ + 1]
    /\ Yield(t, "delta")
    /\ UNCHANGED <<dbVars, background, titleVars, faults>>

StreamEnds(t) ==
    /\ At(t, "stream")
    /\ \E pc \in {"persist_success", "persist_error"} : Goto(t, pc)
    /\ UNCHANGED <<dbVars, out, background, titleVars, faults>>

(***************************************************************************)
(* TXN B.  One commit: the message with its citations, and the usage log.  *)
(***************************************************************************)
\* Mutant: the row is built without the citations of the turn.
AnswerOfWithoutCitations(t, kind) == [kind |-> kind, text |-> turn[t].text, cites |-> FALSE]
AnswerOf(t, kind) == [kind |-> kind, text |-> turn[t].text, cites |-> turn[t].cites]

\* Only the success path stores a message without text.
HasMessage(t, kind) == kind = "full" \/ turn[t].text > 0

\* Mutant: every attempt to store an answer takes a new message id.
CanInsertFreshId(t) == Exists(turn[t].conv)
\* The primary key assistant_message_id, and the foreign key of the conversation.
CanInsert(t) == answer[t] = NoAnswer /\ Exists(turn[t].conv)

Store(t, kind, log) ==
    /\ HasMessage(t, kind) => CanInsert(t)
    /\ answer' = IF HasMessage(t, kind) THEN [answer EXCEPT ![t] = AnswerOf(t, kind)]
                                        ELSE answer
    /\ usage' = [usage EXCEPT ![t] = Append(@, log)]

StoreFails(t, kind, log) ==
    \/ HasMessage(t, kind) /\ ~ CanInsert(t) /\ UNCHANGED <<answer, usage, faults>>
    \/ Fault("db") /\ UNCHANGED <<answer, usage>>
    \/ Store(t, kind, log) /\ Fault("commit")

\* enqueue_generate_title swallows a publish that raises.
EnqueueTitle(t) ==
    \/ /\ turn[t].untitled
       /\ titleQueue' = [titleQueue EXCEPT ![turn[t].conv] = @ + 1]
       /\ UNCHANGED faults
    \/ ~ turn[t].untitled /\ UNCHANGED <<titleQueue, faults>>
    \/ turn[t].untitled /\ Fault("broker") /\ UNCHANGED titleQueue

PersistSuccess(t) ==
    /\ At(t, "persist_success")
    /\ Store(t, "full", "ok")
    /\ EnqueueTitle(t)
    /\ Goto(t, "ended")
    /\ Yield(t, "done")
    /\ UNCHANGED <<title, question, background, titling>>

\* Mutant: done whatever became of TXN B.
PersistSuccessFailsDone(t) ==
    /\ At(t, "persist_success")
    /\ StoreFails(t, "full", "ok")
    /\ turn' = [turn EXCEPT ![t].pc = "ended", ![t].logged = TRUE]
    /\ Yield(t, "done")
    /\ UNCHANGED <<title, question, background, titleVars>>

PersistSuccessFails(t) ==
    /\ At(t, "persist_success")
    /\ StoreFails(t, "full", "ok")
    /\ turn' = [turn EXCEPT ![t].pc = "ended", ![t].logged = TRUE]
    /\ Yield(t, "error")
    /\ UNCHANGED <<title, question, background, titleVars>>

\* The provider's error, or that of the retrieval (no text then).
PersistError(t) ==
    /\ turn[t].pc \in {"persist_error", "persist_retrieval"}
    /\ Store(t, "partial", "error")
    /\ Goto(t, "ended")
    /\ Yield(t, "error")
    /\ UNCHANGED <<title, question, background, titleVars, faults>>

\* Mutant: the failure of the transaction replaces the provider's error event.
PersistErrorFailsSilent(t) ==
    /\ turn[t].pc \in {"persist_error", "persist_retrieval"}
    /\ StoreFails(t, "partial", "error")
    /\ turn' = [turn EXCEPT ![t].pc = "ended", ![t].logged = TRUE]
    /\ UNCHANGED <<title, question, out, background, titleVars>>

PersistErrorFails(t) ==
    /\ turn[t].pc \in {"persist_error", "persist_retrieval"}
    /\ StoreFails(t, "partial", "error")
    /\ turn' = [turn EXCEPT ![t].pc = "ended", ![t].logged = TRUE]
    /\ Yield(t, "error")
    /\ UNCHANGED <<title, question, background, titleVars>>

(***************************************************************************)
(* The client goes away: the response's finally cancels the producer, and  *)
(* CancelledError is raised at the await the orchestrator stands at.       *)
(***************************************************************************)
Left(t) == turn' = [turn EXCEPT ![t].pc = "ended", ![t].left = turn[t].pc]

\* A transaction cancelled at its commit: it took effect, or it did not.
CutShort(t, kind, log) == Store(t, kind, log) \/ UNCHANGED <<answer, usage>>

LeaveEarly(t) ==
    /\ turn[t].pc \in {"started", "retrieve"}
    /\ Left(t)
    /\ UNCHANGED <<dbVars, out, background, titleVars, faults>>

\* Mutant: the partial answer is stored by the cancelled task itself.
LeaveStreamInline(t) ==
    /\ At(t, "stream")
    /\ Left(t)
    /\ UNCHANGED <<dbVars, out, background, titleVars, faults>>

LeaveStream(t) ==
    /\ At(t, "stream")
    /\ Left(t)
    /\ background' = background \cup {t}
    /\ UNCHANGED <<dbVars, out, titleVars, faults>>

\* Inside the try around the stream: its handler runs as for LeaveStream.
LeavePersistError(t) ==
    /\ At(t, "persist_error")
    /\ CutShort(t, "partial", "error")
    /\ Left(t)
    /\ background' = background \cup {t}
    /\ UNCHANGED <<title, question, out, titleVars, faults>>

\* Outside it: `except Exception` does not catch CancelledError.
LeavePersist(t) ==
    /\ \/ At(t, "persist_success") /\ CutShort(t, "full", "ok")
       \/ At(t, "persist_retrieval") /\ CutShort(t, "partial", "error")
    /\ Left(t)
    /\ UNCHANGED <<title, question, out, background, titleVars, faults>>

\* _persist_cancelled_guarded, in a task of its own.
BackgroundPersist(t) ==
    /\ t \in background
    /\ background' = background \ {t}
    /\ \/ turn[t].text = 0 /\ UNCHANGED <<answer, usage, turn, faults>>
       \/ turn[t].text > 0 /\ Store(t, "partial", "ok") /\ UNCHANGED <<turn, faults>>
       \/ /\ turn[t].text > 0
          /\ StoreFails(t, "partial", "ok")
          /\ turn' = [turn EXCEPT ![t].logged = TRUE]
    /\ UNCHANGED <<title, question, out, titleVars>>

\* Nothing waits for the requests' own tasks or for the detached ones.
ProcessStop ==
    /\ Fault("stop")
    /\ turn' = [t \in Turns |->
                  IF turn[t].pc \in StreamPC
                  THEN [turn[t] EXCEPT !.pc = "ended", !.left = "stop"]
                  ELSE IF turn[t].pc \in PreparePC
                  THEN [turn[t] EXCEPT !.pc = "ended", !.reply = "failed"]
                  ELSE IF t \in background THEN [turn[t] EXCEPT !.left = "stop"]
                  ELSE turn[t]]
    /\ background' = {}
    /\ UNCHANGED <<dbVars, out, titleVars>>

(***************************************************************************)
(* The title task (workers/tasks/titles.py)                                *)
(***************************************************************************)
HasRound(c) == question \cap In(c) # {} /\ \E t \in In(c) : answer[t] # NoAnswer

TitleRead(c) ==
    /\ titleQueue[c] > 0
    /\ titleQueue' = [titleQueue EXCEPT ![c] = @ - 1]
    /\ titling' = [titling EXCEPT ![c] =
                     IF title[c] = "null" /\ HasRound(c) THEN @ + 1 ELSE @]
    /\ UNCHANGED <<dbVars, turn, out, background, faults>>

\* Mutant: the title that was read as NULL is overwritten without asking again.
SetTitleUnasked(c) == IF Exists(c) THEN "generated" ELSE title[c]
SetTitleIfNull(c)  == IF title[c] = "null" THEN "generated" ELSE title[c]

\* The model has answered: with a title, or with nothing to use.
TitleWrite(c) ==
    /\ titling[c] > 0
    /\ titling' = [titling EXCEPT ![c] = @ - 1]
    /\ \/ title' = [title EXCEPT ![c] = SetTitleIfNull(c)]
       \/ UNCHANGED title
    /\ UNCHANGED <<question, answer, usage, turn, out, background, titleQueue, faults>>

-----------------------------------------------------------------------------
ConversationStep(c) == Create(c) \/ Rename(c) \/ Delete(c)

TitleStep(c) == TitleRead(c) \/ TitleWrite(c)

ClientStep(t) ==
    \/ \E c \in Convs : Send(t, c)
    \/ LeaveEarly(t) \/ LeaveStream(t) \/ LeavePersistError(t) \/ LeavePersist(t)

\* The awaits of the request itself; every one of them has a timeout.
RequestStep(t) ==
    \/ Load(t) \/ LoadRejects(t) \/ Insert(t) \/ InsertRejects(t)
    \/ Commit(t) \/ PrepareFails(t)
    \/ Serve(t) \/ Retrieve(t) \/ RetrieveFails(t) \/ TextDelta(t) \/ StreamEnds(t)
    \/ PersistSuccess(t) \/ PersistSuccessFails(t)
    \/ PersistError(t) \/ PersistErrorFails(t)

Next ==
    \/ \E c \in Convs : ConversationStep(c) \/ TitleStep(c)
    \/ \E t \in Turns : ClientStep(t) \/ RequestStep(t) \/ BackgroundPersist(t)
    \/ ProcessStop

Spec == Init /\ [][Next]_vars

\* The event loop runs every task that can run; nothing is asked of the client,
\* the user, the title worker or the failures.
FairSpec ==
    /\ Spec
    /\ \A t \in Turns : WF_vars(RequestStep(t)) /\ WF_vars(BackgroundPersist(t))

(***************************************************************************)
(* Properties                                                              *)
(***************************************************************************)
Count(t, ev) == Cardinality({i \in DOMAIN out[t] : out[t][i] = ev})
Ended(t)     == At(t, "ended")
Stored(t)    == answer[t] # NoAnswer

\* One question, one answer, one bill: whatever fails or is cancelled on the way,
\* a turn is never logged twice, a stored answer has its question and its log
\* (one transaction), and a turn the client stayed on leaves a log or an entry
\* chat_persist_failed.
OneAnswerOneLog ==
    \A t \in Turns :
        /\ Len(usage[t]) <= 1
        /\ Stored(t) => t \in question /\ Len(usage[t]) = 1
        /\ Ended(t) /\ turn[t].reply = "none" /\ turn[t].left = "no" =>
               Len(usage[t]) = 1 \/ turn[t].logged

\* What GET /messages shows later is what was streamed: the text of the deltas,
\* and citations exactly if the citations event was sent ("MUST be one list").
StoredIsWhatWasSent ==
    \A t \in Turns : Stored(t) =>
        /\ answer[t].text = Count(t, "delta")
        /\ answer[t].cites = (Count(t, "citations") = 1)

\* done is sent only for an answer that is in the database, complete (until its
\* conversation is deleted).
DoneMeansStored ==
    \A t \in Turns : Count(t, "done") > 0 =>
        answer[t].kind = "full" \/ ~ Exists(turn[t].conv)

\* A client_message_id is accepted once per conversation, concurrent sends included.
QuestionAskedOnce == \A t, u \in question : ~ SameKey(t, u)

\* Text the user has seen is not lost without a trace: it is stored, or about to
\* be, or the failure was logged.
Kept(t) == Stored(t) \/ t \in background \/ turn[t].logged \/ ~ Exists(turn[t].conv)

\* So for every way a turn ends but two: the process stops, or the client leaves
\* during TXN B (see DisconnectKeepsPartial).
NothingLostSilently ==
    \A t \in Turns :
        Ended(t) /\ turn[t].text > 0 /\ turn[t].left \notin {"stop", "persist_success"}
            => Kept(t)

\* The comments promise it for a client that leaves at any point of the stream.
DisconnectKeepsPartial ==
    \A t \in Turns :
        Ended(t) /\ turn[t].text > 0 /\ turn[t].left \in StreamPC => Kept(t)

\* A title the user has set is replaced by the user alone, however old the read
\* is on which a title task works.
UserTitleKept ==
    [][\A c \in Convs : title[c] = "user" => title'[c] \in {"user", "deleted"}]_title

\* 409 duplicate_message is the answer to a message that is there already.
DuplicateIsReal ==
    [][\A t \in Turns :
         turn'[t].reply = "duplicate" /\ turn[t].reply # "duplicate" => KeyStored(t)]_vars

\* The event stream implements TurnProtocol, its progress included.
Stage == [t \in Turns |->
            IF out[t] = <<>> THEN "new"
            ELSE IF ~ Ended(t) THEN "open"
            ELSE IF turn[t].left = "no" THEN "finished"
            ELSE "left"]
Protocol == INSTANCE TurnProtocol WITH stream <- out, stage <- Stage
ImplementsProtocol == Protocol!FairSpec
=============================================================================
