------------------------------- MODULE ChatView -------------------------------
(***************************************************************************)
(* The window of one conversation (useChatStream, useMessages) over the    *)
(* messages the server stores: a cache of the newest pages that a refetch  *)
(* replaces, that loading an earlier page extends, and that the stream of  *)
(* an answer patches.  The turn itself is reduced to what the window can   *)
(* tell (ChatTurn has the steps); the text of an answer is left out.       *)
(* The query library is external: an invalidation cancels the fetch under  *)
(* way and starts another, and a fetch that ends replaces the cache.       *)
(***************************************************************************)
EXTENDS Naturals, Sequences, SequencesExt

CONSTANTS
    MaxTurns,   \* bound: questions sent from this window
    History,    \* bound: messages stored before it is opened
    PageSize,   \* limit of GET /conversations/{id}/messages
    MaxFocus    \* bound: refetches because the window gets the focus again

ASSUME ConstantsAssumption ==
    MaxTurns \in Nat /\ History \in Nat /\ PageSize \in Nat \ {0} /\ MaxFocus \in Nat

VARIABLES
    stored,   \* the messages of the conversation, by (created_at, id)
    server,   \* what the server has done about each turn
    events,   \* the SSE events of each turn that the window has not read
    loop,     \* the `for await` over the stream of each turn
    status,   \* ChatStatus
    current,  \* the turn whose AbortController is in `controller`, or 0
    cache,    \* MessagesCache
    fetch,    \* the query function under way
    earlier,  \* loadEarlier under way
    overlap,  \* history: two of the above have overlapped, or the query has failed
    focus     \* refetches by focus (for the bound)

viewVars == <<status, current, cache, fetch, earlier>>
vars == <<stored, server, events, loop, status, current, cache, fetch, earlier, overlap, focus>>

Turns   == 1 .. MaxTurns
Message == ({"history"} \X (1 .. History)) \cup ({"temp", "user", "assistant"} \X Turns)
None    == <<"none", 0>>
Cursors == Message \cup {None}
Event   == {"message_start", "done", "error", "rejected"}
Cache   == [loaded : BOOLEAN, items : Seq(Message), earlierCursor : Cursors]
Fetch   == [at : {"none", "sent", "answered"}, items : Seq(Message), next : Cursors]
Idle    == [at |-> "none", items |-> <<>>, next |-> None]
Asked   == [at |-> "sent", items |-> <<>>, next |-> None]

TypeOK ==
    /\ stored \in Seq(Message)
    /\ server \in [Turns -> {"none", "posted", "answering", "over"}]
    /\ events \in [Turns -> Seq(Event)]
    /\ loop \in [Turns -> {"none", "open", "closed"}]
    /\ status \in {"idle", "streaming", "done", "error"}
    /\ current \in 0 .. MaxTurns
    /\ cache \in Cache
    /\ fetch \in Fetch
    /\ earlier \in [load : Fetch, base : Seq(Message), cursor : Cursors]
    /\ overlap \in BOOLEAN
    /\ focus \in 0 .. MaxFocus

\* The window is opened on a conversation with a history: the query starts.
Init ==
    /\ stored = [i \in 1 .. History |-> <<"history", i>>]
    /\ server = [k \in Turns |-> "none"]
    /\ events = [k \in Turns |-> <<>>]
    /\ loop = [k \in Turns |-> "none"]
    /\ status = "idle"
    /\ current = 0
    /\ cache = [loaded |-> FALSE, items |-> <<>>, earlierCursor |-> None]
    /\ fetch = Asked
    /\ earlier = [load |-> Idle, base |-> <<>>, cursor |-> None]
    /\ overlap = FALSE
    /\ focus = 0

-----------------------------------------------------------------------------
(* The server: a page of the list, and the turns. *)

\* Rows before the cursor in (created_at, id): keyset_before.
Before(cursor) ==
    IF cursor = None THEN stored
    ELSE SubSeq(stored, 1, (CHOOSE i \in DOMAIN stored : stored[i] = cursor) - 1)

\* Mutant: the cursor is the key of the extra row, which the next page leaves out.
PageFromExtraRow(cursor) ==
    LET rows == Before(cursor)
        more == Len(rows) > PageSize
        kept == IF more THEN SubSeq(rows, Len(rows) - PageSize + 1, Len(rows)) ELSE rows
    IN  [at |-> "answered", items |-> kept,
         next |-> IF more THEN rows[Len(rows) - PageSize] ELSE None]

\* list_page takes the newest limit + 1 rows and paginate keeps limit; the window
\* shows them in ascending order.  next_cursor is the key of the oldest row kept.
Page(cursor) ==
    LET rows == Before(cursor)
        more == Len(rows) > PageSize
        kept == IF more THEN SubSeq(rows, Len(rows) - PageSize + 1, Len(rows)) ELSE rows
    IN  [at |-> "answered", items |-> kept, next |-> IF more THEN kept[1] ELSE None]

ServerStep(k, from, to, new, event) ==
    /\ server[k] \in from
    /\ server' = [server EXCEPT ![k] = to]
    /\ stored' = stored \o new
    /\ events' = [events EXCEPT ![k] = @ \o event]
    /\ UNCHANGED <<loop, viewVars, overlap, focus>>

Accept(k) == ServerStep(k, {"posted"}, "answering", << <<"user", k>> >>, <<"message_start">>)
Reject(k) == ServerStep(k, {"posted"}, "over", <<>>, <<"rejected">>)
Finish(k) == ServerStep(k, {"answering"}, "over", << <<"assistant", k>> >>, <<"done">>)

\* A partial answer is stored if there is any text.
Partial(k) == {<<>>, << <<"assistant", k>> >>}

Break(k) ==
    \E new \in Partial(k) : ServerStep(k, {"answering"}, "over", new, <<"error">>)

\* The client has left: a partial answer may be stored, by a task of its own.
Abandon(k) ==
    /\ loop[k] = "closed"
    /\ \/ \E new \in Partial(k) : ServerStep(k, {"answering"}, "over", new, <<>>)
       \/ ServerStep(k, {"posted"}, "over", <<>>, <<>>)

\* The process stops: the stream ends without its terminal event.
Stop(k) == ServerStep(k, {"posted", "answering"}, "over", <<>>, <<>>)

-----------------------------------------------------------------------------
(* The query: useMessages and its refetches. *)

\* invalidateQueries: only the very first fetch is not cancelled.
Refetch == fetch' = IF cache.loaded \/ fetch.at = "none" THEN Asked ELSE fetch

FetchAnswered ==
    /\ fetch.at = "sent"
    /\ fetch' = Page(None)
    /\ UNCHANGED <<stored, server, events, loop, status, current, cache, earlier, overlap, focus>>

FetchArrives ==
    /\ fetch.at = "answered"
    /\ cache' = [loaded |-> TRUE, items |-> fetch.items, earlierCursor |-> fetch.next]
    /\ fetch' = Idle
    /\ UNCHANGED <<stored, server, events, loop, status, current, earlier, overlap, focus>>

\* The retries of the query have failed as well: the cache stays as it is.
FetchFails ==
    /\ fetch.at = "sent"
    /\ fetch' = Idle
    /\ overlap' = TRUE
    /\ UNCHANGED <<stored, server, events, loop, status, current, cache, earlier, focus>>

Focus ==
    /\ cache.loaded /\ fetch.at = "none" /\ focus < MaxFocus
    /\ focus' = focus + 1
    /\ fetch' = Asked
    /\ overlap' = (overlap \/ status = "streaming" \/ earlier.load.at # "none")
    /\ UNCHANGED <<stored, server, events, loop, status, current, cache, earlier>>

\* loadEarlier reads the cache, and then awaits the page before its cursor.
LoadEarlier ==
    /\ cache.loaded /\ cache.earlierCursor # None /\ earlier.load.at = "none"
    /\ earlier' = [load |-> Asked, base |-> cache.items, cursor |-> cache.earlierCursor]
    /\ overlap' = (overlap \/ status = "streaming" \/ fetch.at # "none")
    /\ UNCHANGED <<stored, server, events, loop, status, current, cache, fetch, focus>>

EarlierAnswered ==
    /\ earlier.load.at = "sent"
    /\ earlier' = [earlier EXCEPT !.load = Page(earlier.cursor)]
    /\ UNCHANGED <<stored, server, events, loop, status, current, cache, fetch, overlap, focus>>

\* The page goes before the items that were read then, not before those of now.
EarlierArrives ==
    /\ earlier.load.at = "answered"
    /\ cache' = [loaded |-> TRUE, items |-> earlier.load.items \o earlier.base,
                 earlierCursor |-> earlier.load.next]
    /\ earlier' = [load |-> Idle, base |-> <<>>, cursor |-> None]
    /\ UNCHANGED <<stored, server, events, loop, status, current, fetch, overlap, focus>>

\* The page is refused: nothing is kept of it, and it may be asked for again.
EarlierFails ==
    /\ earlier.load.at = "sent"
    /\ earlier' = [load |-> Idle, base |-> <<>>, cursor |-> None]
    /\ UNCHANGED <<stored, server, events, loop, status, current, cache, fetch, overlap, focus>>

-----------------------------------------------------------------------------
(* The stream: useChatStream. *)

Patched(items) == cache' = [cache EXCEPT !.loaded = TRUE, !.items = items]

\* send; the input is disabled while a turn is streaming.
Send(k) ==
    /\ status # "streaming"
    /\ loop[k] = "none" /\ \A j \in 1 .. k - 1 : loop[j] # "none"
    /\ status' = "streaming"
    /\ current' = k
    /\ loop' = [loop EXCEPT ![k] = "open"]
    /\ server' = [server EXCEPT ![k] = "posted"]
    /\ Patched(Append(cache.items, <<"temp", k>>))
    /\ overlap' = (overlap \/ fetch.at # "none" \/ earlier.load.at # "none"
                           \/ \E j \in Turns : loop[j] = "open")
    /\ UNCHANGED <<stored, events, fetch, earlier, focus>>

\* Mutant: nothing is made of a stream that ends without its terminal event.
EndLoopAsItIs(k, st) ==
    /\ loop' = [loop EXCEPT ![k] = "closed"]
    /\ status' = st
    /\ current' = 0
    /\ IF status' = "done" THEN UNCHANGED <<fetch, overlap>>
       ELSE /\ Refetch
            /\ overlap' = (overlap \/ server[k] \in {"posted", "answering"}
                                   \/ earlier.load.at # "none")

\* finally: a status that is still streaming becomes an error, and unless the turn
\* is done the list is fetched again.
EndLoop(k, st) ==
    /\ loop' = [loop EXCEPT ![k] = "closed"]
    /\ status' = IF st = "streaming" THEN "error" ELSE st
    /\ current' = 0
    /\ IF status' = "done" THEN UNCHANGED <<fetch, overlap>>
       ELSE /\ Refetch
            /\ overlap' = (overlap \/ server[k] \in {"posted", "answering"}
                                   \/ earlier.load.at # "none")

Reads(k, event) ==
    /\ loop[k] = "open" /\ events[k] # <<>> /\ Head(events[k]) = event
    /\ events' = [events EXCEPT ![k] = Tail(@)]

\* Mutant: the real message is appended, the optimistic one is left.
MessageStartAppends(k) ==
    /\ Reads(k, "message_start")
    /\ Patched(Append(cache.items, <<"user", k>>))
    /\ UNCHANGED <<stored, server, loop, status, current, fetch, earlier, overlap, focus>>

\* Mutant: the real id is put after the prefix of the temporary one.
MessageStartKeepsPrefix(k) ==
    /\ Reads(k, "message_start")
    /\ Patched([i \in DOMAIN cache.items |->
                  IF cache.items[i] = <<"temp", k>> THEN <<"temp-user", k>> ELSE cache.items[i]])
    /\ UNCHANGED <<stored, server, loop, status, current, fetch, earlier, overlap, focus>>

\* The optimistic question gets the id it is stored under.
MessageStart(k) ==
    /\ Reads(k, "message_start")
    /\ Patched([i \in DOMAIN cache.items |->
                  IF cache.items[i] = <<"temp", k>> THEN <<"user", k>> ELSE cache.items[i]])
    /\ UNCHANGED <<stored, server, loop, status, current, fetch, earlier, overlap, focus>>

Done(k) ==
    /\ Reads(k, "done")
    /\ Patched(Append(cache.items, <<"assistant", k>>))
    /\ status' = "done"
    /\ UNCHANGED <<stored, server, loop, current, fetch, earlier, overlap, focus>>

\* Mutant: the text streamed so far is kept in the list as an answer.
ErrorKeepsText(k) ==
    /\ Reads(k, "error")
    /\ Patched(Append(cache.items, <<"assistant", k>>))
    /\ status' = "error"
    /\ UNCHANGED <<stored, server, loop, current, fetch, earlier, overlap, focus>>

Error(k) ==
    /\ Reads(k, "error")
    /\ status' = "error"
    /\ UNCHANGED <<stored, server, loop, current, cache, fetch, earlier, overlap, focus>>

\* The POST is answered with an error: streamChat throws.
Rejected(k) ==
    /\ Reads(k, "rejected")
    /\ EndLoop(k, "error")
    /\ UNCHANGED <<stored, server, cache, earlier, focus>>

\* The response ends.
EndOfStream(k) ==
    /\ loop[k] = "open" /\ server[k] = "over" /\ events[k] = <<>>
    /\ EndLoop(k, status)
    /\ UNCHANGED <<stored, server, events, cache, earlier, focus>>

\* The connection breaks (error), or the user aborts (idle).
Leave(k, st) ==
    /\ loop[k] = "open"
    /\ events' = [events EXCEPT ![k] = <<>>]
    /\ EndLoop(k, st)
    /\ UNCHANGED <<stored, server, cache, earlier, focus>>

Disconnect(k) == Leave(k, "error")
Abort(k)      == current = k /\ status = "streaming" /\ Leave(k, "idle")

-----------------------------------------------------------------------------
Server(k) == Accept(k) \/ Reject(k) \/ Finish(k) \/ Break(k) \/ Abandon(k) \/ Stop(k)
Window(k) == MessageStart(k) \/ Done(k) \/ Error(k) \/ Rejected(k) \/ EndOfStream(k)
Query     == FetchAnswered \/ FetchArrives \/ EarlierAnswered \/ EarlierArrives

Next ==
    \/ \E k \in Turns : Server(k) \/ Window(k) \/ Send(k) \/ Disconnect(k) \/ Abort(k)
    \/ Query \/ FetchFails \/ EarlierFails \/ Focus \/ LoadEarlier

Spec == Init /\ [][Next]_vars

\* The server ends a turn (the provider's timeouts see to it), the window reads
\* what arrives, requests are answered.  Nothing obliges the user or the network.
FairSpec ==
    /\ Spec
    /\ \A k \in Turns : WF_vars(Server(k)) /\ WF_vars(Window(k))
    /\ WF_vars(Query)

-----------------------------------------------------------------------------
(* Properties. *)

Shown == ToSet(cache.items)

AtRest ==
    /\ \A k \in Turns : server[k] \in {"none", "over"} /\ loop[k] # "open"
    /\ fetch.at = "none" /\ earlier.load.at = "none"

\* The list shows the newest messages, all of those since the first one it shows,
\* and offers to load more exactly when there are more.
Aligned ==
    LET n == Len(cache.items) IN
    /\ n <= Len(stored)
    /\ cache.items = SubSeq(stored, Len(stored) - n + 1, Len(stored))
    /\ cache.earlierCursor = IF n = Len(stored) THEN None ELSE cache.items[1]

\* useMessages.ts:41: a page, a refetch and a finished turn compose: as long as no
\* two of them have overlapped (nor a turn that was left and the server's end of
\* it) and the query has not failed, the list is aligned with the server whenever nothing is under way.
AlignedUnlessOverlapped == AtRest /\ ~overlap => Aligned

\* useChatStream.ts:130: after an error or an abort the list is aligned with the
\* server, the stored partial answer included.
AlignedAfterAbort == AtRest /\ status \in {"idle", "error"} => Aligned

\* useChatStream.ts:72: the question appears once, under its temporary or its real
\* id, whatever is refetched or loaded while it is on its way.
QuestionOnce ==
    \A i, j \in DOMAIN cache.items :
        /\ cache.items[i][1] \in {"temp", "user"} /\ cache.items[j][1] \in {"temp", "user"}
        /\ cache.items[i][2] = cache.items[j][2]
        => i = j

\* Except for an optimistic question, nothing is shown that is not stored.
ShowsOnlyStored == \A m \in Shown : m[1] = "temp" \/ m \in ToSet(stored)

\* useChatStream.ts:120: the window never stays in streaming.
StreamingEnds == status = "streaming" ~> status # "streaming"
=============================================================================
