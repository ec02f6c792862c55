# atlas_knowledge: verification project

The repository is a chat application over a private document collection: a
FastAPI backend, Celery workers, PostgreSQL, Redis (broker and cache), an object
storage on the local file system and a Vue frontend.  This directory holds TLA+
models of its stateful parts, the TLC configurations that check them and TLAPS
proofs about them.  Paths below are relative to `src/backend/app/` unless they
start with `frontend/`.

## 1. Inventory

| Component | State | Operations | Interacts with |
|---|---|---|---|
| Ingestion pipeline (`application/document_service.py`, `application/ingestion_service.py`, `workers/tasks/ingest.py`, `infrastructure/tasks/celery_queue.py`) | `documents.status`, `ingestion_jobs`, `document_chunks`, the messages in the broker | upload, retry, delete; parse, chunk, embed, purge; task retries | PostgreSQL, storage, broker, embedding provider |
| Object storage (`infrastructure/storage/local_fs.py`) | `documents/<id>/original.*`, `normalized.json` | put, get, delete_prefix | written by requests and workers |
| Upload and deduplication (`document_service.upload`) | `documents (uploaded_by, checksum)`, `knowledge_sources` | upload, lazy creation of the default source | ingestion |
| Chat turn (`application/chat_orchestrator.py`, `api/routers/chat.py`) | `messages`, `message_citations`, `model_usage_logs`, the event queue of one response, detached tasks | one turn: TXN A, retrieval, stream, TXN B; cancellation | LLM, retrieval, titles |
| Conversations and titles (`application/conversation_service.py`, `workers/tasks/titles.py`) | `conversations.title`, `updated_at` | create, rename, delete, generated title | chat turn |
| Authentication (`application/auth_service.py`) | `users`, `refresh_tokens` (family, revoked_at, replaced_by) | register, login, refresh, logout | frontend client |
| Frontend client (`frontend/src/api/client.ts`, `stores/auth.ts`) | access token, the refresh in flight | request with one refresh and one retry | authentication |
| Frontend chat (`useChatStream.ts`, `useMessages.ts`), documents page (`useDocuments.ts`) | query caches, the streaming message | send, stop, load earlier, poll | chat turn, ingestion |
| Retrieval (`application/retrieval_service.py`, `infrastructure/vector/pgvector_index.py`, `application/prompts.py`) | none (reads chunks) | vector and keyword search, rank fusion, prompt budget | chat turn |
| Embedding provider and cache, LLM provider | cache entries in Redis | one call; an event stream | ingestion, chat turn |
| Parsing and chunking (`infrastructure/parsing/`) | none | blocks of a file, chunks of blocks | ingestion |
| Pagination (`core/pagination.py`) | none (opaque cursors) | page after a key | lists |
| Routers, middleware, errors, wiring, migrations, scripts, pages | none of their own | | |

What is hard, by component (the list with line numbers is `hazards` in
`PROJECT.json`):

* **Ingestion.** Three stages in separate tasks, each a sequence of commits,
  file accesses and publishes that may fail or stop between any two; requests
  that race the workers and each other; two layers of retry (the shell's and
  Celery's); deletion under a running stage.  Correct means: no document is left
  behind in an intermediate status, a stage finds its input, stages of a
  document do not overlap, ready means searchable, nothing is embedded twice,
  and a restart resumes at the stage that failed.
* **Upload.** Concurrent uploads of the same content and of a first document,
  with deletions and purges in between.  Correct means: every document has its
  original, an object without a row has a known cause, a user has one default
  source, and nobody's document is left unprocessed.
* **Chat turn.** Cancellation at every await, a provider that stops or fails
  after any number of deltas, two turns of one conversation, deletion while an
  answer streams, persistence detached from the request.  Correct means: one
  terminal event, what the user has seen is what is stored, every turn is
  accounted for.
* **Titles.** A slow job that must not overwrite a rename.
* **Authentication.** Concurrent refreshes, replays inside and outside the grace
  window, logout during a refresh, several tabs on one cookie.  Correct means: the
  cookie stays usable, no race is taken for a theft, nothing is live after logout.
* **Frontend.** One refresh for concurrent 401s; caches written after an await,
  by a query, by a page that was asked for and by the stream of an answer.
* **Retrieval.** Two statements with a snapshot each, while documents come and go;
  numbers that must mean the same in prompt, event and database.
* **Chunking and embedding.** State that outlives a flush (heading, overlap),
  limits tested before something is added, batches answered in any order.

## 2. Plan

| Order | Module | Contents | State |
|---|---|---|---|
| 1 | `Ingestion`, `MCIngestion` | requests, queue, workers, failures | done |
| 1 | `IngestionProofs` | types, presence of the stage inputs | done |
| 2 | `ChatTurn`, `TurnProtocol`, `MCChatTurn` | orchestrator, router queue, detached persistence, conversations and titles; abstract: the event sequence a client sees | done, but for the history a prompt is built from |
| 3 | `Session`, `MCSession` | token families with the grace window, and on top of them the tabs of one browser: guard, single-flight refresh, login, logout | done |
| 4 | `Upload`, `MCUpload` | deduplication, default source, orphans | done |
| 5 | `ChatView`, `MCChatView` | the window of a conversation: query, earlier pages, stream; keyset pages of a list that grows | done |
| 6 | `Indexing`, `MCIndexing` | normalisation, chunking, embedding batches | done |
| 6 | `Retrieval`, `MCRetrieval` | hybrid search, fusion, prompt budget, numbering | done |
| 7 | `UploadProofs` | types, originals, orphans, the default source | done |
| 7 | `ChatTurnProofs` | types, one answer and one log, keys, titles; what is stored is what was sent, and the safety half of the refinement | done |
| 8 | `IngestionSafetyProofs` | no work lost; stages serialised, with the status machine | done |
| 8 | `SessionProofs`, `ChatViewProofs`, `RetrievalProofs` | all the safety invariants of these modules | done |
| 9 | `IndexingProofs` | the sizes, the text, the sections and the vectors of the chunks | done |

Every safety property the passing runs check is a theorem of the specification, with no
hypothesis but the assumptions on the constants: type correctness of each module, then
the invariants and action properties of `Ingestion`, `Upload`, `ChatTurn`, `Session`,
`ChatView`, `Retrieval` and `Indexing`, and the safety half of the refinement of
`TurnProtocol`.

How the modules meet.  Each models one component in full and its neighbours by
what they may do to it: `Upload` has a worker that makes a queued document ready or
failed (`Ingestion` has the stages), `Ingestion` has an upload that always creates,
`Retrieval` has documents that become ready, are set back, chunked again or deleted at
any moment,
`Indexing` is what the stages of `Ingestion` do to the data, without their
transactions, `ChatView` has a server that starts, finishes, breaks off or abandons
a turn (`ChatTurn` has the steps), and `ChatTurn` a client that may leave at every
await.  `Session` composes the two sides it is about, the server's token rows and
the browser's tabs.  `TurnProtocol` is what a chat turn promises its client, and is shown
to be implemented; what `Ingestion` promises a document is the documented state machine,
a property of the module itself (`Transition`).

## 3. Ingestion

### State and actions

`status` and `jobs` are the columns `documents.status` and
`ingestion_jobs.status`; a document that has no row is `absent` or, for good,
`deleted`.  `todo` holds the chunks whose `embedding` is NULL and `gen` counts
the replacements of the chunk rows, which stands for the identity of their ids:
`set_embeddings` of ids that were replaced updates nothing.  `files` is the
object storage, `queue` the broker as a bag (a retry has a countdown and workers
run concurrently, so no order of delivery is assumed).  `worker[w]` and
`request[r]` say what a process is executing: the field `pc` names the next
commit, file access, provider call or publish.

One action is one such step together with everything the code does up to it:
`Claim` is the conditional UPDATE and the job upsert in one transaction,
`ReplaceChunks` deletes and inserts the chunks and commits the success of the
stage, `ListUnembedded` / `CallProvider` / `StoreEmbeddings` are one round of the
embedding loop.  `RestartCheck`, `RestartStage`, `RestartWrite`, `Refresh` and
`EnqueueStage` are the statements of `retry` and of a re-upload of failed
content, kept apart because other requests and workers run between them.  The
shell of the task is `Retry` and `ShellFail`.

Failures are actions of their own, enabled where the code can meet them, each
guarded by its kind in `FaultKinds` and by `MaxFaults` (the soft limit strikes once in the
life of a task: `_fail` called because of it is not interrupted again):

| kind | action | what the code does |
|---|---|---|
| `parse_io`, `chunk_io` | `IoError` | `TransientStageError`, task retry |
| `provider` | `ProviderTransient` | the same |
| `db` | `DbError`, `RequestCrash` | `SQLAlchemyError`: task retry; a request answers 500 |
| `shell_db` | `ShellDbError` | swallowed by `_fail` of the shell |
| `broker` | `EnqueueStageFails`, `EnqueuePurgeFails`, `EnqueueNextFails` | the publish raises, with or without the message in the broker: failed, ignored, failed by the shell |
| `retry_publish` | `RetryPublishFails` | Celery rejects the task |
| `timeout` | `SoftTimeout`, `ShellTimeout` | inside the service: failed by the shell; inside `_fail` of the shell it is swallowed, inside `task.retry` it leaves the handler, and the task ends |
| `crash` | `WorkerCrash`, `RequestCrash` | the process is gone |

A permanent failure (a missing object, a file that cannot be parsed, a refused
embedding request) is not a fault but an outcome of the step, and goes to
`MarkFailed`.

Decisions a reader of the code will ask about:

* Celery acknowledges a message when it is delivered (`acks_late` is not set),
  so a worker that dies loses it, and it is never delivered twice; countdowns
  stay below the broker's visibility timeout.
* `Task.max_retries` is Celery's default of 3 for the stages, which the
  decorators do not set.  `task.retry` beyond it raises the original error out of
  the handler: the second disjunct of `Retry`.
* A commit whose answer is lost is `DbError` at the following step: the commit
  took effect and the code sees an error.
* `_claim` locks the document before the job, `_succeed` and `_fail` the other
  way round: `TransactionAborted` is the deadlock, which PostgreSQL ends by
  aborting one of the two, and the conflict of two inserts of the same chunk.
* An UPDATE of a row that was deleted: `set_status` affects no row, but the job
  upsert before it breaks its foreign key, so `Succeed`, `ReplaceChunks` and
  `MarkFailed` end in a retry; the ORM's update in a request raises.
* Merged with the step next to them, because nothing else can tell: the read of
  a document and its deletion in `delete` (two racing deletes purge twice, which
  is idempotent), `KnowledgeSourceRepository.get` in chunk.
* Left out: attempts counters, timestamps, error texts, mime types, the content
  of chunks.

Two variables record the past of a document and are read by the properties only:

* `stranded`: the process that was bound to move the document on let go of it.  The
  places are `WorkerCrash`, `RequestCrash` (a request that dies or answers 500 after its
  commit), `ShellDbError` and `ShellTimeout` (an error or the time limit in the shell's own
  handling), `RetryPublishFails`, and two disjuncts of `Retry`: Celery's limit is
  reached before the shell's, or the retried stage cannot claim the status it has set.
  A document is added only when the process that ends was its owner.
* `overtaken`: somebody acted on the document after what he had read had changed.  The
  places are `RestartWrite` while another restart that found the document failed has yet
  to write, `EnqueueStageFails` and `EnqueueNextFails` where the broker has the message
  although the publish raised, and `DbError` and `SoftTimeout` at the `exit` of a task,
  which has settled the document or handed it on and is retried or failed all the same.

They are the answer to what a property can claim of code that does strand and overtake
documents: the causes are named, one by one and at the step that is one, and for
everything else the property holds under every failure.  Were one of the causes missing,
TLC would refute the property and the proof would fail.

### What the runs show

| run | instance | shows |
|---|---|---|
| `ingest_faults` | 1 document, 2 workers, 2 requests, all 9 kinds of failure, 2 of them, 1 restart, 0 or 2 chunks in batches of 1 | `TypeOK`, `StageInputPresent`: whatever fails, a later stage finds `normalized.json`; `WorkNeverLost`: an intermediate status has a message, worker or request that will act on it, or the document is stranded; `ReadyIsComplete`, `NeverReembeds`, `JobsAreAPrefix`, `StatusFollowsStateMachine`, of documents that are not overtaken |
| `ingest_recovery` | the same workers and requests, 2 restarts, 1 chunk, 1 failure of the kinds the code answers and those in the shell's answer (`parse_io`, `chunk_io`, `provider`, `broker`, `timeout`, `shell_db`), with fairness | `SettlesUnlessStranded`: an intermediate status ends, or the document is stranded; `OneExecution`, `StatusFollowsStateMachine`, of documents that are not overtaken, where two restarts may race |
| `parse_retry` | 1 worker, 1 request, 1 storage error in parse, with fairness | violated: `Settles` |
| `embed_retry` | 1 worker, 1 request, 2 errors of the provider, with fairness | violated: `Settles` |

The two violations are what `ingest.py:9` says of every document, that it never stays in an
intermediate state, without the exception:

* `parse_retry`: a storage error in parse, and the retried claim does not accept
  `parsing`; the document stays there.
* `embed_retry`: embed's own limit (5, `ingest.py:7`) exceeds Celery's `max_retries` (3),
  which raises out of the handler; the document stays in `embedding`.

Stages of a document do overlap once it is overtaken, and it may then become ready with
chunks that have no vector.  Both passing runs reach such states: the two restarts of
`ingest_recovery` race, and in `ingest_faults` a publish that raised although it took
effect, or a task that fails after it has handed its document on, is followed by a
restart.  The properties end for a document at the step that overtakes it.  The
serialisation up to there is not the claims' work alone, since chunk and embed may claim
a document they have already claimed: it takes the test of `failed` before a restart
(dropped by the mutant of
`OneExecution`), the delivery of a message once (dropped by
that of `NeverReembeds`) and the conditional claim (that of
`StatusFollowsStateMachine`).

`CHECK_DEADLOCK FALSE` everywhere: the system stops when its documents are
settled and the bounds on failures and restarts are used up.

**Bounds.** Documents do not share state (each row, prefix and message belongs to
one), so one suffices.  Two workers and two requests are what every race here
needs; three of either would repeat them.  Two failures (`ingest_faults`, 1 378 508
distinct states) reach the failure of a failure's handling and the exhaustion of a
limit; two restarts (`ingest_recovery`, 868 750) race each other, there with one failure.
The properties of documents that are not overtaken were also checked with two restarts
and one failure of any kind (1 198 267 states).  `MCMaxRetries` keeps the order of the limits of
the code (parse and chunk as Celery's, embed above it) at 1, 1, 2 against 1;
`ingest_recovery` has `MCWithinCelery`, a limit of 0 for chunk and 1 elsewhere, so that one
failure is both retried and final.  Two chunks in batches of one make the embedding
loop run twice and be interrupted between; 0 is an empty document.  `gen` and
`faults` are unbounded in the specification and bounded by `MaxRestarts`, `MaxFaults` and
the retries.
Symmetry of workers and of requests is used for invariants only.

**Fairness.** `WF` on the next step of each request and of each worker, receiving
included: a process that runs goes on (each step is a call with a time limit or
a local computation) and the broker hands out what it holds.  Nothing is assumed
of users, of failures or of the choice between the outcomes of a provider call.

### What is proved

`IngestionProofs`, for every set of documents, workers and requests, any retry
limits and any choice and number of failures, from `ConstantsAssumption` alone:

* `TypeCorrect`: `Spec => []TypeOK`.  Inductive with `WorkerShape`: which task is
  at which step (a `replace` belongs to chunk, and so on), without which
  `NextStatus[task]` would not be a status.
* `StageInputAlwaysPresent`: `Spec => []StageInputPresent`.  The invariant is not
  inductive: a chunk message could appear from nowhere.  `StageInputInv` adds
  that every trace of a later stage (a status, a job row, a message, a worker's
  task, the stage a request is about to restart) is evidence that parse wrote
  its output or that the document is deleted (`ParsedBefore`), and that a purge
  exists only for deleted documents (`PurgeAfterDelete`).  One lemma per conjunct
  shows it preserved, from lemmas that say which actions change a status, add a
  job, publish a message, or change what a worker or a request is about.  That
  a deleted document stays deleted (`DeletedForGood`) and that its output is not
  taken away before (`ParsedStable`) carry the argument.

`IngestionSafetyProofs`, for the same constants and every kind and number of failures,
with no further hypothesis:

* `NoWorkLost`: `Spec => []WorkNeverLost`.  Inductive with the types and with "a request
  that creates a document is about parse"; the argument follows the holder of a
  document from the request to the message, to the worker, and on to the next message,
  and shows of each step that ends a holder that the document is settled, handed on or
  stranded.
* The other five rest on one invariant, `SerialInv` (`SerialInvariance`), which says of
  every document that is not overtaken: it has at most one token, which is a message, a
  worker or a request (`OneToken`); the token tells the status, the jobs and the missing
  vectors of its document (`Links`); what a restart under way has read is still so
  (`Restarts`); and without a token the row alone does (`Row`).  A step is shown to move
  the token of one document (`HolderReads`, `HolderWrites`, `HolderPublishes`,
  `HolderFails`, `HolderRequest`, `RestartTakesOver`) and to leave the others alone
  (`OtherDocument`).  From it follow `OneWorkerAtATime` (`OneExecution`),
  `ReadyMeansEmbedded` (`ReadyIsComplete`), `EmbeddedOnce` (`NeverReembeds`),
  `JobsTellTheStage` (`JobsAreAPrefix`) and `StatusMachine` (`StatusFollowsStateMachine`).
  `JobsTellTheStage` says that a restart skips no stage, not that it repeats none: a
  stage whose successor could not be published is marked failed and runs again.

Only model-checked: `SettlesUnlessStranded`, which needs fairness.

## 4. Chat turn

### State and actions

A turn is one `POST /conversations/{id}/messages`.  `turn[t]` is the request with
its orchestrator: `pc` names the await it stands at (or, before the first event,
the statement of TXN A), and an action runs from one await to the next.  `out[t]`
are the events yielded; the queue of the router is unbounded and first in first
out, so the client reads a prefix of it.  `question`, `answer` and `usage` are the
rows of `messages` (by role) and `model_usage_logs`; citations are a field of the
answer because they are written in its transaction.  `background` holds the turns
whose partial answer a detached task is about to store.  `title` is the
conversation's row; `titleQueue` and `titling` are the title tasks before and
after their read.

* A turn starts with `Send`, `Load` (ownership, sources), `Insert`, `Commit`,
  apart from each other because a deletion or a second send comes between.  An
  uncommitted insert holds its `client_message_id` (another insert waits,
  `KeyFree`) and, by its foreign key, the conversation (`Delete` waits).
* TXN B is one commit: `Store` with its constraints (`CanInsert`), `StoreFails`
  where a constraint or a failure stops it or its answer is lost.
* `task.cancel()` reaches the orchestrator at the await it stands at, so
  a disconnect is one action per kind of await: nothing to store (`LeaveEarly`),
  the handler of the stream (`LeaveStream`, `LeavePersistError`), or none
  (`LeavePersist`).  A transaction cancelled at its commit took effect or did not
  (`CutShort`).  A response that is cancelled before its producer has run leaves
  the generator at `message_start`, which is `LeaveEarly` too.
* The branch for `GeneratorExit` is not modelled: the router never closes the
  generator while it is inside the stream; only tests do.
* `ProcessStop` ends every request and every detached task: the shutdown waits
  for none (`drain_background_tasks` is called by tests only).
* Left out: the history and its limit, token counts, `updated_at`, the
  heartbeat (a timeout of `queue.get` loses no event).

`TurnProtocol` is the abstract specification: message_start, at most one
citations, deltas, one terminal event; `Stage` is the refinement mapping.

### What the runs show

| run | instance | shows |
|---|---|---|
| `chat` | 2 turns, 1 conversation, 1 `client_message_id`, 1 delta, 1 failure of any kind, with fairness | `TypeOK`, `OneAnswerOneLog`, `StoredIsWhatWasSent`, `DoneMeansStored`, `QuestionAskedOnce`, `NothingLostSilently`, `UserTitleKept`; `ImplementsProtocol`: order of events, one terminal event, and it comes |
| `txn_b_disconnect` | 1 turn, no failure | violated: a client that leaves during TXN B loses the whole answer; only the stream's own try hands it to a detached task (`chat.py:74`, `chat_orchestrator.py:223`) |

`NothingLostSilently` is the promise `txn_b_disconnect` refutes without the case that
breaks it, and without a stop of the process.

**Bounds.** Turns interact only through a conversation (its deletion, its title)
and a key, pairwise, so two suffice; a turn may end before or after its delta, so
one tells no text, a partial text and the whole apart.  The same properties were
also checked with `MaxFaults = 2` (a failure of the detached task after another
one; 1.5 million states) and with `MaxDeltas = 2` (1.8 million), without error.
`CHECK_DEADLOCK FALSE`: every turn ends and the conversations are deleted.

**Fairness.** `WF` on the next step of each request and of each detached task:
the event loop runs what can run, provider reads and statements have timeouts,
and an answer has a maximal length (`MaxDeltas` stands for `max_tokens`).
Nothing is assumed of clients, users, title workers or failures.

### What is proved

`ChatTurnProofs`, for every set of turns, conversations and keys, any length of an
answer and any choice and number of failures.  Lemmas first put the actions into
classes, by what a step may do to one turn and to the rows: it asks (`Asks`), goes on
without touching a row (`Advances`), stores its question (`Begins`) or is refused
(`Refuses`), writes its answer and log (`Answers`), is left by its client (`Leaves`), or
goes on detached (`Detached`); the user and the title worker change titles (`Retitles`)
or delete (`Delete`), and the process stops (`Stops`).  `Classes` says that these
are all, and every invariant is then shown class by class.

* `TypeCorrect`: `Spec => []TypeOK`.  Inductive once a request that was sent has a
  conversation.
* `AnsweredOnce`: `Spec => []OneAnswerOneLog`.  The invariant is not inductive; `LogInv`
  adds what the two ways of storing an answer, the turn's and the detached task's,
  rely on.  `FreshBefore`: nothing is written for an answer before its turn comes to
  it, so the first write is the first.  `BackgroundEnded` and `BackgroundOwes`: a
  detached task belongs to a turn that has ended and has no log yet, or nothing
  left that it could store, so it does not log twice.  `QuestionThere`, with
  `AskedLater` and `ConvKnown`: where an answer is about to be stored its question is
  there, or the conversation is deleted and does not come back.
* `AskedOnce`: `Spec => []QuestionAskedOnce`.  Inductive with `OneHolder`: of the turns
  of one key at most one has its question stored or is at the commit of TXN A, which
  is what the unique index does to the second.
* `TitleStays`: `Spec => UserTitleKept`.  A step lemma for every action that writes a
  title.

The second part of the module is about the events.  `StreamInv` says of
each turn: where it stands in the stream agrees with the events sent (`Opening`); the
deltas among them are those counted (`Counted`); a row is stored with that text and
with citations exactly if they were announced (`Matches`); done belongs to a complete
row (`DoneKept`); and text that was streamed is stored, about to be, or excused
(`TextKept`).  Counting the deltas of a sequence that grows by one event
(`CountAppend`) is shown from the cardinality of a set of positions, without induction.

* `StoredAsSent`, `DoneIsStored`, `NothingLost`: `Spec => []StoredIsWhatWasSent`,
  `[]DoneMeansStored` and `[]NothingLostSilently`.
* `FollowsProtocol`: `Spec => Protocol!Spec`.  Every step of the system is, for every
  turn, a step of `TurnProtocol` or leaves its stage alone.

Only model-checked: the progress half of `ImplementsProtocol`, that a terminal event
comes.

## 5. Sessions

### State and actions

`rows` is `refresh_tokens` in the order of the commits: the family of a row and
whether it is revoked, where `"grace"` is a row that was replaced less than 60
seconds ago.  `cookie` is the row whose token the browser holds, `net` the requests
to `/auth` on their way, `tab[t]` the page a tab shows, its access token and
`refreshInFlight`, `call[c]` an API request and the access token it carries.  An
access token has the number of the row it was issued with; `lapsed` says up to which
one they have expired.  `past` records what happened to a family (logged out, logged
out while a refresh was between its read and its write, taken for a replay, an
answer lost) for the properties.

`AuthService.refresh` is two actions, because nothing locks the row: `RefreshRead`
decides by what it reads, `RefreshRotate` and `RefreshReplayed` write what was
decided.  `LogoutRead` and `LogoutRevoke` likewise.  In a tab, `CallRefused` is the
401 branch of `sendWithRefresh` and of `streamChat`, which join the refresh under
way or start it; `RefreshGranted` and `RefreshRefused` are its outcomes with what the
waiting calls do; `OpenTab` is `main.ts`, where the router is installed before the
session is restored.  `Lose` and `CloseTab` are broken connections and reloads: the
server may or may not have seen the request, and a rotated token may never arrive.

Assumed: a request that carries a replaced token is handled, and its answer
delivered, within the 60 seconds (`GraceEnds`); the access tokens expire in the order
of issue; the cookie does not expire by itself (30 days).  Left out: registration,
passwords, inactive users, the hash of a token.

### What the runs show

| run | instance | shows |
|---|---|---|
| `session` | 2 tabs, of which one makes an `apiFetch` and a `streamChat` call, 1 login, 1 expiry, 1 lost answer or closed tab | `SingleFlight`, `CookieIsCurrent`, `NoRaceIsReplay`, `LogoutEndsFamily` |
| `reload_login` | the same | violated: a tab reloaded on a page of the application, with a session, ends on the login page |

`reload_login`: `app.use(router)` (`frontend/src/main.ts:13`) starts the initial navigation at
once, before `refreshSession` (`frontend/src/main.ts:16`) has been awaited, so the guard sees an
empty store and redirects to `/login`; the comment of the guard
(`frontend/src/router.ts:34`) says the session has been restored before.

**Bounds.** Families do not touch each other but through the cookie, and one login
lets refresh, logout and loss meet in every order.  Two tabs are what a race on
the cookie needs; the second only refreshes at its start.  One call of each client
function is what joining a refresh needs.  No fairness is assumed and nothing is
claimed to happen; that no waiting call is left behind is part of `SingleFlight`.
`CHECK_DEADLOCK FALSE`: with all bounds used up everything may be closed.

### What is proved

`SessionProofs`, for every set of tabs and calls and any number of logins, expiries and
lost answers.  The actions of the server fall into a few kinds: a request is
answered (`Handles`), goes on to its write (`Decides`), is refused, logs in, rotates or
revokes; those of the browser send, receive, drop or do nothing outside a tab.  Each part
of `Inv` is shown kind by kind:

* `TypeInv`: the types, and that a request refers to rows that exist.
* `FlightInv`: at most one refresh that a tab waits for is in flight, `refreshing` says
  so, and a call waits only for that one (`OneFlight`); a closed tab waits for nothing
  (`ClosedQuiet`); and two requests of a tab can be told apart (`ToldApart`), because a
  request has the number of the losses before it and only a loss leaves one behind.
* `TokenInv`: a token on its way to a tab is nowhere else (`IssuedOnce`) and was not
  replaced (`IssuedLive`); if the cookie's row is in grace, the answer that replaced it
  was lost or is on its way (`GraceExplained`); a family is revoked, or about to be,
  only if an answer was lost or its user logged out (`YesExplained`,
  `RevokingExplained`); a refresh a logout did not wait for is remembered
  (`RotatingRaced`), and only by such a one is a token live after a logout
  (`LiveNotEnded`).

Theorems: `TypeCorrect`, `OneRefreshAtATime` (`SingleFlight`), `RacesAreNotReplays`
(`NoRaceIsReplay`), `LogoutRevokes` (`LogoutEndsFamily`) and `CookieStaysUsable`
(`CookieIsCurrent`): all the invariants of the run.

## 6. Upload

### State and actions

A document is named after the upload that would create it.  `doc` is its row,
`files` the originals in the storage, `sources` the default sources (their owner and the
upload that created them), `queued` and `purging` the messages.  `up[u]` is a
request: user, content, the source and the document it works on, and `pc`, the
statement it stands before.  Every await of `DocumentService.upload` is one action:
`Lookup`, the source (`ResolveSource`, `CreateSource`, `RereadSource`), `Put`, `Insert`,
then for the loser of the unique index `Cleanup` and `Reread`, and for a failed
duplicate `Restart`, `Refresh`, `Enqueue`.  The unique indexes are what
`CreateSource` and `Insert` test at their commit.  `Dies` is any exception the code
does not handle and a stop of the process.  `Process`, `Delete` and `Purge` are the
neighbours.

### What the run shows

| run | instance | shows |
|---|---|---|
| `upload` | 3 uploads, 2 users, 1 content, 1 failure, with fairness | `RowHasFile`, `OrphansHaveACause`, `OneDefaultSource`; `Completes` |

**Bounds.** A conflict has a winner and a loser; the third upload comes after the
winner was deleted, or belongs to the other user.  Two contents would be two
independent races, but for the source, which three uploads of one content contend
for as well.  No symmetry is used, because a liveness property is checked.

**Fairness.** `WF` on a request that has begun, on the worker and on the purge.

### What is proved

`UploadProofs`, for every set of uploads, users and contents and any number of
failures:

* `TypeCorrect`: `Spec => []TypeOK`.  Inductive with `Complete`: a request under
  way has a user, and one that restarts or announces a document knows which one.
* `RowAlwaysHasFile`: `Spec => []RowHasFile`.  Inductive with `NoRowBefore` (no row
  before the insertion; needed at `Cleanup`, which must not take the original of a
  document that exists), `PutBefore` (the original is there at the insertion) and
  `PurgeAfterDelete` (a purge belongs to a deleted document).
* `OrphansExplained`: `Spec => []OrphansHaveACause`.  Inductive with the types.
* `OneDefaultSourceAlways`: `Spec => []OneDefaultSource`.  Inductive with
  `SourceResolved`: the source a request carries from `Put` on is stored and its user's.

The leaves rest on lemmas about the three ways a request moves (`GotoMoves`,
`ReturnMoves`, `ReplaceType`) and about steps that leave rows and files alone
(`FileMove`) or change a status only (`FileStatus`).  `Completes` is model-checked.

## 7. The window of a conversation

### State and actions

`stored` is the list of messages on the server and `server[k]` how far turn `k` is.
`cache` is the query's data (`items` and the cursor of the earlier page), `fetch` the
query function under way, `earlier` a `loadEarlier` with the items and the cursor it
read before its await, `events` and `loop` the stream of a turn, `status` and
`current` those of `useChatStream`.  `Page` is the keyset page: `limit + 1` rows
before the cursor, `limit` kept.  The query library is external: an invalidation cancels
and restarts the fetch (but for the first one), a result replaces the cache, a query that
has failed leaves it.

### What the run shows

| run | instance | shows |
|---|---|---|
| `chat_view` | 2 turns, 3 earlier messages, pages of 2, 1 refetch by focus, with fairness | `AlignedUnlessOverlapped`, `QuestionOnce`, `ShowsOnlyStored`; `StreamingEnds` |

`AlignedUnlessOverlapped` speaks of the state at rest and leaves out runs in which two
writers of the cache overlapped (`overlap`): `loadEarlier` prepends its page to the items it
read before the await, a fetch may replace what the stream has patched.  The code
has no protection there, and Section 10 gives the shortest case.  `QuestionOnce` and `ShowsOnlyStored`
hold in all runs.

**Bounds.** Three earlier messages make two pages, so that an earlier page exists and is
shorter than the limit; the second turn is sent after, or while the server still works on,
the first.  **Fairness.** The server ends a turn (timeouts of the provider), the window reads
what arrives, requests are answered; nothing obliges the user or the network.

### What is proved

`ChatViewProofs`, for any number of turns and of earlier messages, any page size and
any number of refetches.  `ViewInv` says what everything under way may know: stored
messages differ and are there when the server has come to them (`StoredOK`), an event
is sent after the row it tells of (`EventsOK`), and the list, a fetched page and an earlier page
(`ListOK`, `FetchOK`, `EarlierOK`) show a message at most once and only what is stored,
or the question that waits for its id.  From it follow `TypeCorrect`, `OneQuestion`
(`QuestionOnce`) and `StoredIsShown` (`ShowsOnlyStored`).

`AlignedAtRest` (`AlignedUnlessOverlapped`) needs to say what the list will be: `Steady`
gives, for every stage of a turn, of a fetch and of an earlier page, how far the list
lags behind the server, and holds as long as no two writers of the cache have
overlapped.  At rest nothing is lagging.  The lemmas on pages (`PageIs`, `PageShows`,
`JoinShows`, `PageAndPage`) are what makes a page prepended to the list a longer slice
of the stored messages.  TLC checked both invariants on `chat_view` (1 596 716 states)
before they were proved.  `StreamingEnds` is model-checked.

## 8. Indexing

### State and actions

One document from the blocks of the parser to the vectors.  A text is a sequence of
characters that remember the block and the place they come from, so that a property
can tell where a chunk's text was; every character is one token (as CJK is in
`tokens.py`), newlines are what the code joins with.  `headings`, `pending`, `prefix`,
`overlap`, `drafts` are the fields of `_Builder`.  `Finalize` is `finalize_document`
with its caps and warnings; `StartSection`, `AddText`, `AddPiece`, `AddTable` and
`FinishChunking` are the builder's operations (`SplitToLimit`, `TailWithin`,
`PackTable` the algorithms under them); `EmbedBatch` is one call of the provider, which
may answer in any order or with rows missing.  A table has one column here.

### What the run shows

| run | instance | shows |
|---|---|---|
| `indexing` | every document of up to 4 blocks out of 10, chunks of 4 tokens with an overlap of 2, batches of 2 | `NothingLost`, `WithinSection`, `VectorsMatchTexts`; sizes in `TypeOK` |

The ten blocks (`MCIndexing`) are headings of two levels, a blank text, texts shorter than a
chunk, exactly as long and longer than a block may be, with and without a sentence end
in them, and tables whose header is all there is, is blank, or is followed by a row
over the limit.  Four blocks reach a heading between texts, a table between texts, and an
overlap that would have to be dropped.  `MaxDoc = 14` is exceeded by some documents.
The sizes are those `estimate_tokens` would compute of the joined text.  They exceed the
target in two ways.  The heading and the overlap are added after the size test; `TypeOK`
therefore speaks of the body and of the overlap, which the code bounds apart.  And neither
`_pending_tokens` (`default_recursive.py:79`, `:97`) nor `pack_table` (`table_row.py:41`)
counts the newlines that join what it counts, four of which make a token: four
pieces of one token under a target of 4 are a chunk of 5.  `Limit` is the target and a
quarter of it, the most that can come to, and a single row of a table may be longer
(it is not split).

Two things the properties take or leave as they are: the text of headings is outside
`NothingLost` (a heading goes into `heading_path` and opens the next chunk of text, and one
that is followed by a table or by another heading is in no chunk's text), and a provider
answers a batch with distinct indexes (`VectorsMatchTexts`).

### What is proved

`IndexingProofs`, for any blocks a parser may return (`RawBlock`, any number, any
lengths), any sizes, limits and batches: the four invariants of the run (137 896
distinct states), each from an inductive one.

* `VectorsBelong` (`VectorsMatchTexts`), from `VectorsInv`: the rows of an answer, put in
  the order of their indexes, are the next texts whatever order they came in
  (`OrderedRow`).  `VectorsInv` also has the types of the parser's blocks and of the
  document, which all the others start from.
* `ChunksKeepToSize` (`TypeOK`), from `SizeInv`: a draft is bounded because what it is
  made of is, so the invariant bounds the pieces still to come and what is pending.
  `SplitIs` is the reason: every piece of `SplitToLimit` fits a chunk and has text
  (`CutInside`: a cut leaves two shorter parts, `CutOnce`: without a newline added).  What
  joining adds is counted by `JoinBreaks` and `NewlinesConcat`: a newline less than
  there are pieces, each of which has a token.  `TailIs` bounds the overlap,
  `PackTableType` the groups of rows.
* `TextIsKept` (`NothingLost`), from `LossInv`: what `NothingLost` says of the ink is
  kept by each algorithm on its own: the pieces of a text put together are the text
  (`SplitIs`), joining them adds newlines only (`JoinedBody`), groups have all rows in
  order (`PackTableKeeps`), a flush ships what was pending (`FlushShips`).  For the
  document, `DocumentIs` and `CutAt` say which blocks are there and which are cut.
* `ChunksWithinSections` (`WithinSection`), from `SectionInv`: a draft is finished long
  after its text was read, so the invariant says of every field of the builder that it
  belongs to the heading read last (`Here`): the pieces, what is pending, the prefix
  and the overlap, which is the end of the draft emitted last (`Carries`).  `StackOK` is
  what makes `heading_path` right: the stack is the path to `Here`, and popping what is
  not above the next heading leaves the path to that one (`PushIs`).

The operators of this module are folds and one recursive function, and what they compute
is a matter of induction.  The library's induction theorems take an operator and cannot be used,
so the arguments look at the least counterexample instead: a fold is unfolded to a
run of partial results (`FoldExists`, `FoldRuns`), a set of sequences that holds the
empty one and is closed under `Append` holds all (`SeqInduct`), and texts shorter than
any bound have their split (`SplitsExists`).

## 9. Retrieval

### State and actions

One turn's search while documents change: `BecomesReady`, `SetBack` (of two racing restarts
the later one overwrites `ready`, Section 10), `ReplaceChunks` (a chunk stage
replaces the rows, under new ids) and `Delete`.  `rows` are the chunks that still have
their row, `found` records which documents were ready when the turn searched.  `Rank` is the first
statement: two legs, each any order of at most `TopK` eligible chunks (an approximate
index may skip some), fused by reciprocal rank; scores are fractions, compared exactly,
and equal scores come in any order.  `Load` is the second statement, which sees a
later state of the database and skips what is gone.  `Prompt` is `rag_system_prompt`
with its budget, and the numbering of the citations.  `Ask` is the check of the
requested sources.

### What the run shows

| run | instance | shows |
|---|---|---|
| `retrieval` | 6 chunks of 4 documents in 4 sources of 2 users, one disabled, one law; 3 per leg, 3 fused, a budget of 4 | `OnlyAllowed`, `DominanceKept`, `CitedAsNumbered` |

Every document starts processing or ready, every set of sources may be asked for, and two
changes of documents (`MaxChanges`) may fall anywhere: before the search, between its
statements or after (4 402 816 distinct states).  One change between the statements is
what a race needs; the second lets a document be set back and chunked again, or two of them
change.  `OnlyAllowed` speaks of what was ready when the turn searched, because the
second statement asks for ids only.
`DominanceKept` is what rank fusion promises without a reference to its formula: a chunk
that is better in both legs is never behind or left out.  Sizes 1 to 3 against a
budget of 4 make the first, the second or the third block the one that does not fit.

### What is proved

`RetrievalProofs`, for any finite set of chunks, any documents, sources, users and sizes,
every RRF constant and all limits: the three invariants of the run
(`OnlyAllowedIsShown`, `DominanceHolds`, `NumbersAgree`).  The inductive invariant
`SearchInv` carries each promise through the steps: of the fused list, of the chunks
loaded, of the blocks.  What the WHERE said when a chunk was ranked is kept by `found`
(`May`), whatever its document has become.

* Fusion: a chunk better in both legs has the higher score (`DominantScoresHigher`, on
  fractions, by the arithmetic of `BeatsInBoth` and `BeatsInOne`), a list whose
  neighbours are in order is in order throughout (`SortedThroughout`), and every chunk of a
  leg is somewhere in that list, so what beats a chunk within the limit is within it.
* The second read: `Nth` enumerates the positions that are still there in their order
  (`NthEnumerates`).
* The budget: `UsedType`, the blocks are a prefix within the budget, and their
  numbers those of the search.

`Least`, that a set of numbers that is not empty has a least element, replaces induction:
each of these arguments looks at the first place where something would go wrong.

## 10. What else the model shows

Deviations met while modelling, which no text of the repository contradicts as plainly as
those of `findings`, or which follow from one of them.  Each is reproduced by checking
the named property with the constants given.

| property | module and constants | what happens |
|---|---|---|
| `Settles` | `MCIngestion`: the constants of `embed_retry` with `FaultKinds = {"broker", "shell_db"}`; `FairSpec` | a failure of the shell's `_fail` is swallowed: neither a message nor the status `failed` is left |
| `Settles` | `MCIngestion`: the same with `FaultKinds = {"broker", "timeout"}`; `FairSpec` | the soft limit strikes in the shell's `_fail`, with the same end |
| `StatusAlwaysFollowsStateMachine` | `MCIngestion`: 1 worker, 2 requests, 2 restarts, no faults; `Spec` | two restarts both find the document failed; the second writes over what a worker has made of it, although `ingestion_service.py:7` says a status is advanced by conditional updates |
| `\A d \in Docs : status[d] = "deleted" /\ "original" \notin files[d] => files[d] = {}` | `MCIngestion`: no faults, two workers, one request, no restart; `Spec` | parse writes its output after the purge of the document |
| `DuplicateIsReal` | `ChatTurn`: one turn, one key, no faults; `FairSpec` | the conversation is deleted between a turn's load and its insert: the foreign key's error is reported as a duplicate message |
| `AlignedAfterAbort` | `ChatView`: `MaxTurns = 1`, `History = 0`, `PageSize = 2`, `MaxFocus = 0`; `Spec` | the refetch after an abort overtakes the detached task that stores the partial answer |
| `LogoutEndsSession` | `Session`: the constants of `session` | a refresh that has read its token before the logout commits a live one after it |
| `ConflictIsFound` | `Upload`: two uploads, one user, no faults; `Spec` | the winner of a conflict is deleted before the loser reads it again, which is answered with the error of the index |

## 11. Not modelled

* **Left out of modelled components**: the history a prompt is built from; registration,
  passwords, inactive users and the expiry of a cookie; the polling of the documents page;
  a `delete_prefix` that fails half-way; tables of more
  than one column.
* **Not stateful in the code**: the query-embedding cache (a value keyed by its
  input, with a time limit and no invalidation), the tokenizer's estimate for other
  scripts, distances and text ranks (PostgreSQL computes them).
* **Library calls over data**: the readers of PDF, DOCX and HTML.
* **No state that outlives a call**: routers, middleware, error mapping, configuration
  and wiring, developer scripts, the presentation of the frontend.  Migrations run
  once, offline; the constraints they create are what the models use.

Left to TLC: liveness (`SettlesUnlessStranded`, `Completes`, `StreamingEnds`, the progress half of
`ImplementsProtocol`), which the prover does not handle; and the runs that end in a
violation, which are about one instance.
