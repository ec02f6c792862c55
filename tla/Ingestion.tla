------------------------------ MODULE Ingestion ------------------------------
(***************************************************************************)
(* The document ingestion pipeline: the API requests of DocumentService,   *)
(* the Celery queue, and the workers that run parse -> chunk -> embed and  *)
(* purge.  One action per database commit, file-system call or broker      *)
(* call, so that every interleaving of the API, the workers and the        *)
(* failures between two of them is a behaviour.                            *)
(***************************************************************************)
EXTENDS Naturals, FiniteSets

CONSTANTS
    Docs,           \* document ids (new_id() never returns one twice)
    Workers,        \* Celery worker processes consuming the queue "ingest"
    Requests,       \* API requests that may be in progress at the same time
    None,           \* "no document", for the fields of an idle process
    MaxRetries,     \* [Stages -> 0..RetryLimit]: the limit the shell tests
    RetryLimit,     \* the largest of them (bounds the messages)
    TaskMaxRetries, \* Celery's own limit, Task.max_retries: 3, as no stage sets it
    ChunkCounts,    \* how many chunks a document may be split into
    BatchSize,      \* settings.embedding_batch_size
    FaultKinds,     \* the failures that may happen, a subset of AllFaults
    MaxFaults,      \* bound: how many of them
    MaxRestarts     \* bound: how many retry / re-upload requests

Stages == {"parse", "chunk", "embed"}
Tasks  == Stages \cup {"purge"}

AllFaults == {"parse_io",       \* OSError from the object storage in parse
              "chunk_io",       \* the same in chunk
              "provider",       \* rate_limited / transient embedding error
              "db",             \* SQLAlchemyError in a task or a request
              "shell_db",       \* the same in the failure handling of the shell
              "broker",         \* a publish that raises
              "retry_publish",  \* the publish of task.retry raises (Reject)
              "timeout",        \* SoftTimeLimitExceeded, once in the life of a task
              "crash"}          \* a process dies

ASSUME ConstantsAssumption ==
    /\ None \notin Docs
    /\ RetryLimit \in Nat
    /\ MaxRetries \in [Stages -> 0 .. RetryLimit]
    /\ TaskMaxRetries \in Nat
    /\ ChunkCounts \subseteq Nat
    /\ BatchSize \in Nat \ {0}
    /\ FaultKinds \subseteq AllFaults
    /\ MaxFaults \in Nat
    /\ MaxRestarts \in Nat

VARIABLES
    status,   \* documents.status; "absent" / "deleted" = no row (yet / any more)
    jobs,     \* ingestion_jobs.status per (document, stage); "none" = no row
    gen,      \* how often the chunks were replaced: the identity of their ids
    todo,     \* the seqs of the chunks whose embedding is NULL
    files,    \* the objects under documents/<id>/
    queue,    \* the messages in the broker: a bag, delivery order is free
    worker,   \* what each worker is executing
    request,  \* what each API request is executing
    faults,   \* failures so far (for the bound MaxFaults)
    restarts, \* retry requests so far (for the bound MaxRestarts)
    \* History: what has happened to a document.  No step depends on these two.
    overtaken, \* documents somebody acted on after what he had read had changed
    stranded   \* documents whose work was dropped by the process that held it

dbVars  == <<status, jobs, gen, todo>>
history == <<overtaken, stranded>>
vars    == <<status, jobs, gen, todo, files, queue, worker, request, faults, restarts,
             overtaken, stranded>>

(***************************************************************************)
(* The tables of the state machine                                         *)
(***************************************************************************)
\* Mutants used by the checks stand before the definition they replace.
NextStatusMisspelt  == [parse |-> "chunking", chunk |-> "embedding", embed |-> "done"]
EntryStatusMismatch == [parse |-> "parsing",  chunk |-> "chunking",  embed |-> "embedding"]

RunningStatus == [parse |-> "parsing",  chunk |-> "chunking",  embed |-> "embedding"]
NextStatus    == [parse |-> "chunking", chunk |-> "embedding", embed |-> "ready"]
EntryStatus   == [parse |-> "pending",  chunk |-> "chunking",  embed |-> "embedding"]
AllowedFrom   == [parse |-> {"pending", "failed"}, chunk |-> {"chunking", "failed"},
                  embed |-> {"embedding", "failed"}]
NextTask      == [parse |-> "chunk", chunk |-> "embed"]

Processing == {"pending", "parsing", "chunking", "embedding"}
Status     == Processing \cup {"ready", "failed", "absent", "deleted"}
JobStatus  == {"none", "running", "succeeded", "failed"}
Message    == [task : Tasks, doc : Docs, retries : 0 .. RetryLimit]

Exists(d) == status[d] \notin {"absent", "deleted"}

\* Mutant: a document without a failed job is restarted at chunk.
FirstFailedStageOrChunk(d) ==
    IF   jobs[d]["parse"] = "failed" THEN "parse"
    ELSE IF jobs[d]["embed"] = "failed" THEN "embed"
    ELSE "chunk"

\* IngestionJobRepository.first_failed_stage, with the caller's `or "parse"`.
FirstFailedStage(d) ==
    IF   jobs[d]["parse"] = "failed" THEN "parse"
    ELSE IF jobs[d]["chunk"] = "failed" THEN "chunk"
    ELSE IF jobs[d]["embed"] = "failed" THEN "embed"
    ELSE "parse"

\* ChunkRepository.list_unembedded: the first BatchSize of them by seq.
FirstBatch(S) == {x \in S : Cardinality({y \in S : y < x}) < BatchSize}

(***************************************************************************)
(* Processes.  ServicePC: inside IngestionService, where the soft time     *)
(* limit and the exceptions of the session reach the task shell.           *)
(***************************************************************************)
ServicePC == {"claim", "load", "read", "write", "replace", "list", "provider",
              "store", "succeed", "fail", "enqueue", "exit"}
\* _fail of the shell, called because of an error or of the soft time limit.
ShellPC   == {"shellfail", "timedout"}
WorkerPC  == ServicePC \cup ShellPC \cup {"retry", "purge"}

IdleWorker == [pc |-> "idle", task |-> "none", doc |-> None, retries |-> 0,
               gen |-> 0, batch |-> {}]
BusyWorker == [pc : WorkerPC, task : Tasks, doc : Docs, retries : 0 .. RetryLimit,
               gen : Nat, batch : SUBSET Nat]

IdleRequest == [pc |-> "idle", doc |-> None, stage |-> "none"]
RequestPC   == {"create", "stage", "write", "refresh", "enqueue", "unqueued", "purge"}
BusyRequest == [pc : RequestPC, doc : Docs, stage : Stages]

TypeOK ==
    /\ status \in [Docs -> Status]
    /\ jobs \in [Docs -> [Stages -> JobStatus]]
    /\ gen \in [Docs -> Nat]
    /\ todo \in [Docs -> SUBSET Nat]
    /\ files \in [Docs -> SUBSET {"original", "normalized"}]
    /\ queue \in [Message -> Nat]
    /\ worker \in [Workers -> BusyWorker \cup {IdleWorker}]
    /\ request \in [Requests -> BusyRequest \cup {IdleRequest}]
    /\ faults \in Nat
    /\ restarts \in Nat
    /\ overtaken \subseteq Docs
    /\ stranded \subseteq Docs

Init ==
    /\ status = [d \in Docs |-> "absent"]
    /\ jobs = [d \in Docs |-> [s \in Stages |-> "none"]]
    /\ gen = [d \in Docs |-> 0]
    /\ todo = [d \in Docs |-> {}]
    /\ files = [d \in Docs |-> {}]
    /\ queue = [m \in Message |-> 0]
    /\ worker = [w \in Workers |-> IdleWorker]
    /\ request = [r \in Requests |-> IdleRequest]
    /\ faults = 0
    /\ restarts = 0
    /\ overtaken = {}
    /\ stranded = {}

Msg(t, d, n) == [task |-> t, doc |-> d, retries |-> n]
Publish(m)   == queue' = [queue EXCEPT ![m] = @ + 1]

WorkerAt(w, pc)    == worker[w].pc = pc
WorkerGoto(w, pc)  == worker' = [worker EXCEPT ![w].pc = pc]
WorkerDone(w)      == worker' = [worker EXCEPT ![w] = IdleWorker]
RequestGoto(r, pc) == request' = [request EXCEPT ![r].pc = pc]
RequestDone(r)     == request' = [request EXCEPT ![r] = IdleRequest]

Fault(kind) ==
    /\ kind \in FaultKinds
    /\ faults < MaxFaults
    /\ faults' = faults + 1

(***************************************************************************)
(* Who will still move a document on from the status it has now            *)
(***************************************************************************)
Claimable(t, d) == t \in Stages /\ status[d] \in AllowedFrom[t]

\* The status of a stage that has begun, or that has just been committed.
OwnStatus(t) == {RunningStatus[t], NextStatus[t]}

WorkerOwns(w, d) ==
    LET wk == worker[w] IN
    /\ wk.doc = d
    /\ \/ wk.pc = "claim" /\ Claimable(wk.task, d)
       \/ /\ wk.pc \in {"load", "read", "write", "replace", "list", "provider",
                        "store", "succeed", "fail"}
          /\ status[d] = RunningStatus[wk.task]
       \/ wk.pc = "enqueue" /\ status[d] = NextStatus[wk.task]
       \/ wk.pc = "retry" /\ \/ Claimable(wk.task, d)
                             \/ status[d] \in OwnStatus(wk.task)
                             \/ wk.retries >= MaxRetries[wk.task]
       \/ wk.pc \in ShellPC

RequestOwns(r, d) ==
    /\ request[r].doc = d
    /\ \/ request[r].pc \in {"refresh", "enqueue"} /\ status[d] = EntryStatus[request[r].stage]
       \/ request[r].pc = "unqueued"

MessageOwns(m, d) == m.doc = d /\ queue[m] > 0 /\ Claimable(m.task, d)

(***************************************************************************)
(* History: what the properties need to know of the past of a document     *)
(***************************************************************************)
OvertakenIf(cond, d) == overtaken' = IF cond THEN overtaken \cup {d} ELSE overtaken
StrandedIf(cond, d)  == stranded' = IF cond THEN stranded \cup {d} ELSE stranded

(***************************************************************************)
(* API requests (DocumentService)                                          *)
(***************************************************************************)
\* upload of new content: storage.put under a fresh id, before the row exists.
UploadPut(r, d) ==
    /\ request[r] = IdleRequest
    /\ status[d] = "absent" /\ files[d] = {} /\ \A q \in Requests : request[q].doc # d
    /\ files' = [files EXCEPT ![d] = {"original"}]
    /\ request' = [request EXCEPT ![r] = [pc |-> "create", doc |-> d, stage |-> "parse"]]
    /\ UNCHANGED <<dbVars, queue, worker, faults, restarts, history>>

UploadCreate(r) ==
    LET d == request[r].doc IN
    /\ request[r].pc = "create"
    /\ status[d] = "absent"
    /\ status' = [status EXCEPT ![d] = "pending"]
    /\ RequestGoto(r, "enqueue")
    /\ UNCHANGED <<jobs, gen, todo, files, queue, worker, faults, restarts, history>>

\* Mutant: retry accepts a document in any status.
RestartCheckUnguarded(r, d) ==
    /\ request[r] = IdleRequest
    /\ restarts < MaxRestarts
    /\ Exists(d)
    /\ restarts' = restarts + 1
    /\ request' = [request EXCEPT ![r] = [pc |-> "stage", doc |-> d, stage |-> "parse"]]
    /\ UNCHANGED <<dbVars, files, queue, worker, faults, history>>

\* retry, and the re-upload of content whose document is failed: both test the
\* status they have read and go on to _restart_from_failed_stage.
RestartCheck(r, d) ==
    /\ request[r] = IdleRequest
    /\ restarts < MaxRestarts
    /\ status[d] = "failed"
    /\ restarts' = restarts + 1
    /\ request' = [request EXCEPT ![r] = [pc |-> "stage", doc |-> d, stage |-> "parse"]]
    /\ UNCHANGED <<dbVars, files, queue, worker, faults, history>>

RestartStage(r) ==
    /\ request[r].pc = "stage"
    /\ request' = [request EXCEPT ![r].stage = FirstFailedStage(request[r].doc),
                                  ![r].pc = "write"]
    /\ UNCHANGED <<dbVars, files, queue, worker, faults, restarts, history>>

\* The requests that have found d failed and have yet to write its row.
Restarting(d) == {r \in Requests : request[r].doc = d /\ request[r].pc \in {"stage", "write"}}

\* The UPDATE names the primary key only, so a restart still under way will write
\* over this one; of a deleted row it raises, and the request ends.
RestartWrite(r) ==
    LET d == request[r].doc IN
    /\ request[r].pc = "write"
    /\ \/ /\ Exists(d)
          /\ status' = [status EXCEPT ![d] = EntryStatus[request[r].stage]]
          /\ RequestGoto(r, "refresh")
          /\ OvertakenIf(Restarting(d) \ {r} # {}, d)
       \/ /\ ~Exists(d)
          /\ RequestDone(r)
          /\ UNCHANGED <<status, overtaken>>
    /\ UNCHANGED <<jobs, gen, todo, files, queue, worker, faults, restarts, stranded>>

\* session.refresh after the commit raises for a row deleted in between.
Refresh(r) ==
    /\ request[r].pc = "refresh"
    /\ IF Exists(request[r].doc) THEN RequestGoto(r, "enqueue") ELSE RequestDone(r)
    /\ UNCHANGED <<dbVars, files, queue, worker, faults, restarts, history>>

EnqueueStage(r) ==
    /\ request[r].pc = "enqueue"
    /\ Publish(Msg(request[r].stage, request[r].doc, 0))
    /\ RequestDone(r)
    /\ UNCHANGED <<dbVars, files, worker, faults, restarts, history>>

\* The publish raises, before the broker has the message or after it: then the
\* document is marked failed while the message is under way.
EnqueueStageFails(r) ==
    /\ request[r].pc = "enqueue"
    /\ Fault("broker")
    /\ \/ UNCHANGED <<queue, overtaken>>
       \/ /\ Publish(Msg(request[r].stage, request[r].doc, 0))
          /\ overtaken' = overtaken \cup {request[r].doc}
    /\ RequestGoto(r, "unqueued")
    /\ UNCHANGED <<dbVars, files, worker, restarts, stranded>>

\* Mutant: the failed publish is only logged.
MarkUnqueuedOnlyLogs(r) ==
    /\ request[r].pc = "unqueued"
    /\ RequestDone(r)
    /\ UNCHANGED <<dbVars, files, queue, worker, faults, restarts, history>>

MarkUnqueued(r) ==
    LET d == request[r].doc IN
    /\ request[r].pc = "unqueued"
    /\ status' = [status EXCEPT ![d] = IF Exists(d) THEN "failed" ELSE @]
    /\ RequestDone(r)
    /\ UNCHANGED <<jobs, gen, todo, files, queue, worker, faults, restarts, history>>

\* The row goes, and by ON DELETE CASCADE its jobs and chunks.
Delete(r, d) ==
    /\ request[r] = IdleRequest
    /\ Exists(d)
    /\ status' = [status EXCEPT ![d] = "deleted"]
    /\ jobs' = [jobs EXCEPT ![d] = [s \in Stages |-> "none"]]
    /\ todo' = [todo EXCEPT ![d] = {}]
    /\ request' = [request EXCEPT ![r] = [pc |-> "purge", doc |-> d, stage |-> "parse"]]
    /\ UNCHANGED <<gen, files, queue, worker, faults, restarts, history>>

EnqueuePurge(r) ==
    /\ request[r].pc = "purge"
    /\ Publish(Msg("purge", request[r].doc, 0))
    /\ RequestDone(r)
    /\ UNCHANGED <<dbVars, files, worker, faults, restarts, history>>

\* Only logged (a publish that raises after the broker has the message is then
\* the same as one that does not).
EnqueuePurgeFails(r) ==
    /\ request[r].pc = "purge"
    /\ Fault("broker")
    /\ RequestDone(r)
    /\ UNCHANGED <<dbVars, files, queue, worker, restarts, history>>

\* The API process dies, or a database error answers 500.
RequestCrash(r) ==
    /\ request[r] # IdleRequest
    /\ Fault("crash") \/ Fault("db")
    /\ RequestDone(r)
    /\ StrandedIf(RequestOwns(r, request[r].doc), request[r].doc)
    /\ UNCHANGED <<dbVars, files, queue, worker, restarts, overtaken>>

(***************************************************************************)
(* Workers: delivery and claim                                             *)
(***************************************************************************)
\* Mutant: a message stays in the broker while it is executed (acks_late) and may
\* be delivered again.
ReceiveUnacked(w, m) ==
    /\ worker[w] = IdleWorker
    /\ queue[m] > 0
    /\ worker' = [worker EXCEPT ![w] =
          [IdleWorker EXCEPT !.pc = IF m.task = "purge" THEN "purge" ELSE "claim",
                             !.task = m.task, !.doc = m.doc, !.retries = m.retries]]
    /\ UNCHANGED <<dbVars, files, queue, request, faults, restarts, history>>

\* Celery acknowledges on delivery (acks_late is not set): the message is gone.
Receive(w, m) ==
    /\ worker[w] = IdleWorker
    /\ queue[m] > 0
    /\ queue' = [queue EXCEPT ![m] = @ - 1]
    /\ worker' = [worker EXCEPT ![w] =
          [IdleWorker EXCEPT !.pc = IF m.task = "purge" THEN "purge" ELSE "claim",
                             !.task = m.task, !.doc = m.doc, !.retries = m.retries]]
    /\ UNCHANGED <<dbVars, files, request, faults, restarts, history>>

\* Mutant: the claim does not test the status.
ClaimRowUnconditional(d, s) ==
    /\ Exists(d)
    /\ status' = [status EXCEPT ![d] = RunningStatus[s]]

\* UPDATE documents ... WHERE id AND status IN allowed_from: one row or none.
ClaimRow(d, s) ==
    /\ status[d] \in AllowedFrom[s]
    /\ status' = [status EXCEPT ![d] = RunningStatus[s]]

\* The upsert of (document, stage), whatever the row held.
MarkRunning(d, s) == jobs' = [jobs EXCEPT ![d][s] = "running"]

\* One transaction: the conditional UPDATE and mark_running.
Claim(w) ==
    LET d == worker[w].doc
        s == worker[w].task IN
    /\ WorkerAt(w, "claim")
    /\ ClaimRow(d, s)
    /\ MarkRunning(d, s)
    /\ WorkerGoto(w, "load")
    /\ UNCHANGED <<gen, todo, files, queue, request, faults, restarts, history>>

ClaimSkipped(w) ==
    /\ WorkerAt(w, "claim")
    /\ status[worker[w].doc] \notin AllowedFrom[worker[w].task]
    /\ WorkerDone(w)
    /\ UNCHANGED <<dbVars, files, queue, request, faults, restarts, history>>

\* documents.get after the commit of the claim: None if deleted in between.
Load(w) ==
    /\ WorkerAt(w, "load")
    /\ IF Exists(worker[w].doc)
       THEN WorkerGoto(w, IF worker[w].task = "embed" THEN "list" ELSE "read")
       ELSE WorkerDone(w)
    /\ UNCHANGED <<dbVars, files, queue, request, faults, restarts, history>>

(***************************************************************************)
(* Workers: the three stages                                               *)
(***************************************************************************)
\* A missing original, and content the parser rejects, end in _fail.
ReadOriginal(w) ==
    /\ WorkerAt(w, "read") /\ worker[w].task = "parse"
    /\ \/ WorkerGoto(w, "fail")
       \/ /\ "original" \in files[worker[w].doc]
          /\ WorkerGoto(w, "write")
    /\ UNCHANGED <<dbVars, files, queue, request, faults, restarts, history>>

WriteNormalized(w) ==
    /\ WorkerAt(w, "write")
    /\ files' = [files EXCEPT ![worker[w].doc] = @ \cup {"normalized"}]
    /\ WorkerGoto(w, "succeed")
    /\ UNCHANGED <<dbVars, queue, request, faults, restarts, history>>

\* A missing or unreadable normalized.json ends in _fail.
ReadNormalized(w) ==
    /\ WorkerAt(w, "read") /\ worker[w].task = "chunk"
    /\ \/ WorkerGoto(w, "fail")
       \/ /\ "normalized" \in files[worker[w].doc]
          /\ WorkerGoto(w, "replace")
    /\ UNCHANGED <<dbVars, files, queue, request, faults, restarts, history>>

\* set_status and set_failed: by document id only, whatever the status is.
SetStatus(d, st) == status' = [status EXCEPT ![d] = st]

MarkFinished(d, s, job) == jobs' = [jobs EXCEPT ![d][s] = job]

\* Mutant: the job row is left running.
FinishWithoutJob(d, s, job, st) ==
    /\ SetStatus(d, st)
    /\ UNCHANGED jobs

\* The transaction that ends a stage (_succeed and _fail).
Finish(d, s, job, st) ==
    /\ MarkFinished(d, s, job)
    /\ SetStatus(d, st)

\* Delete, then insert under new ids: no embedding survives.
ReplaceForDocument(d) ==
    /\ gen' = [gen EXCEPT ![d] = @ + 1]
    /\ \E n \in ChunkCounts : todo' = [todo EXCEPT ![d] = 1 .. n]

\* replace_for_document and _succeed commit together.  Without the row the
\* foreign keys refuse the inserts: a SQLAlchemyError, which the shell retries.
ReplaceChunks(w) ==
    LET d == worker[w].doc IN
    /\ WorkerAt(w, "replace")
    /\ \/ /\ Exists(d)
          /\ ReplaceForDocument(d)
          /\ Finish(d, "chunk", "succeeded", NextStatus["chunk"])
          /\ WorkerGoto(w, "enqueue")
       \/ /\ ~Exists(d)
          /\ WorkerGoto(w, "retry")
          /\ UNCHANGED dbVars
    /\ UNCHANGED <<files, queue, request, faults, restarts, history>>

ListUnembedded(w) ==
    LET d == worker[w].doc IN
    /\ WorkerAt(w, "list")
    /\ IF todo[d] = {}
       THEN WorkerGoto(w, "succeed")
       ELSE worker' = [worker EXCEPT ![w].pc = "provider", ![w].gen = gen[d],
                                     ![w].batch = FirstBatch(todo[d])]
    /\ UNCHANGED <<dbVars, files, queue, request, faults, restarts, history>>

\* auth, context_length and provider_error end in _fail.
CallProvider(w) ==
    /\ WorkerAt(w, "provider")
    /\ \/ WorkerGoto(w, "store")
       \/ WorkerGoto(w, "fail")
    /\ UNCHANGED <<dbVars, files, queue, request, faults, restarts, history>>

\* UPDATE ... WHERE id of the chunk: rows replaced in the meantime have other ids.
SetEmbeddings(d, batch, g) ==
    todo' = [todo EXCEPT ![d] = IF g = gen[d] THEN @ \ batch ELSE @]

\* Mutant: one batch instead of a loop over the batches.
StoreEmbeddingsOnce(w) ==
    LET d == worker[w].doc IN
    /\ WorkerAt(w, "store")
    /\ SetEmbeddings(d, worker[w].batch, worker[w].gen)
    /\ worker' = [worker EXCEPT ![w].pc = "succeed", ![w].gen = 0, ![w].batch = {}]
    /\ UNCHANGED <<status, jobs, gen, files, queue, request, faults, restarts, history>>

StoreEmbeddings(w) ==
    LET d == worker[w].doc IN
    /\ WorkerAt(w, "store")
    /\ SetEmbeddings(d, worker[w].batch, worker[w].gen)
    /\ worker' = [worker EXCEPT ![w].pc = "list", ![w].gen = 0, ![w].batch = {}]
    /\ UNCHANGED <<status, jobs, gen, files, queue, request, faults, restarts, history>>

\* _succeed of parse and embed.
Succeed(w) ==
    LET d == worker[w].doc
        s == worker[w].task IN
    /\ WorkerAt(w, "succeed")
    /\ \/ /\ Exists(d)
          /\ Finish(d, s, "succeeded", NextStatus[s])
          /\ WorkerGoto(w, IF s = "embed" THEN "exit" ELSE "enqueue")
       \/ /\ ~Exists(d)
          /\ WorkerGoto(w, "retry")
          /\ UNCHANGED <<status, jobs>>
    /\ UNCHANGED <<gen, todo, files, queue, request, faults, restarts, history>>

EnqueueNext(w) ==
    /\ WorkerAt(w, "enqueue")
    /\ Publish(Msg(NextTask[worker[w].task], worker[w].doc, 0))
    /\ WorkerGoto(w, "exit")
    /\ UNCHANGED <<dbVars, files, request, faults, restarts, history>>

\* _fail called by the service: without the row, mark_finished breaks the
\* foreign key and the shell retries.
MarkFailed(w) ==
    LET d == worker[w].doc IN
    /\ WorkerAt(w, "fail")
    /\ \/ /\ Exists(d)
          /\ Finish(d, worker[w].task, "failed", "failed")
          /\ WorkerGoto(w, "exit")
       \/ /\ ~Exists(d)
          /\ WorkerGoto(w, "retry")
          /\ UNCHANGED <<status, jobs>>
    /\ UNCHANGED <<gen, todo, files, queue, request, faults, restarts, history>>

\* The finally of _with_service; the task returns.
Exit(w) ==
    /\ WorkerAt(w, "exit")
    /\ WorkerDone(w)
    /\ UNCHANGED <<dbVars, files, queue, request, faults, restarts, history>>

Purge(w) ==
    /\ WorkerAt(w, "purge")
    /\ files' = [files EXCEPT ![worker[w].doc] = {}]
    /\ WorkerDone(w)
    /\ UNCHANGED <<dbVars, queue, request, faults, restarts, history>>

(***************************************************************************)
(* Workers: the task shell                                                 *)
(***************************************************************************)
\* task.retry publishes the same task with retries + 1, for later delivery.  Past
\* Celery's own limit it raises the error instead, out of the shell's handler:
\* the task ends there.  Nor does the retry help of a stage whose claim does not
\* admit the status the stage itself has set.
Retry(w) ==
    LET wk == worker[w] IN
    /\ WorkerAt(w, "retry")
    /\ \/ /\ wk.retries < MaxRetries[wk.task]
          /\ wk.retries < TaskMaxRetries
          /\ Publish(Msg(wk.task, wk.doc, wk.retries + 1))
          /\ WorkerDone(w)
          /\ StrandedIf(status[wk.doc] \in OwnStatus(wk.task) \ AllowedFrom[wk.task], wk.doc)
       \/ /\ wk.retries < MaxRetries[wk.task]
          /\ wk.retries >= TaskMaxRetries
          /\ WorkerDone(w)
          /\ StrandedIf(WorkerOwns(w, wk.doc), wk.doc)
          /\ UNCHANGED queue
       \/ /\ wk.retries >= MaxRetries[wk.task]
          /\ WorkerGoto(w, "shellfail")
          /\ UNCHANGED <<queue, stranded>>
    /\ UNCHANGED <<dbVars, files, request, faults, restarts, overtaken>>

\* _fail of the shell: mark_stage_failed in a session of its own, every
\* exception swallowed (of a deleted document too).
ShellFail(w) ==
    LET d == worker[w].doc IN
    /\ worker[w].pc \in ShellPC
    /\ IF Exists(d) THEN Finish(d, worker[w].task, "failed", "failed")
                    ELSE UNCHANGED <<status, jobs>>
    /\ WorkerDone(w)
    /\ UNCHANGED <<gen, todo, files, queue, request, faults, restarts, history>>

(***************************************************************************)
(* Workers: failures                                                       *)
(***************************************************************************)
\* Two transactions of the same stage of a document: _claim locks the document
\* and then the job, _succeed and _fail the job and then the document (a
\* deadlock, one is aborted); two chunk stages insert the same (document, seq).
Conflict(pc1, pc2) ==
    \/ pc1 = "claim" /\ pc2 \in {"replace", "succeed", "fail"} \cup ShellPC
    \/ pc1 = "replace" /\ pc2 = "replace"

TransactionAborted(w) ==
    LET d == worker[w].doc
        s == worker[w].task IN
    /\ worker[w].pc \in {"claim", "replace", "succeed", "fail"} \cup ShellPC
    /\ status[d] \in AllowedFrom[s] \/ WorkerAt(w, "replace")
    /\ \E v \in Workers \ {w} :
          /\ worker[v].doc = d /\ worker[v].task = s
          /\ Conflict(worker[w].pc, worker[v].pc) \/ Conflict(worker[v].pc, worker[w].pc)
    /\ IF worker[w].pc \in ShellPC THEN WorkerDone(w) ELSE WorkerGoto(w, "retry")
    /\ UNCHANGED <<dbVars, files, queue, request, faults, restarts, history>>

IoError(w) ==
    /\ worker[w].pc \in {"read", "write"}
    /\ Fault(IF worker[w].task = "parse" THEN "parse_io" ELSE "chunk_io")
    /\ WorkerGoto(w, "retry")
    /\ UNCHANGED <<dbVars, files, queue, request, restarts, history>>

ProviderTransient(w) ==
    /\ WorkerAt(w, "provider")
    /\ Fault("provider")
    /\ WorkerGoto(w, "retry")
    /\ UNCHANGED <<dbVars, files, queue, request, restarts, history>>

\* A statement that raises, or a commit whose answer is lost: at the step after
\* a commit the error means that the commit took effect.  At the exit the document
\* is settled or has been handed on, and the stage is started again all the same.
DbError(w) ==
    /\ worker[w].pc \in ServicePC \ {"read", "write", "provider"}
    /\ Fault("db")
    /\ WorkerGoto(w, "retry")
    /\ OvertakenIf(WorkerAt(w, "exit"), worker[w].doc)
    /\ UNCHANGED <<dbVars, files, queue, request, restarts, stranded>>

ShellDbError(w) ==
    /\ worker[w].pc \in ShellPC
    /\ Fault("shell_db")
    /\ WorkerDone(w)
    /\ StrandedIf(WorkerOwns(w, worker[w].doc), worker[w].doc)
    /\ UNCHANGED <<dbVars, files, queue, request, restarts, overtaken>>

\* The publish raises, before the broker has the message or after it.
EnqueueNextFails(w) ==
    /\ WorkerAt(w, "enqueue")
    /\ Fault("broker")
    /\ \/ UNCHANGED <<queue, overtaken>>
       \/ /\ Publish(Msg(NextTask[worker[w].task], worker[w].doc, 0))
          /\ overtaken' = overtaken \cup {worker[w].doc}
    /\ WorkerGoto(w, "shellfail")
    /\ UNCHANGED <<dbVars, files, request, restarts, stranded>>

\* The task ends either way: a publish that raises after the broker has the
\* message is the same as one that does not.
RetryPublishFails(w) ==
    /\ WorkerAt(w, "retry")
    /\ worker[w].retries < MaxRetries[worker[w].task]
    /\ worker[w].retries < TaskMaxRetries
    /\ Fault("retry_publish")
    /\ WorkerDone(w)
    /\ StrandedIf(WorkerOwns(w, worker[w].doc), worker[w].doc)
    /\ UNCHANGED <<dbVars, files, queue, request, restarts, overtaken>>

\* The soft limit inside the service: the shell marks the stage failed.
SoftTimeout(w) ==
    /\ worker[w].pc \in ServicePC
    /\ Fault("timeout")
    /\ WorkerGoto(w, "timedout")
    /\ OvertakenIf(WorkerAt(w, "exit"), worker[w].doc)
    /\ UNCHANGED <<dbVars, files, queue, request, restarts, stranded>>

\* The soft limit in the shell: in _fail it is swallowed with every other
\* exception, in task.retry it leaves the handler.  The task ends.
ShellTimeout(w) ==
    /\ worker[w].pc \in {"retry", "shellfail"}
    /\ Fault("timeout")
    /\ WorkerDone(w)
    /\ StrandedIf(WorkerOwns(w, worker[w].doc), worker[w].doc)
    /\ UNCHANGED <<dbVars, files, queue, request, restarts, overtaken>>

WorkerCrash(w) ==
    /\ worker[w] # IdleWorker
    /\ Fault("crash")
    /\ WorkerDone(w)
    /\ StrandedIf(WorkerOwns(w, worker[w].doc), worker[w].doc)
    /\ UNCHANGED <<dbVars, files, queue, request, restarts, overtaken>>

-----------------------------------------------------------------------------
UserStep ==
    \E r \in Requests, d \in Docs :
        UploadPut(r, d) \/ RestartCheck(r, d) \/ Delete(r, d)

RequestStep(r) ==
    \/ UploadCreate(r)
    \/ RestartStage(r)
    \/ RestartWrite(r)
    \/ Refresh(r)
    \/ EnqueueStage(r)
    \/ MarkUnqueued(r)
    \/ EnqueuePurge(r)

RequestFault(r) ==
    \/ EnqueueStageFails(r)
    \/ EnqueuePurgeFails(r)
    \/ RequestCrash(r)

StageStep(w) ==
    \/ Claim(w)
    \/ ClaimSkipped(w)
    \/ Load(w)
    \/ ReadOriginal(w)
    \/ WriteNormalized(w)
    \/ ReadNormalized(w)
    \/ ReplaceChunks(w)
    \/ ListUnembedded(w)
    \/ CallProvider(w)
    \/ StoreEmbeddings(w)
    \/ Succeed(w)
    \/ EnqueueNext(w)
    \/ MarkFailed(w)
    \/ Exit(w)
    \/ Purge(w)
    \/ Retry(w)
    \/ ShellFail(w)
    \/ TransactionAborted(w)

WorkerStep(w) == (\E m \in Message : Receive(w, m)) \/ StageStep(w)

WorkerFault(w) ==
    \/ IoError(w)
    \/ ProviderTransient(w)
    \/ DbError(w)
    \/ ShellDbError(w)
    \/ EnqueueNextFails(w)
    \/ RetryPublishFails(w)
    \/ SoftTimeout(w)
    \/ ShellTimeout(w)
    \/ WorkerCrash(w)

-----------------------------------------------------------------------------
Next ==
    \/ UserStep
    \/ \E r \in Requests : RequestStep(r) \/ RequestFault(r)
    \/ \E w \in Workers : WorkerStep(w) \/ WorkerFault(w)

Spec == Init /\ [][Next]_vars

\* A running worker or request goes on, and the broker delivers; the user and
\* the failures owe nothing.
Fairness ==
    /\ \A r \in Requests : WF_vars(RequestStep(r))
    /\ \A w \in Workers : WF_vars(WorkerStep(w))

FairSpec == Spec /\ Fairness

(***************************************************************************)
(* Properties                                                              *)
(***************************************************************************)
\* The input of the chunk stage never goes missing: once a document is past
\* parse, and whenever a chunk task of an existing document is about to read
\* it, normalized.json is there, whatever was retried, repeated, interrupted
\* or purged.  (IngestionService.chunk has a branch for its absence.)
StageInputPresent ==
    /\ \A d \in Docs : status[d] \in {"chunking", "embedding", "ready"}
                          => "normalized" \in files[d]
    /\ \A w \in Workers : /\ WorkerAt(w, "read") /\ worker[w].task = "chunk"
                          /\ Exists(worker[w].doc)
                          => "normalized" \in files[worker[w].doc]

\* No work is lost: a document in an intermediate status always has a message
\* whose claim that status admits, or a worker or request bound to write the
\* status or to publish that message, unless the one that held it died or let go
\* of it: a crash, a database error or the time limit in _fail or task.retry, a
\* retry nobody can publish or claim.  (ingest.py: a document never stays in an
\* intermediate state.)
WorkNeverLost ==
    \A d \in Docs \ stranded : status[d] \in Processing =>
        \/ \E m \in Message : MessageOwns(m, d)
        \/ \E w \in Workers : WorkerOwns(w, d)
        \/ \E r \in Requests : RequestOwns(r, d)

\* A document in an intermediate status becomes ready, failed or deleted, unless
\* its work is dropped.
SettlesUnlessStranded ==
    \A d \in Docs :
        status[d] \in Processing ~> status[d] \notin Processing \/ d \in stranded

\* What ingest.py says of every document: it never stays in an intermediate
\* state.  (A retry that nobody can claim, or publish, is where it does.)
Settles == \A d \in Docs : status[d] \in Processing ~> status[d] \notin Processing

\* The workers executing a stage of d, from the claim to the commit or the
\* publish that hands it on.
Executing(d) ==
    {w \in Workers : worker[w].doc = d /\ worker[w].pc \in WorkerPC \ {"claim", "exit", "purge"}}

\* Two workers never execute stages of one document at the same time, of the same
\* stage or of two.  The claims alone do not see to it (chunk and embed claim a
\* document they have already claimed): the restart that wants a failed document,
\* the delivery of a message once and the claims do together, and only as long as
\* nobody acts on the document late (overtaken).
OneExecution == \A d \in Docs \ overtaken : Cardinality(Executing(d)) <= 1

\* A document offered to retrieval (status ready) has every chunk embedded, unless
\* its chunks were replaced by a worker nobody expected any more (overtaken).
ReadyIsComplete == \A d \in Docs \ overtaken : status[d] = "ready" => todo[d] = {}

\* An embedding is computed once: the batch about to be stored is still missing
\* ("the retry goes on from the cursor and never embeds again"), unless a second
\* worker had the same document (overtaken).
NeverReembeds ==
    \A w \in Workers :
        LET d == worker[w].doc IN
        WorkerAt(w, "store") /\ Exists(d) /\ d \notin overtaken =>
            worker[w].gen = gen[d] /\ worker[w].batch \subseteq todo[d]

\* The job rows tell how far the document got: a stage has a row only when the
\* stages before it succeeded, so a restart resumes at the stage that failed, or
\* at the one that could not publish the next, and skips none.
JobsAreAPrefix ==
    \A d \in Docs \ overtaken :
        /\ jobs[d]["chunk"] # "none" => jobs[d]["parse"] = "succeeded"
        /\ jobs[d]["embed"] # "none" => jobs[d]["chunk"] = "succeeded"

\* The documented state machine: pending -> parsing -> chunking -> embedding ->
\* ready, any stage -> failed, and from failed to the stage that is retried.
Transition(a, b) ==
    \/ a = "absent" /\ b = "pending"
    \/ a = "pending" /\ b = "parsing"
    \/ a = "parsing" /\ b = "chunking"
    \/ a = "chunking" /\ b = "embedding"
    \/ a = "embedding" /\ b = "ready"
    \/ a \in Processing /\ b = "failed"
    \/ a = "failed" /\ b \in Processing
    \/ b = "deleted"

\* A document changes status along the documented edges only, though _succeed,
\* _fail and the restart write it unconditionally; in particular a ready document
\* stays ready until it is deleted.  The exception is a document somebody acts on
\* late (overtaken).
StatusFollowsStateMachine ==
    [][\A d \in Docs \ overtaken' :
          status'[d] # status[d] => Transition(status[d], status'[d])]_status

\* What ingestion_service.py says of every document: its status is advanced by
\* conditional updates, along the edges of the state machine.
StatusAlwaysFollowsStateMachine ==
    [][\A d \in Docs : status'[d] # status[d] => Transition(status[d], status'[d])]_status

(***************************************************************************)
(* The strengthening of StageInputPresent that is inductive                *)
(***************************************************************************)
\* Which stage runs which step.
Fit(pc, t) ==
    /\ pc \in ServicePC \cup ShellPC \cup {"retry"} => t \in Stages
    /\ pc = "write" => t = "parse"
    /\ pc = "replace" => t = "chunk"
    /\ pc \in {"list", "provider", "store"} => t = "embed"
    /\ pc = "succeed" => t \in {"parse", "embed"}
    /\ pc = "enqueue" => t \in {"parse", "chunk"}
    /\ pc = "purge" => t = "purge"

WorkerShape == \A w \in Workers : Fit(worker[w].pc, worker[w].task)

\* Only the purge removes files, and it is asked for after the row is gone.
PurgeAfterDelete ==
    /\ \A m \in Message : m.task = "purge" /\ queue[m] > 0 => status[m.doc] = "deleted"
    /\ \A w \in Workers : worker[w].task = "purge" => status[worker[w].doc] = "deleted"
    /\ \A r \in Requests : request[r].pc = "purge" => status[request[r].doc] = "deleted"

\* Every trace of a stage after parse is evidence of its output.
Parsed(d) == "normalized" \in files[d] \/ status[d] = "deleted"
Later     == {"chunk", "embed"}

ParsedBefore ==
    /\ \A d \in Docs : status[d] \in {"chunking", "embedding", "ready"} => Parsed(d)
    /\ \A d \in Docs : \A s \in Later : jobs[d][s] # "none" => Parsed(d)
    /\ \A m \in Message : m.task \in Later /\ queue[m] > 0 => Parsed(m.doc)
    /\ \A w \in Workers : \/ worker[w].task \in Later
                          \/ worker[w].task = "parse" /\ worker[w].pc \in {"succeed", "enqueue"}
                          => Parsed(worker[w].doc)
    /\ \A r \in Requests : request[r].stage \in Later => Parsed(request[r].doc)

StageInputInv == TypeOK /\ WorkerShape /\ PurgeAfterDelete /\ ParsedBefore
=============================================================================
