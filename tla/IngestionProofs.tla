--------------------------- MODULE IngestionProofs ---------------------------
(***************************************************************************)
(* Proofs about Ingestion, for every set of documents, workers and         *)
(* requests, every choice of failures and every bound.                     *)
(***************************************************************************)
EXTENDS Ingestion, TLAPS

(***************************************************************************)
(* Type correctness                                                        *)
(***************************************************************************)
WorkerOK == worker \in [Workers -> BusyWorker \cup {IdleWorker}] /\ WorkerShape
TypeInv  == TypeOK /\ WorkerShape
HistoryOK == overtaken \subseteq Docs /\ stranded \subseteq Docs

\* A message built by Msg is one the broker may hold.
LEMMA MsgType ==
    ASSUME NEW t \in Tasks, NEW d \in Docs, NEW n \in 0 .. RetryLimit
    PROVE  Msg(t, d, n) \in Message
  BY DEF Msg, Message

\* Publishing adds one message to the bag in the broker.
LEMMA PublishType ==
    ASSUME queue \in [Message -> Nat], NEW m \in Message, Publish(m)
    PROVE  queue' \in [Message -> Nat]
  BY DEF Publish

\* A worker not idle executes a task of a document.
LEMMA Busy ==
    ASSUME TypeOK, NEW w \in Workers, worker[w].pc # "idle"
    PROVE  worker[w] \in BusyWorker
  BY DEF TypeOK, IdleWorker

\* A request not idle is about a document and a stage.
LEMMA BusyRequests ==
    ASSUME TypeOK, NEW r \in Requests, request[r].pc # "idle"
    PROVE  request[r] \in BusyRequest
  BY DEF TypeOK, IdleRequest

\* A busy worker moves on to a step its stage has.
LEMMA Goto ==
    ASSUME TypeInv, NEW w \in Workers, worker[w].pc # "idle",
           NEW pc \in WorkerPC, WorkerGoto(w, pc), Fit(pc, worker[w].task)
    PROVE  WorkerOK'
  <1>1. worker[w] \in BusyWorker
    BY Busy DEF TypeInv
  <1>2. [worker[w] EXCEPT !.pc = pc] \in BusyWorker
    BY <1>1 DEF BusyWorker
  <1>3. worker' \in [Workers -> BusyWorker \cup {IdleWorker}]
    BY <1>2 DEF WorkerGoto, TypeInv, TypeOK
  <1>4. ASSUME NEW v \in Workers
        PROVE  Fit(worker'[v].pc, worker'[v].task)
    <2>1. CASE v = w
      BY <1>1, <2>1 DEF WorkerGoto, TypeInv, TypeOK, BusyWorker
    <2>2. CASE v # w
      BY <2>2 DEF WorkerGoto, TypeInv, TypeOK, WorkerShape
    <2>3. QED
      BY <2>1, <2>2
  <1>5. QED
    BY <1>3, <1>4 DEF WorkerOK, WorkerShape, Fit

\* An idle worker has no step.
LEMMA IdleFits == Fit(IdleWorker.pc, IdleWorker.task)
  BY DEF Fit, IdleWorker, ServicePC, ShellPC

\* A worker that ends its task is idle.
LEMMA Done ==
    ASSUME TypeInv, NEW w \in Workers, WorkerDone(w)
    PROVE  WorkerOK'
  <1>1. worker' \in [Workers -> BusyWorker \cup {IdleWorker}]
    BY DEF WorkerDone, TypeInv, TypeOK
  <1>2. ASSUME NEW v \in Workers
        PROVE  Fit(worker'[v].pc, worker'[v].task)
    <2>1. CASE v = w
      BY <2>1, IdleFits DEF WorkerDone, TypeInv, TypeOK
    <2>2. CASE v # w
      BY <2>2 DEF WorkerDone, TypeInv, TypeOK, WorkerShape
    <2>3. QED
      BY <2>1, <2>2
  <1>3. QED
    BY <1>1, <1>2 DEF WorkerOK, WorkerShape, Fit

\* A step of a request leaves the workers well-formed.
LEMMA SameWorkers == TypeInv /\ UNCHANGED worker => WorkerOK'
  BY DEF TypeInv, TypeOK, WorkerOK, WorkerShape, Fit

\* A request that moves on, or ends, is well-formed.
LEMMA RequestTypes ==
    ASSUME TypeOK, NEW r \in Requests
    PROVE  /\ request[r].pc # "idle" =>
                \A pc \in RequestPC :
                    RequestGoto(r, pc) => request' \in [Requests -> BusyRequest \cup {IdleRequest}]
           /\ RequestDone(r) => request' \in [Requests -> BusyRequest \cup {IdleRequest}]
  <1>1. ASSUME request[r].pc # "idle",
               NEW pc \in RequestPC,
               RequestGoto(r, pc)
        PROVE  request' \in [Requests -> BusyRequest \cup {IdleRequest}]
    <2>1. request[r] \in BusyRequest
      BY <1>1, BusyRequests
    <2>2. [request[r] EXCEPT !.pc = pc] \in BusyRequest
      BY <2>1, <1>1 DEF BusyRequest, RequestPC
    <2>3. QED
      BY <1>1, <2>2 DEF RequestGoto, TypeOK
  <1>2. ASSUME RequestDone(r)
        PROVE  request' \in [Requests -> BusyRequest \cup {IdleRequest}]
    BY <1>2 DEF RequestDone, TypeOK
  <1>3. QED
    BY <1>1, <1>2

\* The tables of the state machine are tables of statuses.
LEMMA Tables ==
    /\ \A s \in Stages : RunningStatus[s] \in Status \ {"absent", "deleted"}
    /\ \A s \in Stages : NextStatus[s] \in Status \ {"absent", "deleted"}
    /\ \A s \in Stages : EntryStatus[s] \in Status \ {"absent", "deleted"}
    /\ \A s \in Stages : AllowedFrom[s] \subseteq Status \ {"absent", "deleted"}
    /\ \A s \in {"parse", "chunk"} : NextTask[s] \in Stages
  BY DEF RunningStatus, NextStatus, EntryStatus, AllowedFrom, NextTask, Status, Processing, Stages

\* _succeed and _fail write a status and a job status.
LEMMA FinishType ==
    ASSUME TypeOK, NEW d \in Docs, NEW s \in Stages, NEW job \in JobStatus, NEW st \in Status,
           Finish(d, s, job, st)
    PROVE  /\ status' \in [Docs -> Status]
           /\ jobs' \in [Docs -> [Stages -> JobStatus]]
  BY DEF Finish, MarkFinished, SetStatus, TypeOK

\* A restart resumes at one of the three stages.
LEMMA FirstFailedStageType == \A d \in Docs : FirstFailedStage(d) \in Stages
  BY DEF FirstFailedStage, Stages

\* What a user starts keeps the types.
LEMMA UserStepType ==
    ASSUME TypeInv, UserStep, HistoryOK'
    PROVE  TypeInv'
  <1> PICK r \in Requests, d \in Docs : UploadPut(r, d) \/ RestartCheck(r, d) \/ Delete(r, d)
    BY DEF UserStep
  <1> USE DEF TypeInv, HistoryOK
  <1>1. UNCHANGED worker
    BY DEF UploadPut, RestartCheck, Delete
  <1>2. WorkerOK'
    BY <1>1, SameWorkers
  <1>3. \A pc \in {"create", "stage", "purge"} :
           [pc |-> pc, doc |-> d, stage |-> "parse"] \in BusyRequest
    BY DEF BusyRequest, RequestPC, Stages
  <1>4. CASE UploadPut(r, d)
    BY <1>2, <1>3, <1>4 DEF UploadPut, TypeOK, WorkerOK, dbVars
  <1>5. CASE RestartCheck(r, d)
    BY <1>2, <1>3, <1>5 DEF RestartCheck, TypeOK, WorkerOK, dbVars
  <1>6. CASE Delete(r, d)
    BY <1>2, <1>3, <1>6 DEF Delete, TypeOK, WorkerOK, Status, JobStatus
  <1>7. QED
    BY <1>4, <1>5, <1>6

\* Every step and failure of a request keeps the types.
LEMMA RequestStepType ==
    ASSUME TypeInv, NEW r \in Requests, RequestStep(r) \/ RequestFault(r), HistoryOK'
    PROVE  TypeInv'
  <1> USE DEF TypeInv, HistoryOK
  <1>1. UNCHANGED worker
    BY DEF RequestStep, RequestFault, UploadCreate, RestartStage, RestartWrite, Refresh,
       EnqueueStage,
           MarkUnqueued, EnqueuePurge, EnqueueStageFails, EnqueuePurgeFails, RequestCrash
  <1>2. WorkerOK'
    BY <1>1, SameWorkers
  <1>b. request[r].pc # "idle" =>
          request[r] \in BusyRequest /\ request[r].doc \in Docs /\ request[r].stage \in Stages
    BY BusyRequests DEF BusyRequest, RequestPC
  <1>3. CASE UploadCreate(r)
    BY <1>2, <1>3, <1>b, RequestTypes DEF UploadCreate, RequestPC, TypeOK, WorkerOK, Status,
       Processing
  <1>4. CASE RestartStage(r)
    <2>1. [request[r] EXCEPT !.stage = FirstFailedStage(request[r].doc), !.pc = "write"]
             \in BusyRequest
      BY <1>4, <1>b, FirstFailedStageType DEF RestartStage, BusyRequest, RequestPC
    <2>2. QED
      BY <1>2, <1>4, <2>1 DEF RestartStage, TypeOK, WorkerOK, dbVars
  <1>5. CASE RestartWrite(r)
    BY <1>2, <1>5, <1>b, RequestTypes, Tables DEF RestartWrite, TypeOK, WorkerOK, RequestPC
  <1>11. CASE Refresh(r)
    BY <1>2, <1>11, <1>b, RequestTypes DEF Refresh, TypeOK, WorkerOK, RequestPC, dbVars
  <1>6. CASE EnqueueStage(r)
    <2>1. Msg(request[r].stage, request[r].doc, 0) \in Message
      BY <1>6, <1>b, ConstantsAssumption DEF EnqueueStage, Msg, Message, Tasks
    <2>2. QED
      BY <1>2, <1>6, <2>1, PublishType, RequestTypes DEF EnqueueStage, TypeOK, WorkerOK, dbVars
  <1>7. CASE MarkUnqueued(r)
    BY <1>2, <1>7, <1>b, RequestTypes DEF MarkUnqueued, TypeOK, WorkerOK, Status
  <1>8. CASE EnqueuePurge(r)
    <2>1. Msg("purge", request[r].doc, 0) \in Message
      BY <1>8, <1>b, ConstantsAssumption DEF EnqueuePurge, Msg, Message, Tasks
    <2>2. QED
      BY <1>2, <1>8, <2>1, PublishType, RequestTypes DEF EnqueuePurge, TypeOK, WorkerOK, dbVars
  <1>9. CASE RequestFault(r)
    <2>1. CASE EnqueueStageFails(r)
      <3>1. Msg(request[r].stage, request[r].doc, 0) \in Message
        BY <2>1, <1>b, ConstantsAssumption DEF EnqueueStageFails, Msg, Message, Tasks
      <3>2. queue' \in [Message -> Nat]
        BY <2>1, <3>1, PublishType DEF EnqueueStageFails, TypeOK
      <3>3. request' \in [Requests -> BusyRequest \cup {IdleRequest}]
        BY <2>1, RequestTypes DEF EnqueueStageFails, RequestPC
      <3>4. QED
        BY <1>2, <2>1, <3>2, <3>3 DEF EnqueueStageFails, TypeOK, WorkerOK, dbVars, Fault
    <2>2. CASE EnqueuePurgeFails(r)
      BY <1>2, <2>2, RequestTypes DEF EnqueuePurgeFails, TypeOK, WorkerOK, dbVars, Fault
    <2>3. CASE RequestCrash(r)
      BY <1>2, <2>3, RequestTypes DEF RequestCrash, TypeOK, WorkerOK, dbVars, Fault
    <2>4. QED
      BY <1>9, <2>1, <2>2, <2>3 DEF RequestFault
  <1>10. QED
    BY <1>3, <1>4, <1>5, <1>6, <1>7, <1>8, <1>9, <1>11 DEF RequestStep

\* The delivery of a message keeps the types.
LEMMA ReceiveType ==
    ASSUME TypeInv, NEW w \in Workers, NEW m \in Message, Receive(w, m), HistoryOK'
    PROVE  TypeInv'
  <1> USE DEF TypeInv, HistoryOK
  <1> DEFINE pc == IF m.task = "purge" THEN "purge" ELSE "claim"
             wk == [IdleWorker EXCEPT !.pc = pc, !.task = m.task, !.doc = m.doc,
                                      !.retries = m.retries]
  <1>1. wk \in BusyWorker
    BY DEF IdleWorker, BusyWorker, Message, WorkerPC, ServicePC, ShellPC
  <1>2. Fit(wk.pc, wk.task)
    BY DEF Fit, IdleWorker, Message, Tasks, ServicePC, ShellPC
  <1>3. worker' = [worker EXCEPT ![w] = wk]
    BY DEF Receive
  <1>4. worker' \in [Workers -> BusyWorker \cup {IdleWorker}]
    BY <1>1, <1>3 DEF TypeOK
  <1>5. \A v \in Workers : Fit(worker'[v].pc, worker'[v].task)
    BY <1>2, <1>3 DEF TypeOK, WorkerShape
  <1>6. WorkerShape'
    BY <1>5 DEF WorkerShape, Fit
  <1>7. QED
    BY <1>4, <1>6 DEF Receive, TypeOK, dbVars

\* The fields of a busy worker.
LEMMA BusyFields ==
    ASSUME TypeInv, NEW w \in Workers, worker[w].pc # "idle"
    PROVE  /\ worker[w] \in BusyWorker
           /\ worker[w].doc \in Docs
           /\ worker[w].task \in Tasks
           /\ worker[w].retries \in 0 .. RetryLimit
           /\ worker[w].pc \in WorkerPC
           /\ Fit(worker[w].pc, worker[w].task)
  BY Busy DEF TypeInv, BusyWorker, WorkerShape

\* A step that only moves the worker, and possibly counts a failure.
LEMMA MoveType ==
    ASSUME TypeInv, WorkerOK', HistoryOK', UNCHANGED <<dbVars, files, queue, request, restarts>>,
           faults' \in Nat
    PROVE  TypeInv'
  BY DEF TypeInv, TypeOK, WorkerOK, HistoryOK, dbVars

\* Every step of the stages, the purge and the shell keeps the types.
LEMMA StageStepType ==
    ASSUME TypeInv, NEW w \in Workers, StageStep(w), HistoryOK'
    PROVE  TypeInv'
  <1> USE DEF HistoryOK
  <1> DEFINE d == worker[w].doc
             s == worker[w].task
  <1> USE DEF WorkerAt
  <1>b. worker[w].pc # "idle" =>
           /\ worker[w] \in BusyWorker
           /\ d \in Docs
           /\ s \in Tasks
           /\ worker[w].retries \in 0 .. RetryLimit
           /\ Fit(worker[w].pc, s)
    BY BusyFields
  <1>t. TypeOK /\ faults \in Nat
    BY DEF TypeInv, TypeOK
  <1>1. CASE Claim(w)
    <2>1. s \in Stages /\ Fit("load", s)
      BY <1>1, <1>b DEF Claim, ClaimRow, MarkRunning, Fit, ServicePC
    <2>2. WorkerOK'
      BY <1>1, <2>1, Goto DEF Claim, ClaimRow, MarkRunning, WorkerPC, ServicePC, ShellPC
    <2>3. QED
      BY <1>1, <1>b, <1>t, <2>1, <2>2, Tables DEF Claim, ClaimRow, MarkRunning, TypeInv, TypeOK,
         WorkerOK, JobStatus
  <1>2. CASE ClaimSkipped(w)
    BY <1>2, <1>t, Done, MoveType DEF ClaimSkipped
  <1>3. CASE Load(w)
    <2>1. s \in Stages /\ Fit("list", "embed") /\ (s # "embed" => Fit("read", s))
      BY <1>3, <1>b DEF Load, Fit, ServicePC, Stages
    <2>2. CASE WorkerGoto(w, IF s = "embed" THEN "list" ELSE "read")
      <3>1. WorkerOK'
        BY <1>3, <2>1, <2>2, Goto DEF Load, WorkerPC, ServicePC, ShellPC
      <3>2. QED
        BY <1>3, <1>t, <3>1, MoveType DEF Load
    <2>3. CASE WorkerDone(w)
      BY <1>3, <1>t, <2>3, Done, MoveType DEF Load
    <2>4. QED
      BY <1>3, <2>2, <2>3 DEF Load
  <1>4. CASE ReadOriginal(w)
    <2>1. Fit("fail", s) /\ Fit("write", s)
      BY <1>4 DEF ReadOriginal, Fit, Stages
    <2>2. WorkerOK'
      BY <1>4, <2>1, Goto DEF ReadOriginal, WorkerPC, ServicePC, ShellPC
    <2>3. QED
      BY <1>4, <1>t, <2>2, MoveType DEF ReadOriginal
  <1>5. CASE WriteNormalized(w)
    <2>1. Fit("succeed", s)
      BY <1>5, <1>b DEF WriteNormalized, Fit, Stages
    <2>2. WorkerOK'
      BY <1>5, <2>1, Goto DEF WriteNormalized, WorkerPC, ServicePC, ShellPC
    <2>3. QED
      BY <1>5, <1>b, <1>t, <2>2 DEF WriteNormalized, TypeInv, TypeOK, WorkerOK, dbVars
  <1>6. CASE ReadNormalized(w)
    <2>1. Fit("fail", s) /\ Fit("replace", s)
      BY <1>6 DEF ReadNormalized, Fit, Stages
    <2>2. WorkerOK'
      BY <1>6, <2>1, Goto DEF ReadNormalized, WorkerPC, ServicePC, ShellPC
    <2>3. QED
      BY <1>6, <1>t, <2>2, MoveType DEF ReadNormalized
  <1>7. CASE ReplaceChunks(w)
    <2>1. s = "chunk" /\ Fit("enqueue", s) /\ Fit("retry", s)
      BY <1>7, <1>b DEF ReplaceChunks, ReplaceForDocument, Fit, Stages
    <2>2. WorkerOK'
      BY <1>7, <2>1, Goto DEF ReplaceChunks, ReplaceForDocument, WorkerPC, ServicePC, ShellPC
    <2>3. CASE UNCHANGED dbVars
      BY <1>7, <1>t, <2>2, <2>3, MoveType DEF ReplaceChunks, ReplaceForDocument
    <2>4. CASE ~UNCHANGED dbVars
      <3>1. PICK n \in ChunkCounts : todo' = [todo EXCEPT ![d] = 1 .. n]
        BY <1>7, <2>4 DEF ReplaceChunks, ReplaceForDocument
      <3>2. n \in Nat /\ 1 .. n \in SUBSET Nat
        BY ConstantsAssumption
      <3>3. todo' \in [Docs -> SUBSET Nat] /\ gen' \in [Docs -> Nat]
        <4>1. d \in Docs
          BY <1>7, <1>b DEF ReplaceChunks
        <4>2. todo \in [Docs -> SUBSET Nat] /\ gen \in [Docs -> Nat]
          BY <1>t DEF TypeOK
        <4>3. gen' = [gen EXCEPT ![d] = @ + 1]
          BY <1>7, <2>4 DEF ReplaceChunks, ReplaceForDocument
        <4>4. gen[d] + 1 \in Nat
          BY <4>1, <4>2
        <4>5. gen' \in [Docs -> Nat]
          BY <4>2, <4>3, <4>4
        <4>6. todo' \in [Docs -> SUBSET Nat]
          BY <3>1, <3>2, <4>2
        <4>7. QED
          BY <4>5, <4>6
      <3>4. status' \in [Docs -> Status] /\ jobs' \in [Docs -> [Stages -> JobStatus]]
        <4>1. d \in Docs /\ Finish(d, "chunk", "succeeded", NextStatus["chunk"])
          BY <1>7, <1>b, <2>4 DEF ReplaceChunks
        <4>2. "chunk" \in Stages /\ "succeeded" \in JobStatus /\ NextStatus["chunk"] \in Status
          BY Tables DEF JobStatus, Stages
        <4>3. QED
          BY <1>t, <4>1, <4>2, FinishType
      <3>5. UNCHANGED <<files, queue, request, faults, restarts>>
        BY <1>7 DEF ReplaceChunks
      <3>6. TypeOK' /\ WorkerShape'
        BY <1>t, <2>2, <3>3, <3>4, <3>5 DEF TypeOK, WorkerOK
      <3>7. QED
        BY <3>6 DEF TypeInv
    <2>5. QED
      BY <2>3, <2>4
  <1>8. CASE ListUnembedded(w)
    <2>1. s = "embed" /\ Fit("succeed", s) /\ Fit("provider", s)
      BY <1>8, <1>b DEF ListUnembedded, Fit, ServicePC, Stages
    <2>2. CASE todo[d] = {}
      <3>1. WorkerOK'
        BY <1>8, <2>1, <2>2, Goto DEF ListUnembedded, WorkerPC, ServicePC, ShellPC
      <3>2. QED
        BY <1>8, <1>t, <3>1, MoveType DEF ListUnembedded
    <2>3. CASE todo[d] # {}
      <3> DEFINE wk == [worker[w] EXCEPT !.pc = "provider", !.gen = gen[d],
                                         !.batch = FirstBatch(todo[d])]
      <3>1. FirstBatch(todo[d]) \in SUBSET Nat /\ gen[d] \in Nat
        BY <1>8, <1>b, <1>t DEF ListUnembedded, FirstBatch, TypeOK
      <3>2. wk \in BusyWorker /\ wk.pc = "provider" /\ wk.task = s
        BY <1>8, <1>b, <3>1 DEF ListUnembedded, BusyWorker, WorkerPC, ServicePC, ShellPC
      <3>3. worker' = [worker EXCEPT ![w] = wk]
        BY <1>8, <2>3 DEF ListUnembedded
      <3>4. worker' \in [Workers -> BusyWorker \cup {IdleWorker}]
        BY <1>t, <3>2, <3>3 DEF TypeOK
      <3>5. \A v \in Workers : Fit(worker'[v].pc, worker'[v].task)
        BY <1>t, <2>1, <3>2, <3>3 DEF TypeOK, TypeInv, WorkerShape
      <3>6. WorkerOK'
        BY <3>4, <3>5 DEF WorkerOK, WorkerShape, Fit
      <3>7. QED
        BY <1>8, <1>t, <3>6, MoveType DEF ListUnembedded
    <2>4. QED
      BY <2>2, <2>3
  <1>9. CASE CallProvider(w)
    <2>1. Fit("store", s) /\ Fit("fail", s)
      BY <1>9, <1>b DEF CallProvider, Fit, ServicePC, Stages
    <2>2. WorkerOK'
      BY <1>9, <2>1, Goto DEF CallProvider, WorkerPC, ServicePC, ShellPC
    <2>3. QED
      BY <1>9, <1>t, <2>2, MoveType DEF CallProvider
  <1>10. CASE StoreEmbeddings(w)
    <2> DEFINE wk == [worker[w] EXCEPT !.pc = "list", !.gen = 0, !.batch = {}]
    <2>1. s = "embed" /\ Fit("list", s)
      BY <1>10, <1>b DEF StoreEmbeddings, SetEmbeddings, Fit, ServicePC, Stages
    <2>2. wk \in BusyWorker /\ wk.pc = "list" /\ wk.task = s
      BY <1>10, <1>b DEF StoreEmbeddings, SetEmbeddings, BusyWorker, WorkerPC, ServicePC, ShellPC
    <2>3. worker' = [worker EXCEPT ![w] = wk]
      BY <1>10 DEF StoreEmbeddings, SetEmbeddings
    <2>4. worker' \in [Workers -> BusyWorker \cup {IdleWorker}]
      BY <1>t, <2>2, <2>3 DEF TypeOK
    <2>5. \A v \in Workers : Fit(worker'[v].pc, worker'[v].task)
      BY <1>t, <2>1, <2>2, <2>3 DEF TypeOK, TypeInv, WorkerShape
    <2>6. WorkerOK'
      BY <2>4, <2>5 DEF WorkerOK, WorkerShape, Fit
    <2>7. todo' \in [Docs -> SUBSET Nat]
      BY <1>10, <1>b, <1>t DEF StoreEmbeddings, SetEmbeddings, TypeOK
    <2>8. QED
      BY <1>10, <2>6, <2>7 DEF StoreEmbeddings, SetEmbeddings, TypeInv, TypeOK, WorkerOK
  <1>11. CASE Succeed(w)
    <2>1. s \in {"parse", "embed"} /\ Fit("exit", s) /\ Fit("retry", s)
          /\ (s # "embed" => Fit("enqueue", s))
      BY <1>11, <1>b DEF Succeed, Fit, ServicePC, Stages
    <2>2. WorkerOK'
      BY <1>11, <2>1, Goto DEF Succeed, WorkerPC, ServicePC, ShellPC
    <2>3. status' \in [Docs -> Status] /\ jobs' \in [Docs -> [Stages -> JobStatus]]
      BY <1>11, <1>b, <1>t, <2>1, FinishType, Tables DEF Succeed, JobStatus, Stages, TypeOK
    <2>4. QED
      BY <1>11, <2>2, <2>3 DEF Succeed, TypeInv, TypeOK, WorkerOK
  <1>12. CASE EnqueueNext(w)
    <2>1. s \in {"parse", "chunk"} /\ Fit("exit", s)
      BY <1>12, <1>b DEF EnqueueNext, Fit, ServicePC, Stages
    <2>2. Msg(NextTask[s], d, 0) \in Message
      BY <1>12, <1>b, <2>1, Tables, ConstantsAssumption DEF EnqueueNext, Msg, Message, Tasks
    <2>3. WorkerOK'
      BY <1>12, <2>1, Goto DEF EnqueueNext, WorkerPC, ServicePC, ShellPC
    <2>4. queue' \in [Message -> Nat]
      BY <1>12, <1>t, <2>2, PublishType DEF EnqueueNext, TypeOK
    <2>5. QED
      BY <1>12, <2>3, <2>4 DEF EnqueueNext, TypeInv, TypeOK, WorkerOK, dbVars
  <1>13. CASE MarkFailed(w)
    <2>1. s \in Stages /\ Fit("exit", s) /\ Fit("retry", s)
      BY <1>13, <1>b DEF MarkFailed, Fit, ServicePC, Stages
    <2>2. WorkerOK'
      BY <1>13, <2>1, Goto DEF MarkFailed, WorkerPC, ServicePC, ShellPC
    <2>3. status' \in [Docs -> Status] /\ jobs' \in [Docs -> [Stages -> JobStatus]]
      BY <1>13, <1>b, <1>t, <2>1, FinishType DEF MarkFailed, JobStatus, Status, TypeOK
    <2>4. QED
      BY <1>13, <2>2, <2>3 DEF MarkFailed, TypeInv, TypeOK, WorkerOK
  <1>14. CASE Exit(w)
    BY <1>14, <1>t, Done, MoveType DEF Exit
  <1>15. CASE Purge(w)
    <2>1. WorkerOK'
      BY <1>15, Done DEF Purge
    <2>2. QED
      BY <1>15, <1>b, <1>t, <2>1 DEF Purge, TypeInv, TypeOK, WorkerOK, dbVars
  <1>16. CASE Retry(w)
    <2>1. s \in Stages /\ Fit("shellfail", s) /\ MaxRetries[s] \in 0 .. RetryLimit
      BY <1>16, <1>b, ConstantsAssumption DEF Retry, Fit, ShellPC
    <2>2. CASE worker[w].retries < MaxRetries[s] /\ WorkerDone(w)
               /\ Publish(Msg(s, d, worker[w].retries + 1))
      <3>1. worker[w].retries + 1 \in 0 .. RetryLimit
        BY <1>16, <1>b, <2>1, <2>2, ConstantsAssumption DEF Retry
      <3>2. Msg(s, d, worker[w].retries + 1) \in Message
        BY <1>16, <1>b, <3>1 DEF Retry, Msg, Message
      <3>3. queue' \in [Message -> Nat] /\ WorkerOK'
        BY <1>t, <2>2, <3>2, PublishType, Done DEF TypeOK
      <3>4. QED
        BY <1>16, <3>3 DEF Retry, TypeInv, TypeOK, WorkerOK, dbVars
    <2>3. CASE WorkerGoto(w, "shellfail") /\ UNCHANGED queue
      <3>1. WorkerOK'
        BY <1>16, <2>1, <2>3, Goto DEF Retry, WorkerPC, ShellPC
      <3>2. QED
        BY <1>16, <1>t, <2>3, <3>1, MoveType DEF Retry
    <2>4. CASE WorkerDone(w) /\ UNCHANGED queue
      BY <1>16, <1>t, <2>4, Done, MoveType DEF Retry
    <2>5. QED
      BY <1>16, <2>2, <2>3, <2>4 DEF Retry
  <1>17. CASE ShellFail(w)
    <2>1. s \in Stages
      BY <1>17, <1>b DEF ShellFail, Fit, ShellPC
    <2>2. WorkerOK'
      BY <1>17, Done DEF ShellFail
    <2>3. status' \in [Docs -> Status] /\ jobs' \in [Docs -> [Stages -> JobStatus]]
      <3>1. d \in Docs
        BY <1>17, <1>b DEF ShellFail, ShellPC
      <3>2. "failed" \in JobStatus /\ "failed" \in Status
        BY DEF JobStatus, Status
      <3>3. CASE Exists(d)
        BY <1>17, <1>t, <2>1, <3>1, <3>2, <3>3, FinishType DEF ShellFail
      <3>4. CASE ~Exists(d)
        BY <1>17, <1>t, <3>4 DEF ShellFail, TypeOK
      <3>5. QED
        BY <3>3, <3>4
    <2>4. QED
      BY <1>17, <2>2, <2>3 DEF ShellFail, TypeInv, TypeOK, WorkerOK
  <1>18. CASE TransactionAborted(w)
    <2>1. CASE WorkerDone(w)
      BY <1>18, <1>t, <2>1, Done, MoveType DEF TransactionAborted
    <2>2. CASE WorkerGoto(w, "retry")
      <3>1. worker[w].pc \in ServicePC \cup ShellPC /\ worker[w].pc # "idle"
        BY <1>18 DEF TransactionAborted, ServicePC, ShellPC
      <3>2. Fit("retry", s)
        BY <1>b, <3>1 DEF Fit, ServicePC
      <3>3. WorkerOK'
        BY <2>2, <3>1, <3>2, Goto DEF WorkerPC
      <3>4. QED
        BY <1>18, <1>t, <3>3, MoveType DEF TransactionAborted
    <2>3. QED
      BY <1>18, <2>1, <2>2 DEF TransactionAborted
  <1>19. QED
    BY <1>1, <1>2, <1>3, <1>4, <1>5, <1>6, <1>7, <1>8, <1>9, <1>10, <1>11, <1>12, <1>13,
       <1>14, <1>15, <1>16, <1>17, <1>18 DEF StageStep

\* Every failure of a worker keeps the types.
LEMMA WorkerFaultType ==
    ASSUME TypeInv, NEW w \in Workers, WorkerFault(w), HistoryOK'
    PROVE  TypeInv'
  <1>1. /\ UNCHANGED <<dbVars, files, request, restarts>>
        /\ worker[w].pc # "idle"
        /\ \E k \in AllFaults : Fault(k)
        /\ \/ WorkerDone(w)
           \/ WorkerGoto(w, "retry") /\ worker[w].pc \in ServicePC
           \/ WorkerGoto(w, "shellfail") /\ worker[w].pc \in ServicePC
           \/ WorkerGoto(w, "timedout") /\ worker[w].pc \in ServicePC
    BY Busy DEF WorkerFault, IoError, ProviderTransient, DbError, ShellDbError, EnqueueNextFails,
           RetryPublishFails, SoftTimeout, ShellTimeout, WorkerCrash, WorkerAt, ServicePC, ShellPC,
           AllFaults, TypeInv, TypeOK, BusyWorker, WorkerPC
  <1>2. faults' \in Nat
    BY <1>1 DEF Fault, TypeInv, TypeOK
  <1>3. worker[w].pc \in ServicePC => /\ Fit("retry", worker[w].task)
                                   /\ Fit("shellfail", worker[w].task)
                                   /\ Fit("timedout", worker[w].task)
    BY <1>1, BusyFields DEF Fit, ShellPC
  <1>4. WorkerOK'
    BY <1>1, <1>3, Done, Goto DEF WorkerPC, ShellPC
  <1>5. CASE UNCHANGED queue
    BY <1>1, <1>2, <1>4, <1>5, MoveType
  <1>6. CASE EnqueueNextFails(w) /\ ~UNCHANGED queue
    <2>1. worker[w].doc \in Docs /\ NextTask[worker[w].task] \in Stages
      BY <1>1, <1>6, BusyFields, Tables DEF EnqueueNextFails, WorkerAt, Fit
    <2>2. Msg(NextTask[worker[w].task], worker[w].doc, 0) \in Message
      BY <2>1, ConstantsAssumption DEF Msg, Message, Tasks
    <2>3. queue' \in [Message -> Nat]
      BY <1>6, <2>2, PublishType DEF EnqueueNextFails, TypeInv, TypeOK
    <2>4. QED
      BY <1>1, <1>2, <1>4, <2>3 DEF TypeInv, TypeOK, WorkerOK, HistoryOK, dbVars
  <1>7. QED
    BY <1>5, <1>6 DEF WorkerFault, IoError, ProviderTransient, DbError, ShellDbError,
       RetryPublishFails, SoftTimeout, ShellTimeout, WorkerCrash

\* The history names documents, and forgets none.
LEMMA HistoryStep ==
    ASSUME TypeInv, [Next]_vars
    PROVE  HistoryOK' /\ overtaken \subseteq overtaken' /\ stranded \subseteq stranded'
  <1>0. HistoryOK
    BY DEF TypeInv, TypeOK, HistoryOK
  <1>1. CASE UNCHANGED history
    BY <1>0, <1>1 DEF history, HistoryOK
  <1>2. CASE UserStep
    BY <1>1, <1>2 DEF UserStep, UploadPut, RestartCheck, Delete
  <1>3. ASSUME NEW r \in Requests, RequestStep(r) \/ RequestFault(r)
        PROVE  HistoryOK' /\ overtaken \subseteq overtaken' /\ stranded \subseteq stranded'
    <2>1. CASE RestartWrite(r) \/ EnqueueStageFails(r) \/ RequestCrash(r)
      <3>1. request[r].pc # "idle"
        BY <2>1, BusyRequests DEF RestartWrite, EnqueueStageFails, RequestCrash, TypeInv, TypeOK,
           BusyRequest, RequestPC
      <3>2. request[r].doc \in Docs
        BY <3>1, BusyRequests DEF TypeInv, BusyRequest
      <3>3. QED
        BY <1>0, <2>1, <3>2 DEF RestartWrite, EnqueueStageFails, RequestCrash, HistoryOK,
           OvertakenIf, StrandedIf
    <2>2. QED
      BY <1>1, <1>3, <2>1 DEF RequestStep, RequestFault, UploadCreate, RestartStage, Refresh,
         EnqueueStage, MarkUnqueued, EnqueuePurge, EnqueuePurgeFails
  <1>4. ASSUME NEW w \in Workers, WorkerStep(w) \/ WorkerFault(w)
        PROVE  HistoryOK' /\ overtaken \subseteq overtaken' /\ stranded \subseteq stranded'
    <2>1. CASE \/ Retry(w) \/ DbError(w) \/ ShellDbError(w) \/ EnqueueNextFails(w)
               \/ RetryPublishFails(w) \/ SoftTimeout(w) \/ ShellTimeout(w) \/ WorkerCrash(w)
      <3>1. worker[w].pc # "idle"
        BY <2>1, Busy DEF Retry, DbError, ShellDbError, EnqueueNextFails, RetryPublishFails,
           SoftTimeout, ShellTimeout, WorkerCrash, WorkerAt, ServicePC, ShellPC, TypeInv, TypeOK,
           BusyWorker, WorkerPC
      <3>2. worker[w].doc \in Docs
        BY <3>1, BusyFields
      <3>3. QED
        BY <1>0, <2>1, <3>2 DEF Retry, DbError, ShellDbError, EnqueueNextFails, RetryPublishFails,
           SoftTimeout, ShellTimeout, WorkerCrash, HistoryOK, OvertakenIf, StrandedIf
    <2>2. QED
      BY <1>1, <1>4, <2>1 DEF WorkerStep, StageStep, WorkerFault, Receive, Claim, ClaimSkipped,
         Load, ReadOriginal, WriteNormalized, ReadNormalized, ReplaceChunks, ListUnembedded,
         CallProvider, StoreEmbeddings, Succeed, EnqueueNext, MarkFailed, Exit, Purge, ShellFail,
         TransactionAborted, IoError, ProviderTransient
  <1>5. QED
    BY <1>1, <1>2, <1>3, <1>4 DEF Next, vars, history

\* The type invariant is inductive.
LEMMA NextType == TypeInv /\ [Next]_vars => TypeInv'
  <1> SUFFICES ASSUME TypeInv, [Next]_vars
               PROVE  TypeInv'
    OBVIOUS
  <1>0. HistoryOK'
    BY HistoryStep
  <1>1. CASE UNCHANGED vars
    BY <1>1 DEF vars, TypeInv, TypeOK, WorkerShape, Fit
  <1>2. CASE UserStep
    BY <1>0, <1>2, UserStepType
  <1>3. ASSUME NEW r \in Requests, RequestStep(r) \/ RequestFault(r)
        PROVE  TypeInv'
    BY <1>0, <1>3, RequestStepType
  <1>4. ASSUME NEW w \in Workers, WorkerStep(w) \/ WorkerFault(w)
        PROVE  TypeInv'
    BY <1>0, <1>4, ReceiveType, StageStepType, WorkerFaultType DEF WorkerStep
  <1>5. QED
    BY <1>1, <1>2, <1>3, <1>4 DEF Next

\* The type invariant holds initially.
LEMMA InitType == Init => TypeInv
  BY DEF Init, TypeInv, TypeOK, WorkerShape, Fit, IdleWorker, IdleRequest, Message, Status,
         Processing, JobStatus, ServicePC, ShellPC, Stages

\* The variables of the pipeline keep their types: in particular a document and
\* its jobs only ever hold the statuses that the CHECK constraints
\* ck_documents_status and ck_jobs_status admit.
THEOREM TypeCorrect == Spec => []TypeOK
  <1>1. TypeInv => TypeOK
    BY DEF TypeInv
  <1>2. QED
    BY <1>1, InitType, NextType, PTL DEF Spec

(***************************************************************************)
(* The input of the chunk stage is there                                   *)
(***************************************************************************)
\* Every action that changes a row of documents.
LEMMA StatusChange ==
    ASSUME TypeInv, Next, NEW d \in Docs, status'[d] # status[d]
    PROVE  \/ \E r \in Requests : UploadCreate(r) \/ RestartWrite(r) \/ MarkUnqueued(r)
           \/ \E r \in Requests : Delete(r, d)
           \/ \E w \in Workers : Claim(w) \/ ReplaceChunks(w) \/ Succeed(w) \/ MarkFailed(w)
                                 \/ ShellFail(w)
  <1>1. CASE UserStep
    BY <1>1 DEF UserStep, UploadPut, RestartCheck, Delete, dbVars, TypeInv, TypeOK
  <1>2. ASSUME NEW r \in Requests, RequestStep(r) \/ RequestFault(r)
        PROVE  UploadCreate(r) \/ RestartWrite(r) \/ MarkUnqueued(r)
    BY <1>2 DEF RequestStep, RequestFault, RestartStage, Refresh, EnqueueStage, EnqueuePurge,
                EnqueueStageFails, EnqueuePurgeFails, RequestCrash, dbVars
  <1>3. ASSUME NEW w \in Workers, WorkerStep(w) \/ WorkerFault(w)
        PROVE  Claim(w) \/ ReplaceChunks(w) \/ Succeed(w) \/ MarkFailed(w) \/ ShellFail(w)
    BY <1>3 DEF WorkerStep, StageStep, WorkerFault, Receive, ClaimSkipped, Load, ReadOriginal,
                WriteNormalized, ReadNormalized, ListUnembedded, CallProvider, StoreEmbeddings,
                SetEmbeddings,
                EnqueueNext, Exit, Purge, Retry, TransactionAborted, IoError, ProviderTransient,
                DbError, ShellDbError, EnqueueNextFails, RetryPublishFails, SoftTimeout, ShellTimeout,
                WorkerCrash, dbVars
  <1>4. QED
    BY <1>1, <1>2, <1>3 DEF Next

\* A deleted document stays deleted: no UPDATE or INSERT brings its row back.
LEMMA DeletedForGood ==
    ASSUME TypeInv, [Next]_vars, NEW d \in Docs, status[d] = "deleted"
    PROVE  status'[d] = "deleted"
  <1> SUFFICES ASSUME status'[d] # status[d]
               PROVE  FALSE
    OBVIOUS
  <1>1. Next
    BY DEF vars
  <1>2. ASSUME NEW r \in Requests, UploadCreate(r) \/ RestartWrite(r) \/ MarkUnqueued(r)
        PROVE  FALSE
    BY <1>2, BusyRequests DEF UploadCreate, RestartWrite, MarkUnqueued, Exists, BusyRequest,
       RequestPC,
            TypeInv, TypeOK
  <1>3. ASSUME NEW w \in Workers, Claim(w) \/ ReplaceChunks(w) \/ Succeed(w) \/ MarkFailed(w)
                                  \/ ShellFail(w)
        PROVE  FALSE
    <2>1. worker[w].doc \in Docs /\ (Claim(w) => worker[w].task \in Stages)
      BY <1>3, BusyFields DEF Claim, ClaimRow, MarkRunning, ReplaceChunks, ReplaceForDocument,
         Succeed, MarkFailed, ShellFail, WorkerAt, Fit,
         ServicePC, ShellPC
    <2>2. CASE Claim(w)
      BY <2>1, <2>2, Tables DEF Claim, ClaimRow, MarkRunning, TypeInv, TypeOK
    <2>3. CASE ~Claim(w)
      BY <1>3, <2>1, <2>3 DEF ReplaceChunks, ReplaceForDocument, Succeed, MarkFailed, ShellFail,
         Finish, MarkFinished, SetStatus, Exists,
         TypeInv, TypeOK, dbVars
    <2>4. QED
      BY <2>2, <2>3
  <1>4. ~\E r \in Requests : Delete(r, d)
    BY DEF Delete, Exists
  <1>5. QED
    BY <1>1, <1>2, <1>3, <1>4, StatusChange

\* The actions that publish a message.
LEMMA QueueGrowth ==
    ASSUME TypeInv, [Next]_vars, NEW m \in Message, queue'[m] > 0
    PROVE  \/ queue[m] > 0
           \/ \E r \in Requests : /\ EnqueueStage(r) \/ EnqueueStageFails(r)
                                  /\ m = Msg(request[r].stage, request[r].doc, 0)
           \/ \E r \in Requests : EnqueuePurge(r) /\ m = Msg("purge", request[r].doc, 0)
           \/ \E w \in Workers : /\ EnqueueNext(w) \/ EnqueueNextFails(w)
                                 /\ m = Msg(NextTask[worker[w].task], worker[w].doc, 0)
           \/ \E w \in Workers : /\ Retry(w)
                                 /\ m = Msg(worker[w].task, worker[w].doc, worker[w].retries + 1)
  <1> SUFFICES ASSUME ~(queue[m] > 0), Next
               PROVE  \/ \E r \in Requests : /\ EnqueueStage(r) \/ EnqueueStageFails(r)
                                             /\ m = Msg(request[r].stage, request[r].doc, 0)
                      \/ \E r \in Requests : EnqueuePurge(r) /\ m = Msg("purge", request[r].doc, 0)
                      \/ \E w \in Workers : /\ EnqueueNext(w) \/ EnqueueNextFails(w)
                                            /\ m = Msg(NextTask[worker[w].task], worker[w].doc, 0)
                      \/ \E w \in Workers : /\ Retry(w)
                                            /\ m = Msg(worker[w].task, worker[w].doc, worker[w].retries + 1)
    BY DEF vars
  <1>q. queue[m] \in Nat /\ queue' # queue
    BY DEF TypeInv, TypeOK
  <1>1. CASE UserStep
    BY <1>1, <1>q DEF UserStep, UploadPut, RestartCheck, Delete
  <1>2. ASSUME NEW r \in Requests, RequestStep(r) \/ RequestFault(r)
        PROVE  \/ /\ EnqueueStage(r) \/ EnqueueStageFails(r)
                  /\ m = Msg(request[r].stage, request[r].doc, 0)
               \/ EnqueuePurge(r) /\ m = Msg("purge", request[r].doc, 0)
    <2>1. EnqueueStage(r) \/ EnqueueStageFails(r) \/ EnqueuePurge(r)
      BY <1>2, <1>q DEF RequestStep, RequestFault, UploadCreate, RestartStage, RestartWrite,
         Refresh, MarkUnqueued, EnqueuePurgeFails, RequestCrash
    <2>2. QED
      BY <2>1, <1>q DEF EnqueueStage, EnqueueStageFails, EnqueuePurge, Publish, TypeInv, TypeOK
  <1>3. ASSUME NEW w \in Workers, WorkerStep(w) \/ WorkerFault(w)
        PROVE  \/ /\ EnqueueNext(w) \/ EnqueueNextFails(w)
                  /\ m = Msg(NextTask[worker[w].task], worker[w].doc, 0)
               \/ Retry(w) /\ m = Msg(worker[w].task, worker[w].doc, worker[w].retries + 1)
    <2>1. CASE \E n \in Message : Receive(w, n)
      BY <2>1, <1>q DEF Receive, TypeInv, TypeOK
    <2>2. CASE EnqueueNext(w) \/ EnqueueNextFails(w)
      BY <2>2, <1>q DEF EnqueueNext, EnqueueNextFails, Publish, TypeInv, TypeOK
    <2>3. CASE Retry(w)
      BY <2>3, <1>q DEF Retry, Publish, TypeInv, TypeOK
    <2>4. QED
      BY <1>3, <1>q, <2>1, <2>2, <2>3 DEF WorkerStep, StageStep, WorkerFault, Claim, ClaimRow,
         MarkRunning, ClaimSkipped,
         Load, ReadOriginal, WriteNormalized, ReadNormalized, ReplaceChunks, ReplaceForDocument,
         ListUnembedded,
         CallProvider, StoreEmbeddings, SetEmbeddings, Succeed, MarkFailed, Exit, Purge, ShellFail,
         TransactionAborted, IoError, ProviderTransient, DbError, ShellDbError,
         RetryPublishFails, SoftTimeout, ShellTimeout, WorkerCrash
  <1>4. QED
    BY <1>1, <1>2, <1>3 DEF Next

\* A worker keeps its document and task until it is idle; a new task is received.
LEMMA WorkerChange ==
    ASSUME TypeInv, [Next]_vars, NEW w \in Workers
    PROVE  \/ worker'[w].doc = worker[w].doc /\ worker'[w].task = worker[w].task
           \/ worker'[w] = IdleWorker
           \/ \E m \in Message : Receive(w, m) /\ queue[m] > 0 /\ worker'[w].doc = m.doc
                                 /\ worker'[w].task = m.task /\ worker'[w].pc \in {"purge", "claim"}
  <1>1. CASE UNCHANGED worker
    BY <1>1
  <1>2. CASE worker' # worker
    <2>1. PICK v \in Workers : WorkerStep(v) \/ WorkerFault(v)
      BY <1>2 DEF vars, Next, UserStep, UploadPut, RestartCheck, Delete, RequestStep, RequestFault,
         UploadCreate, RestartStage, RestartWrite, Refresh, EnqueueStage, MarkUnqueued,
         EnqueuePurge,
         EnqueueStageFails, EnqueuePurgeFails, RequestCrash
    <2>2. CASE \E m \in Message : Receive(v, m)
      <3>1. PICK m \in Message : Receive(v, m)
        BY <2>2
      <3>2. CASE v = w
        BY <3>1, <3>2 DEF Receive, IdleWorker, TypeInv, TypeOK
      <3>3. CASE v # w
        BY <3>1, <3>3 DEF Receive, TypeInv, TypeOK
      <3>4. QED
        BY <3>2, <3>3
    <2>3. CASE StageStep(v) \/ WorkerFault(v)
      <3>1. \/ WorkerDone(v)
            \/ \E pc \in WorkerPC : WorkerGoto(v, pc)
            \/ ListUnembedded(v) \/ StoreEmbeddings(v)
        BY <2>3 DEF StageStep, WorkerFault, Claim, ClaimRow, MarkRunning, ClaimSkipped,
           Load, ReadOriginal, WriteNormalized, ReadNormalized, ReplaceChunks, ReplaceForDocument,
           CallProvider, Succeed, EnqueueNext, MarkFailed, Exit, Purge, Retry, ShellFail,
           TransactionAborted, IoError, ProviderTransient, DbError, ShellDbError,
           EnqueueNextFails, RetryPublishFails, SoftTimeout, ShellTimeout, WorkerCrash, WorkerPC, ServicePC, ShellPC
      <3>2. CASE WorkerDone(v)
        BY <3>2 DEF WorkerDone, TypeInv, TypeOK
      <3>b. worker[v].pc # "idle" => worker[v] \in BusyWorker
        BY Busy DEF TypeInv
      <3>3. ASSUME NEW pc \in WorkerPC, WorkerGoto(v, pc)
            PROVE  worker'[w].doc = worker[w].doc /\ worker'[w].task = worker[w].task
        <4>1. worker[v] \in BusyWorker \/ worker[v] = IdleWorker
          BY DEF TypeInv, TypeOK
        <4>2. worker'[v].doc = worker[v].doc /\ worker'[v].task = worker[v].task
          BY <3>3, <4>1 DEF WorkerGoto, TypeInv, TypeOK, BusyWorker, IdleWorker
        <4>3. w # v => worker'[w] = worker[w]
          BY <3>3 DEF WorkerGoto, TypeInv, TypeOK
        <4>4. QED
          BY <4>2, <4>3
      <3>4. CASE ListUnembedded(v)
        BY <3>4, <3>3, <3>b DEF ListUnembedded, WorkerAt, WorkerPC, ServicePC, ShellPC, BusyWorker,
           TypeInv, TypeOK
      <3>5. CASE StoreEmbeddings(v)
        BY <3>5, <3>b DEF StoreEmbeddings, SetEmbeddings, WorkerAt, BusyWorker, TypeInv, TypeOK
      <3>6. QED
        BY <3>1, <3>2, <3>3, <3>4, <3>5
    <2>4. QED
      BY <2>1, <2>2, <2>3 DEF WorkerStep
  <1>3. QED
    BY <1>1, <1>2

\* A request keeps its document until it is idle; a new one starts by user action.
LEMMA RequestChange ==
    ASSUME TypeInv, [Next]_vars, NEW r \in Requests, request'[r] # request[r]
    PROVE  \/ request'[r] = IdleRequest
           \/ \E d \in Docs : /\ UploadPut(r, d) \/ RestartCheck(r, d)
                              /\ request'[r].stage = "parse" /\ request'[r].pc # "purge"
           \/ \E d \in Docs : /\ Delete(r, d)
                              /\ request'[r].stage = "parse" /\ request'[r].doc = d
           \/ /\ RestartStage(r)
              /\ request'[r].stage = FirstFailedStage(request[r].doc)
              /\ request'[r].doc = request[r].doc /\ request'[r].pc # "purge"
           \/ /\ request'[r].stage = request[r].stage
              /\ request'[r].doc = request[r].doc /\ request'[r].pc # "purge"
  <1>1. CASE UserStep
    BY <1>1 DEF UserStep, UploadPut, RestartCheck, Delete, TypeInv, TypeOK
  <1>2. ASSUME NEW q \in Requests, RequestStep(q) \/ RequestFault(q)
        PROVE  q = r /\
           \/ request'[r] = IdleRequest
           \/ /\ RestartStage(r)
              /\ request'[r].stage = FirstFailedStage(request[r].doc)
              /\ request'[r].doc = request[r].doc /\ request'[r].pc # "purge"
           \/ /\ request'[r].stage = request[r].stage
              /\ request'[r].doc = request[r].doc /\ request'[r].pc # "purge"
    <2>1. CASE RestartStage(q)
      BY <2>1, BusyRequests DEF RestartStage, BusyRequest, RequestPC, TypeInv, TypeOK
    <2>2. CASE ~RestartStage(q)
      <3>1. \/ RequestDone(q)
            \/ \E pc \in {"refresh", "enqueue", "unqueued"} : RequestGoto(q, pc)
        BY <1>2, <2>2 DEF RequestStep, RequestFault, UploadCreate, RestartWrite, Refresh,
           EnqueueStage,
           MarkUnqueued, EnqueuePurge, EnqueueStageFails, EnqueuePurgeFails, RequestCrash
      <3>2. request[q] \in BusyRequest \/ request[q] = IdleRequest
        BY DEF TypeInv, TypeOK
      <3>3. QED
        BY <3>1, <3>2 DEF RequestDone, RequestGoto, BusyRequest, RequestPC, IdleRequest, TypeInv,
           TypeOK
    <2>3. QED
      BY <2>1, <2>2
  <1>3. ASSUME NEW w \in Workers, WorkerStep(w) \/ WorkerFault(w)
        PROVE  FALSE
    BY <1>3 DEF WorkerStep, StageStep, WorkerFault, Receive, Claim, ClaimRow, MarkRunning,
       ClaimSkipped,
         Load, ReadOriginal, WriteNormalized, ReadNormalized, ReplaceChunks, ReplaceForDocument,
         ListUnembedded,
         CallProvider, StoreEmbeddings, SetEmbeddings, Succeed, EnqueueNext, MarkFailed, Exit,
         Purge, Retry,
         ShellFail, TransactionAborted, IoError, ProviderTransient, DbError, ShellDbError,
         EnqueueNextFails, RetryPublishFails, SoftTimeout, ShellTimeout, WorkerCrash
  <1>4. QED
    BY <1>1, <1>2, <1>3 DEF Next, vars

\* A purge is asked for, queued and executed for deleted documents only
\* (DocumentService.delete commits before it enqueues).
LEMMA PurgeStep ==
    ASSUME TypeInv, PurgeAfterDelete, [Next]_vars
    PROVE  PurgeAfterDelete'
  <1>1. ASSUME NEW m \in Message, m.task = "purge", queue'[m] > 0
        PROVE  status'[m.doc] = "deleted"
    <2>1. m.doc \in Docs
      BY DEF Message
    <2>2. CASE queue[m] > 0
      BY <1>1, <2>1, <2>2, DeletedForGood DEF PurgeAfterDelete
    <2>3. ASSUME NEW r \in Requests, EnqueuePurge(r), m = Msg("purge", request[r].doc, 0)
          PROVE  status'[m.doc] = "deleted"
      BY <2>1, <2>3, DeletedForGood DEF EnqueuePurge, Msg, PurgeAfterDelete
    <2>4. ASSUME NEW r \in Requests, EnqueueStage(r) \/ EnqueueStageFails(r),
                 m = Msg(request[r].stage, request[r].doc, 0)
          PROVE  FALSE
      BY <1>1, <2>4, BusyRequests DEF EnqueueStage, EnqueueStageFails, Msg, BusyRequest, RequestPC, Stages, TypeInv
    <2>5. ASSUME NEW w \in Workers, EnqueueNext(w) \/ EnqueueNextFails(w),
                 m = Msg(NextTask[worker[w].task], worker[w].doc, 0)
          PROVE  FALSE
      BY <1>1, <2>5, BusyFields, Tables DEF EnqueueNext, EnqueueNextFails, WorkerAt, Msg, Fit, Stages
    <2>6. ASSUME NEW w \in Workers, Retry(w),
                 m = Msg(worker[w].task, worker[w].doc, worker[w].retries + 1)
          PROVE  FALSE
      BY <1>1, <2>6, BusyFields DEF Retry, WorkerAt, Msg, Fit, Stages
    <2>7. QED
      BY <1>1, <2>2, <2>3, <2>4, <2>5, <2>6, QueueGrowth
  <1>2. ASSUME NEW w \in Workers, worker'[w].task = "purge"
        PROVE  status'[worker'[w].doc] = "deleted"
    <2>1. CASE worker'[w].doc = worker[w].doc /\ worker'[w].task = worker[w].task
      <3>1. worker[w].doc \in Docs
        BY <1>2, <2>1 DEF TypeInv, TypeOK, BusyWorker, IdleWorker
      <3>2. QED
        BY <1>2, <2>1, <3>1, DeletedForGood DEF PurgeAfterDelete
    <2>2. ASSUME NEW m \in Message, queue[m] > 0, worker'[w].doc = m.doc, worker'[w].task = m.task
          PROVE  status'[worker'[w].doc] = "deleted"
      BY <1>2, <2>2, DeletedForGood DEF PurgeAfterDelete, Message
    <2>3. QED
      BY <1>2, <2>1, <2>2, WorkerChange DEF IdleWorker
  <1>3. ASSUME NEW r \in Requests, request'[r].pc = "purge"
        PROVE  status'[request'[r].doc] = "deleted"
    <2>1. CASE request'[r] = request[r]
      BY <1>3, <2>1, BusyRequests, DeletedForGood DEF PurgeAfterDelete, BusyRequest, RequestPC,
         TypeInv
    <2>2. ASSUME NEW d \in Docs, Delete(r, d), request'[r].doc = d
          PROVE  status'[request'[r].doc] = "deleted"
      BY <2>2 DEF Delete, TypeInv, TypeOK
    <2>3. QED
      BY <1>3, <2>1, <2>2, RequestChange DEF IdleRequest
  <1>4. QED
    BY <1>1, <1>2, <1>3 DEF PurgeAfterDelete

\* Only a purge takes normalized.json away, and the document is deleted by then.
LEMMA ParsedStable ==
    ASSUME TypeInv, PurgeAfterDelete, [Next]_vars, NEW d \in Docs, Parsed(d)
    PROVE  Parsed(d)'
  <1>1. CASE status[d] = "deleted"
    BY <1>1, DeletedForGood DEF Parsed
  <1>2. CASE status[d] # "deleted" /\ "normalized" \in files[d]
    <2>1. ASSUME NEW r \in Requests, NEW e \in Docs, UploadPut(r, e)
          PROVE  "normalized" \in files'[d]
      BY <1>2, <2>1 DEF UploadPut, TypeInv, TypeOK
    <2>2. ASSUME NEW w \in Workers, Purge(w)
          PROVE  "normalized" \in files'[d]
      <3>1. worker[w].task = "purge" /\ worker[w].doc \in Docs
        BY <2>2, BusyFields DEF Purge, WorkerAt, Fit
      <3>2. worker[w].doc # d
        BY <1>2, <3>1 DEF PurgeAfterDelete
      <3>3. files' = [files EXCEPT ![worker[w].doc] = {}]
        BY <2>2 DEF Purge
      <3>4. files'[d] = files[d]
        BY <3>2, <3>3 DEF TypeInv, TypeOK
      <3>5. QED
        BY <1>2, <3>4
    <2>3. ASSUME NEW w \in Workers, WriteNormalized(w)
          PROVE  "normalized" \in files'[d]
      BY <1>2, <2>3 DEF WriteNormalized, TypeInv, TypeOK
    <2>4. CASE UNCHANGED files
      BY <1>2, <2>4 DEF Parsed
    <2>5. \/ UNCHANGED files
          \/ \E r \in Requests, e \in Docs : UploadPut(r, e)
          \/ \E w \in Workers : WriteNormalized(w) \/ Purge(w)
      <3>1. ASSUME UserStep
            PROVE  UNCHANGED files \/ \E r \in Requests, e \in Docs : UploadPut(r, e)
        BY <3>1 DEF UserStep, RestartCheck, Delete
      <3>2. ASSUME NEW r \in Requests, RequestStep(r) \/ RequestFault(r)
            PROVE  UNCHANGED files
        BY <3>2 DEF RequestStep, RequestFault, UploadCreate, RestartStage, RestartWrite, Refresh,
           EnqueueStage, MarkUnqueued, EnqueuePurge, EnqueueStageFails, EnqueuePurgeFails,
           RequestCrash
      <3>3. ASSUME NEW w \in Workers, WorkerStep(w)
            PROVE  UNCHANGED files \/ WriteNormalized(w) \/ Purge(w)
        BY <3>3 DEF WorkerStep, StageStep, Receive, Claim, ClaimRow, MarkRunning, ClaimSkipped,
           Load, ReadOriginal, ReadNormalized, ReplaceChunks, ReplaceForDocument, ListUnembedded,
           CallProvider, StoreEmbeddings, SetEmbeddings, Succeed, EnqueueNext, MarkFailed, Exit,
           Retry, ShellFail, TransactionAborted
      <3>4. ASSUME NEW w \in Workers, WorkerFault(w)
            PROVE  UNCHANGED files
        BY <3>4 DEF WorkerFault, IoError, ProviderTransient, DbError, ShellDbError,
           EnqueueNextFails, RetryPublishFails, SoftTimeout, ShellTimeout, WorkerCrash
      <3>5. QED
        BY <3>1, <3>2, <3>3, <3>4 DEF vars, Next
    <2>6. QED
      BY <2>1, <2>2, <2>3, <2>4, <2>5 DEF Parsed
  <1>3. QED
    BY <1>1, <1>2 DEF Parsed

\* Every action that changes a row of ingestion_jobs, but for the cascade.
LEMMA JobsChange ==
    ASSUME TypeInv, [Next]_vars, NEW d \in Docs, NEW s \in Stages, jobs'[d][s] # jobs[d][s]
    PROVE  \/ \E r \in Requests : Delete(r, d)
           \/ \E w \in Workers : worker[w].doc = d /\ worker[w].task = s
  <1>1. CASE UserStep
    <2>1. PICK r \in Requests, e \in Docs : UploadPut(r, e) \/ RestartCheck(r, e) \/ Delete(r, e)
      BY <1>1 DEF UserStep
    <2>2. Delete(r, e)
      BY <2>1 DEF UploadPut, RestartCheck, dbVars
    <2>3. e = d
      BY <2>2 DEF Delete, TypeInv, TypeOK
    <2>4. QED
      BY <2>2, <2>3
  <1>2. ASSUME NEW r \in Requests, RequestStep(r) \/ RequestFault(r)
        PROVE  FALSE
    BY <1>2 DEF RequestStep, RequestFault, UploadCreate, RestartStage, RestartWrite, Refresh,
       EnqueueStage,
                MarkUnqueued, EnqueuePurge, EnqueueStageFails, EnqueuePurgeFails, RequestCrash,
                dbVars
  <1>3. ASSUME NEW w \in Workers, WorkerStep(w) \/ WorkerFault(w)
        PROVE  worker[w].doc = d /\ worker[w].task = s
    <2>1. Claim(w) \/ ReplaceChunks(w) \/ Succeed(w) \/ MarkFailed(w) \/ ShellFail(w)
      <3>1. ~UNCHANGED dbVars
        BY DEF dbVars
      <3>2. CASE WorkerStep(w)
        BY <3>1, <3>2 DEF WorkerStep, StageStep, Receive, ClaimSkipped, Load, ReadOriginal,
           WriteNormalized, ReadNormalized, ListUnembedded, CallProvider, StoreEmbeddings,
           SetEmbeddings, EnqueueNext, Exit, Purge, Retry, TransactionAborted, dbVars
      <3>3. CASE WorkerFault(w)
        BY <3>1, <3>3 DEF WorkerFault, IoError, ProviderTransient, DbError, ShellDbError,
           EnqueueNextFails, RetryPublishFails, SoftTimeout, ShellTimeout, WorkerCrash
      <3>4. QED
        BY <1>3, <3>2, <3>3
    <2>2. worker[w].doc \in Docs /\ worker[w].task \in Stages
      BY <2>1, BusyFields DEF Claim, ClaimRow, MarkRunning, ReplaceChunks, ReplaceForDocument,
         Succeed, MarkFailed, ShellFail, WorkerAt, Fit,
         ServicePC, ShellPC
    <2>3. CASE Claim(w)
      BY <2>2, <2>3 DEF Claim, ClaimRow, MarkRunning, TypeInv, TypeOK
    <2>4. CASE ReplaceChunks(w)
      <3>1. worker[w].task = "chunk"
        BY <2>4, BusyFields DEF ReplaceChunks, ReplaceForDocument, WorkerAt, Fit
      <3>2. QED
        BY <2>2, <2>4, <3>1 DEF ReplaceChunks, ReplaceForDocument, Finish, MarkFinished,
           SetStatus, TypeInv, TypeOK, dbVars
    <2>5. CASE Succeed(w) \/ MarkFailed(w) \/ ShellFail(w)
      BY <2>2, <2>5 DEF Succeed, MarkFailed, ShellFail, Finish, MarkFinished, SetStatus, TypeInv,
         TypeOK
    <2>6. QED
      BY <2>1, <2>3, <2>4, <2>5
  <1>4. CASE UNCHANGED vars
    BY <1>4 DEF vars
  <1>5. QED
    BY <1>1, <1>2, <1>3, <1>4 DEF Next

\* A document is past parse only after parse has written its output.
LEMMA StatusParsed ==
    ASSUME TypeInv, PurgeAfterDelete, ParsedBefore, [Next]_vars, NEW d \in Docs,
           status'[d] \in {"chunking", "embedding", "ready"}
    PROVE  Parsed(d)'
  <1> SUFFICES Parsed(d)
    BY ParsedStable
  <1>1. CASE status'[d] = status[d]
    BY <1>1 DEF ParsedBefore
  <1>2. CASE status'[d] # status[d]
    <2>1. Next
      BY <1>2 DEF vars
    <2>2. ASSUME NEW r \in Requests, UploadCreate(r) \/ MarkUnqueued(r) \/ Delete(r, d)
          PROVE  FALSE
      BY <1>2, <2>2 DEF UploadCreate, MarkUnqueued, Delete, TypeInv, TypeOK
    <2>3. ASSUME NEW r \in Requests, RestartWrite(r)
          PROVE  Parsed(d)
      <3>1. request[r].doc = d /\ status'[d] = EntryStatus[request[r].stage]
        BY <1>2, <2>3 DEF RestartWrite, TypeInv, TypeOK
      <3>2. request[r].stage \in Stages
        BY <2>3, BusyRequests DEF RestartWrite, BusyRequest, RequestPC, TypeInv
      <3>3. QED
        BY <3>1, <3>2 DEF EntryStatus, Stages, Later, ParsedBefore
    <2>4. ASSUME NEW w \in Workers, Claim(w)
          PROVE  Parsed(d)
      <3>1. worker[w].doc = d /\ status'[d] = RunningStatus[worker[w].task]
        BY <1>2, <2>4 DEF Claim, ClaimRow, MarkRunning, TypeInv, TypeOK
      <3>2. worker[w].task \in Stages
        BY <2>4, BusyFields DEF Claim, ClaimRow, MarkRunning, WorkerAt, Fit, ServicePC
      <3>3. QED
        BY <3>1, <3>2 DEF RunningStatus, Stages, Later, ParsedBefore
    <2>5. ASSUME NEW w \in Workers, ReplaceChunks(w) \/ Succeed(w)
          PROVE  Parsed(d)
      <3>1. worker[w].doc = d
        BY <1>2, <2>5 DEF ReplaceChunks, ReplaceForDocument, Succeed, Finish, MarkFinished,
           SetStatus, dbVars, TypeInv, TypeOK
      <3>2. \/ worker[w].task \in Later
            \/ worker[w].task = "parse" /\ worker[w].pc = "succeed"
        BY <2>5, BusyFields DEF ReplaceChunks, ReplaceForDocument, Succeed, WorkerAt, Fit, Later
      <3>3. QED
        BY <3>1, <3>2 DEF ParsedBefore
    <2>6. ASSUME NEW w \in Workers, MarkFailed(w) \/ ShellFail(w)
          PROVE  FALSE
      BY <1>2, <2>6 DEF MarkFailed, ShellFail, Finish, MarkFinished, SetStatus, TypeInv, TypeOK
    <2>7. QED
      BY <1>2, <2>1, <2>2, <2>3, <2>4, <2>5, <2>6, StatusChange
  <1>3. QED
    BY <1>1, <1>2

\* A job of a later stage was claimed, or ended, by a worker executing that stage.
LEMMA JobsParsed ==
    ASSUME TypeInv, PurgeAfterDelete, ParsedBefore, [Next]_vars, NEW d \in Docs,
           NEW s \in Later, jobs'[d][s] # "none"
    PROVE  Parsed(d)'
  <1> SUFFICES Parsed(d)
    BY ParsedStable
  <1>0. s \in Stages
    BY DEF Later, Stages
  <1>1. CASE jobs'[d][s] = jobs[d][s]
    BY <1>1 DEF ParsedBefore
  <1>2. ASSUME NEW r \in Requests, Delete(r, d)
        PROVE  FALSE
    BY <1>0, <1>2 DEF Delete, TypeInv, TypeOK
  <1>3. ASSUME NEW w \in Workers, worker[w].doc = d, worker[w].task = s
        PROVE  Parsed(d)
    BY <1>3 DEF ParsedBefore
  <1>4. QED
    BY <1>0, <1>1, <1>2, <1>3, JobsChange

\* A message of a later stage follows the success of parse.
LEMMA QueueParsed ==
    ASSUME TypeInv, PurgeAfterDelete, ParsedBefore, [Next]_vars, NEW m \in Message,
           m.task \in Later, queue'[m] > 0
    PROVE  Parsed(m.doc)'
  <1>1. m.doc \in Docs
    BY DEF Message
  <1> SUFFICES Parsed(m.doc)
    BY <1>1, ParsedStable DEF Parsed
  <1>2. CASE queue[m] > 0
    BY <1>2 DEF ParsedBefore
  <1>3. ASSUME NEW r \in Requests, m = Msg(request[r].stage, request[r].doc, 0)
        PROVE  Parsed(m.doc)
    BY <1>3 DEF Msg, ParsedBefore
  <1>4. ASSUME NEW r \in Requests, m = Msg("purge", request[r].doc, 0)
        PROVE  FALSE
    BY <1>4 DEF Msg, Later
  <1>5. ASSUME NEW w \in Workers, EnqueueNext(w) \/ EnqueueNextFails(w),
               m = Msg(NextTask[worker[w].task], worker[w].doc, 0)
        PROVE  Parsed(m.doc)
    <2>1. worker[w].pc = "enqueue" /\ worker[w].task \in {"parse", "chunk"}
      BY <1>5, BusyFields DEF EnqueueNext, EnqueueNextFails, WorkerAt, Fit
    <2>2. QED
      BY <1>5, <2>1 DEF Msg, ParsedBefore, Later
  <1>6. ASSUME NEW w \in Workers, Retry(w),
               m = Msg(worker[w].task, worker[w].doc, worker[w].retries + 1)
        PROVE  Parsed(m.doc)
    BY <1>6 DEF Msg, ParsedBefore
  <1>7. QED
    BY <1>2, <1>3, <1>4, <1>5, <1>6, QueueGrowth

\* The steps that bring a worker to "succeed" or "enqueue".
LEMMA ReachSucceed ==
    ASSUME TypeInv, [Next]_vars, NEW w \in Workers,
           worker'[w].pc \in {"succeed", "enqueue"}, worker'[w] # worker[w]
    PROVE  WriteNormalized(w) \/ ListUnembedded(w) \/ Succeed(w) \/ ReplaceChunks(w)
  <1>1. PICK v \in Workers : WorkerStep(v) \/ WorkerFault(v)
    BY DEF vars, Next, UserStep, UploadPut, RestartCheck, Delete, RequestStep, RequestFault,
       UploadCreate, RestartStage, RestartWrite, Refresh, EnqueueStage, MarkUnqueued, EnqueuePurge,
       EnqueueStageFails, EnqueuePurgeFails, RequestCrash
  <1>2. worker[v] \in BusyWorker \/ worker[v] = IdleWorker
    BY DEF TypeInv, TypeOK
  <1>3. ASSUME NEW m \in Message, Receive(v, m)
        PROVE  FALSE
    BY <1>3 DEF Receive, IdleWorker, TypeInv, TypeOK
  <1>4. CASE WorkerDone(v)
    BY <1>4 DEF WorkerDone, IdleWorker, TypeInv, TypeOK
  <1>5. ASSUME NEW pc \in WorkerPC \ {"succeed", "enqueue"}, WorkerGoto(v, pc)
        PROVE  FALSE
    BY <1>2, <1>5 DEF WorkerGoto, BusyWorker, IdleWorker, TypeInv, TypeOK
  <1>6. CASE StoreEmbeddings(v)
    BY <1>2, <1>6 DEF StoreEmbeddings, SetEmbeddings, BusyWorker, IdleWorker, TypeInv, TypeOK
  <1>7. CASE WriteNormalized(v) \/ ListUnembedded(v) \/ Succeed(v) \/ ReplaceChunks(v)
    <2>1. v = w
      BY <1>7 DEF WriteNormalized, ListUnembedded, Succeed, ReplaceChunks, ReplaceForDocument,
         WorkerGoto, TypeInv, TypeOK
    <2>2. QED
      BY <1>7, <2>1
  <1>8. \/ WorkerDone(v)
        \/ \E pc \in WorkerPC \ {"succeed", "enqueue"} : WorkerGoto(v, pc)
        \/ StoreEmbeddings(v)
        \/ WriteNormalized(v) \/ ListUnembedded(v) \/ Succeed(v) \/ ReplaceChunks(v)
        \/ \E m \in Message : Receive(v, m)
    BY <1>1 DEF WorkerStep, StageStep, WorkerFault, Claim, ClaimRow, MarkRunning, ClaimSkipped,
       Load, ReadOriginal, ReadNormalized, CallProvider, EnqueueNext, MarkFailed, Exit, Purge,
       Retry, ShellFail, TransactionAborted, IoError, ProviderTransient, DbError, ShellDbError,
       EnqueueNextFails, RetryPublishFails, SoftTimeout, ShellTimeout, WorkerCrash, WorkerPC, ServicePC, ShellPC
  <1>9. QED
    BY <1>3, <1>4, <1>5, <1>6, <1>7, <1>8

\* A worker executes a later stage, or ends parse, after the output is written.
LEMMA WorkerParsed ==
    ASSUME TypeInv, PurgeAfterDelete, ParsedBefore, [Next]_vars, NEW w \in Workers,
           \/ worker'[w].task \in Later
           \/ worker'[w].task = "parse" /\ worker'[w].pc \in {"succeed", "enqueue"}
    PROVE  Parsed(worker[w].doc)'
  <1>1. ASSUME NEW d \in Docs, worker'[w].doc = d, Parsed(d)
        PROVE  Parsed(worker[w].doc)'
    <2>1. Parsed(d)'
      BY <1>1, ParsedStable
    <2>2. QED
      BY <1>1, <2>1 DEF Parsed
  <1>2. CASE worker'[w] = worker[w]
    <2>1. worker[w].doc \in Docs
      BY <1>2 DEF Later, IdleWorker, BusyWorker, TypeInv, TypeOK
    <2>2. QED
      BY <1>1, <1>2, <2>1 DEF ParsedBefore
  <1>3. ASSUME worker'[w] # worker[w],
               worker'[w].doc = worker[w].doc, worker'[w].task = worker[w].task
        PROVE  Parsed(worker[w].doc)'
    <2>1. worker[w].doc \in Docs
      BY <1>3 DEF Later, IdleWorker, BusyWorker, TypeInv, TypeOK
    <2>2. CASE worker[w].task \in Later
      BY <1>1, <1>3, <2>1, <2>2 DEF ParsedBefore
    <2>3. CASE worker[w].task = "parse"
      <3>1. worker'[w].pc \in {"succeed", "enqueue"}
        BY <1>3, <2>3 DEF Later
      <3>2. ~ListUnembedded(w) /\ ~ReplaceChunks(w)
        BY <2>3, BusyFields DEF ListUnembedded, ReplaceChunks, ReplaceForDocument, WorkerAt, Fit
      <3>3. CASE WriteNormalized(w)
        BY <1>3, <2>1, <3>3 DEF WriteNormalized, Parsed, TypeInv, TypeOK
      <3>4. CASE Succeed(w)
        <4>1. worker[w].pc = "succeed"
          BY <3>4 DEF Succeed, WorkerAt
        <4>2. Parsed(worker[w].doc)
          BY <2>3, <4>1 DEF ParsedBefore
        <4>3. QED
          BY <1>1, <1>3, <2>1, <4>2
      <3>5. QED
        BY <1>3, <3>1, <3>2, <3>3, <3>4, ReachSucceed
    <2>4. QED
      BY <1>3, <2>2, <2>3
  <1>4. ASSUME NEW m \in Message, queue[m] > 0, worker'[w].doc = m.doc,
               worker'[w].task = m.task, worker'[w].pc \in {"purge", "claim"}
        PROVE  Parsed(worker[w].doc)'
    <2>1. m.task \in Later /\ m.doc \in Docs
      BY <1>4 DEF Message
    <2>2. QED
      BY <1>1, <1>4, <2>1 DEF ParsedBefore
  <1>5. worker'[w] # IdleWorker
    BY DEF IdleWorker, Later
  <1>6. QED
    BY <1>2, <1>3, <1>4, <1>5, WorkerChange

\* A request restarts a later stage because its job, whose input was there, failed.
LEMMA RequestParsed ==
    ASSUME TypeInv, PurgeAfterDelete, ParsedBefore, [Next]_vars, NEW r \in Requests,
           request'[r].stage \in Later
    PROVE  Parsed(request[r].doc)'
  <1>1. ASSUME NEW d \in Docs, request'[r].doc = d, Parsed(d)
        PROVE  Parsed(request[r].doc)'
    <2>1. Parsed(d)'
      BY <1>1, ParsedStable
    <2>2. QED
      BY <1>1, <2>1 DEF Parsed
  <1>2. CASE request'[r].stage = request[r].stage /\ request'[r].doc = request[r].doc
    <2>1. request[r].doc \in Docs
      BY <1>2 DEF Later, IdleRequest, BusyRequest, RequestPC, TypeInv, TypeOK
    <2>2. QED
      BY <1>1, <1>2, <2>1 DEF ParsedBefore
  <1>3. ASSUME RestartStage(r), request'[r].stage = FirstFailedStage(request[r].doc),
               request'[r].doc = request[r].doc
        PROVE  Parsed(request[r].doc)'
    <2>1. request[r].doc \in Docs
      BY <1>3, BusyRequests DEF RestartStage, BusyRequest, RequestPC, TypeInv
    <2>2. jobs[request[r].doc][request'[r].stage] = "failed"
      BY <1>3, <2>1 DEF FirstFailedStage, Later
    <2>3. QED
      BY <1>1, <1>3, <2>1, <2>2 DEF ParsedBefore
  <1>4. request'[r] # IdleRequest /\ request'[r].stage # "parse"
    BY DEF IdleRequest, Later
  <1>5. QED
    BY <1>2, <1>3, <1>4, RequestChange

\* The strengthened invariant is inductive.
LEMMA StageInputStep == StageInputInv /\ [Next]_vars => StageInputInv'
  <1> SUFFICES ASSUME StageInputInv, [Next]_vars
               PROVE  StageInputInv'
    OBVIOUS
  <1>0. TypeInv /\ PurgeAfterDelete /\ ParsedBefore
    BY DEF StageInputInv, TypeInv
  <1>1. TypeInv'
    BY <1>0, NextType
  <1>2. PurgeAfterDelete'
    BY <1>0, PurgeStep
  <1>3. ParsedBefore'
    BY <1>0, StatusParsed, JobsParsed, QueueParsed, WorkerParsed, RequestParsed DEF ParsedBefore
  <1>4. QED
    BY <1>1, <1>2, <1>3 DEF StageInputInv, TypeInv

\* The strengthened invariant holds initially.
LEMMA StageInputInit == Init => StageInputInv
  <1> SUFFICES ASSUME Init
               PROVE  StageInputInv
    OBVIOUS
  <1>1. TypeInv
    BY InitType
  <1>2. PurgeAfterDelete
    BY DEF Init, PurgeAfterDelete, IdleWorker, IdleRequest
  <1>3. ParsedBefore
    BY DEF Init, ParsedBefore, Later, Stages, IdleWorker, IdleRequest
  <1>4. QED
    BY <1>1, <1>2, <1>3 DEF StageInputInv, TypeInv

\* Under every interleaving of requests, workers, retries and failures, a stage
\* after parse finds normalized.json: IngestionService.chunk never meets the
\* FileNotFoundError it handles, but for a document deleted meanwhile.
THEOREM StageInputAlwaysPresent == Spec => []StageInputPresent
  <1>1. StageInputInv => StageInputPresent
    <2> SUFFICES ASSUME StageInputInv
                 PROVE  StageInputPresent
      OBVIOUS
    <2>1. ASSUME NEW d \in Docs, status[d] \in {"chunking", "embedding", "ready"}
          PROVE  "normalized" \in files[d]
      BY <2>1 DEF StageInputInv, ParsedBefore, Parsed
    <2>2. ASSUME NEW w \in Workers, WorkerAt(w, "read"), worker[w].task = "chunk",
                 Exists(worker[w].doc)
          PROVE  "normalized" \in files[worker[w].doc]
      BY <2>2 DEF StageInputInv, ParsedBefore, Parsed, Exists, Later
    <2>3. QED
      BY <2>1, <2>2 DEF StageInputPresent
  <1>2. QED
    BY <1>1, StageInputInit, StageInputStep, PTL DEF Spec
=============================================================================
