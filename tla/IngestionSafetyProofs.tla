------------------------ MODULE IngestionSafetyProofs ------------------------
(***************************************************************************)
(* What the pipeline promises about the work itself, under every failure   *)
(* of the model and any number of requests and workers: none is lost but   *)
(* where the process that holds it lets go of it (stranded), and the       *)
(* stages of a document are serialised as long as nobody acts on it after  *)
(* what he had read has changed (overtaken).                               *)
(***************************************************************************)
EXTENDS IngestionProofs, FiniteSetTheorems

(***************************************************************************)
(* The steps of one process, for the proofs that follow an owner           *)
(***************************************************************************)
\* A worker's step leaves the requests alone.
LEMMA WorkersLeaveRequests ==
    ASSUME NEW w \in Workers, WorkerStep(w) \/ WorkerFault(w)
    PROVE  request' = request
  <1>1. CASE WorkerStep(w)
    BY <1>1 DEF WorkerStep, StageStep, Receive, Claim, ClaimSkipped, Load, ReadOriginal,
       WriteNormalized, ReadNormalized, ReplaceChunks, ListUnembedded, CallProvider,
       StoreEmbeddings, Succeed, EnqueueNext, MarkFailed, Exit, Purge, Retry, ShellFail,
       TransactionAborted
  <1>2. CASE WorkerFault(w)
    BY <1>2 DEF WorkerFault, IoError, ProviderTransient, DbError, ShellDbError,
       EnqueueNextFails, RetryPublishFails, SoftTimeout, ShellTimeout, WorkerCrash
  <1>3. QED
    BY <1>1, <1>2

\* A worker whose state changes took a step of its own.
LEMMA WorkerMoves ==
    ASSUME TypeInv, [Next]_vars, NEW w \in Workers, worker'[w] # worker[w]
    PROVE  (\E m \in Message : Receive(w, m)) \/ StageStep(w) \/ WorkerFault(w)
  <1>1. PICK v \in Workers : WorkerStep(v) \/ WorkerFault(v)
    BY DEF vars, Next, UserStep, UploadPut, RestartCheck, Delete, RequestStep, RequestFault,
       UploadCreate, RestartStage, RestartWrite, Refresh, EnqueueStage, MarkUnqueued,
       EnqueuePurge, EnqueueStageFails, EnqueuePurgeFails, RequestCrash
  <1>2. CASE v = w
    BY <1>1, <1>2 DEF WorkerStep
  <1>3. CASE v # w
    <2>1. CASE \E m \in Message : Receive(v, m)
      BY <1>3, <2>1 DEF Receive, TypeInv, TypeOK
    <2>2. CASE StageStep(v)
      <3>1. worker' = [worker EXCEPT ![v] = worker'[v]]
        BY <2>2 DEF StageStep, Claim, ClaimSkipped, Load, ReadOriginal, WriteNormalized,
           ReadNormalized, ReplaceChunks, ListUnembedded, CallProvider, StoreEmbeddings, Succeed,
           EnqueueNext, MarkFailed, Exit, Purge, Retry, ShellFail, TransactionAborted,
           WorkerGoto, WorkerDone, TypeInv, TypeOK
      <3>2. QED
        BY <1>3, <3>1 DEF TypeInv, TypeOK
    <2>3. CASE WorkerFault(v)
      BY <1>3, <2>3 DEF WorkerFault, IoError, ProviderTransient, DbError, ShellDbError,
         EnqueueNextFails, RetryPublishFails, SoftTimeout, ShellTimeout, WorkerCrash, WorkerGoto, WorkerDone,
         TypeInv, TypeOK
    <2>4. QED
      BY <1>1, <2>1, <2>2, <2>3 DEF WorkerStep
  <1>4. QED
    BY <1>2, <1>3

(***************************************************************************)
(* No work is lost                                                         *)
(***************************************************************************)
Owned(d) ==
    \/ \E m \in Message : MessageOwns(m, d)
    \/ \E w \in Workers : WorkerOwns(w, d)
    \/ \E r \in Requests : RequestOwns(r, d)

CreatesForParse == \A r \in Requests : request[r].pc = "create" => request[r].stage = "parse"

\* The statuses a stage writes and reads.
LEMMA Statuses ==
    /\ \A s \in Stages : RunningStatus[s] \in Processing /\ EntryStatus[s] \in Processing
    /\ \A s \in Stages : EntryStatus[s] \in AllowedFrom[s]
    /\ \A s \in {"chunk", "embed"} : RunningStatus[s] \in AllowedFrom[s]
    /\ \A s \in {"parse", "chunk"} : /\ NextTask[s] \in Stages
                                     /\ NextStatus[s] \in AllowedFrom[NextTask[s]]
    /\ NextStatus["embed"] = "ready" /\ "ready" \notin Processing
    /\ "failed" \notin Processing /\ "deleted" \notin Processing /\ "absent" \notin Processing
    /\ EntryStatus["parse"] = "pending"
  BY DEF Stages, RunningStatus, EntryStatus, AllowedFrom, NextStatus, NextTask, Processing

\* Only an upload creates a row, and it enqueues parse.
LEMMA CreatesNext == TypeInv /\ CreatesForParse /\ [Next]_vars => CreatesForParse'
  <1> SUFFICES ASSUME TypeInv, CreatesForParse, [Next]_vars, NEW r \in Requests,
                      request'[r].pc = "create"
               PROVE  request'[r].stage = "parse"
    BY DEF CreatesForParse
  <1>1. CASE request'[r] = request[r]
    BY <1>1 DEF CreatesForParse
  <1>2. CASE request'[r] # request[r]
    <2>1. CASE request'[r] = IdleRequest
      BY <2>1 DEF IdleRequest
    <2>2. CASE RestartStage(r)
      BY <2>2 DEF RestartStage, TypeInv, TypeOK
    <2>3. CASE /\ request'[r].stage = request[r].stage
               /\ request'[r].doc = request[r].doc /\ request'[r].pc # "purge"
               /\ ~RestartStage(r)
      <3>1. PICK q \in Requests : RequestStep(q) \/ RequestFault(q) \/ UserStep
        BY <1>2, WorkersLeaveRequests DEF vars, Next
      <3>2. CASE UserStep
        BY <3>2, <1>2 DEF UserStep, UploadPut, RestartCheck, Delete, TypeInv, TypeOK
      <3>3. CASE RequestStep(q) \/ RequestFault(q)
        <4>1. request[q].pc # "idle" => request[q] \in BusyRequest
          BY BusyRequests DEF TypeInv
        <4>2. \/ RequestDone(q)
              \/ RestartStage(q)
              \/ \E pc \in RequestPC \ {"create"} : request[q].pc # "idle" /\ RequestGoto(q, pc)
          BY <3>3 DEF RequestStep, RequestFault, UploadCreate, RestartWrite, Refresh, EnqueueStage,
             MarkUnqueued, EnqueuePurge, EnqueueStageFails, EnqueuePurgeFails, RequestCrash,
             RequestPC
        <4>3. r = q
          BY <4>2, <1>2 DEF RequestDone, RestartStage, RequestGoto, TypeInv, TypeOK
        <4>4. CASE RequestDone(q)
          BY <4>3, <4>4 DEF RequestDone, IdleRequest, TypeInv, TypeOK
        <4>5. CASE RestartStage(q)
          BY <4>3, <4>5, <2>3
        <4>6. CASE \E pc \in RequestPC \ {"create"} : request[q].pc # "idle" /\ RequestGoto(q, pc)
          BY <4>1, <4>3, <4>6 DEF RequestGoto, BusyRequest, TypeInv, TypeOK
        <4>7. QED
          BY <4>2, <4>4, <4>5, <4>6
      <3>4. QED
        BY <3>1, <3>2, <3>3
    <2>4. QED
      BY <1>2, <2>1, <2>2, <2>3, RequestChange
  <1>3. QED
    BY <1>1, <1>2

\* What WorkerGoto makes of the worker that moves.
LEMMA Moved ==
    ASSUME TypeInv, NEW w \in Workers, worker[w].pc # "idle", NEW pc \in WorkerPC,
           WorkerGoto(w, pc)
    PROVE  /\ worker'[w].pc = pc
           /\ worker'[w].doc = worker[w].doc
           /\ worker'[w].task = worker[w].task
           /\ worker'[w].retries = worker[w].retries
  <1>1. worker[w] \in BusyWorker
    BY Busy DEF TypeInv
  <1>2. worker'[w] = [worker[w] EXCEPT !.pc = pc]
    BY DEF WorkerGoto, TypeInv, TypeOK
  <1>3. QED
    BY <1>1, <1>2 DEF BusyWorker

\* The worker that moves a document into a processing status holds it then, and
\* one that held it before its step still does, or has handed it on.
LEMMA WorkerKeeps ==
    ASSUME TypeInv, NEW w \in Workers, NEW d \in Docs \ stranded',
           worker[w].doc = d,
           StageStep(w) \/ WorkerFault(w),
           WorkerOwns(w, d) \/ status'[d] # status[d],
           status'[d] \in Processing
    PROVE  Owned(d)'
  <1> DEFINE s == worker[w].task
             n == worker[w].retries
  <1>b. worker[w].pc # "idle" =>
           /\ worker[w] \in BusyWorker
           /\ s \in Tasks
           /\ n \in 0 .. RetryLimit
           /\ worker[w].pc \in WorkerPC
           /\ Fit(worker[w].pc, s)
    BY BusyFields
  <1>t. status \in [Docs -> Status] /\ queue \in [Message -> Nat]
    BY DEF TypeInv, TypeOK
  <1>w. ASSUME worker'[w].doc = d,
               \/ /\ worker'[w].pc = "claim"
                  /\ s' \in Stages /\ status'[d] \in AllowedFrom[s']
               \/ /\ worker'[w].pc \in {"load", "read", "write", "replace", "list", "provider",
                                        "store", "succeed", "fail"}
                  /\ status'[d] = RunningStatus[s']
               \/ worker'[w].pc = "enqueue" /\ status'[d] = NextStatus[s']
               \/ /\ worker'[w].pc = "retry" /\ s' \in Stages
                  /\ status'[d] \in AllowedFrom[s'] \/ status'[d] \in OwnStatus(s')
               \/ worker'[w].pc \in ShellPC
        PROVE  Owned(d)'
    BY <1>w DEF Owned, WorkerOwns, Claimable, OwnStatus
  <1>p. {"load", "read", "write", "replace", "list", "provider", "store", "succeed", "enqueue",
         "retry", "fail", "shellfail", "timedout", "claim", "exit"} \subseteq WorkerPC
    BY DEF WorkerPC, ServicePC, ShellPC
  <1>x. {"shellfail", "timedout"} = ShellPC
    BY DEF ShellPC
  <1>o. WorkerOwns(w, d) \/ status'[d] # status[d]
    OBVIOUS
  <1>r. ASSUME status'[d] = status[d],
               worker[w].pc \in {"load", "read", "write", "list", "provider", "store"}
        PROVE  status'[d] = RunningStatus[s]
    BY <1>o, <1>r DEF WorkerOwns, ShellPC
  <1> USE DEF WorkerAt
  <1>1. CASE Claim(w)
    <2>1. s \in Stages
      BY <1>1, <1>b DEF Claim, ClaimRow, Fit, ServicePC
    <2>2. status'[d] = RunningStatus[s]
      BY <1>1, <1>t DEF Claim, ClaimRow
    <2>3. QED
      BY <1>1, <1>p, <1>w, <2>1, <2>2, Moved DEF Claim
  <1>2. CASE ClaimSkipped(w)
    BY <1>2, <1>o DEF ClaimSkipped, WorkerOwns, Claimable, ShellPC, dbVars
  <1>3. CASE Load(w)
    <2>1. status'[d] = RunningStatus[s] /\ Exists(d)
      BY <1>3, <1>r, Statuses DEF Load, Exists, dbVars
    <2>2. WorkerGoto(w, IF s = "embed" THEN "list" ELSE "read")
      BY <1>3, <2>1 DEF Load
    <2>3. QED
      BY <1>3, <1>p, <1>w, <2>1, <2>2, Moved DEF Load
  <1>4. CASE ReadOriginal(w) \/ ReadNormalized(w)
    <2>1. status'[d] = RunningStatus[s]
      BY <1>4, <1>r DEF ReadOriginal, ReadNormalized, dbVars
    <2>2. QED
      BY <1>4, <1>p, <1>w, <2>1, Moved DEF ReadOriginal, ReadNormalized
  <1>5. CASE WriteNormalized(w)
    <2>1. status'[d] = RunningStatus[s]
      BY <1>5, <1>r DEF WriteNormalized, dbVars
    <2>2. QED
      BY <1>5, <1>p, <1>w, <2>1, Moved DEF WriteNormalized
  <1>6. CASE ReplaceChunks(w)
    <2>0. s = "chunk"
      BY <1>6, <1>b DEF ReplaceChunks, Fit
    <2>1. CASE Exists(d)
      <3>1. status'[d] = NextStatus[s] /\ WorkerGoto(w, "enqueue")
        BY <1>6, <1>t, <2>0, <2>1 DEF ReplaceChunks, Finish, SetStatus
      <3>2. QED
        BY <1>6, <1>p, <1>w, <3>1, Moved DEF ReplaceChunks
    <2>2. CASE ~Exists(d)
      BY <1>6, <2>2, Statuses DEF ReplaceChunks, Exists, dbVars
    <2>3. QED
      BY <2>1, <2>2
  <1>7. CASE ListUnembedded(w)
    <2>1. status'[d] = RunningStatus[s]
      BY <1>7, <1>r DEF ListUnembedded, dbVars
    <2>2. CASE todo[d] = {}
      BY <1>7, <1>p, <1>w, <2>1, <2>2, Moved DEF ListUnembedded
    <2>3. CASE todo[d] # {}
      <3>1. /\ worker'[w].pc = "provider" /\ worker'[w].doc = d
            /\ worker'[w].task = s /\ worker'[w].retries = n
        BY <1>7, <1>b, <2>3 DEF ListUnembedded, TypeInv, TypeOK, BusyWorker
      <3>2. QED
        BY <1>w, <2>1, <3>1
    <2>4. QED
      BY <2>2, <2>3
  <1>8. CASE CallProvider(w)
    <2>1. status'[d] = RunningStatus[s]
      BY <1>8, <1>r DEF CallProvider, dbVars
    <2>2. QED
      BY <1>8, <1>p, <1>w, <2>1, Moved DEF CallProvider
  <1>9. CASE StoreEmbeddings(w)
    <2>1. status'[d] = RunningStatus[s]
      BY <1>9, <1>r DEF StoreEmbeddings
    <2>2. /\ worker'[w].pc = "list" /\ worker'[w].doc = d
          /\ worker'[w].task = s /\ worker'[w].retries = n
      BY <1>9, <1>b DEF StoreEmbeddings, TypeInv, TypeOK, BusyWorker
    <2>3. QED
      BY <1>w, <2>1, <2>2
  <1>10. CASE Succeed(w)
    <2>0. s \in {"parse", "embed"}
      BY <1>10, <1>b DEF Succeed, Fit
    <2>1. CASE Exists(d)
      <3>1. status'[d] = NextStatus[s]
        BY <1>10, <1>t, <2>1 DEF Succeed, Finish, SetStatus
      <3>2. s = "parse"
        BY <2>0, <3>1, Statuses
      <3>3. WorkerGoto(w, "enqueue")
        BY <1>10, <2>1, <3>2 DEF Succeed
      <3>4. QED
        BY <1>10, <1>p, <1>w, <3>1, <3>3, Moved DEF Succeed
    <2>2. CASE ~Exists(d)
      BY <1>10, <2>2, Statuses DEF Succeed, Exists
    <2>3. QED
      BY <2>1, <2>2
  <1>11. CASE EnqueueNext(w)
    <2>1. s \in {"parse", "chunk"} /\ status[d] = NextStatus[s] /\ status'[d] = status[d]
      BY <1>11, <1>b, <1>o DEF EnqueueNext, Fit, WorkerOwns, ShellPC, dbVars
    <2>2. NextTask[s] \in Stages /\ NextStatus[s] \in AllowedFrom[NextTask[s]]
      BY <2>1, Statuses
    <2> DEFINE m == Msg(NextTask[s], d, 0)
    <2>3. m \in Message /\ m.task = NextTask[s] /\ m.doc = d
      BY <2>2, ConstantsAssumption DEF Msg, Message, Tasks
    <2>4. queue'[m] > 0
      BY <1>11, <1>t, <2>3 DEF EnqueueNext, Publish
    <2>5. QED
      BY <2>1, <2>2, <2>3, <2>4 DEF Owned, MessageOwns, Claimable
  <1>12. CASE MarkFailed(w)
    <2>1. status'[d] = "failed" \/ (status'[d] = status[d] /\ ~Exists(d))
      BY <1>12, <1>t DEF MarkFailed, Finish, SetStatus
    <2>2. QED
      BY <2>1, Statuses DEF Exists
  <1>13. CASE Exit(w) \/ Purge(w)
    BY <1>13, <1>o DEF Exit, Purge, WorkerOwns, ShellPC, dbVars
  <1>14. CASE Retry(w)
    <2>1. s \in Stages /\ status'[d] = status[d] /\ WorkerOwns(w, d)
      BY <1>14, <1>b, <1>o DEF Retry, Fit, dbVars
    <2>2. n \in Nat /\ MaxRetries[s] \in Nat /\ TaskMaxRetries \in Nat
      BY <1>14, <1>b, <2>1, ConstantsAssumption DEF Retry
    <2>3. CASE n >= MaxRetries[s]
      <3>1. WorkerGoto(w, "shellfail")
        BY <1>14, <2>2, <2>3 DEF Retry
      <3>2. QED
        BY <1>14, <1>p, <1>w, <1>x, <3>1, Moved DEF Retry
    <2>4. CASE n < MaxRetries[s] /\ n >= TaskMaxRetries
      BY <1>14, <2>1, <2>2, <2>4 DEF Retry, StrandedIf
    <2>5. CASE n < MaxRetries[s] /\ n < TaskMaxRetries
      <3>1. /\ Publish(Msg(s, d, n + 1))
            /\ StrandedIf(status[d] \in OwnStatus(s) \ AllowedFrom[s], d)
        BY <1>14, <2>2, <2>5 DEF Retry
      <3>2. n + 1 \in 0 .. RetryLimit
        BY <1>14, <1>b, <2>1, <2>5, ConstantsAssumption DEF Retry
      <3>3. status[d] \in AllowedFrom[s]
        <4>1. status[d] \in AllowedFrom[s] \/ status[d] \in OwnStatus(s)
          BY <1>14, <2>1, <2>2, <2>5 DEF Retry, WorkerOwns, Claimable, ShellPC
        <4>2. ~(status[d] \in OwnStatus(s) \ AllowedFrom[s])
          BY <3>1 DEF StrandedIf
        <4>3. QED
          BY <4>1, <4>2
      <3> DEFINE m == Msg(s, d, n + 1)
      <3>4. m \in Message /\ m.task = s /\ m.doc = d
        BY <2>1, <3>2, ConstantsAssumption DEF Msg, Message, Tasks
      <3>5. queue'[m] > 0
        BY <1>t, <3>1, <3>4 DEF Publish
      <3>6. QED
        BY <2>1, <3>3, <3>4, <3>5 DEF Owned, MessageOwns, Claimable
    <2>6. QED
      BY <2>2, <2>3, <2>4, <2>5
  <1>15. CASE ShellFail(w)
    <2>1. status'[d] = "failed" \/ (status'[d] = status[d] /\ ~Exists(d))
      BY <1>15, <1>t DEF ShellFail, Finish, SetStatus
    <2>2. QED
      BY <2>1, Statuses DEF Exists
  <1>16. CASE TransactionAborted(w)
    <2>0. status' = status /\ s \in Stages
      BY <1>16, <1>b DEF TransactionAborted, Fit, ServicePC, ShellPC, dbVars
    <2>1. CASE worker[w].pc \in ShellPC
      <3>1. status[d] \in AllowedFrom[s]
        BY <1>16, <2>1 DEF TransactionAborted, ShellPC
      <3>2. PICK v \in Workers \ {w} :
               worker[v].doc = d /\ worker[v].task = s /\ worker[v].pc = "claim"
        BY <1>16, <2>1 DEF TransactionAborted, Conflict, ShellPC
      <3>3. worker'[v] = worker[v]
        BY <1>16, <2>1, <3>2 DEF TransactionAborted, WorkerDone, TypeInv, TypeOK
      <3>4. QED
        BY <2>0, <3>1, <3>2, <3>3 DEF Owned, WorkerOwns, Claimable
    <2>2. CASE worker[w].pc \notin ShellPC
      <3>1. status[d] \in AllowedFrom[s]
        <4>1. CASE worker[w].pc = "replace"
          BY <1>16, <1>b, <1>o, <2>0, <4>1, Statuses DEF Fit, WorkerOwns, ShellPC
        <4>2. CASE worker[w].pc # "replace"
          BY <1>16, <4>2 DEF TransactionAborted
        <4>3. QED
          BY <4>1, <4>2
      <3>2. WorkerGoto(w, "retry") /\ worker[w].pc # "idle"
        BY <1>16, <2>2 DEF TransactionAborted
      <3>3. worker'[w].pc = "retry" /\ worker'[w].doc = d /\ s' = s
        BY <1>p, <3>2, Moved
      <3>4. QED
        BY <1>w, <2>0, <3>1, <3>3
    <2>3. QED
      BY <2>1, <2>2
  <1>17. CASE WorkerFault(w)
    <2>0. status' = status
      BY <1>17 DEF WorkerFault, IoError, ProviderTransient, DbError, ShellDbError,
         EnqueueNextFails, RetryPublishFails, SoftTimeout, ShellTimeout, WorkerCrash, dbVars
    <2>1. WorkerOwns(w, d)
      BY <1>o, <2>0
    <2>2. CASE IoError(w) \/ ProviderTransient(w) \/ DbError(w)
      <3>1. worker[w].pc \in ServicePC /\ WorkerGoto(w, "retry")
        BY <2>2 DEF IoError, ProviderTransient, DbError, ServicePC
      <3>2. s \in Stages /\ worker[w].pc # "idle"
        BY <1>b, <3>1 DEF Fit, ServicePC
      <3>3. status[d] \in AllowedFrom[s] \/ status[d] \in OwnStatus(s)
        BY <2>1, <3>1, <3>2 DEF WorkerOwns, Claimable, OwnStatus, ServicePC, ShellPC
      <3>4. worker'[w].pc = "retry" /\ worker'[w].doc = d /\ s' = s
        BY <1>p, <3>1, <3>2, Moved
      <3>5. OwnStatus(s)' = OwnStatus(s)
        BY <3>4 DEF OwnStatus
      <3>6. QED
        BY <1>w, <2>0, <3>2, <3>3, <3>4, <3>5
    <2>3. CASE EnqueueNextFails(w) \/ SoftTimeout(w)
      <3>1. \E pc \in ShellPC : WorkerGoto(w, pc) /\ worker[w].pc # "idle"
        BY <1>x, <2>3 DEF EnqueueNextFails, SoftTimeout, ServicePC
      <3>2. worker'[w].pc \in ShellPC /\ worker'[w].doc = d
        BY <1>p, <1>x, <3>1, Moved
      <3>3. QED
        BY <1>w, <3>2
    <2>4. CASE \/ ShellDbError(w) \/ RetryPublishFails(w) \/ ShellTimeout(w) \/ WorkerCrash(w)
      BY <2>1, <2>4 DEF ShellDbError, RetryPublishFails, ShellTimeout, WorkerCrash, StrandedIf
    <2>5. QED
      BY <1>17, <2>2, <2>3, <2>4 DEF WorkerFault
  <1>18. QED
    BY <1>1, <1>2, <1>3, <1>4, <1>5, <1>6, <1>7, <1>8, <1>9, <1>10, <1>11, <1>12, <1>13, <1>14,
       <1>15, <1>16, <1>17 DEF StageStep

\* The request that moves a document into a processing status holds it then, and
\* one that held it before its step still does, or has handed it on.
LEMMA RequestKeeps ==
    ASSUME TypeInv, CreatesForParse, NEW r \in Requests, NEW d \in Docs \ stranded',
           request[r].doc = d,
           RequestStep(r) \/ RequestFault(r),
           RequestOwns(r, d) \/ status'[d] # status[d],
           status'[d] \in Processing
    PROVE  Owned(d)'
  <1> DEFINE s == request[r].stage
  <1>b. request[r].pc # "idle" => request[r] \in BusyRequest /\ s \in Stages
    BY BusyRequests DEF TypeInv, BusyRequest
  <1>t. status \in [Docs -> Status] /\ queue \in [Message -> Nat]
    BY DEF TypeInv, TypeOK
  <1>m. ASSUME NEW pc \in RequestPC, request[r].pc # "idle", RequestGoto(r, pc)
        PROVE  request'[r].pc = pc /\ request'[r].doc = d /\ request'[r].stage = s
    BY <1>b, <1>m DEF RequestGoto, TypeInv, TypeOK, BusyRequest
  <1>w. ASSUME request'[r].doc = d,
               \/ /\ request'[r].pc \in {"refresh", "enqueue"}
                  /\ status'[d] = EntryStatus[s']
               \/ request'[r].pc = "unqueued"
        PROVE  Owned(d)'
    BY <1>w DEF Owned, RequestOwns
  <1>p. {"refresh", "enqueue", "unqueued"} \subseteq RequestPC
    BY DEF RequestPC
  <1>1. CASE UploadCreate(r)
    <2>1. status'[d] = EntryStatus[s]
      BY <1>1, <1>t, Statuses DEF UploadCreate, CreatesForParse
    <2>2. QED
      BY <1>1, <1>m, <1>p, <1>w, <2>1 DEF UploadCreate
  <1>2. CASE RestartStage(r) \/ EnqueuePurge(r) \/ EnqueuePurgeFails(r)
    BY <1>2 DEF RestartStage, EnqueuePurge, EnqueuePurgeFails, RequestOwns, dbVars
  <1>3. CASE RestartWrite(r)
    <2>1. CASE Exists(d)
      <3>1. status'[d] = EntryStatus[s] /\ RequestGoto(r, "refresh")
        BY <1>3, <1>t, <2>1 DEF RestartWrite
      <3>2. QED
        BY <1>3, <1>m, <1>p, <1>w, <3>1 DEF RestartWrite
    <2>2. CASE ~Exists(d)
      BY <1>3, <2>2, Statuses DEF RestartWrite, Exists
    <2>3. QED
      BY <2>1, <2>2
  <1>4. CASE Refresh(r)
    <2>1. Exists(d) /\ status'[d] = status[d] /\ status[d] = EntryStatus[s]
      BY <1>4, Statuses DEF Refresh, RequestOwns, Exists, dbVars
    <2>2. QED
      BY <1>4, <1>m, <1>p, <1>w, <2>1 DEF Refresh
  <1>5. CASE EnqueueStage(r)
    <2>1. s \in Stages /\ status'[d] = status[d] /\ status[d] = EntryStatus[s]
      BY <1>5, <1>b DEF EnqueueStage, RequestOwns, dbVars
    <2> DEFINE m == Msg(s, d, 0)
    <2>2. m \in Message /\ m.task = s /\ m.doc = d
      BY <2>1, ConstantsAssumption DEF Msg, Message, Tasks
    <2>3. queue'[m] > 0
      BY <1>5, <1>t, <2>2 DEF EnqueueStage, Publish
    <2>4. status'[d] \in AllowedFrom[s]
      BY <2>1, Statuses
    <2>5. QED
      BY <2>1, <2>2, <2>3, <2>4 DEF Owned, MessageOwns, Claimable
  <1>6. CASE EnqueueStageFails(r)
    BY <1>6, <1>m, <1>p, <1>w DEF EnqueueStageFails
  <1>7. CASE MarkUnqueued(r)
    <2>1. status'[d] = "failed" \/ (status'[d] = status[d] /\ ~Exists(d))
      BY <1>7, <1>t DEF MarkUnqueued
    <2>2. QED
      BY <2>1, Statuses DEF Exists
  <1>8. CASE RequestCrash(r)
    BY <1>8 DEF RequestCrash, StrandedIf, dbVars
  <1>9. QED
    BY <1>1, <1>2, <1>3, <1>4, <1>5, <1>6, <1>7, <1>8 DEF RequestStep, RequestFault

\* A request whose state changes took a step of its own.
LEMMA RequestMoves ==
    ASSUME TypeInv, [Next]_vars, NEW r \in Requests, request'[r] # request[r],
           request[r] # IdleRequest
    PROVE  RequestStep(r) \/ RequestFault(r)
  <1>1. PICK q \in Requests : RequestStep(q) \/ RequestFault(q) \/ UserStep
    BY WorkersLeaveRequests DEF vars, Next
  <1>2. CASE UserStep
    BY <1>2 DEF UserStep, UploadPut, RestartCheck, Delete, TypeInv, TypeOK
  <1>3. CASE RequestStep(q) \/ RequestFault(q)
    <2>1. r = q
      BY <1>3 DEF RequestStep, RequestFault, UploadCreate, RestartStage, RestartWrite, Refresh,
         EnqueueStage, MarkUnqueued, EnqueuePurge, EnqueueStageFails, EnqueuePurgeFails,
         RequestCrash, RequestDone, RequestGoto, TypeInv, TypeOK
    <2>2. QED
      BY <1>3, <2>1
  <1>4. QED
    BY <1>1, <1>2, <1>3

\* A message leaves the broker only for a worker.
LEMMA QueueShrinks ==
    ASSUME TypeInv, [Next]_vars, NEW m \in Message, queue[m] > 0, ~(queue'[m] > 0)
    PROVE  \E w \in Workers : Receive(w, m)
  <1>t. queue \in [Message -> Nat]
    BY DEF TypeInv, TypeOK
  <1>p. ASSUME NEW x, Publish(x)
        PROVE  queue'[m] > 0
    BY <1>p, <1>t DEF Publish
  <1>0. ~UNCHANGED queue /\ \A x : ~Publish(x)
    BY <1>p, <1>t
  <1>1. PICK w \in Workers, x \in Message : Receive(w, x)
    <2>1. ~UserStep
      BY <1>0 DEF UserStep, UploadPut, RestartCheck, Delete
    <2>2. ASSUME NEW r \in Requests
          PROVE  ~RequestStep(r) /\ ~RequestFault(r)
      BY <1>0 DEF RequestStep, RequestFault, UploadCreate, RestartStage, RestartWrite, Refresh,
         EnqueueStage, MarkUnqueued, EnqueuePurge, EnqueueStageFails, EnqueuePurgeFails,
         RequestCrash
    <2>3. ASSUME NEW w \in Workers
          PROVE  ~StageStep(w)
      BY <1>0 DEF StageStep, Claim, ClaimSkipped, Load, ReadOriginal, WriteNormalized,
         ReadNormalized, ReplaceChunks, ListUnembedded, CallProvider, StoreEmbeddings, Succeed,
         EnqueueNext, MarkFailed, Exit, Purge, Retry, ShellFail, TransactionAborted
    <2>4. ASSUME NEW w \in Workers
          PROVE  ~WorkerFault(w)
      BY <1>0 DEF WorkerFault, IoError, ProviderTransient, DbError, ShellDbError,
         EnqueueNextFails, RetryPublishFails, SoftTimeout, ShellTimeout, WorkerCrash
    <2>5. QED
      BY <1>0, <2>1, <2>2, <2>3, <2>4 DEF vars, Next, WorkerStep
  <1>2. x = m
    BY <1>1, <1>t DEF Receive
  <1>3. QED
    BY <1>1, <1>2

\* Whatever step is taken, a document in a processing status is held after it.
LEMMA OwnedNext ==
    ASSUME TypeInv, CreatesForParse, WorkNeverLost, [Next]_vars
    PROVE  WorkNeverLost'
  <1> SUFFICES ASSUME NEW d \in Docs \ stranded', status'[d] \in Processing
               PROVE  Owned(d)'
    BY DEF WorkNeverLost, Owned
  <1>0. d \in Docs \ stranded
    BY HistoryStep
  <1>1. CASE status'[d] # status[d]
    <2>0. Next
      BY <1>1 DEF vars
    <2>1. ASSUME NEW r \in Requests, UploadCreate(r) \/ RestartWrite(r) \/ MarkUnqueued(r)
          PROVE  Owned(d)'
      <3>1. request[r].doc = d
        BY <1>1, <2>1 DEF UploadCreate, RestartWrite, MarkUnqueued, TypeInv, TypeOK
      <3>2. QED
        BY <1>1, <2>1, <3>1, RequestKeeps DEF RequestStep
    <2>2. ASSUME NEW r \in Requests, Delete(r, d)
          PROVE  FALSE
      BY <2>2, Statuses DEF Delete, TypeInv, TypeOK
    <2>3. ASSUME NEW w \in Workers,
                 \/ Claim(w) \/ ReplaceChunks(w) \/ Succeed(w) \/ MarkFailed(w) \/ ShellFail(w)
          PROVE  Owned(d)'
      <3>1. worker[w].doc = d
        BY <1>1, <2>3 DEF Claim, ClaimRow, ReplaceChunks, Succeed, MarkFailed, ShellFail, Finish,
           SetStatus, dbVars, TypeInv, TypeOK
      <3>2. QED
        BY <1>1, <2>3, <3>1, WorkerKeeps DEF StageStep
    <2>4. QED
      BY <1>1, <2>0, <2>1, <2>2, <2>3, StatusChange
  <1>2. CASE status'[d] = status[d]
    <2>0. Owned(d)
      BY <1>0, <1>2 DEF WorkNeverLost, Owned
    <2>1. ASSUME NEW m \in Message, MessageOwns(m, d)
          PROVE  Owned(d)'
      <3>1. CASE queue'[m] > 0
        BY <1>2, <2>1, <3>1 DEF MessageOwns, Owned, Claimable
      <3>2. CASE ~(queue'[m] > 0)
        <4>1. PICK w \in Workers : Receive(w, m)
          BY <2>1, <3>2, QueueShrinks DEF MessageOwns
        <4>2. m.task \in Stages /\ m.task # "purge"
          BY <2>1 DEF MessageOwns, Claimable, Stages
        <4>3. worker'[w].pc = "claim" /\ worker'[w].doc = d /\ worker'[w].task = m.task
          BY <2>1, <4>1, <4>2 DEF Receive, IdleWorker, MessageOwns, TypeInv, TypeOK
        <4>4. QED
          BY <1>2, <2>1, <4>3 DEF MessageOwns, Claimable, Owned, WorkerOwns
      <3>3. QED
        BY <3>1, <3>2
    <2>2. ASSUME NEW w \in Workers, WorkerOwns(w, d)
          PROVE  Owned(d)'
      <3>1. CASE worker'[w] = worker[w]
        BY <1>2, <2>2, <3>1 DEF WorkerOwns, Owned, Claimable
      <3>2. CASE worker'[w] # worker[w]
        <4>1. ~\E m \in Message : Receive(w, m)
          <5>1. worker[w] # IdleWorker
            BY <2>2, ConstantsAssumption DEF IdleWorker, WorkerOwns
          <5>2. QED
            BY <5>1 DEF Receive
        <4>2. StageStep(w) \/ WorkerFault(w)
          BY <3>2, <4>1, WorkerMoves
        <4>3. QED
          BY <2>2, <4>2, WorkerKeeps DEF WorkerOwns
      <3>3. QED
        BY <3>1, <3>2
    <2>3. ASSUME NEW r \in Requests, RequestOwns(r, d)
          PROVE  Owned(d)'
      <3>1. CASE request'[r] = request[r]
        BY <1>2, <2>3, <3>1 DEF RequestOwns, Owned
      <3>2. CASE request'[r] # request[r]
        <4>1. request[r] # IdleRequest
          BY <2>3, ConstantsAssumption DEF RequestOwns, IdleRequest
        <4>2. QED
          BY <2>3, <3>2, <4>1, RequestMoves, RequestKeeps DEF RequestOwns
      <3>3. QED
        BY <3>1, <3>2
    <2>4. QED
      BY <2>0, <2>1, <2>2, <2>3 DEF Owned
  <1>3. QED
    BY <1>1, <1>2

\* A document in an intermediate status always has somebody who will move it on
\* (ingest.py: "a document never stays in an intermediate state"), under every
\* interleaving of requests, workers and failures, unless the process that held
\* it let go of it: each place of the code where that happens puts the document
\* in stranded, and no other place loses one.
THEOREM NoWorkLost == Spec => []WorkNeverLost
  <1> DEFINE I == TypeInv /\ CreatesForParse /\ WorkNeverLost
  <1>1. Init => I
    BY InitType, Statuses DEF Init, CreatesForParse, WorkNeverLost, IdleRequest
  <1>2. I /\ [Next]_vars => I'
    BY NextType, CreatesNext, OwnedNext
  <1>3. I => WorkNeverLost
    OBVIOUS
  <1> HIDE DEF I
  <1>4. QED
    BY <1>1, <1>2, <1>3, PTL DEF Spec

(***************************************************************************)
(* As long as nobody acts on a document late, its stages are serialised    *)
(***************************************************************************)
\* The tokens of a document: each stands for the right to run its next stage.  A
\* restart that has yet to write the row is none: the row is what it may write.
HoldPC       == WorkerPC \ {"exit", "purge"}
RequestHolds == {"create", "refresh", "enqueue", "unqueued"}

MessagesOf(d) == {m \in Message : m.task \in Stages /\ m.doc = d /\ queue[m] > 0}
WorkersOn(d)  == {w \in Workers : worker[w].doc = d /\ worker[w].pc \in HoldPC}
RequestsOn(d) == {r \in Requests : request[r].doc = d /\ request[r].pc \in RequestHolds}

OneToken(d) ==
    /\ \A m \in MessagesOf(d) : queue[m] <= 1
    /\ \A m, n \in MessagesOf(d) : m = n
    /\ \A v, w \in WorkersOn(d) : v = w
    /\ \A q, r \in RequestsOn(d) : q = r
    /\ WorkersOn(d) # {} => MessagesOf(d) = {}
    /\ RequestsOn(d) # {} => MessagesOf(d) = {} /\ WorkersOn(d) = {}

\* How far the jobs of a document got when stage t is the next or the current one.
StagesBefore == [parse |-> {}, chunk |-> {"parse"}, embed |-> {"parse", "chunk"}]
StagesAfter  == [parse |-> {"chunk", "embed"}, chunk |-> {"embed"}, embed |-> {}]

Reached(d, t) ==
    /\ \A s \in StagesBefore[t] : jobs[d][s] = "succeeded"
    /\ \A s \in StagesAfter[t] : jobs[d][s] = "none"

Resumable(d) == Reached(d, FirstFailedStage(d))

\* The statuses of a document whose token is about stage t: it waits for the stage,
\* is in it, or has left it (a retry after a commit whose answer was lost).
Held(t) == {EntryStatus[t], RunningStatus[t], NextStatus[t]} \ {"ready"}

\* What the token of a document says of its row and its jobs.
MessageLink(m, d) ==
    /\ status[d] \in Held(m.task) \cup {"deleted"}
    /\ status[d] # "deleted" => Reached(d, m.task)

InStagePC == {"load", "read", "write", "replace", "list", "provider", "store", "succeed", "fail"}

WorkerLink(w, d) ==
    LET wk == worker[w]
        t  == worker[w].task IN
    /\ status[d] \in Held(t) \cup {"deleted"}
    /\ wk.pc \in InStagePC => status[d] \in {RunningStatus[t], "deleted"}
    /\ wk.pc = "enqueue" => /\ status[d] \in {NextStatus[t], "deleted"}
                            /\ status[d] # "deleted" => jobs[d][t] = "succeeded"
    /\ status[d] # "deleted" => Reached(d, t)
    /\ wk.pc = "succeed" /\ t = "embed" => todo[d] = {}
    /\ wk.pc \in {"provider", "store"} /\ status[d] # "deleted" =>
           wk.gen = gen[d] /\ wk.batch \subseteq todo[d]

RequestLink(r, d) ==
    LET rq == request[r] IN
    /\ IF rq.pc = "create" THEN status[d] = "absent"
                           ELSE status[d] \in {EntryStatus[rq.stage], "deleted"}
    /\ status[d] # "deleted" => Resumable(d) /\ rq.stage = FirstFailedStage(d)

Links(d) ==
    /\ \A m \in MessagesOf(d) : MessageLink(m, d)
    /\ \A w \in WorkersOn(d) : WorkerLink(w, d)
    /\ \A r \in RequestsOn(d) : RequestLink(r, d)

\* What a restart has read is still so when it writes.
RestartLink(r, d) ==
    /\ status[d] \in {"failed", "deleted"}
    /\ request[r].pc = "write" /\ status[d] = "failed" =>
           request[r].stage = FirstFailedStage(d)

Restarts(d) == \A r \in Restarting(d) : RestartLink(r, d)

\* What the row says of the rest when nobody holds the document.
Row(d) ==
    /\ \E t \in Stages : Reached(d, t)
    /\ status[d] = "absent" => \A s \in Stages : jobs[d][s] = "none"
    /\ status[d] = "failed" => Resumable(d)
    /\ status[d] = "ready" => todo[d] = {}

DocumentInv(d) == OneToken(d) /\ Links(d) /\ Restarts(d) /\ Row(d)
SerialInv == TypeInv /\ \A d \in Docs \ overtaken : DocumentInv(d)

LEMMA HeldStatuses ==
    \A t \in Stages : /\ Held(t) \subseteq Processing
                      /\ EntryStatus[t] \in Held(t) /\ RunningStatus[t] \in Held(t)
                      /\ t # "embed" => NextStatus[t] \in Held(t)
                      /\ Held(t) \cap AllowedFrom[t] \subseteq {EntryStatus[t], RunningStatus[t]}
  BY DEF Held, Stages, EntryStatus, RunningStatus, NextStatus, AllowedFrom, Processing

SameRow(d) ==
    /\ status'[d] = status[d]
    /\ jobs'[d] = jobs[d]
    /\ gen'[d] = gen[d]
    /\ todo'[d] = todo[d]

\* No token of d is new, and none has changed but by going.
NoNewToken(d) ==
    /\ \A m \in MessagesOf(d)' : m \in MessagesOf(d) /\ queue'[m] <= queue[m]
    /\ \A w \in WorkersOn(d)' : w \in WorkersOn(d) /\ worker'[w] = worker[w]
    /\ \A r \in RequestsOn(d)' : r \in RequestsOn(d) /\ request'[r] = request[r]

\* The restarts of a document whose row does not change have still read the truth.
LEMMA RestartsStay ==
    ASSUME NEW d \in Docs, DocumentInv(d), SameRow(d),
           \A r \in Restarting(d)' : \/ r \in Restarting(d) /\ request'[r] = request[r]
                                     \/ RestartLink(r, d)'
    PROVE  Restarts(d)'
  <1>f. FirstFailedStage(d)' = FirstFailedStage(d)
    BY DEF SameRow, FirstFailedStage
  <1> SUFFICES ASSUME NEW r \in Restarting(d)', r \in Restarting(d), request'[r] = request[r]
               PROVE  RestartLink(r, d)'
    BY DEF Restarts
  <1>1. RestartLink(r, d)
    BY DEF DocumentInv, Restarts
  <1>2. QED
    BY <1>f, <1>1 DEF RestartLink, SameRow

\* There is a restart of a document nobody finds failed only when it is deleted.
LEMMA RestartsWait ==
    ASSUME TypeInv, [Next]_vars, NEW d \in Docs, DocumentInv(d), status[d] # "failed",
           Restarting(d)' \subseteq Restarting(d)
    PROVE  Restarts(d)'
  <1> SUFFICES ASSUME NEW r \in Restarting(d)'
               PROVE  RestartLink(r, d)'
    BY DEF Restarts
  <1>1. RestartLink(r, d)
    BY DEF DocumentInv, Restarts
  <1>2. status'[d] = "deleted"
    BY <1>1, DeletedForGood DEF RestartLink
  <1>3. QED
    BY <1>2 DEF RestartLink

\* What is true of a document stays true when its row does not change and none of
\* its tokens moves, even if some are lost.
LEMMA Frame ==
    ASSUME TypeInv, TypeInv', NEW d \in Docs, DocumentInv(d), SameRow(d), NoNewToken(d),
           Restarts(d)'
    PROVE  DocumentInv(d)'
  <1>f. FirstFailedStage(d)' = FirstFailedStage(d)
    BY DEF SameRow, FirstFailedStage
  <1>g. \A t \in Stages : Reached(d, t)' <=> Reached(d, t)
    BY DEF SameRow, Reached
  <1>r. Resumable(d)' <=> Resumable(d)
    BY <1>f, <1>g, FirstFailedStageType DEF Resumable, Reached, SameRow
  <1>q. \A m \in Message : queue[m] \in Nat /\ queue'[m] \in Nat
    BY DEF TypeInv, TypeOK
  <1>1. OneToken(d)'
    <2>1. \A m \in MessagesOf(d)' : queue'[m] <= 1
      <3> TAKE m \in MessagesOf(d)'
      <3>1. m \in MessagesOf(d) /\ queue'[m] <= queue[m] /\ queue[m] <= 1 /\ m \in Message
        BY DEF NoNewToken, DocumentInv, OneToken, MessagesOf
      <3>2. QED
        BY <1>q, <3>1
    <2>2. /\ \A m, n \in MessagesOf(d)' : m = n
          /\ \A v, w \in WorkersOn(d)' : v = w
          /\ \A v, w \in RequestsOn(d)' : v = w
          /\ WorkersOn(d)' # {} => MessagesOf(d)' = {}
          /\ RequestsOn(d)' # {} => MessagesOf(d)' = {} /\ WorkersOn(d)' = {}
      BY DEF NoNewToken, DocumentInv, OneToken
    <2>3. QED
      BY <2>1, <2>2 DEF OneToken
  <1>2. Links(d)'
    <2>1. ASSUME NEW m \in MessagesOf(d)'
          PROVE  MessageLink(m, d)'
      <3>1. m \in MessagesOf(d) /\ m.task \in Stages
        BY <2>1 DEF NoNewToken, MessagesOf
      <3>2. MessageLink(m, d)
        BY <3>1 DEF DocumentInv, Links
      <3>3. QED
        BY <1>g, <3>1, <3>2 DEF MessageLink, Held, SameRow
    <2>2. ASSUME NEW w \in WorkersOn(d)'
          PROVE  WorkerLink(w, d)'
      <3>1. w \in WorkersOn(d) /\ worker'[w] = worker[w]
        BY <2>2 DEF NoNewToken
      <3>2. WorkerLink(w, d)
        BY <3>1 DEF DocumentInv, Links
      <3>3. worker[w].task \in Stages
        BY <3>1, BusyFields DEF WorkersOn, HoldPC, WorkerPC, Fit, ServicePC, ShellPC
      <3>4. QED
        BY <1>g, <3>1, <3>2, <3>3 DEF WorkerLink, Held, SameRow
    <2>3. ASSUME NEW r \in RequestsOn(d)'
          PROVE  RequestLink(r, d)'
      <3>1. r \in RequestsOn(d) /\ request'[r] = request[r]
        BY <2>3 DEF NoNewToken
      <3>2. RequestLink(r, d)
        BY <3>1 DEF DocumentInv, Links
      <3>3. QED
        BY <1>f, <1>r, <3>1, <3>2 DEF RequestLink, SameRow
    <2>4. QED
      BY <2>1, <2>2, <2>3 DEF Links
  <1>3. Row(d)'
    <2>1. Row(d)
      BY DEF DocumentInv
    <2>2. QED
      BY <1>g, <1>r, <2>1 DEF Row, SameRow
  <1>4. QED
    BY <1>1, <1>2, <1>3 DEF DocumentInv

\* A document whose only token is one worker, or none.
LEMMA TokenIsWorker ==
    ASSUME NEW d \in Docs, NEW w \in Workers,
           MessagesOf(d)' = {}, RequestsOn(d)' = {}, WorkersOn(d)' \subseteq {w},
           w \in WorkersOn(d)' => WorkerLink(w, d)',
           Restarts(d)', Row(d)'
    PROVE  DocumentInv(d)'
  <1>1. OneToken(d)'
    BY DEF OneToken
  <1>2. Links(d)'
    BY DEF Links
  <1>3. QED
    BY <1>1, <1>2 DEF DocumentInv

\* The same of one message.
LEMMA TokenIsMessage ==
    ASSUME NEW d \in Docs, NEW x \in Message,
           WorkersOn(d)' = {}, RequestsOn(d)' = {}, MessagesOf(d)' \subseteq {x},
           queue'[x] <= 1,
           MessageLink(x, d)',
           Restarts(d)', Row(d)'
    PROVE  DocumentInv(d)'
  <1>1. OneToken(d)'
    BY DEF OneToken
  <1>2. Links(d)'
    BY DEF Links
  <1>3. QED
    BY <1>1, <1>2 DEF DocumentInv

\* The same of one request.
LEMMA TokenIsRequest ==
    ASSUME NEW d \in Docs, NEW r \in Requests,
           WorkersOn(d)' = {}, MessagesOf(d)' = {}, RequestsOn(d)' \subseteq {r},
           r \in RequestsOn(d)' => RequestLink(r, d)',
           Restarts(d)', Row(d)'
    PROVE  DocumentInv(d)'
  <1>1. OneToken(d)'
    BY DEF OneToken
  <1>2. Links(d)'
    BY DEF Links
  <1>3. QED
    BY <1>1, <1>2 DEF DocumentInv

\* A worker that holds a document is the only token of it, and the document is
\* being processed or deleted.
LEMMA WorkerHolds ==
    ASSUME TypeInv, NEW d \in Docs, DocumentInv(d), NEW w \in WorkersOn(d)
    PROVE  /\ MessagesOf(d) = {} /\ RequestsOn(d) = {} /\ WorkersOn(d) = {w}
           /\ WorkerLink(w, d)
           /\ w \in Workers /\ worker[w].doc = d
           /\ worker[w].task \in Stages /\ worker[w] \in BusyWorker
           /\ Fit(worker[w].pc, worker[w].task)
           /\ status[d] \in Processing \cup {"deleted"}
  <1>1. MessagesOf(d) = {} /\ RequestsOn(d) = {} /\ WorkersOn(d) = {w}
    BY DEF DocumentInv, OneToken
  <1>2. WorkerLink(w, d)
    BY DEF DocumentInv, Links
  <1>3. w \in Workers /\ worker[w].doc = d /\ worker[w].pc \in HoldPC /\ worker[w].pc # "idle"
    BY DEF WorkersOn, HoldPC, WorkerPC, ServicePC, ShellPC
  <1>4. worker[w] \in BusyWorker /\ Fit(worker[w].pc, worker[w].task)
    BY <1>3, BusyFields
  <1>5. worker[w].task \in Stages
    BY <1>3, <1>4 DEF Fit, HoldPC, WorkerPC, ServicePC, ShellPC
  <1>6. status[d] \in Processing \cup {"deleted"}
    BY <1>2, <1>5, HeldStatuses DEF WorkerLink
  <1>7. QED
    BY <1>1, <1>2, <1>3, <1>4, <1>5, <1>6

\* A message about a stage is the only token of its document, and there is one copy.
LEMMA MessageHolds ==
    ASSUME TypeInv, NEW d \in Docs, DocumentInv(d), NEW m \in MessagesOf(d)
    PROVE  /\ MessagesOf(d) = {m} /\ RequestsOn(d) = {} /\ WorkersOn(d) = {}
           /\ queue[m] = 1
           /\ MessageLink(m, d)
           /\ m.task \in Stages /\ m.doc = d /\ m \in Message
           /\ status[d] \in Processing \cup {"deleted"}
  <1>1. MessagesOf(d) = {m} /\ RequestsOn(d) = {} /\ WorkersOn(d) = {} /\ queue[m] <= 1
    BY DEF DocumentInv, OneToken
  <1>2. m.task \in Stages /\ m.doc = d /\ m \in Message /\ queue[m] > 0 /\ queue[m] \in Nat
    BY DEF MessagesOf, TypeInv, TypeOK
  <1>3. MessageLink(m, d)
    BY DEF DocumentInv, Links
  <1>4. status[d] \in Processing \cup {"deleted"}
    BY <1>2, <1>3, HeldStatuses DEF MessageLink
  <1>5. QED
    BY <1>1, <1>2, <1>3, <1>4

\* A request that holds a document is the only token of it.
LEMMA RequestHeld ==
    ASSUME TypeInv, NEW d \in Docs, DocumentInv(d), NEW r \in RequestsOn(d)
    PROVE  /\ MessagesOf(d) = {} /\ RequestsOn(d) = {r} /\ WorkersOn(d) = {}
           /\ RequestLink(r, d)
           /\ r \in Requests /\ request[r].doc = d
           /\ request[r].stage \in Stages /\ request[r] \in BusyRequest
           /\ status[d] \in Processing \cup {"absent", "deleted"}
           /\ status[d] = "absent" => request[r].pc = "create"
  <1>1. MessagesOf(d) = {} /\ WorkersOn(d) = {} /\ RequestsOn(d) = {r}
    BY DEF DocumentInv, OneToken
  <1>2. r \in Requests /\ request[r].doc = d /\ request[r].pc # "idle"
    BY DEF RequestsOn, RequestHolds
  <1>4. RequestLink(r, d)
    BY DEF DocumentInv, Links
  <1>5. request[r] \in BusyRequest /\ request[r].stage \in Stages
    BY <1>2, BusyRequests DEF TypeInv, BusyRequest
  <1>6. /\ status[d] \in Processing \cup {"absent", "deleted"}
        /\ status[d] = "absent" => request[r].pc = "create"
    BY <1>4, <1>5, Statuses DEF RequestLink
  <1>7. QED
    BY <1>1, <1>2, <1>4, <1>5, <1>6

\* A document that is ready or failed waits for a request, and an absent one for
\* the upload that creates it.
LEMMA Resting ==
    ASSUME TypeInv, NEW d \in Docs, DocumentInv(d), status[d] \in {"absent", "ready", "failed"}
    PROVE  /\ MessagesOf(d) = {} /\ WorkersOn(d) = {}
           /\ status[d] # "absent" => RequestsOn(d) = {}
  BY WorkerHolds, MessageHolds, RequestHeld, Statuses DEF Processing

(***************************************************************************)
(* A step concerns one document                                            *)
(***************************************************************************)
\* A worker's step touches its own state, and no request.
LEMMA OneWorker ==
    ASSUME TypeInv, NEW w \in Workers, StageStep(w) \/ WorkerFault(w)
    PROVE  /\ \A v \in Workers : v # w => worker'[v] = worker[v]
           /\ worker'[w] = IdleWorker \/ worker'[w].doc = worker[w].doc
           /\ request' = request
           /\ worker[w].pc # "idle"
  <1>0. worker[w].pc # "idle"
    BY DEF StageStep, WorkerFault, Claim, ClaimSkipped, Load, ReadOriginal, WriteNormalized,
       ReadNormalized, ReplaceChunks, ListUnembedded, CallProvider, StoreEmbeddings, Succeed,
       EnqueueNext, MarkFailed, Exit, Purge, Retry, ShellFail, TransactionAborted, IoError,
       ProviderTransient, DbError, ShellDbError, EnqueueNextFails, RetryPublishFails, SoftTimeout, ShellTimeout,
       WorkerCrash, WorkerAt, ServicePC, ShellPC, TypeInv, TypeOK, BusyWorker, WorkerPC
  <1>1. worker[w] \in BusyWorker
    BY <1>0, BusyFields
  <1>2. request' = request
    BY DEF StageStep, WorkerFault, Claim, ClaimSkipped, Load, ReadOriginal, WriteNormalized,
       ReadNormalized, ReplaceChunks, ListUnembedded, CallProvider, StoreEmbeddings, Succeed,
       EnqueueNext, MarkFailed, Exit, Purge, Retry, ShellFail, TransactionAborted, IoError,
       ProviderTransient, DbError, ShellDbError, EnqueueNextFails, RetryPublishFails, SoftTimeout, ShellTimeout,
       WorkerCrash
  <1>3. \/ WorkerDone(w)
        \/ \E pc \in WorkerPC : WorkerGoto(w, pc)
        \/ worker' = [worker EXCEPT ![w].pc = "list", ![w].gen = 0, ![w].batch = {}]
        \/ \E g, b : worker' = [worker EXCEPT ![w].pc = "provider", ![w].gen = g, ![w].batch = b]
    <2>1. CASE ListUnembedded(w)
      BY <2>1 DEF ListUnembedded, WorkerPC, ServicePC
    <2>2. CASE StageStep(w) /\ ~ListUnembedded(w)
      BY <2>2 DEF StageStep, Claim, ClaimSkipped, Load, ReadOriginal, WriteNormalized,
         ReadNormalized, ReplaceChunks, CallProvider, StoreEmbeddings, Succeed,
         EnqueueNext, MarkFailed, Exit, Purge, Retry, ShellFail, TransactionAborted,
         WorkerPC, ServicePC, ShellPC
    <2>3. CASE WorkerFault(w)
      BY <2>3 DEF WorkerFault, IoError, ProviderTransient, DbError, ShellDbError, EnqueueNextFails,
         RetryPublishFails, SoftTimeout, ShellTimeout, WorkerCrash, WorkerPC, ServicePC, ShellPC
    <2>4. QED
      BY <2>1, <2>2, <2>3
  <1>4. CASE WorkerDone(w)
    BY <1>0, <1>2, <1>4 DEF WorkerDone, TypeInv, TypeOK
  <1>5. ASSUME NEW pc \in WorkerPC, WorkerGoto(w, pc)
        PROVE  /\ \A v \in Workers : v # w => worker'[v] = worker[v]
               /\ worker'[w].doc = worker[w].doc
    BY <1>1, <1>5 DEF WorkerGoto, TypeInv, TypeOK, BusyWorker
  <1>6. CASE worker' = [worker EXCEPT ![w].pc = "list", ![w].gen = 0, ![w].batch = {}]
    BY <1>0, <1>1, <1>2, <1>6 DEF TypeInv, TypeOK, BusyWorker
  <1>7. ASSUME NEW g, NEW b,
               worker' = [worker EXCEPT ![w].pc = "provider", ![w].gen = g, ![w].batch = b]
        PROVE  /\ \A v \in Workers : v # w => worker'[v] = worker[v]
               /\ worker'[w].doc = worker[w].doc
    BY <1>1, <1>7 DEF TypeInv, TypeOK, BusyWorker
  <1>8. QED
    BY <1>0, <1>2, <1>3, <1>4, <1>5, <1>6, <1>7

\* A worker's step leaves the row of every other document alone.
LEMMA OneRow ==
    ASSUME TypeInv, NEW w \in Workers, StageStep(w) \/ WorkerFault(w),
           NEW d \in Docs, worker[w].doc # d
    PROVE  SameRow(d)
  <1>1. CASE Claim(w)
    BY <1>1 DEF Claim, ClaimRow, MarkRunning, SameRow, TypeInv, TypeOK
  <1>2. CASE ReplaceChunks(w)
    BY <1>2 DEF ReplaceChunks, ReplaceForDocument, Finish, MarkFinished, SetStatus, SameRow, dbVars,
       TypeInv, TypeOK
  <1>3. CASE StoreEmbeddings(w)
    BY <1>3 DEF StoreEmbeddings, SetEmbeddings, SameRow, TypeInv, TypeOK
  <1>4. CASE Succeed(w) \/ MarkFailed(w) \/ ShellFail(w)
    BY <1>4 DEF Succeed, MarkFailed, ShellFail, Finish, MarkFinished, SetStatus, SameRow, TypeInv,
       TypeOK
  <1>5. CASE UNCHANGED dbVars
    BY <1>5 DEF SameRow, dbVars
  <1>6. QED
    BY <1>1, <1>2, <1>3, <1>4, <1>5 DEF StageStep, WorkerFault, ClaimSkipped, Load, ReadOriginal,
       WriteNormalized, ReadNormalized, ListUnembedded, CallProvider, EnqueueNext, Exit, Purge,
       Retry, TransactionAborted, IoError, ProviderTransient, DbError, ShellDbError,
       EnqueueNextFails, RetryPublishFails, SoftTimeout, ShellTimeout, WorkerCrash

\* A worker's step leaves the messages of every other document alone.
LEMMA OneMailbox ==
    ASSUME TypeInv, NEW w \in Workers, StageStep(w) \/ WorkerFault(w),
           NEW m \in Message, worker[w].doc # m.doc
    PROVE  queue'[m] = queue[m]
  <1>t. queue \in [Message -> Nat]
    BY DEF TypeInv, TypeOK
  <1>1. ASSUME NEW t, NEW n, Publish(Msg(t, worker[w].doc, n))
        PROVE  queue'[m] = queue[m]
    <2>1. m # Msg(t, worker[w].doc, n)
      BY DEF Msg
    <2>2. QED
      BY <1>1, <1>t, <2>1 DEF Publish
  <1>2. CASE EnqueueNext(w) \/ Retry(w) \/ EnqueueNextFails(w)
    BY <1>1, <1>2 DEF EnqueueNext, Retry, EnqueueNextFails
  <1>3. CASE UNCHANGED queue
    BY <1>3
  <1>4. QED
    BY <1>2, <1>3 DEF StageStep, WorkerFault, Claim, ClaimSkipped, Load, ReadOriginal,
       WriteNormalized, ReadNormalized, ReplaceChunks, ListUnembedded, CallProvider,
       StoreEmbeddings, Succeed, MarkFailed, Exit, Purge, ShellFail, TransactionAborted, IoError,
       ProviderTransient, DbError, ShellDbError, RetryPublishFails, SoftTimeout, ShellTimeout,
       WorkerCrash

\* A worker's step keeps what is true of every other document.
LEMMA OtherDocument ==
    ASSUME TypeInv, TypeInv', NEW w \in Workers, StageStep(w) \/ WorkerFault(w),
           NEW d \in Docs, worker[w].doc # d, DocumentInv(d)
    PROVE  DocumentInv(d)'
  <1>1. SameRow(d)
    BY OneRow
  <1>2. NoNewToken(d)
    <2>1. \A m \in MessagesOf(d)' : m \in MessagesOf(d) /\ queue'[m] <= queue[m]
      <3> TAKE m \in MessagesOf(d)'
      <3>1. m \in Message /\ m.doc = d /\ m.task \in Stages /\ queue'[m] > 0
        BY DEF MessagesOf
      <3>2. queue'[m] = queue[m] /\ queue[m] \in Nat
        BY <3>1, OneMailbox DEF TypeInv, TypeOK
      <3>3. QED
        BY <3>1, <3>2 DEF MessagesOf
    <2>2. \A v \in WorkersOn(d)' : v \in WorkersOn(d) /\ worker'[v] = worker[v]
      <3> TAKE v \in WorkersOn(d)'
      <3>1. v \in Workers /\ worker'[v].doc = d /\ worker'[v].pc \in HoldPC
        BY DEF WorkersOn
      <3>2. v # w
        BY <3>1, OneWorker, ConstantsAssumption DEF IdleWorker
      <3>3. QED
        BY <3>1, <3>2, OneWorker DEF WorkersOn
    <2>3. \A r \in RequestsOn(d)' : r \in RequestsOn(d) /\ request'[r] = request[r]
      BY OneWorker DEF RequestsOn
    <2>4. QED
      BY <2>1, <2>2, <2>3 DEF NoNewToken
  <1>3. Restarts(d)'
    BY <1>1, OneWorker, RestartsStay DEF Restarting
  <1>4. QED
    BY <1>1, <1>2, <1>3, Frame

\* No restart is under way for a document a worker holds, unless it is deleted.
LEMMA HolderRestarts ==
    ASSUME TypeInv, NEW d \in Docs, DocumentInv(d), NEW w \in WorkersOn(d),
           StageStep(w) \/ WorkerFault(w)
    PROVE  Restarts(d)'
  <1>1. w \in Workers /\ status[d] # "failed"
    BY WorkerHolds, Statuses
  <1>2. Next
    BY <1>1 DEF Next, WorkerStep
  <1>3. Restarting(d)' = Restarting(d)
    BY <1>1, OneWorker DEF Restarting
  <1>4. QED
    BY <1>1, <1>2, <1>3, RestartsWait

\* A step of the worker that holds d, publishing nothing, leaves at most that worker.
LEMMA SameHolder ==
    ASSUME TypeInv, NEW d \in Docs, DocumentInv(d), NEW w \in WorkersOn(d),
           StageStep(w) \/ WorkerFault(w), UNCHANGED queue
    PROVE  /\ MessagesOf(d)' = {} /\ RequestsOn(d)' = {} /\ WorkersOn(d)' \subseteq {w}
           /\ Restarts(d)'
  <1>1. w \in Workers /\ MessagesOf(d) = {} /\ RequestsOn(d) = {} /\ WorkersOn(d) = {w}
    BY WorkerHolds
  <1>2. MessagesOf(d)' = {}
    BY <1>1 DEF MessagesOf
  <1>3. RequestsOn(d)' = {}
    BY <1>1, OneWorker DEF RequestsOn
  <1>4. WorkersOn(d)' \subseteq {w}
    <2> SUFFICES ASSUME NEW v \in WorkersOn(d)', v # w
                 PROVE  FALSE
      OBVIOUS
    <2>1. v \in Workers /\ worker'[v] = worker[v]
      BY <1>1, OneWorker DEF WorkersOn
    <2>2. v \in WorkersOn(d)
      BY <2>1 DEF WorkersOn
    <2>3. QED
      BY <1>1, <2>2
  <1>5. QED
    BY <1>2, <1>3, <1>4, HolderRestarts

\* It goes on with the row unchanged.
LEMMA HolderMoves ==
    ASSUME TypeInv, TypeInv', NEW d \in Docs, DocumentInv(d), NEW w \in WorkersOn(d),
           StageStep(w) \/ WorkerFault(w), UNCHANGED queue, SameRow(d),
           w \in WorkersOn(d)' => WorkerLink(w, d)'
    PROVE  DocumentInv(d)'
  <1>1. /\ MessagesOf(d)' = {} /\ RequestsOn(d)' = {} /\ WorkersOn(d)' \subseteq {w}
        /\ Restarts(d)'
    BY SameHolder
  <1>2. Row(d)'
    <2>1. FirstFailedStage(d)' = FirstFailedStage(d)
      BY DEF SameRow, FirstFailedStage
    <2>2. \A t \in Stages : Reached(d, t)' <=> Reached(d, t)
      BY DEF SameRow, Reached
    <2>3. Resumable(d)' <=> Resumable(d)
      BY <2>1, <2>2, FirstFailedStageType DEF Resumable, Reached, SameRow
    <2>4. QED
      BY <2>2, <2>3 DEF Row, SameRow, DocumentInv
  <1>3. w \in Workers
    BY DEF WorkersOn
  <1>4. QED
    BY <1>1, <1>2, <1>3, TokenIsWorker

(***************************************************************************)
(* The steps of the worker that holds a document                           *)
(***************************************************************************)
\* The worker that moves keeps everything but its place.
LEMMA MovedOn ==
    ASSUME TypeInv, NEW w \in Workers, worker[w] \in BusyWorker, NEW pc \in WorkerPC,
           WorkerGoto(w, pc)
    PROVE  /\ worker'[w].pc = pc
           /\ worker'[w].doc = worker[w].doc
           /\ worker'[w].task = worker[w].task
           /\ worker'[w].gen = worker[w].gen
           /\ worker'[w].batch = worker[w].batch
  <1>1. worker'[w] = [worker[w] EXCEPT !.pc = pc]
    BY DEF WorkerGoto, TypeInv, TypeOK
  <1>2. QED
    BY <1>1 DEF BusyWorker

\* A worker that ends its task, or is about to return, holds nothing.
LEMMA LetsGo ==
    ASSUME TypeInv, NEW w \in Workers, NEW d \in Docs,
           WorkerDone(w) \/ worker'[w].pc = "exit"
    PROVE  w \notin WorkersOn(d)'
  BY ConstantsAssumption DEF WorkerDone, WorkersOn, HoldPC, IdleWorker, TypeInv, TypeOK

\* Progress within a stage that leaves the row alone.
LEMMA HolderReads ==
    ASSUME TypeInv, TypeInv', NEW d \in Docs, DocumentInv(d), NEW w \in WorkersOn(d),
           \/ Load(w) \/ ReadOriginal(w) \/ ReadNormalized(w) \/ WriteNormalized(w)
           \/ ListUnembedded(w) \/ CallProvider(w)
    PROVE  DocumentInv(d)'
  <1> DEFINE t == worker[w].task
  <1>h. /\ WorkerLink(w, d) /\ w \in Workers /\ worker[w].doc = d /\ t \in Stages
        /\ worker[w] \in BusyWorker /\ Fit(worker[w].pc, t)
    BY WorkerHolds
  <1>s. StageStep(w)
    BY DEF StageStep
  <1>q. UNCHANGED queue /\ SameRow(d)
    <2>1. UNCHANGED queue /\ UNCHANGED dbVars
      BY DEF Load, ReadOriginal, ReadNormalized, WriteNormalized, ListUnembedded, CallProvider
    <2>2. QED
      BY <2>1 DEF SameRow, dbVars
  <1>g. \A x \in Stages : Reached(d, x)' <=> Reached(d, x)
    BY <1>q DEF SameRow, Reached
  <1>l. ASSUME NEW pc \in InStagePC, WorkerGoto(w, pc), worker[w].pc \in InStagePC,
               pc = "succeed" /\ t = "embed" => todo[d] = {},
               pc = "provider" => FALSE,
               pc = "store" => worker[w].pc = "provider"
        PROVE  WorkerLink(w, d)'
    <2>0. pc \in WorkerPC
      BY DEF InStagePC, WorkerPC, ServicePC
    <2>1. /\ worker'[w].pc = pc /\ worker'[w].task = t
          /\ worker'[w].gen = worker[w].gen /\ worker'[w].batch = worker[w].batch
      BY <1>h, <1>l, <2>0, MovedOn
    <2>2. QED
      BY <1>g, <1>h, <1>l, <1>q, <2>1 DEF WorkerLink, SameRow, InStagePC
  <1> USE DEF WorkerAt
  <1>1. CASE Load(w)
    <2>1. CASE Exists(d)
      <3>1. WorkerGoto(w, IF t = "embed" THEN "list" ELSE "read")
        BY <1>1, <1>h, <2>1 DEF Load
      <3>2. WorkerLink(w, d)'
        BY <1>1, <1>l, <3>1 DEF Load, InStagePC
      <3>3. QED
        BY <1>q, <1>s, <3>2, HolderMoves
    <2>2. CASE ~Exists(d)
      <3>1. w \notin WorkersOn(d)'
        BY <1>1, <1>h, <2>2, LetsGo DEF Load
      <3>2. QED
        BY <1>q, <1>s, <3>1, HolderMoves
    <2>3. QED
      BY <2>1, <2>2
  <1>2. CASE ReadOriginal(w) \/ ReadNormalized(w)
    <2>1. \E pc \in {"fail", "write", "replace"} : WorkerGoto(w, pc)
      BY <1>2 DEF ReadOriginal, ReadNormalized
    <2>2. WorkerLink(w, d)'
      BY <1>2, <1>l, <2>1 DEF ReadOriginal, ReadNormalized, InStagePC
    <2>3. QED
      BY <1>q, <1>s, <2>2, HolderMoves
  <1>3. CASE WriteNormalized(w)
    <2>1. t # "embed"
      BY <1>3, <1>h DEF WriteNormalized, Fit
    <2>2. WorkerLink(w, d)'
      BY <1>3, <1>l, <2>1 DEF WriteNormalized, InStagePC
    <2>3. QED
      BY <1>q, <1>s, <2>2, HolderMoves
  <1>4. CASE ListUnembedded(w)
    <2>1. CASE todo[d] = {}
      <3>1. WorkerLink(w, d)'
        BY <1>4, <1>h, <1>l, <2>1 DEF ListUnembedded, InStagePC
      <3>2. QED
        BY <1>q, <1>s, <3>1, HolderMoves
    <2>2. CASE todo[d] # {}
      <3>1. worker'[w] = [worker[w] EXCEPT !.pc = "provider", !.gen = gen[d],
                                           !.batch = FirstBatch(todo[d])]
        BY <1>4, <1>h, <2>2 DEF ListUnembedded, TypeInv, TypeOK
      <3>2. /\ worker'[w].pc = "provider" /\ worker'[w].task = t
            /\ worker'[w].gen = gen[d] /\ worker'[w].batch = FirstBatch(todo[d])
        BY <1>h, <3>1 DEF BusyWorker
      <3>3. FirstBatch(todo[d]) \subseteq todo[d]
        BY DEF FirstBatch
      <3>4. status[d] \in {RunningStatus[t], "deleted"}
        BY <1>4, <1>h DEF ListUnembedded, WorkerLink, InStagePC
      <3>5. WorkerLink(w, d)'
        BY <1>g, <1>h, <1>q, <3>2, <3>3, <3>4 DEF WorkerLink, SameRow, InStagePC
      <3>6. QED
        BY <1>q, <1>s, <3>5, HolderMoves
    <2>3. QED
      BY <2>1, <2>2
  <1>5. CASE CallProvider(w)
    <2>1. \E pc \in {"store", "fail"} : WorkerGoto(w, pc)
      BY <1>5 DEF CallProvider
    <2>2. WorkerLink(w, d)'
      BY <1>5, <1>l, <2>1 DEF CallProvider, InStagePC
    <2>3. QED
      BY <1>q, <1>s, <2>2, HolderMoves
  <1>6. QED
    BY <1>1, <1>2, <1>3, <1>4, <1>5

\* A failure leaves the document with the worker, or with nobody.
LEMMA HolderFails ==
    ASSUME TypeInv, TypeInv', NEW d \in Docs, DocumentInv(d), NEW w \in WorkersOn(d),
           WorkerFault(w) \/ TransactionAborted(w), d \notin overtaken'
    PROVE  DocumentInv(d)'
  <1> DEFINE t == worker[w].task
  <1>h. /\ WorkerLink(w, d) /\ w \in Workers /\ worker[w].doc = d /\ t \in Stages
        /\ worker[w] \in BusyWorker /\ WorkersOn(d) = {w}
    BY WorkerHolds
  <1>s. StageStep(w) \/ WorkerFault(w)
    BY DEF StageStep
  <1>q. UNCHANGED queue /\ SameRow(d)
    <2>1. UNCHANGED dbVars
      BY DEF WorkerFault, TransactionAborted, IoError, ProviderTransient, DbError, ShellDbError,
         EnqueueNextFails, RetryPublishFails, SoftTimeout, ShellTimeout, WorkerCrash
    <2>2. UNCHANGED queue
      BY <1>h DEF WorkerFault, TransactionAborted, IoError, ProviderTransient, DbError,
         ShellDbError, EnqueueNextFails, RetryPublishFails, SoftTimeout, ShellTimeout, WorkerCrash
    <2>3. QED
      BY <2>1, <2>2 DEF SameRow, dbVars
  <1>g. \A x \in Stages : Reached(d, x)' <=> Reached(d, x)
    BY <1>q DEF SameRow, Reached
  <1>l. ASSUME NEW pc \in {"retry", "shellfail", "timedout"}, WorkerGoto(w, pc)
        PROVE  WorkerLink(w, d)'
    <2>1. pc \in WorkerPC
      BY DEF WorkerPC, ShellPC
    <2>2. worker'[w].pc = pc /\ worker'[w].task = t
      BY <1>h, <1>l, <2>1, MovedOn
    <2>3. QED
      BY <1>g, <1>h, <1>q, <2>2 DEF WorkerLink, SameRow, InStagePC
  <1>1. w \in WorkersOn(d)' => WorkerLink(w, d)'
    <2>1. CASE \E pc \in {"retry", "shellfail", "timedout"} : WorkerGoto(w, pc)
      BY <1>l, <2>1
    <2>2. CASE WorkerDone(w)
      BY <1>h, <2>2, LetsGo
    <2>3. QED
      BY <2>1, <2>2 DEF WorkerFault, IoError, ProviderTransient, DbError, ShellDbError,
         EnqueueNextFails, RetryPublishFails, SoftTimeout, ShellTimeout, WorkerCrash,
         TransactionAborted
  <1>2. QED
    BY <1>1, <1>q, <1>s, HolderMoves

\* Writing the job of the stage a document has reached.
LEMMA JobWritten ==
    ASSUME TypeInv, NEW d \in Docs, NEW t \in Stages, NEW x, Reached(d, t),
           jobs' = [jobs EXCEPT ![d][t] = x]
    PROVE  /\ jobs'[d][t] = x
           /\ Reached(d, t)'
           /\ x = "failed" => FirstFailedStage(d)' = t /\ Resumable(d)'
  <1>1. jobs'[d] = [jobs[d] EXCEPT ![t] = x]
    BY DEF TypeInv, TypeOK
  <1>2. jobs[d] \in [Stages -> JobStatus]
    BY DEF TypeInv, TypeOK
  <1>3. /\ jobs'[d][t] = x
        /\ \A s \in Stages : s # t => jobs'[d][s] = jobs[d][s]
    BY <1>1, <1>2
  <1>4. Reached(d, t)'
    BY <1>3 DEF Reached, StagesBefore, StagesAfter, Stages
  <1>5. ASSUME x = "failed"
        PROVE  FirstFailedStage(d)' = t
    BY <1>3, <1>4, <1>5 DEF FirstFailedStage, Reached, StagesBefore, StagesAfter, Stages
  <1>6. QED
    BY <1>3, <1>4, <1>5 DEF Resumable

\* The worker that holds a document commits a change of its row.
LEMMA HolderWrites ==
    ASSUME TypeInv, TypeInv', NEW d \in Docs, DocumentInv(d), NEW w \in WorkersOn(d),
           \/ Claim(w) \/ ReplaceChunks(w) \/ StoreEmbeddings(w) \/ Succeed(w) \/ MarkFailed(w)
           \/ ShellFail(w)
    PROVE  DocumentInv(d)'
  <1>h. /\ WorkerLink(w, d) /\ w \in Workers /\ worker[w].doc = d /\ worker[w].task \in Stages
        /\ worker[w] \in BusyWorker /\ Fit(worker[w].pc, worker[w].task)
    BY WorkerHolds
  <1> PICK t \in Stages : t = worker[w].task
    BY <1>h
  <1>s. StageStep(w)
    BY DEF StageStep
  <1>q. UNCHANGED queue
    BY DEF Claim, ReplaceChunks, StoreEmbeddings, Succeed, MarkFailed, ShellFail
  <1>k. /\ MessagesOf(d)' = {} /\ RequestsOn(d)' = {} /\ WorkersOn(d)' \subseteq {w}
        /\ Restarts(d)'
    BY <1>q, <1>s, SameHolder
  <1>p. {"load", "enqueue", "exit", "retry"} \subseteq WorkerPC
    BY DEF WorkerPC, ServicePC
  <1>t. status \in [Docs -> Status] /\ todo \in [Docs -> SUBSET Nat] /\ gen \in [Docs -> Nat]
    BY DEF TypeInv, TypeOK
  <1>u. ASSUME worker'[w].task = t, worker'[w].pc = "retry", UNCHANGED dbVars, ~Exists(d)
        PROVE  DocumentInv(d)'
    <2>1. status[d] = "deleted" /\ SameRow(d)
      BY <1>h, <1>u, WorkerHolds, Statuses DEF Exists, SameRow, dbVars
    <2>2. WorkerLink(w, d)'
      BY <1>u, <2>1 DEF WorkerLink, SameRow, InStagePC
    <2>3. QED
      BY <1>q, <1>s, <2>1, <2>2, HolderMoves
  <1>f. ASSUME Finish(d, t, "failed", "failed"), Reached(d, t), w \notin WorkersOn(d)'
        PROVE  DocumentInv(d)'
    <2>1. status'[d] = "failed"
      BY <1>f, <1>t DEF Finish, SetStatus
    <2>2. Reached(d, t)' /\ Resumable(d)'
      BY <1>f, JobWritten DEF Finish, MarkFinished
    <2>3. Row(d)'
      BY <2>1, <2>2 DEF Row
    <2>4. QED
      BY <1>f, <1>h, <1>k, <2>3, TokenIsWorker
  <1> USE DEF WorkerAt
  <1>1. CASE Claim(w)
    <2>1. status[d] \in AllowedFrom[t] /\ status'[d] = RunningStatus[t]
      BY <1>1, <1>h, <1>t DEF Claim, ClaimRow
    <2>2. status[d] # "deleted"
      BY <2>1 DEF AllowedFrom, Stages
    <2>3. Reached(d, t)'
      BY <1>1, <1>h, <2>2, JobWritten DEF Claim, MarkRunning, WorkerLink
    <2>4. status'[d] \in Processing
      BY <2>1, Statuses
    <2>5. worker'[w].pc = "load" /\ worker'[w].task = t
      BY <1>1, <1>h, <1>p, MovedOn DEF Claim
    <2>6. WorkerLink(w, d)'
      BY <2>1, <2>3, <2>5, HeldStatuses DEF WorkerLink, InStagePC
    <2>7. Row(d)'
      BY <2>3, <2>4 DEF Row, Processing
    <2>8. QED
      BY <1>h, <1>k, <2>6, <2>7, TokenIsWorker
  <1>2. CASE ReplaceChunks(w)
    <2>0. t = "chunk" /\ "chunk" \in Stages
      BY <1>2, <1>h DEF ReplaceChunks, Fit
    <2>1. CASE Exists(d)
      <3>1. Finish(d, t, "succeeded", "embedding") /\ WorkerGoto(w, "enqueue")
        BY <1>2, <1>h, <2>0, <2>1 DEF ReplaceChunks, NextStatus
      <3>2. status'[d] = "embedding"
        BY <1>t, <3>1 DEF Finish, SetStatus
      <3>3. status[d] # "deleted" /\ Reached(d, t)
        BY <1>h, <2>1 DEF Exists, WorkerLink
      <3>4. Reached(d, t)' /\ jobs'[d][t] = "succeeded"
        <4>1. Reached(d, "chunk") /\ jobs' = [jobs EXCEPT ![d]["chunk"] = "succeeded"]
          BY <2>0, <3>1, <3>3 DEF Finish, MarkFinished
        <4>2. Reached(d, "chunk")' /\ jobs'[d]["chunk"] = "succeeded"
          BY <2>0, <4>1, JobWritten
        <4>3. QED
          BY <2>0, <4>2
      <3>5. worker'[w].pc = "enqueue" /\ worker'[w].task = t
        BY <1>h, <1>p, <3>1, MovedOn
      <3>6. WorkerLink(w, d)'
        BY <2>0, <3>2, <3>4, <3>5 DEF WorkerLink, InStagePC, NextStatus, Held
      <3>7. Row(d)'
        BY <3>2, <3>4 DEF Row
      <3>8. QED
        BY <1>h, <1>k, <3>6, <3>7, TokenIsWorker
    <2>2. CASE ~Exists(d)
      BY <1>2, <1>h, <1>p, <1>u, <2>2, MovedOn DEF ReplaceChunks
    <2>3. QED
      BY <2>1, <2>2
  <1>3. CASE StoreEmbeddings(w)
    <2>1. status'[d] = status[d] /\ jobs'[d] = jobs[d]
      BY <1>3 DEF StoreEmbeddings
    <2>2. \A x \in Stages : Reached(d, x)' <=> Reached(d, x)
      BY <2>1 DEF Reached
    <2>3. worker'[w].pc = "list" /\ worker'[w].task = t
      BY <1>3, <1>h DEF StoreEmbeddings, TypeInv, TypeOK, BusyWorker
    <2>4. status[d] \in {RunningStatus[t], "deleted"}
      BY <1>3, <1>h DEF StoreEmbeddings, WorkerLink, InStagePC
    <2>5. WorkerLink(w, d)'
      BY <1>h, <2>1, <2>2, <2>3, <2>4 DEF WorkerLink, InStagePC
    <2>6. Row(d)'
      <3>1. status[d] \in Processing \cup {"deleted"}
        BY <2>4, Statuses
      <3>2. \E x \in Stages : Reached(d, x)'
        BY <2>2 DEF DocumentInv, Row
      <3>3. QED
        BY <2>1, <3>1, <3>2 DEF Row, Processing
    <2>7. QED
      BY <1>h, <1>k, <2>5, <2>6, TokenIsWorker
  <1>4. CASE Succeed(w)
    <2>0. t \in {"parse", "embed"}
      BY <1>4, <1>h DEF Succeed, Fit
    <2>1. CASE Exists(d)
      <3>1. /\ Finish(d, t, "succeeded", NextStatus[t])
            /\ WorkerGoto(w, IF t = "embed" THEN "exit" ELSE "enqueue")
        BY <1>4, <1>h, <2>1 DEF Succeed
      <3>2. status'[d] = NextStatus[t]
        BY <1>t, <3>1 DEF Finish, SetStatus
      <3>3. status[d] # "deleted" /\ Reached(d, t)
        BY <1>h, <2>1 DEF Exists, WorkerLink
      <3>4. Reached(d, t)' /\ jobs'[d][t] = "succeeded"
        BY <3>1, <3>3, JobWritten DEF Finish, MarkFinished
      <3>5. CASE t = "parse"
        <4>1. worker'[w].pc = "enqueue" /\ worker'[w].task = t
          BY <1>h, <1>p, <3>1, <3>5, MovedOn
        <4>2. WorkerLink(w, d)'
          BY <3>2, <3>4, <3>5, <4>1, HeldStatuses DEF WorkerLink, InStagePC
        <4>3. Row(d)'
          BY <3>2, <3>4, <3>5 DEF Row, NextStatus
        <4>4. QED
          BY <1>h, <1>k, <4>2, <4>3, TokenIsWorker
      <3>6. CASE t = "embed"
        <4>1. worker'[w].pc = "exit"
          BY <1>h, <1>p, <3>1, <3>6, MovedOn
        <4>2. w \notin WorkersOn(d)'
          BY <1>h, <4>1, LetsGo
        <4>3. todo'[d] = {}
          BY <1>4, <1>h, <3>6 DEF Succeed, WorkerLink
        <4>4. Row(d)'
          BY <3>2, <3>4, <3>6, <4>3 DEF Row, NextStatus
        <4>5. QED
          BY <1>h, <1>k, <4>2, <4>4, TokenIsWorker
      <3>7. QED
        BY <2>0, <3>5, <3>6
    <2>2. CASE ~Exists(d)
      BY <1>4, <1>h, <1>p, <1>u, <2>2, MovedOn DEF Succeed, dbVars
    <2>3. QED
      BY <2>1, <2>2
  <1>5. CASE MarkFailed(w)
    <2>1. CASE Exists(d)
      <3>1. Finish(d, t, "failed", "failed") /\ WorkerGoto(w, "exit")
        BY <1>5, <1>h, <2>1 DEF MarkFailed
      <3>2. Reached(d, t)
        BY <1>h, <2>1 DEF Exists, WorkerLink
      <3>3. w \notin WorkersOn(d)'
        BY <1>h, <1>p, <3>1, MovedOn, LetsGo
      <3>4. QED
        BY <1>f, <3>1, <3>2, <3>3
    <2>2. CASE ~Exists(d)
      BY <1>5, <1>h, <1>p, <1>u, <2>2, MovedOn DEF MarkFailed, dbVars
    <2>3. QED
      BY <2>1, <2>2
  <1>6. CASE ShellFail(w)
    <2>0. w \notin WorkersOn(d)'
      BY <1>6, <1>h, LetsGo DEF ShellFail
    <2>1. CASE Exists(d)
      <3>1. Finish(d, t, "failed", "failed")
        BY <1>6, <1>h, <2>1 DEF ShellFail
      <3>2. Reached(d, t)
        BY <1>h, <2>1 DEF Exists, WorkerLink
      <3>3. QED
        BY <1>f, <2>0, <3>1, <3>2
    <2>2. CASE ~Exists(d)
      <3>1. SameRow(d)
        BY <1>6, <1>h, <2>2 DEF ShellFail, SameRow
      <3>2. QED
        BY <1>q, <1>s, <2>0, <3>1, HolderMoves
    <2>3. QED
      BY <2>1, <2>2
  <1>7. QED
    BY <1>1, <1>2, <1>3, <1>4, <1>5, <1>6

\* The worker that holds a document hands it on, asks for a retry, or gives it up.
LEMMA HolderPublishes ==
    ASSUME TypeInv, TypeInv', NEW d \in Docs, DocumentInv(d), NEW w \in WorkersOn(d),
           EnqueueNext(w) \/ Retry(w) \/ ClaimSkipped(w)
    PROVE  DocumentInv(d)'
  <1>h. /\ WorkerLink(w, d) /\ w \in Workers /\ worker[w].doc = d /\ worker[w].task \in Stages
        /\ worker[w] \in BusyWorker /\ Fit(worker[w].pc, worker[w].task)
        /\ MessagesOf(d) = {} /\ RequestsOn(d) = {} /\ WorkersOn(d) = {w}
    BY WorkerHolds
  <1> PICK t \in Stages : t = worker[w].task
    BY <1>h
  <1>s. StageStep(w)
    BY DEF StageStep
  <1>q. UNCHANGED dbVars /\ SameRow(d)
    <2>1. UNCHANGED dbVars
      BY DEF EnqueueNext, Retry, ClaimSkipped
    <2>2. QED
      BY <2>1 DEF SameRow, dbVars
  <1>g. \A x \in Stages : Reached(d, x)' <=> Reached(d, x)
    BY <1>q DEF SameRow, Reached
  <1>p. ASSUME NEW x \in Message, x.doc = d, x.task \in Stages, Publish(x),
               w \notin WorkersOn(d)', MessageLink(x, d)'
        PROVE  DocumentInv(d)'
    <2>1. queue \in [Message -> Nat] /\ queue[x] = 0
      BY <1>h, <1>p DEF MessagesOf, TypeInv, TypeOK
    <2>2. queue'[x] = 1 /\ \A m \in Message : m # x => queue'[m] = queue[m]
      BY <1>p, <2>1 DEF Publish
    <2>3. MessagesOf(d)' \subseteq {x}
      BY <1>h, <2>2 DEF MessagesOf
    <2>4. WorkersOn(d)' = {}
      <3> SUFFICES ASSUME NEW v \in WorkersOn(d)'
                   PROVE  FALSE
        OBVIOUS
      <3>1. v # w /\ v \in Workers
        BY <1>p DEF WorkersOn
      <3>2. v \in WorkersOn(d)
        BY <1>h, <1>s, <3>1, OneWorker DEF WorkersOn
      <3>3. QED
        BY <1>h, <3>1, <3>2
    <2>5. RequestsOn(d)' = {} /\ Restarts(d)'
      BY <1>h, <1>s, OneWorker, HolderRestarts DEF RequestsOn
    <2>6. Row(d)'
      <3>1. status'[d] \in Processing \cup {"deleted"}
        BY <1>q, WorkerHolds DEF SameRow
      <3>2. \E u \in Stages : Reached(d, u)'
        BY <1>g DEF DocumentInv, Row
      <3>3. QED
        BY <3>1, <3>2 DEF Row, Processing
    <2>7. QED
      BY <1>p, <2>2, <2>3, <2>4, <2>5, <2>6, TokenIsMessage
  <1> USE DEF WorkerAt
  <1>1. CASE EnqueueNext(w)
    <2>1. t \in {"parse", "chunk"}
      BY <1>1, <1>h DEF EnqueueNext, Fit
    <2>2. NextTask[t] \in Stages
      BY <2>1, Statuses
    <2> DEFINE x == Msg(NextTask[t], d, 0)
    <2>3. x \in Message /\ x.doc = d /\ x.task = NextTask[t]
      BY <2>2, ConstantsAssumption DEF Msg, Message, Tasks
    <2>4. Publish(x)
      BY <1>1, <1>h DEF EnqueueNext
    <2>5. w \notin WorkersOn(d)'
      BY <1>1, <1>h, MovedOn, LetsGo DEF EnqueueNext, WorkerPC, ServicePC
    <2>6. /\ status[d] \in {NextStatus[t], "deleted"}
          /\ status[d] # "deleted" => jobs[d][t] = "succeeded" /\ Reached(d, t)
      BY <1>1, <1>h DEF EnqueueNext, WorkerLink
    <2>7. status[d] # "deleted" => Reached(d, NextTask[t])
      BY <2>1, <2>6 DEF Reached, StagesBefore, StagesAfter, NextTask
    <2>8. NextStatus[t] = EntryStatus[NextTask[t]]
      BY <2>1 DEF NextStatus, EntryStatus, NextTask
    <2>9. MessageLink(x, d)'
      BY <1>g, <1>q, <2>2, <2>3, <2>6, <2>7, <2>8, HeldStatuses DEF MessageLink, SameRow
    <2>10. QED
      BY <1>p, <2>2, <2>3, <2>4, <2>5, <2>9
  <1>2. CASE Retry(w)
    <2>1. worker[w].pc = "retry"
      BY <1>2 DEF Retry
    <2>2. CASE WorkerGoto(w, "shellfail") /\ UNCHANGED queue
      <3>1. worker'[w].pc = "shellfail" /\ worker'[w].task = t
        BY <1>h, <2>2, MovedOn DEF WorkerPC, ShellPC
      <3>2. WorkerLink(w, d)'
        BY <1>g, <1>h, <1>q, <2>1, <3>1 DEF WorkerLink, SameRow, InStagePC
      <3>3. QED
        BY <1>q, <1>s, <2>2, <3>2, HolderMoves
    <2>3. CASE WorkerDone(w) /\ UNCHANGED queue
      <3>1. w \notin WorkersOn(d)'
        BY <1>h, <2>3, LetsGo
      <3>2. QED
        BY <1>q, <1>s, <2>3, <3>1, HolderMoves
    <2>4. CASE /\ worker[w].retries < MaxRetries[t]
               /\ Publish(Msg(t, d, worker[w].retries + 1))
               /\ WorkerDone(w)
      <3> PICK n \in 0 .. RetryLimit : n = worker[w].retries + 1
        BY <1>h, <2>4, ConstantsAssumption DEF BusyWorker
      <3> DEFINE x == Msg(t, d, n)
      <3>1. x \in Message /\ x.doc = d /\ x.task = t
        BY DEF Msg, Message, Tasks
      <3>2. Publish(x)
        BY <2>4
      <3>3. w \notin WorkersOn(d)'
        BY <1>h, <2>4, LetsGo
      <3>4. MessageLink(x, d)'
        BY <1>g, <1>h, <1>q, <2>1, <3>1 DEF MessageLink, WorkerLink, SameRow, InStagePC
      <3>5. QED
        BY <1>p, <3>1, <3>2, <3>3, <3>4
    <2>5. QED
      BY <1>2, <1>h, <2>2, <2>3, <2>4 DEF Retry
  <1>3. CASE ClaimSkipped(w)
    <2>1. w \notin WorkersOn(d)' /\ UNCHANGED queue
      BY <1>3, <1>h, LetsGo DEF ClaimSkipped
    <2>2. QED
      BY <1>q, <1>s, <2>1, HolderMoves
  <1>4. QED
    BY <1>1, <1>2, <1>3

\* Every step of a worker keeps what is true of every document.
LEMMA WorkerSerial ==
    ASSUME TypeInv, TypeInv', NEW w \in Workers, StageStep(w) \/ WorkerFault(w),
           NEW d \in Docs, DocumentInv(d), d \notin overtaken'
    PROVE  DocumentInv(d)'
  <1>1. CASE worker[w].doc # d
    BY <1>1, OtherDocument
  <1>2. CASE w \in WorkersOn(d)
    <2>1. worker[w].pc # "exit" /\ worker[w].pc # "purge"
      BY <1>2 DEF WorkersOn, HoldPC
    <2>2. ~Exit(w) /\ ~Purge(w)
      BY <2>1 DEF Exit, Purge, WorkerAt
    <2>3. QED
      BY <1>2, <2>2, HolderReads, HolderFails, HolderWrites, HolderPublishes DEF StageStep
  <1>3. CASE worker[w].doc = d /\ w \notin WorkersOn(d)
    <2>1. worker[w].pc \in {"exit", "purge"} /\ worker[w] \in BusyWorker
      BY <1>3, OneWorker, BusyFields DEF WorkersOn, HoldPC
    <2>2. Exit(w) \/ Purge(w) \/ WorkerCrash(w)
      <3>1. CASE StageStep(w)
        BY <2>1, <3>1 DEF StageStep, Claim, ClaimSkipped, Load, ReadOriginal, WriteNormalized,
           ReadNormalized, ReplaceChunks, ListUnembedded, CallProvider, StoreEmbeddings, Succeed,
           EnqueueNext, MarkFailed, Retry, ShellFail, TransactionAborted, WorkerAt, ShellPC
      <3>2. CASE WorkerFault(w)
        <4>1. ~(DbError(w) \/ SoftTimeout(w))
          BY <1>3, <2>1 DEF DbError, SoftTimeout, OvertakenIf, WorkerAt, ServicePC
        <4>2. QED
          BY <2>1, <3>2, <4>1 DEF WorkerFault, IoError, ProviderTransient, ShellDbError,
             EnqueueNextFails, RetryPublishFails, ShellTimeout, WorkerAt, ShellPC
      <3>3. QED
        BY <3>1, <3>2
    <2>3. UNCHANGED dbVars /\ UNCHANGED queue /\ WorkerDone(w)
      BY <2>2 DEF Exit, Purge, WorkerCrash
    <2>4. SameRow(d)
      BY <2>3 DEF SameRow, dbVars
    <2>5. w \notin WorkersOn(d)'
      BY <2>3, LetsGo
    <2>6. NoNewToken(d)
      <3>1. \A m \in MessagesOf(d)' : m \in MessagesOf(d) /\ queue'[m] <= queue[m]
        <4> TAKE m \in MessagesOf(d)'
        <4>1. m \in MessagesOf(d) /\ queue'[m] = queue[m] /\ queue[m] \in Nat
          BY <2>3 DEF MessagesOf, TypeInv, TypeOK
        <4>2. QED
          BY <4>1
      <3>2. \A v \in WorkersOn(d)' : v \in WorkersOn(d) /\ worker'[v] = worker[v]
        <4> TAKE v \in WorkersOn(d)'
        <4>1. v \in Workers /\ v # w
          BY <2>5 DEF WorkersOn
        <4>2. QED
          BY <4>1, OneWorker DEF WorkersOn
      <3>3. \A r \in RequestsOn(d)' : r \in RequestsOn(d) /\ request'[r] = request[r]
        BY OneWorker DEF RequestsOn
      <3>4. QED
        BY <3>1, <3>2, <3>3 DEF NoNewToken
    <2>7. Restarts(d)'
      BY <2>4, OneWorker, RestartsStay DEF Restarting
    <2>8. QED
      BY <2>4, <2>6, <2>7, Frame
  <1>4. QED
    BY <1>1, <1>2, <1>3

\* The delivery of a message passes the token to the worker.
LEMMA ReceiveSerial ==
    ASSUME TypeInv, TypeInv', NEW w \in Workers, NEW m \in Message, Receive(w, m),
           NEW d \in Docs, DocumentInv(d)
    PROVE  DocumentInv(d)'
  <1>1. /\ worker[w] = IdleWorker /\ queue[m] > 0 /\ queue' = [queue EXCEPT ![m] = @ - 1]
        /\ UNCHANGED dbVars /\ UNCHANGED request
    BY DEF Receive
  <1>2. /\ worker'[w].task = m.task /\ worker'[w].doc = m.doc
        /\ worker'[w].pc = (IF m.task = "purge" THEN "purge" ELSE "claim")
        /\ \A v \in Workers : v # w => worker'[v] = worker[v]
    BY DEF Receive, IdleWorker, TypeInv, TypeOK
  <1>3. /\ queue \in [Message -> Nat]
        /\ \A n \in Message : queue'[n] <= queue[n]
        /\ queue'[m] = queue[m] - 1
    BY <1>1 DEF TypeInv, TypeOK
  <1>4. SameRow(d)
    BY <1>1 DEF SameRow, dbVars
  <1>r. Restarts(d)'
    BY <1>1, <1>4, RestartsStay DEF Restarting
  <1>5. CASE m.task = "purge" \/ m.doc # d
    <2>1. w \notin WorkersOn(d)'
      BY <1>2, <1>5 DEF WorkersOn, HoldPC
    <2>2. \A n \in MessagesOf(d)' : n \in MessagesOf(d) /\ queue'[n] <= queue[n]
      <3> TAKE n \in MessagesOf(d)'
      <3>1. n \in Message /\ n.task \in Stages /\ n.doc = d /\ queue'[n] > 0
        BY DEF MessagesOf
      <3>2. queue'[n] <= queue[n] /\ queue[n] \in Nat /\ queue'[n] \in Nat
        BY <1>3, <3>1 DEF TypeInv, TypeOK
      <3>3. QED
        BY <3>1, <3>2 DEF MessagesOf
    <2>3. \A v \in WorkersOn(d)' : v \in WorkersOn(d) /\ worker'[v] = worker[v]
      <3> TAKE v \in WorkersOn(d)'
      <3>1. v \in Workers /\ v # w
        BY <2>1 DEF WorkersOn
      <3>2. QED
        BY <1>2, <3>1 DEF WorkersOn
    <2>4. \A r \in RequestsOn(d)' : r \in RequestsOn(d) /\ request'[r] = request[r]
      BY <1>1 DEF RequestsOn
    <2>5. QED
      BY <1>4, <1>r, <2>2, <2>3, <2>4, Frame DEF NoNewToken
  <1>6. CASE m.task # "purge" /\ m.doc = d
    <2>1. m \in MessagesOf(d)
      BY <1>1, <1>6 DEF MessagesOf, Message, Tasks
    <2>2. /\ MessagesOf(d) = {m} /\ RequestsOn(d) = {} /\ WorkersOn(d) = {} /\ queue[m] = 1
          /\ MessageLink(m, d) /\ m.task \in Stages
          /\ status[d] \in Processing \cup {"deleted"}
      BY <2>1, MessageHolds
    <2>3. MessagesOf(d)' = {}
      <3> SUFFICES ASSUME NEW n \in MessagesOf(d)'
                   PROVE  FALSE
        OBVIOUS
      <3>1. n \in Message /\ n.task \in Stages /\ n.doc = d /\ queue'[n] > 0
        BY DEF MessagesOf
      <3>2. n # m
        BY <1>3, <2>2, <3>1
      <3>3. queue'[n] = queue[n]
        BY <1>1, <1>3, <3>1, <3>2
      <3>4. n \in MessagesOf(d)
        BY <3>1, <3>3 DEF MessagesOf
      <3>5. QED
        BY <2>2, <3>2, <3>4
    <2>4. RequestsOn(d)' = {}
      BY <1>1, <2>2 DEF RequestsOn
    <2>5. WorkersOn(d)' \subseteq {w}
      <3> SUFFICES ASSUME NEW v \in WorkersOn(d)', v # w
                   PROVE  FALSE
        OBVIOUS
      <3>1. v \in WorkersOn(d)
        BY <1>2 DEF WorkersOn
      <3>2. QED
        BY <2>2, <3>1
    <2>6. \A x \in Stages : Reached(d, x)' <=> Reached(d, x)
      BY <1>4 DEF SameRow, Reached
    <2>7. WorkerLink(w, d)'
      BY <1>2, <1>4, <1>6, <2>2, <2>6 DEF WorkerLink, MessageLink, SameRow, InStagePC
    <2>8. Row(d)'
      <3>1. \E x \in Stages : Reached(d, x)'
        BY <2>6 DEF DocumentInv, Row
      <3>2. QED
        BY <1>4, <2>2, <3>1 DEF Row, SameRow, Processing
    <2>9. QED
      BY <1>r, <2>3, <2>4, <2>5, <2>7, <2>8, TokenIsWorker
  <1>7. QED
    BY <1>5, <1>6

(***************************************************************************)
(* The steps of the request                                                *)
(***************************************************************************)
\* A message about a stage that a request publishes is about its document.
LEMMA RequestMailbox ==
    ASSUME TypeInv, NEW r \in Requests, RequestStep(r) \/ RequestFault(r),
           NEW m \in Message, m.task \in Stages,
           request[r].doc # m.doc \/ UNCHANGED queue \/ EnqueuePurge(r)
    PROVE  queue'[m] = queue[m]
  <1>t. queue \in [Message -> Nat]
    BY DEF TypeInv, TypeOK
  <1>1. ASSUME NEW t, NEW n, Publish(Msg(t, request[r].doc, n)),
               t = "purge" \/ request[r].doc # m.doc
        PROVE  queue'[m] = queue[m]
    <2>1. m # Msg(t, request[r].doc, n)
      BY <1>1 DEF Msg, Stages
    <2>2. QED
      BY <1>1, <1>t, <2>1 DEF Publish
  <1>2. CASE UNCHANGED queue
    BY <1>2
  <1>3. CASE EnqueuePurge(r)
    BY <1>1, <1>3 DEF EnqueuePurge
  <1>4. CASE (EnqueueStage(r) \/ EnqueueStageFails(r)) /\ request[r].doc # m.doc
    BY <1>1, <1>4 DEF EnqueueStage, EnqueueStageFails
  <1>5. QED
    BY <1>2, <1>3, <1>4 DEF RequestStep, RequestFault, UploadCreate, RestartStage, RestartWrite,
       Refresh, MarkUnqueued, EnqueuePurgeFails, RequestCrash

\* What a request's step leaves alone.
LEMMA OneRequestStep ==
    ASSUME TypeInv, NEW r \in Requests, RequestStep(r) \/ RequestFault(r)
    PROVE  /\ worker' = worker /\ jobs' = jobs /\ gen' = gen /\ todo' = todo
           /\ request'[r] = IdleRequest \/ request'[r].doc = request[r].doc
           /\ \A d \in Docs : d # request[r].doc => status'[d] = status[d]
           /\ request[r] \in BusyRequest
           /\ \A q \in Requests : q # r => request'[q] = request[q]
  <1>0. request[r].pc # "idle"
    BY DEF RequestStep, RequestFault, UploadCreate, RestartStage, RestartWrite, Refresh,
       EnqueueStage, MarkUnqueued, EnqueuePurge, EnqueueStageFails, EnqueuePurgeFails, RequestCrash,
       TypeInv, TypeOK, BusyRequest, RequestPC
  <1>1. request[r] \in BusyRequest
    BY <1>0, BusyRequests DEF TypeInv
  <1>2. worker' = worker /\ jobs' = jobs /\ gen' = gen /\ todo' = todo
    BY DEF RequestStep, RequestFault, UploadCreate, RestartStage, RestartWrite, Refresh,
       EnqueueStage, MarkUnqueued, EnqueuePurge, EnqueueStageFails, EnqueuePurgeFails, RequestCrash,
       dbVars
  <1>3. \A d \in Docs : d # request[r].doc => status'[d] = status[d]
    BY DEF RequestStep, RequestFault, UploadCreate, RestartStage, RestartWrite, Refresh,
       EnqueueStage, MarkUnqueued, EnqueuePurge, EnqueueStageFails, EnqueuePurgeFails, RequestCrash,
       dbVars, TypeInv, TypeOK
  <1>4. \/ RequestDone(r) \/ \E pc \in RequestPC : RequestGoto(r, pc)
        \/ RestartStage(r)
    BY DEF RequestStep, RequestFault, UploadCreate, RestartWrite, Refresh,
       EnqueueStage, MarkUnqueued, EnqueuePurge, EnqueueStageFails, EnqueuePurgeFails, RequestCrash,
       RequestPC
  <1>5. CASE RequestDone(r)
    BY <1>1, <1>2, <1>3, <1>5 DEF RequestDone, TypeInv, TypeOK
  <1>6. CASE \E pc \in RequestPC : RequestGoto(r, pc)
    BY <1>1, <1>2, <1>3, <1>6 DEF RequestGoto, TypeInv, TypeOK, BusyRequest
  <1>7. CASE RestartStage(r)
    BY <1>1, <1>2, <1>3, <1>7 DEF RestartStage, TypeInv, TypeOK, BusyRequest
  <1>8. QED
    BY <1>4, <1>5, <1>6, <1>7

\* A request's step that moves neither the row of a document nor a token of it.
LEMMA RequestElsewhere ==
    ASSUME TypeInv, TypeInv', NEW r \in Requests, RequestStep(r) \/ RequestFault(r),
           NEW d \in Docs, DocumentInv(d), status'[d] = status[d],
           request[r].doc # d \/ UNCHANGED queue \/ EnqueuePurge(r),
           r \notin RequestsOn(d)',
           r \in Restarting(d)' => RestartLink(r, d)'
    PROVE  DocumentInv(d)'
  <1>1. SameRow(d)
    BY OneRequestStep DEF SameRow
  <1>2. \A m \in MessagesOf(d)' : m \in MessagesOf(d) /\ queue'[m] <= queue[m]
    <2> TAKE m \in MessagesOf(d)'
    <2>1. m \in Message /\ m.task \in Stages /\ m.doc = d /\ queue'[m] > 0
      BY DEF MessagesOf
    <2>2. queue'[m] = queue[m] /\ queue[m] \in Nat
      BY <2>1, RequestMailbox DEF TypeInv, TypeOK
    <2>3. QED
      BY <2>1, <2>2 DEF MessagesOf
  <1>3. \A w \in WorkersOn(d)' : w \in WorkersOn(d) /\ worker'[w] = worker[w]
    BY OneRequestStep DEF WorkersOn
  <1>4. \A q \in RequestsOn(d)' : q \in RequestsOn(d) /\ request'[q] = request[q]
    BY OneRequestStep DEF RequestsOn
  <1>5. Restarts(d)'
    BY <1>1, OneRequestStep, RestartsStay DEF Restarting
  <1>6. QED
    BY <1>1, <1>2, <1>3, <1>4, <1>5, Frame DEF NoNewToken

\* Every step of the request that holds a document.
LEMMA HolderRequest ==
    ASSUME TypeInv, TypeInv', NEW d \in Docs, DocumentInv(d), NEW r \in RequestsOn(d),
           RequestStep(r) \/ RequestFault(r), d \notin overtaken'
    PROVE  DocumentInv(d)'
  <1>h. /\ MessagesOf(d) = {} /\ RequestsOn(d) = {r} /\ WorkersOn(d) = {}
        /\ RequestLink(r, d)
        /\ r \in Requests /\ request[r].doc = d
        /\ request[r].stage \in Stages /\ request[r] \in BusyRequest
        /\ status[d] \in Processing \cup {"absent", "deleted"}
        /\ status[d] = "absent" => request[r].pc = "create"
    BY RequestHeld
  <1> PICK s \in Stages : s = request[r].stage
    BY <1>h
  <1>r. request[r].pc \in RequestHolds
    BY DEF RequestsOn
  <1>o. /\ worker' = worker /\ jobs' = jobs /\ gen' = gen /\ todo' = todo
        /\ \A q \in Requests : q # r => request'[q] = request[q]
    BY <1>h, OneRequestStep
  <1>x. status[d] = "deleted" => status'[d] = "deleted"
    <2>1. Next
      BY <1>h DEF Next
    <2>2. QED
      BY <2>1, DeletedForGood
  <1>g. \A x \in Stages : Reached(d, x)' <=> Reached(d, x)
    BY <1>o DEF Reached
  <1>f. FirstFailedStage(d)' = FirstFailedStage(d) /\ FirstFailedStage(d) \in Stages
    BY <1>o, FirstFailedStageType DEF FirstFailedStage
  <1>e. status'[d] # "deleted" => Resumable(d)' /\ Resumable(d) /\ s = FirstFailedStage(d)
    BY <1>f, <1>g, <1>h, <1>o, <1>x DEF Resumable, Reached, RequestLink
  <1>w. WorkersOn(d)' = {}
    BY <1>h, <1>o DEF WorkersOn
  <1>q. RequestsOn(d)' \subseteq {r}
    BY <1>h, <1>o DEF RequestsOn
  <1>m. ASSUME UNCHANGED queue
        PROVE  MessagesOf(d)' = {}
    BY <1>h, <1>m DEF MessagesOf
  <1>y. status'[d] \in {"failed", "deleted"} \cup Processing => Row(d)'
    <2>1. \E t \in Stages : Reached(d, t)'
      BY <1>g DEF DocumentInv, Row
    <2>2. QED
      BY <1>e, <2>1 DEF Row, Processing
  <1>z. request'[r].pc \in RequestHolds \cup {"idle"} => Restarts(d)'
    <2>1. Next /\ status[d] # "failed"
      BY <1>h, Statuses DEF Next
    <2>2. request'[r].pc \in RequestHolds \cup {"idle"} => Restarting(d)' \subseteq Restarting(d)
      BY <1>o DEF Restarting, RequestHolds
    <2>3. QED
      BY <2>1, <2>2, RestartsWait
  <1>l. ASSUME NEW pc \in RequestPC, RequestGoto(r, pc)
        PROVE  request'[r].pc = pc /\ request'[r].stage = s
    BY <1>h, <1>l DEF RequestGoto, TypeInv, TypeOK, BusyRequest
  <1>p. {"refresh", "enqueue", "unqueued"} \subseteq RequestPC \cap RequestHolds
    BY DEF RequestPC, RequestHolds
  <1>d. RequestDone(r) => request'[r].pc = "idle" /\ r \notin RequestsOn(d)' /\ Restarts(d)'
    <2>1. RequestDone(r) => request'[r].pc = "idle"
      BY <1>h DEF RequestDone, IdleRequest, TypeInv, TypeOK
    <2>2. QED
      BY <1>z, <2>1 DEF RequestsOn, RequestHolds
  <1>n. ASSUME request'[r].pc \in {"refresh", "enqueue", "unqueued"}, request'[r].stage = s,
               status'[d] \in {EntryStatus[s], "deleted"}, UNCHANGED queue
        PROVE  DocumentInv(d)'
    <2>1. RequestLink(r, d)'
      BY <1>e, <1>f, <1>n DEF RequestLink
    <2>2. Row(d)'
      BY <1>n, <1>y, Statuses
    <2>3. Restarts(d)'
      BY <1>n, <1>p, <1>z
    <2>4. QED
      BY <1>h, <1>m, <1>n, <1>q, <1>w, <2>1, <2>2, <2>3, TokenIsRequest
  <1>i. request[r].pc # "create" => status[d] \in {EntryStatus[s], "deleted"}
    BY <1>h DEF RequestLink
  <1>1. CASE UploadCreate(r)
    <2>1. s = "parse"
      <3>1. \A x \in Stages : jobs[d][x] = "none"
        BY <1>1, <1>h DEF UploadCreate, DocumentInv, Row
      <3>2. FirstFailedStage(d) = "parse"
        BY <3>1 DEF FirstFailedStage, Stages
      <3>3. status[d] # "deleted"
        BY <1>1, <1>h DEF UploadCreate
      <3>4. QED
        BY <1>h, <3>2, <3>3 DEF RequestLink
    <2>2. status'[d] = EntryStatus[s]
      BY <1>1, <1>h, <2>1, Statuses DEF UploadCreate, TypeInv, TypeOK
    <2>3. request'[r].pc = "enqueue" /\ request'[r].stage = s
      BY <1>1, <1>l, <1>p DEF UploadCreate
    <2>4. QED
      BY <1>1, <1>n, <2>2, <2>3 DEF UploadCreate
  <1>4. CASE Refresh(r)
    <2>1. status[d] \in {EntryStatus[s], "deleted"} /\ status'[d] = status[d] /\ UNCHANGED queue
      BY <1>4, <1>i DEF Refresh, dbVars
    <2>2. CASE Exists(d)
      <3>1. request'[r].pc = "enqueue" /\ request'[r].stage = s
        BY <1>4, <1>h, <1>l, <1>p, <2>2 DEF Refresh
      <3>2. QED
        BY <1>n, <2>1, <3>1
    <2>3. CASE ~Exists(d)
      <3>1. RequestDone(r)
        BY <1>4, <1>h, <2>3 DEF Refresh
      <3>2. Row(d)'
        BY <1>y, <2>1, Statuses
      <3>3. QED
        BY <1>d, <1>h, <1>m, <1>q, <1>w, <2>1, <3>1, <3>2, TokenIsRequest
    <2>4. QED
      BY <2>2, <2>3
  <1>5. CASE EnqueueStage(r)
    <2> DEFINE x == Msg(s, d, 0)
    <2>1. x \in Message /\ x.doc = d /\ x.task = s
      BY ConstantsAssumption DEF Msg, Message, Tasks
    <2>2. Publish(x) /\ status' = status
      BY <1>5, <1>h DEF EnqueueStage, dbVars
    <2>3. queue \in [Message -> Nat] /\ queue[x] = 0
      BY <1>h, <2>1 DEF MessagesOf, TypeInv, TypeOK
    <2>4. queue'[x] = 1 /\ \A m \in Message : m # x => queue'[m] = queue[m]
      BY <2>1, <2>2, <2>3 DEF Publish
    <2>5. MessagesOf(d)' \subseteq {x}
      BY <1>h, <2>4 DEF MessagesOf
    <2>6. status[d] \in {EntryStatus[s], "deleted"}
      BY <1>5, <1>i DEF EnqueueStage
    <2>7. status'[d] # "deleted" => Reached(d, s)
      BY <1>e DEF Resumable
    <2>8. MessageLink(x, d)'
      BY <1>g, <2>1, <2>2, <2>6, <2>7, HeldStatuses DEF MessageLink
    <2>9. Row(d)'
      BY <1>y, <2>2, <2>6, Statuses
    <2>10. RequestsOn(d)' = {} /\ Restarts(d)'
      BY <1>5, <1>d, <1>q DEF EnqueueStage
    <2>11. queue'[x] <= 1
      BY <2>4
    <2> HIDE DEF x
    <2>12. QED
      BY <1>w, <2>1, <2>5, <2>8, <2>9, <2>10, <2>11, TokenIsMessage
  <1>6. CASE EnqueueStageFails(r)
    <2>1. status[d] \in {EntryStatus[s], "deleted"} /\ status'[d] = status[d]
      BY <1>6, <1>i DEF EnqueueStageFails, dbVars
    <2>2. request'[r].pc = "unqueued" /\ request'[r].stage = s
      BY <1>6, <1>l, <1>p DEF EnqueueStageFails
    <2>3. UNCHANGED queue
      BY <1>6, <1>h DEF EnqueueStageFails
    <2>4. QED
      BY <1>n, <2>1, <2>2, <2>3
  <1>7. CASE MarkUnqueued(r)
    <2>1. status[d] \in {EntryStatus[s], "deleted"} /\ UNCHANGED queue
      BY <1>7, <1>i DEF MarkUnqueued
    <2>2. status'[d] \in {"failed", "deleted"}
      BY <1>7, <1>h, <2>1, Statuses DEF MarkUnqueued, Exists, TypeInv, TypeOK
    <2>3. Row(d)'
      BY <1>y, <2>2
    <2>4. r \notin RequestsOn(d)' /\ MessagesOf(d)' = {} /\ Restarts(d)'
      BY <1>7, <1>d, <1>m, <2>1 DEF MarkUnqueued
    <2>5. QED
      BY <1>h, <1>q, <1>w, <2>3, <2>4, TokenIsRequest
  <1>8. CASE RequestCrash(r)
    <2>1. r \notin RequestsOn(d)' /\ request'[r].pc = "idle" /\ status'[d] = status[d]
      BY <1>8, <1>d DEF RequestCrash, dbVars
    <2>2. r \notin Restarting(d)' /\ UNCHANGED queue
      BY <1>8, <2>1 DEF RequestCrash, Restarting
    <2>3. QED
      BY <1>h, <2>1, <2>2, RequestElsewhere
  <1>9. CASE RestartStage(r) \/ RestartWrite(r) \/ EnqueuePurge(r) \/ EnqueuePurgeFails(r)
    BY <1>9, <1>r DEF RestartStage, RestartWrite, EnqueuePurge, EnqueuePurgeFails, RequestHolds
  <1>10. QED
    BY <1>1, <1>4, <1>5, <1>6, <1>7, <1>8, <1>9 DEF RequestStep, RequestFault

\* A restart that writes the row of a document nobody else is restarting becomes
\* its holder.
LEMMA RestartTakesOver ==
    ASSUME TypeInv, TypeInv', NEW d \in Docs, DocumentInv(d), NEW r \in Requests,
           request[r].doc = d, RestartWrite(r), Exists(d), d \notin overtaken'
    PROVE  DocumentInv(d)'
  <1> PICK s \in Stages : s = request[r].stage
    BY BusyRequests DEF RestartWrite, TypeInv, BusyRequest
  <1>b. request[r] \in BusyRequest
    BY BusyRequests DEF RestartWrite, TypeInv
  <1>1. r \in Restarting(d) /\ request[r].pc = "write"
    BY DEF Restarting, RestartWrite
  <1>2. RestartLink(r, d)
    BY <1>1 DEF DocumentInv, Restarts
  <1>3. status[d] = "failed" /\ s = FirstFailedStage(d)
    BY <1>1, <1>2 DEF RestartLink, Exists
  <1>4. MessagesOf(d) = {} /\ WorkersOn(d) = {} /\ RequestsOn(d) = {}
    BY <1>3, Resting
  <1>5. /\ status' = [status EXCEPT ![d] = EntryStatus[s]] /\ RequestGoto(r, "refresh")
        /\ OvertakenIf(Restarting(d) \ {r} # {}, d)
        /\ UNCHANGED <<jobs, queue, worker>>
    BY DEF RestartWrite
  <1>6. Restarting(d) \subseteq {r}
    BY <1>5 DEF OvertakenIf
  <1>7. /\ status'[d] = EntryStatus[s]
        /\ request'[r].pc = "refresh" /\ request'[r].stage = s
        /\ \A q \in Requests : q # r => request'[q] = request[q]
    BY <1>b, <1>5 DEF RequestGoto, BusyRequest, TypeInv, TypeOK
  <1>8. Restarts(d)'
    BY <1>6, <1>7 DEF Restarts, Restarting
  <1>9. RequestsOn(d)' \subseteq {r}
    BY <1>4, <1>7 DEF RequestsOn
  <1>10. MessagesOf(d)' = {} /\ WorkersOn(d)' = {}
    BY <1>4, <1>5 DEF MessagesOf, WorkersOn
  <1>11. FirstFailedStage(d)' = FirstFailedStage(d) /\ \A t \in Stages : Reached(d, t)' <=> Reached(d, t)
    BY <1>5 DEF FirstFailedStage, Reached
  <1>12. Resumable(d)'
    BY <1>3, <1>5, <1>11 DEF DocumentInv, Row, Resumable, Reached
  <1>13. RequestLink(r, d)'
    BY <1>3, <1>7, <1>11, <1>12 DEF RequestLink
  <1>14. Row(d)'
    <2>1. EntryStatus[s] \in Processing
      BY Statuses
    <2>2. QED
      BY <1>7, <1>11, <2>1 DEF DocumentInv, Row, Processing
  <1>15. QED
    BY <1>8, <1>9, <1>10, <1>13, <1>14, TokenIsRequest

\* Every step of a request keeps what is true of every document.
LEMMA RequestSerial ==
    ASSUME TypeInv, TypeInv', NEW r \in Requests, RequestStep(r) \/ RequestFault(r),
           NEW d \in Docs, DocumentInv(d), d \notin overtaken'
    PROVE  DocumentInv(d)'
  <1>b. request[r] \in BusyRequest
    BY OneRequestStep
  <1>1. CASE r \in RequestsOn(d)
    BY <1>1, HolderRequest
  <1>2. CASE request[r].doc # d
    <2>1. r \notin RequestsOn(d)' /\ r \notin Restarting(d)'
      BY <1>2, OneRequestStep, ConstantsAssumption DEF RequestsOn, Restarting, IdleRequest
    <2>2. QED
      BY <1>2, <2>1, OneRequestStep, RequestElsewhere
  <1>3. CASE RestartStage(r) /\ request[r].doc = d
    <2>1. /\ request'[r].pc = "write" /\ request'[r].stage = FirstFailedStage(d)
          /\ request'[r].doc = d
      BY <1>3, <1>b DEF RestartStage, TypeInv, TypeOK, BusyRequest
    <2>2. status' = status /\ jobs' = jobs /\ UNCHANGED queue
      BY <1>3 DEF RestartStage, dbVars
    <2>3. RestartLink(r, d)
      BY <1>3 DEF RestartStage, Restarting, DocumentInv, Restarts
    <2>4. FirstFailedStage(d)' = FirstFailedStage(d)
      BY <2>2 DEF FirstFailedStage
    <2>5. RestartLink(r, d)'
      BY <2>1, <2>2, <2>3, <2>4 DEF RestartLink
    <2>6. r \notin RequestsOn(d)'
      BY <2>1 DEF RequestsOn, RequestHolds
    <2>7. QED
      BY <2>2, <2>5, <2>6, RequestElsewhere
  <1>4. CASE RestartWrite(r) /\ request[r].doc = d
    <2>1. CASE Exists(d)
      BY <1>4, <2>1, RestartTakesOver
    <2>2. CASE ~Exists(d)
      <3>1. RequestDone(r) /\ UNCHANGED status /\ UNCHANGED queue
        BY <1>4, <2>2 DEF RestartWrite
      <3>2. request'[r].pc = "idle"
        BY <3>1 DEF RequestDone, IdleRequest, TypeInv, TypeOK
      <3>3. r \notin RequestsOn(d)' /\ r \notin Restarting(d)'
        BY <3>2 DEF RequestsOn, Restarting, RequestHolds
      <3>4. QED
        BY <3>1, <3>3, RequestElsewhere
    <2>3. QED
      BY <2>1, <2>2
  <1>5. CASE RequestCrash(r) \/ EnqueuePurge(r) \/ EnqueuePurgeFails(r)
    <2>1. RequestDone(r) /\ UNCHANGED status /\ (UNCHANGED queue \/ EnqueuePurge(r))
      BY <1>5 DEF RequestCrash, EnqueuePurge, EnqueuePurgeFails, dbVars
    <2>2. request'[r].pc = "idle"
      BY <2>1 DEF RequestDone, IdleRequest, TypeInv, TypeOK
    <2>3. r \notin RequestsOn(d)' /\ r \notin Restarting(d)'
      BY <2>2 DEF RequestsOn, Restarting, RequestHolds
    <2>4. QED
      BY <2>1, <2>3, RequestElsewhere
  <1>6. CASE /\ request[r].doc = d /\ r \notin RequestsOn(d)
             /\ \/ UploadCreate(r) \/ Refresh(r) \/ EnqueueStage(r) \/ EnqueueStageFails(r)
                \/ MarkUnqueued(r)
    BY <1>6 DEF UploadCreate, Refresh, EnqueueStage, EnqueueStageFails, MarkUnqueued, RequestsOn,
       RequestHolds
  <1>7. QED
    BY <1>1, <1>2, <1>3, <1>4, <1>5, <1>6 DEF RequestStep, RequestFault

\* What a user starts keeps what is true of every document.
LEMMA UserSerial ==
    ASSUME TypeInv, TypeInv', UserStep, NEW d \in Docs, DocumentInv(d)
    PROVE  DocumentInv(d)'
  <1> PICK r \in Requests, x \in Docs : UploadPut(r, x) \/ RestartCheck(r, x) \/ Delete(r, x)
    BY DEF UserStep
  <1>1. /\ request[r] = IdleRequest
        /\ UNCHANGED queue /\ UNCHANGED worker /\ UNCHANGED gen
        /\ \A q \in Requests : q # r => request'[q] = request[q]
    BY DEF UploadPut, RestartCheck, Delete, dbVars, TypeInv, TypeOK
  <1>2. MessagesOf(d)' = MessagesOf(d) /\ WorkersOn(d)' = WorkersOn(d)
    BY <1>1 DEF MessagesOf, WorkersOn
  <1>3. request'[r].doc = x /\ request'[r].stage = "parse"
    BY DEF UploadPut, RestartCheck, Delete, TypeInv, TypeOK
  <1>4. CASE SameRow(d) /\ r \notin RequestsOn(d)' /\ (r \in Restarting(d)' => RestartLink(r, d)')
    <2>1. \A m \in MessagesOf(d)' : m \in MessagesOf(d) /\ queue'[m] <= queue[m]
      <3> TAKE m \in MessagesOf(d)'
      <3>1. m \in MessagesOf(d) /\ queue'[m] = queue[m] /\ queue[m] \in Nat
        BY <1>1, <1>2 DEF MessagesOf, TypeInv, TypeOK
      <3>2. QED
        BY <3>1
    <2>2. \A w \in WorkersOn(d)' : w \in WorkersOn(d) /\ worker'[w] = worker[w]
      BY <1>1, <1>2
    <2>3. \A q \in RequestsOn(d)' : q \in RequestsOn(d) /\ request'[q] = request[q]
      BY <1>1, <1>4 DEF RequestsOn
    <2>4. Restarts(d)'
      BY <1>1, <1>4, RestartsStay DEF Restarting
    <2>5. QED
      BY <1>4, <2>1, <2>2, <2>3, <2>4, Frame DEF NoNewToken
  <1>5. CASE x # d
    <2>1. SameRow(d)
      BY <1>5 DEF UploadPut, RestartCheck, Delete, dbVars, SameRow, TypeInv, TypeOK
    <2>2. QED
      BY <1>3, <1>4, <1>5, <2>1 DEF RequestsOn, Restarting
  <1>6. CASE x = d /\ RestartCheck(r, d)
    <2>1. SameRow(d) /\ status[d] = "failed" /\ request'[r].pc = "stage"
      BY <1>6 DEF RestartCheck, dbVars, SameRow, TypeInv, TypeOK
    <2>2. QED
      BY <1>4, <2>1 DEF RequestsOn, RequestHolds, RestartLink, SameRow
  <1>7. CASE x = d /\ UploadPut(r, d)
    <2>1. /\ SameRow(d) /\ status[d] = "absent" /\ request'[r].pc = "create"
          /\ \A q \in Requests : request[q].doc # d
      BY <1>7 DEF UploadPut, dbVars, SameRow, TypeInv, TypeOK
    <2>2. MessagesOf(d)' = {} /\ WorkersOn(d)' = {}
      BY <1>2, <2>1, Resting
    <2>3. RequestsOn(d)' \subseteq {r} /\ Restarting(d)' = {}
      BY <1>1, <2>1 DEF RequestsOn, Restarting
    <2>4. FirstFailedStage(d)' = FirstFailedStage(d)
      BY <2>1 DEF SameRow, FirstFailedStage
    <2>5. \A y \in Stages : Reached(d, y)' <=> Reached(d, y)
      BY <2>1 DEF SameRow, Reached
    <2>6. Resumable(d) /\ FirstFailedStage(d) = "parse"
      BY <2>1 DEF DocumentInv, Row, Resumable, Reached, FirstFailedStage, StagesBefore,
         StagesAfter, Stages
    <2>7. Resumable(d)'
      BY <2>1, <2>4, <2>5, <2>6, FirstFailedStageType DEF Resumable, Reached, SameRow
    <2>8. Row(d)'
      BY <2>1, <2>5, <2>7 DEF Row, SameRow, DocumentInv
    <2>9. RequestLink(r, d)'
      BY <1>3, <2>1, <2>4, <2>6, <2>7 DEF RequestLink, SameRow
    <2>10. Restarts(d)'
      BY <2>3 DEF Restarts
    <2>11. QED
      BY <2>2, <2>3, <2>8, <2>9, <2>10, TokenIsRequest
  <1>8. CASE x = d /\ Delete(r, d)
    <2>1. /\ status'[d] = "deleted" /\ todo'[d] = {} /\ \A s \in Stages : jobs'[d][s] = "none"
          /\ request'[r].pc = "purge" /\ Exists(d)
      BY <1>8 DEF Delete, TypeInv, TypeOK
    <2>2. \A q \in RequestsOn(d)' : q \in RequestsOn(d) /\ request'[q] = request[q]
      BY <1>1, <2>1 DEF RequestsOn, RequestHolds
    <2>3. OneToken(d)'
      <3>1. \A m \in MessagesOf(d)' : queue'[m] <= 1
        BY <1>1, <1>2 DEF DocumentInv, OneToken
      <3>2. QED
        BY <1>2, <2>2, <3>1 DEF DocumentInv, OneToken
    <2>4. Row(d)'
      <3>1. Reached(d, "parse")'
        BY <2>1 DEF Reached, StagesBefore, StagesAfter, Stages
      <3>2. QED
        BY <2>1, <3>1 DEF Row, Stages
    <2>5. ASSUME NEW m \in MessagesOf(d)'
          PROVE  MessageLink(m, d)'
      BY <2>1 DEF MessageLink
    <2>6. ASSUME NEW w \in WorkersOn(d)'
          PROVE  WorkerLink(w, d)'
      <3>1. w \in WorkersOn(d) /\ worker'[w] = worker[w]
        BY <1>1, <1>2, <2>6
      <3>2. WorkerLink(w, d)
        BY <3>1 DEF DocumentInv, Links
      <3>3. QED
        BY <2>1, <3>1, <3>2 DEF WorkerLink
    <2>7. ASSUME NEW q \in RequestsOn(d)'
          PROVE  RequestLink(q, d)'
      <3>1. q \in RequestsOn(d) /\ request'[q] = request[q]
        BY <2>2, <2>7
      <3>2. request[q].pc # "create"
        BY <2>1, <3>1 DEF DocumentInv, Links, RequestLink, Exists
      <3>3. QED
        BY <2>1, <3>1, <3>2 DEF RequestLink
    <2>8. Restarts(d)'
      BY <2>1 DEF Restarts, RestartLink
    <2>9. QED
      BY <2>3, <2>4, <2>5, <2>6, <2>7, <2>8 DEF DocumentInv, Links
  <1>9. QED
    BY <1>5, <1>6, <1>7, <1>8

\* Together: the invariant is inductive, and holds initially.
LEMMA SerialNext == SerialInv /\ [Next]_vars => SerialInv'
  <1> SUFFICES ASSUME SerialInv, [Next]_vars
               PROVE  SerialInv'
    OBVIOUS
  <1>1. TypeInv /\ TypeInv'
    BY NextType DEF SerialInv
  <1>2. ASSUME NEW d \in Docs, d \notin overtaken'
        PROVE  DocumentInv(d)'
    <2>0. d \notin overtaken
      BY <1>1, <1>2, HistoryStep
    <2>1. DocumentInv(d)
      BY <2>0 DEF SerialInv
    <2>2. CASE UNCHANGED vars
      <3>1. SameRow(d)
        BY <2>2 DEF vars, SameRow
      <3>2. NoNewToken(d)
        <4>1. \A m \in MessagesOf(d)' : m \in MessagesOf(d) /\ queue'[m] <= queue[m]
          <5> TAKE m \in MessagesOf(d)'
          <5>1. m \in MessagesOf(d) /\ queue'[m] = queue[m] /\ queue[m] \in Nat
            BY <1>1, <2>2 DEF vars, MessagesOf, TypeInv, TypeOK
          <5>2. QED
            BY <5>1
        <4>2. \A w \in WorkersOn(d)' : w \in WorkersOn(d) /\ worker'[w] = worker[w]
          BY <2>2 DEF vars, WorkersOn
        <4>3. \A r \in RequestsOn(d)' : r \in RequestsOn(d) /\ request'[r] = request[r]
          BY <2>2 DEF vars, RequestsOn
        <4>4. QED
          BY <4>1, <4>2, <4>3 DEF NoNewToken
      <3>3. Restarts(d)'
        BY <2>1, <2>2, <3>1, RestartsStay DEF vars, Restarting
      <3>4. QED
        BY <1>1, <2>1, <3>1, <3>2, <3>3, Frame
    <2>3. CASE UserStep
      BY <1>1, <2>1, <2>3, UserSerial
    <2>4. ASSUME NEW r \in Requests, RequestStep(r) \/ RequestFault(r)
          PROVE  DocumentInv(d)'
      BY <1>1, <1>2, <2>1, <2>4, RequestSerial
    <2>5. ASSUME NEW w \in Workers, WorkerStep(w) \/ WorkerFault(w)
          PROVE  DocumentInv(d)'
      BY <1>1, <1>2, <2>1, <2>5, ReceiveSerial, WorkerSerial DEF WorkerStep
    <2>6. QED
      BY <2>2, <2>3, <2>4, <2>5 DEF Next
  <1>3. QED
    BY <1>1, <1>2 DEF SerialInv

LEMMA SerialInit == Init => SerialInv
  <1> SUFFICES ASSUME Init
               PROVE  SerialInv
    OBVIOUS
  <1>1. TypeInv
    BY InitType
  <1>2. ASSUME NEW d \in Docs
        PROVE  DocumentInv(d)
    <2>1. MessagesOf(d) = {}
      BY DEF Init, MessagesOf
    <2>2. WorkersOn(d) = {} /\ RequestsOn(d) = {} /\ Restarting(d) = {}
      BY <1>2, ConstantsAssumption DEF Init, WorkersOn, RequestsOn, Restarting, IdleWorker,
         IdleRequest
    <2>3. Row(d)
      <3>1. Reached(d, "parse") /\ "parse" \in Stages
        BY DEF Init, Reached, StagesBefore, StagesAfter, Stages
      <3>2. QED
        BY <3>1 DEF Init, Row
    <2>4. QED
      BY <2>1, <2>2, <2>3 DEF DocumentInv, OneToken, Links, Restarts
  <1>3. QED
    BY <1>1, <1>2 DEF SerialInv

(***************************************************************************)
(* What follows from it                                                    *)
(***************************************************************************)
\* Until somebody acts on it late (overtaken), a document has at most one token: a
\* message, a worker or a request.  The token tells its row and its jobs, and what
\* a restart has read of it is still true when the restart writes.
THEOREM SerialInvariance == Spec => []SerialInv
  <1>1. Init => SerialInv
    BY SerialInit
  <1>2. SerialInv /\ [Next]_vars => SerialInv'
    BY SerialNext
  <1>3. QED
    BY <1>1, <1>2, PTL DEF Spec

\* Two workers execute stages of one document at the same time only after one of
\* the late steps: of two restarts that found it failed one writes after the other
\* (DocumentService._restart_from_failed_stage), a publish raises for a message the
\* broker has, or a task that has handed the document on is taken up again or
\* failed by an error or the time limit on its way out.
THEOREM OneWorkerAtATime == Spec => []OneExecution
  <1>1. SerialInv => OneExecution
    <2> SUFFICES ASSUME SerialInv, NEW d \in Docs \ overtaken
                 PROVE  Cardinality(Executing(d)) <= 1
      BY DEF OneExecution
    <2>1. Executing(d) \subseteq WorkersOn(d)
      BY DEF Executing, WorkersOn, HoldPC
    <2>2. \A v, w \in Executing(d) : v = w
      BY <2>1 DEF SerialInv, DocumentInv, OneToken
    <2>3. CASE Executing(d) = {}
      BY <2>3, FS_EmptySet
    <2>4. CASE Executing(d) # {}
      <3>1. PICK w : w \in Executing(d)
        BY <2>4
      <3>2. Executing(d) = {w}
        BY <2>2, <3>1
      <3>3. Cardinality({w}) = 1
        BY FS_Singleton
      <3>4. QED
        BY <3>2, <3>3
    <2>5. QED
      BY <2>3, <2>4
  <1>2. QED
    BY <1>1, SerialInvariance, PTL

\* A document that retrieval may search has every chunk embedded, whatever crashed
\* or was retried between two batches: embed reaches _succeed only when
\* list_unembedded found nothing, and nobody replaces the chunks of a document
\* another one holds, unless the document is overtaken.
THEOREM ReadyMeansEmbedded == Spec => []ReadyIsComplete
  <1>1. SerialInv => ReadyIsComplete
    BY DEF SerialInv, DocumentInv, Row, ReadyIsComplete
  <1>2. QED
    BY <1>1, SerialInvariance, PTL

\* The embed stage never pays for a chunk twice, unless the document is overtaken:
\* what set_embeddings is about to store is still missing, of the chunks the
\* document has now, also after the answer to a commit was lost.
THEOREM EmbeddedOnce == Spec => []NeverReembeds
  <1>1. SerialInv => NeverReembeds
    <2> SUFFICES ASSUME SerialInv, NEW w \in Workers, WorkerAt(w, "store"), Exists(worker[w].doc),
                        worker[w].doc \notin overtaken
                 PROVE  /\ worker[w].gen = gen[worker[w].doc]
                        /\ worker[w].batch \subseteq todo[worker[w].doc]
      BY DEF NeverReembeds
    <2> PICK d \in Docs : d = worker[w].doc
      BY BusyFields DEF SerialInv, WorkerAt
    <2>1. w \in WorkersOn(d) /\ DocumentInv(d)
      BY DEF SerialInv, WorkersOn, HoldPC, WorkerPC, ServicePC, WorkerAt
    <2>2. WorkerLink(w, d)
      BY <2>1 DEF DocumentInv, Links
    <2>3. QED
      BY <2>2 DEF WorkerLink, WorkerAt, Exists
  <1>2. QED
    BY <1>1, SerialInvariance, PTL

\* The job rows are a prefix of parse, chunk, embed until the document is
\* overtaken, so the stage first_failed_stage names has the stages before it done.
THEOREM JobsTellTheStage == Spec => []JobsAreAPrefix
  <1>1. SerialInv => JobsAreAPrefix
    BY DEF SerialInv, DocumentInv, Row, Reached, StagesBefore, StagesAfter, Stages, JobsAreAPrefix
  <1>2. QED
    BY <1>1, SerialInvariance, PTL

\* Where the status of a document goes in one step.
LEMMA StatusMoves ==
    ASSUME SerialInv, [Next]_vars, NEW d \in Docs \ overtaken', status'[d] # status[d]
    PROVE  Transition(status[d], status'[d])
  <1>0. TypeInv /\ Next /\ DocumentInv(d)
    BY HistoryStep DEF SerialInv, vars
  <1>t. status \in [Docs -> Status]
    BY <1>0 DEF TypeInv, TypeOK
  <1>1. ASSUME NEW r \in Requests, UploadCreate(r)
        PROVE  Transition(status[d], status'[d])
    BY <1>1, <1>t DEF UploadCreate, Transition
  <1>2. ASSUME NEW r \in Requests, RestartWrite(r)
        PROVE  Transition(status[d], status'[d])
    <2>1. /\ request[r].doc = d /\ r \in Restarting(d) /\ status[d] # "deleted"
          /\ status'[d] = EntryStatus[request[r].stage]
      BY <1>2, <1>t DEF RestartWrite, Restarting, Exists
    <2>2. status[d] = "failed"
      BY <1>0, <2>1 DEF DocumentInv, Restarts, RestartLink
    <2>3. EntryStatus[request[r].stage] \in Processing
      BY <1>0, <1>2, BusyRequests, Statuses DEF RestartWrite, TypeInv, BusyRequest
    <2>4. QED
      BY <2>1, <2>2, <2>3 DEF Transition
  <1>3. ASSUME NEW r \in Requests, MarkUnqueued(r)
        PROVE  Transition(status[d], status'[d])
    <2>1. /\ request[r].doc = d /\ r \in RequestsOn(d) /\ Exists(d) /\ status'[d] = "failed"
          /\ request[r].pc = "unqueued"
      BY <1>3, <1>t DEF MarkUnqueued, RequestsOn, RequestHolds
    <2>2. status[d] \in Processing
      BY <1>0, <2>1, RequestHeld DEF Exists
    <2>3. QED
      BY <2>1, <2>2 DEF Transition
  <1>4. ASSUME NEW r \in Requests, Delete(r, d)
        PROVE  Transition(status[d], status'[d])
    BY <1>4, <1>t DEF Delete, Transition
  <1>5. ASSUME NEW w \in Workers, Claim(w) \/ ReplaceChunks(w) \/ Succeed(w) \/ MarkFailed(w)
                                  \/ ShellFail(w)
        PROVE  Transition(status[d], status'[d])
    <2>1. worker[w].doc = d
      BY <1>5, <1>t DEF Claim, ClaimRow, ReplaceChunks, Succeed, MarkFailed, ShellFail, Finish,
         SetStatus, dbVars
    <2>2. w \in WorkersOn(d)
      BY <1>5, <2>1 DEF Claim, ReplaceChunks, Succeed, MarkFailed, ShellFail, WorkerAt, WorkersOn,
         HoldPC, WorkerPC, ServicePC, ShellPC
    <2>3. /\ WorkerLink(w, d) /\ worker[w].task \in Stages /\ Fit(worker[w].pc, worker[w].task)
          /\ status[d] \in Processing \cup {"deleted"}
      BY <1>0, <2>2, WorkerHolds
    <2> PICK t \in Stages : t = worker[w].task
      BY <2>3
    <2>4. CASE Claim(w)
      <3>1. status[d] \in AllowedFrom[t] /\ status'[d] = RunningStatus[t]
        BY <1>t, <2>1, <2>4 DEF Claim, ClaimRow
      <3>2. status[d] \in Held(t)
        BY <2>3, <3>1 DEF WorkerLink, AllowedFrom, Stages
      <3>3. status[d] \in {EntryStatus[t], RunningStatus[t]}
        BY <3>1, <3>2, HeldStatuses
      <3>4. QED
        BY <3>1, <3>3 DEF EntryStatus, RunningStatus, Stages, Transition
    <2>5. CASE ReplaceChunks(w)
      <3>1. t = "chunk" /\ status[d] = RunningStatus[t] /\ status'[d] = NextStatus[t]
        BY <1>t, <2>1, <2>3, <2>5 DEF ReplaceChunks, Finish, SetStatus, WorkerLink, WorkerAt, Fit,
           InStagePC, Exists, dbVars
      <3>2. QED
        BY <3>1 DEF RunningStatus, NextStatus, Transition
    <2>6. CASE Succeed(w)
      <3>1. /\ t \in {"parse", "embed"} /\ status[d] = RunningStatus[t]
            /\ status'[d] = NextStatus[t]
        BY <1>t, <2>1, <2>3, <2>6 DEF Succeed, Finish, SetStatus, WorkerLink, WorkerAt, Fit,
           InStagePC, Exists
      <3>2. QED
        BY <3>1 DEF RunningStatus, NextStatus, Transition
    <2>7. CASE MarkFailed(w) \/ ShellFail(w)
      <3>1. status'[d] = "failed" /\ status[d] # "deleted"
        BY <1>t, <2>1, <2>7 DEF MarkFailed, ShellFail, Finish, SetStatus, Exists
      <3>2. QED
        BY <2>3, <3>1 DEF Transition
    <2>8. QED
      BY <1>5, <2>4, <2>5, <2>6, <2>7
  <1>6. QED
    BY <1>0, <1>1, <1>2, <1>3, <1>4, <1>5, StatusChange

\* The status follows the documented state machine until the document is overtaken:
\* _succeed, _fail and the restart write it unconditionally, yet always from the
\* status they expect, and a ready document is never processed again.
THEOREM StatusMachine == Spec => StatusFollowsStateMachine
  <1>1. SerialInv /\ [Next]_vars =>
           [\A d \in Docs \ overtaken' :
                status'[d] # status[d] => Transition(status[d], status'[d])]_status
    BY StatusMoves
  <1>2. QED
    BY <1>1, SerialInvariance, PTL DEF Spec, StatusFollowsStateMachine
=============================================================================
