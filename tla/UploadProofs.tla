----------------------------- MODULE UploadProofs -----------------------------
(***************************************************************************)
(* Proofs about Upload, for every set of requests, users and contents and  *)
(* every number of failures.                                               *)
(***************************************************************************)
EXTENDS Upload, TLAPS

(***************************************************************************)
(* Type correctness                                                        *)
(***************************************************************************)

\* A request under way has a user, and one that restarts or announces a document
\* knows which one.
Complete(r) ==
    /\ r.pc # "idle" => r.user \in Users
    /\ r.pc \in {"restart", "refresh", "enqueue", "unqueued"} => r.target \in Uploads

TypeInv == TypeOK /\ \A u \in Uploads : Complete(up[u])

UpOK == up \in [Uploads -> Request] /\ \A u \in Uploads : Complete(up[u])

\* One request is replaced by a complete one.
LEMMA ReplaceType ==
    ASSUME TypeInv, NEW u \in Uploads, NEW r \in Request, Complete(r),
           up' = [up EXCEPT ![u] = r]
    PROVE  UpOK'
  <1>1. up \in [Uploads -> Request]
    BY DEF TypeInv, TypeOK
  <1>2. up' \in [Uploads -> Request]
    BY <1>1
  <1>3. ASSUME NEW v \in Uploads
        PROVE  Complete(up'[v])
    <2>1. CASE v = u
      BY <1>1, <2>1
    <2>2. CASE v # u
      BY <1>1, <2>2 DEF TypeInv
    <2>3. QED
      BY <2>1, <2>2
  <1>4. QED
    BY <1>2, <1>3 DEF UpOK, Complete

\* A request goes on to another step, which needs no document it does not have.
LEMMA GotoType ==
    ASSUME TypeInv, NEW u \in Uploads, up[u].pc # "idle",
           NEW pc \in Running \cup Replied, Goto(u, pc),
           pc \in {"restart", "refresh", "enqueue", "unqueued"} => up[u].target \in Uploads
    PROVE  UpOK'
  <1>1. up[u] \in Request /\ Complete(up[u])
    BY DEF TypeInv, TypeOK
  <1>2. [up[u] EXCEPT !.pc = pc] \in Request
    BY <1>1 DEF Request
  <1>3. Complete([up[u] EXCEPT !.pc = pc])
    BY <1>1 DEF Complete, Request
  <1>4. QED
    BY <1>2, <1>3, ReplaceType DEF Goto

\* A request goes on with the document it has found or created.
LEMMA TargetType ==
    ASSUME TypeInv, NEW u \in Uploads, up[u].pc # "idle",
           NEW d \in Uploads, NEW pc \in Running \cup Replied,
           up' = [up EXCEPT ![u].target = d, ![u].pc = pc]
    PROVE  UpOK'
  <1> DEFINE r == [up[u] EXCEPT !.target = d, !.pc = pc]
  <1>1. up[u] \in Request /\ Complete(up[u])
    BY DEF TypeInv, TypeOK
  <1>2. r \in Request
    BY <1>1 DEF Request
  <1>3. Complete(r)
    BY <1>1 DEF Complete, Request
  <1>4. up' = [up EXCEPT ![u] = r]
    BY <1>1 DEF TypeInv, TypeOK
  <1>5. QED
    BY <1>2, <1>3, <1>4, ReplaceType

\* A request goes on with the source it has found or created.
LEMMA SourceType ==
    ASSUME TypeInv, NEW u \in Uploads, up[u].pc # "idle", NEW s \in Source, UseSource(u, s)
    PROVE  UpOK'
  <1> DEFINE r == [up[u] EXCEPT !.source = s.by, !.pc = "put"]
  <1>1. up[u] \in Request /\ Complete(up[u])
    BY DEF TypeInv, TypeOK
  <1>2. r \in Request
    BY <1>1 DEF Request, Source, Running
  <1>3. Complete(r)
    BY <1>1 DEF Complete, Request
  <1>4. up' = [up EXCEPT ![u] = r]
    BY <1>1 DEF TypeInv, TypeOK, UseSource
  <1>5. QED
    BY <1>2, <1>3, <1>4, ReplaceType

\* The user sends a file.
LEMMA BeginType ==
    ASSUME TypeInv, NEW u \in Uploads, Begin(u)
    PROVE  UpOK'
  <1>1. PICK user \in Users, content \in Contents :
          up' = [up EXCEPT ![u] = [@ EXCEPT !.pc = "lookup", !.user = user,
                                            !.content = content]]
    BY DEF Begin
  <1> DEFINE r == [up[u] EXCEPT !.pc = "lookup", !.user = user, !.content = content]
  <1>2. up[u] \in Request
    BY DEF TypeInv, TypeOK
  <1>3. r \in Request
    BY <1>2 DEF Request, Running
  <1>4. Complete(r)
    BY <1>2 DEF Complete, Request
  <1>5. up' = [up EXCEPT ![u] = r]
    BY <1>1
  <1>6. QED
    BY <1>3, <1>4, <1>5, ReplaceType

\* Every step of a request leaves it complete and well typed.
LEMMA RequestType ==
    ASSUME TypeInv, NEW u \in Uploads, Begin(u) \/ RequestStep(u) \/ EnqueueFails(u) \/ Dies(u)
    PROVE  UpOK'
  <1> USE DEF At, Running, Replied
  <1>1. CASE Begin(u)
    BY <1>1, BeginType
  <1>2. ASSUME up[u].pc # "idle", NEW d \in ByChecksum(u), Return(u, d)
        PROVE  UpOK'
    BY <1>2, TargetType DEF Return, ByChecksum
  <1>3. ASSUME up[u].pc # "idle", NEW s \in DefaultSources(u), UseSource(u, s)
        PROVE  UpOK'
    BY <1>3, SourceType DEF DefaultSources, TypeInv, TypeOK
  <1>4. CASE Lookup(u)
    BY <1>2, <1>4, GotoType DEF Lookup
  <1>5. CASE ResolveSource(u)
    BY <1>3, <1>5, GotoType DEF ResolveSource
  <1>6. CASE CreateSource(u)
    <2>1. up[u].user \in Users /\ up[u].pc # "idle"
      BY <1>6 DEF CreateSource, TypeInv, Complete
    <2>2. [owner |-> up[u].user, by |-> u] \in Source
      BY <2>1 DEF Source
    <2>3. QED
      BY <1>6, <2>1, <2>2, GotoType, SourceType DEF CreateSource
  <1>7. CASE RereadSource(u)
    BY <1>3, <1>7, GotoType DEF RereadSource
  <1>8. CASE Put(u)
    BY <1>8, GotoType DEF Put
  <1>9. CASE Insert(u)
    <2>1. CASE ByChecksum(u) = {}
      BY <1>9, <2>1, TargetType DEF Insert
    <2>2. CASE ByChecksum(u) # {}
      BY <1>9, <2>2, GotoType DEF Insert
    <2>3. QED
      BY <2>1, <2>2
  <1>10. CASE Cleanup(u)
    BY <1>10, GotoType DEF Cleanup
  <1>11. CASE Reread(u)
    BY <1>2, <1>11, GotoType DEF Reread
  <1>12. CASE Restart(u)
    BY <1>12, GotoType DEF Restart, TypeInv, Complete
  <1>13. CASE Refresh(u)
    BY <1>13, GotoType DEF Refresh, TypeInv, Complete
  <1>14. CASE Enqueue(u)
    BY <1>14, GotoType DEF Enqueue, Answer
  <1>15. CASE EnqueueFails(u)
    BY <1>15, GotoType DEF EnqueueFails, TypeInv, Complete
  <1>16. CASE MarkUnqueued(u)
    BY <1>16, GotoType DEF MarkUnqueued, Answer
  <1>17. CASE Dies(u)
    BY <1>17, GotoType DEF Dies
  <1>18. QED
    BY <1>1, <1>4, <1>5, <1>6, <1>7, <1>8, <1>9, <1>10, <1>11, <1>12, <1>13, <1>14,
       <1>15, <1>16, <1>17 DEF RequestStep

LEMMA TypeInit == Init => TypeInv
  BY ConstantsAssumption DEF Init, TypeInv, TypeOK, Complete, Idle, Status, Request

LEMMA TypeStep == TypeInv /\ [Next]_vars => TypeInv'
  <1> SUFFICES ASSUME TypeInv, [Next]_vars
               PROVE  TypeInv'
    OBVIOUS
  <1> DEFINE Rest ==
        /\ doc \in [Uploads -> Status] /\ sources \subseteq Source
        /\ files \subseteq Uploads /\ queued \subseteq Uploads
        /\ purging \subseteq Uploads /\ unpurged \subseteq Uploads
        /\ faults \in 0 .. MaxFaults
  <1>1. Rest
    BY DEF TypeInv, TypeOK
  <1>2. ASSUME NEW u \in Uploads, Begin(u) \/ RequestStep(u) \/ EnqueueFails(u) \/ Dies(u)
        PROVE  Rest'
    <2>1. CASE Begin(u) \/ Lookup(u) \/ ResolveSource(u) \/ RereadSource(u) \/ Reread(u)
               \/ Refresh(u)
      BY <1>1, <2>1 DEF Begin, Lookup, ResolveSource, RereadSource, Reread, Refresh
    <2>2. CASE CreateSource(u)
      <3>1. up[u].user \in Users
        BY <2>2 DEF CreateSource, At, TypeInv, Complete
      <3>2. [owner |-> up[u].user, by |-> u] \in Source
        BY <3>1 DEF Source
      <3>3. QED
        BY <1>1, <2>2, <3>2 DEF CreateSource
    <2>3. CASE Put(u) \/ Cleanup(u)
      BY <1>1, <2>3 DEF Put, Cleanup
    <2>4. CASE Insert(u) \/ Restart(u) \/ MarkUnqueued(u)
      BY <1>1, <2>4 DEF Insert, Restart, MarkUnqueued, Status
    <2>5. CASE Enqueue(u)
      BY <1>1, <2>5 DEF Enqueue, At, TypeInv, Complete
    <2>6. CASE EnqueueFails(u) \/ Dies(u)
      BY <1>1, <2>6, ConstantsAssumption DEF EnqueueFails, Dies, Fault
    <2>7. QED
      BY <1>2, <2>1, <2>2, <2>3, <2>4, <2>5, <2>6 DEF RequestStep
  <1>3. ASSUME NEW d \in Uploads, Process(d) \/ Delete(d) \/ Purge(d)
        PROVE  Rest' /\ UNCHANGED up
    <2>1. CASE Process(d)
      BY <1>1, <2>1 DEF Process, Status
    <2>2. CASE Delete(d)
      BY <1>1, <2>2, ConstantsAssumption DEF Delete, Fault, Status
    <2>3. CASE Purge(d)
      BY <1>1, <2>3 DEF Purge
    <2>4. QED
      BY <1>3, <2>1, <2>2, <2>3
  <1>4. CASE UNCHANGED vars
    BY <1>4 DEF vars, TypeInv, TypeOK, Complete
  <1>5. ASSUME Rest', UpOK'
        PROVE  TypeInv'
    BY <1>5 DEF TypeInv, TypeOK, UpOK
  <1>6. ASSUME UNCHANGED up
        PROVE  UpOK'
    BY <1>6 DEF TypeInv, TypeOK, UpOK, Complete
  <1> HIDE DEF Rest
  <1>7. QED
    BY <1>2, <1>3, <1>4, <1>5, <1>6, RequestType DEF Next

\* DocumentService.upload: whatever races and fails, a request that restarts or
\* announces a document has one, and every variable keeps its type.
THEOREM TypeCorrect == Spec => []TypeOK
  <1>1. TypeInv => TypeOK
    BY DEF TypeInv
  <1>2. QED
    BY <1>1, TypeInit, TypeStep, PTL DEF Spec

(***************************************************************************)
(* A document has its original                                             *)
(***************************************************************************)

\* Only the request that creates a document gives it a row.
NoRowBefore ==
    \A u \in Uploads :
        up[u].pc \in {"idle", "lookup", "source", "create_source", "reread_source", "put",
                     "insert", "cleanup"} => doc[u] = "absent"

\* The original is there when the row is inserted.
PutBefore == \A u \in Uploads : up[u].pc = "insert" => u \in files

\* Only a deleted document is purged.
PurgeAfterDelete == \A d \in purging : doc[d] = "deleted"

FileInv == TypeInv /\ NoRowBefore /\ PutBefore /\ PurgeAfterDelete /\ RowHasFile

LEMMA FileInit == Init => FileInv
  BY TypeInit DEF Init, FileInv, NoRowBefore, PutBefore, PurgeAfterDelete, RowHasFile, Idle,
                  Exists

\* Goto changes the place of one request and nothing else of it.
LEMMA GotoMoves ==
    ASSUME TypeInv, NEW u \in Uploads, NEW pc, Goto(u, pc)
    PROVE  /\ \A v \in Uploads : v # u => up'[v] = up[v]
           /\ up'[u] = [up[u] EXCEPT !.pc = pc]
           /\ up'[u].pc = pc /\ up'[u].user = up[u].user /\ up'[u].source = up[u].source
  <1>1. up \in [Uploads -> Request]
    BY DEF TypeInv, TypeOK
  <1>2. up'[u] = [up[u] EXCEPT !.pc = pc]
    BY <1>1 DEF Goto
  <1>3. up[u] \in Request
    BY <1>1
  <1>4. QED
    BY <1>1, <1>2, <1>3 DEF Goto, Request

\* Return gives one request its document and its next place.
LEMMA ReturnMoves ==
    ASSUME TypeInv, NEW u \in Uploads, NEW d, Return(u, d)
    PROVE  /\ \A v \in Uploads : v # u => up'[v] = up[v]
           /\ up'[u].pc \in {"restart", "duplicate"}
           /\ up'[u].user = up[u].user /\ up'[u].source = up[u].source
  <1>1. up \in [Uploads -> Request]
    BY DEF TypeInv, TypeOK
  <1>2. PICK pc \in {"restart", "duplicate"} :
          up' = [up EXCEPT ![u].target = d, ![u].pc = pc]
    BY DEF Return
  <1>3. up'[u] = [up[u] EXCEPT !.target = d, !.pc = pc]
    BY <1>1, <1>2
  <1>4. up[u] \in Request
    BY <1>1
  <1>5. QED
    BY <1>1, <1>2, <1>3, <1>4 DEF Request

\* A step of request u after which it has no row yet or is past the insertion.
Onward(u) ==
    /\ \A v \in Uploads : v # u => up'[v] = up[v]
    /\ up'[u].pc # "insert"
    /\ up[u].pc \in {"idle", "lookup", "source", "create_source", "reread_source"}
       \/ up'[u].pc \in Replied \cup {"reread", "restart", "refresh", "enqueue", "unqueued"}

\* A step that leaves the rows, the originals and the purges alone.
LEMMA FileMove ==
    ASSUME FileInv, NEW u \in Uploads, Onward(u), UNCHANGED <<doc, files, purging>>
    PROVE  NoRowBefore' /\ PutBefore' /\ PurgeAfterDelete' /\ RowHasFile'
  <1>1. NoRowBefore'
    BY DEF FileInv, NoRowBefore, Onward, Replied
  <1>2. PutBefore'
    BY DEF FileInv, PutBefore, Onward
  <1>3. QED
    BY <1>1, <1>2 DEF FileInv, PurgeAfterDelete, RowHasFile, Exists

\* A request that works on a document that exists changes the status of its row.
LEMMA FileStatus ==
    ASSUME FileInv, NEW u \in Uploads, NEW s \in {"processing", "failed"}, Onward(u),
           up[u].target \in Uploads, UNCHANGED <<files, purging>>,
           doc' = IF Exists(up[u].target) THEN [doc EXCEPT ![up[u].target] = s] ELSE doc,
           up'[u].pc \notin {"idle", "lookup", "source", "create_source", "reread_source",
                             "put", "insert", "cleanup"}
    PROVE  NoRowBefore' /\ PutBefore' /\ PurgeAfterDelete' /\ RowHasFile'
  <1>1. \A d \in Uploads : \/ doc'[d] = doc[d]
                           \/ Exists(d) /\ doc'[d] = s
    BY DEF FileInv, TypeInv, TypeOK
  <1>2. NoRowBefore'
    BY <1>1 DEF FileInv, NoRowBefore, Onward, Exists
  <1>3. PutBefore'
    BY DEF FileInv, PutBefore, Onward
  <1>4. PurgeAfterDelete'
    BY <1>1 DEF FileInv, TypeInv, TypeOK, PurgeAfterDelete, Exists
  <1>5. RowHasFile'
    BY <1>1 DEF FileInv, RowHasFile, Exists
  <1>6. QED
    BY <1>2, <1>3, <1>4, <1>5

\* The steps of a request.
LEMMA FileRequest ==
    ASSUME FileInv, NEW u \in Uploads,
           Begin(u) \/ RequestStep(u) \/ EnqueueFails(u) \/ Dies(u)
    PROVE  NoRowBefore' /\ PutBefore' /\ PurgeAfterDelete' /\ RowHasFile'
  <1> DEFINE Goal == NoRowBefore' /\ PutBefore' /\ PurgeAfterDelete' /\ RowHasFile'
  <1>t. TypeInv /\ up \in [Uploads -> Request] /\ up[u] \in Request /\ Complete(up[u])
    BY DEF FileInv, TypeInv, TypeOK
  <1>1. CASE Begin(u)
    <2>1. Onward(u)
      BY <1>t, <1>1 DEF Begin, At, Onward, Request
    <2>2. QED
      BY <1>1, <2>1, FileMove DEF Begin
  <1>2. ASSUME NEW d, Return(u, d)
        PROVE  Onward(u)
    BY <1>t, <1>2, ReturnMoves DEF Onward, Replied
  <1>3. ASSUME NEW s, UseSource(u, s),
               up[u].pc \in {"source", "create_source", "reread_source"}
        PROVE  Onward(u)
    <2>1. \A v \in Uploads : v # u => up'[v] = up[v]
      BY <1>t, <1>3 DEF UseSource
    <2>2. up'[u].pc = "put"
      BY <1>t, <1>3 DEF UseSource, Request
    <2>3. QED
      BY <1>3, <2>1, <2>2 DEF Onward
  <1>4. ASSUME NEW pc, Goto(u, pc), pc # "insert",
               \/ up[u].pc \in {"lookup", "source", "create_source", "reread_source"}
               \/ pc \in Replied \cup {"reread", "restart", "refresh", "enqueue", "unqueued"}
        PROVE  Onward(u)
    BY <1>t, <1>4, GotoMoves DEF Onward
  <1>5. CASE Lookup(u)
    <2>1. Onward(u)
      BY <1>2, <1>4, <1>5 DEF Lookup, At
    <2>2. QED
      BY <1>5, <2>1, FileMove DEF Lookup
  <1>6. CASE ResolveSource(u)
    <2>1. Onward(u)
      BY <1>3, <1>4, <1>6 DEF ResolveSource, At
    <2>2. QED
      BY <1>6, <2>1, FileMove DEF ResolveSource
  <1>7. CASE CreateSource(u)
    <2>1. Onward(u)
      BY <1>3, <1>4, <1>7 DEF CreateSource, At
    <2>2. QED
      BY <1>7, <2>1, FileMove DEF CreateSource
  <1>8. CASE RereadSource(u)
    <2>1. Onward(u)
      BY <1>3, <1>4, <1>8 DEF RereadSource, At
    <2>2. QED
      BY <1>8, <2>1, FileMove DEF RereadSource
  <1>9. CASE Put(u)
    <2>1. /\ \A v \in Uploads : v # u => up'[v] = up[v]
          /\ up'[u].pc = "insert" /\ up[u].pc = "put"
      BY <1>t, <1>9, GotoMoves DEF Put, At
    <2>2. files' = files \cup {u} /\ UNCHANGED <<doc, purging>>
      BY <1>9 DEF Put
    <2>3. QED
      BY <2>1, <2>2 DEF FileInv, NoRowBefore, PutBefore, PurgeAfterDelete, RowHasFile, Exists
  <1>10. CASE Insert(u)
    <2>1. CASE ByChecksum(u) = {}
      <3>1. /\ \A v \in Uploads : v # u => up'[v] = up[v]
            /\ up'[u].pc = "enqueue" /\ up[u].pc = "insert"
        BY <1>t, <1>10, <2>1 DEF Insert, At, Request
      <3>2. doc' = [doc EXCEPT ![u] = "processing"] /\ UNCHANGED <<files, purging>>
        BY <1>10, <2>1 DEF Insert
      <3>3. doc[u] = "absent" /\ u \in files
        BY <3>1 DEF FileInv, NoRowBefore, PutBefore
      <3>4. QED
        BY <3>1, <3>2, <3>3 DEF FileInv, TypeInv, TypeOK, NoRowBefore, PutBefore,
                                PurgeAfterDelete, RowHasFile, Exists
    <2>2. CASE ByChecksum(u) # {}
      <3>1. /\ \A v \in Uploads : v # u => up'[v] = up[v]
            /\ up'[u].pc = "cleanup" /\ up[u].pc = "insert" /\ UNCHANGED <<doc, files, purging>>
        BY <1>t, <1>10, <2>2, GotoMoves DEF Insert, At
      <3>2. QED
        BY <3>1 DEF FileInv, NoRowBefore, PutBefore, PurgeAfterDelete, RowHasFile, Exists
    <2>3. QED
      BY <2>1, <2>2
  <1>11. CASE Cleanup(u)
    <2>1. /\ \A v \in Uploads : v # u => up'[v] = up[v]
          /\ up'[u].pc = "reread" /\ up[u].pc = "cleanup"
      BY <1>t, <1>11, GotoMoves DEF Cleanup, At
    <2>2. files' = files \ {u} /\ UNCHANGED <<doc, purging>>
      BY <1>11 DEF Cleanup
    <2>3. QED
      BY <2>1, <2>2 DEF FileInv, NoRowBefore, PutBefore, PurgeAfterDelete, RowHasFile, Exists
  <1>12. CASE Reread(u)
    <2>1. Onward(u)
      BY <1>2, <1>4, <1>12 DEF Reread, At, Replied
    <2>2. QED
      BY <1>12, <2>1, FileMove DEF Reread
  <1>13. ASSUME NEW pc \in {"created", "duplicate", "refresh", "error"}, Goto(u, pc),
                up[u].pc \in {"restart", "unqueued"}, NEW s \in {"processing", "failed"},
                doc' = IF Exists(up[u].target) THEN [doc EXCEPT ![up[u].target] = s] ELSE doc,
                UNCHANGED <<files, purging>>
         PROVE  Goal
    <2>1. Onward(u) /\ up'[u].pc = pc
      BY <1>t, <1>4, <1>13, GotoMoves DEF Replied
    <2>2. up[u].target \in Uploads
      BY <1>t, <1>13 DEF Complete
    <2>3. QED
      BY <1>13, <2>1, <2>2, FileStatus
  <1>14. CASE Restart(u)
    BY <1>13, <1>14 DEF Restart, At
  <1>15. CASE MarkUnqueued(u)
    BY <1>13, <1>15 DEF MarkUnqueued, At, Answer
  <1>16. CASE Refresh(u)
    <2>1. Onward(u)
      BY <1>4, <1>16 DEF Refresh, At, Replied
    <2>2. QED
      BY <1>16, <2>1, FileMove DEF Refresh
  <1>17. CASE Enqueue(u)
    <2>1. Onward(u)
      BY <1>4, <1>17 DEF Enqueue, Answer, Replied
    <2>2. QED
      BY <1>17, <2>1, FileMove DEF Enqueue
  <1>18. CASE EnqueueFails(u)
    <2>1. Onward(u)
      BY <1>4, <1>18 DEF EnqueueFails
    <2>2. QED
      BY <1>18, <2>1, FileMove DEF EnqueueFails
  <1>19. CASE Dies(u)
    <2>1. Onward(u)
      BY <1>4, <1>19 DEF Dies, Replied
    <2>2. QED
      BY <1>19, <2>1, FileMove DEF Dies
  <1>20. QED
    BY <1>1, <1>5, <1>6, <1>7, <1>8, <1>9, <1>10, <1>11, <1>12, <1>14, <1>15, <1>16, <1>17,
       <1>18, <1>19 DEF RequestStep

LEMMA FileStep == FileInv /\ [Next]_vars => FileInv'
  <1> SUFFICES ASSUME FileInv, [Next]_vars
               PROVE  FileInv'
    OBVIOUS
  <1> DEFINE Rest == NoRowBefore /\ PutBefore /\ PurgeAfterDelete /\ RowHasFile
  <1>1. TypeInv'
    BY TypeStep DEF FileInv
  <1>2. ASSUME NEW u \in Uploads,
               Begin(u) \/ RequestStep(u) \/ EnqueueFails(u) \/ Dies(u)
        PROVE  Rest'
    BY <1>2, FileRequest
  <1>3. ASSUME NEW d \in Uploads, Process(d)
        PROVE  Rest'
    <2>1. \A e \in Uploads : \/ doc'[e] = doc[e]
                             \/ Exists(e) /\ Exists(e)'
      BY <1>3 DEF FileInv, TypeInv, TypeOK, Process, Exists
    <2>2. UNCHANGED <<files, purging, up>>
      BY <1>3 DEF Process
    <2>3. NoRowBefore' /\ PutBefore'
      BY <2>1, <2>2 DEF FileInv, NoRowBefore, PutBefore, Exists
    <2>4. PurgeAfterDelete' /\ RowHasFile'
      BY <2>1, <2>2 DEF FileInv, TypeInv, TypeOK, PurgeAfterDelete, RowHasFile, Exists
    <2>5. QED
      BY <2>3, <2>4
  <1>4. ASSUME NEW d \in Uploads, Delete(d)
        PROVE  Rest'
    BY <1>4 DEF FileInv, TypeInv, TypeOK, NoRowBefore, PutBefore, PurgeAfterDelete,
                RowHasFile, Delete, Exists
  <1>5. ASSUME NEW d \in Uploads, Purge(d)
        PROVE  Rest'
    BY <1>5 DEF FileInv, TypeInv, TypeOK, NoRowBefore, PutBefore, PurgeAfterDelete,
                RowHasFile, Purge, Exists
  <1>6. CASE UNCHANGED vars
    BY <1>1, <1>6 DEF FileInv, NoRowBefore, PutBefore, PurgeAfterDelete, RowHasFile, Exists,
                      vars
  <1>7. QED
    BY <1>1, <1>2, <1>3, <1>4, <1>5, <1>6 DEF Next, FileInv

\* DocumentService.upload and delete: neither the cleanup of the loser of a race nor
\* the purge of a deleted document takes the original of a document with a row.
THEOREM RowAlwaysHasFile == Spec => []RowHasFile
  <1>1. FileInv => RowHasFile
    BY DEF FileInv
  <1>2. QED
    BY <1>1, FileInit, FileStep, PTL DEF Spec

(***************************************************************************)
(* An original without a row has a cause                                   *)
(***************************************************************************)
OrphanInv == TypeInv /\ OrphansHaveACause

LEMMA OrphanStep == OrphanInv /\ [Next]_vars => OrphanInv'
  <1> SUFFICES ASSUME OrphanInv, [Next]_vars
               PROVE  OrphansHaveACause'
    BY TypeStep DEF OrphanInv
  <1> USE DEF OrphanInv, TypeInv, TypeOK, Request, Complete, At, Goto, Exists,
              OrphansHaveACause
  <1>1. ASSUME NEW u \in Uploads, Begin(u)
        PROVE  OrphansHaveACause'
    BY <1>1 DEF Begin
  <1>2. ASSUME NEW u \in Uploads,
               Lookup(u) \/ ResolveSource(u) \/ CreateSource(u) \/ RereadSource(u) \/ Reread(u)
        PROVE  OrphansHaveACause'
    BY <1>2 DEF Lookup, ResolveSource, CreateSource, RereadSource, Reread, Return, UseSource
  <1>3. ASSUME NEW u \in Uploads, Put(u)
        PROVE  OrphansHaveACause'
    BY <1>3 DEF Put
  <1>4. ASSUME NEW u \in Uploads, Insert(u)
        PROVE  OrphansHaveACause'
    BY <1>4 DEF Insert
  <1>5. ASSUME NEW u \in Uploads, Cleanup(u)
        PROVE  OrphansHaveACause'
    BY <1>5 DEF Cleanup
  <1>6. ASSUME NEW u \in Uploads, Restart(u)
        PROVE  OrphansHaveACause'
    BY <1>6 DEF Restart
  <1>7. ASSUME NEW u \in Uploads, Refresh(u) \/ Enqueue(u) \/ EnqueueFails(u)
        PROVE  OrphansHaveACause'
    BY <1>7 DEF Refresh, Enqueue, EnqueueFails
  <1>8. ASSUME NEW u \in Uploads, MarkUnqueued(u)
        PROVE  OrphansHaveACause'
    BY <1>8 DEF MarkUnqueued
  <1>9. ASSUME NEW u \in Uploads, Dies(u)
        PROVE  OrphansHaveACause'
    BY <1>9 DEF Dies
  <1>10. ASSUME NEW d \in Uploads, Process(d)
         PROVE  OrphansHaveACause'
    BY <1>10 DEF Process
  <1>11. ASSUME NEW d \in Uploads, Delete(d)
         PROVE  OrphansHaveACause'
    BY <1>11 DEF Delete
  <1>12. ASSUME NEW d \in Uploads, Purge(d)
         PROVE  OrphansHaveACause'
    BY <1>12 DEF Purge
  <1>13. CASE UNCHANGED vars
    BY <1>13 DEF vars
  <1>14. QED
    BY <1>1, <1>2, <1>3, <1>4, <1>5, <1>6, <1>7, <1>8, <1>9, <1>10, <1>11, <1>12, <1>13
    DEF Next, RequestStep

\* DocumentService.upload stores the original before the row, and delete removes the
\* row before the files: an original without a row is on its way to one or the other,
\* or the request or the purge that had to see to it has failed.
THEOREM OrphansExplained == Spec => []OrphansHaveACause
  <1>1. Init => OrphanInv
    BY TypeInit DEF Init, OrphanInv, OrphansHaveACause
  <1>2. OrphanInv => OrphansHaveACause
    BY DEF OrphanInv
  <1>3. QED
    BY <1>1, <1>2, OrphanStep, PTL DEF Spec

(***************************************************************************)
(* One default source                                                      *)
(***************************************************************************)
SourceUsed(u) == [owner |-> up[u].user, by |-> up[u].source]

\* The source a request has resolved is stored, and belongs to its user.
SourceResolved ==
    \A u \in Uploads :
        up[u].pc \in {"put", "insert"} \/ Exists(u) => SourceUsed(u) \in sources

OneSource == \A s, t \in sources : s.owner = t.owner => s = t

SourceInv == TypeInv /\ NoRowBefore /\ OneSource /\ SourceResolved

LEMMA SourceStep == SourceInv /\ FileInv /\ [Next]_vars => SourceInv'
  <1> SUFFICES ASSUME SourceInv, FileInv, [Next]_vars
               PROVE  OneSource' /\ SourceResolved'
    BY TypeStep, FileStep DEF SourceInv, FileInv
  <1> USE DEF SourceInv, TypeInv, TypeOK, Request, Complete, At, Goto, Exists, NoRowBefore,
              OneSource, SourceResolved, SourceUsed
  <1>1. ASSUME NEW u \in Uploads, Begin(u)
        PROVE  OneSource' /\ SourceResolved'
    BY <1>1 DEF Begin
  <1>2. ASSUME NEW u \in Uploads, Lookup(u) \/ Reread(u)
        PROVE  OneSource' /\ SourceResolved'
    <2>1. /\ \A v \in Uploads : v # u => up'[v] = up[v]
          /\ up'[u].user = up[u].user /\ up'[u].source = up[u].source
          /\ up'[u].pc \notin {"put", "insert"}
      <3>1. CASE Goto(u, "source") \/ Goto(u, "conflict")
        BY <3>1, GotoMoves
      <3>2. CASE \E d \in ByChecksum(u) : Return(u, d)
        BY <3>2, ReturnMoves
      <3>3. QED
        BY <1>2, <3>1, <3>2 DEF Lookup, Reread
    <2>2. UNCHANGED <<doc, sources>>
      BY <1>2 DEF Lookup, Reread
    <2>3. QED
      BY <2>1, <2>2
  <1>3. ASSUME NEW u \in Uploads, NEW s \in DefaultSources(u), UseSource(u, s),
               UNCHANGED <<doc, sources>>, ~Exists(u)
        PROVE  OneSource' /\ SourceResolved'
    <2>1. s = [owner |-> up[u].user, by |-> s.by] /\ s \in sources
      BY <1>3 DEF DefaultSources, Source
    <2>2. SourceUsed(u)' = s
      BY <1>3, <2>1 DEF UseSource
    <2>3. \A v \in Uploads : v # u => up'[v] = up[v]
      BY <1>3 DEF UseSource
    <2>4. QED
      BY <1>3, <2>1, <2>2, <2>3
  <1>4. ASSUME NEW u \in Uploads, ResolveSource(u) \/ RereadSource(u)
        PROVE  OneSource' /\ SourceResolved'
    <2>1. ~Exists(u)
      BY <1>4 DEF ResolveSource, RereadSource
    <2>2. CASE \E s \in DefaultSources(u) : UseSource(u, s)
      BY <1>3, <1>4, <2>1, <2>2 DEF ResolveSource, RereadSource
    <2>3. CASE Goto(u, "create_source") \/ Goto(u, "not_found") \/ Goto(u, "conflict")
      BY <1>4, <2>3 DEF ResolveSource, RereadSource
    <2>4. QED
      BY <1>4, <2>2, <2>3 DEF ResolveSource, RereadSource
  <1>5. ASSUME NEW u \in Uploads, CreateSource(u)
        PROVE  OneSource' /\ SourceResolved'
    <2>1. CASE DefaultSources(u) = {}
      <3> DEFINE new == [owner |-> up[u].user, by |-> u]
      <3>1. sources' = sources \cup {new} /\ UseSource(u, new) /\ UNCHANGED doc
        BY <1>5, <2>1 DEF CreateSource
      <3>2. \A s \in sources : s.owner # new.owner
        BY <2>1 DEF DefaultSources
      <3>3. OneSource'
        BY <3>1, <3>2
      <3>4. SourceUsed(u)' = new
        BY <3>1 DEF UseSource
      <3>5. \A v \in Uploads : v # u => up'[v] = up[v]
        BY <3>1 DEF UseSource
      <3>6. QED
        BY <3>1, <3>3, <3>4, <3>5
    <2>2. CASE DefaultSources(u) # {}
      BY <1>5, <2>2 DEF CreateSource
    <2>3. QED
      BY <2>1, <2>2
  <1>6. ASSUME NEW u \in Uploads,
               Put(u) \/ Cleanup(u) \/ Refresh(u) \/ Enqueue(u) \/ EnqueueFails(u) \/ Dies(u)
        PROVE  OneSource' /\ SourceResolved'
    BY <1>6 DEF Put, Cleanup, Refresh, Enqueue, EnqueueFails, Dies, Answer
  <1>7. ASSUME NEW u \in Uploads, Insert(u)
        PROVE  OneSource' /\ SourceResolved'
    BY <1>7 DEF Insert
  <1>8. ASSUME NEW u \in Uploads, Restart(u) \/ MarkUnqueued(u)
        PROVE  OneSource' /\ SourceResolved'
    BY <1>8 DEF Restart, MarkUnqueued, Answer
  <1>9. ASSUME NEW d \in Uploads, Process(d) \/ Delete(d) \/ Purge(d)
        PROVE  OneSource' /\ SourceResolved'
    BY <1>9 DEF Process, Delete, Purge
  <1>10. CASE UNCHANGED vars
    BY <1>10 DEF vars
  <1>11. QED
    BY <1>1, <1>2, <1>4, <1>5, <1>6, <1>7, <1>8, <1>9, <1>10 DEF Next, RequestStep

\* _resolve_source_id: however many first uploads of a user race, the user has one
\* default source, and every document hangs on its owner's.
THEOREM OneDefaultSourceAlways == Spec => []OneDefaultSource
  <1>1. Init => SourceInv
    BY FileInit DEF Init, FileInv, SourceInv, OneSource, SourceResolved, Idle, Exists
  <1>2. SourceInv => OneDefaultSource
    BY DEF SourceInv, OneSource, SourceResolved, SourceUsed, OneDefaultSource
  <1>3. QED
    BY <1>1, <1>2, FileInit, FileStep, SourceStep, PTL DEF Spec

=============================================================================
