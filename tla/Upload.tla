-------------------------------- MODULE Upload --------------------------------
(***************************************************************************)
(* POST /documents (DocumentService.upload): deduplication by owner and    *)
(* checksum, the owner's default source that is created on first use, the  *)
(* original that is stored before its row, and the unique indexes that     *)
(* settle the races.  The document id is chosen by the request, so the     *)
(* upload u stores document u.  The processing of a document is left to    *)
(* the queue and to its outcome (Ingestion has the stages).                *)
(***************************************************************************)
EXTENDS Naturals, FiniteSets

CONSTANTS
    Uploads,    \* requests, and the ids of the documents they may create
    Users,
    Contents,   \* checksums
    None,
    MaxFaults   \* bound: requests that die or raise, publishes that fail

ASSUME ConstantsAssumption == None \notin Uploads \cup Users \cup Contents /\ MaxFaults \in Nat

VARIABLES
    doc,      \* status of the row of each document id
    sources,  \* knowledge_sources: owner and the request that created it
    files,    \* document ids whose original is in the object storage
    queued,   \* documents a worker has been told to process
    purging,  \* documents whose files a worker has been told to remove
    up,       \* the requests
    unpurged, \* history: deleted documents whose purge was never published
    faults

vars == <<doc, sources, files, queued, purging, up, unpurged, faults>>

Status  == {"absent", "processing", "ready", "failed", "deleted"}
Running == {"lookup", "source", "create_source", "reread_source", "put", "insert",
            "cleanup", "reread", "restart", "refresh", "enqueue", "unqueued"}
Replied == {"created", "duplicate", "not_found", "conflict", "error", "dead"}
Source  == [owner : Users, by : Uploads]
Idle    == [pc |-> "idle", user |-> None, content |-> None,
            source |-> None, target |-> None]
Request == [pc : {"idle"} \cup Running \cup Replied,
            user : Users \cup {None}, content : Contents \cup {None},
            source : Uploads \cup {None},            \* the creator of the source it uses
            target : Uploads \cup {None}]            \* the document it works on

TypeOK ==
    /\ doc \in [Uploads -> Status]
    /\ sources \subseteq Source
    /\ files \subseteq Uploads /\ queued \subseteq Uploads
    /\ purging \subseteq Uploads /\ unpurged \subseteq Uploads
    /\ up \in [Uploads -> Request]
    /\ faults \in 0 .. MaxFaults

Init ==
    /\ doc = [d \in Uploads |-> "absent"]
    /\ sources = {}
    /\ files = {} /\ queued = {} /\ purging = {} /\ unpurged = {}
    /\ up = [u \in Uploads |-> Idle]
    /\ faults = 0

-----------------------------------------------------------------------------
(* Helpers. *)

Exists(d) == doc[d] \notin {"absent", "deleted"}

\* get_by_checksum, and what ux_documents_owner_checksum keeps unique.
ByChecksum(u) ==
    {d \in Uploads : Exists(d) /\ up[d].content = up[u].content /\ up[d].user = up[u].user}

\* get_default, and what ux_sources_owner_default keeps unique.
DefaultSources(u) == {s \in sources : s.owner = up[u].user}

At(u, pc)  == up[u].pc = pc
Goto(u, pc) == up' = [up EXCEPT ![u].pc = pc]

\* Mutant: a restarted document is answered with a status of its own.
AnswerRestarted(u, d) == IF d = u THEN "created" ELSE "restarted"

\* The answer once nothing is left to do for document d.
Answer(u, d) == IF d = u THEN "created" ELSE "duplicate"

\* A found document: a failed one is restarted, any other is returned as it is.
Return(u, d) ==
    up' = [up EXCEPT ![u].target = d,
                     ![u].pc = IF doc[d] = "failed" THEN "restart" ELSE "duplicate"]

Fault == faults < MaxFaults /\ faults' = faults + 1

-----------------------------------------------------------------------------
(* The request. *)

Begin(u) ==
    /\ At(u, "idle")
    /\ \E user \in Users, content \in Contents :
         up' = [up EXCEPT ![u] = [@ EXCEPT !.pc = "lookup", !.user = user,
                                           !.content = content]]
    /\ UNCHANGED <<doc, sources, files, queued, purging, unpurged, faults>>

Lookup(u) ==
    /\ At(u, "lookup")
    /\ \/ \E d \in ByChecksum(u) : Return(u, d)
       \/ ByChecksum(u) = {} /\ Goto(u, "source")
    /\ UNCHANGED <<doc, sources, files, queued, purging, unpurged, faults>>

UseSource(u, s) == up' = [up EXCEPT ![u].source = s.by, ![u].pc = "put"]

\* _resolve_source_id: the form names a source, which must be the user's, or none
\* and the default one is used.
ResolveSource(u) ==
    /\ At(u, "source")
    /\ \/ \E s \in DefaultSources(u) : UseSource(u, s)
       \/ DefaultSources(u) = {} /\ Goto(u, "create_source")
       \/ Goto(u, "not_found")
    /\ UNCHANGED <<doc, sources, files, queued, purging, unpurged, faults>>

\* Mutant: the table has no unique index on the default source.
CreateSourceAnyway(u) ==
    /\ At(u, "create_source")
    /\ sources' = sources \cup {[owner |-> up[u].user, by |-> u]}
    /\ UseSource(u, [owner |-> up[u].user, by |-> u])
    /\ UNCHANGED <<doc, files, queued, purging, unpurged, faults>>

\* create_default and its commit; the partial unique index lets one through.
CreateSource(u) ==
    /\ At(u, "create_source")
    /\ IF DefaultSources(u) = {}
       THEN /\ sources' = sources \cup {[owner |-> up[u].user, by |-> u]}
            /\ UseSource(u, [owner |-> up[u].user, by |-> u])
       ELSE sources' = sources /\ Goto(u, "reread_source")
    /\ UNCHANGED <<doc, files, queued, purging, unpurged, faults>>

RereadSource(u) ==
    /\ At(u, "reread_source")
    /\ \/ \E s \in DefaultSources(u) : UseSource(u, s)
       \/ DefaultSources(u) = {} /\ Goto(u, "conflict")
    /\ UNCHANGED <<doc, sources, files, queued, purging, unpurged, faults>>

Put(u) ==
    /\ At(u, "put")
    /\ files' = files \cup {u}
    /\ Goto(u, "insert")
    /\ UNCHANGED <<doc, sources, queued, purging, unpurged, faults>>

\* create and commit; the unique index makes the loser of a race roll back.
Insert(u) ==
    /\ At(u, "insert")
    /\ IF ByChecksum(u) = {}
       THEN /\ doc' = [doc EXCEPT ![u] = "processing"]
            /\ up' = [up EXCEPT ![u].target = u, ![u].pc = "enqueue"]
       ELSE doc' = doc /\ Goto(u, "cleanup")
    /\ UNCHANGED <<sources, files, queued, purging, unpurged, faults>>

\* Mutant: the files are removed under the key of the document that won.
CleanupWinner(u) ==
    /\ At(u, "cleanup")
    /\ files' = files \ ByChecksum(u)
    /\ Goto(u, "reread")
    /\ UNCHANGED <<doc, sources, queued, purging, unpurged, faults>>

\* Mutant: the loser only rolls back.
CleanupForgotten(u) ==
    /\ At(u, "cleanup")
    /\ Goto(u, "reread")
    /\ UNCHANGED <<doc, sources, files, queued, purging, unpurged, faults>>

Cleanup(u) ==
    /\ At(u, "cleanup")
    /\ files' = files \ {u}
    /\ Goto(u, "reread")
    /\ UNCHANGED <<doc, sources, queued, purging, unpurged, faults>>

\* The winner of the conflict is read again, and may be gone by now.
Reread(u) ==
    /\ At(u, "reread")
    /\ \/ \E d \in ByChecksum(u) : Return(u, d)
       \/ ByChecksum(u) = {} /\ Goto(u, "conflict")
    /\ UNCHANGED <<doc, sources, files, queued, purging, unpurged, faults>>

\* Mutant: the status is set back and the message left to somebody else.
RestartUnqueued(u) ==
    /\ At(u, "restart")
    /\ doc' = IF Exists(up[u].target) THEN [doc EXCEPT ![up[u].target] = "processing"] ELSE doc
    /\ Goto(u, IF Exists(up[u].target) THEN "duplicate" ELSE "error")
    /\ UNCHANGED <<sources, files, queued, purging, unpurged, faults>>

\* _restart_from_failed_stage writes whatever the status is by now; an UPDATE of a
\* row that is gone raises StaleDataError.
Restart(u) ==
    /\ At(u, "restart")
    /\ doc' = IF Exists(up[u].target) THEN [doc EXCEPT ![up[u].target] = "processing"] ELSE doc
    /\ Goto(u, IF Exists(up[u].target) THEN "refresh" ELSE "error")
    /\ UNCHANGED <<sources, files, queued, purging, unpurged, faults>>

Refresh(u) ==
    /\ At(u, "refresh")
    /\ Goto(u, IF Exists(up[u].target) THEN "enqueue" ELSE "error")
    /\ UNCHANGED <<doc, sources, files, queued, purging, unpurged, faults>>

Enqueue(u) ==
    /\ At(u, "enqueue")
    /\ queued' = queued \cup {up[u].target}
    /\ Goto(u, Answer(u, up[u].target))
    /\ UNCHANGED <<doc, sources, files, purging, unpurged, faults>>

EnqueueFails(u) ==
    /\ At(u, "enqueue")
    /\ Fault
    /\ Goto(u, "unqueued")
    /\ UNCHANGED <<doc, sources, files, queued, purging, unpurged>>

\* The document nobody was told about is marked failed.
MarkUnqueued(u) ==
    /\ At(u, "unqueued")
    /\ doc' = IF Exists(up[u].target) THEN [doc EXCEPT ![up[u].target] = "failed"] ELSE doc
    /\ Goto(u, IF Exists(up[u].target) THEN Answer(u, up[u].target) ELSE "error")
    /\ UNCHANGED <<sources, files, queued, purging, unpurged, faults>>

\* The process stops, or the storage or the database raises.
Dies(u) ==
    /\ up[u].pc \in Running
    /\ Fault
    /\ Goto(u, "dead")
    /\ UNCHANGED <<doc, sources, files, queued, purging, unpurged>>

-----------------------------------------------------------------------------
(* Everybody else. *)

\* A worker takes the message: what is not ready yet becomes ready or failed.
Process(d) ==
    /\ d \in queued
    /\ queued' = queued \ {d}
    /\ IF doc[d] \in {"processing", "failed"}
       THEN \E s \in {"ready", "failed"} : doc' = [doc EXCEPT ![d] = s]
       ELSE doc' = doc
    /\ UNCHANGED <<sources, files, purging, up, unpurged, faults>>

\* The owner deletes the document; a purge that cannot be published is only logged.
Delete(d) ==
    /\ Exists(d)
    /\ doc' = [doc EXCEPT ![d] = "deleted"]
    /\ \/ purging' = purging \cup {d} /\ UNCHANGED <<unpurged, faults>>
       \/ Fault /\ unpurged' = unpurged \cup {d} /\ purging' = purging
    /\ UNCHANGED <<sources, files, queued, up>>

Purge(d) ==
    /\ d \in purging
    /\ purging' = purging \ {d}
    /\ files' = files \ {d}
    /\ UNCHANGED <<doc, sources, queued, up, unpurged, faults>>

-----------------------------------------------------------------------------
RequestStep(u) ==
    \/ Lookup(u) \/ ResolveSource(u) \/ CreateSource(u) \/ RereadSource(u) \/ Put(u)
    \/ Insert(u) \/ Cleanup(u) \/ Reread(u) \/ Restart(u) \/ Refresh(u) \/ Enqueue(u)
    \/ MarkUnqueued(u)

Next ==
    \/ \E u \in Uploads : Begin(u) \/ RequestStep(u) \/ EnqueueFails(u) \/ Dies(u)
    \/ \E d \in Uploads : Process(d) \/ Delete(d) \/ Purge(d)

Spec == Init /\ [][Next]_vars

\* Requests and workers go on; nobody has to upload or delete, nothing has to fail.
FairSpec ==
    /\ Spec
    /\ \A u \in Uploads : WF_vars(RequestStep(u)) /\ WF_vars(Process(u)) /\ WF_vars(Purge(u))

-----------------------------------------------------------------------------
(* Properties. *)

\* document_service.py:152: the cleanup of the loser of a race, and the purge of
\* an earlier upload of the same content, leave the files of every other document
\* alone: a document that has a row has its original.
RowHasFile == \A d \in Uploads : Exists(d) => d \in files

\* document_service.py:138: the original comes before its row.  One without a row
\* belongs to a request that is under way or died, or to a deleted document whose
\* purge is on its way or could not be published.
OrphansHaveACause ==
    \A d \in files :
        Exists(d) \/ up[d].pc \in {"insert", "cleanup", "dead"} \/ d \in purging \cup unpurged

\* document_service.py:174: however the first uploads of a user race, the user has
\* one default source, and no document hangs on a source of somebody else or on
\* one that was rolled back.
OneDefaultSource ==
    /\ \A s, t \in sources : s.owner = t.owner => s = t
    /\ \A d \in Uploads :
         Exists(d) => [owner |-> up[d].user, by |-> up[d].source] \in sources

\* document_service.py:214: a document is not left in an intermediate status for
\* good: it is ready, failed or deleted in the end, or a request that had to tell a
\* worker died.
Completes ==
    \A d \in Uploads : doc[d] = "processing" ~>
        doc[d] # "processing" \/ \E u \in Uploads : up[u].pc = "dead" /\ up[u].target = d

\* document_service.py:157: after a conflict on the unique key the row that caused
\* it is found.  Not so when the winner is deleted in between: the upload is then
\* answered with the error of the index (see the README).
ConflictIsFound == \A u \in Uploads : up[u].pc # "conflict"
=============================================================================
