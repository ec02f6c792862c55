----------------------------- MODULE MCIngestion -----------------------------
(* Instances of Ingestion for TLC. *)
EXTENDS Ingestion, TLC

\* The limits of ingest.py are parse 3, chunk 3, embed 5 and Celery's is 3.  Here
\* Celery's is 1 and they keep that order: embed may ask for a retry too many.
MCMaxRetries == [parse |-> 1, chunk |-> 1, embed |-> 2]

\* No limit above Celery's: one failure exhausts chunk at once, and is retried elsewhere.
MCWithinCelery == [parse |-> 1, chunk |-> 0, embed |-> 1]

\* Workers and requests are interchangeable (safety runs only).
MCSymmetry == Permutations(Workers) \cup Permutations(Requests)
=============================================================================
