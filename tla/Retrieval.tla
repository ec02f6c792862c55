------------------------------ MODULE Retrieval -------------------------------
(***************************************************************************)
(* The retrieval of one chat turn: the hybrid search of                    *)
(* PgVectorChunkIndex (a vector leg and a full-text leg fused by           *)
(* reciprocal rank), which reads the database twice while documents come   *)
(* and go, the context blocks rag_system_prompt fits into its budget, and  *)
(* the citations, which must be the blocks the model was shown.            *)
(*                                                                         *)
(* The distances and the text ranks are not modelled: each leg is any      *)
(* order of chunks its WHERE lets through, so also the incomplete ones of  *)
(* an approximate index scan.                                              *)
(***************************************************************************)
EXTENDS Integers, FiniteSets, SequencesExt

CONSTANTS
    Chunks, Docs, Sources, Users,
    DocOf,        \* document of each chunk
    SourceOf,     \* source of each document
    UploadedBy,   \* user of each document
    OwnerOf,      \* user of each source
    Disabled,     \* sources with enabled = false
    Law,          \* chunks with kind = 'law', shared with everybody
    User,         \* who asks
    Size,         \* characters of the rendered block of each chunk
    TopK, TopN, RrfK, CharBudget,
    MaxChanges    \* bound: how often documents change during the turn

ASSUME ConstantsAssumption ==
    /\ IsFiniteSet(Chunks)
    /\ DocOf \in [Chunks -> Docs] /\ SourceOf \in [Docs -> Sources]
    /\ UploadedBy \in [Docs -> Users] /\ OwnerOf \in [Sources -> Users]
    /\ Disabled \subseteq Sources /\ Law \subseteq Chunks /\ User \in Users
    /\ Size \in [Chunks -> Nat \ {0}]
    /\ TopK \in Nat \ {0} /\ TopN \in Nat \ {0} /\ RrfK \in Nat \ {0} /\ CharBudget \in Nat
    /\ MaxChanges \in Nat

VARIABLES
    doc,       \* what has become of each document
    rows,      \* the chunks that have a row
    changes,   \* how often documents have changed (for the bound MaxChanges)
    found,     \* history: the documents that were ready when the turn searched
    pc,        \* where the turn is
    filter,    \* source_ids of the request, {} for no restriction
    vec, fts,  \* the two legs, best first
    scored,    \* chunk ids of the first statement, by descending score
    chunks,    \* RetrievedChunk of the second statement: chunk and rank
    blocks,    \* context blocks of the prompt: chunk and printed number
    citations  \* what is sent and stored: chunk and rank

search == <<filter, vec, fts, scored, chunks, blocks, citations, found>>
store  == <<doc, rows, changes>>
vars   == <<store, pc, search>>

-----------------------------------------------------------------------------
(* pgvector_index.py *)

\* The WHERE of both legs.  Chunks without an embedding are missing from the vector
\* leg, like others that its index scan does not return.
Eligible(c) ==
    LET d == DocOf[c]
    IN  /\ c \in rows
        /\ doc[d] = "ready" /\ SourceOf[d] \notin Disabled
        /\ UploadedBy[d] = User \/ c \in Law
        /\ filter = {} \/ SourceOf[d] \in filter

\* Mutant: the full-text leg forgets whose document it reads.
FtsEligibleAnyone(c) ==
    LET d == DocOf[c]
    IN  /\ c \in rows
        /\ doc[d] = "ready" /\ SourceOf[d] \notin Disabled
        /\ filter = {} \/ SourceOf[d] \in filter

FtsEligible(c) == Eligible(c)

\* A leg: chunks that match, in some order, at most top_k of them.  The full-text
\* leg is empty when the query has no usable token.
Legs(S) == {leg \in SetToAllKPermutations(S) : Len(leg) <= TopK}

RankIn(leg, c) == CHOOSE i \in DOMAIN leg : leg[i] = c
In(leg, c)     == c \in ToSet(leg)

\* The RRF score as a fraction <<numerator, denominator>>.
Score(c) ==
    LET v == RrfK + RankIn(vec', c)
        f == RrfK + RankIn(fts', c)
    IN  IF In(vec', c) /\ In(fts', c) THEN <<v + f, v * f>>
        ELSE IF In(vec', c) THEN <<1, v>> ELSE <<1, f>>

\* Mutant: without coalesce the score of a chunk of one leg is null, which sorts first.
AtLeastNullsFirst(c, d) ==
    LET both(x) == In(vec', x) /\ In(fts', x)
    IN  \/ ~both(c)
        \/ both(d) /\ Score(c)[1] * Score(d)[2] >= Score(d)[1] * Score(c)[2]

AtLeast(c, d) == Score(c)[1] * Score(d)[2] >= Score(d)[1] * Score(c)[2]

\* order by score desc limit top_n; equal scores come in any order.
Fused ==
    {SubSeq(s, 1, Min({TopN, Len(s)})) :
        s \in {r \in SetToSeqs(ToSet(vec') \cup ToSet(fts')) :
                 \A i \in 1 .. Len(r) - 1 : AtLeast(r[i], r[i + 1])}}

\* The first statement, after the query was embedded.
Rank ==
    /\ pc = "rank"
    /\ vec' \in Legs({c \in Chunks : Eligible(c)})
    /\ fts' \in Legs({c \in Chunks : FtsEligible(c)})
    /\ scored' \in Fused
    /\ found' = {d \in Docs : doc[d] = "ready"}
    /\ pc' = IF scored' = <<>> THEN "prompt" ELSE "load"
    /\ UNCHANGED <<store, filter, chunks, blocks, citations>>

\* EmbeddingError, or a statement that fails: the turn ends with an error.
RetrieveFails ==
    /\ pc \in {"rank", "load"}
    /\ pc' = "failed"
    /\ UNCHANGED <<store, search>>

\* The k-th of a set of positions, from the left.
Nth(S, k) == CHOOSE i \in S : Cardinality({j \in S : j <= i}) = k

\* The second statement reads the chunks by id, whatever their document is by now; one
\* deleted since the first is skipped, and the others are numbered in the order of
\* their scores.
Load ==
    /\ pc = "load"
    /\ LET there == {i \in DOMAIN scored : scored[i] \in rows}
       IN  chunks' = [k \in 1 .. Cardinality(there) |->
                        [chunk |-> scored[Nth(there, k)], rank |-> k]]
    /\ pc' = "prompt"
    /\ UNCHANGED <<store, filter, vec, fts, scored, blocks, citations, found>>

-----------------------------------------------------------------------------
(* prompts.py, chat_orchestrator.py *)

\* A source of somebody else, or none at all, is a 404 before the stream starts.
Ask(sources) ==
    /\ pc = "idle"
    /\ pc' = IF \E s \in sources : OwnerOf[s] # User THEN "refused" ELSE "rank"
    /\ filter' = sources
    /\ UNCHANGED <<store, vec, fts, scored, chunks, blocks, citations, found>>

SizeOf(cs) == FoldLeft(LAMBDA n, c : n + Size[c.chunk], 0, cs)

\* Mutant: a block that does not fit is passed over.
UsedSkipping ==
    FoldLeft(LAMBDA used, c : IF SizeOf(used) + Size[c.chunk] <= CharBudget
                              THEN Append(used, c) ELSE used, <<>>, chunks)

\* The blocks up to the first that does not fit.
Used ==
    SubSeq(chunks, 1, Max({n \in 0 .. Len(chunks) : SizeOf(SubSeq(chunks, 1, n)) <= CharBudget}))

Numbered(cs) == [i \in DOMAIN cs |-> [chunk |-> cs[i].chunk, rank |-> i]]

\* rag_system_prompt numbers its blocks; the citations event and the stored rows
\* enumerate the chunks it returns.
Prompt ==
    /\ pc = "prompt"
    /\ blocks' = Numbered(Used)
    /\ citations' = Numbered(Used)
    /\ pc' = "done"
    /\ UNCHANGED <<store, filter, vec, fts, scored, chunks, found>>

-----------------------------------------------------------------------------
(* Documents of any user, meanwhile (Ingestion, DocumentService)           *)

ChunksOf(d) == {c \in Chunks : DocOf[c] = d}

Change == changes < MaxChanges /\ changes' = changes + 1

BecomesReady(d) ==
    /\ Change /\ doc[d] = "processing"
    /\ doc' = [doc EXCEPT ![d] = "ready"]
    /\ UNCHANGED <<rows, pc, search>>

\* Two restarts that race: the later one writes over a document that is ready by now.
SetBack(d) ==
    /\ Change /\ doc[d] = "ready"
    /\ doc' = [doc EXCEPT ![d] = "processing"]
    /\ UNCHANGED <<rows, pc, search>>

\* The chunk stage of a restarted document.  The rows that take the place of the old
\* ones have ids of their own: they are not in the legs of this turn.
ReplaceChunks(d) ==
    /\ Change /\ doc[d] # "deleted"
    /\ doc' = [doc EXCEPT ![d] = "processing"]
    /\ rows' = rows \ ChunksOf(d)
    /\ UNCHANGED <<pc, search>>

Delete(d) ==
    /\ Change /\ doc[d] # "deleted"
    /\ doc' = [doc EXCEPT ![d] = "deleted"]
    /\ rows' = rows \ ChunksOf(d)
    /\ UNCHANGED <<pc, search>>

-----------------------------------------------------------------------------
Init ==
    /\ doc \in [Docs -> {"processing", "ready"}] /\ rows = Chunks /\ changes = 0 /\ found = {}
    /\ pc = "idle" /\ filter = {}
    /\ vec = <<>> /\ fts = <<>> /\ scored = <<>>
    /\ chunks = <<>> /\ blocks = <<>> /\ citations = <<>>

Next ==
    \/ \E sources \in SUBSET Sources : Ask(sources)
    \/ Rank \/ RetrieveFails \/ Load \/ Prompt
    \/ \E d \in Docs : BecomesReady(d) \/ SetBack(d) \/ ReplaceChunks(d) \/ Delete(d)

Spec == Init /\ [][Next]_vars

-----------------------------------------------------------------------------
(* Properties *)

\* The model is shown, and the answer cites, only documents the user may read: those of
\* enabled sources that were finished when the turn searched, the user's own or law,
\* within the sources asked for (pgvector_index.py:34-66), whichever leg found them and
\* whatever happens to the documents during the search (the second statement asks for
\* ids only).
OnlyAllowed ==
    \A i \in DOMAIN blocks :
        LET c == blocks[i].chunk
            d == DocOf[c]
        IN  /\ d \in found /\ SourceOf[d] \notin Disabled
            /\ UploadedBy[d] = User \/ c \in Law
            /\ \A s \in filter : OwnerOf[s] = User
            /\ filter = {} \/ SourceOf[d] \in filter

\* c is at least as good as e in both legs and better in one.
Dominates(c, e) ==
    LET noWorse(leg) == In(leg, e) => In(leg, c) /\ RankIn(leg, c) <= RankIn(leg, e)
    IN  c # e /\ (In(vec, c) \/ In(fts, c)) /\ noWorse(vec) /\ noWorse(fts)

\* Fusion, the limits, the second read and the budget never put a chunk before, or
\* in place of, one that beats it in both legs and still has its row
\* (pgvector_index.py:68-74, 145-170; prompts.py:43-64).
DominanceKept ==
    \A i \in DOMAIN blocks : \A c \in Chunks :
        Dominates(c, blocks[i].chunk) =>
            \/ c \notin rows
            \/ \E j \in 1 .. i - 1 : blocks[j].chunk = c

\* The number the model prints as [n] leads to the chunk it was given as n: prompt,
\* citations and search result agree, although chunks may vanish between the two
\* statements and blocks may not fit ("兩者為同一份清單", prompts.py:48); the
\* blocks keep to the budget.
CitedAsNumbered ==
    /\ citations = blocks
    /\ IsPrefix(blocks, chunks)
    /\ \A i \in DOMAIN blocks : blocks[i].rank = i
    /\ SizeOf(blocks) <= CharBudget
    /\ Len(blocks) <= TopN

=============================================================================
