------------------------------- MODULE Indexing -------------------------------
(***************************************************************************)
(* What the pipeline does to one document's text: the blocks of the parser *)
(* are normalised and capped (finalize_document), cut into chunks          *)
(* (DefaultRecursiveChunking, pack_table) and embedded batch by batch      *)
(* (OpenAICompatEmbedding.embed).                                          *)
(*                                                                         *)
(* A text is a sequence of characters that remember the block they were    *)
(* read from.  All are CJK, one token each, but the newlines the code      *)
(* joins with; a sentence ends after a character whose stop is TRUE.  A    *)
(* table has one column, a row is a single piece of several characters.    *)
(***************************************************************************)
EXTENDS Integers, FiniteSets, SequencesExt

CONSTANTS
    RawBlocks,    \* blocks a parser may return
    MaxBlocks,    \* bound: blocks of a document
    MaxBlock,     \* MAX_BLOCK_CHARS
    MaxDoc,       \* MAX_DOCUMENT_CHARS
    Target,       \* target_tokens
    Overlap,      \* overlap_tokens
    BatchSize     \* embedding_batch_size

\* A block as a parser returns it: body lists the lengths of the rows of a table, and
\* for any other block says of each character whether a sentence may end there.  The
\* level of a heading is what `block.level or 1` is.
RawBlock ==
    [type : {"heading", "text"}, level : Nat, body : Seq(BOOLEAN)]
    \cup [type : {"table"}, level : Nat, body : Seq(Nat)]

ASSUME ConstantsAssumption ==
    /\ RawBlocks \subseteq RawBlock
    /\ MaxBlocks \in Nat \ {0} /\ MaxBlock \in Nat \ {0} /\ MaxDoc \in Nat \ {0}
    /\ Target \in Nat \ {0} /\ Overlap \in Nat /\ BatchSize \in Nat \ {0}

VARIABLES
    pc,        \* what runs next
    raw,       \* the blocks of the parser
    doc,       \* NormalizedDocument.blocks
    warnings,  \* NormalizedDocument.meta.warnings: positions in doc, from 0
    at,        \* blocks of doc already handed to the builder
    pieces,    \* pieces of the last of them not added yet
    headings,  \* _Builder._headings: <<level, block>>
    pending,   \* _Builder._pending
    prefix,    \* _Builder._section_prefix, empty for None
    overlap,   \* _Builder._overlap
    drafts,    \* _Builder._drafts
    vectors    \* the draft each stored vector was computed from, by seq

builder == <<headings, pending, prefix, overlap, drafts>>
vars    == <<pc, raw, doc, warnings, at, pieces, builder, vectors>>

Char == [block : 1 .. MaxBlocks, k : Nat \ {0}, stop : BOOLEAN, chars : Nat \ {0}]
NL   == [block |-> 0, k |-> 0, stop |-> TRUE, chars |-> 0]
Text == Seq(Char \cup {NL})

-----------------------------------------------------------------------------
(* tokens.py *)

SumOf(numbers)  == FoldLeft(LAMBDA m, n : m + n, 0, numbers)
CharsOf(text)   == SumOf([k \in DOMAIN text |-> text[k].chars])
Newlines(text)  == Cardinality({k \in DOMAIN text : text[k] = NL})
Tokens(text)    == CharsOf(text) + (Newlines(text) + 3) \div 4
TokensOf(texts) == SumOf([k \in DOMAIN texts |-> Tokens(texts[k])])

\* "\n".join of the parts that are not empty.
Join(texts) ==
    FoldLeft(LAMBDA s, t : IF s = <<>> \/ t = <<>> THEN s \o t ELSE s \o <<NL>> \o t, <<>>, texts)

-----------------------------------------------------------------------------
(* blocks.py *)

\* The k-th character of block b as the parser returned it, or its k-th row.
CharAt(b, block, k) ==
    LET table == block.type = "table"
    IN  [block |-> b, k |-> k, stop |-> table \/ block.body[k],
         chars |-> IF table THEN block.body[k] ELSE 1]

\* normalize_text, _normalize_rows: a blank row is dropped, the others keep their order.
NormalForm(b, block) ==
    LET char(k) == CharAt(b, block, k)
        add(text, k) == IF char(k).chars > 0 THEN Append(text, char(k)) ELSE text
    IN  [id |-> b, type |-> block.type, level |-> block.level,
         text |-> FoldLeftDomain(add, <<>>, block.body)]

Normalized(b) == NormalForm(b, raw[b])

\* _cap_rows keeps whole rows, the first however long; a text is cut at the limit.
Capped(block) ==
    LET n == Len(block.text)
        fits(k) == CharsOf(SubSeq(block.text, 1, k)) <= MaxBlock
        kept == Max({k \in 0 .. n : fits(k)} \cup {IF block.type = "table" THEN 1 ELSE 0})
    IN  [block EXCEPT !.text = SubSeq(@, 1, kept)]

Keep(acc, b) ==
    LET block == Normalized(b)
        capped == Capped(block)
    IN  IF block.text = <<>> THEN acc
        ELSE [kept     |-> Append(acc.kept, capped),
              warnings |-> acc.warnings \cup (IF capped = block THEN {} ELSE {Len(acc.kept)}),
              total    |-> acc.total + CharsOf(capped.text)]

\* finalize_document; a document that is too long is a ParseError.
Finalize ==
    /\ pc = "finalize"
    /\ LET acc == FoldLeftDomain(Keep, [kept |-> <<>>, warnings |-> {}, total |-> 0], raw)
       IN  IF acc.total > MaxDoc
           THEN pc' = "failed" /\ UNCHANGED <<doc, warnings>>
           ELSE pc' = "chunk" /\ doc' = acc.kept /\ warnings' = acc.warnings
    /\ UNCHANGED <<raw, at, pieces, builder, vectors>>

-----------------------------------------------------------------------------
(* default_recursive.py *)

\* Positions a text may be cut after: the ends of sentences.
Stops(text) == {k \in DOMAIN text : text[k].stop}

Distance(j, k) == IF j < k THEN k - j ELSE j - k

\* The cut of _split_to_limit: the end of a sentence nearest to the middle, the
\* first of two; the middle itself in a text that is a single sentence.
CutOf(text) ==
    LET middle == Len(text) \div 2
        candidates == Stops(text) \ {Len(text)}
        nearest == {j \in candidates : \A k \in candidates :
                        Distance(j, middle) <= Distance(k, middle)}
    IN  IF candidates = {} THEN middle ELSE Min(nearest)

SplitToLimit(text) ==
    LET split[part \in SubSeqs(text)] ==
            IF Tokens(part) <= Target \/ Len(part) <= 1 THEN <<part>>
            ELSE split[SubSeq(part, 1, CutOf(part))]
                 \o split[SubSeq(part, CutOf(part) + 1, Len(part))]
    IN  split[text]

\* _SPLIT_POINTS.split without the parts that are blank.
Sentences(text) ==
    LET ends == Stops(text) \cup {Len(text)}
        start(e) == Max({0} \cup {k \in ends : k < e}) + 1
        part(e) == SubSeq(text, start(e), e)
        inked == {e \in ends : CharsOf(part(e)) > 0}
        nth(i) == CHOOSE e \in inked : Cardinality({k \in inked : k <= e}) = i
    IN  [i \in 1 .. Cardinality(inked) |-> part(nth(i))]

\* str.strip
Strip(text) ==
    LET inked == {k \in DOMAIN text : text[k] # NL}
    IN  IF inked = {} THEN <<>> ELSE SubSeq(text, Min(inked), Max(inked))

\* _tail_within: as many whole sentences as fit, from the end.
TailWithin(text) ==
    LET s == Sentences(text)
        fits(j) == TokensOf(SubSeq(s, j, Len(s))) <= Overlap
        first == Min({j \in 1 .. Len(s) : fits(j)} \cup {Len(s) + 1})
    IN  Strip(FlattenSeq(SubSeq(s, first, Len(s))))

Draft(type, over, head, body, tokens) ==
    [type |-> type, path |-> [i \in DOMAIN headings |-> headings[i][2]],
     overlap |-> over, prefix |-> head, body |-> body, tokens |-> tokens]

\* _Builder.flush: what it returns to the builder's fields.
FlushedDrafts ==
    IF pending = <<>> THEN drafts
    ELSE LET body == Join(pending)
         IN  Append(drafts, Draft("text", overlap, prefix, body,
                                  Tokens(Join(<<overlap, prefix, body>>))))
FlushedPrefix  == IF pending = <<>> THEN prefix ELSE <<>>
FlushedOverlap == IF pending = <<>> THEN overlap ELSE TailWithin(Join(pending))

NextBlock(type) ==
    /\ pc = "chunk" /\ pieces = <<>>
    /\ at < Len(doc) /\ doc[at + 1].type = type
    /\ at' = at + 1

\* The stack after the headings of the same level or deeper are popped.
Outer(level) == SubSeq(headings, 1, Max({0} \cup {i \in DOMAIN headings : headings[i][1] < level}))

\* Mutant: the overlap outlives the heading.
StartSectionOverlapping ==
    /\ NextBlock("heading")
    /\ drafts' = FlushedDrafts
    /\ headings' = Append(Outer(doc[at + 1].level), <<doc[at + 1].level, doc[at + 1].id>>)
    /\ prefix' = doc[at + 1].text
    /\ pending' = <<>> /\ overlap' = FlushedOverlap
    /\ UNCHANGED <<pc, raw, doc, warnings, pieces, vectors>>

StartSection ==
    /\ NextBlock("heading")
    /\ drafts' = FlushedDrafts
    /\ headings' = Append(Outer(doc[at + 1].level), <<doc[at + 1].level, doc[at + 1].id>>)
    /\ prefix' = doc[at + 1].text
    /\ pending' = <<>> /\ overlap' = <<>>
    /\ UNCHANGED <<pc, raw, doc, warnings, pieces, vectors>>

AddText ==
    /\ NextBlock("text")
    /\ pieces' = SplitToLimit(doc[at + 1].text)
    /\ UNCHANGED <<pc, raw, doc, warnings, builder, vectors>>

PendingTokens == TokensOf(pending)

\* Mutant: the size is tested after the piece is added.
AddPieceLate ==
    /\ pc = "chunk" /\ pieces # <<>>
    /\ LET piece == Head(pieces)
       IN  IF PendingTokens > Target
           THEN /\ drafts' = FlushedDrafts /\ pending' = <<piece>>
                /\ prefix' = FlushedPrefix /\ overlap' = FlushedOverlap
           ELSE /\ pending' = Append(pending, piece)
                /\ UNCHANGED <<drafts, prefix, overlap>>
    /\ pieces' = Tail(pieces)
    /\ UNCHANGED <<pc, raw, doc, warnings, at, headings, vectors>>

\* The body of the loop of add_text.
AddPiece ==
    /\ pc = "chunk" /\ pieces # <<>>
    /\ LET piece == Head(pieces)
       IN  IF pending # <<>> /\ PendingTokens + Tokens(piece) > Target
           THEN /\ drafts' = FlushedDrafts /\ pending' = <<piece>>
                /\ prefix' = FlushedPrefix /\ overlap' = FlushedOverlap
           ELSE /\ pending' = Append(pending, piece)
                /\ UNCHANGED <<drafts, prefix, overlap>>
    /\ pieces' = Tail(pieces)
    /\ UNCHANGED <<pc, raw, doc, warnings, at, headings, vectors>>

\* _serialize_row writes the header before the cell, with a colon and a space.
LineTokens(header, row) == header.chars + row.chars + 1
LinesTokens(header, rows) == SumOf([k \in DOMAIN rows |-> LineTokens(header, rows[k])])

\* The body of the loop of pack_table.
PackRow(header, acc, row) ==
    IF acc.buffer # <<>> /\ LinesTokens(header, acc.buffer) + LineTokens(header, row) > Target
    THEN [packed |-> Append(acc.packed, acc.buffer), buffer |-> <<row>>]
    ELSE [packed |-> acc.packed, buffer |-> Append(acc.buffer, row)]

\* A table that is only a header is one line of its own.
PackTable(rows) ==
    LET add(acc, row) == PackRow(rows[1], acc, row)
        end == FoldLeft(add, [packed |-> <<>>, buffer |-> <<>>], Tail(rows))
    IN  IF Len(rows) = 1 THEN <<rows>> ELSE Append(end.packed, end.buffer)

\* estimate_tokens of the lines of a chunk, joined by newlines.
TableTokens(rows, group) ==
    IF Len(rows) = 1 THEN rows[1].chars
    ELSE CharsOf(group) + Len(group) * rows[1].chars + (3 * Len(group) - 1 + 3) \div 4

\* Mutant: the table is emitted without closing the text before it.
AddTableUnflushed ==
    /\ NextBlock("table")
    /\ LET rows == doc[at + 1].text
           groups == PackTable(rows)
           draft(i) == Draft("table", <<>>, <<>>, groups[i], TableTokens(rows, groups[i]))
       IN  drafts' = drafts \o [i \in DOMAIN groups |-> draft(i)]
    /\ overlap' = <<>>
    /\ UNCHANGED <<pc, raw, doc, warnings, pieces, headings, pending, prefix, vectors>>

AddTable ==
    /\ NextBlock("table")
    /\ LET rows == doc[at + 1].text
           groups == PackTable(rows)
           draft(i) == Draft("table", <<>>, <<>>, groups[i], TableTokens(rows, groups[i]))
       IN  drafts' = FlushedDrafts \o [i \in DOMAIN groups |-> draft(i)]
    /\ pending' = <<>> /\ prefix' = FlushedPrefix /\ overlap' = <<>>
    /\ UNCHANGED <<pc, raw, doc, warnings, pieces, headings, vectors>>

\* finish, and the storing of the drafts (Ingestion has the transaction).
FinishChunking ==
    /\ pc = "chunk" /\ pieces = <<>> /\ at = Len(doc)
    /\ pc' = "embed"
    /\ drafts' = FlushedDrafts /\ prefix' = FlushedPrefix /\ overlap' = FlushedOverlap
    /\ pending' = <<>>
    /\ UNCHANGED <<raw, doc, warnings, at, pieces, headings, vectors>>

-----------------------------------------------------------------------------
(* openai_compat.py.  The provider answers with rows in any order, each    *)
(* with the index of its text in the batch.                                *)

\* list_unembedded: the next drafts by seq.
BatchLen == Min({BatchSize, Len(drafts) - Len(vectors)})

\* Answers to a batch: some of its texts, in some order.
Answers ==
    LET row(i) == [index |-> i, of |-> Len(vectors) + i]
    IN  {[k \in DOMAIN p |-> row(p[k])] : p \in SetToAllKPermutations(1 .. BatchLen)}

\* Mutant: the rows are taken in the order of the answer.
InAnswerOrder(answer) == answer

\* The k-th row is the one with the k-th index; no two rows have the same.
InInputOrder(answer) ==
    LET rank(row) == Cardinality({r \in ToSet(answer) : r.index <= row.index})
    IN  [k \in DOMAIN answer |-> CHOOSE row \in ToSet(answer) : rank(row) = k]

EmbedBatch ==
    /\ pc = "embed" /\ BatchLen > 0
    /\ \E answer \in Answers :
         IF Len(answer) = BatchLen
         THEN /\ vectors' = vectors \o [k \in DOMAIN answer |-> InInputOrder(answer)[k].of]
              /\ UNCHANGED pc
         ELSE pc' = "failed" /\ UNCHANGED vectors
    /\ UNCHANGED <<raw, doc, warnings, at, pieces, builder>>

EmbedDone ==
    /\ pc = "embed" /\ BatchLen = 0
    /\ pc' = "done"
    /\ UNCHANGED <<raw, doc, warnings, at, pieces, builder, vectors>>

-----------------------------------------------------------------------------
Init ==
    /\ pc = "finalize"
    /\ raw \in BoundedSeq(RawBlocks, MaxBlocks)
    /\ doc = <<>> /\ warnings = {} /\ at = 0 /\ pieces = <<>>
    /\ headings = <<>> /\ pending = <<>> /\ prefix = <<>> /\ overlap = <<>>
    /\ drafts = <<>> /\ vectors = <<>>

Next ==
    \/ Finalize
    \/ StartSection \/ AddText \/ AddPiece \/ AddTable \/ FinishChunking
    \/ EmbedBatch \/ EmbedDone

Spec == Init /\ [][Next]_vars

-----------------------------------------------------------------------------
(* Properties *)

Ink(text) == FoldLeft(LAMBDA s, c : IF c = NL THEN s ELSE Append(s, c), <<>>, text)

\* The pieces of a chunk are counted one by one, each without the newline that joins
\* it to the next; every piece counts a token, so Target pieces have Target - 1 newlines.
Limit == Target + (Target + 2) \div 4

DraftOK(d) ==
    /\ d.type \in {"text", "table"}
    /\ d.path \in Seq(1 .. MaxBlocks)
    /\ d.body \in Text /\ Ink(d.body) # <<>>
    /\ d.overlap \in Text /\ CharsOf(d.overlap) <= Overlap
    /\ d.prefix \in Seq(Char)
    /\ d.type = "text" => Tokens(d.body) <= Limit
    /\ d.type = "table" => d.tokens <= Limit \/ Len(d.body) = 1
    /\ d.tokens \in Nat \ {0}

\* The variables keep their types, and the chunks keep to their sizes, counted as the
\* code counts them (estimate_tokens of the joined text, tokens.py:17-19): what a chunk
\* has of its own is within target_tokens but for the newlines that join it, which
\* neither _pending_tokens (default_recursive.py:79, 97) nor pack_table
\* (table_row.py:41-45) counts; a single row of a table may be longer; and what a
\* chunk repeats of its predecessor is within overlap_tokens, again but for newlines.
TypeOK ==
    /\ pc \in {"finalize", "chunk", "embed", "done", "failed"}
    /\ at \in 0 .. Len(doc)
    /\ warnings \subseteq 0 .. Len(doc) - 1
    /\ \A i \in DOMAIN doc : doc[i].text \in Seq(Char) \ {<<>>}
    /\ pieces \in Seq(Text \ {<<>>}) /\ pending \in Seq(Text \ {<<>>})
    /\ \A i \in DOMAIN drafts : DraftOK(drafts[i])
    /\ Len(vectors) <= Len(drafts)

\* What chunking must put into chunks: all text but headings, and the rows of a
\* table but its header, unless the header is all there is.
ContentOf(block) ==
    IF block.type = "heading" THEN <<>>
    ELSE IF block.type = "table" /\ Len(block.text) > 1 THEN Tail(block.text)
    ELSE block.text

\* No text is lost, repeated or moved between the parser and the chunks: what the
\* normalised document cuts off is named in its warnings, by the right position
\* (blocks.py:62-77), and the bodies of the chunks, put together, are the text of the
\* blocks in their order (default_recursive.py:76-103, table_row.py:24-48).
NothingLost ==
    /\ \A i \in DOMAIN doc :
         LET all == Normalized(doc[i].id).text
         IN  /\ IsPrefix(doc[i].text, all)
             /\ (doc[i].text # all) <=> (i - 1 \in warnings)
    /\ pc \in {"chunk", "embed", "done"} =>
         \A b \in DOMAIN raw : Normalized(b).text # <<>> => \E i \in DOMAIN doc : doc[i].id = b
    /\ Ink(FlattenSeq([i \in DOMAIN drafts |-> drafts[i].body])
           \o FlattenSeq(pending) \o FlattenSeq(pieces))
         = FlattenSeq([i \in 1 .. at |-> ContentOf(doc[i])])

HeadingIds == {doc[i].id : i \in {j \in DOMAIN doc : doc[j].type = "heading"}}
LevelOf(h) == raw[h].level

\* The heading a block stands under, 0 if none, and the headings above that one:
\* those that no heading of the same level or higher has ended.
SectionOf(b) == Max({0} \cup {h \in HeadingIds : h <= b})
PathTo(h) ==
    {g \in HeadingIds : g <= h /\ \A e \in HeadingIds : g < e /\ e <= h => LevelOf(e) > LevelOf(g)}

\* A chunk never mixes sections ("不同章節的內容 NEVER 混進同一個 chunk",
\* default_recursive.py:7): its text, its overlap and the heading it opens with belong to
\* one section, heading_path is the path to it, and the overlap is the end of
\* the chunk right before.
WithinSection ==
    \A i \in DOMAIN drafts :
        LET d == drafts[i]
            section == SectionOf(Ink(d.body)[1].block)
        IN  /\ \A c \in ToSet(Ink(d.overlap \o d.body)) : SectionOf(c.block) = section
            /\ \A c \in ToSet(d.prefix) : c.block = section
            /\ ToSet(d.path) = PathTo(section)
            /\ \A k, l \in DOMAIN d.path : k < l => d.path[k] < d.path[l]
            /\ d.overlap # <<>> =>
                 /\ i > 1 /\ drafts[i - 1].type = "text"
                 /\ IsSuffix(Ink(d.overlap), Ink(drafts[i - 1].body))

\* Every vector is stored with the chunk whose text it was computed from, whatever
\* the order of the provider's answers ("依 index 還原輸入順序", openai_compat.py:80)
\* and of the batches.
VectorsMatchTexts == \A i \in DOMAIN vectors : vectors[i] = i

=============================================================================
