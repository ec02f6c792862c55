----------------------------- MODULE MCIndexing ------------------------------
EXTENDS Indexing

\* Headings of two levels, texts shorter and longer than a chunk, with and
\* without an end of sentence in them, a blank block, and tables: a header only,
\* rows to pack, a blank header row, rows that exceed the limit of a block.
MCHeadings == {[type |-> "heading", level |-> l, body |-> <<FALSE>>] : l \in {1, 2}}
MCTexts    == {[type |-> "text", level |-> 0, body |-> b] :
                 b \in {<<>>, <<TRUE>>, <<FALSE, FALSE>>, <<TRUE, FALSE, TRUE, FALSE>>,
                        <<FALSE, FALSE, FALSE, FALSE, FALSE, FALSE, FALSE>>}}
MCTables   == {[type |-> "table", level |-> 0, body |-> b] :
                 b \in {<<2>>, <<0, 1, 1, 1>>, <<1, 1, 5, 1>>}}
MCRawBlocks == MCHeadings \cup MCTexts \cup MCTables
=============================================================================
