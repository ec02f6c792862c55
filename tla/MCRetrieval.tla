----------------------------- MODULE MCRetrieval ------------------------------
EXTENDS Retrieval, TLC

\* Two documents of the user in two sources, one in a disabled source, one of
\* another user, whose second chunk is a law.
MCDocOf      == 1 :> "own" @@ 2 :> "own" @@ 3 :> "own2" @@ 4 :> "other" @@ 5 :> "other" @@ 6 :> "off"
MCSourceOf   == "own" :> "s1" @@ "own2" :> "s2" @@ "other" :> "s3" @@ "off" :> "s4"
MCUploadedBy == "own" :> "u" @@ "own2" :> "u" @@ "other" :> "v" @@ "off" :> "u"
MCOwnerOf    == "s1" :> "u" @@ "s2" :> "u" @@ "s3" :> "v" @@ "s4" :> "u"
MCSize       == <<1, 2, 3, 1, 2, 1>>
=============================================================================
