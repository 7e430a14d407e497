------------------------------ MODULE Embedder ------------------------------
(***************************************************************************)
(* From a text to its rows: chunk_document, embed_texts                    *)
(* (core/embeddings/embedder.py) over the chunks, and the zip of rows and  *)
(* vectors by its callers.  The provider answers a batch with one vector   *)
(* a text, in order; one answer of a run may lack a vector, which nothing  *)
(* checks.                                                                 *)
(***************************************************************************)
EXTENDS Chunker

CONSTANTS
    BatchSize,  \* _BATCH_SIZE
    None

ASSUME BatchAssumption == BatchSize \in Nat \ {0} /\ None \notin Nat

VARIABLES
    at,       \* where the run is, or how it ended
    sent,     \* the number of texts sent
    vectors,  \* all_embeddings: the text each of them is the vector of
    known,    \* provider_tokens, one a text; None when a batch did not tell
    rows      \* the chunk and the vector of each row that was stored

indexing == <<text, docType, chunks, at, sent, vectors, known, rows>>

IndexingTypeOK ==
    /\ at \in {"new", "embedding", "embedded", "stored", "empty", "raised"}
    /\ sent \in 0..Len(chunks) /\ vectors \in Seq(1..sent)
    /\ known \in Nat \cup {None}
    /\ rows \in Seq((1..sent) \X (1..sent))

IndexingInit ==
    /\ text = <<>> /\ docType = None /\ chunks = <<>>
    /\ at = "new" /\ sent = 0 /\ vectors = <<>> /\ known = 0 /\ rows = <<>>

\* A document is loaded and cut; without chunks its run ends.
Load ==
    /\ at = "new"
    /\ \E d \in DocTypes : \E t \in Texts(d) :
         /\ docType' = d /\ text' = t /\ chunks' = ChunkDocument(t, d)
         /\ at' = IF t = <<>> THEN "empty" ELSE "embedding"
    /\ UNCHANGED <<sent, vectors, known, rows>>

NextSent == Min({sent + BatchSize, Len(chunks)})

\* Variant: a batch has one text too many.
SentNowOverlapping == sent + 1..Min({NextSent + 1, Len(chunks)})

\* texts[batch_start : batch_start + _BATCH_SIZE]
SentNow == sent + 1..NextSent

\* The vectors of an answer, in the order of the texts.
Answered(lost) ==
    [k \in 1..Cardinality(SentNow \ {lost}) |->
        IF lost # None /\ sent + k >= lost THEN sent + k + 1 ELSE sent + k]

\* A batch is answered.
EmbedBatch ==
    /\ at = "embedding"
    /\ \E lost \in {None} \cup IF Len(vectors) = sent THEN SentNow ELSE {},
          tells \in BOOLEAN :
         /\ vectors' = vectors \o Answered(lost)
         /\ known' = IF known = None \/ ~tells THEN None ELSE known + Cardinality(SentNow)
    /\ sent' = NextSent
    /\ at' = IF NextSent = Len(chunks) THEN "embedded" ELSE "embedding"
    /\ UNCHANGED <<text, docType, chunks, rows>>

\* A status other than 2xx, a timeout, an answer of another shape: nothing of the
\* batches before is returned.
EmbedFails ==
    /\ at = "embedding"
    /\ at' = "raised"
    /\ UNCHANGED <<text, docType, chunks, sent, vectors, known, rows>>

\* zip(chunks, result.embeddings), which ends with the shorter.
Store ==
    /\ at = "embedded"
    /\ at' = "stored"
    /\ rows' = [k \in 1..Min({Len(chunks), Len(vectors)}) |-> <<k, vectors[k]>>]
    /\ UNCHANGED <<text, docType, chunks, sent, vectors, known>>

Indexing == Load \/ EmbedBatch \/ EmbedFails \/ Store

IndexingSpec == IndexingInit /\ [][Indexing]_indexing

-----------------------------------------------------------------------------
\* Properties.

Pieces == {From(text, i)..To(text, i) - 1 : i \in DOMAIN text}

\* The chunks have just been made; nothing changes them later.
JustCut == at = "embedding" /\ sent = 0

\* Every character of the text that is no separator is in a chunk, no chunk is
\* longer than the models take, and what two chunks share is the overlap of two
\* windows next to each other.
NothingLost ==
    JustCut =>
        /\ \A P \in Pieces : P \subseteq UNION {chunks[k].holds : k \in DOMAIN chunks}
        /\ \A k \in DOMAIN chunks : chunks[k].end - chunks[k].start \in 1..MaxSize
        /\ \A j, k \in DOMAIN chunks :
               j < k => Cardinality(chunks[j].holds \cap chunks[k].holds)
                        <= IF k = j + 1 THEN Overlap ELSE 0

\* The line breaks that joins have added to the first n merged segments: those of
\* two segments with nothing between them.
Added(merged, n) ==
    Cardinality({j \in (1..n) \X (1..MaxPieces) :
                    /\ j[2] < Len(merged[j[1]])
                    /\ merged[j[1]][j[2] + 1].from = merged[j[1]][j[2]].to})

\* char_start and char_end.  However the chunks before it were guessed, a segment
\* that stands in the text as it is has the offsets at which it stands, unless line
\* breaks were added to code before it, and then it is off by no more than these.
\* No chunk begins before the one before it.
OffsetsTell ==
    JustCut =>
        /\ LET merged == MergeSmallSegments(Segments(text, docType)) IN
           \A i \in {j \in DOMAIN merged : Verbatim(text, merged[j])}, k \in DOMAIN chunks :
               LET begin == Min(chunks[k].holds) IN
               begin \in merged[i][1].from..Last(merged[i]).to - 1 =>
                   /\ chunks[k].start - begin \in 0..Added(merged, i - 1)
                   /\ chunks[k].end - chunks[k].start = Max(chunks[k].holds) + 1 - begin
        /\ \A k \in 1..Len(chunks) - 1 : chunks[k].start < chunks[k + 1].start

\* A row has the vector of its own chunk, in whatever batch it was, unless a text up
\* to it was left without an answer; and every chunk has its row if all were answered.
RowsHaveTheirVectors ==
    at = "stored" =>
        /\ \A k \in DOMAIN rows : rows[k][1] = k
        /\ \A k \in DOMAIN rows : rows[k][2] # k => \E j \in 1..k : j \notin Range(vectors)
        /\ 1..Len(chunks) \subseteq Range(vectors) => Len(rows) = Len(chunks)
        /\ known # None => known = Len(chunks)
=============================================================================
