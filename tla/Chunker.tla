------------------------------ MODULE Chunker ------------------------------
(***************************************************************************)
(* chunk_document (core/rag/chunker.py).                                   *)
(*                                                                         *)
(* A text is a sequence of pieces: what a pattern of the chunker can cut   *)
(* apart.  A piece has a length, a role (a header's mark, the first line   *)
(* of a definition or of a file's diff, anything else) and the separator   *)
(* that follows it; no two pieces read the same.  Positions count from 0,  *)
(* as the offsets of the code do, and an interval ends before its `to'.    *)
(***************************************************************************)
EXTENDS Integers, Sequences, FiniteSets, FiniteSetsExt, SequencesExt

CONSTANTS
    MaxSize,    \* TEXT_CHUNK_SIZE and CODE_CHUNK_SIZE
    Overlap,    \* TEXT_OVERLAP and CODE_OVERLAP
    Lengths,    \* the lengths a piece may have
    DocTypes,   \* the strategies: subset of DOMAIN Separators
    MaxPieces   \* bound: pieces of a text

ASSUME SizeAssumption ==
    MaxSize \in Nat /\ Overlap \in Nat \ {0} /\ 2 * Overlap <= MaxSize
ASSUME PieceAssumption == Lengths \subseteq Nat \ {0} /\ MaxPieces \in Nat

VARIABLES
    text,    \* the stripped text
    docType, \* doc_type
    chunks   \* its chunks, in order

-----------------------------------------------------------------------------
\* Texts.

\* Characters of a separator: a space, line breaks, or the ";" of a statement and
\* the line breaks after it.
Width == [space |-> 1, line |-> 1, blank |-> 2, end |-> 2, endblank |-> 3]

\* The separators a text of the type may have.  In a markdown text a space follows
\* a mark only; in other texts it, or a single line break, ends a sentence.
Separators ==
    [text |-> {"space", "line", "blank"}, markdown |-> {"space", "line", "blank"},
     python |-> {"line", "blank"}, java |-> {"line", "blank"},
     git_diff |-> {"line", "blank"}, sql |-> {"end", "endblank"}]

ASSUME TypeAssumption == DocTypes \subseteq DOMAIN Separators

Roles(d) == CASE d = "markdown" -> {"plain", "mark"}
              [] d \in {"python", "java", "git_diff"} -> {"plain", "head"}
              [] d = "sql" -> {"plain", "closed"}   \* the last may have its ";"
              [] d = "text" -> {"plain"}

WellFormed(t, d) ==
    \A i \in DOMAIN t :
        /\ t[i].role = "mark" => t[i].len = 1 /\ i < Len(t)
        /\ t[i].role = "closed" => i = Len(t)
        /\ i = Len(t) => t[i].sep = CHOOSE s \in Separators[d] : TRUE
        /\ d = "markdown" /\ t[i].sep = "space" =>
               t[i].role = "mark" /\ (i < Len(t) => t[i + 1].role # "mark")

Texts(d) ==
    {t \in BoundedSeq([len : Lengths, role : Roles(d), sep : Separators[d]], MaxPieces) :
        WellFormed(t, d)}

From(t, i) ==
    LET from[n \in 1..i] ==
            IF n = 1 THEN 0 ELSE from[n - 1] + t[n - 1].len + Width[t[n - 1].sep]
    IN from[i]

To(t, i) == From(t, i) + t[i].len

\* The positions of line breaks: every character of a separator but a space and a ";".
LineBreaks(t) ==
    UNION {(To(t, i) + IF t[i].sep \in {"end", "endblank"} THEN 1 ELSE 0)
           ..(To(t, i) + Width[t[i].sep] - 1)
           : i \in {j \in 1..Len(t) - 1 : t[j].sep # "space"}}

-----------------------------------------------------------------------------
\* Segments: an interval of the text, and the characters added to it.

\* One more range, from where the one before it ends, or from lo, to n.
CutAt(ranges, lo, n) ==
    Append(ranges, <<IF ranges = <<>> THEN lo ELSE Last(ranges)[2] + 1, n>>)

\* The ranges of pieces when lo..hi is cut after the pieces in C.
Ranges(lo, hi, C) ==
    LET cut[n \in lo - 1..hi] ==
            IF n = lo - 1 THEN <<>>
            ELSE IF n \in C \cup {hi} THEN CutAt(cut[n - 1], lo, n)
            ELSE cut[n - 1]
    IN cut[hi]

Stripped(t, r) == [from |-> From(t, r[1]), to |-> To(t, r[2]), plus |-> 0]
Size(s) == s.to - s.from + s.plus

After(t, separators) == {i \in DOMAIN t : t[i].sep \in separators}
Before(t, role) == {i \in 1..Len(t) - 1 : t[i + 1].role = role}

\* _split_paragraphs.
Paragraphs(t, r) == Ranges(r[1], r[2], After(t, {"blank"}))

\* A range that is too long is cut further, after the pieces in C.
Refined(t, r, C) ==
    IF Size(Stripped(t, r)) <= MaxSize THEN <<r>> ELSE Ranges(r[1], r[2], C)

Refine(t, ranges, C) ==
    LET all[n \in 0..Len(ranges)] ==
            IF n = 0 THEN <<>> ELSE all[n - 1] \o Refined(t, ranges[n], C)
    IN all[Len(ranges)]

Whole(t) == <<1, Len(t)>>
StrippedAll(t, ranges) == [k \in DOMAIN ranges |-> Stripped(t, ranges[k])]

\* _split_text: sentences where a paragraph is too long.
SplitText(t) ==
    StrippedAll(t, Refine(t, Paragraphs(t, Whole(t)), After(t, {"space", "line"})))

\* _split_markdown.  The pattern's group makes a header's mark a part of its own,
\* which no longer matches the pattern: the mark and what follows it are sections.
SplitMarkdown(t) ==
    LET marks == {i \in DOMAIN t : t[i].role = "mark"}
        sections == Ranges(1, Len(t), marks \cup Before(t, "mark"))
    IN StrippedAll(t, Refine(t, sections, After(t, {"blank"})))

\* A part cut at the line that begins the next one keeps its separator; the pattern
\* for other languages than Python also begins a part at each blank line before a
\* definition, and the blank parts are dropped.
Unstripped(t, r, kept) ==
    [Stripped(t, r) EXCEPT !.to = @ + IF r[2] < Len(t) THEN kept[t[r[2]].sep] ELSE 0]

AtHeads(t, kept) ==
    LET ranges == Ranges(1, Len(t), Before(t, "head"))
    IN [k \in DOMAIN ranges |-> Unstripped(t, ranges[k], kept)]

\* _split_code: with a single definition the blank lines cut.
SplitCode(t, d) ==
    LET parts == AtHeads(t, IF d = "python" THEN Width ELSE [s \in DOMAIN Width |-> 1])
    IN IF Len(parts) <= 1 THEN StrippedAll(t, Paragraphs(t, Whole(t))) ELSE parts

\* _split_git_diff.
SplitGitDiff(t) == AtHeads(t, Width)

\* _split_sql: the pattern takes the ";" and it is put back, after the last
\* statement too, where there may have been none.  A single statement stays as it is.
SplitSql(t) ==
    [i \in DOMAIN t |->
        IF Len(t) = 1 THEN Stripped(t, <<1, 1>>)
        ELSE IF i < Len(t) THEN [Stripped(t, <<i, i>>) EXCEPT !.to = @ + 1]
        ELSE [Stripped(t, <<i, i>>) EXCEPT !.plus = IF t[i].role = "closed" THEN 0 ELSE 1]]

Segments(t, d) ==
    CASE d = "markdown" -> SplitMarkdown(t)
      [] d = "sql" -> SplitSql(t)
      [] d = "git_diff" -> SplitGitDiff(t)
      [] d \in {"python", "java"} -> SplitCode(t, d)
      [] d = "text" -> SplitText(t)

-----------------------------------------------------------------------------
\* Merging: a merged segment is a sequence of segments joined by line breaks.

Joined(m) ==
    LET sum[n \in 0..Len(m)] == IF n = 0 THEN 0 ELSE sum[n - 1] + Size(m[n])
    IN sum[Len(m)] + Len(m) - 1

Small(n) == 5 * n < MaxSize   \* threshold is a fifth of max_size

Joins(m, s) == /\ Small(Joined(m)) \/ Small(Size(s))
               /\ Joined(m) + Size(s) + 1 <= MaxSize

Merge(merged, s) ==
    IF merged # <<>> /\ Joins(Last(merged), s)
    THEN [merged EXCEPT ![Len(merged)] = Append(@, s)]
    ELSE Append(merged, <<s>>)

\* _merge_small_segments.
MergeSmallSegments(segments) ==
    LET merged[n \in 0..Len(segments)] ==
            IF n = 0 THEN <<>> ELSE Merge(merged[n - 1], segments[n])
    IN merged[Len(segments)]

\* The merged segment stands in the text as it is.
Verbatim(t, m) ==
    /\ \A k \in DOMAIN m : m[k].plus = 0
    /\ \A k \in 1..Len(m) - 1 : /\ m[k + 1].from = m[k].to + 1
                                /\ m[k].to \in LineBreaks(t)

\* full_text.find(segment, offset), or offset when it is not found.
Place(t, m, offset) ==
    IF Verbatim(t, m) /\ offset <= m[1].from THEN m[1].from ELSE offset

Held(s) == s.from..s.to - 1

-----------------------------------------------------------------------------
\* Chunks.

\* Variant: the window moves on by its size and the overlap.
WindowsApart(size) ==
    LET step == MaxSize + Overlap
        more == {k \in 0..size : k = 0 \/ (k - 1) * step + MaxSize < size}
    IN [k \in 1..Cardinality(more) |-> [from |-> (k - 1) * step,
                                        to |-> Min({(k - 1) * step + MaxSize, size})]]

\* _sliding_window over size characters.
SlidingWindow(size) ==
    LET step == MaxSize - Overlap
        more == {k \in 0..size : k = 0 \/ (k - 1) * step + MaxSize < size}
    IN [k \in 1..Cardinality(more) |-> [from |-> (k - 1) * step,
                                        to |-> Min({(k - 1) * step + MaxSize, size})]]

\* The chunks of a merged segment placed at a position: what they hold of the text,
\* and char_start and char_end.
ChunksAt(m, at) ==
    IF Joined(m) <= MaxSize
    THEN <<[holds |-> UNION {Held(m[k]) : k \in DOMAIN m},
            start |-> at, end |-> at + Joined(m)]>>
    ELSE LET windows == SlidingWindow(Joined(m)) IN
         [k \in DOMAIN windows |->
            [holds |-> (m[1].from + windows[k].from..m[1].from + windows[k].to - 1)
                       \cap Held(m[1]),
             start |-> at + windows[k].from, end |-> at + windows[k].to]]

\* Variant: the next segment is looked for where this one was found.
NextOffsetBehind(at, m) == at

NextOffset(at, m) == at + Joined(m)

\* The chunks of one more merged segment.
WithChunksOf(acc, t, m) ==
    LET at == Place(t, m, acc.offset) IN
    [chunks |-> acc.chunks \o ChunksAt(m, at), offset |-> NextOffset(at, m)]

\* _segments_to_chunks.
SegmentsToChunks(t, merged) ==
    LET acc[n \in 0..Len(merged)] ==
            IF n = 0 THEN [chunks |-> <<>>, offset |-> 0]
            ELSE WithChunksOf(acc[n - 1], t, merged[n])
    IN acc[Len(merged)].chunks

\* A text of blanks has no chunks.
ChunkDocument(t, d) ==
    IF t = <<>> THEN <<>>
    ELSE SegmentsToChunks(t, MergeSmallSegments(Segments(t, d)))
=============================================================================
