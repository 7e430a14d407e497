------------------------------ MODULE Analyses ------------------------------
(***************************************************************************)
(* The analyses of documents (pipelines/document_analysis.py) and commits  *)
(* (_analyze_commit in pipelines/git_ingestion.py) and the summaries of    *)
(* workspaces (pipelines/workspace_summary.py) over the calls of LlmCalls: *)
(* an analysis makes at most one structured call and is answered by the    *)
(* rules of its module when that call is of no use.  The file of a         *)
(* document belongs to the backend, which changes it at any time.          *)
(***************************************************************************)
EXTENDS LlmCalls

VARIABLES
    mode,    \* settings: ai_analysis_mode is llm, there is an API key, the prefix of
             \* main_model is known
    file,    \* the document's file, by what a preview of it shows
    work,    \* per call, the analysis it belongs to, if any
    answer   \* the answer of the analysis

aVars == <<mode, file, work, answer>>

Level == {"LOW", "MEDIUM", "HIGH"}

\* A text is known by its worst risk term; "quotes" is a text in which the
\* words of the message about a missing file occur.
Readable == Level \cup {"blank", "quotes"}
File == Readable \cup {"missing", "pathless", "opaque", "unreadable"}

\* title: the worst risk term of the title and the type; text: the one of the
\* message and the diff; llm: the commit is within the cap of its batch (use_llm).
Work == [of : {"document"}, title : Level, task : BOOLEAN]
          \cup [of : {"commit"}, text : Level, llm : BOOLEAN]
          \cup [of : {"summary"}]

AnalysesInit ==
    /\ Init
    /\ mode \in [llm : BOOLEAN, key : BOOLEAN, known : BOOLEAN]
    /\ file \in File
    /\ work = [c \in Call |-> None]
    /\ answer = [c \in Call |-> None]

-----------------------------------------------------------------------------
\* The rules.

\* _read_text_preview: the file may go, or be locked, between the look and the
\* reading.
Previews == {file} \cup IF file \in Readable THEN {"unreadable"} ELSE {}

\* Both are found by the words of the message, wherever they stand.
SaysMissing(preview) == preview \in {"missing", "quotes"}

\* _build_summary.
Summary(preview) ==
    CASE SaysMissing(preview) -> "not found"
      [] preview = "opaque" -> "metadata only"
      [] OTHER -> "preview"

Worse(k, l) ==
    CASE "HIGH" \in {k, l} -> "HIGH" [] "MEDIUM" \in {k, l} -> "MEDIUM" [] OTHER -> "LOW"

\* Variant: only a title with a term makes a document risky.
RiskByTitle(title, preview) == title

\* _estimate_risk_level: "Failed to read file" has the term "fail" in it.
Risk(title, preview) ==
    CASE SaysMissing(preview) \/ preview = "unreadable" -> "HIGH"
      [] preview \in Level -> Worse(title, preview)
      [] OTHER -> title

\* _build_next_action.
NextAction(task, preview, risk) ==
    CASE SaysMissing(preview) -> "check the path"
      [] ~SaysMissing(preview) /\ ~task -> "link a task"
      [] OTHER -> risk

\* _is_llm_analysis_enabled; ingest_git_commits counts such a commit among the
\* attempts it reports (analysis_llm_count).
Counted(w) == w.of = "commit" /\ w.llm /\ mode.llm /\ mode.key

\* _fallback_analyze_document, _fallback_analyze_commit and _fallback_summary; the
\* analysis of a commit bears no mode.
DocumentByRules(w, preview, name) ==
    LET risk == Risk(w.title, preview)
    IN [mode |-> name, model |-> "rules", summary |-> Summary(preview), risk |-> risk,
        next |-> NextAction(w.task, preview, risk)]
CommitByRules(w) ==
    [mode |-> None, model |-> "rules", summary |-> "message", risk |-> w.text, next |-> w.text]
SummaryByRules(name) == [mode |-> name, model |-> "rules", summary |-> "metrics"]

ByRules(w, preview, name) ==
    CASE w.of = "document" -> DocumentByRules(w, preview, name)
      [] w.of = "commit" -> CommitByRules(w)
      [] w.of = "summary" -> SummaryByRules(name)

\* _normalize_risk_level of document_analysis, of the words in the text.
Normalized(words) ==
    CASE "HIGH" \in words -> "HIGH"
      [] "HIGH" \notin words /\ "MEDIUM" \in words -> "MEDIUM"
      [] words = {"LOW"} -> "LOW"
      [] OTHER -> "MEDIUM"

\* _normalize_risk_level of git_ingestion, which prefers LOW to MEDIUM.
NormalizedOfCommit(words) ==
    CASE "HIGH" \in words -> "HIGH"
      [] "HIGH" \notin words /\ "LOW" \in words -> "LOW"
      [] OTHER -> "MEDIUM"

\* An empty field is replaced; the mode stays "llm" whatever was replaced.
DocumentByModel(summary, words) ==
    [mode |-> "llm", model |-> "main", summary |-> IF summary THEN "model" ELSE "empty",
     risk |-> Normalized(words), next |-> "model"]
CommitByModel(summary, words) ==
    [mode |-> None, model |-> "main", summary |-> IF summary THEN "model" ELSE "message",
     risk |-> NormalizedOfCommit(words), next |-> "model"]
SummaryByModel(summary) ==
    [mode |-> "llm", model |-> "main", summary |-> IF summary THEN "model" ELSE "metrics"]

ByModel(w, summary, words) ==
    CASE w.of = "document" -> DocumentByModel(summary, words)
      [] w.of = "commit" -> CommitByModel(summary, words)
      [] w.of = "summary" -> SummaryByModel(summary)

-----------------------------------------------------------------------------
\* Actions.

\* Variant: the answer bears the mode that is set.
FallbackModeAsSet == "llm"

FallbackMode == "llm_fallback"

\* Every exception of the attempt is answered by the rules.
FallsBack(c, w) ==
    \E preview \in Previews :
        answer' = [answer EXCEPT ![c] = ByRules(w, preview, FallbackMode)]

\* The mode is not "llm"; a summary or a commit without a key is not attempted
\* either, nor is a commit beyond the cap.
WithoutModel(c, w) ==
    /\ \/ ~mode.llm
       \/ w.of # "document" /\ ~mode.key
       \/ w.of = "commit" /\ ~Counted(w)
    /\ \E preview \in Previews :
         answer' = [answer EXCEPT ![c] = ByRules(w, preview, "fallback")]
    /\ at' = [at EXCEPT ![c] = "over"]
    /\ given' = [given EXCEPT ![c] = "empty"]
    /\ UNCHANGED <<kind, billed, usage, pieces, events>>

\* _llm_analyze_document raises without a key, before there is a call.
WithoutKey(c, w) ==
    /\ mode.llm /\ ~mode.key /\ w.of = "document"
    /\ FallsBack(c, w)
    /\ at' = [at EXCEPT ![c] = "over"]
    /\ given' = [given EXCEPT ![c] = "empty"]
    /\ UNCHANGED <<kind, billed, usage, pieces, events>>

\* call_structured is awaited, or does not know the model.
Attempts(c, w) ==
    /\ mode.llm /\ mode.key /\ (w.of = "commit" => Counted(w))
    /\ \/ mode.known /\ Request(c) /\ kind'[c] = "structured" /\ UNCHANGED answer
       \/ ~mode.known /\ UnknownModel(c) /\ FallsBack(c, w)

\* analyze_document, _analyze_commit and generate_workspace_summary, up to the call.
Analyze(c) ==
    /\ at[c] = "new"
    /\ \E w \in Work :
         /\ work' = [work EXCEPT ![c] = w]
         /\ WithoutModel(c, w) \/ WithoutKey(c, w) \/ Attempts(c, w)
    /\ UNCHANGED <<mode, file>>

\* JSON that is no object has no get: AttributeError.
Useful(c, w) ==
    \/ FallsBack(c, w)
    \/ \E summary \in BOOLEAN, words \in SUBSET Level :
         answer' = [answer EXCEPT ![c] = ByModel(w, summary, words)]

\* The call of an analysis ends, and the rest runs without a suspension; a
\* cancellation is no Exception and passes through.
CallEnds(c) ==
    /\ at[c] = "requested" /\ work[c] # None
    /\ \/ Respond(c) /\ Useful(c, work[c])
       \/ /\ StructuredProse(c) \/ Misshapen(c) \/ NullText(c) \/ Fails(c)
          /\ FallsBack(c, work[c])
       \/ Cancel(c) /\ UNCHANGED answer
    /\ UNCHANGED <<mode, file, work>>

\* The other callers of the models.
OtherCall(c) ==
    /\ work[c] = None
    /\ Request(c) \/ UnknownModel(c) \/ Step(c) \/ Cancel(c) \/ Abandon(c)
    /\ UNCHANGED aVars

\* The backend saves, replaces or deletes the file.
FileChanges ==
    /\ file' \in File \ {file}
    /\ UNCHANGED <<mode, work, answer>> /\ UNCHANGED vars

AnalysesNext ==
    \/ \E c \in Call : Analyze(c) \/ CallEnds(c) \/ OtherCall(c)
    \/ FileChanges

AnalysesSpec == AnalysesInit /\ [][AnalysesNext]_<<vars, aVars>>

-----------------------------------------------------------------------------
\* Properties.

\* The answer and the event of one analysis tell the same story.  An answer in
\* the model's name has an event without an error, and an event with an error
\* means an answer by the rules.  With the settings, an answer tells whether a
\* request was sent: one for every commit that the batch counts as attempted, and
\* for every document or summary that is not answered as "fallback" - provided
\* that the model's prefix is known and, as a document without a key is answered
\* as "llm_fallback" too, that there is a key.  Those two failures are in no event
\* of llm_calls.
AnswersAttributed ==
    \A c \in Call : answer[c] # None =>
        LET a == answer[c]
            commit == work[c].of = "commit"
            asked == IF commit THEN Counted(work[c]) ELSE a.mode # "fallback" /\ mode.key
        IN
        /\ ~commit => (a.model = "main" <=> a.mode = "llm")
        /\ events[c] # <<>> <=> asked /\ mode.known
        /\ a.model = "main" =>
             Len(events[c]) = 1 /\ events[c][1].error = None /\ events[c][1].parse_ok
        /\ \A k \in DOMAIN events[c] :
             events[c][k].error # None =>
                 a.model = "rules" /\ (~commit => a.mode = "llm_fallback")

\* What the rules say of one document rests on one reading of its file, however
\* often the file has changed since the prompt was made: an answer that has not
\* found the file is urgent and asks for its path, and one that asks for the
\* path has not found it.
MissingIsUrgent ==
    \A c \in Call :
        (answer[c] # None /\ work[c].of = "document" /\ answer[c].model = "rules") =>
            /\ answer[c].summary = "not found" <=> answer[c].next = "check the path"
            /\ answer[c].summary = "not found" => answer[c].risk = "HIGH"
=============================================================================
